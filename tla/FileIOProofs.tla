---------------------------- MODULE FileIOProofs ----------------------------
(***************************************************************************)
(* What the page cache, the sizes and the positions of FileIO promise, for *)
(* any number of writers, mappers, seekers and pages.                      *)
(*                                                                         *)
(* A page that a fault takes as it is equals the page of the lower file.   *)
(* Three facts make this so:                                               *)
(*   - the page is locked from the copying until it is marked up to date,  *)
(*     by readpage and by writepage;                                       *)
(*   - a writer changes the lower file first and then marks, and waits for *)
(*     the lock of each page it marks; a page without a lock to wait for   *)
(*     is not in the cache, and then not up to date;                       *)
(*   - a store makes the page dirty.                                       *)
(***************************************************************************)
EXTENDS FileIO, TLAPS

Labels == {"idle", "vfs_write", "outdate", "write_end", "readpage",
           "readpage_out", "writepage", "writepage_out", "fail"}

PageType == [in : BOOLEAN, uptodate : BOOLEAN, dirty : BOOLEAN,
             pinned : BOOLEAN, data : SUBSET Nat]
JobType  == [len : Nat, at : Nat, append : BOOLEAN, page : Nat]

FileTypeOK ==
    /\ lower \in [Pages -> SUBSET Nat]
    /\ lsize \in Nat /\ usize \in Nat
    /\ page \in [Pages -> PageType]
    /\ lock \in [Pages -> Threads \cup {Nobody}]
    /\ i_mutex \in Procs \cup {Nobody}
    /\ kind \in [Seekers -> {"file", "dir"}]
    /\ pos \in [Seekers -> [up : Nat, low : Nat]]
    /\ vma \in [Mappers -> {"none", "ro", "rw"}]
    /\ pte \in [Mappers -> SUBSET Pages]
    /\ pc \in [Threads -> Labels]
    /\ job \in [Threads -> JobType]
    /\ count \in Nat

\* dazukofs_write() holds i_mutex of the upper inode from its first step to
\* its last
MutexOK ==
    /\ \A t \in Threads : pc[t] \in {"vfs_write", "outdate", "write_end"}
                            => i_mutex = t
    /\ i_mutex = Nobody => usize = lsize

\* the loop of mark_pages_outdated() stays within the file
LoopOK ==
    \A t \in Threads :
        pc[t] = "outdate" => /\ job[t].at \in Positions
                             /\ job[t].page \in Pages
                             /\ job[t].page <= PageOf(job[t].at)

\* readpage and writepage hold the lock of the page they work at; only the
\* flusher is in writepage
PageLockOK ==
    /\ \A t \in Threads :
          pc[t] \in {"readpage", "readpage_out", "writepage", "writepage_out", "fail"}
            => job[t].page \in Pages /\ lock[job[t].page] = t
    /\ \A t \in Procs : pc[t] \notin {"writepage", "writepage_out", "fail"}

\* what is up to date, dirty, locked or mapped is in the page cache
CachedOK ==
    /\ \A i \in Pages : page[i].uptodate \/ page[i].dirty \/ lock[i] # Nobody
                          => page[i].in
    /\ \A p \in Mappers : \A i \in pte[p] : page[i].in

\* page i has been copied and its lock is held, or it is up to date
Copied(i) ==
    \/ page[i].uptodate /\ lock[i] = Nobody
    \/ \E t \in Threads : /\ pc[t] \in {"readpage_out", "writepage_out"}
                          /\ job[t].page = i

DataOK ==
    \A i \in Pages : Copied(i) /\ ~page[i].dirty /\ ~ToBeOutdated(i)
                       => page[i].data = lower[i]

\* Inductive for all values of the constants.
FileInv == FileTypeOK /\ MutexOK /\ LoopOK /\ PageLockOK /\ CachedOK

\* grab_cache_page() of a lower page succeeds; dazukofs_setattr() cuts off
\* no page (it never drops the pages of the upper inode)
NoFailedWriteback == FALSE \notin Grabs
NoPageCutOff == \A n \in TruncateTo : \A i \in Pages : i * PAGE_SIZE < n

\* Inductive under the two assumptions.
DataInv == FileInv /\ DataOK /\ pc[Flusher] # "fail"
-----------------------------------------------------------------------------
\* n >> PAGE_SHIFT is a page number, and does not decrease when n grows.
LEMMA PageOfNat ==
    ASSUME NEW n \in Nat
    PROVE  PageOf(n) \in Nat
<1>1. PAGE_SIZE \in Nat /\ PAGE_SIZE > 0
  BY FileAssumption
<1> QED
  BY <1>1, SMT DEF PageOf

LEMMA PageOfMonotone ==
    ASSUME NEW m \in Nat, NEW n \in Nat, m <= n
    PROVE  PageOf(m) <= PageOf(n)
<1>1. PAGE_SIZE \in Nat /\ PAGE_SIZE > 0
  BY FileAssumption
<1> QED
  BY <1>1, SMT DEF PageOf
-----------------------------------------------------------------------------
(***************************************************************************)
(* Types: updates of one field of one page, position or job.               *)
(***************************************************************************)
LEMMA PosUpdate ==
    ASSUME NEW f \in [Seekers -> [up : Nat, low : Nat]], NEW p, NEW n \in Nat
    PROVE  /\ [f EXCEPT ![p].up = n] \in [Seekers -> [up : Nat, low : Nat]]
           /\ [f EXCEPT ![p].low = n] \in [Seekers -> [up : Nat, low : Nat]]
<1>1. CASE p \in Seekers
  <2>1. /\ [f[p] EXCEPT !.up = n] \in [up : Nat, low : Nat]
        /\ [f[p] EXCEPT !.low = n] \in [up : Nat, low : Nat]
    BY <1>1
  <2> QED
    BY <1>1, <2>1
<1>2. CASE p \notin Seekers
  BY <1>2
<1> QED
  BY <1>1, <1>2

LEMMA PageUpdate ==
    ASSUME NEW f \in [Pages -> PageType], NEW i \in Pages,
           NEW b \in BOOLEAN, NEW c \in BOOLEAN, NEW d \in SUBSET Nat
    PROVE  /\ [f EXCEPT ![i].in = b] \in [Pages -> PageType]
           /\ [f EXCEPT ![i].uptodate = b] \in [Pages -> PageType]
           /\ [f EXCEPT ![i].dirty = b] \in [Pages -> PageType]
           /\ [f EXCEPT ![i].data = d] \in [Pages -> PageType]
           /\ [f EXCEPT ![i].data = d, ![i].dirty = b] \in [Pages -> PageType]
           /\ [f EXCEPT ![i].uptodate = b, ![i].pinned = c] \in [Pages -> PageType]
<1>1. /\ [f[i] EXCEPT !.in = b] \in PageType
      /\ [f[i] EXCEPT !.uptodate = b] \in PageType
      /\ [f[i] EXCEPT !.dirty = b] \in PageType
      /\ [f[i] EXCEPT !.data = d] \in PageType
      /\ [f[i] EXCEPT !.data = d, !.dirty = b] \in PageType
      /\ [f[i] EXCEPT !.uptodate = b, !.pinned = c] \in PageType
  BY DEF PageType
<1> QED
  BY <1>1

LEMMA JobUpdate ==
    ASSUME NEW f \in [Threads -> JobType], NEW t \in Threads, NEW n \in Nat,
           NEW e \in Nat
    PROVE  /\ [f EXCEPT ![t].page = n] \in [Threads -> JobType]
           /\ [f EXCEPT ![t].at = e, ![t].page = n] \in [Threads -> JobType]
           /\ [f EXCEPT ![t] = NoJob] \in [Threads -> JobType]
<1>1. /\ [f[t] EXCEPT !.page = n] \in JobType
      /\ [f[t] EXCEPT !.at = e, !.page = n] \in JobType
      /\ NoJob \in JobType
  BY DEF JobType, NoJob
<1> QED
  BY <1>1

LEMMA TypeInit == FileInit => FileTypeOK
<1> SUFFICES ASSUME FileInit PROVE FileTypeOK
  OBVIOUS
<1>1. NoPage \in PageType /\ NoJob \in JobType
  BY DEF NoPage, NoJob, PageType, JobType
<1>2. PAGE_SIZE \in Nat
  BY FileAssumption
<1> QED
  BY <1>1, <1>2 DEF FileInit, FileTypeOK, Labels

LEMMA TypeStep ==
    FileTypeOK /\ LoopOK /\ PageLockOK /\ [FileNext]_fileVars => FileTypeOK'
<1> SUFFICES ASSUME FileTypeOK, LoopOK, PageLockOK, [FileNext]_fileVars
             PROVE  FileTypeOK'
  OBVIOUS
<1> USE FileAssumption DEF FileTypeOK, lowerVars, cacheVars
<1>1. ASSUME NEW p \in Seekers, NEW at \in {0, pos[p].up}, NEW pread \in BOOLEAN,
             Read(p, at, 1, pread)
      PROVE  FileTypeOK'
  BY <1>1 DEF Read
<1>2. ASSUME NEW p \in Seekers, SeekCur(p)
      PROVE  FileTypeOK'
  BY <1>2 DEF SeekCur, Seek, HandDown, MoveTo
<1>3. ASSUME NEW p \in Seekers, SeekEnd(p)
      PROVE  FileTypeOK'
  BY <1>3 DEF SeekEnd, Seek, MoveTo
<1>4. ASSUME NEW p \in Seekers, SeekSet(p)
      PROVE  FileTypeOK'
  BY <1>4 DEF SeekSet, Seek, MoveTo
<1>5. ASSUME NEW p \in Seekers, Readdir(p)
      PROVE  FileTypeOK'
  BY <1>5 DEF Readdir, HandDown, MoveTo
<1>6. ASSUME NEW p \in Seekers, Rewinddir(p)
      PROVE  FileTypeOK'
  BY <1>6, PosUpdate DEF Rewinddir
<1>7. ASSUME NEW p \in Writers, NEW at \in Nat, NEW append \in BOOLEAN,
             WriteLock(p, at, PAGE_SIZE, append)
      PROVE  FileTypeOK'
  BY <1>7 DEF WriteLock, Goto, Threads, Procs, Labels, JobType, NoJob
<1>8. ASSUME NEW p \in Writers, NEW ret \in Positions, VfsWrite(p, ret)
      PROVE  FileTypeOK'
  <2> DEFINE at == IF job[p].append THEN lsize ELSE job[p].at
  <2>1. job[p] \in JobType /\ p \in Threads /\ at \in Nat /\ at + ret \in Nat
    BY DEF Threads, Procs, JobType, Positions
  <2>2. pos' \in [Seekers -> [up : Nat, low : Nat]]
    BY <1>8, <2>1, PosUpdate DEF VfsWrite, SetLow
  <2>3. job' \in [Threads -> JobType]
    <3>1. (at + ret) - ret = at
      BY <2>1 DEF Positions
    <3>2. FirstOutdated(at + ret, ret) \in Nat
      BY <2>1, <3>1, PageOfNat DEF FirstOutdated
    <3> QED
      BY <1>8, <2>1, <3>2, JobUpdate DEF VfsWrite
  <2>4. lower' \in [Pages -> SUBSET Nat]
    BY <1>8 DEF VfsWrite
  <2>5. lsize' \in Nat
    BY <1>8, <2>1 DEF VfsWrite
  <2> QED
    BY <1>8, <2>1, <2>2, <2>3, <2>4, <2>5 DEF VfsWrite, Goto, Labels
<1>9. ASSUME NEW p \in Writers, VfsWriteNothing(p)
      PROVE  FileTypeOK'
  <2>1. job[p] \in JobType /\ p \in Threads /\ job[p].at \in Nat
    BY DEF Threads, Procs, JobType
  <2>2. pos' \in [Seekers -> [up : Nat, low : Nat]]
    BY <1>9, <2>1, PosUpdate DEF VfsWriteNothing, SetLow
  <2> QED
    BY <1>9, <2>1, <2>2 DEF VfsWriteNothing, Goto, Labels
<1>10. ASSUME NEW p \in Writers, MarkOutdated(p)
       PROVE  FileTypeOK'
  <2>1. job[p] \in JobType /\ p \in Threads /\ job[p].page \in Nat
    BY DEF Threads, Procs, JobType
  <2>2. job[p].page \in Pages
    BY <1>10, <2>1 DEF MarkOutdated, LoopOK
  <2>3. page' \in [Pages -> PageType]
    BY <1>10, <2>2, PageUpdate DEF MarkOutdated
  <2>4. job' \in [Threads -> JobType]
    <3>1. job[p].page + 1 \in Nat
      BY <2>1
    <3>2. [job EXCEPT ![p].page = job[p].page + 1] \in [Threads -> JobType]
      BY <2>1, <3>1, JobUpdate
    <3> QED
      BY <1>10, <3>2 DEF MarkOutdated
  <2> QED
    BY <1>10, <2>1, <2>3, <2>4 DEF MarkOutdated, Goto, Labels
<1>11. ASSUME NEW p \in Writers, WriteEnd(p)
       PROVE  FileTypeOK'
  <2>1. job[p] \in JobType /\ p \in Threads /\ job[p].at \in Nat
    BY DEF Threads, Procs, JobType
  <2>2. pos' \in [Seekers -> [up : Nat, low : Nat]]
    BY <1>11, <2>1, PosUpdate DEF WriteEnd, SetUp
  <2>3. job' \in [Threads -> JobType]
    BY <1>11, <2>1, JobUpdate DEF WriteEnd
  <2> QED
    BY <1>11, <2>1, <2>2, <2>3 DEF WriteEnd, Goto, Labels
<1>12. ASSUME NEW p \in Mappers, NEW m \in Mmaps, Mmap(p, m)
       PROVE  FileTypeOK'
  BY <1>12 DEF Mmap
<1>13. ASSUME NEW p \in Mappers, Munmap(p)
       PROVE  FileTypeOK'
  BY <1>13 DEF Munmap
<1>14. ASSUME NEW p \in Mappers, NEW i \in Pages, MapPage(p, i)
       PROVE  FileTypeOK'
  BY <1>14 DEF MapPage
<1>15. ASSUME NEW p \in Mappers, NEW i \in Pages, FaultIn(p, i)
       PROVE  FileTypeOK'
  <2>1. p \in Threads /\ i \in Nat
    BY DEF Threads, Procs, Pages
  <2>2. page' \in [Pages -> PageType] /\ job' \in [Threads -> JobType]
    BY <1>15, <2>1, PageUpdate, JobUpdate DEF FaultIn
  <2> QED
    BY <1>15, <2>1, <2>2 DEF FaultIn, Goto, Labels
<1>16. ASSUME NEW p \in Mappers, NEW i \in Pages, Store(p, i)
       PROVE  FileTypeOK'
  <2>1. page[i].data \cup {count + 1} \in SUBSET Nat
    BY DEF PageType
  <2>2. page' \in [Pages -> PageType]
    BY <1>16, <2>1, PageUpdate DEF Store
  <2> QED
    BY <1>16, <2>2 DEF Store
<1>17. ASSUME NEW p \in Mappers, ReadLower(p)
       PROVE  FileTypeOK'
  <2>1. p \in Threads /\ pc[p] = "readpage"
    BY <1>17 DEF Threads, Procs, ReadLower
  <2>2. job[p].page \in Pages
    BY <2>1 DEF PageLockOK
  <2>3. page' \in [Pages -> PageType]
    BY <1>17, <2>2, PageUpdate, ZenonT(60) DEF ReadLower
  <2> QED
    BY <1>17, <2>1, <2>3 DEF ReadLower, Goto, Labels
<1>18. ASSUME NEW p \in Mappers, NEW err \in BOOLEAN, ReadpageOut(p, err)
       PROVE  FileTypeOK'
  <2>1. p \in Threads /\ pc[p] \in {"readpage", "readpage_out"}
    BY <1>18 DEF Threads, Procs, ReadpageOut
  <2>2. job[p].page \in Pages
    BY <2>1 DEF PageLockOK
  <2>3. page' \in [Pages -> PageType]
    <3>1. (~err) \in BOOLEAN
      OBVIOUS
    <3>2. [page EXCEPT ![job[p].page].uptodate = ~err] \in [Pages -> PageType]
      BY <2>2, <3>1, PageUpdate, ZenonT(60)
    <3> QED
      BY <1>18, <3>2 DEF ReadpageOut
  <2>4. job' \in [Threads -> JobType]
    BY <1>18, <2>1, JobUpdate DEF ReadpageOut
  <2> QED
    BY <1>18, <2>1, <2>2, <2>3, <2>4 DEF ReadpageOut, ReadpageUnlock, Unlock, Goto, Labels
<1>19. ASSUME NEW n \in TruncateTo, Truncate(n)
       PROVE  FileTypeOK'
  BY <1>19 DEF Truncate
<1>20. ASSUME NEW i \in Pages, StartWriteback(i)
       PROVE  FileTypeOK'
  <2>1. Flusher \in Threads /\ i \in Nat
    BY DEF Threads, Pages
  <2>2. page' \in [Pages -> PageType] /\ job' \in [Threads -> JobType]
    BY <1>20, <2>1, PageUpdate, JobUpdate, ZenonT(60) DEF StartWriteback
  <2> QED
    BY <1>20, <2>1, <2>2 DEF StartWriteback, Goto, Labels
<1>21. ASSUME NEW i \in Pages, Reclaim(i)
       PROVE  FileTypeOK'
  BY <1>21 DEF Reclaim, NoPage, PageType
<1>22. ASSUME NEW ok \in Grabs, WriteLower(ok)
       PROVE  FileTypeOK'
  BY <1>22 DEF WriteLower, Goto, Threads, Labels, PageType
<1>23. ASSUME WritepageOut
       PROVE  FileTypeOK'
  <2>1. Flusher \in Threads /\ pc[Flusher] \in {"writepage_out", "fail"}
    BY <1>23 DEF Threads, WritepageOut
  <2>2. job[Flusher].page \in Pages
    BY <2>1 DEF PageLockOK
  <2>3. page' \in [Pages -> PageType] /\ job' \in [Threads -> JobType]
    BY <1>23, <2>1, <2>2, PageUpdate, JobUpdate, ZenonT(60) DEF WritepageOut
  <2> QED
    BY <1>23, <2>1, <2>2, <2>3 DEF WritepageOut, Unlock, Goto, Labels
<1>24. CASE UNCHANGED fileVars
  BY <1>24 DEF fileVars
<1>25. ASSUME NEW p \in Seekers, SeekCall(p)
       PROVE  FileTypeOK'
  BY <1>1, <1>2, <1>3, <1>4, <1>5, <1>6, <1>25 DEF SeekCall
<1>26. ASSUME NEW p \in Writers, WriteCall(p) \/ WriteStep(p)
       PROVE  FileTypeOK'
  <2>1. ASSUME NEW at \in {0, PAGE_SIZE} \cup {pos[q].up : q \in {p} \cap Seekers}
        PROVE  at \in Nat
    OBVIOUS
  <2> QED
    BY <1>7, <1>8, <1>9, <1>10, <1>11, <1>26, <2>1 DEF WriteCall, WriteStep
<1>27. ASSUME NEW p \in Mappers, MapCall(p) \/ ReadpageStep(p)
       PROVE  FileTypeOK'
  BY <1>12, <1>13, <1>14, <1>15, <1>16, <1>17, <1>18, <1>27 DEF MapCall, ReadpageStep
<1> HIDE DEF FileTypeOK
<1> QED
  BY <1>19, <1>20, <1>21, <1>22, <1>23, <1>24, <1>25, <1>26, <1>27
     DEF FileNext, WritepageStep
-----------------------------------------------------------------------------
(***************************************************************************)
(* Every step is one of those that work on sizes, pages and locks, or      *)
(* leaves them all alone.                                                  *)
(***************************************************************************)

\* seeks, mmap(2), munmap(2) and the mapping of a page that is there
PagesUntouched ==
    /\ UNCHANGED <<lower, lsize, usize, page, lock, i_mutex, pc, job>>
    /\ \A p \in Mappers : \A i \in pte'[p] : i \in pte[p] \/ page[i].in

WriterStep(p) ==
    \/ \E at \in Nat, append \in BOOLEAN : WriteLock(p, at, PAGE_SIZE, append)
    \/ \E ret \in Positions : VfsWrite(p, ret)
    \/ VfsWriteNothing(p) \/ MarkOutdated(p) \/ WriteEnd(p)

MapperStep(p) ==
    \/ \E i \in Pages : FaultIn(p, i) \/ Store(p, i)
    \/ ReadLower(p)
    \/ \E err \in BOOLEAN : ReadpageOut(p, err)

CacheStep ==
    \/ \E i \in Pages : StartWriteback(i) \/ Reclaim(i)
    \/ \E ok \in Grabs : WriteLower(ok)
    \/ WritepageOut

LEMMA StepCases ==
    ASSUME FileTypeOK, [FileNext]_fileVars
    PROVE  \/ PagesUntouched
           \/ \E p \in Writers : WriterStep(p)
           \/ \E p \in Mappers : MapperStep(p)
           \/ \E n \in TruncateTo : Truncate(n)
           \/ CacheStep
<1>1. CASE UNCHANGED fileVars
  BY <1>1 DEF fileVars, PagesUntouched
<1>2. ASSUME NEW p \in Seekers, SeekCall(p)
      PROVE  PagesUntouched
  BY <1>2 DEF SeekCall, Read, SeekCur, SeekSet, SeekEnd, Seek, Readdir, Rewinddir,
              lowerVars, cacheVars, PagesUntouched
<1>3. ASSUME NEW p \in Writers, WriteCall(p) \/ WriteStep(p)
      PROVE  WriterStep(p)
  <2>1. ASSUME NEW at \in {0, PAGE_SIZE} \cup {pos[q].up : q \in {p} \cap Seekers}
        PROVE  at \in Nat
    BY FileAssumption DEF FileTypeOK
  <2> QED
    BY <1>3, <2>1 DEF WriteCall, WriteStep, WriterStep
<1>4. ASSUME NEW p \in Mappers, MapCall(p) \/ ReadpageStep(p)
      PROVE  PagesUntouched \/ MapperStep(p)
  <2>1. ASSUME NEW m \in Mmaps, Mmap(p, m)
        PROVE  PagesUntouched
    BY <2>1 DEF Mmap, lowerVars, PagesUntouched
  <2>2. ASSUME Munmap(p)
        PROVE  PagesUntouched
    BY <2>2 DEF Munmap, lowerVars, PagesUntouched, FileTypeOK
  <2>3. ASSUME NEW i \in Pages, MapPage(p, i)
        PROVE  PagesUntouched
    BY <2>3 DEF MapPage, lowerVars, PagesUntouched, FileTypeOK
  <2> QED
    BY <1>4, <2>1, <2>2, <2>3 DEF MapCall, ReadpageStep, MapperStep
<1> QED
  BY <1>1, <1>2, <1>3, <1>4 DEF FileNext, WritepageStep, CacheStep
-----------------------------------------------------------------------------
(***************************************************************************)
(* i_mutex, sizes and the loop of mark_pages_outdated().                   *)
(***************************************************************************)
LEMMA MutexStep ==
    ASSUME FileTypeOK, MutexOK, PageLockOK, [FileNext]_fileVars
    PROVE  MutexOK'
<1> USE FileAssumption DEF FileTypeOK, MutexOK, Goto, lowerVars, cacheVars
<1>1. CASE PagesUntouched
  BY <1>1 DEF PagesUntouched
<1>2. ASSUME NEW p \in Writers, WriterStep(p)
      PROVE  MutexOK'
  <2>1. p \in Threads /\ p # Nobody
    BY DEF Threads, Procs
  <2>2. ASSUME NEW at \in Nat, NEW append \in BOOLEAN,
               WriteLock(p, at, PAGE_SIZE, append)
        PROVE  MutexOK'
    <3>1. \A t \in Threads : pc[t] \notin {"vfs_write", "outdate", "write_end"}
      BY <2>2 DEF WriteLock, Threads
    <3>2. i_mutex' = p /\ pc' = [pc EXCEPT ![p] = "vfs_write"]
      BY <2>2 DEF WriteLock
    <3> QED
      BY <2>1, <3>1, <3>2
  <2>3. ASSUME NEW ret \in Positions, VfsWrite(p, ret)
        PROVE  MutexOK'
    BY <2>1, <2>3 DEF VfsWrite
  <2>4. ASSUME VfsWriteNothing(p) \/ MarkOutdated(p)
        PROVE  MutexOK'
    BY <2>1, <2>4 DEF VfsWriteNothing, MarkOutdated
  <2>5. ASSUME WriteEnd(p)
        PROVE  MutexOK'
    <3>1. i_mutex = p
      BY <2>1, <2>5 DEF WriteEnd
    <3> QED
      BY <2>1, <2>5, <3>1 DEF WriteEnd
  <2> HIDE DEF MutexOK
  <2> QED
    BY <1>2, <2>2, <2>3, <2>4, <2>5 DEF WriterStep
<1>3. ASSUME NEW p \in Mappers, MapperStep(p)
      PROVE  MutexOK'
  BY <1>3, ZenonT(60) DEF MapperStep, FaultIn, Store, ReadLower, ReadpageOut, Threads, Procs
<1>4. ASSUME NEW n \in TruncateTo, Truncate(n)
      PROVE  MutexOK'
  BY <1>4 DEF Truncate
<1>5. CASE CacheStep
  BY <1>5 DEF CacheStep, StartWriteback, Reclaim, WriteLower, WritepageOut, Threads
<1> HIDE DEF MutexOK
<1> QED
  BY <1>1, <1>2, <1>3, <1>4, <1>5, StepCases

LEMMA LoopStep ==
    ASSUME FileTypeOK, LoopOK, [FileNext]_fileVars
    PROVE  LoopOK'
<1> USE FileAssumption DEF FileTypeOK, LoopOK, Goto, lowerVars, cacheVars
<1>1. CASE PagesUntouched
  BY <1>1 DEF PagesUntouched
<1>2. ASSUME NEW p \in Writers, WriterStep(p)
      PROVE  LoopOK'
  <2>1. p \in Threads /\ job[p] \in JobType
    BY DEF Threads, Procs
  <2>2. CASE \/ \E at \in Nat, append \in BOOLEAN :
                 WriteLock(p, at, PAGE_SIZE, append)
             \/ VfsWriteNothing(p) \/ WriteEnd(p)
    BY <2>1, <2>2, ZenonT(60) DEF WriteLock, VfsWriteNothing, WriteEnd
  <2>3. ASSUME NEW ret \in Positions, VfsWrite(p, ret)
        PROVE  LoopOK'
    <3> DEFINE at == IF job[p].append THEN lsize ELSE job[p].at
    <3>1. /\ at \in Nat /\ at + ret \in Positions /\ (at + ret) - ret = at
          /\ at <= at + ret
      BY <2>1, <2>3 DEF VfsWrite, Positions, JobType
    <3>2. /\ PageOf(at) \in Nat /\ PageOf(at) <= PageOf(at + ret)
          /\ PageOf(at + ret) <= PageOf(MaxSize) /\ PageOf(MaxSize) \in Nat
          /\ PageOf(at + ret) \in Nat
      BY <3>1, PageOfNat, PageOfMonotone DEF Positions
    <3>3. PageOf(at) \in Pages
      BY <3>2 DEF Pages
    <3>4. job' = [job EXCEPT ![p].at = at + ret, ![p].page = PageOf(at)]
      BY <2>3, <3>1 DEF VfsWrite, FirstOutdated
    <3>5. job'[p].at = at + ret /\ job'[p].page = PageOf(at)
      BY <2>1, <3>4 DEF JobType
    <3>6. \A t \in Threads : t # p => job'[t] = job[t] /\ pc'[t] = pc[t]
      BY <2>1, <2>3, <3>4 DEF VfsWrite
    <3> QED
      BY <3>1, <3>2, <3>3, <3>5, <3>6
  <2>4. ASSUME MarkOutdated(p)
        PROVE  LoopOK'
    <3>1. /\ pc[p] = "outdate" /\ job[p].page \in Nat /\ job[p].page \in Pages
          /\ job[p].at \in Positions
      BY <2>1, <2>4 DEF MarkOutdated, JobType
    <3>2. PageOf(job[p].at) <= PageOf(MaxSize)
          /\ PageOf(job[p].at) \in Nat /\ PageOf(MaxSize) \in Nat
      BY <3>1, PageOfNat, PageOfMonotone DEF Positions
    <3>3. CASE job[p].page < PageOf(job[p].at)
      <4>1. job' = [job EXCEPT ![p].page = job[p].page + 1] /\ pc' = pc
        BY <2>4, <3>3 DEF MarkOutdated, LastOutdated
      <4>2. job'[p].page = job[p].page + 1 /\ job'[p].at = job[p].at
        BY <2>1, <4>1 DEF JobType
      <4>3. job[p].page + 1 \in Pages /\ job[p].page + 1 <= PageOf(job[p].at)
        BY <3>1, <3>2, <3>3 DEF Pages
      <4> QED
        BY <2>1, <3>1, <4>1, <4>2, <4>3
    <3>4. CASE ~(job[p].page < PageOf(job[p].at))
      BY <2>1, <2>4, <3>4 DEF MarkOutdated, LastOutdated
    <3> QED
      BY <3>3, <3>4
  <2> HIDE DEF LoopOK
  <2> QED
    BY <1>2, <2>2, <2>3, <2>4 DEF WriterStep
<1>3. ASSUME NEW p \in Mappers, MapperStep(p)
      PROVE  LoopOK'
  BY <1>3, ZenonT(60) DEF MapperStep, FaultIn, Store, ReadLower, ReadpageOut, Threads, Procs
<1>4. ASSUME NEW n \in TruncateTo, Truncate(n)
      PROVE  LoopOK'
  BY <1>4 DEF Truncate
<1>5. CASE CacheStep
  BY <1>5 DEF CacheStep, StartWriteback, Reclaim, WriteLower, WritepageOut, Threads
<1> HIDE DEF LoopOK
<1> QED
  BY <1>1, <1>2, <1>3, <1>4, <1>5, StepCases
-----------------------------------------------------------------------------
(***************************************************************************)
(* Page locks and what is in the page cache.                               *)
(***************************************************************************)
LEMMA PageLockStep ==
    ASSUME FileTypeOK, LoopOK, PageLockOK, [FileNext]_fileVars
    PROVE  PageLockOK'
<1> USE FileAssumption DEF FileTypeOK, PageLockOK, Goto, Unlock, lowerVars, cacheVars
<1>1. CASE PagesUntouched
  BY <1>1 DEF PagesUntouched
<1>2. ASSUME NEW p \in Writers, WriterStep(p)
      PROVE  PageLockOK'
  <2>1. p \in Threads /\ p \in Procs /\ lock' = lock
    BY <1>2 DEF WriterStep, WriteLock, VfsWrite, VfsWriteNothing, MarkOutdated,
                WriteEnd, Threads, Procs
  <2>2. pc'[p] \in {"idle", "vfs_write", "outdate", "write_end"}
    <3>1. \A l \in Labels : Goto(p, l) => pc'[p] = l
      BY <2>1
    <3> HIDE DEF Goto
    <3>2. MarkOutdated(p) => pc'[p] \in {"outdate", "write_end"}
      BY <3>1 DEF MarkOutdated, Labels
    <3> QED
      BY <1>2, <3>1, <3>2 DEF WriterStep, WriteLock, VfsWrite, VfsWriteNothing,
                              WriteEnd, Labels
  <2>3. \A t \in Threads : t # p => pc'[t] = pc[t] /\ job'[t] = job[t]
    <3>1. CASE \E at \in Nat, append \in BOOLEAN :
                  WriteLock(p, at, PAGE_SIZE, append)
      BY <3>1 DEF WriteLock
    <3>2. CASE \E ret \in Positions : VfsWrite(p, ret)
      BY <3>2 DEF VfsWrite
    <3>3. CASE MarkOutdated(p)
      BY <3>3 DEF MarkOutdated
    <3>4. CASE VfsWriteNothing(p) \/ WriteEnd(p)
      BY <3>4 DEF VfsWriteNothing, WriteEnd
    <3> QED
      BY <1>2, <3>1, <3>2, <3>3, <3>4 DEF WriterStep
  <2> QED
    BY <2>1, <2>2, <2>3 DEF Threads
<1>3. ASSUME NEW p \in Mappers, MapperStep(p)
      PROVE  PageLockOK'
  <2>1. p \in Threads /\ p \in Procs /\ p # Flusher /\ p # Nobody
        /\ job[p] \in JobType
    BY DEF Threads, Procs
  <2>2. ASSUME NEW i \in Pages, FaultIn(p, i)
        PROVE  PageLockOK'
    <3>1. /\ job'[p].page = i /\ lock'[i] = p /\ lock[i] = Nobody
          /\ pc'[p] = "readpage"
          /\ \A t \in Threads : t # p => pc'[t] = pc[t] /\ job'[t] = job[t]
          /\ \A j \in Pages : j # i => lock'[j] = lock[j]
      BY <2>1, <2>2 DEF FaultIn, JobType
    <3> QED
      BY <2>1, <3>1 DEF Threads
  <2>3. ASSUME NEW i \in Pages, Store(p, i)
        PROVE  PageLockOK'
    BY <2>3 DEF Store
  <2>4. ASSUME ReadLower(p)
        PROVE  PageLockOK'
    BY <2>1, <2>4 DEF ReadLower
  <2>5. ASSUME NEW err \in BOOLEAN, ReadpageOut(p, err)
        PROVE  PageLockOK'
    <3>1. pc[p] \in {"readpage", "readpage_out"}
      BY <2>5 DEF ReadpageOut
    <3>2. /\ pc'[p] = "idle"
          /\ \A t \in Threads : t # p => pc'[t] = pc[t] /\ job'[t] = job[t]
          /\ \A j \in Pages : lock[j] # p => lock'[j] = lock[j]
      BY <2>1, <2>5, <3>1 DEF ReadpageOut, ReadpageUnlock
    <3> QED
      BY <2>1, <3>2 DEF Threads
  <2> HIDE DEF PageLockOK
  <2> QED
    BY <1>3, <2>2, <2>3, <2>4, <2>5 DEF MapperStep
<1>4. ASSUME NEW n \in TruncateTo, Truncate(n)
      PROVE  PageLockOK'
  BY <1>4 DEF Truncate
<1>5. CASE CacheStep
  <2>1. Flusher \in Threads /\ Flusher \notin Procs /\ Flusher # Nobody
        /\ job[Flusher] \in JobType
    BY DEF Threads
  <2>2. ASSUME NEW i \in Pages, StartWriteback(i)
        PROVE  PageLockOK'
    <3>1. /\ job'[Flusher].page = i /\ lock'[i] = Flusher /\ lock[i] = Nobody
          /\ pc'[Flusher] = "writepage"
          /\ \A t \in Threads : t # Flusher => pc'[t] = pc[t] /\ job'[t] = job[t]
          /\ \A j \in Pages : j # i => lock'[j] = lock[j]
      BY <2>1, <2>2 DEF StartWriteback, JobType
    <3> QED
      BY <2>1, <3>1 DEF Threads
  <2>3. ASSUME NEW i \in Pages, Reclaim(i)
        PROVE  PageLockOK'
    BY <2>3 DEF Reclaim
  <2>4. ASSUME NEW ok \in Grabs, WriteLower(ok)
        PROVE  PageLockOK'
    <3>1. /\ pc[Flusher] = "writepage"
          /\ pc'[Flusher] \in {"writepage_out", "fail"}
          /\ \A t \in Threads : t # Flusher => pc'[t] = pc[t]
          /\ job' = job /\ lock' = lock
      BY <2>1, <2>4 DEF WriteLower
    <3> QED
      BY <2>1, <3>1 DEF Threads
  <2>5. ASSUME WritepageOut
        PROVE  PageLockOK'
    <3>1. pc[Flusher] \in {"writepage_out", "fail"}
      BY <2>5 DEF WritepageOut
    <3>2. /\ pc'[Flusher] = "idle"
          /\ \A t \in Threads : t # Flusher => pc'[t] = pc[t] /\ job'[t] = job[t]
          /\ \A j \in Pages : lock[j] # Flusher => lock'[j] = lock[j]
      BY <2>1, <2>5, <3>1 DEF WritepageOut
    <3> QED
      BY <2>1, <3>2 DEF Threads
  <2> HIDE DEF PageLockOK
  <2> QED
    BY <1>5, <2>2, <2>3, <2>4, <2>5 DEF CacheStep
<1> HIDE DEF PageLockOK
<1> QED
  BY <1>1, <1>2, <1>3, <1>4, <1>5, StepCases

LEMMA CachedStep ==
    ASSUME FileTypeOK, LoopOK, PageLockOK, CachedOK, [FileNext]_fileVars
    PROVE  CachedOK'
<1> USE FileAssumption DEF FileTypeOK, Goto, Unlock, lowerVars, cacheVars
\* the flags of the page k may change, and it is in the cache afterwards
<1>1. ASSUME NEW k \in Pages, page'[k].in,
             \A j \in Pages : j # k => page'[j] = page[j] /\ lock'[j] = lock[j],
             pte' = pte
      PROVE  CachedOK'
  BY <1>1 DEF CachedOK
<1>2. ASSUME page' = page, lock' = lock,
             \A p \in Mappers : \A i \in pte'[p] : i \in pte[p] \/ page[i].in
      PROVE  CachedOK'
  BY <1>2 DEF CachedOK
<1>3. CASE PagesUntouched
  BY <1>2, <1>3 DEF PagesUntouched
<1>4. ASSUME NEW p \in Writers, WriterStep(p)
      PROVE  CachedOK'
  <2>1. CASE MarkOutdated(p)
    <3>1. PICK k \in Pages : k = job[p].page
      BY <2>1 DEF MarkOutdated, LoopOK, Threads, Procs
    <3>2. CASE page[k].in
      <4>1. /\ page'[k].in
            /\ \A j \in Pages : j # k => page'[j] = page[j] /\ lock'[j] = lock[j]
            /\ pte' = pte
        BY <2>1, <3>1, <3>2 DEF MarkOutdated, PageType
      <4> QED
        BY <1>1, <4>1
    <3>3. CASE ~page[k].in
      BY <1>2, <2>1, <3>1, <3>3 DEF MarkOutdated
    <3> QED
      BY <3>2, <3>3
  <2>2. CASE ~MarkOutdated(p)
    <3>1. page' = page /\ lock' = lock /\ pte' = pte
      BY <1>4, <2>2 DEF WriterStep, WriteLock, VfsWrite, VfsWriteNothing, WriteEnd
    <3> QED
      BY <1>2, <3>1
  <2> QED
    BY <2>1, <2>2
<1>5. ASSUME NEW p \in Mappers, MapperStep(p)
      PROVE  CachedOK'
  <2>1. p \in Threads /\ p # Nobody
    BY DEF Threads, Procs
  <2>2. ASSUME NEW i \in Pages, FaultIn(p, i)
        PROVE  CachedOK'
    <3>1. /\ page'[i].in
          /\ \A j \in Pages : j # i => page'[j] = page[j] /\ lock'[j] = lock[j]
          /\ pte' = pte
      BY <2>2 DEF FaultIn, PageType
    <3> QED
      BY <1>1, <3>1
  <2>3. ASSUME NEW i \in Pages, Store(p, i)
        PROVE  CachedOK'
    <3>1. page[i].in
      BY <2>3 DEF Store, CachedOK
    <3>2. /\ page'[i].in
          /\ \A j \in Pages : j # i => page'[j] = page[j] /\ lock'[j] = lock[j]
          /\ pte' = pte
      BY <2>3, <3>1 DEF Store, PageType
    <3> QED
      BY <1>1, <3>2
  <2>4. ASSUME ReadLower(p) \/ \E err \in BOOLEAN : ReadpageOut(p, err)
        PROVE  CachedOK'
    <3>1. pc[p] \in {"readpage", "readpage_out"}
      BY <2>4 DEF ReadLower, ReadpageOut
    <3>2. PICK k \in Pages : k = job[p].page /\ lock[k] = p
      BY <2>1, <3>1 DEF PageLockOK
    <3>3. page[k].in
      BY <2>1, <3>2 DEF CachedOK
    <3>4. CASE ReadLower(p)
      <4>1. /\ page'[k].in
            /\ \A j \in Pages : j # k => page'[j] = page[j] /\ lock'[j] = lock[j]
            /\ pte' = pte
        BY <3>2, <3>3, <3>4 DEF ReadLower, PageType
      <4> QED
        BY <1>1, <4>1
    <3>5. ASSUME NEW err \in BOOLEAN, ReadpageOut(p, err)
          PROVE  CachedOK'
      <4>1. /\ page'[k].in
            /\ \A j \in Pages : j # k => page'[j] = page[j] /\ lock'[j] = lock[j]
            /\ pte' = pte
        BY <3>2, <3>3, <3>5 DEF ReadpageOut, ReadpageUnlock, PageType
      <4> QED
        BY <1>1, <4>1
    <3> QED
      BY <2>4, <3>4, <3>5
  <2> QED
    BY <1>5, <2>2, <2>3, <2>4 DEF MapperStep
<1>6. ASSUME NEW n \in TruncateTo, Truncate(n)
      PROVE  CachedOK'
  BY <1>2, <1>6 DEF Truncate
<1>7. CASE CacheStep
  <2>1. Flusher \in Threads /\ Flusher # Nobody
    BY DEF Threads
  <2>2. ASSUME NEW i \in Pages, StartWriteback(i)
        PROVE  CachedOK'
    <3>1. page[i].in
      BY <2>2 DEF StartWriteback, CachedOK
    <3>2. /\ page'[i].in
          /\ \A j \in Pages : j # i => page'[j] = page[j] /\ lock'[j] = lock[j]
          /\ pte' = pte
      BY <2>2, <3>1 DEF StartWriteback, PageType
    <3> QED
      BY <1>1, <3>2
  <2>3. ASSUME NEW i \in Pages, Reclaim(i)
        PROVE  CachedOK'
    <3>1. /\ page'[i] = NoPage /\ lock[i] = Nobody /\ lock' = lock /\ pte' = pte
          /\ \A j \in Pages : j # i => page'[j] = page[j]
          /\ \A p \in Mappers : i \notin pte[p]
      BY <2>3 DEF Reclaim
    <3>2. ~NoPage.uptodate /\ ~NoPage.dirty
      BY DEF NoPage
    <3> QED
      BY <3>1, <3>2 DEF CachedOK
  <2>4. ASSUME NEW ok \in Grabs, WriteLower(ok)
        PROVE  CachedOK'
    BY <1>2, <2>4 DEF WriteLower
  <2>5. ASSUME WritepageOut
        PROVE  CachedOK'
    <3>1. PICK k \in Pages : k = job[Flusher].page /\ lock[k] = Flusher
      BY <2>1, <2>5 DEF WritepageOut, PageLockOK
    <3>2. page[k].in
      BY <2>1, <3>1 DEF CachedOK
    <3>3. /\ page'[k].in
          /\ \A j \in Pages : j # k => page'[j] = page[j] /\ lock'[j] = lock[j]
          /\ pte' = pte
      BY <2>5, <3>1, <3>2 DEF WritepageOut, PageType
    <3> QED
      BY <1>1, <3>3
  <2> QED
    BY <1>7, <2>2, <2>3, <2>4, <2>5 DEF CacheStep
<1> QED
  BY <1>3, <1>4, <1>5, <1>6, <1>7, StepCases
-----------------------------------------------------------------------------
(***************************************************************************)
(* The invariant, and what follows from it without further assumptions.    *)
(***************************************************************************)
LEMMA FileInvInit == FileInit => FileInv
<1> SUFFICES ASSUME FileInit PROVE FileInv
  OBVIOUS
<1>1. FileTypeOK
  BY TypeInit
<1>2. \A t \in Threads : pc[t] = "idle"
  BY DEF FileInit
<1>3. MutexOK /\ LoopOK /\ PageLockOK
  BY <1>2 DEF FileInit, MutexOK, LoopOK, PageLockOK, Threads
<1>4. ~NoPage.uptodate /\ ~NoPage.dirty
  BY DEF NoPage
<1>5. CachedOK
  BY <1>4 DEF FileInit, CachedOK
<1> QED
  BY <1>1, <1>3, <1>5 DEF FileInv

LEMMA FileInvStep == FileInv /\ [FileNext]_fileVars => FileInv'
BY TypeStep, MutexStep, LoopStep, PageLockStep, CachedStep DEF FileInv

LEMMA FileInvariant == FileSpec => []FileInv
BY FileInvInit, FileInvStep, PTL DEF FileSpec

(***************************************************************************)
(* The sizes of the upper and the lower inode agree whenever nobody is in  *)
(* dazukofs_write(), for any number of writers, whatever vfs_write()       *)
(* returns, and with any use of dazukofs_setattr().                        *)
(***************************************************************************)
THEOREM SizeCorrect == FileSpec => []SizesAgree
<1>1. FileInv => SizesAgree
  BY DEF FileInv, MutexOK, SizesAgree
<1> QED
  BY <1>1, FileInvariant, PTL
-----------------------------------------------------------------------------
(***************************************************************************)
(* What the seekers are given.                                             *)
(***************************************************************************)
GotType == [from : Nat, times : [Positions -> Nat]]

\* p has been given, once each, what lies between its start and its position
InSequence(p) ==
    /\ got[p].from <= pos[p].up
    /\ \A i \in Positions :
          got[p].times[i] = IF i \in got[p].from .. pos[p].up - 1 THEN 1 ELSE 0

\* Inductive together with FileInv.
SequenceOK == got \in [Seekers -> GotType] /\ \A p \in Seekers : InSequence(p)

LEMMA SequenceKept ==
    ASSUME SequenceOK, got' = got, \A q \in Seekers : pos'[q].up = pos[q].up
    PROVE  SequenceOK'
BY DEF SequenceOK, InSequence

(* Another start: nothing has been given since. *)
LEMMA SequenceRestarts ==
    ASSUME SequenceOK, NEW p \in Seekers, NEW n \in Nat,
           Restart(p, n), pos'[p].up = n,
           \A q \in Seekers \ {p} : pos'[q].up = pos[q].up
    PROVE  SequenceOK'
<1>1. Start(n) \in GotType /\ Start(n).from = n
      /\ \A i \in Positions : Start(n).times[i] = 0
  BY DEF Start, GotType
<1>2. got' = [got EXCEPT ![p] = Start(n)]
  BY DEF Restart
<1>3. got' \in [Seekers -> GotType] /\ got'[p] = Start(n)
  BY <1>1, <1>2 DEF SequenceOK
<1>4. InSequence(p)'
  BY <1>1, <1>3 DEF InSequence, Positions
<1>5. ASSUME NEW q \in Seekers \ {p} PROVE InSequence(q)'
  BY <1>2 DEF SequenceOK, InSequence
<1> QED
  BY <1>3, <1>4, <1>5 DEF SequenceOK

(* The byte or entry at the position is given, and the position moves on. *)
LEMMA SequenceGoesOn ==
    ASSUME SequenceOK, NEW p \in Seekers, NEW a \in Nat, pos[p].up = a,
           Given(p, a, 1), pos'[p].up = a + 1,
           \A q \in Seekers \ {p} : pos'[q].up = pos[q].up
    PROVE  SequenceOK'
<1> DEFINE more == [i \in Positions |->
                      got[p].times[i] + (IF i \in a .. a + 1 - 1 THEN 1 ELSE 0)]
<1>1. got[p] \in GotType /\ InSequence(p)
  BY DEF SequenceOK
<1>2. more \in [Positions -> Nat]
  BY <1>1 DEF GotType
<1>3. \A i \in Positions : more[i] = got[p].times[i] + (IF i = a THEN 1 ELSE 0)
  BY <1>1 DEF Positions, GotType
<1>4. got' = [got EXCEPT ![p].times = more]
  BY DEF Given
<1> HIDE DEF more
<1>5. /\ got' \in [Seekers -> GotType]
      /\ got'[p].from = got[p].from /\ got'[p].times = more
  <2>1. /\ [got[p] EXCEPT !.times = more] \in GotType
        /\ [got[p] EXCEPT !.times = more].from = got[p].from
        /\ [got[p] EXCEPT !.times = more].times = more
    BY <1>1, <1>2 DEF GotType
  <2> QED
    BY <1>4, <2>1 DEF SequenceOK
<1>6. InSequence(p)'
  <2>1. got[p].from \in Nat /\ got[p].from <= a
    BY <1>1 DEF GotType, InSequence
  <2>2. ASSUME NEW i \in Positions
        PROVE  more[i] = IF i \in got[p].from .. a THEN 1 ELSE 0
    BY <1>1, <1>3, <2>1 DEF InSequence, Positions
  <2> QED
    BY <1>5, <2>1, <2>2 DEF InSequence
<1>7. ASSUME NEW q \in Seekers \ {p} PROVE InSequence(q)'
  BY <1>4 DEF SequenceOK, InSequence
<1> QED
  BY <1>5, <1>6, <1>7 DEF SequenceOK

LEMMA SequenceStep ==
    ASSUME FileInv, SequenceOK, [FileNext]_fileVars
    PROVE  SequenceOK'
<1>0. /\ pos \in [Seekers -> [up : Nat, low : Nat]] /\ lsize \in Nat
      /\ job \in [Threads -> JobType]
  BY DEF FileInv, FileTypeOK
<1>1. ASSUME NEW p \in Seekers, NEW at \in {0, pos[p].up}, NEW pread \in BOOLEAN,
             Read(p, at, 1, pread)
      PROVE  SequenceOK'
  <2>1. CASE pread
    BY <1>0, <1>1, <2>1, SequenceKept DEF Read
  <2>2. CASE ~pread
    BY <1>0, <1>1, <2>2, SequenceGoesOn DEF Read
  <2> QED
    BY <2>1, <2>2
<1>2. ASSUME NEW p \in Seekers, SeekCur(p)
      PROVE  SequenceOK'
  BY <1>0, <1>2, SequenceKept DEF SeekCur, Seek, MoveTo, HandDown
<1>3. ASSUME NEW p \in Seekers, SeekSet(p) \/ SeekEnd(p)
      PROVE  SequenceOK'
  BY <1>0, <1>3, SequenceRestarts DEF SeekSet, SeekEnd, Seek, MoveTo
<1>4. ASSUME NEW p \in Seekers, Readdir(p)
      PROVE  SequenceOK'
  BY <1>0, <1>4, SequenceGoesOn DEF Readdir, MoveTo, HandDown
<1>5. ASSUME NEW p \in Seekers, Rewinddir(p)
      PROVE  SequenceOK'
  BY <1>0, <1>5, SequenceRestarts DEF Rewinddir
<1>6. ASSUME NEW p \in Writers, WriteStep(p)
      PROVE  SequenceOK'
  <2>1. ASSUME NEW ret \in Positions, VfsWrite(p, ret)
        PROVE  SequenceOK'
    BY <1>0, <2>1, SequenceKept DEF VfsWrite, SetLow
  <2>2. ASSUME VfsWriteNothing(p)
        PROVE  SequenceOK'
    BY <1>0, <2>2, SequenceKept DEF VfsWriteNothing, SetLow
  <2>3. ASSUME MarkOutdated(p)
        PROVE  SequenceOK'
    BY <2>3, SequenceKept DEF MarkOutdated
  <2>4. ASSUME WriteEnd(p)
        PROVE  SequenceOK'
    <3>1. CASE p \in Seekers
      <4>1. job[p].at \in Nat
        BY <1>0 DEF JobType, Threads, Procs
      <4> QED
        BY <1>0, <2>4, <3>1, <4>1, SequenceRestarts DEF WriteEnd, SetUp
    <3>2. CASE p \notin Seekers
      BY <2>4, <3>2, SequenceKept DEF WriteEnd, SetUp, Restart
    <3> QED
      BY <3>1, <3>2
  <2> QED
    BY <1>6, <2>1, <2>2, <2>3, <2>4 DEF WriteStep
<1>7. ASSUME UNCHANGED <<pos, got>> PROVE SequenceOK'
  BY <1>7, SequenceKept
<1>8. ASSUME NEW p \in Writers, WriteCall(p) PROVE UNCHANGED <<pos, got>>
  BY <1>8 DEF WriteCall, WriteLock
<1>9. ASSUME NEW p \in Mappers, MapCall(p) \/ ReadpageStep(p)
      PROVE  UNCHANGED <<pos, got>>
  BY <1>9 DEF MapCall, Mmap, Munmap, MapPage, FaultIn, Store, ReadpageStep,
              ReadLower, ReadpageOut
<1>10. ASSUME \/ \E n \in TruncateTo : Truncate(n)
              \/ \E i \in Pages : StartWriteback(i) \/ Reclaim(i)
              \/ WritepageStep
              \/ UNCHANGED fileVars
       PROVE  UNCHANGED <<pos, got>>
  BY <1>10 DEF Truncate, StartWriteback, Reclaim, WritepageStep, WriteLower,
               WritepageOut, fileVars
<1>11. ASSUME NEW p \in Seekers, SeekCall(p)
       PROVE  SequenceOK'
  BY <1>1, <1>2, <1>3, <1>4, <1>5, <1>11 DEF SeekCall
<1> QED
  BY <1>6, <1>7, <1>8, <1>9, <1>10, <1>11 DEF FileNext

(***************************************************************************)
(* Reading on and readdir(3) skip nothing and repeat nothing, for any      *)
(* number of seekers that pread(2), seek, rewind and write in between:     *)
(* the theorem for ReadsInSequence.  The start never lies behind the       *)
(* position, and from there on nothing has been given yet.                 *)
(***************************************************************************)
THEOREM NothingSkippedOrRepeated == FileSpec => []ReadsInSequence
<1>1. FileInit => SequenceOK
  <2> SUFFICES ASSUME FileInit PROVE SequenceOK
    OBVIOUS
  <2>1. Start(0) \in GotType /\ Start(0).from = 0
        /\ \A i \in Positions : Start(0).times[i] = 0
    BY DEF Start, GotType
  <2>2. \A p \in Seekers : got[p] = Start(0) /\ pos[p].up = 0
    BY DEF FileInit
  <2>3. \A p \in Seekers : InSequence(p)
    BY <2>1, <2>2 DEF InSequence, Positions
  <2> QED
    BY <2>1, <2>3 DEF SequenceOK, FileInit
<1>2. FileInv /\ SequenceOK /\ [FileNext]_fileVars => SequenceOK'
  BY SequenceStep
<1>3. SequenceOK => ReadsInSequence
  BY DEF SequenceOK, InSequence, ReadsInSequence
<1> QED
  BY <1>1, <1>2, <1>3, FileInvariant, PTL DEF FileSpec
-----------------------------------------------------------------------------
(***************************************************************************)
(* The contents of pages.                                                  *)
(***************************************************************************)

\* The steps of a writer: it changes the lower file and then marks.
LEMMA DataWriter ==
    ASSUME FileInv, DataOK, NEW p \in Writers, WriterStep(p), FileTypeOK'
    PROVE  DataOK'
<1> USE FileAssumption DEF FileInv, FileTypeOK, Goto, lowerVars, cacheVars
<1>1. p \in Threads /\ job[p] \in JobType
  BY DEF Threads, Procs
<1> SUFFICES ASSUME NEW i \in Pages, Copied(i)', ~page'[i].dirty, ~ToBeOutdated(i)'
             PROVE  page'[i].data = lower'[i]
  BY DEF DataOK
\* a step that leaves the lower page alone and marks no other page
<1>2. ASSUME page'[i] = page[i], lock'[i] = lock[i], lower'[i] = lower[i],
             pc'[p] \notin {"readpage_out", "writepage_out"},
             \A t \in Threads : t # p => pc'[t] = pc[t] /\ job'[t] = job[t],
             pc[p] = "outdate" /\ i \in job[p].page .. PageOf(job[p].at)
               => pc'[p] = "outdate" /\ i \in job'[p].page .. PageOf(job'[p].at)
      PROVE  page'[i].data = lower'[i]
  <2>1. Copied(i)
    BY <1>1, <1>2 DEF Copied
  <2>2. ~ToBeOutdated(i)
    BY <1>1, <1>2 DEF ToBeOutdated, Threads, Procs
  <2> QED
    BY <1>2, <2>1, <2>2 DEF DataOK
<1>3. CASE \/ \E at \in Nat, append \in BOOLEAN : WriteLock(p, at, PAGE_SIZE, append)
           \/ VfsWriteNothing(p) \/ WriteEnd(p)
  <2>1. /\ page' = page /\ lock' = lock /\ lower' = lower
        /\ pc[p] # "outdate" /\ pc'[p] \notin {"readpage_out", "writepage_out"}
        /\ \A t \in Threads : t # p => pc'[t] = pc[t] /\ job'[t] = job[t]
    <3>1. CASE \E at \in Nat, append \in BOOLEAN :
                  WriteLock(p, at, PAGE_SIZE, append)
      BY <1>1, <3>1 DEF WriteLock
    <3>2. CASE VfsWriteNothing(p)
      BY <1>1, <3>2 DEF VfsWriteNothing
    <3>3. CASE WriteEnd(p)
      BY <1>1, <3>3 DEF WriteEnd
    <3> QED
      BY <1>3, <3>1, <3>2, <3>3
  <2> QED
    BY <1>2, <2>1
<1>4. ASSUME NEW ret \in Positions, VfsWrite(p, ret)
      PROVE  page'[i].data = lower'[i]
  <2> DEFINE at == IF job[p].append THEN lsize ELSE job[p].at
  <2>1. /\ at \in Nat /\ at + ret \in Nat /\ (at + ret) - ret = at
        /\ pc[p] = "vfs_write" /\ pc'[p] = "outdate" /\ page' = page /\ lock' = lock
    BY <1>1, <1>4 DEF VfsWrite, Positions, JobType
  <2>2. job' = [job EXCEPT ![p].at = at + ret, ![p].page = PageOf(at)]
    BY <1>4, <2>1 DEF VfsWrite, FirstOutdated
  <2>3. job'[p].at = at + ret /\ job'[p].page = PageOf(at)
    BY <1>1, <2>2 DEF JobType
  <2>4. i \notin PageOf(at) .. PageOf(at + ret)
    BY <2>1, <2>3 DEF ToBeOutdated
  <2>5. i \notin Touched(at, ret)
    <3> SUFFICES ASSUME NEW k \in 0 .. ret - 1
                 PROVE  PageOf(at + k) \in PageOf(at) .. PageOf(at + ret)
      BY <2>4 DEF Touched
    <3>1. at + k \in Nat /\ at <= at + k /\ at + k <= at + ret
      BY <2>1 DEF Positions
    <3>2. PageOf(at) \in Nat /\ PageOf(at + k) \in Nat /\ PageOf(at + ret) \in Nat
      BY <2>1, <3>1, PageOfNat
    <3>3. PageOf(at) <= PageOf(at + k) /\ PageOf(at + k) <= PageOf(at + ret)
      BY <2>1, <3>1, PageOfMonotone
    <3> QED
      BY <3>2, <3>3
  <2>6. lower'[i] = lower[i]
    BY <1>4, <2>5 DEF VfsWrite
  <2>7. \A t \in Threads : t # p => pc'[t] = pc[t] /\ job'[t] = job[t]
    BY <1>1, <1>4, <2>2 DEF VfsWrite
  <2> QED
    BY <1>2, <2>1, <2>6, <2>7
<1>5. ASSUME MarkOutdated(p)
      PROVE  page'[i].data = lower'[i]
  <2>1. /\ pc[p] = "outdate" /\ job[p].page \in Pages /\ job[p].page \in Nat
        /\ job[p].at \in Positions /\ job[p].page <= PageOf(job[p].at)
        /\ lower' = lower /\ lock' = lock
    BY <1>1, <1>5 DEF MarkOutdated, LoopOK, JobType
  <2>2. PageOf(job[p].at) \in Nat /\ i \in Nat
    <3>1. PageOf(job[p].at) \in Nat /\ PageOf(MaxSize) \in Nat
      BY <2>1, PageOfNat DEF Positions
    <3>2. \A n \in Nat : i \in 0 .. n => i \in Nat
      OBVIOUS
    <3> QED
      BY <3>1, <3>2 DEF Pages
  <2>3. \A t \in Threads : t # p => pc'[t] = pc[t] /\ job'[t] = job[t]
    BY <1>1, <1>5 DEF MarkOutdated
  <2>4. pc'[p] \in {"outdate", "write_end"}
    BY <1>1, <1>5 DEF MarkOutdated
  <2>5. CASE i # job[p].page
    <3>1. page'[i] = page[i]
      BY <1>5, <2>1, <2>5 DEF MarkOutdated
    <3>2. ASSUME i \in job[p].page .. PageOf(job[p].at)
          PROVE  pc'[p] = "outdate" /\ i \in job'[p].page .. PageOf(job'[p].at)
      <4>1. job[p].page < PageOf(job[p].at) /\ job[p].page + 1 <= i
        <5>1. \A a, b \in Nat : i \in a .. b /\ i # a => a < b /\ a + 1 <= i
          BY <2>2
        <5> QED
          BY <2>1, <2>2, <2>5, <3>2, <5>1
      <4>2. job' = [job EXCEPT ![p].page = job[p].page + 1] /\ pc' = pc
        BY <1>5, <4>1 DEF MarkOutdated, LastOutdated
      <4>3. job'[p].page = job[p].page + 1 /\ job'[p].at = job[p].at
        BY <1>1, <4>2 DEF JobType
      <4> QED
        BY <2>1, <2>2, <3>2, <4>1, <4>2, <4>3
    <3> QED
      BY <1>2, <2>1, <2>3, <2>4, <3>1, <3>2
  <2>6. CASE i = job[p].page
    <3>1. lock[i] = Nobody /\ ~page'[i].uptodate
      <4>1. CASE page[i].in
        BY <1>5, <2>1, <2>6, <4>1 DEF MarkOutdated, PageLock, PageType
      <4>2. CASE ~page[i].in
        BY <1>5, <2>1, <2>6, <4>2 DEF MarkOutdated, CachedOK
      <4> QED
        BY <4>1, <4>2
    <3>2. \A t \in Threads : ~(pc'[t] \in {"readpage_out", "writepage_out"}
                               /\ job'[t].page = i)
      <4>1. \A t \in Threads : ~(pc[t] \in {"readpage_out", "writepage_out"}
                                 /\ job[t].page = i)
        BY <3>1 DEF PageLockOK, Threads
      <4> QED
        BY <2>3, <2>4, <4>1
    <3> QED
      BY <3>1, <3>2 DEF Copied
  <2> QED
    BY <2>5, <2>6
<1> QED
  BY <1>3, <1>4, <1>5 DEF WriterStep

(***************************************************************************)
(* A thread that holds the lock of page k works on it: nobody else has     *)
(* copied it, and the other pages are left alone.                          *)
(***************************************************************************)
LEMMA DataFrame ==
    ASSUME FileInv, DataOK, NEW t \in Threads, NEW k \in Pages,
           lock[k] \in {Nobody, t}, lower' = [lower EXCEPT ![k] = lower'[k]],
           \A u \in Threads : u # t => pc'[u] = pc[u] /\ job'[u] = job[u],
           \A j \in Pages : j # k => page'[j] = page[j] /\ lock'[j] = lock[j],
           pc[t] # "outdate", pc'[t] # "outdate",
           pc'[t] \in {"readpage_out", "writepage_out"}
             => job'[t].page = k,
           \/ page'[k].dirty
           \/ page'[k].data = lower'[k]
           \/ Copied(k) /\ page'[k].data = page[k].data /\ lower'[k] = lower[k]
                        /\ page'[k].dirty = page[k].dirty
           \/ /\ pc'[t] \notin {"readpage_out", "writepage_out"}
              /\ lock'[k] # Nobody \/ ~page'[k].uptodate
    PROVE  DataOK'
<1> USE FileAssumption DEF FileInv, FileTypeOK
<1> SUFFICES ASSUME NEW i \in Pages, Copied(i)', ~page'[i].dirty, ~ToBeOutdated(i)'
             PROVE  page'[i].data = lower'[i]
  BY DEF DataOK
<1>1. ~ToBeOutdated(i)
  <2>1. \A u \in Writers : u \in Threads
    BY DEF Threads, Procs
  <2> QED
    BY <2>1 DEF ToBeOutdated
<1>2. CASE i # k
  <2>1. page'[i] = page[i] /\ lower'[i] = lower[i] /\ lock'[i] = lock[i]
    BY <1>2
  <2>2. Copied(i)
    BY <1>2, <2>1 DEF Copied
  <2> QED
    BY <1>1, <2>1, <2>2 DEF DataOK
<1>3. CASE i = k
  <2>1. \A u \in Threads : u # t => ~(pc'[u] \in {"readpage_out", "writepage_out"}
                                       /\ job'[u].page = k)
    <3>1. ASSUME NEW u \in Threads, u # t,
                 pc[u] \in {"readpage_out", "writepage_out"}, job[u].page = k
          PROVE  FALSE
      <4>1. lock[k] = u
        BY <3>1 DEF PageLockOK
      <4> QED
        BY <3>1, <4>1 DEF Threads
    <3> QED
      BY <3>1
  <2>2. CASE /\ pc'[t] \notin {"readpage_out", "writepage_out"}
             /\ lock'[k] # Nobody \/ ~page'[k].uptodate
    BY <1>3, <2>1, <2>2 DEF Copied
  <2>3. CASE Copied(k) /\ page'[k].data = page[k].data /\ lower'[k] = lower[k]
             /\ page'[k].dirty = page[k].dirty
    BY <1>1, <1>3, <2>3 DEF DataOK
  <2> QED
    BY <1>3, <2>2, <2>3
<1> QED
  BY <1>2, <1>3

LEMMA DataMapper ==
    ASSUME FileInv, DataOK, NEW p \in Mappers, MapperStep(p)
    PROVE  DataOK'
<1> USE FileAssumption DEF FileInv, FileTypeOK, Goto, Unlock, lowerVars, cacheVars
<1>1. p \in Threads /\ job[p] \in JobType /\ p # Nobody
  BY DEF Threads, Procs
<1>2. ASSUME NEW i \in Pages, FaultIn(p, i)
      PROVE  DataOK'
  <2>1. /\ lock[i] = Nobody /\ lock'[i] = p /\ lower' = lower
        /\ pc[p] = "idle" /\ pc'[p] = "readpage"
        /\ \A u \in Threads : u # p => pc'[u] = pc[u] /\ job'[u] = job[u]
        /\ \A j \in Pages : j # i => page'[j] = page[j] /\ lock'[j] = lock[j]
    BY <1>1, <1>2 DEF FaultIn
  <2>2. lower' = [lower EXCEPT ![i] = lower'[i]]
    BY <2>1
  <2> QED
    BY <1>1, <2>1, <2>2, DataFrame
<1>3. ASSUME NEW i \in Pages, Store(p, i)
      PROVE  DataOK'
  <2>1. /\ page'[i].dirty /\ lock' = lock /\ lower' = lower /\ pc' = pc /\ job' = job
        /\ \A j \in Pages : j # i => page'[j] = page[j]
    BY <1>3 DEF Store, PageType
  <2>2. ASSUME NEW j \in Pages, Copied(j)', ~page'[j].dirty, ~ToBeOutdated(j)'
        PROVE  page'[j].data = lower'[j]
    <3>1. j # i /\ page'[j] = page[j]
      BY <2>1, <2>2
    <3>2. Copied(j) /\ ~ToBeOutdated(j)
      BY <2>1, <2>2, <3>1 DEF Copied, ToBeOutdated
    <3> QED
      BY <2>1, <2>2, <3>1, <3>2 DEF DataOK
  <2> QED
    BY <2>2 DEF DataOK
<1>4. ASSUME pc[p] \in {"readpage", "readpage_out"}
      PROVE  job[p].page \in Pages /\ lock[job[p].page] = p
  BY <1>1, <1>4 DEF PageLockOK
<1>5. ASSUME ReadLower(p)
      PROVE  DataOK'
  <2>1. PICK k \in Pages : k = job[p].page /\ lock[k] = p
    BY <1>4, <1>5 DEF ReadLower
  <2>2. /\ lower' = lower /\ pc[p] = "readpage" /\ pc'[p] = "readpage_out"
        /\ page'[k].data = lower[k] /\ job' = job
        /\ \A u \in Threads : u # p => pc'[u] = pc[u]
        /\ \A j \in Pages : j # k => page'[j] = page[j] /\ lock'[j] = lock[j]
    BY <1>1, <1>5, <2>1 DEF ReadLower, PageType
  <2>3. lower' = [lower EXCEPT ![k] = lower'[k]]
    BY <2>2
  <2> QED
    BY <1>1, <2>1, <2>2, <2>3, DataFrame
<1>6. ASSUME NEW err \in BOOLEAN, ReadpageOut(p, err)
      PROVE  DataOK'
  <2>1. PICK k \in Pages : k = job[p].page /\ lock[k] = p
    BY <1>4, <1>6 DEF ReadpageOut
  <2>2. /\ lower' = lower /\ pc[p] # "outdate" /\ pc'[p] = "idle"
        /\ page'[k].data = page[k].data /\ page'[k].dirty = page[k].dirty
        /\ page'[k].uptodate = ~err
        /\ \A u \in Threads : u # p => pc'[u] = pc[u] /\ job'[u] = job[u]
        /\ \A j \in Pages : j # k => page'[j] = page[j] /\ lock'[j] = lock[j]
    BY <1>1, <1>6, <2>1 DEF ReadpageOut, ReadpageUnlock, PageType
  <2>3. ~err => Copied(k)
    BY <1>1, <1>6, <2>1 DEF ReadpageOut, Copied
  <2>4. lower' = [lower EXCEPT ![k] = lower'[k]] /\ lower'[k] = lower[k]
    BY <2>2
  <2>5. CASE err
    <3>1. ~page'[k].uptodate
      BY <2>2, <2>5
    <3> QED
      BY <1>1, <2>1, <2>2, <2>4, <3>1, DataFrame
  <2>6. CASE ~err
    <3>1. Copied(k)
      BY <2>3, <2>6
    <3> QED
      BY <1>1, <2>1, <2>2, <2>4, <3>1, DataFrame
  <2> QED
    BY <2>5, <2>6
<1> QED
  BY <1>2, <1>3, <1>5, <1>6 DEF MapperStep

LEMMA DataCache ==
    ASSUME FileInv, DataOK, NoFailedWriteback, pc[Flusher] # "fail", CacheStep
    PROVE  DataOK' /\ pc'[Flusher] # "fail"
<1> USE FileAssumption DEF FileInv, FileTypeOK, Goto, Unlock, lowerVars, cacheVars
<1>1. Flusher \in Threads /\ job[Flusher] \in JobType /\ Flusher # Nobody
  BY DEF Threads
<1>2. ASSUME NEW i \in Pages, StartWriteback(i)
      PROVE  DataOK' /\ pc'[Flusher] # "fail"
  <2>1. /\ lock[i] = Nobody /\ lock'[i] = Flusher /\ lower' = lower
        /\ pc[Flusher] = "idle" /\ pc'[Flusher] = "writepage"
        /\ \A u \in Threads : u # Flusher => pc'[u] = pc[u] /\ job'[u] = job[u]
        /\ \A j \in Pages : j # i => page'[j] = page[j] /\ lock'[j] = lock[j]
    BY <1>1, <1>2 DEF StartWriteback
  <2>2. lower' = [lower EXCEPT ![i] = lower'[i]]
    BY <2>1
  <2> QED
    BY <1>1, <2>1, <2>2, DataFrame
<1>3. ASSUME NEW i \in Pages, Reclaim(i)
      PROVE  DataOK' /\ pc'[Flusher] # "fail"
  <2>1. ~NoPage.uptodate
    BY DEF NoPage
  <2>2. /\ lock[i] = Nobody /\ lock' = lock /\ lower' = lower /\ pc' = pc /\ job' = job
        /\ ~page'[i].uptodate
        /\ \A j \in Pages : j # i => page'[j] = page[j]
    BY <1>3, <2>1 DEF Reclaim
  <2>3. ASSUME NEW j \in Pages, Copied(j)', ~page'[j].dirty, ~ToBeOutdated(j)'
        PROVE  page'[j].data = lower'[j]
    <3>1. j # i
      <4>1. \A t \in Threads : ~(pc[t] \in {"readpage_out", "writepage_out"}
                                 /\ job[t].page = i)
        BY <2>2 DEF PageLockOK, Threads
      <4> QED
        BY <2>2, <2>3, <4>1 DEF Copied
    <3>2. page'[j] = page[j] /\ Copied(j) /\ ~ToBeOutdated(j)
      BY <2>2, <2>3, <3>1 DEF Copied, ToBeOutdated
    <3> QED
      BY <2>2, <2>3, <3>2 DEF DataOK
  <2> QED
    BY <2>2, <2>3 DEF DataOK
<1>4. ASSUME NEW ok \in Grabs, WriteLower(ok)
      PROVE  DataOK' /\ pc'[Flusher] # "fail"
  <2>1. ok = TRUE
    BY DEF NoFailedWriteback
  <2>2. PICK k \in Pages : k = job[Flusher].page /\ lock[k] = Flusher
    BY <1>1, <1>4 DEF WriteLower, PageLockOK
  <2>3. /\ lower' = [lower EXCEPT ![k] = page[k].data] /\ job' = job
        /\ pc[Flusher] = "writepage" /\ pc'[Flusher] = "writepage_out"
        /\ page' = page /\ lock' = lock
        /\ \A u \in Threads : u # Flusher => pc'[u] = pc[u]
    BY <1>1, <1>4, <2>1, <2>2 DEF WriteLower
  <2>4. lower' = [lower EXCEPT ![k] = lower'[k]] /\ page'[k].data = lower'[k]
    BY <2>3
  <2>5. /\ pc[Flusher] # "outdate" /\ pc'[Flusher] # "outdate"
        /\ pc'[Flusher] # "fail" /\ job'[Flusher].page = k
        /\ \A u \in Threads : u # Flusher => pc'[u] = pc[u] /\ job'[u] = job[u]
        /\ \A j \in Pages : j # k => page'[j] = page[j] /\ lock'[j] = lock[j]
    BY <2>2, <2>3
  <2> QED
    BY <1>1, <2>2, <2>4, <2>5, DataFrame, SMTT(60)
<1>5. ASSUME WritepageOut
      PROVE  DataOK' /\ pc'[Flusher] # "fail"
  <2>1. pc[Flusher] = "writepage_out"
    BY <1>5 DEF WritepageOut
  <2>2. PICK k \in Pages : k = job[Flusher].page /\ lock[k] = Flusher
    BY <1>1, <2>1 DEF PageLockOK
  <2>3. /\ lower' = lower /\ pc'[Flusher] = "idle"
        /\ page'[k].data = page[k].data /\ page'[k].dirty = page[k].dirty
        /\ \A u \in Threads : u # Flusher => pc'[u] = pc[u] /\ job'[u] = job[u]
        /\ \A j \in Pages : j # k => page'[j] = page[j] /\ lock'[j] = lock[j]
    BY <1>1, <1>5, <2>1, <2>2 DEF WritepageOut, PageType
  <2>4. Copied(k)
    BY <1>1, <2>1, <2>2 DEF Copied
  <2>5. lower' = [lower EXCEPT ![k] = lower'[k]] /\ lower'[k] = lower[k]
    BY <2>3
  <2> QED
    BY <1>1, <2>1, <2>2, <2>3, <2>4, <2>5, DataFrame
<1> QED
  BY <1>2, <1>3, <1>4, <1>5 DEF CacheStep

LEMMA DataStep ==
    ASSUME NoFailedWriteback, NoPageCutOff, DataInv, [FileNext]_fileVars
    PROVE  DataInv'
<1>1. FileInv'
  BY FileInvStep DEF DataInv
<1>2. FileInv /\ DataOK /\ FileTypeOK /\ FileTypeOK' /\ pc[Flusher] # "fail"
  BY <1>1 DEF DataInv, FileInv
<1>3. CASE PagesUntouched
  <2>1. /\ lower' = lower /\ page' = page /\ lock' = lock /\ pc' = pc /\ job' = job
    BY <1>3 DEF PagesUntouched
  <2> QED
    BY <1>1, <1>2, <2>1 DEF DataInv, DataOK, Copied, ToBeOutdated
<1>4. ASSUME NEW p \in Writers, WriterStep(p)
      PROVE  DataInv'
  <2>1. pc'[Flusher] = pc[Flusher]
    <3>1. p # Flusher
      BY FileAssumption DEF Procs
    <3>2. \A l : Goto(p, l) => pc'[Flusher] = pc[Flusher]
      BY <1>2, <3>1 DEF FileTypeOK, Goto, Threads
    <3> QED
      BY <1>4, <3>2 DEF WriterStep, WriteLock, VfsWrite, VfsWriteNothing,
                        MarkOutdated, WriteEnd
  <2> QED
    BY <1>1, <1>2, <1>4, <2>1, DataWriter DEF DataInv
<1>5. ASSUME NEW p \in Mappers, MapperStep(p)
      PROVE  DataInv'
  <2>1. pc'[Flusher] = pc[Flusher]
    <3>1. p # Flusher
      BY FileAssumption DEF Procs
    <3>2. \A l : Goto(p, l) => pc'[Flusher] = pc[Flusher]
      BY <1>2, <3>1 DEF FileTypeOK, Goto, Threads
    <3> QED
      BY <1>5, <3>2 DEF MapperStep, FaultIn, Store, ReadLower, ReadpageOut
  <2> QED
    BY <1>1, <1>2, <1>5, <2>1, DataMapper DEF DataInv
<1>6. ASSUME NEW n \in TruncateTo, Truncate(n)
      PROVE  DataInv'
  <2>1. /\ lower' = lower /\ page' = page /\ lock' = lock /\ pc' = pc /\ job' = job
    BY <1>2, <1>6 DEF Truncate, cacheVars, NoPageCutOff, FileTypeOK
  <2> QED
    BY <1>1, <1>2, <2>1 DEF DataInv, DataOK, Copied, ToBeOutdated
<1>7. CASE CacheStep
  BY <1>1, <1>2, <1>7, DataCache DEF DataInv
<1> QED
  BY <1>2, <1>3, <1>4, <1>5, <1>6, <1>7, StepCases

(***************************************************************************)
(* A fault never takes a stale page for a current one, however readpage,   *)
(* writepage and mark_pages_outdated() interleave.  grab_cache_page() of   *)
(* the lower page must succeed: dazukofs_writepage() does not make the     *)
(* page dirty again when it fails.  And no page may be cut off:            *)
(* dazukofs_setattr() leaves the pages of the upper inode where they are.  *)
(***************************************************************************)
THEOREM NoStalePages ==
    ASSUME NoFailedWriteback, NoPageCutOff
    PROVE  FileSpec => []UptodatePagesCurrent
<1>1. FileInit => DataInv
  <2> SUFFICES ASSUME FileInit PROVE DataInv
    OBVIOUS
  <2>1. \A t \in Threads : pc[t] = "idle"
    BY DEF FileInit
  <2>2. ~NoPage.uptodate
    BY DEF NoPage
  <2>3. DataOK
    BY <2>1, <2>2 DEF FileInit, DataOK, Copied
  <2> QED
    BY <2>1, <2>3, FileInvInit DEF DataInv, Threads
<1>2. DataInv /\ [FileNext]_fileVars => DataInv'
  BY DataStep
<1>3. DataInv => UptodatePagesCurrent
  BY DEF DataInv, DataOK, Copied, UptodatePagesCurrent
<1> QED
  BY <1>1, <1>2, <1>3, PTL DEF FileSpec
=============================================================================
