------------------------------- MODULE Stack --------------------------------
(***************************************************************************)
(* The objects of a mounted DazukoFS and the lower objects they stand for: *)
(* inode.c, dentry.c, dazukofs_open() and dazukofs_release() of file.c and *)
(* the mount in super.c.  There is one directory, the root.                *)
(*                                                                         *)
(* Every upper dentry holds a lower dentry and the lower mount, every      *)
(* upper inode holds a lower inode, every open file holds a lower file.    *)
(* refs counts these references and allocations, as dget(), dput(),        *)
(* mntget(), igrab(), kmem_cache_zalloc() and so on change them.           *)
(*                                                                         *)
(* Operations of a directory hold its i_mutex, and the one on the lower    *)
(* directory: they are one step each.  Only dazukofs_interpose() is cut,   *)
(* since it shows the dentry before it copies the attributes.              *)
(***************************************************************************)
EXTENDS Integers, FiniteSets

CONSTANTS
    Procs, Names, Files,
    UDentries, URoot,   \* upper dentries
    LDentries, LRoot,   \* lower dentries
    LInodes, ARoot,     \* lower inodes, that is their addresses
    None,
    Kinds,              \* kinds of files: "file", "dir", "link"
    Modes,              \* the attributes setattr changes
    Fails,              \* "iget": iget5_locked() may fail; "di": no memory for the root
    StatfsOn,           \* dentries statfs(2) is called for
    Races,              \* a name may be removed while a path walk is at it
    Before36,           \* Linux before 3.6
    MaxLeaks            \* bound: steps that leak

ASSUME StackAssumption ==
    /\ URoot \notin UDentries /\ LRoot \notin LDentries /\ ARoot \notin LInodes
    /\ Kinds \subseteq {"file", "dir", "link"} /\ Modes # {}
    /\ Fails \subseteq {"iget", "di"}
    /\ StatfsOn \subseteq UDentries \cup {URoot}
    /\ Races \in BOOLEAN /\ Before36 \in BOOLEAN /\ MaxLeaks \in Nat

Uppers == UDentries \cup {URoot}
Lowers == LDentries \cup {LRoot}
Inodes == LInodes \cup {ARoot}

\* the lower mount and what dazukofs allocates
Pool    == {"mnt", "sbi", "root", "di", "ii", "fi", "buf"}
Objects == Lowers \cup Inodes \cup Pool

\* the objects are different ones, and there are finitely many of each kind; the
\* directory, which ARoot also stands for, is none of the files in it
ASSUME ObjectsApart ==
    /\ Lowers \cap Inodes = {} /\ (Lowers \cup Inodes) \cap Pool = {}
    /\ None \notin Uppers \cup Objects \cup Files /\ ARoot \notin Files
    /\ IsFiniteSet(Procs) /\ IsFiniteSet(UDentries)
    /\ IsFiniteSet(LDentries) /\ IsFiniteSet(LInodes)

VARIABLES
    mounted,  \* whether DazukoFS is mounted
    disk,     \* disk[n]: the file with this name in the lower directory
    attr,     \* attr[f]: attributes in the lower inode of file f
    lino,     \* lino[a]: the file whose lower inode is at address a
    ld,       \* lower dentries
    ud,       \* upper dentries, with the lower dentry in d_fsdata
    uino,     \* uino[a]: the upper inode whose lower_inode is a
    fresh,    \* the upper dentry whose inode waits for its attributes
    proc,     \* what a process has walked to, is following or opening, has open
    refs      \* reference counts, and numbers of allocated objects

lowerVars == <<disk, attr, lino, ld>>
stackVars == <<mounted, lowerVars, ud, uino, fresh, proc, refs>>

\* a dentry, with its name and the address of its inode
NoLower  == [name |-> None, ino |-> None, hashed |-> FALSE]
NoUpper  == [name |-> None, ino |-> None, hashed |-> FALSE, low |-> None]

\* stale: a rename over the file has left i_nlink as it was
NoInode  == [file |-> None, attr |-> [nlink |-> 0, mode |-> None], stale |-> FALSE]

Idle     == [pc |-> "idle", u |-> None, low |-> None]

StackInit ==
    /\ mounted = FALSE
    /\ disk = [n \in Names |-> None]
    /\ attr = [f \in Files |-> [nlink |-> 0, mode |-> None, kind |-> None]]
    /\ lino = [a \in Inodes |-> IF a = ARoot THEN ARoot ELSE None]
    /\ ld = [d \in Lowers |-> IF d = LRoot THEN [NoLower EXCEPT !.ino = ARoot] ELSE NoLower]
    /\ ud = [u \in Uppers |-> NoUpper]
    /\ uino = [a \in Inodes |-> NoInode]
    /\ fresh = None
    /\ proc = [p \in Procs |-> Idle]
    /\ refs = [x \in Objects |-> 0]
-----------------------------------------------------------------------------
(***************************************************************************)
(* References.                                                             *)
(***************************************************************************)

\* dget(), mntget(), igrab(), kmem_cache_zalloc(), and their opposites
Get(r, X) == [x \in Objects |-> IF x \in X THEN r[x] + 1 ELSE r[x]]
Put(r, X) == [x \in Objects |-> IF x \in X THEN r[x] - 1 ELSE r[x]]

\* who holds the upper dentry u
Holders(u) == {p \in Procs : proc[p].u = u}

InUse(u)   == ud[u].low # None
Shown(a)   == uino[a].file # None           \* there is an upper inode for a
Negative(u) == ud[u].ino = None

\* the references and objects that somebody has and will give back
Users(x) ==
    CASE x \in Lowers -> Cardinality({u \in Uppers : ud[u].low = x})
                           + Cardinality({p \in Procs : proc[p].low = x})
      [] x \in Inodes -> Cardinality({d \in LDentries : ld[d].ino = x})
                           + (IF Shown(x) THEN 1 ELSE 0)
      [] x = "mnt"    -> Cardinality({u \in Uppers : InUse(u)})
                           + Cardinality({p \in Procs : proc[p].low # None})
      [] x = "di"     -> Cardinality({u \in Uppers : InUse(u)})
      [] x = "ii"     -> Cardinality({a \in Inodes : Shown(a)})
      [] x = "fi"     -> Cardinality({p \in Procs : proc[p].pc = "open"})
      [] x = "buf"    -> Cardinality({p \in Procs : proc[p].pc = "following"})
      [] OTHER        -> IF mounted THEN 1 ELSE 0

Surplus(x) == refs[x] - Users(x)
Leaks      == Cardinality({x \in Objects \ Inodes : Surplus(x) > 0})
-----------------------------------------------------------------------------
(***************************************************************************)
(* The lower file system and the VFS: external.                            *)
(***************************************************************************)

\* lookup_one_len(): d is the dentry of n in the dcache, or a new one
LookupOne(n, d) ==
    \/ /\ ld[d].hashed /\ ld[d].name = n
       /\ UNCHANGED <<lino, ld>>
    \/ /\ ld[d] = NoLower /\ refs[d] = 0
       /\ ~\E e \in LDentries : ld[e].hashed /\ ld[e].name = n
       /\ \/ /\ disk[n] = None
             /\ ld' = [ld EXCEPT ![d] = [NoLower EXCEPT !.name = n, !.hashed = TRUE]]
             /\ UNCHANGED lino
          \/ /\ disk[n] # None
             /\ \E a \in LInodes :
                   /\ lino[a] \in {disk[n], None}
                   /\ lino[a] = None => disk[n] \notin {lino[b] : b \in LInodes}
                   /\ lino' = [lino EXCEPT ![a] = disk[n]]
                   /\ ld' = [ld EXCEPT ![d] = [name |-> n, hashed |-> TRUE, ino |-> a]]

\* the references a new dentry has taken
Looked(d) == IF ld'[d].ino # ld[d].ino THEN Get(refs, {ld'[d].ino}) ELSE refs

\* a new file gets the name of the negative dentry d
VfsMake(d, a, f, k, m) ==
    /\ ld[d].hashed /\ ld[d].ino = None
    /\ lino[a] = None
    /\ attr[f].nlink = 0 /\ f \notin {lino[b] : b \in LInodes}
    /\ disk' = [disk EXCEPT ![ld[d].name] = f]
    /\ attr' = [attr EXCEPT ![f] = [nlink |-> 1, mode |-> m, kind |-> k]]
    /\ lino' = [lino EXCEPT ![a] = f]
    /\ ld' = [ld EXCEPT ![d].ino = a]

\* the file at a loses the name n
DropName(n, a) ==
    /\ disk' = [disk EXCEPT ![n] = None]
    /\ attr' = [attr EXCEPT ![lino[a]].nlink = @ - 1]

\* d_delete(): a dentry only its caller holds turns negative, another is unhashed
LowerDelete(r, d) ==
    IF refs[d] = 1
    THEN ld' = [ld EXCEPT ![d].ino = None] /\ refs' = Put(r, {ld[d].ino})
    ELSE ld' = [ld EXCEPT ![d].hashed = FALSE] /\ refs' = r

UpperDelete(u) == IF Holders(u) = {} THEN [ud EXCEPT ![u].ino = None]
                  ELSE [ud EXCEPT ![u].hashed = FALSE]

\* d_move(): from gets the name of to, which is unhashed
Moved(dentry, from, to) ==
    [dentry EXCEPT ![from].name = dentry[to].name,
                   ![to].name = dentry[from].name, ![to].hashed = FALSE]

\* unused dentries and inodes leave the lower caches
LowerPrune(d) ==
    /\ ld[d] # NoLower /\ refs[d] <= 0
    /\ ld' = [ld EXCEPT ![d] = NoLower]
    /\ refs' = IF ld[d].ino = None THEN refs ELSE Put(refs, {ld[d].ino})
    /\ UNCHANGED <<mounted, disk, attr, lino, ud, uino, fresh, proc>>

LowerForget(a) ==
    /\ lino[a] # None /\ refs[a] <= 0
    /\ lino' = [lino EXCEPT ![a] = None]
    /\ UNCHANGED <<mounted, disk, attr, ld, ud, uino, fresh, proc, refs>>
-----------------------------------------------------------------------------
(***************************************************************************)
(* dazukofs_interpose().                                                   *)
(***************************************************************************)

\* Mutant of InodeTest: every inode with the hash value will do.
InodeTest_Any(b, a) == TRUE

\* dazukofs_inode_test(): the upper inode of b stands for the lower inode a
InodeTest(b, a) == b = a

\* iget5_locked(): an upper inode that is there, or a new one
Iget5(a) == IF \E b \in LInodes : Shown(b) /\ InodeTest(b, a)
            THEN CHOOSE b \in LInodes : Shown(b) /\ InodeTest(b, a)
            ELSE a

\* Mutant of Igrabbed: iput() for a new inode too.
Igrabbed_NotKept(r, a, new) == r

\* igrab(), and iput() when the inode is not I_NEW
Igrabbed(r, a, new) == IF new THEN Get(r, {a}) ELSE r

\* Mutant of Instantiated: only d_add().
Instantiated_IfAdded(dentry, b, add) ==
    IF add THEN [dentry EXCEPT !.ino = b, !.hashed = TRUE] ELSE dentry

\* d_add() or d_instantiate()
Instantiated(dentry, b, add) == [dentry EXCEPT !.ino = b, !.hashed = @ \/ add]

\* alloc_inode() and dazukofs_inode_set(); f is the file at the lower address
NewInode(f) == [NoInode EXCEPT !.file = f, !.attr = [nlink |-> 1, mode |-> None]]

\* up to d_add() or d_instantiate(), where r are the counts so far and the
\* upper dentry u has the fields in dentry
Interpose(r, a, f, u, dentry, add) ==
    LET b == Iget5(a)
        new == ~Shown(b)
    IN
    /\ refs' = IF new THEN Get(Igrabbed(r, a, new), {"ii"}) ELSE Igrabbed(r, a, new)
    /\ uino' = IF new THEN [uino EXCEPT ![b] = NewInode(f)] ELSE uino
    /\ ud' = [ud EXCEPT ![u] = Instantiated(dentry, b, add)]
    /\ fresh' = u

\* fsstack_copy_attr_all(): what the upper inode of a gets from f
Copied(a, f) == [uino EXCEPT ![a].attr = [nlink |-> attr'[f].nlink, mode |-> attr'[f].mode],
                             ![a].stale = FALSE]

\* the rest of it
InterposeEnd ==
    /\ fresh # None
    /\ UNCHANGED attr
    /\ uino' = Copied(ud[fresh].ino, lino[ud[fresh].ino])
    /\ fresh' = None
    /\ UNCHANGED <<mounted, disk, lino, ld, ud, proc, refs>>
-----------------------------------------------------------------------------
(***************************************************************************)
(* Lookup and the life of dentries and inodes.                             *)
(***************************************************************************)

\* Mutant of Released: the lower mount is not given back.
Released_NoMntput(r, u) == Put(r, {ud[u].low, "di"})

\* dazukofs_d_release()
Released(r, u) == Put(r, {ud[u].low, "mnt", "di"})

(***************************************************************************)
(* dazukofs_lookup() with memory for a dentry_info.  When interposing      *)
(* fails, the VFS releases the dentry, whose d_fsdata is set.              *)
(***************************************************************************)
Lookup(u, n, d, ok) ==
    LET r     == Get(Looked(d), {d, "di", "mnt"})
        added == [name |-> n, low |-> d, ino |-> None, hashed |-> TRUE]
        a     == ld'[d].ino
    IN
    /\ mounted /\ fresh = None
    /\ ud[u] = NoUpper
    /\ ~\E v \in UDentries : ud[v].hashed /\ ud[v].name = n
    /\ LookupOne(n, d)
    /\ \/ /\ a = None
          /\ ud' = [ud EXCEPT ![u] = added]
          /\ refs' = r
          /\ UNCHANGED <<uino, fresh>>
       \/ /\ a # None /\ ok
          /\ Interpose(r, a, lino'[a], u, added, TRUE)
       \/ /\ a # None /\ ~ok
          /\ refs' = Put(Put(r, {d}), {d, "mnt", "di"})
          /\ UNCHANGED <<ud, uino, fresh>>
    /\ UNCHANGED <<mounted, disk, attr, proc>>

\* without it
LookupNoMemory(n, d) ==
    /\ mounted /\ fresh = None
    /\ LookupOne(n, d)
    /\ refs' = Put(Get(Looked(d), {d}), {d})
    /\ UNCHANGED <<mounted, disk, attr, ud, uino, fresh, proc>>

\* the VFS gives an unused dentry up
DRelease(u) ==
    /\ InUse(u) /\ Holders(u) = {} /\ u # fresh
    /\ ud' = [ud EXCEPT ![u] = NoUpper]
    /\ refs' = Released(refs, u)
    /\ UNCHANGED <<mounted, lowerVars, uino, fresh, proc>>

\* dazukofs_evict_inode() and dazukofs_destroy_inode()
Evict(a) ==
    /\ Shown(a) /\ \A u \in Uppers : ud[u].ino # a
    /\ uino' = [uino EXCEPT ![a] = NoInode]
    /\ refs' = Put(refs, {a, "ii"})
    /\ UNCHANGED <<mounted, lowerVars, ud, fresh, proc>>

(***************************************************************************)
(* dazukofs_d_revalidate() of a lower file system that revalidates.  An    *)
(* invalid dentry is unhashed, in the lower dcache too, and released when  *)
(* nobody uses it; a directory in use is kept.                             *)
(***************************************************************************)
Revalidate(u, valid) ==
    LET b == ud[u].ino IN
    /\ ud[u].hashed
    /\ UNCHANGED attr
    /\ uino' = IF Negative(u) THEN uino ELSE Copied(b, lino[b])
    /\ \/ /\ valid
          /\ UNCHANGED <<ld, ud, refs>>
       \/ /\ ~valid /\ u # fresh
          /\ ~(Holders(u) # {} /\ ~Negative(u) /\ attr[lino[b]].kind = "dir")
          /\ ld' = [ld EXCEPT ![ud[u].low].hashed = FALSE]
          /\ IF Holders(u) = {}
             THEN ud' = [ud EXCEPT ![u] = NoUpper] /\ refs' = Released(refs, u)
             ELSE ud' = [ud EXCEPT ![u].hashed = FALSE] /\ UNCHANGED refs
    /\ UNCHANGED <<mounted, disk, lino, fresh, proc>>
-----------------------------------------------------------------------------
(***************************************************************************)
(* Operations of the directory.  The reference on the lower parent is      *)
(* taken and given back within each of them.                               *)
(***************************************************************************)

\* the upper dentry u was looked up, and the directory is locked
Found(u) == fresh = None /\ ud[u].hashed

\* a new file of kind k, where r are the counts after vfs_create() and so on
Make(u, k, r, ok) ==
    LET d == ud[u].low IN
    /\ Found(u) /\ Negative(u)
    /\ \E a \in LInodes, f \in Files, m \in Modes :
          /\ VfsMake(d, a, f, k, m)
          /\ \/ ok /\ Interpose(Get(r, {a}), a, f, u, ud[u], FALSE)
             \/ ~ok /\ refs' = Get(r, {a}) /\ UNCHANGED <<ud, uino, fresh>>
    /\ UNCHANGED <<mounted, proc>>

\* dazukofs_create() gets the path for the nameidata only before 3.6
Create(u, ok) ==
    LET path == {ud[u].low, "mnt"} IN
    Make(u, "file", Put(IF Before36 THEN Get(refs, path) ELSE refs, path), ok)

\* dazukofs_mknod(), a pipe or a device; dazukofs_mkdir(); dazukofs_symlink()
Mknod(u, ok)   == Make(u, "file", refs, ok)
Mkdir(u, ok)   == Make(u, "dir", refs, ok)
Symlink(u, ok) == Make(u, "link", refs, ok)

\* dazukofs_link(): the file of u gets the name of v
Link(u, v, ok) ==
    LET d == ud[v].low
        a == ld[ud[u].low].ino
        f == lino[a]
    IN
    /\ Found(u) /\ Found(v) /\ ~Negative(u) /\ Negative(v)
    /\ attr[f].kind # "dir"
    /\ ld[d].hashed /\ ld[d].ino = None
    /\ disk' = [disk EXCEPT ![ld[d].name] = f]
    /\ attr' = [attr EXCEPT ![f].nlink = @ + 1]
    /\ ld' = [ld EXCEPT ![d].ino = a]
    /\ \/ ok /\ Interpose(Get(refs, {a}), a, f, v, ud[v], FALSE)
       \/ ~ok /\ refs' = Get(refs, {a}) /\ UNCHANGED <<ud, uino, fresh>>
    /\ UNCHANGED <<mounted, lino, proc>>

\* Mutant of NlinkSet: i_nlink stays as it is.
NlinkSet_Not(b) == uino

\* set_nlink(dentry->d_inode, get_lower_inode(dentry->d_inode)->i_nlink)
NlinkSet(b) == [uino EXCEPT ![b].attr.nlink = attr'[lino[b]].nlink, ![b].stale = FALSE]

\* dazukofs_unlink(), and d_delete() by the VFS
Unlink(u) ==
    LET d == ud[u].low IN
    /\ Found(u) /\ ~Negative(u) /\ ld[d].ino # None
    /\ ~Races => \A p \in Holders(u) : proc[p].low # None
    /\ attr[lino[ld[d].ino]].kind # "dir"
    /\ DropName(ld[d].name, ld[d].ino)
    /\ LowerDelete(refs, d)
    /\ uino' = NlinkSet(ud[u].ino)
    /\ ud' = UpperDelete(u)
    /\ UNCHANGED <<mounted, lino, fresh, proc>>

\* dazukofs_rmdir() with its d_drop(); vfs_rmdir() unhashes the lower dentry
Rmdir(u) ==
    LET d == ud[u].low IN
    /\ Found(u) /\ ~Negative(u) /\ ld[d].ino # None
    /\ attr[lino[ld[d].ino]].kind = "dir"
    /\ DropName(ld[d].name, ld[d].ino)
    /\ ld' = [ld EXCEPT ![d].hashed = FALSE]
    /\ uino' = NlinkSet(ud[u].ino)
    /\ ud' = [ud EXCEPT ![u].hashed = FALSE]
    /\ UNCHANGED <<mounted, lino, fresh, proc, refs>>

\* dazukofs_rename() of u to the name of v, perhaps over a file, and d_move()
\* by the VFS on both sides; the attributes of that file are not copied
Rename(u, v) ==
    LET d == ud[u].low
        e == ud[v].low
        f == lino[ld[d].ino]
        over == ~Negative(v)
        gone == lino[ld[e].ino]
    IN
    /\ u # v /\ Found(u) /\ Found(v) /\ ~Negative(u)
    /\ over => ud[v].ino # ud[u].ino /\ (attr[f].kind = "dir" <=> attr[gone].kind = "dir")
    /\ disk' = [disk EXCEPT ![ld[e].name] = f, ![ld[d].name] = None]
    /\ attr' = IF over THEN [attr EXCEPT ![gone].nlink = @ - 1] ELSE attr
    /\ ld' = Moved(ld, d, e)
    /\ ud' = Moved(ud, u, v)
    /\ uino' = IF over THEN [uino EXCEPT ![ud[v].ino].stale = TRUE] ELSE uino
    /\ UNCHANGED <<mounted, lino, fresh, proc, refs>>
-----------------------------------------------------------------------------
(***************************************************************************)
(* Operations of a file.                                                   *)
(***************************************************************************)

\* a path walk by the VFS, which holds the upper dentry: external
Walk(p, u) ==
    /\ proc[p] = Idle
    /\ ud[u].hashed /\ ~Negative(u)
    /\ proc' = [proc EXCEPT ![p] = [pc |-> "walked", u |-> u, low |-> None]]
    /\ UNCHANGED <<mounted, lowerVars, ud, uino, fresh, refs>>

WalkEnd(p) ==
    /\ proc[p].pc = "walked"
    /\ proc' = [proc EXCEPT ![p] = Idle]
    /\ UNCHANGED <<mounted, lowerVars, ud, uino, fresh, refs>>

\* dazukofs_setattr()
Setattr(p, m) ==
    LET u == proc[p].u IN
    /\ proc[p].pc \in {"walked", "open"}
    /\ attr' = [attr EXCEPT ![lino[ld[ud[u].low].ino]].mode = m]
    /\ uino' = Copied(ud[u].ino, lino[ud[u].ino])
    /\ UNCHANGED <<mounted, disk, lino, ld, ud, fresh, proc, refs>>

\* dazukofs_setxattr(), after which the attributes are copied; the calls that get,
\* list and remove extended attributes copy nothing
Xattr(p, set) ==
    LET u == proc[p].u IN
    /\ proc[p].pc \in {"walked", "open"}
    /\ UNCHANGED attr
    /\ IF ld[ud[u].low].ino = None
       THEN ud' = [ud EXCEPT ![u].hashed = FALSE] /\ UNCHANGED uino
       ELSE uino' = (IF set THEN Copied(ud[u].ino, lino[ud[u].ino]) ELSE uino) /\ UNCHANGED ud
    /\ UNCHANGED <<mounted, disk, lino, ld, fresh, proc, refs>>

\* dazukofs_open() up to dazukofs_check_access(), which may wait for long
OpenStart(p) ==
    LET d == ud[proc[p].u].low IN
    /\ proc[p].pc = "walked"
    /\ proc' = [proc EXCEPT ![p].pc = "checking", ![p].low = d]
    /\ refs' = Get(refs, {d, "mnt"})
    /\ UNCHANGED <<mounted, lowerVars, ud, uino, fresh>>

\* no access or no memory: error_out1
OpenRefused(p) ==
    /\ proc[p].pc = "checking"
    /\ proc' = [proc EXCEPT ![p] = Idle]
    /\ refs' = Put(refs, {proc[p].low, "mnt"})
    /\ UNCHANGED <<mounted, lowerVars, ud, uino, fresh>>

(***************************************************************************)
(* dentry_open() fails and has put the path (before 3.6): error_out2, where *)
(* the file_info stays allocated.                                          *)
(***************************************************************************)
OpenFailed(p) ==
    LET r == Get(refs, {"fi"}) IN
    /\ proc[p].pc = "checking" /\ Leaks < MaxLeaks
    /\ proc' = [proc EXCEPT ![p] = Idle]
    /\ refs' = IF Before36 THEN Put(r, {proc[p].low, "mnt"}) ELSE r
    /\ UNCHANGED <<mounted, lowerVars, ud, uino, fresh>>

\* dentry_open() makes the path part of the file; from 3.6 on it gets it once more
OpenDone(p) ==
    LET r == Get(refs, {"fi"}) IN
    /\ proc[p].pc = "checking"
    /\ proc' = [proc EXCEPT ![p].pc = "open"]
    /\ refs' = IF Before36 THEN r ELSE Get(r, {proc[p].low, "mnt"})
    /\ UNCHANGED <<mounted, lowerVars, ud, uino, fresh>>

\* dazukofs_release()
Release(p) ==
    /\ proc[p].pc = "open"
    /\ proc' = [proc EXCEPT ![p] = Idle]
    /\ refs' = Put(refs, {proc[p].low, "mnt", "fi"})
    /\ UNCHANGED <<mounted, lowerVars, ud, uino, fresh>>

\* dazukofs_follow_link() and dazukofs_readlink()
FollowLink(p) ==
    LET u == proc[p].u IN
    /\ proc[p].pc = "walked"
    /\ attr[lino[ud[u].ino]].kind = "link"
    /\ IF ld[ud[u].low].ino = None
       THEN ud' = [ud EXCEPT ![u].hashed = FALSE] /\ UNCHANGED <<proc, refs>>
       ELSE /\ proc' = [proc EXCEPT ![p].pc = "following"]
            /\ refs' = Get(refs, {"buf"})
            /\ UNCHANGED ud
    /\ UNCHANGED <<mounted, lowerVars, uino, fresh>>

\* dazukofs_put_link()
PutLink(p) ==
    /\ proc[p].pc = "following"
    /\ proc' = [proc EXCEPT ![p] = Idle]
    /\ refs' = Put(refs, {"buf"})
    /\ UNCHANGED <<mounted, lowerVars, ud, uino, fresh>>

\* dazukofs_statfs(), which has no dput()
Statfs(u) ==
    /\ ~Negative(u) /\ Leaks < MaxLeaks
    /\ refs' = Get(refs, {ud[u].low})
    /\ UNCHANGED <<mounted, lowerVars, ud, uino, fresh, proc>>
-----------------------------------------------------------------------------
(***************************************************************************)
(* dazukofs_get_sb() before 2.6.39.  From then on it does not call         *)
(* dazukofs_read_super(), and the root is left without an inode.           *)
(***************************************************************************)

Super == {"sbi", "root", "di"}    \* allocated by dazukofs_fill_super()

Mount ==
    /\ ~mounted
    /\ mounted' = TRUE
    /\ ud' = [ud EXCEPT ![URoot] = [NoUpper EXCEPT !.low = LRoot, !.ino = ARoot, !.hashed = TRUE]]
    /\ uino' = [uino EXCEPT ![ARoot] = NewInode(ARoot)]
    /\ refs' = Get(refs, Super \cup {LRoot, "mnt", ARoot, "ii"})
    /\ UNCHANGED <<lowerVars, fresh, proc>>

(***************************************************************************)
(* dazukofs_read_super() fails for want of a directory, or because         *)
(* dazukofs_interpose() fails: it puts the lower root, and out_abort then  *)
(* releases the upper root, whose d_fsdata is set.  Without memory for     *)
(* that, dazukofs_fill_super() puts the root that sb->s_root still names.  *)
(***************************************************************************)
MountFailed(why) ==
    LET r    == Get(refs, Super)
        path == {LRoot, "mnt"}
    IN
    /\ ~mounted
    /\ refs' = CASE why = "path" -> Put(r, Super)
                 [] why = "iget" -> Put(Put(Put(Get(r, path), path), path), Super)
                 [] why = "di"   -> Put(Put(r, Super), {"root"})
    /\ UNCHANGED <<mounted, lowerVars, ud, uino, fresh, proc>>

\* the VFS has released everything else; then the root and dazukofs_put_super()
Unmount ==
    /\ mounted
    /\ \A u \in UDentries : ud[u] = NoUpper
    /\ \A a \in LInodes : ~Shown(a)
    /\ \A p \in Procs : proc[p] = Idle
    /\ mounted' = FALSE
    /\ ud' = [ud EXCEPT ![URoot] = NoUpper]
    /\ uino' = [uino EXCEPT ![ARoot] = NoInode]
    /\ refs' = Put(Put(Released(refs, URoot), {"sbi", "root"}), {ARoot, "ii"})
    /\ UNCHANGED <<lowerVars, fresh, proc>>
-----------------------------------------------------------------------------
\* whether dazukofs_interpose() succeeds
Interposes == {TRUE} \cup (IF "iget" \in Fails THEN {FALSE} ELSE {})

MakeAny(u, ok) ==
    \/ "file" \in Kinds /\ (Create(u, ok) \/ Mknod(u, ok))
    \/ "dir" \in Kinds /\ Mkdir(u, ok)
    \/ "link" \in Kinds /\ Symlink(u, ok)

DirectoryNext ==
    \/ \E n \in Names, d \in LDentries :
          \/ LookupNoMemory(n, d)
          \/ \E u \in UDentries, ok \in Interposes : Lookup(u, n, d, ok)
    \/ InterposeEnd
    \/ \E u \in UDentries :
          \/ \E ok \in Interposes : MakeAny(u, ok) \/ \E v \in UDentries : Link(u, v, ok)
          \/ Unlink(u) \/ Rmdir(u)
          \/ \E v \in UDentries : Rename(u, v)
          \/ \E valid \in BOOLEAN : Revalidate(u, valid)

FileNext ==
    \/ \E u \in StatfsOn : Statfs(u)
    \/ \E p \in Procs :
          \/ \E u \in UDentries : Walk(p, u)
          \/ (\E set \in BOOLEAN : Xattr(p, set)) \/ (\E m \in Modes : Setattr(p, m))
          \/ WalkEnd(p) \/ OpenStart(p) \/ FollowLink(p)
          \/ OpenRefused(p) \/ OpenFailed(p) \/ OpenDone(p) \/ Release(p) \/ PutLink(p)

CacheNext ==
    \/ \E u \in UDentries : DRelease(u)
    \/ \E a \in LInodes : Evict(a) \/ LowerForget(a)
    \/ \E d \in LDentries : LowerPrune(d)

StackNext ==
    \/ DirectoryNext \/ FileNext \/ CacheNext
    \/ Mount \/ Unmount
    \/ \E why \in {"path"} \cup Fails : MountFailed(why)

StackSpec == StackInit /\ [][StackNext]_stackVars
-----------------------------------------------------------------------------
(***************************************************************************)
(* Nothing is given up while somebody still has it: every lower dentry and *)
(* inode, the lower mount and every private structure are counted at least *)
(* once for each upper dentry, inode, open file and link walk that will    *)
(* give them back, along every error path.                                 *)
(***************************************************************************)
HeldWhileUsed == \A x \in Objects : Surplus(x) >= 0

(***************************************************************************)
(* Everything taken is given back, however lookups, opens, deletions and   *)
(* the VFS's releases interleave: counts and users drift apart only where  *)
(* statfs forgets its dput() and where a failed open forgets its           *)
(* file_info.                                                              *)
(***************************************************************************)
OnlyKnownLeaks ==
    [][\/ \A x \in Objects : Surplus(x)' = Surplus(x)
       \/ \E u \in StatfsOn : Statfs(u)
       \/ \E p \in Procs : OpenFailed(p)]_stackVars

(***************************************************************************)
(* An upper inode stands for one file: the address it was made for is not  *)
(* that of another file's inode, although addresses are used again.  What  *)
(* a process finds by name or works with leads to the same lower inode by  *)
(* the lower dentry and by the upper inode, which the code uses in turn.   *)
(* "As long as /usr/local/games is ONLY modified through dazukofs, there   *)
(* should not be any problems" (README): nothing else modifies it here.    *)
(***************************************************************************)
SameFile ==
    /\ \A a \in Inodes : Shown(a) => lino[a] = uino[a].file
    /\ \A u \in Uppers :
          /\ ~Negative(u)
          /\ ud[u].hashed \/ Holders(u) # {}
          => ld[ud[u].low].ino = ud[u].ino

(***************************************************************************)
(* A name found in the upper dcache is the same name below, with a file    *)
(* if and only if there is one: no file is hidden and none shown that is   *)
(* gone, whoever had it open when it was removed or renamed.               *)
(***************************************************************************)
NamesAgree ==
    \A u \in UDentries :
        ud[u].hashed =>
          LET d == ud[u].low IN
          /\ ld[d].hashed /\ ld[d].name = ud[u].name
          /\ Negative(u) <=> disk[ud[u].name] = None

(***************************************************************************)
(* The copies of the attributes in an upper inode are those of the lower   *)
(* inode, once it is not fresh any more: an upper inode that keeps links   *)
(* is not evicted and keeps a deleted file on the disk.  A rename over the *)
(* file is the exception.                                                  *)
(***************************************************************************)
AttrsAgree ==
    \A a \in LInodes :
        Shown(a) /\ (fresh # None => ud[fresh].ino # a) =>
          /\ uino[a].attr.mode = attr[lino[a]].mode
          /\ uino[a].stale \/ uino[a].attr.nlink = attr[lino[a]].nlink
=============================================================================
