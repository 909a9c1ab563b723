---------------------------- MODULE StackProofs -----------------------------
(***************************************************************************)
(* Theorems about the stacked objects, for any numbers of names, files,    *)
(* dentries, inodes and processes.                                         *)
(***************************************************************************)
EXTENDS Stack, FiniteSetTheorems, TLAPS

FileAttr   == [nlink : Int, mode : Modes \cup {None}, kind : Kinds \cup {None}]
LowerEntry == [name : Names \cup {None}, ino : Inodes \cup {None}, hashed : BOOLEAN]
UpperEntry == [name : Names \cup {None}, ino : Inodes \cup {None}, hashed : BOOLEAN,
               low : Lowers \cup {None}]
UpperInode == [file : Files \cup {None, ARoot},
               attr : [nlink : Int, mode : Modes \cup {None}], stale : BOOLEAN]
Process    == [pc : {"idle", "walked", "checking", "open", "following"},
               u : UDentries \cup {None}, low : LDentries \cup {None}]

StackTypes ==
    /\ mounted \in BOOLEAN
    /\ disk \in [Names -> Files \cup {None}]
    /\ attr \in [Files -> FileAttr]
    /\ lino \in [Inodes -> Files \cup {None, ARoot}]
    /\ ld \in [Lowers -> LowerEntry]
    /\ ud \in [Uppers -> UpperEntry]
    /\ uino \in [Inodes -> UpperInode]
    /\ fresh \in UDentries \cup {None}
    /\ proc \in [Procs -> Process]
    /\ refs \in [Objects -> Int]

\* the roots, which only mount and unmount change
RootOK ==
    /\ ud[URoot] = IF mounted THEN [NoUpper EXCEPT !.low = LRoot, !.ino = ARoot, !.hashed = TRUE]
                   ELSE NoUpper
    /\ Shown(ARoot) <=> mounted
    /\ ld[LRoot].ino = ARoot /\ lino[ARoot] = ARoot

\* a lower inode that somebody knows is in memory
LowerOK ==
    /\ \A a \in LInodes : lino[a] # ARoot /\ (Shown(a) => lino[a] # None)
    /\ \A d \in LDentries : /\ ld[d].ino # ARoot
                            /\ ld[d].ino # None => lino[ld[d].ino] # None

\* an upper dentry, once found by name, leads to the lower inode of its inode
UpperOK ==
    \A u \in UDentries :
        /\ ud[u].low # LRoot /\ ud[u].ino # ARoot
        /\ ud[u].low = None => ud[u] = NoUpper
        /\ ud[u].ino # None => Shown(ud[u].ino)
        /\ ud[u].hashed /\ ud[u].ino # None => ld[ud[u].low].ino = ud[u].ino

\* what a process holds is in use
Fits(r) ==
    /\ r.pc = "idle" => r = Idle
    /\ r.pc # "idle" => r.u # None /\ ud[r.u].ino # None
    /\ r.low # None <=> r.pc \in {"checking", "open"}
    /\ r.low # None => r.low = ud[r.u].low
ProcOK == \A p \in Procs : Fits(proc[p])

FreshOK == fresh # None => ud[fresh].ino # None

(***************************************************************************)
(* The counts cover the users, which is why what somebody uses is neither  *)
(* pruned nor forgotten.                                                   *)
(***************************************************************************)
Sound  == StackTypes /\ RootOK /\ LowerOK /\ UpperOK /\ ProcOK /\ FreshOK
RefInv == Sound /\ HeldWhileUsed

\* an address belongs to one file, and an upper inode to the file at its address
FileInv ==
    /\ \A a \in Inodes : Shown(a) => lino[a] = uino[a].file
    /\ \A a, b \in LInodes : lino[a] # None /\ lino[a] = lino[b] => a = b

\* what a process works with leads to the same lower inode on both ways
HeldInv == \A p \in Procs : LET u == proc[p].u IN u # None => ld[ud[u].low].ino = ud[u].ino

\* a lower dentry has its users and nothing else
CountInv == \A d \in LDentries : Surplus(d) = 0

\* an upper dentry and its lower dentry, which is its own, are hashed together
PairInv ==
    \A u \in UDentries : ud[u].low # None =>
       LET d == ud[u].low IN
       /\ ud[u].hashed <=> ld[d].hashed
       /\ ud[u].hashed => ld[d].name = ud[u].name /\ (ud[u].ino = None <=> ld[d].ino = None)
       /\ \A v \in UDentries : ud[v].low = d => v = u

\* the lower dcache shows what is on the disk
DiskInv ==
    \A d \in LDentries : ld[d].hashed =>
       /\ ld[d].name \in Names
       /\ disk[ld[d].name] = IF ld[d].ino = None THEN None ELSE lino[ld[d].ino]
       /\ \A e \in LDentries : ld[e].hashed /\ ld[e].name = ld[d].name => e = d
-----------------------------------------------------------------------------
(***************************************************************************)
(* Users, taken apart: the parts of the upper dentries, of the paths that  *)
(* processes opened, of files, of links, of lower dentries, upper inodes   *)
(* and the mount.                                                          *)
(***************************************************************************)
In(x, X) == IF x \in X THEN 1 ELSE 0

Ups(f, x) ==
    IF x \in Lowers THEN Cardinality({u \in Uppers : f[u].low = x})
    ELSE IF x \in {"mnt", "di"} THEN Cardinality({u \in Uppers : f[u].low # None}) ELSE 0

Paths(g, x) ==
    IF x \in Lowers THEN Cardinality({p \in Procs : g[p].low = x})
    ELSE IF x = "mnt" THEN Cardinality({p \in Procs : g[p].low # None}) ELSE 0

Opens(g, x)   == IF x = "fi" THEN Cardinality({p \in Procs : g[p].pc = "open"}) ELSE 0
Follows(g, x) == IF x = "buf" THEN Cardinality({p \in Procs : g[p].pc = "following"}) ELSE 0
Entries(h, x) == IF x \in Inodes THEN Cardinality({d \in LDentries : h[d].ino = x}) ELSE 0

Inos(i, x) ==
    IF x \in Inodes THEN (IF i[x].file # None THEN 1 ELSE 0)
    ELSE IF x = "ii" THEN Cardinality({a \in Inodes : i[a].file # None}) ELSE 0

Supers(m, x) == IF m /\ x \in {"sbi", "root"} THEN 1 ELSE 0

AllUsers(m, f, g, h, i, x) ==
    Ups(f, x) + Paths(g, x) + Opens(g, x) + Follows(g, x) + Entries(h, x) + Inos(i, x)
      + Supers(m, x)

LEMMA Distinct ==
    /\ \A x \in Lowers : x \notin Inodes /\ x \notin Pool
    /\ \A x \in Inodes : x \notin Lowers /\ x \notin Pool
    /\ \A x \in Pool : x \notin Lowers /\ x \notin Inodes
    /\ None \notin Lowers /\ None \notin Inodes /\ None \notin Uppers /\ None \notin Files
    /\ None \notin UDentries /\ None \notin LDentries /\ None \notin LInodes
    /\ None \notin Objects
BY ObjectsApart DEF Objects, Uppers, Lowers, Inodes

LEMMA AreFinite ==
    IsFiniteSet(Procs) /\ IsFiniteSet(Uppers) /\ IsFiniteSet(LDentries) /\ IsFiniteSet(Inodes)
<1>1. /\ IsFiniteSet(Procs) /\ IsFiniteSet(UDentries)
      /\ IsFiniteSet(LDentries) /\ IsFiniteSet(LInodes)
  BY ObjectsApart
<1>2. IsFiniteSet(UDentries \cup {URoot}) /\ IsFiniteSet(LInodes \cup {ARoot})
  BY <1>1, FS_AddElement
<1> QED BY <1>1, <1>2 DEF Uppers, Inodes

LEMMA CountNat == ASSUME NEW S, IsFiniteSet(S), NEW A \in SUBSET S PROVE Cardinality(A) \in Nat
BY FS_Subset, FS_CardinalityType

LEMMA CountAdds ==
    ASSUME NEW S, IsFiniteSet(S), NEW A \in SUBSET S, NEW B, NEW e, e \notin A, B = A \cup {e}
    PROVE  Cardinality(B) = Cardinality(A) + 1 /\ Cardinality(A) \in Nat
BY FS_Subset, FS_AddElement, FS_CardinalityType

LEMMA CountOne ==
    ASSUME NEW S, IsFiniteSet(S), NEW A \in SUBSET S, NEW e \in A
    PROVE  Cardinality(A) >= 1
<1>1. IsFiniteSet(A) /\ Cardinality(A) \in Nat
  BY FS_Subset, FS_CardinalityType
<1>2. Cardinality(A) # 0
  BY <1>1, FS_EmptySet
<1> QED BY <1>1, <1>2

LEMMA CountTwo ==
    ASSUME NEW S, IsFiniteSet(S), NEW A \in SUBSET S, NEW e \in A, NEW d \in A, d # e
    PROVE  Cardinality(A) >= 2
<1>1. Cardinality(A) = Cardinality(A \ {e}) + 1 /\ Cardinality(A \ {e}) \in Nat
  BY CountAdds, A = (A \ {e}) \cup {e}, A \ {e} \in SUBSET S
<1>2. Cardinality(A \ {e}) >= 1
  BY CountOne, A \ {e} \in SUBSET S, d \in A \ {e}
<1> QED BY <1>1, <1>2

LEMMA PartNats ==
    ASSUME NEW f, NEW g, NEW h, NEW i, NEW m, NEW x
    PROVE  /\ Ups(f, x) \in Nat /\ Paths(g, x) \in Nat /\ Opens(g, x) \in Nat
           /\ Follows(g, x) \in Nat /\ Entries(h, x) \in Nat /\ Inos(i, x) \in Nat
           /\ Supers(m, x) \in Nat
<1>1. Ups(f, x) \in Nat
  BY AreFinite, CountNat DEF Ups
<1>2. Paths(g, x) \in Nat
  BY AreFinite, CountNat DEF Paths
<1>3. Opens(g, x) \in Nat /\ Follows(g, x) \in Nat
  BY AreFinite, CountNat DEF Opens, Follows
<1>4. Entries(h, x) \in Nat
  BY AreFinite, CountNat DEF Entries
<1>5. Inos(i, x) \in Nat
  BY AreFinite, CountNat DEF Inos
<1>6. Supers(m, x) \in Nat
  BY DEF Supers
<1> QED BY <1>1, <1>2, <1>3, <1>4, <1>5, <1>6

LEMMA UsersAre ==
    ASSUME NEW x \in Objects
    PROVE  /\ Users(x) = AllUsers(mounted, ud, proc, ld, uino, x)
           /\ Users(x)' = AllUsers(mounted', ud', proc', ld', uino', x)
<1>0. x \in Lowers \/ x \in Inodes \/ x \in Pool
  BY DEF Objects
<1>1. CASE x \in Lowers
  <2>1. /\ x \notin Inodes
        /\ x \notin {"mnt", "di", "ii", "fi", "buf", "sbi", "root"}
    BY <1>1, Distinct DEF Pool
  <2>2. Users(x) = Ups(ud, x) + Paths(proc, x) /\ Users(x)' = Ups(ud', x) + Paths(proc', x)
    BY <1>1, <2>1 DEF Users, Ups, Paths
  <2>3. \A m, g, h, i : Opens(g, x) = 0 /\ Follows(g, x) = 0 /\ Entries(h, x) = 0
                        /\ Inos(i, x) = 0 /\ Supers(m, x) = 0
    BY <2>1 DEF Opens, Follows, Entries, Inos, Supers
  <2> QED BY <2>2, <2>3, PartNats DEF AllUsers
<1>2. CASE x \in Inodes
  <2>1. /\ x \notin Lowers
        /\ x \notin {"mnt", "di", "ii", "fi", "buf", "sbi", "root"}
    BY <1>2, Distinct DEF Pool
  <2>2. Users(x) = Entries(ld, x) + Inos(uino, x) /\ Users(x)' = Entries(ld', x) + Inos(uino', x)
    BY <1>2, <2>1 DEF Users, Entries, Inos, Shown
  <2>3. \A m, f, g : Opens(g, x) = 0 /\ Follows(g, x) = 0 /\ Ups(f, x) = 0
                        /\ Paths(g, x) = 0 /\ Supers(m, x) = 0
    BY <2>1 DEF Opens, Follows, Ups, Paths, Supers
  <2> QED BY <2>2, <2>3, PartNats DEF AllUsers
<1>3. CASE x = "mnt"
  <2>1. x \notin Lowers /\ x \notin Inodes
    BY <1>3, Distinct DEF Pool
  <2>2. Users(x) = Ups(ud, x) + Paths(proc, x) /\ Users(x)' = Ups(ud', x) + Paths(proc', x)
    BY <1>3, <2>1 DEF Users, Ups, Paths, InUse
  <2>3. \A m, g, h, i : Opens(g, x) = 0 /\ Follows(g, x) = 0 /\ Entries(h, x) = 0
                        /\ Inos(i, x) = 0 /\ Supers(m, x) = 0
    BY <1>3, <2>1 DEF Opens, Follows, Entries, Inos, Supers
  <2> QED BY <2>2, <2>3, PartNats DEF AllUsers
<1>4. CASE x = "di"
  <2>1. x \notin Lowers /\ x \notin Inodes
    BY <1>4, Distinct DEF Pool
  <2>2. Users(x) = Ups(ud, x) /\ Users(x)' = Ups(ud', x)
    BY <1>4, <2>1 DEF Users, Ups, InUse
  <2>3. \A m, g, h, i : Opens(g, x) = 0 /\ Follows(g, x) = 0 /\ Entries(h, x) = 0
                        /\ Inos(i, x) = 0 /\ Supers(m, x) = 0 /\ Paths(g, x) = 0
    BY <1>4, <2>1 DEF Opens, Follows, Entries, Inos, Supers, Paths
  <2> QED BY <2>2, <2>3, PartNats DEF AllUsers
<1>5. CASE x = "ii"
  <2>1. x \notin Lowers /\ x \notin Inodes
    BY <1>5, Distinct DEF Pool
  <2>2. Users(x) = Inos(uino, x) /\ Users(x)' = Inos(uino', x)
    BY <1>5, <2>1 DEF Users, Inos, Shown
  <2>3. \A m, f, g, h : Opens(g, x) = 0 /\ Follows(g, x) = 0 /\ Entries(h, x) = 0
                        /\ Ups(f, x) = 0 /\ Supers(m, x) = 0 /\ Paths(g, x) = 0
    BY <1>5, <2>1 DEF Opens, Follows, Entries, Ups, Supers, Paths
  <2> QED BY <2>2, <2>3, PartNats DEF AllUsers
<1>6. CASE x = "fi"
  <2>1. x \notin Lowers /\ x \notin Inodes
    BY <1>6, Distinct DEF Pool
  <2>2. Users(x) = Opens(proc, x) /\ Users(x)' = Opens(proc', x)
    BY <1>6, <2>1 DEF Users, Opens
  <2>3. \A m, f, g, h, i : Inos(i, x) = 0 /\ Follows(g, x) = 0 /\ Entries(h, x) = 0
                        /\ Ups(f, x) = 0 /\ Supers(m, x) = 0 /\ Paths(g, x) = 0
    BY <1>6, <2>1 DEF Inos, Follows, Entries, Ups, Supers, Paths
  <2> QED BY <2>2, <2>3, PartNats DEF AllUsers
<1>7. CASE x = "buf"
  <2>1. x \notin Lowers /\ x \notin Inodes
    BY <1>7, Distinct DEF Pool
  <2>2. Users(x) = Follows(proc, x) /\ Users(x)' = Follows(proc', x)
    BY <1>7, <2>1 DEF Users, Follows
  <2>3. \A m, f, g, h, i : Inos(i, x) = 0 /\ Opens(g, x) = 0 /\ Entries(h, x) = 0
                        /\ Ups(f, x) = 0 /\ Supers(m, x) = 0 /\ Paths(g, x) = 0
    BY <1>7, <2>1 DEF Inos, Opens, Entries, Ups, Supers, Paths
  <2> QED BY <2>2, <2>3, PartNats DEF AllUsers
<1>8. CASE x \in {"sbi", "root"}
  <2>1. x \notin Lowers /\ x \notin Inodes
    BY <1>8, Distinct DEF Pool
  <2>2. Users(x) = Supers(mounted, x) /\ Users(x)' = Supers(mounted', x)
    BY <1>8, <2>1 DEF Users, Supers
  <2>3. \A f, g, h, i : Inos(i, x) = 0 /\ Opens(g, x) = 0 /\ Entries(h, x) = 0
                        /\ Ups(f, x) = 0 /\ Follows(g, x) = 0 /\ Paths(g, x) = 0
    BY <1>8, <2>1 DEF Inos, Opens, Entries, Ups, Follows, Paths
  <2> QED BY <2>2, <2>3, PartNats DEF AllUsers
<1> QED BY <1>0, <1>1, <1>2, <1>3, <1>4, <1>5, <1>6, <1>7, <1>8 DEF Pool
-----------------------------------------------------------------------------
(***************************************************************************)
(* How the parts change.                                                   *)
(***************************************************************************)
LEMMA UpsSame ==
    ASSUME NEW f, NEW g, \A v \in Uppers : g[v].low = f[v].low, NEW x
    PROVE  Ups(g, x) = Ups(f, x)
<1>1. \A y : {u \in Uppers : g[u].low = y} = {u \in Uppers : f[u].low = y}
  OBVIOUS
<1>2. {u \in Uppers : g[u].low # None} = {u \in Uppers : f[u].low # None}
  OBVIOUS
<1> QED BY <1>1, <1>2 DEF Ups

LEMMA UpsTake ==
    ASSUME NEW f, NEW g, NEW u \in Uppers, NEW d \in Lowers, f[u].low = None, g[u].low = d,
           \A v \in Uppers \ {u} : g[v].low = f[v].low, NEW x \in Objects
    PROVE  Ups(g, x) = Ups(f, x) + In(x, {d, "mnt", "di"})
<1> DEFINE A(y) == {v \in Uppers : f[v].low = y}
           B(y) == {v \in Uppers : g[v].low = y}
           C    == {v \in Uppers : f[v].low # None}
           D    == {v \in Uppers : g[v].low # None}
<1>0. None \notin Lowers /\ {"mnt", "di"} \cap Lowers = {}
  BY Distinct DEF Pool
<1>1. CASE x \in Lowers /\ x = d
  <2>1. A(x) \in SUBSET Uppers /\ u \notin A(x) /\ B(x) = A(x) \cup {u}
    BY <1>0, <1>1
  <2>2. Cardinality(B(x)) = Cardinality(A(x)) + 1
    BY <2>1, AreFinite, CountAdds
  <2> QED BY <1>1, <2>2 DEF Ups, In
<1>2. CASE x \in Lowers /\ x # d
  <2>1. B(x) = A(x)
    BY <1>0, <1>2
  <2>2. In(x, {d, "mnt", "di"}) = 0
    BY <1>0, <1>2 DEF In
  <2>3. Ups(g, x) = Ups(f, x) /\ Ups(f, x) \in Nat
    BY <1>2, <2>1, PartNats DEF Ups
  <2> QED BY <2>2, <2>3
<1>3. CASE x \in {"mnt", "di"}
  <2>1. C \in SUBSET Uppers /\ u \notin C /\ D = C \cup {u}
    BY <1>0
  <2>2. Cardinality(D) = Cardinality(C) + 1
    BY <2>1, AreFinite, CountAdds
  <2> QED BY <1>0, <1>3, <2>2 DEF Ups, In
<1>4. CASE x \notin Lowers /\ x \notin {"mnt", "di"}
  BY <1>4 DEF Ups, In
<1> QED BY <1>1, <1>2, <1>3, <1>4

\* the same, for an upper dentry that gets its lower one
Enters(f, g, u, d) == /\ f[u].low = None /\ g[u].low = d
                      /\ \A v \in Uppers \ {u} : g[v].low = f[v].low

LEMMA UpsEnter ==
    ASSUME NEW f, NEW g, NEW u \in Uppers, NEW d \in Lowers, Enters(f, g, u, d),
           NEW x \in Objects
    PROVE  Ups(g, x) = Ups(f, x) + In(x, {d, "mnt", "di"})
BY UpsTake DEF Enters

LEMMA PathsSame ==
    ASSUME NEW f, NEW g, \A q \in Procs : g[q].low = f[q].low, NEW x
    PROVE  Paths(g, x) = Paths(f, x)
<1>1. \A y : {q \in Procs : g[q].low = y} = {q \in Procs : f[q].low = y}
  OBVIOUS
<1>2. {q \in Procs : g[q].low # None} = {q \in Procs : f[q].low # None}
  OBVIOUS
<1> QED BY <1>1, <1>2 DEF Paths

LEMMA PathsTake ==
    ASSUME NEW f, NEW g, NEW p \in Procs, NEW d \in Lowers, f[p].low = None, g[p].low = d,
           \A q \in Procs \ {p} : g[q].low = f[q].low, NEW x \in Objects
    PROVE  Paths(g, x) = Paths(f, x) + In(x, {d, "mnt"})
<1> DEFINE A(y) == {v \in Procs : f[v].low = y}
           B(y) == {v \in Procs : g[v].low = y}
           C    == {v \in Procs : f[v].low # None}
           D    == {v \in Procs : g[v].low # None}
<1>0. None \notin Lowers /\ "mnt" \notin Lowers
  BY Distinct DEF Pool
<1>1. CASE x \in Lowers /\ x = d
  <2>1. A(x) \in SUBSET Procs /\ p \notin A(x) /\ B(x) = A(x) \cup {p}
    BY <1>0, <1>1
  <2>2. Cardinality(B(x)) = Cardinality(A(x)) + 1
    BY <2>1, AreFinite, CountAdds
  <2> QED BY <1>1, <2>2 DEF Paths, In
<1>2. CASE x \in Lowers /\ x # d
  <2>1. B(x) = A(x)
    BY <1>0, <1>2
  <2>2. In(x, {d, "mnt"}) = 0
    BY <1>0, <1>2 DEF In
  <2>3. Paths(g, x) = Paths(f, x) /\ Paths(f, x) \in Nat
    BY <1>2, <2>1, PartNats DEF Paths
  <2> QED BY <2>2, <2>3
<1>3. CASE x = "mnt"
  <2>1. C \in SUBSET Procs /\ p \notin C /\ D = C \cup {p}
    BY <1>0
  <2>2. Cardinality(D) = Cardinality(C) + 1
    BY <2>1, AreFinite, CountAdds
  <2> QED BY <1>0, <1>3, <2>2 DEF Paths, In
<1>4. CASE x \notin Lowers /\ x # "mnt"
  BY <1>4 DEF Paths, In
<1> QED BY <1>1, <1>2, <1>3, <1>4

LEMMA OpensSame ==
    ASSUME NEW f, NEW g, \A q \in Procs : g[q].pc = "open" <=> f[q].pc = "open", NEW x
    PROVE  Opens(g, x) = Opens(f, x)
<1>1. {q \in Procs : g[q].pc = "open"} = {q \in Procs : f[q].pc = "open"}
  OBVIOUS
<1> QED BY <1>1 DEF Opens

LEMMA FollowsSame ==
    ASSUME NEW f, NEW g, \A q \in Procs : g[q].pc = "following" <=> f[q].pc = "following", NEW x
    PROVE  Follows(g, x) = Follows(f, x)
<1>1. {q \in Procs : g[q].pc = "following"} = {q \in Procs : f[q].pc = "following"}
  OBVIOUS
<1> QED BY <1>1 DEF Follows

LEMMA OpensTake ==
    ASSUME NEW f, NEW g, NEW p \in Procs, f[p].pc # "open", g[p].pc = "open",
           \A q \in Procs \ {p} : g[q].pc = f[q].pc, NEW x \in Objects
    PROVE  Opens(g, x) = Opens(f, x) + In(x, {"fi"})
<1> DEFINE A == {v \in Procs : f[v].pc = "open"}
           B == {v \in Procs : g[v].pc = "open"}
<1>1. A \in SUBSET Procs /\ p \notin A /\ B = A \cup {p}
  OBVIOUS
<1>2. Cardinality(B) = Cardinality(A) + 1
  BY <1>1, AreFinite, CountAdds
<1> QED BY <1>2 DEF Opens, In

LEMMA FollowsTake ==
    ASSUME NEW f, NEW g, NEW p \in Procs, f[p].pc # "following", g[p].pc = "following",
           \A q \in Procs \ {p} : g[q].pc = f[q].pc, NEW x \in Objects
    PROVE  Follows(g, x) = Follows(f, x) + In(x, {"buf"})
<1> DEFINE A == {v \in Procs : f[v].pc = "following"}
           B == {v \in Procs : g[v].pc = "following"}
<1>1. A \in SUBSET Procs /\ p \notin A /\ B = A \cup {p}
  OBVIOUS
<1>2. Cardinality(B) = Cardinality(A) + 1
  BY <1>1, AreFinite, CountAdds
<1> QED BY <1>2 DEF Follows, In

LEMMA EntriesSame ==
    ASSUME NEW f, NEW g, \A d \in LDentries : g[d].ino = f[d].ino, NEW x
    PROVE  Entries(g, x) = Entries(f, x)
<1>1. {d \in LDentries : g[d].ino = x} = {d \in LDentries : f[d].ino = x}
  OBVIOUS
<1> QED BY <1>1 DEF Entries

LEMMA EntriesTake ==
    ASSUME NEW f, NEW g, NEW d \in LDentries, NEW a \in Inodes, f[d].ino = None, g[d].ino = a,
           \A e \in LDentries \ {d} : g[e].ino = f[e].ino, NEW x \in Objects
    PROVE  Entries(g, x) = Entries(f, x) + In(x, {a})
<1> DEFINE A == {e \in LDentries : f[e].ino = x}
           B == {e \in LDentries : g[e].ino = x}
<1>0. None \notin Inodes
  BY Distinct
<1>1. CASE x = a
  <2>1. A \in SUBSET LDentries /\ d \notin A /\ B = A \cup {d}
    BY <1>0, <1>1
  <2>2. Cardinality(B) = Cardinality(A) + 1
    BY <2>1, AreFinite, CountAdds
  <2> QED BY <1>1, <2>2 DEF Entries, In
<1>2. CASE x \in Inodes /\ x # a
  <2>1. B = A
    BY <1>0, <1>2
  <2>2. Entries(g, x) = Entries(f, x) /\ Entries(f, x) \in Nat
    BY <1>2, <2>1, PartNats DEF Entries
  <2>3. In(x, {a}) = 0
    BY <1>2 DEF In
  <2> QED BY <2>2, <2>3
<1>3. CASE x \notin Inodes
  BY <1>3 DEF Entries, In
<1> QED BY <1>1, <1>2, <1>3

\* the same, for a dentry that loses its inode
Loses(f, g, d, a) == /\ f[d].ino = a /\ g[d].ino = None
                     /\ \A e \in LDentries \ {d} : f[e].ino = g[e].ino

LEMMA EntriesGive ==
    ASSUME NEW f, NEW g, NEW d \in LDentries, NEW a \in Inodes, Loses(f, g, d, a),
           NEW x \in Objects
    PROVE  Entries(f, x) = Entries(g, x) + In(x, {a})
BY EntriesTake DEF Loses

LEMMA InosSame ==
    ASSUME NEW f, NEW g, \A a \in Inodes : g[a].file # None <=> f[a].file # None, NEW x
    PROVE  Inos(g, x) = Inos(f, x)
<1>1. {a \in Inodes : g[a].file # None} = {a \in Inodes : f[a].file # None}
  OBVIOUS
<1> QED BY <1>1 DEF Inos

LEMMA InosTake ==
    ASSUME NEW f, NEW g, NEW a \in Inodes, f[a].file = None, g[a].file # None,
           \A b \in Inodes \ {a} : g[b].file = f[b].file, NEW x \in Objects
    PROVE  Inos(g, x) = Inos(f, x) + In(x, {a, "ii"})
<1> DEFINE A == {e \in Inodes : f[e].file # None}
           B == {e \in Inodes : g[e].file # None}
<1>0. "ii" \notin Inodes
  BY Distinct DEF Pool
<1>1. CASE x = "ii"
  <2>1. A \in SUBSET Inodes /\ a \notin A /\ B = A \cup {a}
    OBVIOUS
  <2>2. Cardinality(B) = Cardinality(A) + 1
    BY <2>1, AreFinite, CountAdds
  <2> QED BY <1>0, <1>1, <2>2 DEF Inos, In
<1>2. CASE x \in Inodes
  BY <1>0, <1>2 DEF Inos, In
<1>3. CASE x \notin Inodes /\ x # "ii"
  BY <1>3 DEF Inos, In
<1> QED BY <1>1, <1>2, <1>3

\* the same, for the new upper inode of a
Appears(f, g, a) == /\ f[a].file = None /\ g[a].file # None
                    /\ \A b \in Inodes \ {a} : g[b].file = f[b].file

LEMMA InosAppear ==
    ASSUME NEW f, NEW g, NEW a \in Inodes, Appears(f, g, a), NEW x \in Objects
    PROVE  Inos(g, x) = Inos(f, x) + In(x, {a, "ii"})
BY InosTake DEF Appears

LEMMA InType == ASSUME NEW x, NEW X PROVE In(x, X) \in 0 .. 1
BY DEF In

LEMMA Counts ==
    ASSUME NEW r \in [Objects -> Int], NEW X
    PROVE  /\ Get(r, X) \in [Objects -> Int] /\ Put(r, X) \in [Objects -> Int]
           /\ \A x \in Objects : /\ Get(r, X)[x] = r[x] + In(x, X)
                                 /\ Put(r, X)[x] = r[x] - In(x, X)
<1>1. Get(r, X) \in [Objects -> Int] /\ Put(r, X) \in [Objects -> Int]
  BY DEF Get, Put
<1>2. ASSUME NEW x \in Objects
      PROVE  Get(r, X)[x] = r[x] + In(x, X) /\ Put(r, X)[x] = r[x] - In(x, X)
  BY DEF Get, Put, In
<1> QED BY <1>1, <1>2
-----------------------------------------------------------------------------
(***************************************************************************)
(* What the counts say about the users.                                    *)
(***************************************************************************)
LEMMA UsersOfDentry ==
    ASSUME RefInv, NEW d \in Lowers
    PROVE  /\ refs[d] \in Int /\ refs[d] >= Ups(ud, d) + Paths(proc, d)
           /\ Ups(ud, d) \in Nat /\ Paths(proc, d) \in Nat
           /\ Surplus(d) = refs[d] - (Ups(ud, d) + Paths(proc, d))
<1>1. d \in Objects /\ refs[d] \in Int
  BY DEF Objects, RefInv, Sound, StackTypes
<1>2. /\ Opens(proc, d) = 0 /\ Follows(proc, d) = 0 /\ Entries(ld, d) = 0
      /\ Inos(uino, d) = 0 /\ Supers(mounted, d) = 0
  BY Distinct DEF Opens, Follows, Entries, Inos, Supers, Pool
<1>3. Users(d) = Ups(ud, d) + Paths(proc, d)
  BY <1>1, <1>2, UsersAre, PartNats DEF AllUsers
<1>4. refs[d] - Users(d) >= 0
  BY <1>1 DEF RefInv, HeldWhileUsed, Surplus
<1> QED BY <1>1, <1>3, <1>4, PartNats DEF Surplus

LEMMA UsersOfInode ==
    ASSUME RefInv, NEW a \in Inodes
    PROVE  refs[a] \in Int /\ refs[a] >= Entries(ld, a) + Inos(uino, a)
<1>1. a \in Objects /\ refs[a] \in Int
  BY DEF Objects, RefInv, Sound, StackTypes
<1>2. /\ Opens(proc, a) = 0 /\ Follows(proc, a) = 0 /\ Ups(ud, a) = 0
      /\ Paths(proc, a) = 0 /\ Supers(mounted, a) = 0
  BY Distinct DEF Opens, Follows, Ups, Paths, Supers, Pool
<1>3. Users(a) = Entries(ld, a) + Inos(uino, a)
  BY <1>1, <1>2, UsersAre, PartNats DEF AllUsers
<1>4. refs[a] - Users(a) >= 0
  BY <1>1 DEF RefInv, HeldWhileUsed, Surplus
<1> QED BY <1>1, <1>3, <1>4, PartNats

LEMMA UpsMany ==
    ASSUME NEW f, NEW d \in Lowers, NEW u \in Uppers, f[u].low = d
    PROVE  Ups(f, d) >= 1 /\ \A v \in Uppers : v # u /\ f[v].low = d => Ups(f, d) >= 2
<1> DEFINE A == {v \in Uppers : f[v].low = d}
<1>1. Ups(f, d) = Cardinality(A)
  BY DEF Ups
<1>2. A \in SUBSET Uppers /\ u \in A
  OBVIOUS
<1>3. Cardinality(A) >= 1
  BY <1>2, AreFinite, CountOne
<1>4. ASSUME NEW v \in Uppers, v # u, f[v].low = d PROVE Cardinality(A) >= 2
  <2>1. v \in A
    BY <1>4
  <2> QED BY <1>2, <1>4, <2>1, AreFinite, CountTwo
<1> QED BY <1>1, <1>3, <1>4

LEMMA PathsMany ==
    ASSUME NEW g, NEW d \in Lowers, NEW p \in Procs, g[p].low = d
    PROVE  Paths(g, d) >= 1
<1> DEFINE A == {q \in Procs : g[q].low = d}
<1>1. Paths(g, d) = Cardinality(A)
  BY DEF Paths
<1>2. A \in SUBSET Procs /\ p \in A
  OBVIOUS
<1> QED BY <1>1, <1>2, AreFinite, CountOne

LEMMA Unheld ==
    ASSUME RefInv, NEW d \in Lowers, refs[d] <= 0
    PROVE  (\A u \in Uppers : ud[u].low # d) /\ (\A p \in Procs : proc[p].low # d)
<1>1. Ups(ud, d) < 1 /\ Paths(proc, d) < 1
  BY UsersOfDentry
<1>2. ASSUME NEW u \in Uppers, ud[u].low = d PROVE FALSE
  <2>1. Ups(ud, d) >= 1
    BY <1>2, UpsMany
  <2> QED BY <1>1, <2>1, UsersOfDentry
<1>3. ASSUME NEW p \in Procs, proc[p].low = d PROVE FALSE
  <2>1. Paths(proc, d) >= 1
    BY <1>3, PathsMany
  <2> QED BY <1>1, <2>1, UsersOfDentry
<1> QED BY <1>2, <1>3

LEMMA OneHolder ==
    ASSUME RefInv, NEW u \in Uppers, ud[u].low \in Lowers, refs[ud[u].low] = 1
    PROVE  /\ \A v \in Uppers : ud[v].low = ud[u].low => v = u
           /\ \A p \in Procs : proc[p].low # ud[u].low
<1> DEFINE d == ud[u].low
<1>1. Ups(ud, d) >= 1
  BY UpsMany
<1>2. Ups(ud, d) < 2 /\ Paths(proc, d) < 1
  BY <1>1, UsersOfDentry
<1>3. ASSUME NEW v \in Uppers, ud[v].low = d, v # u PROVE FALSE
  <2>1. Ups(ud, d) >= 2
    BY <1>3, UpsMany
  <2> QED BY <1>2, <2>1, UsersOfDentry
<1>4. ASSUME NEW p \in Procs, proc[p].low = d PROVE FALSE
  <2>1. Paths(proc, d) >= 1
    BY <1>4, PathsMany
  <2> QED BY <1>2, <2>1, UsersOfDentry
<1> QED BY <1>3, <1>4

LEMMA Forgotten ==
    ASSUME RefInv, NEW a \in Inodes, refs[a] <= 0
    PROVE  ~Shown(a) /\ \A d \in LDentries : ld[d].ino # a
<1>1. Entries(ld, a) < 1 /\ Inos(uino, a) < 1
  BY UsersOfInode, PartNats
<1>2. ~Shown(a)
  BY <1>1 DEF Inos, Shown
<1>3. ASSUME NEW d \in LDentries, ld[d].ino = a PROVE FALSE
  <2> DEFINE A == {e \in LDentries : ld[e].ino = a}
  <2>1. Entries(ld, a) = Cardinality(A) /\ A \in SUBSET LDentries /\ d \in A
    BY <1>3 DEF Entries
  <2>2. Cardinality(A) >= 1
    BY <2>1, AreFinite, CountOne
  <2>3. Entries(ld, a) \in Nat
    BY PartNats
  <2> HIDE DEF A
  <2> QED BY <1>1, <2>1, <2>2, <2>3
<1> QED BY <1>2, <1>3
-----------------------------------------------------------------------------
(***************************************************************************)
(* The steps.  Each keeps Sound, and all but the two that leak keep every  *)
(* count in step with its users.                                           *)
(***************************************************************************)
Balanced == \A x \in Objects : Surplus(x)' = Surplus(x)

SumsAt(x) ==
    /\ Surplus(x) = refs[x] - (Ups(ud, x) + Paths(proc, x) + Opens(proc, x) + Follows(proc, x)
                                 + Entries(ld, x) + Inos(uino, x) + Supers(mounted, x))
    /\ Surplus(x)' = refs'[x] - (Ups(ud', x) + Paths(proc', x) + Opens(proc', x)
                                   + Follows(proc', x) + Entries(ld', x) + Inos(uino', x)
                                   + Supers(mounted', x))
    /\ refs[x] \in Int
    /\ Ups(ud, x) \in Int /\ Paths(proc, x) \in Int /\ Opens(proc, x) \in Int
    /\ Follows(proc, x) \in Int /\ Entries(ld, x) \in Int /\ Inos(uino, x) \in Int
    /\ Supers(mounted, x) \in Int
    /\ Ups(ud', x) \in Int /\ Paths(proc', x) \in Int /\ Opens(proc', x) \in Int
    /\ Follows(proc', x) \in Int /\ Entries(ld', x) \in Int /\ Inos(uino', x) \in Int
    /\ Supers(mounted', x) \in Int

LEMMA Sums == ASSUME RefInv, NEW x \in Objects PROVE SumsAt(x)
<1>1. refs[x] \in Int
  BY DEF RefInv, Sound, StackTypes
<1>2. /\ Ups(ud, x) \in Int /\ Paths(proc, x) \in Int /\ Opens(proc, x) \in Int
      /\ Follows(proc, x) \in Int /\ Entries(ld, x) \in Int /\ Inos(uino, x) \in Int
      /\ Supers(mounted, x) \in Int
  BY PartNats
<1>3. /\ Ups(ud', x) \in Int /\ Paths(proc', x) \in Int /\ Opens(proc', x) \in Int
      /\ Follows(proc', x) \in Int /\ Entries(ld', x) \in Int /\ Inos(uino', x) \in Int
      /\ Supers(mounted', x) \in Int
  BY PartNats
<1>4. Users(x) = Ups(ud, x) + Paths(proc, x) + Opens(proc, x) + Follows(proc, x)
                   + Entries(ld, x) + Inos(uino, x) + Supers(mounted, x)
  BY UsersAre DEF AllUsers
<1>5. Users(x)' = Ups(ud', x) + Paths(proc', x) + Opens(proc', x) + Follows(proc', x)
                    + Entries(ld', x) + Inos(uino', x) + Supers(mounted', x)
  BY UsersAre DEF AllUsers
<1>6. Surplus(x) = refs[x] - Users(x) /\ Surplus(x)' = refs'[x] - Users(x)'
  BY DEF Surplus
<1> QED BY <1>1, <1>2, <1>3, <1>4, <1>5, <1>6 DEF SumsAt

LEMMA Known ==
    ASSUME Sound
    PROVE  /\ \A u \in UDentries : /\ u \in Uppers /\ u # URoot /\ u # None
                                   /\ ud[u].low \in LDentries \cup {None}
                                   /\ ud[u].ino \in LInodes \cup {None}
                                   /\ ud[u].ino # None => ud[u].low \in LDentries
                                   /\ ud[u].hashed => ud[u].low \in LDentries
           /\ \A d \in LDentries : d \in Lowers /\ d # LRoot /\ d # None /\ d \in Objects
                                   /\ ld[d].ino \in LInodes \cup {None}
           /\ \A a \in LInodes : a \in Inodes /\ a # ARoot /\ a # None /\ a \in Objects
                                 /\ lino[a] \in Files \cup {None}
           /\ \A p \in Procs : proc[p].pc # "idle" =>
                 /\ proc[p].u \in UDentries /\ ud[proc[p].u].ino \in LInodes
                 /\ ud[proc[p].u].low \in LDentries /\ lino[ud[proc[p].u].ino] \in Files
           /\ fresh # None =>
                 /\ fresh \in UDentries /\ ud[fresh].ino \in LInodes
                 /\ lino[ud[fresh].ino] \in Files
           /\ URoot \in Uppers /\ LRoot \in Lowers /\ ARoot \in Inodes
<1>1. /\ \A u \in UDentries : u \in Uppers /\ u # URoot /\ u # None
      /\ \A d \in LDentries : d \in Lowers /\ d # LRoot /\ d # None /\ d \in Objects
      /\ \A a \in LInodes : a \in Inodes /\ a # ARoot /\ a # None /\ a \in Objects
      /\ URoot \in Uppers /\ LRoot \in Lowers /\ ARoot \in Inodes
  BY StackAssumption, Distinct DEF Uppers, Lowers, Inodes, Objects
<1>2. \A a \in LInodes : lino[a] \in Files \cup {None}
  BY <1>1 DEF Sound, StackTypes, LowerOK
<1>3. \A d \in LDentries : ld[d].ino \in LInodes \cup {None}
  BY <1>1 DEF Sound, StackTypes, LowerOK, LowerEntry, Inodes
<1>4. ASSUME NEW u \in UDentries
      PROVE  /\ ud[u].low \in LDentries \cup {None} /\ ud[u].ino \in LInodes \cup {None}
             /\ ud[u].ino # None => ud[u].low \in LDentries
             /\ ud[u].hashed => ud[u].low \in LDentries
             /\ ud[u].ino # None => lino[ud[u].ino] \in Files
  <2>1. ud[u] \in UpperEntry
    BY <1>1 DEF Sound, StackTypes
  <2>2. ud[u].low \in LDentries \cup {None} /\ ud[u].ino \in LInodes \cup {None}
    BY <2>1 DEF Sound, UpperOK, UpperEntry, Lowers, Inodes
  <2>3. ud[u].low = None => ud[u].ino = None /\ ~ud[u].hashed
    BY DEF Sound, UpperOK, NoUpper
  <2>4. ud[u].ino # None => lino[ud[u].ino] # None
    BY <2>2 DEF Sound, UpperOK, LowerOK
  <2> QED BY <1>2, <2>2, <2>3, <2>4
<1>5. ASSUME NEW p \in Procs, proc[p].pc # "idle"
      PROVE  proc[p].u \in UDentries /\ ud[proc[p].u].ino # None
  BY <1>5 DEF Sound, StackTypes, ProcOK, Fits, Process
<1>6. fresh # None => fresh \in UDentries /\ ud[fresh].ino # None
  BY DEF Sound, StackTypes, FreshOK
<1>7. ASSUME NEW p \in Procs, proc[p].pc # "idle"
      PROVE  /\ proc[p].u \in UDentries /\ ud[proc[p].u].ino \in LInodes
             /\ ud[proc[p].u].low \in LDentries /\ lino[ud[proc[p].u].ino] \in Files
  BY <1>4, <1>5, <1>7
<1>8. fresh # None => /\ fresh \in UDentries /\ ud[fresh].ino \in LInodes
                      /\ lino[ud[fresh].ino] \in Files
  BY <1>4, <1>6
<1> QED BY <1>1, <1>2, <1>3, <1>4, <1>7, <1>8

\* steps that change a process and the counts
LEMMA ProcStep ==
    ASSUME Sound, NEW p \in Procs, NEW r \in Process, Fits(r),
           proc' = [proc EXCEPT ![p] = r], refs' \in [Objects -> Int],
           UNCHANGED <<mounted, lowerVars, ud, uino, fresh>>
    PROVE  Sound'
<1> USE DEF lowerVars
<1>1. StackTypes'
  BY DEF Sound, StackTypes
<1>2. RootOK' /\ LowerOK' /\ UpperOK' /\ FreshOK'
  BY DEF Sound, RootOK, LowerOK, UpperOK, FreshOK, Shown
<1>3. ProcOK'
  <2>1. \A q \in Procs : proc'[q] = IF q = p THEN r ELSE proc[q]
    BY DEF Sound, StackTypes
  <2> QED BY <2>1 DEF Sound, ProcOK, Fits
<1> QED BY <1>1, <1>2, <1>3 DEF Sound

LEMMA IdleFits == Idle \in Process /\ Fits(Idle) /\ Idle.low = None /\ Idle.pc = "idle"
BY Distinct DEF Idle, Process, Fits

LEMMA WalkStep ==
    ASSUME RefInv, NEW p \in Procs, NEW u \in UDentries, Walk(p, u)
    PROVE  Sound' /\ Balanced
<1> DEFINE r == [pc |-> "walked", u |-> u, low |-> None]
<1>1. Sound /\ proc[p] = Idle /\ proc' = [proc EXCEPT ![p] = r] /\ refs' = refs
      /\ UNCHANGED <<mounted, lowerVars, ud, uino, fresh>>
      /\ refs \in [Objects -> Int] /\ proc \in [Procs -> Process]
  BY DEF RefInv, Sound, StackTypes, Walk
<1>2. r \in Process /\ Fits(r)
  BY <1>1, Known DEF Process, Fits, Walk, Negative
<1>3. Sound'
  BY <1>1, <1>2, ProcStep
<1>4. ASSUME NEW x \in Objects PROVE Surplus(x)' = Surplus(x)
  <2>1. \A q \in Procs : /\ proc'[q].low = proc[q].low
                         /\ proc'[q].pc = "open" <=> proc[q].pc = "open"
                         /\ proc'[q].pc = "following" <=> proc[q].pc = "following"
    BY <1>1 DEF Idle
  <2>2. Paths(proc', x) = Paths(proc, x) /\ Opens(proc', x) = Opens(proc, x)
        /\ Follows(proc', x) = Follows(proc, x)
    BY <2>1, PathsSame, OpensSame, FollowsSame
  <2> QED BY <1>1, <2>2, Sums DEF SumsAt, lowerVars
<1> QED BY <1>3, <1>4 DEF Balanced

LEMMA WalkEndStep ==
    ASSUME RefInv, NEW p \in Procs, WalkEnd(p)
    PROVE  Sound' /\ Balanced
<1>1. Sound /\ proc[p].pc = "walked" /\ proc' = [proc EXCEPT ![p] = Idle] /\ refs' = refs
      /\ UNCHANGED <<mounted, lowerVars, ud, uino, fresh>>
      /\ refs \in [Objects -> Int] /\ proc \in [Procs -> Process]
  BY DEF RefInv, Sound, StackTypes, WalkEnd
<1>2. Sound'
  BY <1>1, IdleFits, ProcStep
<1>3. proc[p].low = None
  BY <1>1 DEF Sound, ProcOK, Fits
<1>4. ASSUME NEW x \in Objects PROVE Surplus(x)' = Surplus(x)
  <2>1. \A q \in Procs : /\ proc'[q].low = proc[q].low
                         /\ proc'[q].pc = "open" <=> proc[q].pc = "open"
                         /\ proc'[q].pc = "following" <=> proc[q].pc = "following"
    BY <1>1, <1>3 DEF Idle
  <2>2. Paths(proc', x) = Paths(proc, x) /\ Opens(proc', x) = Opens(proc, x)
        /\ Follows(proc', x) = Follows(proc, x)
    BY <2>1, PathsSame, OpensSame, FollowsSame
  <2> QED BY <1>1, <2>2, Sums DEF SumsAt, lowerVars
<1> QED BY <1>2, <1>4 DEF Balanced

LEMMA OpenStartStep ==
    ASSUME RefInv, NEW p \in Procs, OpenStart(p)
    PROVE  Sound' /\ Balanced
<1> DEFINE d == ud[proc[p].u].low
           r == [proc[p] EXCEPT !.pc = "checking", !.low = d]
<1>1. /\ Sound /\ proc[p].pc = "walked" /\ proc' = [proc EXCEPT ![p] = r]
      /\ refs' = Get(refs, {d, "mnt"})
      /\ UNCHANGED <<mounted, lowerVars, ud, uino, fresh>>
      /\ refs \in [Objects -> Int] /\ proc \in [Procs -> Process] /\ proc[p] \in Process
  BY DEF RefInv, Sound, StackTypes, OpenStart
<1>2. d \in LDentries /\ d # None /\ d \in Lowers /\ proc[p].low = None /\ proc[p].u # None
      /\ ud[proc[p].u].ino # None
  BY <1>1, Known DEF Sound, ProcOK, Fits
<1>3. r \in Process /\ Fits(r) /\ r.low = d /\ r.pc = "checking"
  BY <1>1, <1>2 DEF Process, Fits
<1>4. refs' \in [Objects -> Int] /\ \A x \in Objects : refs'[x] = refs[x] + In(x, {d, "mnt"})
  BY <1>1, Counts
<1>5. Sound'
  BY <1>1, <1>3, <1>4, ProcStep
<1> HIDE DEF r
<1>6. ASSUME NEW x \in Objects PROVE Surplus(x)' = Surplus(x)
  <2>1. proc'[p] = r /\ \A q \in Procs \ {p} : proc'[q] = proc[q]
    BY <1>1
  <2>2. Opens(proc', x) = Opens(proc, x) /\ Follows(proc', x) = Follows(proc, x)
    <3>1. \A q \in Procs : /\ proc'[q].pc = "open" <=> proc[q].pc = "open"
                           /\ proc'[q].pc = "following" <=> proc[q].pc = "following"
      BY <1>1, <1>3, <2>1
    <3> QED BY <3>1, OpensSame, FollowsSame
  <2>3. Paths(proc', x) = Paths(proc, x) + In(x, {d, "mnt"})
    <3>1. proc'[p].low = d /\ \A q \in Procs \ {p} : proc'[q].low = proc[q].low
      BY <1>3, <2>1
    <3> HIDE DEF d
    <3> QED BY <1>2, <3>1, PathsTake
  <2>4. SumsAt(x) /\ In(x, {d, "mnt"}) \in Int
    BY Sums, InType
  <2>6. refs'[x] = refs[x] + In(x, {d, "mnt"})
    BY <1>4
  <2>5. /\ Ups(ud', x) = Ups(ud, x) /\ Entries(ld', x) = Entries(ld, x)
        /\ Inos(uino', x) = Inos(uino, x) /\ Supers(mounted', x) = Supers(mounted, x)
    BY <1>1 DEF lowerVars
  <2> HIDE DEF d
  <2> QED BY <2>2, <2>3, <2>4, <2>5, <2>6 DEF SumsAt
<1> QED BY <1>5, <1>6 DEF Balanced

\* the path that p has opened is put
PutsPath(p) ==
    /\ proc[p].pc \in {"checking", "open"} /\ proc' = [proc EXCEPT ![p] = Idle]
    /\ UNCHANGED <<mounted, lowerVars, ud, uino, fresh>>
    /\ refs' \in [Objects -> Int]

LEMMA OpenEnds ==
    ASSUME RefInv, NEW p \in Procs, PutsPath(p)
    PROVE  /\ Sound'
           /\ \A x \in Objects :
                 Surplus(x)' = Surplus(x) + (refs'[x] - refs[x]) + In(x, {proc[p].low, "mnt"})
                                 + (IF proc[p].pc = "open" THEN In(x, {"fi"}) ELSE 0)
<1> DEFINE d == proc[p].low
<1>1. Sound /\ refs \in [Objects -> Int] /\ proc \in [Procs -> Process] /\ proc[p] \in Process
  BY DEF RefInv, Sound, StackTypes
<1>2. Sound'
  BY <1>1, IdleFits, ProcStep DEF PutsPath
<1>3. d \in Lowers
  BY <1>1, Known DEF Sound, ProcOK, Fits, PutsPath
<1>4. proc'[p] = Idle /\ \A q \in Procs \ {p} : proc'[q] = proc[q]
  BY <1>1 DEF PutsPath
<1>5. ASSUME NEW x \in Objects
      PROVE  Surplus(x)' = Surplus(x) + (refs'[x] - refs[x]) + In(x, {d, "mnt"})
                             + (IF proc[p].pc = "open" THEN In(x, {"fi"}) ELSE 0)
  <2>1. Paths(proc, x) = Paths(proc', x) + In(x, {d, "mnt"})
    <3>1. proc'[p].low = None /\ \A q \in Procs \ {p} : proc[q].low = proc'[q].low
      BY <1>4, IdleFits
    <3>2. proc[p].low = d
      OBVIOUS
    <3> HIDE DEF d
    <3> QED BY <1>3, <3>1, <3>2, PathsTake
  <2>2. /\ SumsAt(x) /\ In(x, {d, "mnt"}) \in Int /\ In(x, {"fi"}) \in Int
        /\ refs'[x] \in Int
    BY Sums, InType DEF PutsPath
  <2>3. /\ Ups(ud', x) = Ups(ud, x) /\ Entries(ld', x) = Entries(ld, x)
        /\ Inos(uino', x) = Inos(uino, x) /\ Supers(mounted', x) = Supers(mounted, x)
    BY DEF PutsPath, lowerVars
  <2>4. Follows(proc', x) = Follows(proc, x)
    <3>1. \A q \in Procs : proc'[q].pc = "following" <=> proc[q].pc = "following"
      BY <1>4, IdleFits DEF PutsPath
    <3> QED BY <3>1, FollowsSame
  <2>5. CASE proc[p].pc = "checking"
    <3>1. \A q \in Procs : proc'[q].pc = "open" <=> proc[q].pc = "open"
      BY <1>4, <2>5, IdleFits
    <3>2. Opens(proc', x) = Opens(proc, x)
      BY <3>1, OpensSame
    <3> HIDE DEF d
    <3> QED BY <2>1, <2>2, <2>3, <2>4, <2>5, <3>2 DEF SumsAt
  <2>6. CASE proc[p].pc = "open"
    <3>1. proc'[p].pc # "open" /\ \A q \in Procs \ {p} : proc[q].pc = proc'[q].pc
      BY <1>4, IdleFits
    <3>2. Opens(proc, x) = Opens(proc', x) + In(x, {"fi"})
      BY <2>6, <3>1, OpensTake
    <3> HIDE DEF d
    <3> QED BY <2>1, <2>2, <2>3, <2>4, <2>6, <3>2 DEF SumsAt
  <2> QED BY <2>5, <2>6 DEF PutsPath
<1> QED BY <1>2, <1>5

LEMMA SurplusInt == ASSUME StackTypes, NEW x \in Objects PROVE Surplus(x) \in Int
<1>1. refs[x] \in Int /\ Users(x) \in Int
  BY UsersAre, PartNats DEF StackTypes, AllUsers
<1> QED BY <1>1 DEF Surplus

LEMMA OpenRefusedStep ==
    ASSUME RefInv, NEW p \in Procs, OpenRefused(p)
    PROVE  Sound' /\ Balanced
<1> DEFINE d == proc[p].low
<1>1. /\ refs \in [Objects -> Int] /\ refs' = Put(refs, {d, "mnt"})
      /\ proc[p].pc = "checking" /\ proc' = [proc EXCEPT ![p] = Idle]
      /\ UNCHANGED <<mounted, lowerVars, ud, uino, fresh>> /\ StackTypes
  BY DEF RefInv, Sound, StackTypes, OpenRefused
<1>2. refs' \in [Objects -> Int] /\ \A x \in Objects : refs'[x] = refs[x] - In(x, {d, "mnt"})
  BY <1>1, Counts
<1>3. Sound' /\ \A x \in Objects :
                   Surplus(x)' = Surplus(x) + (refs'[x] - refs[x]) + In(x, {d, "mnt"}) + 0
  BY <1>1, <1>2, OpenEnds DEF PutsPath
<1>4. ASSUME NEW x \in Objects PROVE Surplus(x)' = Surplus(x)
  <2>1. Surplus(x) \in Int /\ refs[x] \in Int /\ In(x, {d, "mnt"}) \in Int
    BY <1>1, SurplusInt, InType
  <2>2. Surplus(x)' = Surplus(x) + (refs'[x] - refs[x]) + In(x, {d, "mnt"}) + 0
    BY <1>3
  <2>3. refs'[x] = refs[x] - In(x, {d, "mnt"})
    BY <1>2
  <2> HIDE DEF d
  <2> QED BY <2>1, <2>2, <2>3
<1> QED BY <1>3, <1>4 DEF Balanced

LEMMA ReleaseStep ==
    ASSUME RefInv, NEW p \in Procs, Release(p)
    PROVE  Sound' /\ Balanced
<1> DEFINE d == proc[p].low
<1>1. /\ refs \in [Objects -> Int] /\ refs' = Put(refs, {d, "mnt", "fi"})
      /\ proc[p].pc = "open" /\ proc' = [proc EXCEPT ![p] = Idle]
      /\ UNCHANGED <<mounted, lowerVars, ud, uino, fresh>> /\ StackTypes /\ Sound
  BY DEF RefInv, Sound, StackTypes, Release
<1>2. refs' \in [Objects -> Int]
      /\ \A x \in Objects : refs'[x] = refs[x] - In(x, {d, "mnt", "fi"})
  BY <1>1, Counts
<1>3. \A x : In(x, {d, "mnt", "fi"}) = In(x, {d, "mnt"}) + In(x, {"fi"})
  <2>1. d \in Lowers
    BY <1>1, Known DEF Sound, ProcOK, Fits
  <2>2. d # "fi"
    BY <2>1, Distinct DEF Pool
  <2> QED BY <2>2 DEF In
<1>4. Sound' /\ \A x \in Objects :
           Surplus(x)' = Surplus(x) + (refs'[x] - refs[x]) + In(x, {d, "mnt"}) + In(x, {"fi"})
  BY <1>1, <1>2, OpenEnds DEF PutsPath
<1>5. ASSUME NEW x \in Objects PROVE Surplus(x)' = Surplus(x)
  <2>1. /\ Surplus(x) \in Int /\ refs[x] \in Int /\ In(x, {d, "mnt"}) \in Int
        /\ In(x, {"fi"}) \in Int
    BY <1>1, SurplusInt, InType
  <2>2. Surplus(x)' = Surplus(x) + (refs'[x] - refs[x]) + In(x, {d, "mnt"}) + In(x, {"fi"})
    BY <1>4
  <2>3. refs'[x] = refs[x] - In(x, {d, "mnt", "fi"})
    BY <1>2
  <2>4. In(x, {d, "mnt", "fi"}) = In(x, {d, "mnt"}) + In(x, {"fi"})
    BY <1>3
  <2> HIDE DEF d
  <2> QED BY <2>1, <2>2, <2>3, <2>4
<1> QED BY <1>4, <1>5 DEF Balanced

LEMMA OpenFailedStep ==
    ASSUME RefInv, Before36, NEW p \in Procs, OpenFailed(p)
    PROVE  Sound' /\ \A x \in Objects : Surplus(x)' = Surplus(x) + In(x, {"fi"})
<1> DEFINE r == Get(refs, {"fi"})
           d == proc[p].low
<1>1. /\ refs \in [Objects -> Int] /\ refs' = Put(r, {d, "mnt"})
      /\ proc[p].pc = "checking" /\ proc' = [proc EXCEPT ![p] = Idle]
      /\ UNCHANGED <<mounted, lowerVars, ud, uino, fresh>> /\ StackTypes
  BY DEF RefInv, Sound, StackTypes, OpenFailed
<1>2. r \in [Objects -> Int] /\ \A x \in Objects : r[x] = refs[x] + In(x, {"fi"})
  BY <1>1, Counts
<1> HIDE DEF r
<1>3. refs' \in [Objects -> Int] /\ \A x \in Objects : refs'[x] = r[x] - In(x, {d, "mnt"})
  BY <1>1, <1>2, Counts
<1>4. Sound' /\ \A x \in Objects :
                   Surplus(x)' = Surplus(x) + (refs'[x] - refs[x]) + In(x, {d, "mnt"}) + 0
  BY <1>1, <1>3, OpenEnds DEF PutsPath
<1>5. ASSUME NEW x \in Objects PROVE Surplus(x)' = Surplus(x) + In(x, {"fi"})
  <2>1. /\ Surplus(x) \in Int /\ refs[x] \in Int /\ In(x, {d, "mnt"}) \in Int
        /\ In(x, {"fi"}) \in Int
    BY <1>1, SurplusInt, InType
  <2>2. Surplus(x)' = Surplus(x) + (refs'[x] - refs[x]) + In(x, {d, "mnt"}) + 0
    BY <1>4
  <2>3. refs'[x] = r[x] - In(x, {d, "mnt"}) /\ r[x] = refs[x] + In(x, {"fi"})
    BY <1>2, <1>3
  <2> HIDE DEF d
  <2> QED BY <2>1, <2>2, <2>3
<1> QED BY <1>4, <1>5

LEMMA OpenDoneStep ==
    ASSUME RefInv, Before36, NEW p \in Procs, OpenDone(p)
    PROVE  Sound' /\ Balanced
<1> DEFINE r == [proc[p] EXCEPT !.pc = "open"]
<1>1. /\ Sound /\ proc[p].pc = "checking" /\ proc' = [proc EXCEPT ![p] = r]
      /\ refs' = Get(refs, {"fi"})
      /\ UNCHANGED <<mounted, lowerVars, ud, uino, fresh>>
      /\ refs \in [Objects -> Int] /\ proc \in [Procs -> Process] /\ proc[p] \in Process
  BY DEF RefInv, Sound, StackTypes, OpenDone
<1>2. Fits(proc[p])
  BY <1>1 DEF Sound, ProcOK
<1>3. r \in Process /\ Fits(r) /\ r.low = proc[p].low /\ r.pc = "open"
  BY <1>1, <1>2 DEF Process, Fits
<1>4. refs' \in [Objects -> Int] /\ \A x \in Objects : refs'[x] = refs[x] + In(x, {"fi"})
  BY <1>1, Counts
<1>5. Sound'
  BY <1>1, <1>3, <1>4, ProcStep
<1> HIDE DEF r
<1>6. ASSUME NEW x \in Objects PROVE Surplus(x)' = Surplus(x)
  <2>1. proc'[p] = r /\ \A q \in Procs \ {p} : proc'[q] = proc[q]
    BY <1>1
  <2>2. Opens(proc', x) = Opens(proc, x) + In(x, {"fi"})
    <3>1. proc[p].pc # "open" /\ proc'[p].pc = "open"
          /\ \A q \in Procs \ {p} : proc'[q].pc = proc[q].pc
      BY <1>1, <1>3, <2>1
    <3> QED BY <3>1, OpensTake
  <2>4. Follows(proc', x) = Follows(proc, x)
    <3>1. \A q \in Procs : proc'[q].pc = "following" <=> proc[q].pc = "following"
      BY <1>1, <1>3, <2>1
    <3> QED BY <3>1, FollowsSame
  <2>5. SumsAt(x) /\ In(x, {"fi"}) \in Int /\ refs'[x] = refs[x] + In(x, {"fi"})
    BY <1>4, Sums, InType
  <2>6. /\ Ups(ud', x) = Ups(ud, x) /\ Entries(ld', x) = Entries(ld, x)
        /\ Inos(uino', x) = Inos(uino, x) /\ Supers(mounted', x) = Supers(mounted, x)
    BY <1>1 DEF lowerVars
  <2>3. Paths(proc', x) = Paths(proc, x)
    <3>1. \A q \in Procs : proc'[q].low = proc[q].low
      BY <1>3, <2>1
    <3> QED BY <3>1, PathsSame
  <2> QED BY <2>2, <2>3, <2>4, <2>5, <2>6 DEF SumsAt
<1> QED BY <1>5, <1>6 DEF Balanced

LEMMA PutLinkStep ==
    ASSUME RefInv, NEW p \in Procs, PutLink(p)
    PROVE  Sound' /\ Balanced
<1>1. /\ Sound /\ proc[p].pc = "following" /\ proc' = [proc EXCEPT ![p] = Idle]
      /\ refs' = Put(refs, {"buf"})
      /\ UNCHANGED <<mounted, lowerVars, ud, uino, fresh>>
      /\ refs \in [Objects -> Int] /\ proc \in [Procs -> Process] /\ proc[p] \in Process
  BY DEF RefInv, Sound, StackTypes, PutLink
<1>2. proc[p].low = None
  BY <1>1 DEF Sound, ProcOK, Fits
<1>3. refs' \in [Objects -> Int] /\ \A x \in Objects : refs'[x] = refs[x] - In(x, {"buf"})
  BY <1>1, Counts
<1>4. Sound'
  BY <1>1, <1>3, IdleFits, ProcStep
<1>5. ASSUME NEW x \in Objects PROVE Surplus(x)' = Surplus(x)
  <2>1. proc'[p] = Idle /\ \A q \in Procs \ {p} : proc'[q] = proc[q]
    BY <1>1
  <2>2. Follows(proc, x) = Follows(proc', x) + In(x, {"buf"})
    <3>1. proc'[p].pc # "following" /\ proc[p].pc = "following"
          /\ \A q \in Procs \ {p} : proc[q].pc = proc'[q].pc
      BY <1>1, <2>1, IdleFits
    <3> QED BY <3>1, FollowsTake
  <2>4. Opens(proc', x) = Opens(proc, x)
    <3>1. \A q \in Procs : proc'[q].pc = "open" <=> proc[q].pc = "open"
      BY <1>1, <2>1, IdleFits
    <3> QED BY <3>1, OpensSame
  <2>5. SumsAt(x) /\ In(x, {"buf"}) \in Int /\ refs'[x] = refs[x] - In(x, {"buf"})
    BY <1>3, Sums, InType
  <2>6. /\ Ups(ud', x) = Ups(ud, x) /\ Entries(ld', x) = Entries(ld, x)
        /\ Inos(uino', x) = Inos(uino, x) /\ Supers(mounted', x) = Supers(mounted, x)
    BY <1>1 DEF lowerVars
  <2>3. Paths(proc', x) = Paths(proc, x)
    <3>1. \A q \in Procs : proc'[q].low = proc[q].low
      BY <1>2, <2>1, IdleFits
    <3> QED BY <3>1, PathsSame
  <2> QED BY <2>2, <2>3, <2>4, <2>5, <2>6 DEF SumsAt
<1> QED BY <1>4, <1>5 DEF Balanced

(***************************************************************************)
(* Steps that take and give nothing: attributes, names and the hashing     *)
(* change, and an upper dentry nobody holds may turn negative.             *)
(***************************************************************************)
Typed ==
    /\ disk' \in [Names -> Files \cup {None}] /\ attr' \in [Files -> FileAttr]
    /\ ld' \in [Lowers -> LowerEntry] /\ ud' \in [Uppers -> UpperEntry]
    /\ uino' \in [Inodes -> UpperInode]

Tame ==
    /\ \A u \in Uppers : ud'[u].low = ud[u].low /\ (ud'[u].hashed => ud[u].hashed)
    /\ \A u \in UDentries : /\ ud[u].low = None => ud'[u] = ud[u]
                            /\ \/ ud'[u].ino = ud[u].ino
                               \/ ud'[u].ino = None /\ Holders(u) = {} /\ u # fresh
    /\ ud'[URoot] = ud[URoot]
    /\ \A a \in Inodes : uino'[a].file = uino[a].file

Mild ==
    /\ UNCHANGED <<mounted, lino, fresh, proc, refs>> /\ Typed /\ Tame
    /\ \A d \in Lowers : ld'[d].ino = ld[d].ino

\* Tame keeps what is said of the processes and of fresh
LEMMA TameProcs ==
    ASSUME Sound, Tame, UNCHANGED <<fresh, proc>>
    PROVE  ProcOK' /\ FreshOK'
<1>1. ASSUME NEW p \in Procs PROVE Fits(proc[p])'
  <2>1. Fits(proc[p])
    BY DEF Sound, ProcOK
  <2>2. CASE proc[p].pc = "idle"
    BY <2>1, <2>2 DEF Fits, Idle
  <2>3. CASE proc[p].pc # "idle"
    <3>1. proc[p].u \in UDentries /\ proc[p].u \in Uppers
      BY <2>3, Known
    <3>2. proc[p].u = proc[p].u /\ p \in Holders(proc[p].u)
      BY DEF Holders
    <3>3. ud'[proc[p].u].ino = ud[proc[p].u].ino /\ ud'[proc[p].u].low = ud[proc[p].u].low
      BY <3>1, <3>2 DEF Tame
    <3> QED BY <2>1, <2>3, <3>3 DEF Fits
  <2> QED BY <2>2, <2>3
<1>2. FreshOK'
  BY Known DEF Sound, FreshOK, Tame
<1> QED BY <1>1, <1>2 DEF ProcOK

LEMMA MildStep == ASSUME RefInv, Mild PROVE Sound' /\ Balanced
<1>0. Sound
  BY DEF RefInv
<1>1. StackTypes'
  BY <1>0 DEF Sound, StackTypes, Mild, Typed
<1>2. RootOK'
  BY <1>0, Known DEF Sound, RootOK, Mild, Tame, Shown
<1>3. LowerOK'
  BY <1>0, Known DEF Sound, LowerOK, Mild, Tame, Shown
<1>4. UpperOK'
  <2> SUFFICES ASSUME NEW u \in UDentries
               PROVE  /\ ud'[u].low # LRoot /\ ud'[u].ino # ARoot
                      /\ ud'[u].low = None => ud'[u] = NoUpper
                      /\ ud'[u].ino # None => uino'[ud[u].ino].file # None /\ ud'[u].ino = ud[u].ino
                      /\ ud'[u].hashed /\ ud'[u].ino # None => ld'[ud'[u].low].ino = ud'[u].ino
    BY DEF UpperOK, Shown
  <2>1. /\ ud'[u].low = ud[u].low /\ (ud'[u].hashed => ud[u].hashed)
        /\ ud[u].low = None => ud'[u] = ud[u]
        /\ ud'[u].ino = ud[u].ino \/ ud'[u].ino = None
    BY <1>0, Known DEF Mild, Tame
  <2>2. /\ ud[u].low # LRoot /\ ud[u].ino # ARoot
        /\ ud[u].low = None => ud[u] = NoUpper
        /\ ud[u].ino # None => Shown(ud[u].ino)
        /\ ud[u].hashed /\ ud[u].ino # None => ld[ud[u].low].ino = ud[u].ino
    BY <1>0 DEF Sound, UpperOK
  <2>3. ARoot # None
    BY Distinct DEF Inodes
  <2>4. ud[u].ino # None => (uino'[ud[u].ino].file # None <=> Shown(ud[u].ino))
    BY <1>0, Known DEF Mild, Tame, Shown
  <2>5. ud[u].hashed => ld'[ud[u].low].ino = ld[ud[u].low].ino
    BY <1>0, Known DEF Mild
  <2> QED BY <2>1, <2>2, <2>3, <2>4, <2>5
<1>5. ProcOK' /\ FreshOK'
  BY <1>0, TameProcs DEF Mild
<1>6. ASSUME NEW x \in Objects PROVE Surplus(x)' = Surplus(x)
  <2>1. SumsAt(x)
    BY Sums
  <2>2. Ups(ud', x) = Ups(ud, x)
    BY UpsSame DEF Mild, Tame
  <2>3. Entries(ld', x) = Entries(ld, x)
    <3>1. \A d \in LDentries : ld'[d].ino = ld[d].ino
      BY <1>0, Known DEF Mild
    <3> QED BY <3>1, EntriesSame
  <2>4. Inos(uino', x) = Inos(uino, x)
    <3>1. \A a \in Inodes : uino'[a].file # None <=> uino[a].file # None
      BY DEF Mild, Tame
    <3>2. PICK f, g : f = uino /\ g = uino'
      OBVIOUS
    <3>3. \A a \in Inodes : g[a].file # None <=> f[a].file # None
      BY <3>1, <3>2
    <3>4. Inos(g, x) = Inos(f, x)
      BY <3>3, InosSame, Zenon
    <3> QED BY <3>2, <3>4
  <2>5. /\ Paths(proc', x) = Paths(proc, x) /\ Opens(proc', x) = Opens(proc, x)
        /\ Follows(proc', x) = Follows(proc, x) /\ Supers(mounted', x) = Supers(mounted, x)
        /\ refs'[x] = refs[x]
    BY DEF Mild
  <2> QED BY <2>1, <2>2, <2>3, <2>4, <2>5 DEF SumsAt
<1> QED BY <1>0, <1>1, <1>2, <1>3, <1>4, <1>5, <1>6 DEF Sound, Balanced

\* the copy of the attributes of f in the upper inode of a
LEMMA CopyTyped ==
    ASSUME StackTypes, attr' \in [Files -> FileAttr], NEW a \in Inodes, NEW f \in Files
    PROVE  /\ Copied(a, f) \in [Inodes -> UpperInode]
           /\ \A b \in Inodes : Copied(a, f)[b].file = uino[b].file
<1>1. attr'[f].nlink \in Int /\ attr'[f].mode \in Modes \cup {None}
  BY DEF FileAttr
<1>2. uino \in [Inodes -> UpperInode]
  BY DEF StackTypes
<1> QED BY <1>1, <1>2 DEF Copied, UpperInode

LEMMA NlinkTyped ==
    ASSUME StackTypes, attr' \in [Files -> FileAttr], NEW a \in Inodes, lino[a] \in Files
    PROVE  /\ NlinkSet(a) \in [Inodes -> UpperInode]
           /\ \A b \in Inodes : NlinkSet(a)[b].file = uino[b].file
<1>1. attr'[lino[a]].nlink \in Int
  BY DEF FileAttr
<1>2. uino \in [Inodes -> UpperInode]
  BY DEF StackTypes
<1> QED BY <1>1, <1>2 DEF NlinkSet, UpperInode

\* an upper dentry is unhashed
LEMMA UnhashTyped ==
    ASSUME Sound, NEW u \in UDentries, ud[u].low # None
    PROVE  LET f == [ud EXCEPT ![u].hashed = FALSE] IN
           /\ f \in [Uppers -> UpperEntry]
           /\ \A v \in Uppers : /\ f[v].low = ud[v].low /\ f[v].ino = ud[v].ino
                                /\ f[v].hashed => ud[v].hashed
                                /\ v # u => f[v] = ud[v]
<1>1. ud \in [Uppers -> UpperEntry] /\ u \in Uppers
  BY Known DEF Sound, StackTypes
<1> QED BY <1>1 DEF UpperEntry

LEMMA InterposeEndStep == ASSUME RefInv, InterposeEnd PROVE Sound' /\ Balanced
<1>1. /\ Sound /\ StackTypes /\ fresh # None /\ attr' = attr
      /\ uino' = Copied(ud[fresh].ino, lino[ud[fresh].ino])
      /\ fresh' = None /\ UNCHANGED <<mounted, disk, lino, ld, ud, proc, refs>>
  BY DEF RefInv, Sound, InterposeEnd
<1>2. ud[fresh].ino \in Inodes /\ lino[ud[fresh].ino] \in Files
  BY <1>1, Known
<1>3. uino' \in [Inodes -> UpperInode] /\ \A b \in Inodes : uino'[b].file = uino[b].file
  BY <1>1, <1>2, CopyTyped DEF StackTypes
<1>4. StackTypes'
  BY <1>1, <1>3 DEF StackTypes
<1>5. RootOK' /\ LowerOK' /\ FreshOK'
  BY <1>1, <1>3, Known DEF Sound, RootOK, LowerOK, FreshOK, Shown
<1>6. UpperOK'
  BY <1>1, <1>3, Known DEF Sound, UpperOK, Shown
<1>7. ProcOK'
  BY <1>1 DEF Sound, ProcOK, Fits
<1>8. ASSUME NEW x \in Objects PROVE Surplus(x)' = Surplus(x)
  <2>1. SumsAt(x)
    BY Sums
  <2>2. Inos(uino', x) = Inos(uino, x)
    BY <1>3, InosSame
  <2> QED BY <1>1, <2>1, <2>2 DEF SumsAt
<1> QED BY <1>1, <1>4, <1>5, <1>6, <1>7, <1>8 DEF Sound, Balanced

LEMMA SetattrMild ==
    ASSUME RefInv, NEW p \in Procs, NEW m \in Modes, Setattr(p, m)
    PROVE  Mild
<1> DEFINE a == ud[proc[p].u].ino
           g == lino[ld[ud[proc[p].u].low].ino]
<1>1. /\ Sound /\ StackTypes /\ proc[p].pc # "idle"
      /\ attr' = [attr EXCEPT ![g].mode = m] /\ uino' = Copied(a, lino[a])
      /\ UNCHANGED <<mounted, disk, lino, ld, ud, fresh, proc, refs>>
  BY DEF RefInv, Sound, Setattr
<1>2. a \in Inodes /\ lino[a] \in Files
  BY <1>1, Known
<1>3. attr' \in [Files -> FileAttr]
  BY <1>1 DEF StackTypes, FileAttr
<1> HIDE DEF a, g
<1>4. uino' \in [Inodes -> UpperInode] /\ \A b \in Inodes : uino'[b].file = uino[b].file
  BY <1>1, <1>2, <1>3, CopyTyped
<1>5. Typed /\ Tame
  BY <1>1, <1>3, <1>4 DEF Typed, Tame, StackTypes
<1> QED BY <1>1, <1>5 DEF Mild

LEMMA XattrMild ==
    ASSUME RefInv, NEW p \in Procs, NEW set \in BOOLEAN, Xattr(p, set)
    PROVE  Mild
<1> DEFINE u == proc[p].u
           a == ud[u].ino
<1>1. /\ Sound /\ StackTypes /\ proc[p].pc # "idle" /\ attr' = attr
      /\ UNCHANGED <<mounted, disk, lino, ld, fresh, proc, refs>>
  BY DEF RefInv, Sound, Xattr
<1>2. a \in Inodes /\ lino[a] \in Files /\ u \in UDentries /\ ud[u].low # None
  BY <1>1, Known
<1>3. attr' \in [Files -> FileAttr]
  BY <1>1 DEF StackTypes
<1>4. CASE ud' = [ud EXCEPT ![u].hashed = FALSE] /\ uino' = uino
  <2> HIDE DEF u
  <2>1. /\ ud' \in [Uppers -> UpperEntry]
        /\ \A v \in Uppers : /\ ud'[v].low = ud[v].low /\ ud'[v].ino = ud[v].ino
                             /\ ud'[v].hashed => ud[v].hashed
                             /\ v # u => ud'[v] = ud[v]
    BY <1>1, <1>2, <1>4, UnhashTyped
  <2>2. Typed /\ Tame
    BY <1>1, <1>2, <1>4, <2>1, Known DEF Typed, Tame, StackTypes
  <2> QED BY <1>1, <2>2 DEF Mild
<1>5. CASE ud' = ud /\ uino' \in {uino, Copied(a, lino[a])}
  <2> HIDE DEF a
  <2>1. uino' \in [Inodes -> UpperInode] /\ \A b \in Inodes : uino'[b].file = uino[b].file
    BY <1>1, <1>2, <1>3, <1>5, CopyTyped DEF StackTypes
  <2>2. Typed /\ Tame
    BY <1>1, <1>3, <1>5, <2>1 DEF Typed, Tame, StackTypes
  <2> QED BY <1>1, <2>2 DEF Mild
<1> QED BY <1>4, <1>5 DEF Xattr

LEMMA FollowLinkStep ==
    ASSUME RefInv, NEW p \in Procs, FollowLink(p)
    PROVE  Sound' /\ Balanced
<1> DEFINE u == proc[p].u
           r == [proc[p] EXCEPT !.pc = "following"]
<1>1. /\ Sound /\ StackTypes /\ proc[p].pc = "walked" /\ proc[p] \in Process
      /\ UNCHANGED <<mounted, lowerVars, uino, fresh>>
  BY DEF RefInv, Sound, StackTypes, FollowLink
<1>2. u \in UDentries /\ ud[u].low # None
  BY <1>1, Known
<1>4. CASE ud' = [ud EXCEPT ![u].hashed = FALSE] /\ proc' = proc /\ refs' = refs
  <2> HIDE DEF u
  <2>1. /\ ud' \in [Uppers -> UpperEntry]
        /\ \A v \in Uppers : /\ ud'[v].low = ud[v].low /\ ud'[v].ino = ud[v].ino
                             /\ ud'[v].hashed => ud[v].hashed
                             /\ v # u => ud'[v] = ud[v]
    BY <1>1, <1>2, <1>4, UnhashTyped
  <2>2. Typed /\ Tame
    BY <1>1, <1>2, <1>4, <2>1, Known DEF Typed, Tame, StackTypes, lowerVars
  <2> QED BY <1>1, <1>4, <2>2, MildStep DEF Mild, lowerVars
<1>5. CASE ud' = ud /\ proc' = [proc EXCEPT ![p] = r] /\ refs' = Get(refs, {"buf"})
  <2>1. Fits(proc[p]) /\ refs \in [Objects -> Int] /\ proc \in [Procs -> Process]
    BY <1>1 DEF Sound, StackTypes, ProcOK
  <2>2. r \in Process /\ Fits(r) /\ r.low = proc[p].low /\ r.pc = "following"
    BY <1>1, <2>1 DEF Process, Fits
  <2>3. refs' \in [Objects -> Int] /\ \A x \in Objects : refs'[x] = refs[x] + In(x, {"buf"})
    BY <1>5, <2>1, Counts
  <2>4. Sound'
    BY <1>1, <1>5, <2>2, <2>3, ProcStep
  <2> HIDE DEF r
  <2>5. ASSUME NEW x \in Objects PROVE Surplus(x)' = Surplus(x)
    <3>1. proc'[p] = r /\ \A q \in Procs \ {p} : proc'[q] = proc[q]
      BY <1>5, <2>1
    <3>2. Follows(proc', x) = Follows(proc, x) + In(x, {"buf"})
      <4>1. proc[p].pc # "following" /\ proc'[p].pc = "following"
            /\ \A q \in Procs \ {p} : proc'[q].pc = proc[q].pc
        BY <1>1, <2>2, <3>1
      <4> QED BY <4>1, FollowsTake
    <3>3. Paths(proc', x) = Paths(proc, x)
      <4>1. \A q \in Procs : proc'[q].low = proc[q].low
        BY <2>2, <3>1
      <4> QED BY <4>1, PathsSame
    <3>4. Opens(proc', x) = Opens(proc, x)
      <4>1. \A q \in Procs : proc'[q].pc = "open" <=> proc[q].pc = "open"
        BY <1>1, <2>2, <3>1
      <4> QED BY <4>1, OpensSame
    <3>5. SumsAt(x) /\ In(x, {"buf"}) \in Int /\ refs'[x] = refs[x] + In(x, {"buf"})
      BY <2>3, Sums, InType
    <3>6. /\ Ups(ud', x) = Ups(ud, x) /\ Entries(ld', x) = Entries(ld, x)
          /\ Inos(uino', x) = Inos(uino, x) /\ Supers(mounted', x) = Supers(mounted, x)
      BY <1>1, <1>5 DEF lowerVars
    <3> QED BY <3>2, <3>3, <3>4, <3>5, <3>6 DEF SumsAt
  <2> QED BY <2>4, <2>5 DEF Balanced
<1>6. \/ ud' = [ud EXCEPT ![u].hashed = FALSE] /\ proc' = proc /\ refs' = refs
      \/ ud' = ud /\ proc' = [proc EXCEPT ![p] = r] /\ refs' = Get(refs, {"buf"})
  BY DEF FollowLink
<1> QED BY <1>4, <1>5, <1>6

\* an upper dentry that leads to a file: what it names, on both ways
LEMMA FoundFile ==
    ASSUME Sound, NEW u \in UDentries, ud[u].hashed, ~Negative(u)
    PROVE  LET d == ud[u].low IN
           /\ d \in LDentries /\ d \in Lowers /\ d # None
           /\ ld[d].ino = ud[u].ino /\ ud[u].ino \in LInodes /\ ud[u].ino \in Inodes
           /\ ud[u].ino # None /\ lino[ud[u].ino] \in Files
<1>1. ud[u].ino # None /\ ld[ud[u].low].ino = ud[u].ino /\ Shown(ud[u].ino)
  BY DEF Negative, Sound, UpperOK
<1>2. ud[u].low \in LDentries /\ ud[u].ino \in LInodes
  BY <1>1, Known
<1>3. lino[ud[u].ino] \in Files
  BY <1>1, <1>2, Known DEF Sound, LowerOK
<1> QED BY <1>1, <1>2, <1>3, Known

LEMMA DropTyped ==
    ASSUME StackTypes, NEW n, NEW a, DropName(n, a)
    PROVE  attr' \in [Files -> FileAttr] /\ disk' \in [Names -> Files \cup {None}]
<1>1. disk \in [Names -> Files \cup {None}] /\ attr \in [Files -> FileAttr]
  BY DEF StackTypes
<1>2. disk' \in [Names -> Files \cup {None}]
  BY <1>1 DEF DropName
<1>3. \A x \in Files : attr[x] \in FileAttr /\ [attr[x] EXCEPT !.nlink = @ - 1] \in FileAttr
  BY <1>1 DEF FileAttr
<1>4. attr' \in [Files -> FileAttr]
  BY <1>1, <1>3 DEF DropName
<1> QED BY <1>2, <1>4

LEMMA RmdirMild ==
    ASSUME RefInv, NEW u \in UDentries, Rmdir(u)
    PROVE  Mild
<1> DEFINE d == ud[u].low
           a == ud[u].ino
<1>1. /\ Sound /\ StackTypes /\ ud[u].hashed /\ ~Negative(u)
      /\ ld' = [ld EXCEPT ![d].hashed = FALSE] /\ uino' = NlinkSet(a)
      /\ ud' = [ud EXCEPT ![u].hashed = FALSE]
      /\ DropName(ld[d].name, ld[d].ino)
      /\ UNCHANGED <<mounted, lino, fresh, proc, refs>>
  BY DEF RefInv, Sound, Rmdir, Found
<1>2. d \in Lowers /\ d # None /\ ld[d].ino = a /\ a \in Inodes /\ lino[a] \in Files
  BY <1>1, FoundFile
<1>3. attr' \in [Files -> FileAttr] /\ disk' \in [Names -> Files \cup {None}]
  BY <1>1, DropTyped
<1>4. ld' \in [Lowers -> LowerEntry] /\ \A e \in Lowers : ld'[e].ino = ld[e].ino
  BY <1>1, <1>2 DEF StackTypes, LowerEntry
<1> HIDE DEF a, d
<1>5. uino' \in [Inodes -> UpperInode] /\ \A b \in Inodes : uino'[b].file = uino[b].file
  BY <1>1, <1>2, <1>3, NlinkTyped
<1>6. /\ ud' \in [Uppers -> UpperEntry]
      /\ \A v \in Uppers : /\ ud'[v].low = ud[v].low /\ ud'[v].ino = ud[v].ino
                           /\ ud'[v].hashed => ud[v].hashed
                           /\ v # u => ud'[v] = ud[v]
  BY <1>1, <1>2, UnhashTyped DEF d
<1>7. ud[u].low # None
  BY <1>2 DEF d
<1>8. Typed /\ Tame
  BY <1>1, <1>3, <1>4, <1>5, <1>6, <1>7, Known DEF Typed, Tame
<1> QED BY <1>1, <1>4, <1>8 DEF Mild

LEMMA MovedLower ==
    ASSUME StackTypes, NEW d \in Lowers, NEW e \in Lowers
    PROVE  /\ Moved(ld, d, e) \in [Lowers -> LowerEntry]
           /\ \A x \in Lowers : Moved(ld, d, e)[x].ino = ld[x].ino
<1> DEFINE D == [ld[d] EXCEPT !.name = ld[e].name]
           E == [(IF d = e THEN D ELSE ld[e]) EXCEPT !.name = ld[d].name, !.hashed = FALSE]
<1>1. ld \in [Lowers -> LowerEntry] /\ \A x \in Lowers : ld[x] \in LowerEntry
  BY DEF StackTypes
<1>2. D \in LowerEntry /\ D.ino = ld[d].ino /\ E \in LowerEntry /\ E.ino = ld[e].ino
  BY <1>1 DEF LowerEntry
<1>3. Moved(ld, d, e) = [x \in Lowers |-> IF x = e THEN E ELSE IF x = d THEN D ELSE ld[x]]
  BY <1>1 DEF Moved
<1> HIDE DEF D, E
<1> QED BY <1>1, <1>2, <1>3

LEMMA MovedUpper ==
    ASSUME StackTypes, NEW d \in Uppers, NEW e \in Uppers
    PROVE  /\ Moved(ud, d, e) \in [Uppers -> UpperEntry]
           /\ \A x \in Uppers : /\ Moved(ud, d, e)[x].ino = ud[x].ino
                                /\ Moved(ud, d, e)[x].low = ud[x].low
                                /\ Moved(ud, d, e)[x].hashed => ud[x].hashed
                                /\ x \notin {d, e} => Moved(ud, d, e)[x] = ud[x]
<1> DEFINE D == [ud[d] EXCEPT !.name = ud[e].name]
           E == [(IF d = e THEN D ELSE ud[e]) EXCEPT !.name = ud[d].name, !.hashed = FALSE]
<1>1. ud \in [Uppers -> UpperEntry] /\ \A x \in Uppers : ud[x] \in UpperEntry
  BY DEF StackTypes
<1>2. /\ D \in UpperEntry /\ D.ino = ud[d].ino /\ D.low = ud[d].low /\ D.hashed = ud[d].hashed
      /\ E \in UpperEntry /\ E.ino = ud[e].ino /\ E.low = ud[e].low /\ E.hashed = FALSE
  BY <1>1 DEF UpperEntry
<1>3. Moved(ud, d, e) = [x \in Uppers |-> IF x = e THEN E ELSE IF x = d THEN D ELSE ud[x]]
  BY <1>1 DEF Moved
<1> HIDE DEF D, E
<1> QED BY <1>1, <1>2, <1>3

LEMMA RenameMild ==
    ASSUME RefInv, NEW u \in UDentries, NEW v \in UDentries, Rename(u, v)
    PROVE  Mild
<1> DEFINE d == ud[u].low
           e == ud[v].low
           f == lino[ld[d].ino]
           g == lino[ld[e].ino]
<1>1. /\ Sound /\ StackTypes /\ ud[u].hashed /\ ~Negative(u) /\ ud[v].hashed
      /\ disk' = [disk EXCEPT ![ld[e].name] = f, ![ld[d].name] = None]
      /\ attr' = attr \/ attr' = [attr EXCEPT ![g].nlink = @ - 1]
      /\ ld' = Moved(ld, d, e) /\ ud' = Moved(ud, u, v)
      /\ uino' = uino \/ uino' = [uino EXCEPT ![ud[v].ino].stale = TRUE]
      /\ UNCHANGED <<mounted, lino, fresh, proc, refs>>
  BY DEF RefInv, Sound, Rename, Found
<1>2. /\ d \in Lowers /\ d # None /\ f \in Files /\ e \in Lowers /\ e # None
      /\ u \in Uppers /\ v \in Uppers /\ u # URoot /\ v # URoot
  BY <1>1, FoundFile, Known
<1>3. disk' \in [Names -> Files \cup {None}]
  BY <1>1, <1>2 DEF StackTypes
<1>4. attr' \in [Files -> FileAttr]
  <2>1. attr \in [Files -> FileAttr]
    BY <1>1 DEF StackTypes
  <2>2. \A x \in Files : attr[x] \in FileAttr /\ [attr[x] EXCEPT !.nlink = @ - 1] \in FileAttr
    BY <2>1 DEF FileAttr
  <2>3. \A y : [attr EXCEPT ![y].nlink = @ - 1] \in [Files -> FileAttr]
    BY <2>1, <2>2
  <2> HIDE DEF g
  <2> QED BY <1>1, <2>1, <2>3
<1>5. uino' \in [Inodes -> UpperInode] /\ \A b \in Inodes : uino'[b].file = uino[b].file
  <2>1. uino \in [Inodes -> UpperInode]
    BY <1>1 DEF StackTypes
  <2>2. ASSUME NEW y
        PROVE  LET n == [uino EXCEPT ![y].stale = TRUE] IN
               n \in [Inodes -> UpperInode] /\ \A b \in Inodes : n[b].file = uino[b].file
    BY <2>1 DEF UpperInode
  <2>3. CASE uino' = [uino EXCEPT ![ud[v].ino].stale = TRUE]
    BY <2>2, <2>3
  <2> QED BY <1>1, <2>1, <2>3
<1>6. ld' \in [Lowers -> LowerEntry] /\ \A x \in Lowers : ld'[x].ino = ld[x].ino
  BY <1>1, <1>2, MovedLower, ZenonT(60)
<1>7. /\ ud' \in [Uppers -> UpperEntry]
      /\ \A x \in Uppers : /\ ud'[x].ino = ud[x].ino /\ ud'[x].low = ud[x].low
                           /\ ud'[x].hashed => ud[x].hashed
                           /\ x \notin {u, v} => ud'[x] = ud[x]
  <2>1. StackTypes /\ ud' = Moved(ud, u, v) /\ u \in Uppers /\ v \in Uppers
    BY <1>1, <1>2
  <2>2. LET m == Moved(ud, u, v) IN
        /\ m \in [Uppers -> UpperEntry]
        /\ \A x \in Uppers : /\ m[x].ino = ud[x].ino /\ m[x].low = ud[x].low
                             /\ m[x].hashed => ud[x].hashed
                             /\ x \notin {u, v} => m[x] = ud[x]
    BY <2>1, MovedUpper
  <2> QED BY <2>1, <2>2
<1>8. ud[u].low # None /\ ud[v].low # None
  BY <1>2
<1>9. Tame
  BY <1>2, <1>5, <1>7, <1>8, Known DEF Tame, RefInv
<1>10. Typed
  BY <1>3, <1>4, <1>5, <1>6, <1>7 DEF Typed
<1> QED BY <1>1, <1>6, <1>9, <1>10 DEF Mild

\* the attributes that revalidation copies
LEMMA RevalidateCopies ==
    ASSUME RefInv, NEW u \in UDentries, NEW valid \in BOOLEAN, Revalidate(u, valid)
    PROVE  /\ Sound /\ StackTypes /\ ud[u].low \in Lowers /\ ud[u].low # None
           /\ UNCHANGED <<mounted, disk, attr, lino, fresh, proc>>
           /\ uino' \in [Inodes -> UpperInode] /\ \A b \in Inodes : uino'[b].file = uino[b].file
<1> DEFINE b == ud[u].ino
<1>1. /\ Sound /\ StackTypes /\ ud[u].hashed /\ attr' = attr
      /\ uino' = IF Negative(u) THEN uino ELSE Copied(b, lino[b])
      /\ UNCHANGED <<mounted, disk, attr, lino, fresh, proc>>
  BY DEF RefInv, Sound, Revalidate
<1>2. ud[u].low \in Lowers /\ ud[u].low # None
  BY <1>1, Known
<1>3. CASE Negative(u)
  BY <1>1, <1>2, <1>3 DEF StackTypes
<1>4. CASE ~Negative(u)
  <2>1. b \in Inodes /\ lino[b] \in Files
    BY <1>1, <1>4, FoundFile
  <2>2. uino' = Copied(b, lino[b]) /\ attr' \in [Files -> FileAttr]
    BY <1>1, <1>4 DEF StackTypes
  <2> HIDE DEF b
  <2> QED BY <1>1, <1>2, <2>1, <2>2, CopyTyped
<1> QED BY <1>3, <1>4

LEMMA RevalidateMild ==
    ASSUME RefInv, NEW u \in UDentries, NEW valid \in BOOLEAN, Revalidate(u, valid),
           valid \/ Holders(u) # {}
    PROVE  Mild
<1>1. /\ Sound /\ StackTypes /\ ud[u].low \in Lowers /\ ud[u].low # None
      /\ UNCHANGED <<mounted, disk, attr, lino, fresh, proc>>
      /\ uino' \in [Inodes -> UpperInode] /\ \A b \in Inodes : uino'[b].file = uino[b].file
  BY RevalidateCopies
<1>2. \/ UNCHANGED <<ld, ud, refs>>
      \/ /\ ld' = [ld EXCEPT ![ud[u].low].hashed = FALSE] /\ refs' = refs
         /\ ud' = [ud EXCEPT ![u].hashed = FALSE]
  BY DEF Revalidate
<1>3. CASE UNCHANGED <<ld, ud, refs>>
  <2>1. Typed /\ Tame
    BY <1>1, <1>3 DEF StackTypes, Typed, Tame
  <2> QED BY <1>1, <1>3, <2>1 DEF Mild
<1>4. CASE /\ ld' = [ld EXCEPT ![ud[u].low].hashed = FALSE] /\ refs' = refs
           /\ ud' = [ud EXCEPT ![u].hashed = FALSE]
  <2>1. /\ ud' \in [Uppers -> UpperEntry]
        /\ \A v \in Uppers : /\ ud'[v].low = ud[v].low /\ ud'[v].ino = ud[v].ino
                             /\ ud'[v].hashed => ud[v].hashed
                             /\ v # u => ud'[v] = ud[v]
    BY <1>1, <1>4, UnhashTyped
  <2>2. ld' \in [Lowers -> LowerEntry] /\ \A e \in Lowers : ld'[e].ino = ld[e].ino
    BY <1>1, <1>4 DEF StackTypes, LowerEntry
  <2>3. Typed /\ Tame
    BY <1>1, <2>1, <2>2, Known DEF StackTypes, Typed, Tame
  <2> QED BY <1>1, <1>4, <2>2, <2>3 DEF Mild
<1> QED BY <1>2, <1>3, <1>4

\* what unlink does to the upper side
LEMMA UnlinkUpper ==
    ASSUME RefInv, NEW u \in UDentries, Unlink(u)
    PROVE  /\ Sound /\ StackTypes /\ ud[u].hashed /\ ~Negative(u)
           /\ UNCHANGED <<mounted, lino, fresh, proc>> /\ fresh = None
           /\ attr' \in [Files -> FileAttr] /\ disk' \in [Names -> Files \cup {None}]
           /\ ud' \in [Uppers -> UpperEntry] /\ uino' \in [Inodes -> UpperInode]
           /\ Tame
<1> DEFINE a == ud[u].ino
<1>1. /\ Sound /\ StackTypes /\ ud[u].hashed /\ ~Negative(u) /\ fresh = None
      /\ UNCHANGED <<mounted, lino, fresh, proc>>
      /\ uino' = NlinkSet(a) /\ ud' = UpperDelete(u)
      /\ DropName(ld[ud[u].low].name, ld[ud[u].low].ino)
  BY DEF RefInv, Sound, Unlink, Found
<1>2. a \in Inodes /\ lino[a] \in Files /\ ud[u].low # None /\ u \in Uppers /\ u # URoot
      /\ u # None
  BY <1>1, FoundFile, Known
<1>3. attr' \in [Files -> FileAttr] /\ disk' \in [Names -> Files \cup {None}]
  BY <1>1, DropTyped
<1> HIDE DEF a
<1>4. uino' \in [Inodes -> UpperInode] /\ \A b \in Inodes : uino'[b].file = uino[b].file
  BY <1>1, <1>2, <1>3, NlinkTyped
<1>5. /\ ud' \in [Uppers -> UpperEntry]
      /\ \A v \in Uppers : /\ ud'[v].low = ud[v].low
                           /\ ud'[v].hashed => ud[v].hashed
                           /\ v # u => ud'[v] = ud[v]
      /\ ud'[u].ino = ud[u].ino \/ (ud'[u].ino = None /\ Holders(u) = {})
  <2>1. ud \in [Uppers -> UpperEntry]
    BY <1>1 DEF StackTypes
  <2>2. CASE Holders(u) = {}
    BY <1>1, <1>2, <2>1, <2>2 DEF UpperDelete, UpperEntry
  <2>3. CASE Holders(u) # {}
    BY <1>1, <1>2, <2>1, <2>3 DEF UpperDelete, UpperEntry
  <2> QED BY <2>2, <2>3
<1>6. Tame
  BY <1>1, <1>2, <1>4, <1>5, Known DEF Tame
<1> QED BY <1>1, <1>3, <1>4, <1>5, <1>6

LEMMA UnlinkStep ==
    ASSUME RefInv, NEW u \in UDentries, Unlink(u)
    PROVE  /\ Sound' /\ Balanced /\ (refs[ud[u].low] # 1 => Mild)
           /\ refs[ud[u].low] = 1 => \A e \in LDentries : e # ud[u].low => ld'[e] = ld[e]
<1> DEFINE d == ud[u].low
           a == ud[u].ino
<1>1. /\ Sound /\ StackTypes /\ ud[u].hashed /\ ~Negative(u)
      /\ UNCHANGED <<mounted, lino, fresh, proc>>
      /\ attr' \in [Files -> FileAttr] /\ disk' \in [Names -> Files \cup {None}]
      /\ ud' \in [Uppers -> UpperEntry] /\ uino' \in [Inodes -> UpperInode]
      /\ Tame
  BY UnlinkUpper
<1>2. /\ d \in LDentries /\ d \in Lowers /\ ld[d].ino = a /\ a \in LInodes /\ a \in Inodes
      /\ ld[d].ino # None
  BY <1>1, FoundFile
<1>3. LowerDelete(refs, d)
  BY DEF Unlink
<1>4. CASE refs[d] # 1
  <2>1. ld' = [ld EXCEPT ![d].hashed = FALSE] /\ refs' = refs
    BY <1>3, <1>4 DEF LowerDelete
  <2>2. ld' \in [Lowers -> LowerEntry] /\ \A e \in Lowers : ld'[e].ino = ld[e].ino
    BY <1>1, <2>1, ZenonT(60) DEF StackTypes, LowerEntry
  <2>3. Typed
    BY <1>1, <2>2 DEF Typed
  <2>4. Mild
    BY <1>1, <2>1, <2>2, <2>3 DEF Mild
  <2> QED BY <1>4, <2>4, MildStep
<1>5. CASE refs[d] = 1
  <2>1. ld' = [ld EXCEPT ![d].ino = None] /\ refs' = Put(refs, {a})
    BY <1>2, <1>3, <1>5 DEF LowerDelete
  <2>2. ld \in [Lowers -> LowerEntry] /\ refs \in [Objects -> Int]
    BY <1>1 DEF StackTypes
  <2>3. /\ ld' \in [Lowers -> LowerEntry] /\ ld'[d].ino = None
        /\ \A e \in Lowers : e # d => ld'[e] = ld[e]
    BY <1>2, <2>1, <2>2 DEF LowerEntry
  <2>4. refs' \in [Objects -> Int] /\ \A x \in Objects : refs'[x] = refs[x] - In(x, {a})
    BY <2>1, <2>2, Counts
  <2>5. StackTypes'
    BY <1>1, <2>3, <2>4 DEF StackTypes
  <2>6. RootOK'
    BY <1>1, <1>2, <2>3, Known DEF Sound, RootOK, Tame, Shown
  <2>7. LowerOK'
    <3>1. \A b \in LInodes : lino[b] # ARoot /\ (uino'[b].file # None => lino[b] # None)
      BY <1>1, Known DEF Sound, LowerOK, Shown, Tame
    <3>2. \A e \in LDentries : /\ ld'[e].ino # ARoot
                               /\ ld'[e].ino # None => lino[ld'[e].ino] # None
      <4>1. ARoot # None /\ \A e \in LDentries : e \in Lowers
        BY Distinct DEF Inodes, Lowers
      <4> QED BY <1>1, <2>3, <4>1 DEF Sound, LowerOK
    <3> QED BY <1>1, <3>1, <3>2 DEF LowerOK, Shown
  <2>8. UpperOK'
    <3> SUFFICES ASSUME NEW v \in UDentries
                 PROVE  /\ ud'[v].low # LRoot /\ ud'[v].ino # ARoot
                        /\ ud'[v].low = None => ud'[v] = NoUpper
                        /\ ud'[v].ino # None => uino'[ud'[v].ino].file # None
                        /\ ud'[v].hashed /\ ud'[v].ino # None => ld'[ud'[v].low].ino = ud'[v].ino
      BY DEF UpperOK, Shown
    <3>1. /\ ud'[v].low = ud[v].low /\ (ud'[v].hashed => ud[v].hashed)
          /\ ud[v].low = None => ud'[v] = ud[v]
          /\ ud'[v].ino = ud[v].ino \/ ud'[v].ino = None
      BY <1>1, Known DEF Tame
    <3>2. /\ ud[v].low # LRoot /\ ud[v].ino # ARoot
          /\ ud[v].low = None => ud[v] = NoUpper
          /\ ud[v].ino # None => Shown(ud[v].ino)
          /\ ud[v].hashed /\ ud[v].ino # None => ld[ud[v].low].ino = ud[v].ino
      BY <1>1 DEF Sound, UpperOK
    <3>3. ARoot # None
      BY Distinct DEF Inodes
    <3>4. ud[v].ino # None => uino'[ud[v].ino].file # None
      BY <1>1, <3>2, Known DEF Tame, Shown
    <3>5. ud[v].hashed /\ ud[v].low # d => ld'[ud[v].low] = ld[ud[v].low]
      <4>1. ud[v].hashed => ud[v].low \in Lowers
        BY <1>1, Known
      <4>2. \A e \in Lowers : e # d => ld'[e] = ld[e]
        BY <2>3
      <4> HIDE DEF d
      <4> QED BY <4>1, <4>2
    <3>6. ud[v].low = d => v = u
      BY <1>1, <1>2, <1>5, Known, OneHolder
    <3>7. ~(ud'[u].hashed /\ ud'[u].ino # None)
      <4>1. ud' = UpperDelete(u) /\ u \in Uppers /\ ud \in [Uppers -> UpperEntry]
        BY <1>1, Known DEF Unlink, StackTypes
      <4>2. ud[u] \in UpperEntry
        BY <4>1
      <4>3. ud'[u] = [ud[u] EXCEPT !.ino = None] \/ ud'[u] = [ud[u] EXCEPT !.hashed = FALSE]
        BY <4>1 DEF UpperDelete
      <4> QED BY <4>2, <4>3 DEF UpperEntry
    <3> QED BY <3>1, <3>2, <3>3, <3>4, <3>5, <3>6, <3>7
  <2>9. ProcOK' /\ FreshOK'
    BY <1>1, TameProcs
  <2>10. ASSUME NEW x \in Objects PROVE Surplus(x)' = Surplus(x)
    <3>1. SumsAt(x) /\ In(x, {a}) \in Int /\ refs'[x] = refs[x] - In(x, {a})
      BY <2>4, Sums, InType
    <3>2. Ups(ud', x) = Ups(ud, x)
      BY <1>1, UpsSame DEF Tame
    <3>3. Inos(uino', x) = Inos(uino, x)
      <4>1. \A b \in Inodes : uino'[b].file = uino[b].file
        BY <1>1 DEF Tame
      <4> QED BY <4>1, InosSame
    <3>4. Entries(ld, x) = Entries(ld', x) + In(x, {a})
      <4>1. d \in LDentries /\ a \in Inodes /\ Loses(ld, ld', d, a)
        BY <1>1, <1>2, <2>3, Known DEF Loses
      <4> HIDE DEF a, d
      <4> QED BY <4>1, EntriesGive
    <3>5. /\ Paths(proc', x) = Paths(proc, x) /\ Opens(proc', x) = Opens(proc, x)
          /\ Follows(proc', x) = Follows(proc, x) /\ Supers(mounted', x) = Supers(mounted, x)
      BY <1>1
    <3> HIDE DEF a, d
    <3> QED BY <3>1, <3>2, <3>3, <3>4, <3>5 DEF SumsAt
  <2>11. \A e \in LDentries : e # ud[u].low => ld'[e] = ld[e]
    BY <1>1, <2>3, Known
  <2> QED BY <1>5, <2>5, <2>6, <2>7, <2>8, <2>9, <2>10, <2>11 DEF Sound, Balanced
<1> QED BY <1>4, <1>5

(***************************************************************************)
(* dazukofs_d_release() of a dentry that nobody holds.                     *)
(***************************************************************************)
Drops(u) ==
    /\ UNCHANGED <<mounted, disk, attr, lino, fresh, proc>>
    /\ ud[u].low # None /\ Holders(u) = {} /\ u # fresh
    /\ ud' = [ud EXCEPT ![u] = NoUpper] /\ refs' = Released(refs, u)
    /\ uino' \in [Inodes -> UpperInode] /\ \A b \in Inodes : uino'[b].file = uino[b].file
    /\ ld' \in [Lowers -> LowerEntry] /\ \A d \in Lowers : ld'[d].ino = ld[d].ino

LEMMA DropsStep ==
    ASSUME RefInv, NEW u \in UDentries, Drops(u)
    PROVE  Sound' /\ Balanced
<1> DEFINE d == ud[u].low
<1>1. Sound /\ StackTypes /\ ud \in [Uppers -> UpperEntry] /\ refs \in [Objects -> Int]
      /\ u \in Uppers /\ u # URoot /\ d \in Lowers /\ d # None
  BY Known DEF RefInv, Sound, StackTypes, Drops
<1>2. ud' \in [Uppers -> UpperEntry] /\ ud'[u] = NoUpper
      /\ \A v \in Uppers \ {u} : ud'[v] = ud[v]
  BY <1>1 DEF Drops, NoUpper, UpperEntry
<1>3. refs' \in [Objects -> Int]
      /\ \A x \in Objects : refs'[x] = refs[x] - In(x, {d, "mnt", "di"})
  BY <1>1, Counts DEF Drops, Released
<1>4. StackTypes'
  BY <1>1, <1>2, <1>3 DEF StackTypes, Drops
<1>5. RootOK' /\ LowerOK'
  BY <1>1, <1>2, Known DEF Drops, Sound, RootOK, LowerOK, Shown
<1>6. UpperOK'
  <2> SUFFICES ASSUME NEW v \in UDentries
               PROVE  /\ ud'[v].low # LRoot /\ ud'[v].ino # ARoot
                      /\ ud'[v].low = None => ud'[v] = NoUpper
                      /\ ud'[v].ino # None => uino'[ud'[v].ino].file # None
                      /\ ud'[v].hashed /\ ud'[v].ino # None => ld'[ud'[v].low].ino = ud'[v].ino
    BY DEF UpperOK, Shown
  <2>1. CASE v = u
    BY <1>2, <2>1, Distinct DEF NoUpper, Inodes, Lowers
  <2>2. CASE v # u
    <3>1. ud'[v] = ud[v]
      BY <1>1, <1>2, <2>2, Known
    <3>2. /\ ud[v].low # LRoot /\ ud[v].ino # ARoot
          /\ ud[v].low = None => ud[v] = NoUpper
          /\ ud[v].ino # None => Shown(ud[v].ino)
          /\ ud[v].hashed /\ ud[v].ino # None => ld[ud[v].low].ino = ud[v].ino
      BY <1>1 DEF Sound, UpperOK
    <3>3. ud[v].ino # None => uino'[ud[v].ino].file = uino[ud[v].ino].file
      BY <1>1, Known DEF Drops
    <3>4. ud[v].hashed => ld'[ud[v].low].ino = ld[ud[v].low].ino
      BY <1>1, Known DEF Drops
    <3> QED BY <3>1, <3>2, <3>3, <3>4 DEF Shown
  <2> QED BY <2>1, <2>2
<1>7. ProcOK'
  <2> SUFFICES ASSUME NEW p \in Procs PROVE Fits(proc[p])'
    BY DEF ProcOK
  <2>1. Fits(proc[p]) /\ proc' = proc
    BY <1>1 DEF Sound, ProcOK, Drops
  <2>2. CASE proc[p].pc = "idle"
    BY <2>1, <2>2 DEF Fits, Idle
  <2>3. CASE proc[p].pc # "idle"
    <3>1. proc[p].u \in Uppers
      BY <1>1, <2>3, Known
    <3>2. proc[p].u # u
      BY DEF Holders, Drops
    <3>3. ud'[proc[p].u] = ud[proc[p].u]
      BY <1>2, <3>1, <3>2
    <3> QED BY <2>1, <2>3, <3>3 DEF Fits
  <2> QED BY <2>2, <2>3
<1>8. FreshOK'
  BY <1>1, <1>2, Known DEF Drops, Sound, FreshOK
<1>9. ASSUME NEW x \in Objects PROVE Surplus(x)' = Surplus(x)
  <2>1. /\ SumsAt(x) /\ In(x, {d, "mnt", "di"}) \in Int
        /\ refs'[x] = refs[x] - In(x, {d, "mnt", "di"})
    BY <1>3, Sums, InType
  <2>2. Ups(ud, x) = Ups(ud', x) + In(x, {d, "mnt", "di"})
    <3>1. ud'[u].low = None /\ ud[u].low = d /\ \A v \in Uppers \ {u} : ud[v].low = ud'[v].low
      BY <1>2 DEF NoUpper
    <3> HIDE DEF d
    <3> QED BY <1>1, <3>1, UpsTake
  <2>3. Inos(uino', x) = Inos(uino, x)
    BY InosSame DEF Drops
  <2>4. Entries(ld', x) = Entries(ld, x)
    <3>1. \A e \in LDentries : ld'[e].ino = ld[e].ino
      BY <1>1, Known DEF Drops
    <3> QED BY <3>1, EntriesSame
  <2>5. /\ Paths(proc', x) = Paths(proc, x) /\ Opens(proc', x) = Opens(proc, x)
        /\ Follows(proc', x) = Follows(proc, x) /\ Supers(mounted', x) = Supers(mounted, x)
    BY DEF Drops
  <2> HIDE DEF d
  <2> QED BY <2>1, <2>2, <2>3, <2>4, <2>5 DEF SumsAt
<1> QED BY <1>4, <1>5, <1>6, <1>7, <1>8, <1>9 DEF Sound, Balanced

LEMMA DReleaseDrops ==
    ASSUME RefInv, NEW u \in UDentries, DRelease(u)
    PROVE  Drops(u)
BY DEF RefInv, Sound, StackTypes, DRelease, Drops, InUse, lowerVars

LEMMA RevalidateDrops ==
    ASSUME RefInv, NEW u \in UDentries, Revalidate(u, FALSE), Holders(u) = {}
    PROVE  Drops(u)
<1>1. /\ StackTypes /\ ud[u].low \in Lowers /\ ud[u].low # None
      /\ UNCHANGED <<mounted, disk, attr, lino, fresh, proc>>
      /\ uino' \in [Inodes -> UpperInode] /\ \A b \in Inodes : uino'[b].file = uino[b].file
  BY RevalidateCopies
<1>2. /\ u # fresh /\ ld' = [ld EXCEPT ![ud[u].low].hashed = FALSE]
      /\ ud' = [ud EXCEPT ![u] = NoUpper] /\ refs' = Released(refs, u)
  BY DEF Revalidate
<1>3. ld' \in [Lowers -> LowerEntry] /\ \A e \in Lowers : ld'[e].ino = ld[e].ino
  BY <1>1, <1>2 DEF StackTypes, LowerEntry
<1> QED BY <1>1, <1>2, <1>3 DEF Drops

LEMMA RevalidateStep ==
    ASSUME RefInv, NEW u \in UDentries, NEW valid \in BOOLEAN, Revalidate(u, valid)
    PROVE  Sound' /\ Balanced
<1>1. CASE valid \/ Holders(u) # {}
  BY <1>1, RevalidateMild, MildStep
<1>2. CASE ~valid /\ Holders(u) = {}
  <2>1. Drops(u)
    BY <1>2, RevalidateDrops
  <2> QED BY <2>1, DropsStep
<1> QED BY <1>1, <1>2

LEMMA EvictStep ==
    ASSUME RefInv, NEW a \in LInodes, Evict(a)
    PROVE  Sound' /\ Balanced
<1>1. /\ Sound /\ StackTypes /\ uino \in [Inodes -> UpperInode] /\ refs \in [Objects -> Int]
      /\ a \in Inodes /\ a # ARoot /\ uino[a].file # None /\ \A u \in Uppers : ud[u].ino # a
      /\ uino' = [uino EXCEPT ![a] = NoInode] /\ refs' = Put(refs, {a, "ii"})
      /\ UNCHANGED <<mounted, disk, attr, lino, ld, ud, fresh, proc>>
  BY Known DEF RefInv, Sound, StackTypes, Evict, Shown, lowerVars
<1>2. NoInode \in UpperInode /\ NoInode.file = None
  BY DEF NoInode, UpperInode
<1>3. uino' \in [Inodes -> UpperInode] /\ uino'[a].file = None
      /\ \A b \in Inodes \ {a} : uino'[b] = uino[b]
  BY <1>1, <1>2
<1>4. refs' \in [Objects -> Int] /\ \A x \in Objects : refs'[x] = refs[x] - In(x, {a, "ii"})
  BY <1>1, Counts
<1>5. StackTypes'
  BY <1>1, <1>3, <1>4 DEF StackTypes
<1>6. RootOK' /\ LowerOK'
  BY <1>1, <1>3, Known DEF Sound, RootOK, LowerOK, Shown
<1>7. UpperOK'
  <2>1. \A u \in UDentries : ud[u].ino # None => uino'[ud[u].ino] = uino[ud[u].ino]
    BY <1>1, <1>3, Known
  <2> QED BY <1>1, <2>1 DEF Sound, UpperOK, Shown
<1>8. ProcOK' /\ FreshOK'
  BY <1>1 DEF Sound, ProcOK, Fits, FreshOK
<1>9. ASSUME NEW x \in Objects PROVE Surplus(x)' = Surplus(x)
  <2>1. /\ SumsAt(x) /\ In(x, {a, "ii"}) \in Int /\ refs'[x] = refs[x] - In(x, {a, "ii"})
    BY <1>4, Sums, InType
  <2>2. Inos(uino, x) = Inos(uino', x) + In(x, {a, "ii"})
    <3>1. /\ a \in Inodes /\ uino'[a].file = None /\ uino[a].file # None
          /\ \A b \in Inodes \ {a} : uino[b].file = uino'[b].file
      BY <1>1, <1>3
    <3> QED BY <3>1, InosTake
  <2>3. /\ Ups(ud', x) = Ups(ud, x) /\ Entries(ld', x) = Entries(ld, x)
        /\ Paths(proc', x) = Paths(proc, x) /\ Opens(proc', x) = Opens(proc, x)
        /\ Follows(proc', x) = Follows(proc, x) /\ Supers(mounted', x) = Supers(mounted, x)
    BY <1>1
  <2> QED BY <2>1, <2>2, <2>3 DEF SumsAt
<1> QED BY <1>5, <1>6, <1>7, <1>8, <1>9 DEF Sound, Balanced

LEMMA LowerPruneStep ==
    ASSUME RefInv, NEW d \in LDentries, LowerPrune(d)
    PROVE  Sound' /\ Balanced
<1> DEFINE a == ld[d].ino
<1>1. /\ Sound /\ StackTypes /\ ld \in [Lowers -> LowerEntry] /\ refs \in [Objects -> Int]
      /\ d \in Lowers /\ d # LRoot /\ refs[d] <= 0 /\ ld' = [ld EXCEPT ![d] = NoLower]
      /\ refs' = IF a = None THEN refs ELSE Put(refs, {a})
      /\ UNCHANGED <<mounted, disk, attr, lino, ud, uino, fresh, proc>>
  BY Known DEF RefInv, Sound, StackTypes, LowerPrune
<1>2. NoLower \in LowerEntry /\ NoLower.ino = None
  BY DEF NoLower, LowerEntry
<1>3. /\ ld' \in [Lowers -> LowerEntry] /\ ld'[d].ino = None
      /\ \A e \in Lowers \ {d} : ld'[e] = ld[e]
  BY <1>1, <1>2
<1>4. refs' \in [Objects -> Int]
  BY <1>1, Counts
<1>5. StackTypes'
  BY <1>1, <1>3, <1>4 DEF StackTypes
<1>6. RootOK' /\ LowerOK'
  <2>1. \A e \in LDentries : /\ ld'[e].ino # ARoot
                             /\ ld'[e].ino # None => lino[ld'[e].ino] # None
    BY <1>1, <1>3, Known, Distinct DEF Sound, LowerOK
  <2>2. LowerOK'
    BY <1>1, <2>1 DEF Sound, LowerOK, Shown
  <2> QED BY <1>1, <1>3, <2>2, Known DEF Sound, RootOK, Shown
<1>7. UpperOK'
  <2>1. \A u \in UDentries : ud[u].low # d
    BY <1>1, Unheld, Known
  <2>2. \A u \in UDentries : ud[u].hashed => ld'[ud[u].low] = ld[ud[u].low]
    BY <1>1, <1>3, <2>1, Known
  <2> QED BY <1>1, <2>2 DEF Sound, UpperOK, Shown
<1>8. ProcOK' /\ FreshOK'
  BY <1>1 DEF Sound, ProcOK, Fits, FreshOK
<1>9. ASSUME NEW x \in Objects PROVE Surplus(x)' = Surplus(x)
  <2>1. SumsAt(x)
    BY Sums
  <2>3. /\ Ups(ud', x) = Ups(ud, x) /\ Inos(uino', x) = Inos(uino, x)
        /\ Paths(proc', x) = Paths(proc, x) /\ Opens(proc', x) = Opens(proc, x)
        /\ Follows(proc', x) = Follows(proc, x) /\ Supers(mounted', x) = Supers(mounted, x)
    BY <1>1
  <2>4. CASE a = None
    <3>1. \A e \in LDentries : ld'[e].ino = ld[e].ino
      BY <1>1, <1>3, <2>4, Known
    <3>2. Entries(ld', x) = Entries(ld, x)
      BY <3>1, EntriesSame
    <3>3. refs'[x] = refs[x]
      BY <1>1, <2>4
    <3> QED BY <2>1, <2>3, <3>2, <3>3 DEF SumsAt
  <2>5. CASE a # None
    <3>1. a \in Inodes
      BY <1>1, <2>5, Known
    <3>2. /\ ld'[d].ino = None /\ ld[d].ino = a
          /\ \A e \in LDentries \ {d} : ld[e].ino = ld'[e].ino
      BY <1>1, <1>3, Known
    <3> HIDE DEF a
    <3>5. refs' = Put(refs, {a})
      BY <1>1, <2>5
    <3>3. refs'[x] = refs[x] - In(x, {a}) /\ In(x, {a}) \in Int
      BY <1>1, <3>5, Counts, InType
    <3>4. Entries(ld, x) = Entries(ld', x) + In(x, {a})
      <4>1. Loses(ld, ld', d, a)
        BY <3>2 DEF Loses
      <4> QED BY <3>1, <4>1, EntriesGive
    <3> QED BY <2>1, <2>3, <3>3, <3>4 DEF SumsAt
  <2> QED BY <2>4, <2>5
<1> QED BY <1>5, <1>6, <1>7, <1>8, <1>9 DEF Sound, Balanced

LEMMA LowerForgetStep ==
    ASSUME RefInv, NEW a \in LInodes, LowerForget(a)
    PROVE  Sound' /\ Balanced
<1>1. /\ Sound /\ StackTypes /\ a \in Inodes /\ a # ARoot /\ refs[a] <= 0
      /\ lino \in [Inodes -> Files \cup {None, ARoot}]
      /\ lino' = [lino EXCEPT ![a] = None]
      /\ UNCHANGED <<mounted, disk, attr, ld, ud, uino, fresh, proc, refs>>
  BY Known DEF RefInv, Sound, StackTypes, LowerForget
<1>2. uino[a].file = None /\ \A d \in LDentries : ld[d].ino # a
  BY <1>1, Forgotten DEF Shown
<1>3. /\ lino' \in [Inodes -> Files \cup {None, ARoot}] /\ lino'[a] = None
      /\ \A b \in Inodes \ {a} : lino'[b] = lino[b]
  BY <1>1
<1>4. StackTypes'
  BY <1>1, <1>3 DEF StackTypes
<1>5. RootOK'
  BY <1>1, <1>3, Known DEF Sound, RootOK, Shown
<1>6. LowerOK'
  <2>1. \A b \in LInodes : lino'[b] # ARoot /\ (uino[b].file # None => lino'[b] # None)
    BY <1>1, <1>2, <1>3, Known, Distinct DEF Sound, LowerOK, Shown
  <2>2. \A d \in LDentries : ld[d].ino # None => lino'[ld[d].ino] = lino[ld[d].ino]
    BY <1>1, <1>2, <1>3, Known
  <2> QED BY <1>1, <2>1, <2>2 DEF Sound, LowerOK, Shown
<1>7. UpperOK' /\ ProcOK' /\ FreshOK'
  BY <1>1 DEF Sound, ProcOK, Fits, FreshOK, UpperOK, Shown
<1>8. ASSUME NEW x \in Objects PROVE Surplus(x)' = Surplus(x)
  BY <1>1, Sums DEF SumsAt
<1> QED BY <1>4, <1>5, <1>6, <1>7, <1>8 DEF Sound, Balanced

\* an upper dentry of the dcache, the root too
LEMMA StatfsStep ==
    ASSUME RefInv, NEW u \in StatfsOn, Statfs(u)
    PROVE  Sound' /\ \A x \in Objects : Surplus(x)' = Surplus(x) + In(x, {ud[u].low})
<1> DEFINE d == ud[u].low
<1>1. /\ Sound /\ StackTypes /\ refs \in [Objects -> Int] /\ refs' = Get(refs, {d})
      /\ UNCHANGED <<mounted, disk, attr, lino, ld, ud, uino, fresh, proc>>
  BY DEF RefInv, Sound, StackTypes, Statfs, lowerVars
<1>2. refs' \in [Objects -> Int] /\ \A x \in Objects : refs'[x] = refs[x] + In(x, {d})
  BY <1>1, Counts
<1>3. Sound'
  BY <1>1, <1>2 DEF Sound, StackTypes, RootOK, LowerOK, UpperOK, ProcOK, Fits, FreshOK, Shown
<1>4. ASSUME NEW x \in Objects PROVE Surplus(x)' = Surplus(x) + In(x, {d})
  <2>1. SumsAt(x) /\ In(x, {d}) \in Int /\ refs'[x] = refs[x] + In(x, {d})
    BY <1>2, Sums, InType
  <2>2. /\ Ups(ud', x) = Ups(ud, x) /\ Inos(uino', x) = Inos(uino, x)
        /\ Entries(ld', x) = Entries(ld, x)
        /\ Paths(proc', x) = Paths(proc, x) /\ Opens(proc', x) = Opens(proc, x)
        /\ Follows(proc', x) = Follows(proc, x) /\ Supers(mounted', x) = Supers(mounted, x)
    BY <1>1
  <2> HIDE DEF d
  <2> QED BY <2>1, <2>2 DEF SumsAt
<1> QED BY <1>3, <1>4

\* what a mount takes, and an unmount gives back
LEMMA MountTakes ==
    ASSUME NEW x
    PROVE  In(x, Super \cup {LRoot, "mnt", ARoot, "ii"})
             = In(x, {LRoot, "mnt", "di"}) + In(x, {ARoot, "ii"}) + In(x, {"sbi", "root"})
<1>1. LRoot \in Lowers /\ ARoot \in Inodes
  BY DEF Lowers, Inodes
<1>2. LRoot \notin {ARoot, "ii", "sbi", "root", "mnt", "di"}
      /\ ARoot \notin {"ii", "sbi", "root", "mnt", "di"}
  BY <1>1, Distinct DEF Pool
<1>3. CASE x \in {LRoot, "mnt", "di"}
  BY <1>2, <1>3 DEF In, Super
<1>4. CASE x \in {ARoot, "ii"}
  BY <1>2, <1>4 DEF In, Super
<1>5. CASE x \in {"sbi", "root"}
  BY <1>2, <1>5 DEF In, Super
<1>6. CASE x \notin {LRoot, "mnt", "di", ARoot, "ii", "sbi", "root"}
  BY <1>6 DEF In, Super
<1> QED BY <1>3, <1>4, <1>5, <1>6

LEMMA NewInodeIs ==
    ASSUME NEW f \in Files \cup {ARoot}
    PROVE  NewInode(f) \in UpperInode /\ NewInode(f).file = f
<1> DEFINE A == [nlink : Int, mode : Modes \cup {None}]
           g == [nlink |-> 1, mode |-> None]
<1>1. g \in A
  OBVIOUS
<1>2. NoInode \in [file : Files \cup {None, ARoot}, attr : A, stale : BOOLEAN]
  BY DEF NoInode
<1>3. NewInode(f) = [NoInode EXCEPT !.file = f, !.attr = g]
  BY DEF NewInode
<1> HIDE DEF A, g
<1>4. /\ NewInode(f) \in [file : Files \cup {None, ARoot}, attr : A, stale : BOOLEAN]
      /\ NewInode(f).file = f
  BY <1>1, <1>2, <1>3
<1> QED BY <1>4 DEF UpperInode, A

Rooted == [NoUpper EXCEPT !.low = LRoot, !.ino = ARoot, !.hashed = TRUE]

LEMMA RootedType ==
    /\ Rooted \in UpperEntry /\ Rooted.low = LRoot /\ NoUpper \in UpperEntry
    /\ NoUpper.low = None /\ NoUpper.ino = None /\ NoUpper.hashed = FALSE
    /\ NewInode(ARoot) \in UpperInode /\ NewInode(ARoot).file = ARoot
    /\ NoInode \in UpperInode /\ NoInode.file = None /\ ARoot # None /\ LRoot # None
<1>1. LRoot \in Lowers /\ ARoot \in Inodes
  BY DEF Lowers, Inodes
<1>2. ARoot # None /\ LRoot # None
  BY <1>1, Distinct
<1>3. Rooted \in UpperEntry /\ Rooted.low = LRoot
  BY <1>1 DEF Rooted, NoUpper, UpperEntry
<1>4. NoUpper \in UpperEntry /\ NoUpper.low = None /\ NoUpper.ino = None /\ NoUpper.hashed = FALSE
  BY DEF NoUpper, UpperEntry
<1>5. NoInode \in UpperInode /\ NoInode.file = None
  BY DEF NoInode, UpperInode
<1>6. NewInode(ARoot) \in UpperInode /\ NewInode(ARoot).file = ARoot
  BY NewInodeIs
<1> QED BY <1>2, <1>3, <1>4, <1>5, <1>6

LEMMA SupersChange ==
    ASSUME NEW x PROVE Supers(TRUE, x) = Supers(FALSE, x) + In(x, {"sbi", "root"})
BY DEF Supers, In

LEMMA MountStep == ASSUME RefInv, Mount PROVE Sound' /\ Balanced
<1>1. /\ Sound /\ StackTypes /\ mounted = FALSE /\ mounted' = TRUE
      /\ ud \in [Uppers -> UpperEntry] /\ uino \in [Inodes -> UpperInode]
      /\ refs \in [Objects -> Int]
      /\ ud' = [ud EXCEPT ![URoot] = Rooted] /\ uino' = [uino EXCEPT ![ARoot] = NewInode(ARoot)]
      /\ refs' = Get(refs, Super \cup {LRoot, "mnt", ARoot, "ii"})
      /\ UNCHANGED <<disk, attr, lino, ld, fresh, proc>>
  BY DEF RefInv, Sound, StackTypes, Mount, lowerVars, Rooted
<1>2. URoot \in Uppers /\ ARoot \in Inodes /\ LRoot \in Lowers
  BY DEF Uppers, Lowers, Inodes
<1>3. ud[URoot] = NoUpper /\ uino[ARoot].file = None
  BY <1>1 DEF Sound, RootOK, Shown
<1>4. ud' \in [Uppers -> UpperEntry] /\ ud'[URoot] = Rooted
      /\ \A v \in Uppers \ {URoot} : ud'[v] = ud[v]
  BY <1>1, <1>2, RootedType
<1>5. uino' \in [Inodes -> UpperInode] /\ uino'[ARoot].file # None
      /\ \A b \in Inodes \ {ARoot} : uino'[b] = uino[b]
  BY <1>1, <1>2, RootedType
<1>6. refs' \in [Objects -> Int] /\ \A x \in Objects :
          refs'[x] = refs[x] + In(x, Super \cup {LRoot, "mnt", ARoot, "ii"})
  BY <1>1, Counts
<1>7. StackTypes'
  BY <1>1, <1>4, <1>5, <1>6 DEF StackTypes
<1>8. RootOK'
  BY <1>1, <1>4, <1>5 DEF Sound, RootOK, Shown, Rooted
<1>9. LowerOK'
  BY <1>1, <1>5, Known DEF Sound, LowerOK, Shown
<1>10. UpperOK'
  <2>1. \A u \in UDentries : ud'[u] = ud[u] /\ (ud[u].ino # None => uino'[ud[u].ino] = uino[ud[u].ino])
    BY <1>1, <1>4, <1>5, Known
  <2> QED BY <1>1, <2>1 DEF Sound, UpperOK, Shown
<1>11. ProcOK' /\ FreshOK'
  <2>1. \A u \in UDentries : ud'[u] = ud[u]
    BY <1>1, <1>4, Known
  <2>2. FreshOK'
    BY <1>1, <2>1, Known DEF Sound, FreshOK
  <2>3. ASSUME NEW p \in Procs PROVE Fits(proc[p])'
    <3>1. Fits(proc[p]) /\ proc' = proc
      BY <1>1 DEF Sound, ProcOK
    <3>2. CASE proc[p].pc = "idle"
      BY <3>1, <3>2 DEF Fits, Idle
    <3>3. CASE proc[p].pc # "idle"
      <4>1. ud'[proc[p].u] = ud[proc[p].u]
        BY <1>1, <2>1, <3>3, Known
      <4> QED BY <3>1, <3>3, <4>1 DEF Fits
    <3> QED BY <3>2, <3>3
  <2> QED BY <2>2, <2>3 DEF ProcOK
<1>12. ASSUME NEW x \in Objects PROVE Surplus(x)' = Surplus(x)
  <2> DEFINE A == In(x, {LRoot, "mnt", "di"})
             B == In(x, {ARoot, "ii"})
             C == In(x, {"sbi", "root"})
  <2>1. SumsAt(x) /\ A \in Int /\ B \in Int /\ C \in Int
    BY Sums, InType
  <2>2. refs'[x] = refs[x] + (A + B + C)
    BY <1>6, MountTakes
  <2>3. Ups(ud', x) = Ups(ud, x) + A
    <3>1. Enters(ud, ud', URoot, LRoot)
      BY <1>3, <1>4, RootedType DEF Enters
    <3> QED BY <1>2, <3>1, UpsEnter
  <2>4. Inos(uino', x) = Inos(uino, x) + B
    <3>1. uino[ARoot].file = None /\ uino'[ARoot].file # None
          /\ \A b \in Inodes \ {ARoot} : uino'[b].file = uino[b].file
      BY <1>3, <1>5
    <3> QED BY <1>2, <3>1, InosTake
  <2>5. Supers(mounted', x) = Supers(mounted, x) + C
    BY <1>1, SupersChange
  <2>6. /\ Entries(ld', x) = Entries(ld, x)
        /\ Paths(proc', x) = Paths(proc, x) /\ Opens(proc', x) = Opens(proc, x)
        /\ Follows(proc', x) = Follows(proc, x)
    BY <1>1
  <2> HIDE DEF A, B, C
  <2> QED BY <2>1, <2>2, <2>3, <2>4, <2>5, <2>6 DEF SumsAt
<1> QED BY <1>7, <1>8, <1>9, <1>10, <1>11, <1>12 DEF Sound, Balanced

LEMMA UnmountStep == ASSUME RefInv, Unmount PROVE Sound' /\ Balanced
<1> DEFINE r == Released(refs, URoot)
           s == Put(r, {"sbi", "root"})
<1>1. /\ Sound /\ StackTypes /\ mounted = TRUE /\ mounted' = FALSE
      /\ ud \in [Uppers -> UpperEntry] /\ uino \in [Inodes -> UpperInode]
      /\ refs \in [Objects -> Int]
      /\ ud' = [ud EXCEPT ![URoot] = NoUpper] /\ uino' = [uino EXCEPT ![ARoot] = NoInode]
      /\ refs' = Put(s, {ARoot, "ii"})
      /\ UNCHANGED <<disk, attr, lino, ld, fresh, proc>>
  BY DEF RefInv, Sound, StackTypes, Unmount, lowerVars
<1>2. URoot \in Uppers /\ ARoot \in Inodes /\ LRoot \in Lowers
  BY DEF Uppers, Lowers, Inodes
<1>3. /\ ud[URoot].low = LRoot /\ uino[ARoot].file # None
      /\ (\A u \in UDentries : ud[u] = NoUpper) /\ \A p \in Procs : proc[p] = Idle
  BY <1>1, RootedType DEF Sound, RootOK, Shown, Rooted, Unmount
<1>4. ud' \in [Uppers -> UpperEntry] /\ ud'[URoot] = NoUpper
      /\ \A v \in Uppers \ {URoot} : ud'[v] = ud[v]
  BY <1>1, <1>2, RootedType
<1>5. uino' \in [Inodes -> UpperInode] /\ uino'[ARoot].file = None
      /\ \A b \in Inodes \ {ARoot} : uino'[b] = uino[b]
  BY <1>1, <1>2, RootedType
<1>6. /\ refs' \in [Objects -> Int]
      /\ \A x \in Objects : refs'[x] = ((refs[x] - In(x, {LRoot, "mnt", "di"}))
                                          - In(x, {"sbi", "root"})) - In(x, {ARoot, "ii"})
  <2>1. r \in [Objects -> Int]
        /\ \A x \in Objects : r[x] = refs[x] - In(x, {LRoot, "mnt", "di"})
    BY <1>1, <1>3, Counts DEF Released
  <2> HIDE DEF r
  <2>2. s \in [Objects -> Int] /\ \A x \in Objects : s[x] = r[x] - In(x, {"sbi", "root"})
    BY <2>1, Counts
  <2> HIDE DEF s
  <2>3. refs' \in [Objects -> Int] /\ \A x \in Objects : refs'[x] = s[x] - In(x, {ARoot, "ii"})
    BY <1>1, <2>2, Counts
  <2> QED BY <2>1, <2>2, <2>3
<1>7. StackTypes'
  BY <1>1, <1>4, <1>5, <1>6 DEF StackTypes
<1>8. RootOK'
  BY <1>1, <1>4, <1>5 DEF Sound, RootOK, Shown
<1>9. LowerOK'
  BY <1>1, <1>5, Known DEF Sound, LowerOK, Shown
<1>10. UpperOK'
  <2>1. \A u \in UDentries : ud'[u] = NoUpper
    BY <1>1, <1>3, <1>4, Known
  <2> QED BY <2>1, RootedType DEF UpperOK
<1>11. ProcOK' /\ FreshOK'
  <2>1. fresh = None
    BY <1>1, <1>3, Known, RootedType
  <2> QED BY <1>1, <1>3, <2>1, IdleFits DEF ProcOK, FreshOK, Fits, Idle
<1>12. ASSUME NEW x \in Objects PROVE Surplus(x)' = Surplus(x)
  <2> DEFINE A == In(x, {LRoot, "mnt", "di"})
             B == In(x, {ARoot, "ii"})
             C == In(x, {"sbi", "root"})
  <2>1. SumsAt(x) /\ A \in Int /\ B \in Int /\ C \in Int
    BY Sums, InType
  <2>2. refs'[x] = ((refs[x] - A) - C) - B
    BY <1>6
  <2>3. Ups(ud, x) = Ups(ud', x) + A
    <3>1. Enters(ud', ud, URoot, LRoot)
      BY <1>3, <1>4, RootedType DEF Enters
    <3> QED BY <1>2, <3>1, UpsEnter
  <2>4. Inos(uino, x) = Inos(uino', x) + B
    <3>1. uino'[ARoot].file = None /\ uino[ARoot].file # None
          /\ \A b \in Inodes \ {ARoot} : uino[b].file = uino'[b].file
      BY <1>3, <1>5
    <3> QED BY <1>2, <3>1, InosTake
  <2>5. Supers(mounted, x) = Supers(mounted', x) + C
    BY <1>1, SupersChange
  <2>6. /\ Entries(ld', x) = Entries(ld, x)
        /\ Paths(proc', x) = Paths(proc, x) /\ Opens(proc', x) = Opens(proc, x)
        /\ Follows(proc', x) = Follows(proc, x)
    BY <1>1
  <2> HIDE DEF A, B, C
  <2> QED BY <2>1, <2>2, <2>3, <2>4, <2>5, <2>6 DEF SumsAt
<1> QED BY <1>7, <1>8, <1>9, <1>10, <1>11, <1>12 DEF Sound, Balanced

\* a set taken and put
LEMMA GetPut ==
    ASSUME NEW r \in [Objects -> Int], NEW X PROVE Put(Get(r, X), X) = r
BY DEF Get, Put

LEMMA StutterStep ==
    ASSUME RefInv, UNCHANGED stackVars PROVE Sound' /\ Balanced
<1>1. UNCHANGED <<mounted, disk, attr, lino, ld, ud, uino, fresh, proc, refs>>
  BY DEF stackVars, lowerVars
<1>2. Sound'
  BY <1>1 DEF RefInv, Sound, StackTypes, RootOK, LowerOK, UpperOK, ProcOK, Fits, FreshOK, Shown
<1>3. ASSUME NEW x \in Objects PROVE Surplus(x)' = Surplus(x)
  BY <1>1, Sums DEF SumsAt
<1> QED BY <1>2, <1>3 DEF Balanced

LEMMA MountFailedStep ==
    ASSUME RefInv, MountFailed("path") PROVE Sound' /\ Balanced
<1>1. refs' = Put(Get(refs, Super), Super)
      /\ UNCHANGED <<mounted, lowerVars, ud, uino, fresh, proc>>
  BY DEF MountFailed
<1>2. refs' = refs
  BY <1>1, GetPut DEF RefInv, Sound, StackTypes
<1> QED BY <1>1, <1>2, StutterStep DEF stackVars
-----------------------------------------------------------------------------
(***************************************************************************)
(* Steps that give a lower dentry an inode, or an upper dentry its lower   *)
(* one: u is the upper dentry, d the lower one.                            *)
(***************************************************************************)
\* no other address is that of the file at a new one
NewFile == \A b, c \in LInodes :
              lino[b] = None /\ lino'[b] # None /\ c # b => lino'[c] # lino'[b]

Grows(u, d) ==
    /\ UNCHANGED <<mounted, proc>> /\ Typed /\ refs' \in [Objects -> Int]
    /\ lino' \in [Inodes -> Files \cup {None, ARoot}] /\ lino'[ARoot] = ARoot
    /\ \A b \in LInodes : lino'[b] # ARoot /\ (lino[b] # None => lino'[b] = lino[b])
    /\ \A e \in Lowers \ {d} : ld'[e] = ld[e]
    /\ ld'[d].ino # ARoot /\ (ld'[d].ino # None => lino'[ld'[d].ino] # None)
    /\ ld'[d].ino = ld[d].ino \/ ld[d].ino = None
    /\ \A b \in Inodes : uino[b].file # None => uino'[b] = uino[b]
    /\ \A b \in Inodes : uino[b].file = None => uino'[b].file \in {None, lino'[b]}
    /\ uino'[ARoot] = uino[ARoot] /\ NewFile
    /\ \A v \in Uppers \ {u} : ud'[v] = ud[v]
    /\ \/ ud'[u] = ud[u] /\ fresh' = fresh
       \/ /\ u \in UDentries /\ ud[u].ino = None /\ ud'[u].low = d
          /\ ud'[u].ino # None => /\ ud'[u].ino \in LInodes /\ uino'[ud'[u].ino].file # None
                                  /\ ld'[d].ino = ud'[u].ino
          /\ fresh' = fresh \/ (fresh' = u /\ ud'[u].ino # None)

LEMMA GrowsStep ==
    ASSUME RefInv, NEW u \in Uppers, NEW d \in LDentries, Grows(u, d)
    PROVE  Sound'
<1>0. Sound /\ StackTypes /\ fresh \in UDentries \cup {None}
  BY DEF RefInv, Sound, StackTypes
<1>1. StackTypes'
  BY <1>0 DEF Grows, Typed, StackTypes
<1>2. RootOK'
  <2>1. ud'[URoot] = ud[URoot]
    BY <1>0, Known DEF Grows
  <2>2. ld'[LRoot] = ld[LRoot]
    BY <1>0, Known DEF Grows
  <2> QED BY <1>0, <2>1, <2>2 DEF Grows, Sound, RootOK, Shown
<1>3. LowerOK'
  <2>1. \A b \in LInodes : lino'[b] # ARoot /\ (uino'[b].file # None => lino'[b] # None)
    BY <1>0, Known DEF Grows, Sound, LowerOK, Shown
  <2>2. ASSUME NEW e \in LDentries
        PROVE  ld'[e].ino # ARoot /\ (ld'[e].ino # None => lino'[ld'[e].ino] # None)
    <3>1. CASE e = d
      BY <3>1 DEF Grows
    <3>2. CASE e # d
      <4>1. ld'[e] = ld[e] /\ ld[e].ino \in LInodes \cup {None}
        BY <1>0, <3>2, Known DEF Grows
      <4>2. ld[e].ino # ARoot /\ (ld[e].ino # None => lino[ld[e].ino] # None)
        BY <1>0 DEF Sound, LowerOK
      <4>3. \A b \in LInodes : lino[b] # None => lino'[b] = lino[b]
        BY DEF Grows
      <4> QED BY <4>1, <4>2, <4>3
    <3> QED BY <3>1, <3>2
  <2> QED BY <2>1, <2>2 DEF LowerOK, Shown
<1>4. UpperOK'
  <2> SUFFICES ASSUME NEW v \in UDentries
               PROVE  /\ ud'[v].low # LRoot /\ ud'[v].ino # ARoot
                      /\ ud'[v].low = None => ud'[v] = NoUpper
                      /\ ud'[v].ino # None => uino'[ud'[v].ino].file # None
                      /\ ud'[v].hashed /\ ud'[v].ino # None => ld'[ud'[v].low].ino = ud'[v].ino
    BY DEF UpperOK, Shown
  <2>1. CASE ud'[v] = ud[v]
    <3>2. /\ ud[v].low # LRoot /\ ud[v].ino # ARoot
          /\ ud[v].low = None => ud[v] = NoUpper
          /\ ud[v].ino # None => uino[ud[v].ino].file # None
          /\ ud[v].hashed /\ ud[v].ino # None => ld[ud[v].low].ino = ud[v].ino
      BY <1>0 DEF Sound, UpperOK, Shown
    <3>3. ud[v].ino # None => uino'[ud[v].ino] = uino[ud[v].ino]
      BY <1>0, <3>2, Known DEF Grows
    <3>4. ud[v].hashed /\ ud[v].ino # None => ld'[ud[v].low].ino = ld[ud[v].low].ino
      BY <1>0, <3>2, Known DEF Grows
    <3> QED BY <2>1, <3>2, <3>3, <3>4
  <2>2. CASE ud'[v] # ud[v]
    <3>1. v = u
      BY <1>0, <2>2, Known DEF Grows
    <3>2. /\ ud'[v].low = d
          /\ ud'[v].ino # None => /\ ud'[v].ino \in LInodes /\ uino'[ud'[v].ino].file # None
                                  /\ ld'[d].ino = ud'[v].ino
      BY <2>2, <3>1 DEF Grows
    <3>3. d # LRoot /\ d # None /\ ARoot # None /\ ARoot \notin LInodes
      BY <1>0, Known, RootedType
    <3> QED BY <3>2, <3>3
  <2> QED BY <2>1, <2>2
<1>5. \A v \in UDentries : ud[v].ino # None => ud'[v].ino = ud[v].ino /\ ud'[v].low = ud[v].low
  <2> SUFFICES ASSUME NEW v \in UDentries, ud[v].ino # None PROVE ud'[v] = ud[v]
    OBVIOUS
  <2> QED BY <1>0, Known DEF Grows
<1>6. ProcOK'
  <2> SUFFICES ASSUME NEW p \in Procs PROVE Fits(proc[p])'
    BY DEF ProcOK
  <2>1. Fits(proc[p]) /\ proc' = proc
    BY <1>0 DEF Sound, ProcOK, Grows
  <2>2. CASE proc[p].pc = "idle"
    BY <2>1, <2>2 DEF Fits, Idle
  <2>3. CASE proc[p].pc # "idle"
    <3>1. proc[p].u \in UDentries /\ ud[proc[p].u].ino # None
      BY <1>0, <2>3, Known
    <3>2. ud'[proc[p].u].ino = ud[proc[p].u].ino /\ ud'[proc[p].u].low = ud[proc[p].u].low
      BY <1>5, <3>1
    <3> QED BY <2>1, <2>3, <3>2 DEF Fits
  <2> QED BY <2>2, <2>3
<1>7. FreshOK' /\ fresh' \in UDentries \cup {None}
  <2>1. FreshOK
    BY <1>0 DEF Sound
  <2>2. fresh' = fresh \/ (fresh' = u /\ u \in UDentries /\ ud'[u].ino # None)
    BY DEF Grows
  <2> QED BY <1>0, <1>5, <2>1, <2>2 DEF FreshOK
<1>8. StackTypes'
  BY <1>0, <1>7 DEF Grows, Typed, StackTypes
<1> QED BY <1>2, <1>3, <1>4, <1>6, <1>7, <1>8 DEF Sound

LEMMA IgetIs == ASSUME NEW a \in LInodes PROVE Iget5(a) = a
<1>1. CASE Shown(a)
  <2>1. \E b \in LInodes : Shown(b) /\ InodeTest(b, a)
    BY <1>1 DEF InodeTest
  <2> DEFINE c == CHOOSE b \in LInodes : Shown(b) /\ InodeTest(b, a)
  <2>2. Shown(c) /\ InodeTest(c, a)
    BY <2>1
  <2>3. Iget5(a) = c
    BY <2>1 DEF Iget5
  <2> QED BY <2>2, <2>3 DEF InodeTest
<1>2. CASE ~Shown(a)
  <2>1. ~\E b \in LInodes : Shown(b) /\ InodeTest(b, a)
    BY <1>2 DEF InodeTest
  <2> QED BY <2>1 DEF Iget5
<1> QED BY <1>1, <1>2

\* dazukofs_interpose() takes what its new inode will give back
LEMMA Interposed ==
    ASSUME StackTypes, NEW r \in [Objects -> Int], NEW a \in LInodes, NEW f \in Files,
           NEW u, NEW dentry, NEW add, Interpose(r, a, f, u, dentry, add)
    PROVE  /\ uino' \in [Inodes -> UpperInode] /\ uino'[a].file # None
           /\ \A b \in Inodes \ {a} : uino'[b] = uino[b]
           /\ IF uino[a].file # None THEN uino' = uino ELSE uino'[a].file = f
           /\ ud' = [ud EXCEPT ![u] = Instantiated(dentry, a, add)] /\ fresh' = u
           /\ refs' \in [Objects -> Int]
           /\ \A x \in Objects : refs'[x] = r[x] + (Inos(uino', x) - Inos(uino, x))
<1>0. /\ a \in Inodes /\ None \notin Files /\ uino \in [Inodes -> UpperInode]
      /\ "ii" \notin Inodes
  BY Distinct DEF Inodes, StackTypes, Pool
<1>1. /\ refs' = IF ~Shown(a) THEN Get(Igrabbed(r, a, ~Shown(a)), {"ii"})
                 ELSE Igrabbed(r, a, ~Shown(a))
      /\ uino' = IF ~Shown(a) THEN [uino EXCEPT ![a] = NewInode(f)] ELSE uino
      /\ ud' = [ud EXCEPT ![u] = Instantiated(dentry, a, add)] /\ fresh' = u
  BY IgetIs DEF Interpose
<1>2. CASE Shown(a)
  <2>1. refs' = r /\ uino' = uino /\ uino[a].file # None
    BY <1>1, <1>2 DEF Igrabbed, Shown
  <2>2. \A x \in Objects : r[x] = r[x] + (Inos(uino, x) - Inos(uino, x))
    BY PartNats
  <2> QED BY <1>0, <1>1, <2>1, <2>2
<1>3. CASE ~Shown(a)
  <2>1. refs' = Get(Get(r, {a}), {"ii"}) /\ uino' = [uino EXCEPT ![a] = NewInode(f)]
        /\ uino[a].file = None
    BY <1>1, <1>3 DEF Igrabbed, Shown
  <2>2. NewInode(f) \in UpperInode /\ NewInode(f).file = f
    BY NewInodeIs
  <2>3. uino' \in [Inodes -> UpperInode] /\ uino'[a].file # None /\ uino'[a].file = f
        /\ \A b \in Inodes \ {a} : uino'[b] = uino[b]
    BY <1>0, <2>1, <2>2
  <2>4. Get(r, {a}) \in [Objects -> Int] /\ refs' \in [Objects -> Int]
        /\ \A x \in Objects : refs'[x] = (r[x] + In(x, {a})) + In(x, {"ii"})
    BY <2>1, Counts
  <2>5. ASSUME NEW x \in Objects PROVE refs'[x] = r[x] + (Inos(uino', x) - Inos(uino, x))
    <3>1. Inos(uino', x) = Inos(uino, x) + In(x, {a, "ii"})
      <4>1. a \in Inodes /\ Appears(uino, uino', a)
        BY <1>0, <2>1, <2>3 DEF Appears
      <4> QED BY <4>1, InosAppear
    <3>2. In(x, {a, "ii"}) = In(x, {a}) + In(x, {"ii"})
      BY <1>0 DEF In
    <3>3. refs'[x] = (r[x] + In(x, {a})) + In(x, {"ii"})
      BY <2>4
    <3>4. Inos(uino, x) \in Int /\ In(x, {a}) \in Int /\ In(x, {"ii"}) \in Int /\ r[x] \in Int
      BY PartNats, InType
    <3> QED BY <3>1, <3>2, <3>3, <3>4
  <2> QED BY <1>1, <2>1, <2>3, <2>4, <2>5
<1> QED BY <1>2, <1>3

\* lookup_one_len() changes nothing that somebody holds
LEMMA LookupOneSteps ==
    ASSUME RefInv, NEW n \in Names, NEW d \in LDentries, LookupOne(n, d)
    PROVE  /\ lino' \in [Inodes -> Files \cup {None, ARoot}] /\ lino'[ARoot] = ARoot
           /\ \A b \in LInodes : lino'[b] # ARoot /\ (lino[b] # None => lino'[b] = lino[b])
           /\ ld' \in [Lowers -> LowerEntry] /\ \A e \in Lowers \ {d} : ld'[e] = ld[e]
           /\ ld'[d].ino \in LInodes \cup {None}
           /\ ld'[d].ino # None => lino'[ld'[d].ino] \in Files
           /\ ld'[d].ino = ld[d].ino \/ ld[d].ino = None
           /\ \A v \in Uppers : ud[v].low = d => ld' = ld
           /\ Looked(d) \in [Objects -> Int]
           /\ \A x \in Objects : Looked(d)[x] = refs[x] + (Entries(ld', x) - Entries(ld, x))
<1>0. /\ Sound /\ StackTypes /\ d \in Lowers /\ ld \in [Lowers -> LowerEntry]
      /\ lino \in [Inodes -> Files \cup {None, ARoot}] /\ refs \in [Objects -> Int]
      /\ lino[ARoot] = ARoot /\ ARoot \in Inodes /\ ARoot # None
      /\ \A e \in LDentries : e \in Lowers
  BY Known, RootedType DEF RefInv, Sound, StackTypes, RootOK
<1>9. /\ ld[d].ino \in LInodes \cup {None} /\ (ld[d].ino # None => lino[ld[d].ino] \in Files)
      /\ \A b \in LInodes : b \in Inodes /\ lino[b] # ARoot /\ b # ARoot /\ b # None
  BY <1>0, Known DEF Sound, LowerOK
<1>8. \A x \in Objects : refs[x] = refs[x] + (Entries(ld, x) - Entries(ld, x))
  BY <1>0, PartNats
<1>1. CASE UNCHANGED <<lino, ld>>
  <2>1. Looked(d) = refs
    BY <1>1 DEF Looked
  <2> QED BY <1>0, <1>1, <1>8, <1>9, <2>1
<1>2. CASE ~UNCHANGED <<lino, ld>>
  <2>1. ld[d] = NoLower /\ refs[d] = 0
    BY <1>2 DEF LookupOne
  <2>2. \A v \in Uppers : ud[v].low # d
    BY <1>0, <2>1, Unheld
  <2>3. ld[d].ino = None
    BY <2>1 DEF NoLower
  <2>4. CASE ld' = [ld EXCEPT ![d] = [NoLower EXCEPT !.name = n, !.hashed = TRUE]] /\ lino' = lino
    <3> DEFINE l == [NoLower EXCEPT !.name = n, !.hashed = TRUE]
    <3>1. l \in LowerEntry /\ l.ino = None
      BY DEF NoLower, LowerEntry
    <3>5. ld' = [ld EXCEPT ![d] = l]
      BY <2>4
    <3> HIDE DEF l
    <3>2. ld' \in [Lowers -> LowerEntry] /\ ld'[d].ino = None
          /\ \A e \in Lowers \ {d} : ld'[e] = ld[e]
      BY <1>0, <3>1, <3>5
    <3>3. Looked(d) = refs
      BY <2>3, <3>2 DEF Looked
    <3>4. ASSUME NEW x \in Objects PROVE Entries(ld', x) = Entries(ld, x)
      <4>1. \A e \in LDentries : ld'[e].ino = ld[e].ino
        BY <1>0, <2>3, <3>2
      <4> QED BY <4>1, EntriesSame
    <3> QED BY <1>0, <1>8, <1>9, <2>2, <2>3, <2>4, <3>2, <3>3, <3>4
  <2>5. ASSUME NEW a \in LInodes, lino[a] \in {disk[n], None}, disk[n] # None,
               lino' = [lino EXCEPT ![a] = disk[n]],
               ld' = [ld EXCEPT ![d] = [name |-> n, hashed |-> TRUE, ino |-> a]]
        PROVE  /\ lino' \in [Inodes -> Files \cup {None, ARoot}] /\ lino'[ARoot] = ARoot
               /\ \A b \in LInodes : lino'[b] # ARoot /\ (lino[b] # None => lino'[b] = lino[b])
               /\ ld' \in [Lowers -> LowerEntry] /\ \A e \in Lowers \ {d} : ld'[e] = ld[e]
               /\ ld'[d].ino = a /\ lino'[a] \in Files
    <3> DEFINE l == [name |-> n, hashed |-> TRUE, ino |-> a]
    <3>1. disk[n] \in Files
      BY <1>0, <2>5 DEF StackTypes
    <3>2. l \in LowerEntry /\ l.ino = a
      BY DEF LowerEntry, Inodes
    <3>5. ld' = [ld EXCEPT ![d] = l]
      BY <2>5
    <3> HIDE DEF l
    <3>3. ld' \in [Lowers -> LowerEntry] /\ ld'[d].ino = a
          /\ \A e \in Lowers \ {d} : ld'[e] = ld[e]
      BY <1>0, <3>2, <3>5
    <3>4. lino' \in [Inodes -> Files \cup {None, ARoot}] /\ lino'[ARoot] = ARoot
          /\ lino'[a] = disk[n] /\ \A b \in LInodes : b # a => lino'[b] = lino[b]
      BY <1>0, <1>9, <2>5, <3>1
    <3>6. disk[n] # ARoot
      BY <3>1, ObjectsApart
    <3> QED BY <1>9, <2>5, <3>1, <3>3, <3>4, <3>6
  <2>6. CASE ~(ld' = [ld EXCEPT ![d] = [NoLower EXCEPT !.name = n, !.hashed = TRUE]] /\ lino' = lino)
    <3>1. PICK a \in LInodes : /\ lino[a] \in {disk[n], None} /\ disk[n] # None
                               /\ lino' = [lino EXCEPT ![a] = disk[n]]
                               /\ ld' = [ld EXCEPT ![d] = [name |-> n, hashed |-> TRUE, ino |-> a]]
      BY <1>2, <2>6 DEF LookupOne
    <3>2. /\ lino' \in [Inodes -> Files \cup {None, ARoot}] /\ lino'[ARoot] = ARoot
          /\ \A b \in LInodes : lino'[b] # ARoot /\ (lino[b] # None => lino'[b] = lino[b])
          /\ ld' \in [Lowers -> LowerEntry] /\ \A e \in Lowers \ {d} : ld'[e] = ld[e]
          /\ ld'[d].ino = a /\ lino'[a] \in Files
      BY <2>5, <3>1
    <3>3. a # None /\ a \in Inodes
      BY <1>9
    <3>4. Looked(d) = Get(refs, {a})
      BY <2>3, <3>2, <3>3 DEF Looked
    <3>5. Looked(d) \in [Objects -> Int] /\ \A x \in Objects : Looked(d)[x] = refs[x] + In(x, {a})
      BY <1>0, <3>4, Counts
    <3>6. ASSUME NEW x \in Objects
          PROVE  Looked(d)[x] = refs[x] + (Entries(ld', x) - Entries(ld, x))
      <4>1. Loses(ld', ld, d, a)
        BY <1>0, <2>3, <3>2 DEF Loses
      <4>2. Entries(ld', x) = Entries(ld, x) + In(x, {a})
        BY <3>3, <4>1, EntriesGive
      <4>3. Entries(ld, x) \in Int /\ In(x, {a}) \in Int /\ refs[x] \in Int
        BY <1>0, PartNats, InType
      <4>4. Looked(d)[x] = refs[x] + In(x, {a})
        BY <3>5
      <4> QED BY <4>2, <4>3, <4>4
    <3> QED BY <2>2, <2>3, <3>2, <3>5, <3>6
  <2> QED BY <2>4, <2>6
<1> QED BY <1>1, <1>2

LEMMA LookupOneNew ==
    ASSUME RefInv, NEW n \in Names, NEW d \in LDentries, LookupOne(n, d)
    PROVE  NewFile
<1>1. CASE lino' = lino
  BY <1>1 DEF NewFile
<1>2. CASE lino' # lino
  <2>1. PICK a \in LInodes : /\ lino[a] = None => disk[n] \notin {lino[b] : b \in LInodes}
                             /\ lino' = [lino EXCEPT ![a] = disk[n]]
    BY <1>2 DEF LookupOne
  <2>2. lino \in [Inodes -> Files \cup {None, ARoot}] /\ \A b \in LInodes : b \in Inodes
    BY Known DEF RefInv, Sound, StackTypes
  <2>3. \A b \in LInodes : lino'[b] = IF b = a THEN disk[n] ELSE lino[b]
    BY <2>1, <2>2
  <2> QED BY <2>1, <2>3 DEF NewFile
<1> QED BY <1>1, <1>2

LEMMA LookupNoMemoryGrows ==
    ASSUME RefInv, NEW n \in Names, NEW d \in LDentries, LookupNoMemory(n, d)
    PROVE  Grows(URoot, d) /\ Balanced
<1>1. LookupOne(n, d) /\ refs' = Put(Get(Looked(d), {d}), {d})
      /\ UNCHANGED <<mounted, disk, attr, ud, uino, fresh, proc>>
  BY DEF LookupNoMemory
<1>2. /\ lino' \in [Inodes -> Files \cup {None, ARoot}] /\ lino'[ARoot] = ARoot
      /\ \A b \in LInodes : lino'[b] # ARoot /\ (lino[b] # None => lino'[b] = lino[b])
      /\ ld' \in [Lowers -> LowerEntry] /\ \A e \in Lowers \ {d} : ld'[e] = ld[e]
      /\ ld'[d].ino \in LInodes \cup {None}
      /\ ld'[d].ino # None => lino'[ld'[d].ino] \in Files
      /\ ld'[d].ino = ld[d].ino \/ ld[d].ino = None
  BY <1>1, LookupOneSteps
<1>3. /\ Looked(d) \in [Objects -> Int]
      /\ \A x \in Objects : Looked(d)[x] = refs[x] + (Entries(ld', x) - Entries(ld, x))
  BY <1>1, LookupOneSteps
<1>4. refs' = Looked(d)
  BY <1>1, <1>3, GetPut
<1>5. Sound /\ StackTypes /\ URoot \in Uppers /\ ARoot \notin LInodes /\ ARoot # None
      /\ None \notin Files /\ \A v \in UDentries : v \in Uppers
  BY StackAssumption, Known, RootedType, Distinct DEF RefInv, Sound
<1>6. Typed
  BY <1>1, <1>2, <1>5 DEF Typed, StackTypes
<1>9. NewFile
  BY <1>1, LookupOneNew
<1>7. Grows(URoot, d)
  BY <1>1, <1>2, <1>3, <1>4, <1>5, <1>6, <1>9 DEF Grows
<1>8. ASSUME NEW x \in Objects PROVE Surplus(x)' = Surplus(x)
  <2>1. SumsAt(x)
    BY Sums
  <2>2. refs'[x] = refs[x] + (Entries(ld', x) - Entries(ld, x))
    BY <1>3, <1>4
  <2>3. /\ Ups(ud', x) = Ups(ud, x) /\ Inos(uino', x) = Inos(uino, x)
        /\ Paths(proc', x) = Paths(proc, x) /\ Opens(proc', x) = Opens(proc, x)
        /\ Follows(proc', x) = Follows(proc, x) /\ Supers(mounted', x) = Supers(mounted, x)
    BY <1>1
  <2> QED BY <2>1, <2>2, <2>3 DEF SumsAt
<1> QED BY <1>7, <1>8 DEF Balanced

\* the fields of a new dentry
LEMMA AddedIs ==
    ASSUME NEW n \in Names, NEW d \in LDentries, NEW a \in LInodes
    PROVE  LET e == [name |-> n, low |-> d, ino |-> None, hashed |-> TRUE] IN
           /\ e \in UpperEntry /\ e.low = d /\ e.ino = None
           /\ Instantiated(e, a, TRUE) \in UpperEntry
           /\ Instantiated(e, a, TRUE).low = d /\ Instantiated(e, a, TRUE).ino = a
BY DEF UpperEntry, Instantiated, Lowers, Inodes

LEMMA LookupGrows ==
    ASSUME RefInv, NEW u \in UDentries, NEW n \in Names, NEW d \in LDentries,
           Lookup(u, n, d, TRUE)
    PROVE  Grows(u, d) /\ Balanced
<1> DEFINE r     == Get(Looked(d), {d, "di", "mnt"})
           added == [name |-> n, low |-> d, ino |-> None, hashed |-> TRUE]
           a     == ld'[d].ino
<1>1. /\ LookupOne(n, d) /\ ud[u] = NoUpper /\ UNCHANGED <<mounted, disk, attr, proc>>
      /\ \/ a = None /\ ud' = [ud EXCEPT ![u] = added] /\ refs' = r /\ UNCHANGED <<uino, fresh>>
         \/ a # None /\ Interpose(r, a, lino'[a], u, added, TRUE)
  BY DEF Lookup
<1>2. /\ lino' \in [Inodes -> Files \cup {None, ARoot}] /\ lino'[ARoot] = ARoot
      /\ \A b \in LInodes : lino'[b] # ARoot /\ (lino[b] # None => lino'[b] = lino[b])
      /\ ld' \in [Lowers -> LowerEntry] /\ \A e \in Lowers \ {d} : ld'[e] = ld[e]
      /\ ld'[d].ino \in LInodes \cup {None}
      /\ ld'[d].ino # None => lino'[ld'[d].ino] \in Files
      /\ ld'[d].ino = ld[d].ino \/ ld[d].ino = None
  BY <1>1, LookupOneSteps
<1>3. /\ Looked(d) \in [Objects -> Int]
      /\ \A x \in Objects : Looked(d)[x] = refs[x] + (Entries(ld', x) - Entries(ld, x))
  BY <1>1, LookupOneSteps
<1>4. /\ r \in [Objects -> Int]
      /\ \A x \in Objects : r[x] = Looked(d)[x] + In(x, {d, "di", "mnt"})
  BY <1>3, Counts
<1>5. /\ Sound /\ StackTypes /\ ARoot \notin LInodes /\ ARoot # None /\ d \in Lowers
      /\ None \notin Files /\ u \in Uppers /\ ud \in [Uppers -> UpperEntry] /\ u # URoot
      /\ uino \in [Inodes -> UpperInode] /\ \A v \in UDentries : v \in Uppers
  BY StackAssumption, Known, RootedType, Distinct DEF RefInv, Sound, StackTypes
<1>6. ud[u].low = None /\ ud[u].ino = None
  BY <1>1, RootedType
<1> HIDE DEF r
<1>7. /\ ud' \in [Uppers -> UpperEntry] /\ ud'[u].low = d /\ ud'[u].ino = a
      /\ \A v \in Uppers \ {u} : ud'[v] = ud[v]
      /\ uino' \in [Inodes -> UpperInode] /\ (a # None => uino'[a].file # None)
      /\ \A b \in Inodes : b # a => uino'[b] = uino[b]
      /\ IF uino[a].file # None \/ a = None THEN uino' = uino ELSE uino'[a].file = lino'[a]
      /\ (fresh' = fresh) \/ (fresh' = u /\ a # None)
      /\ refs' \in [Objects -> Int]
      /\ \A x \in Objects : refs'[x] = r[x] + (Inos(uino', x) - Inos(uino, x))
  <2>1. CASE a = None /\ ud' = [ud EXCEPT ![u] = added] /\ refs' = r /\ UNCHANGED <<uino, fresh>>
    <3>1. added \in UpperEntry /\ added.low = d /\ added.ino = None
      BY DEF UpperEntry, Lowers
    <3> HIDE DEF added
    <3>2. /\ ud' \in [Uppers -> UpperEntry] /\ ud'[u].low = d /\ ud'[u].ino = None
          /\ \A v \in Uppers \ {u} : ud'[v] = ud[v]
      BY <1>5, <2>1, <3>1
    <3>3. ASSUME NEW x \in Objects PROVE refs'[x] = r[x] + (Inos(uino', x) - Inos(uino, x))
      <4>1. Inos(uino', x) = Inos(uino, x) /\ Inos(uino, x) \in Int /\ refs'[x] = r[x] /\ r[x] \in Int
        BY <1>4, <2>1, PartNats
      <4> QED BY <4>1
    <3> QED BY <1>4, <1>5, <2>1, <3>2, <3>3
  <2>2. CASE a # None /\ Interpose(r, a, lino'[a], u, added, TRUE)
    <3> DEFINE i == Instantiated(added, a, TRUE)
    <3>0. a \in LInodes /\ lino'[a] \in Files
      BY <1>2, <2>2
    <3>1. i \in UpperEntry /\ i.low = d /\ i.ino = a
      BY <3>0, AddedIs, ZenonT(60)
    <3> HIDE DEF i
    <3>2. /\ uino' \in [Inodes -> UpperInode] /\ uino'[a].file # None
          /\ \A b \in Inodes \ {a} : uino'[b] = uino[b]
          /\ IF uino[a].file # None THEN uino' = uino ELSE uino'[a].file = lino'[a]
          /\ ud' = [ud EXCEPT ![u] = i] /\ fresh' = u
          /\ refs' \in [Objects -> Int]
          /\ \A x \in Objects : refs'[x] = r[x] + (Inos(uino', x) - Inos(uino, x))
      BY <1>4, <1>5, <2>2, <3>0, Interposed DEF i
    <3>3. /\ ud' \in [Uppers -> UpperEntry] /\ ud'[u].low = d /\ ud'[u].ino = a
          /\ \A v \in Uppers \ {u} : ud'[v] = ud[v]
      BY <1>5, <3>1, <3>2
    <3> QED BY <2>2, <3>2, <3>3
  <2> QED BY <1>1, <2>1, <2>2
<1>8. Typed
  BY <1>1, <1>2, <1>5, <1>7 DEF Typed, StackTypes
<1>9. Grows(u, d)
  <2>1. \A b \in Inodes : uino[b].file # None => uino'[b] = uino[b]
    BY <1>7
  <2>2. \A b \in Inodes : uino[b].file = None => uino'[b].file \in {None, lino'[b]}
    BY <1>7
  <2>8. NewFile
    BY <1>1, LookupOneNew
  <2>3. uino'[ARoot] = uino[ARoot]
    BY <1>2, <1>5, <1>7, Known
  <2>4. ld'[d].ino = ld[d].ino \/ ld[d].ino = None
    BY <1>2
  <2>5. ld'[d].ino # ARoot /\ (ld'[d].ino # None => lino'[ld'[d].ino] # None)
    BY <1>2, <1>5
  <2>6. ud'[u].ino # None => /\ ud'[u].ino \in LInodes /\ uino'[ud'[u].ino].file # None
                             /\ ld'[d].ino = ud'[u].ino
    BY <1>2, <1>7
  <2>7. fresh' = fresh \/ (fresh' = u /\ ud'[u].ino # None)
    BY <1>7
  <2> QED BY <1>1, <1>2, <1>6, <1>7, <1>8, <2>1, <2>2, <2>3, <2>4, <2>5, <2>6, <2>7, <2>8 DEF Grows
<1>10. ASSUME NEW x \in Objects PROVE Surplus(x)' = Surplus(x)
  <2> DEFINE A == In(x, {d, "mnt", "di"})
  <2>1. SumsAt(x) /\ A \in Int /\ refs[x] \in Int
    BY <1>5, Sums, InType DEF SumsAt
  <2>2. {d, "di", "mnt"} = {d, "mnt", "di"}
    OBVIOUS
  <2>3. refs'[x] = (refs[x] + (Entries(ld', x) - Entries(ld, x)) + A)
                     + (Inos(uino', x) - Inos(uino, x))
    BY <1>3, <1>4, <1>7, <2>2
  <2>4. Ups(ud', x) = Ups(ud, x) + A
    <3>1. Enters(ud, ud', u, d)
      BY <1>6, <1>7 DEF Enters
    <3> QED BY <1>5, <3>1, UpsEnter
  <2>5. /\ Paths(proc', x) = Paths(proc, x) /\ Opens(proc', x) = Opens(proc, x)
        /\ Follows(proc', x) = Follows(proc, x) /\ Supers(mounted', x) = Supers(mounted, x)
    BY <1>1
  <2> HIDE DEF A
  <2> QED BY <2>1, <2>3, <2>4, <2>5 DEF SumsAt
<1> QED BY <1>9, <1>10 DEF Balanced

\* the negative upper dentry u, over d, gets the lower inode a of f
Hatches(u, d, a, f) ==
    /\ ud[u].low = d /\ ud[u].hashed /\ ud[u].ino = None /\ ld[d].ino = None
    /\ UNCHANGED <<mounted, proc>>
    /\ disk' \in [Names -> Files \cup {None}] /\ attr' \in [Files -> FileAttr]
    /\ lino' \in [Inodes -> Files \cup {None, ARoot}] /\ lino'[ARoot] = ARoot
    /\ \A b \in LInodes : lino'[b] # ARoot /\ (lino[b] # None => lino'[b] = lino[b])
    /\ lino'[a] = f /\ ld' = [ld EXCEPT ![d].ino = a] /\ NewFile
    /\ Interpose(Get(refs, {a}), a, f, u, ud[u], FALSE)

LEMMA HatchesGrows ==
    ASSUME RefInv, NEW u \in UDentries, NEW d, NEW a \in LInodes, NEW f \in Files,
           Hatches(u, d, a, f)
    PROVE  d \in LDentries /\ Grows(u, d) /\ Balanced
<1> DEFINE r == Get(refs, {a})
           i == Instantiated(ud[u], a, FALSE)
<1>1. /\ Sound /\ StackTypes /\ ARoot \notin LInodes /\ ARoot # None
      /\ u \in Uppers /\ u # URoot /\ ud \in [Uppers -> UpperEntry]
      /\ ld \in [Lowers -> LowerEntry] /\ refs \in [Objects -> Int]
      /\ uino \in [Inodes -> UpperInode] /\ \A v \in UDentries : v \in Uppers
  BY StackAssumption, Known, RootedType DEF RefInv, Sound, StackTypes
<1>2. d \in LDentries /\ d \in Lowers /\ a \in Inodes /\ a # None /\ a # ARoot /\ f # None
  BY <1>1, Known, Distinct DEF Hatches
<1>3. r \in [Objects -> Int] /\ \A x \in Objects : r[x] = refs[x] + In(x, {a})
  BY <1>1, Counts
<1>4. /\ ld' \in [Lowers -> LowerEntry] /\ ld'[d].ino = a
      /\ \A e \in Lowers \ {d} : ld'[e] = ld[e]
  <2>1. ld[d] \in LowerEntry /\ [ld[d] EXCEPT !.ino = a] \in LowerEntry
    BY <1>1, <1>2 DEF LowerEntry
  <2>2. ld'[d] = [ld[d] EXCEPT !.ino = a] /\ \A e \in Lowers \ {d} : ld'[e] = ld[e]
    BY <1>1, <1>2 DEF Hatches
  <2>3. ld'[d].ino = a
    BY <2>1, <2>2 DEF LowerEntry
  <2>4. ld' \in [Lowers -> LowerEntry]
    BY <1>1, <1>2, <2>1 DEF Hatches
  <2> QED BY <2>2, <2>3, <2>4
<1>5. i \in UpperEntry /\ i.low = d /\ i.ino = a
  <2>1. ud[u] \in UpperEntry /\ ud[u].low = d
    BY <1>1 DEF Hatches
  <2> QED BY <1>2, <2>1 DEF UpperEntry, Instantiated
<1> HIDE DEF i, r
<1>6. /\ uino' \in [Inodes -> UpperInode] /\ uino'[a].file # None
      /\ \A b \in Inodes \ {a} : uino'[b] = uino[b]
      /\ IF uino[a].file # None THEN uino' = uino ELSE uino'[a].file = f
      /\ ud' = [ud EXCEPT ![u] = i] /\ fresh' = u
      /\ refs' \in [Objects -> Int]
      /\ \A x \in Objects : refs'[x] = r[x] + (Inos(uino', x) - Inos(uino, x))
  <2>1. Interpose(r, a, f, u, ud[u], FALSE)
    BY DEF Hatches, r
  <2>2. StackTypes /\ r \in [Objects -> Int]
    BY <1>1, <1>3
  <2> QED BY <2>1, <2>2, Interposed DEF i
<1>7. /\ ud' \in [Uppers -> UpperEntry] /\ ud'[u].low = d /\ ud'[u].ino = a
      /\ \A v \in Uppers \ {u} : ud'[v] = ud[v]
  BY <1>1, <1>5, <1>6
<1>8. Typed
  BY <1>4, <1>6, <1>7 DEF Typed, Hatches
<1>9. Grows(u, d)
  <2>1. \A b \in Inodes : uino[b].file # None => uino'[b] = uino[b]
    BY <1>6
  <2>2. \A b \in Inodes : uino[b].file = None => uino'[b].file \in {None, lino'[b]}
    BY <1>6 DEF Hatches
  <2>3. uino'[ARoot] = uino[ARoot]
    BY <1>1, <1>2, <1>6, Known
  <2>4. ld[d].ino = None
    BY DEF Hatches
  <2>5. ld'[d].ino # ARoot /\ (ld'[d].ino # None => lino'[ld'[d].ino] # None)
    BY <1>2, <1>4 DEF Hatches
  <2>6. /\ ud[u].ino = None /\ UNCHANGED <<mounted, proc>>
        /\ lino' \in [Inodes -> Files \cup {None, ARoot}] /\ lino'[ARoot] = ARoot
        /\ \A b \in LInodes : lino'[b] # ARoot /\ (lino[b] # None => lino'[b] = lino[b])
        /\ NewFile
    BY DEF Hatches
  <2> QED BY <1>2, <1>4, <1>6, <1>7, <1>8, <2>1, <2>2, <2>3, <2>4, <2>5, <2>6 DEF Grows
<1>10. ASSUME NEW x \in Objects PROVE Surplus(x)' = Surplus(x)
  <2>1. SumsAt(x) /\ In(x, {a}) \in Int /\ refs[x] \in Int
    BY Sums, InType DEF SumsAt
  <2>2. refs'[x] = (refs[x] + In(x, {a})) + (Inos(uino', x) - Inos(uino, x))
    BY <1>3, <1>6
  <2>3. Entries(ld', x) = Entries(ld, x) + In(x, {a})
    <3>1. Loses(ld', ld, d, a)
      BY <1>1, <1>4, Known DEF Loses, Hatches
    <3> QED BY <1>2, <3>1, EntriesGive
  <2>4. Ups(ud', x) = Ups(ud, x)
    <3>1. \A v \in Uppers : ud'[v].low = ud[v].low
      BY <1>7 DEF Hatches
    <3> QED BY <3>1, UpsSame
  <2>5. /\ Paths(proc', x) = Paths(proc, x) /\ Opens(proc', x) = Opens(proc, x)
        /\ Follows(proc', x) = Follows(proc, x) /\ Supers(mounted', x) = Supers(mounted, x)
    BY DEF Hatches
  <2> QED BY <2>1, <2>2, <2>3, <2>4, <2>5 DEF SumsAt
<1> QED BY <1>2, <1>9, <1>10 DEF Balanced

LEMMA MakeHatches ==
    ASSUME RefInv, NEW u \in UDentries, NEW k \in Kinds, Make(u, k, refs, TRUE)
    PROVE  \E a \in LInodes, f \in Files, m \in Modes :
              Hatches(u, ud[u].low, a, f) /\ VfsMake(ud[u].low, a, f, k, m)
<1> DEFINE d == ud[u].low
<1>1. PICK a \in LInodes, f \in Files, m \in Modes :
          VfsMake(d, a, f, k, m) /\ Interpose(Get(refs, {a}), a, f, u, ud[u], FALSE)
  BY DEF Make
<1>2. Sound /\ StackTypes /\ ud[u].hashed /\ ud[u].ino = None /\ UNCHANGED <<mounted, proc>>
      /\ disk \in [Names -> Files \cup {None}] /\ attr \in [Files -> FileAttr]
      /\ lino \in [Inodes -> Files \cup {None, ARoot}] /\ lino[ARoot] = ARoot
  BY DEF RefInv, Sound, StackTypes, Make, Found, Negative, RootOK
<1>3. /\ ld[d].ino = None /\ lino[a] = None
      /\ disk' = [disk EXCEPT ![ld[d].name] = f]
      /\ attr' = [attr EXCEPT ![f] = [nlink |-> 1, mode |-> m, kind |-> k]]
      /\ lino' = [lino EXCEPT ![a] = f] /\ ld' = [ld EXCEPT ![d].ino = a]
  BY <1>1 DEF VfsMake
<1>4. disk' \in [Names -> Files \cup {None}]
  BY <1>2, <1>3
<1>5. attr' \in [Files -> FileAttr]
  <2>1. [nlink |-> 1, mode |-> m, kind |-> k] \in FileAttr
    BY DEF FileAttr
  <2> QED BY <1>2, <1>3, <2>1
<1>6. /\ a # ARoot /\ f # ARoot /\ a \in Inodes /\ ARoot \in Inodes
      /\ \A b \in LInodes : b \in Inodes /\ lino[b] # ARoot
  BY <1>2, ObjectsApart, Known DEF Sound, LowerOK
<1>7. /\ lino' \in [Inodes -> Files \cup {None, ARoot}] /\ lino'[ARoot] = ARoot
      /\ \A b \in LInodes : lino'[b] # ARoot /\ (lino[b] # None => lino'[b] = lino[b])
      /\ lino'[a] = f
  BY <1>2, <1>3, <1>6
<1>9. NewFile
  <2>1. \A b \in LInodes : lino[b] # f
    BY <1>1 DEF VfsMake
  <2>2. \A b \in LInodes : lino'[b] = IF b = a THEN f ELSE lino[b]
    BY <1>2, <1>3, <1>6
  <2> QED BY <2>1, <2>2 DEF NewFile
<1>8. Hatches(u, d, a, f)
  BY <1>1, <1>2, <1>3, <1>4, <1>5, <1>7, <1>9 DEF Hatches
<1> QED BY <1>1, <1>8

LEMMA MakeGrows ==
    ASSUME RefInv, NEW u \in UDentries, NEW k \in Kinds, Make(u, k, refs, TRUE)
    PROVE  \E d \in LDentries : Grows(u, d) /\ Balanced
<1>1. \E a \in LInodes, f \in Files : Hatches(u, ud[u].low, a, f)
  BY MakeHatches
<1> QED BY <1>1, HatchesGrows

\* before 3.6 the path is taken and put
LEMMA CreateMakes ==
    ASSUME RefInv, Before36, NEW u, NEW ok, Create(u, ok)
    PROVE  Make(u, "file", refs, ok)
BY GetPut DEF RefInv, Sound, StackTypes, Create

LEMMA MakeAnyMakes ==
    ASSUME RefInv, Before36, NEW u \in UDentries, MakeAny(u, TRUE)
    PROVE  \E k \in Kinds : Make(u, k, refs, TRUE)
BY CreateMakes DEF MakeAny, Mknod, Mkdir, Symlink

LEMMA LinkHatches ==
    ASSUME RefInv, NEW u \in UDentries, NEW v \in UDentries, Link(u, v, TRUE)
    PROVE  LET a == ud[u].ino IN
           /\ a \in LInodes /\ lino[a] \in Files /\ Hatches(v, ud[v].low, a, lino[a])
           /\ uino[a].file # None /\ lino' = lino
           /\ attr' = [attr EXCEPT ![lino[a]].nlink = @ + 1]
           /\ disk' = [disk EXCEPT ![ld[ud[v].low].name] = lino[a]]
<1> DEFINE d == ud[v].low
           a == ud[u].ino
           f == lino[a]
<1>1. Sound /\ StackTypes /\ ud[u].hashed /\ ~Negative(u)
      /\ ud[v].hashed /\ ud[v].ino = None /\ UNCHANGED <<mounted, proc>>
      /\ disk \in [Names -> Files \cup {None}] /\ attr \in [Files -> FileAttr]
      /\ lino \in [Inodes -> Files \cup {None, ARoot}] /\ lino[ARoot] = ARoot
  BY DEF RefInv, Sound, StackTypes, Link, Found, Negative, RootOK
<1>2. ld[ud[u].low].ino = a /\ a \in LInodes /\ a # None /\ f \in Files
  BY <1>1, FoundFile
<1>3. /\ ld[d].ino = None /\ lino' = lino
      /\ disk' = [disk EXCEPT ![ld[d].name] = f]
      /\ attr' = [attr EXCEPT ![f].nlink = @ + 1]
      /\ ld' = [ld EXCEPT ![d].ino = a]
      /\ Interpose(Get(refs, {a}), a, f, v, ud[v], FALSE)
  BY <1>2 DEF Link
<1>4. disk' \in [Names -> Files \cup {None}]
  BY <1>1, <1>2, <1>3
<1>5. attr' \in [Files -> FileAttr]
  <2>1. \A x \in Files : attr[x] \in FileAttr /\ [attr[x] EXCEPT !.nlink = @ + 1] \in FileAttr
    BY <1>1 DEF FileAttr
  <2> HIDE DEF f
  <2> QED BY <1>1, <1>3, <2>1
<1>6. \A b \in LInodes : lino[b] # ARoot
  BY <1>1 DEF Sound, LowerOK
<1>9. NewFile
  BY <1>3 DEF NewFile
<1>7. Hatches(v, d, a, f)
  BY <1>1, <1>3, <1>4, <1>5, <1>6, <1>9 DEF Hatches
<1>8. uino[a].file # None
  BY <1>1, <1>2 DEF Sound, UpperOK, Shown
<1> QED BY <1>2, <1>3, <1>7, <1>8

LEMMA LinkGrows ==
    ASSUME RefInv, NEW u \in UDentries, NEW v \in UDentries, Link(u, v, TRUE)
    PROVE  \E d \in LDentries : Grows(v, d) /\ Balanced
<1>1. \E a \in LInodes, f \in Files : Hatches(v, ud[v].low, a, f)
  BY LinkHatches
<1> QED BY <1>1, HatchesGrows
-----------------------------------------------------------------------------
(***************************************************************************)
(* What a step is, where iget5_locked() and the allocations of a mount do  *)
(* not fail.                                                               *)
(***************************************************************************)
LEMMA Interposing == ASSUME Fails = {} PROVE Interposes = {TRUE}
BY DEF Interposes

Leaking == (\E u \in StatfsOn : Statfs(u)) \/ \E p \in Procs : OpenFailed(p)

LEMMA DirectorySteps ==
    ASSUME RefInv, Fails = {}, Before36, DirectoryNext
    PROVE  Sound' /\ Balanced
<1>1. ASSUME NEW n \in Names, NEW d \in LDentries, LookupNoMemory(n, d) PROVE Sound' /\ Balanced
  BY <1>1, LookupNoMemoryGrows, GrowsStep DEF Uppers
<1>2. ASSUME NEW n \in Names, NEW d \in LDentries, NEW u \in UDentries, Lookup(u, n, d, TRUE)
      PROVE  Sound' /\ Balanced
  BY <1>2, LookupGrows, GrowsStep DEF Uppers
<1>3. ASSUME InterposeEnd PROVE Sound' /\ Balanced
  BY <1>3, InterposeEndStep
<1>4. ASSUME NEW u \in UDentries, MakeAny(u, TRUE) PROVE Sound' /\ Balanced
  <2>1. \E d \in LDentries : Grows(u, d) /\ Balanced
    BY <1>4, MakeAnyMakes, MakeGrows
  <2> QED BY <2>1, GrowsStep DEF Uppers
<1>5. ASSUME NEW u \in UDentries, NEW v \in UDentries, Link(u, v, TRUE) PROVE Sound' /\ Balanced
  <2>1. \E d \in LDentries : Grows(v, d) /\ Balanced
    BY <1>5, LinkGrows
  <2> QED BY <2>1, GrowsStep DEF Uppers
<1>6. ASSUME NEW u \in UDentries, Unlink(u) \/ Rmdir(u) PROVE Sound' /\ Balanced
  BY <1>6, UnlinkStep, RmdirMild, MildStep
<1>7. ASSUME NEW u \in UDentries, NEW v \in UDentries, Rename(u, v) PROVE Sound' /\ Balanced
  BY <1>7, RenameMild, MildStep
<1>8. ASSUME NEW u \in UDentries, NEW valid \in BOOLEAN, Revalidate(u, valid)
      PROVE  Sound' /\ Balanced
  BY <1>8, RevalidateStep
<1>9. Interposes = {TRUE}
  BY Interposing
<1> QED BY <1>1, <1>2, <1>3, <1>4, <1>5, <1>6, <1>7, <1>8, <1>9 DEF DirectoryNext

LEMMA FileSteps ==
    ASSUME RefInv, Before36, FileNext
    PROVE  Sound' /\ (Balanced \/ Leaking)
<1>1. ASSUME NEW u \in StatfsOn, Statfs(u) PROVE Sound' /\ Leaking
  BY <1>1, StatfsStep DEF Leaking
<1>2. ASSUME NEW p \in Procs, NEW u \in UDentries, Walk(p, u) PROVE Sound' /\ Balanced
  BY <1>2, WalkStep
<1>3. ASSUME NEW p \in Procs, NEW set \in BOOLEAN, Xattr(p, set) PROVE Sound' /\ Balanced
  BY <1>3, XattrMild, MildStep
<1>4. ASSUME NEW p \in Procs, NEW m \in Modes, Setattr(p, m) PROVE Sound' /\ Balanced
  BY <1>4, SetattrMild, MildStep
<1>5. ASSUME NEW p \in Procs, WalkEnd(p) \/ OpenStart(p) \/ FollowLink(p) PROVE Sound' /\ Balanced
  BY <1>5, WalkEndStep, OpenStartStep, FollowLinkStep
<1>6. ASSUME NEW p \in Procs, OpenRefused(p) \/ OpenDone(p) \/ Release(p) \/ PutLink(p)
      PROVE  Sound' /\ Balanced
  BY <1>6, OpenRefusedStep, OpenDoneStep, ReleaseStep, PutLinkStep
<1>7. ASSUME NEW p \in Procs, OpenFailed(p) PROVE Sound' /\ Leaking
  BY <1>7, OpenFailedStep DEF Leaking
<1> QED BY <1>1, <1>2, <1>3, <1>4, <1>5, <1>6, <1>7 DEF FileNext

LEMMA OtherSteps ==
    ASSUME RefInv, Fails = {},
           CacheNext \/ Mount \/ Unmount \/ \E why \in {"path"} \cup Fails : MountFailed(why)
    PROVE  Sound' /\ Balanced
<1>1. ASSUME CacheNext PROVE Sound' /\ Balanced
  <2>1. ASSUME NEW u \in UDentries, DRelease(u) PROVE Sound' /\ Balanced
    BY <2>1, DReleaseDrops, DropsStep
  <2>2. ASSUME NEW a \in LInodes, Evict(a) \/ LowerForget(a) PROVE Sound' /\ Balanced
    BY <2>2, EvictStep, LowerForgetStep
  <2>3. ASSUME NEW d \in LDentries, LowerPrune(d) PROVE Sound' /\ Balanced
    BY <2>3, LowerPruneStep
  <2> QED BY <1>1, <2>1, <2>2, <2>3 DEF CacheNext
<1>2. ASSUME Mount \/ Unmount \/ MountFailed("path") PROVE Sound' /\ Balanced
  BY <1>2, MountStep, UnmountStep, MountFailedStep
<1> QED BY <1>1, <1>2

LEMMA AllSteps ==
    ASSUME RefInv, Fails = {}, Before36, [StackNext]_stackVars
    PROVE  Sound' /\ (Balanced \/ Leaking)
<1>1. CASE UNCHANGED stackVars
  BY <1>1, StutterStep
<1>2. CASE DirectoryNext
  BY <1>2, DirectorySteps
<1>3. CASE FileNext
  BY <1>3, FileSteps
<1>4. CASE CacheNext \/ Mount \/ Unmount \/ \E why \in {"path"} \cup Fails : MountFailed(why)
  BY <1>4, OtherSteps
<1> QED BY <1>1, <1>2, <1>3, <1>4 DEF StackNext

\* a leak only adds to a surplus
LEMMA LeaksAdd ==
    ASSUME RefInv, Before36, Leaking, NEW x \in Objects
    PROVE  Surplus(x)' >= Surplus(x)
<1>0. Surplus(x) \in Int
  BY SurplusInt DEF RefInv, Sound
<1>1. ASSUME NEW u \in StatfsOn, Statfs(u) PROVE Surplus(x)' >= Surplus(x)
  <2>1. Surplus(x)' = Surplus(x) + In(x, {ud[u].low}) /\ In(x, {ud[u].low}) \in 0 .. 1
    BY <1>1, StatfsStep, InType
  <2> QED BY <1>0, <2>1
<1>2. ASSUME NEW p \in Procs, OpenFailed(p) PROVE Surplus(x)' >= Surplus(x)
  <2>1. Surplus(x)' = Surplus(x) + In(x, {"fi"}) /\ In(x, {"fi"}) \in 0 .. 1
    BY <1>2, OpenFailedStep, InType
  <2> QED BY <1>0, <2>1
<1> QED BY <1>1, <1>2 DEF Leaking

LEMMA RefInvStep ==
    ASSUME RefInv, Fails = {}, Before36, [StackNext]_stackVars
    PROVE  RefInv'
<1>1. Sound' /\ (Balanced \/ Leaking)
  BY AllSteps
<1>2. ASSUME NEW x \in Objects PROVE Surplus(x)' >= 0
  <2>1. Surplus(x) \in Int /\ Surplus(x) >= 0
    BY SurplusInt DEF RefInv, Sound, HeldWhileUsed
  <2>5. Surplus(x)' \in Int
    <3>1. refs'[x] \in Int /\ Users(x)' \in Int
      BY <1>1, UsersAre, PartNats DEF Sound, StackTypes, AllUsers
    <3> QED BY <3>1 DEF Surplus
  <2>2. Surplus(x)' = Surplus(x) \/ Surplus(x)' >= Surplus(x)
    BY <1>1, LeaksAdd DEF Balanced
  <2> QED BY <2>1, <2>2, <2>5
<1> QED BY <1>1, <1>2 DEF RefInv, HeldWhileUsed

LEMMA StackInitTypes == ASSUME StackInit PROVE StackTypes
<1>1. NoUpper \in UpperEntry /\ NoInode \in UpperInode /\ Idle \in Process
  BY RootedType, IdleFits
<1>2. NoLower \in LowerEntry /\ [NoLower EXCEPT !.ino = ARoot] \in LowerEntry
  BY DEF NoLower, LowerEntry, Inodes
<1> DEFINE A == [nlink |-> 0, mode |-> None, kind |-> None]
<1>3. A \in FileAttr
  BY DEF FileAttr
<1>4. attr \in [Files -> FileAttr] /\ disk \in [Names -> Files \cup {None}]
  <2>1. attr = [f \in Files |-> A] /\ disk = [n \in Names |-> None]
    BY DEF StackInit
  <2> HIDE DEF A
  <2> QED BY <1>3, <2>1
<1>5. ld \in [Lowers -> LowerEntry]
  BY <1>2 DEF StackInit
<1>6. ud \in [Uppers -> UpperEntry] /\ uino \in [Inodes -> UpperInode] /\ proc \in [Procs -> Process]
  BY <1>1 DEF StackInit
<1>7. lino \in [Inodes -> Files \cup {None, ARoot}] /\ refs \in [Objects -> Int]
      /\ mounted \in BOOLEAN /\ fresh \in UDentries \cup {None}
  <2>1. /\ lino = [a \in Inodes |-> IF a = ARoot THEN ARoot ELSE None]
        /\ refs = [x \in Objects |-> 0] /\ mounted = FALSE /\ fresh = None
    BY DEF StackInit
  <2>2. lino \in [Inodes -> Files \cup {None, ARoot}]
    BY <2>1
  <2>3. refs \in [Objects -> Int]
    BY <2>1
  <2> QED BY <2>1, <2>2, <2>3
<1> QED BY <1>4, <1>5, <1>6, <1>7 DEF StackTypes

LEMMA StackInitRef == ASSUME StackInit PROVE RefInv
<1>1. StackTypes
  BY StackInitTypes
<1>2. /\ \A u \in Uppers : ud[u] = NoUpper /\ ud[u].low = None /\ ud[u].ino = None
                           /\ ud[u].hashed = FALSE
      /\ \A a \in Inodes : uino[a].file = None
      /\ \A p \in Procs : proc[p] = Idle /\ proc[p].low = None /\ proc[p].pc = "idle"
      /\ \A d \in LDentries : ld[d].ino = None
      /\ ld[LRoot].ino = ARoot /\ lino[ARoot] = ARoot
      /\ \A a \in LInodes : lino[a] = None
      /\ ARoot # None /\ LRoot # None
  <2>1. \A u \in Uppers : ud[u] = NoUpper
    BY DEF StackInit
  <2>2. \A a \in Inodes : uino[a] = NoInode
    BY DEF StackInit
  <2>3. \A p \in Procs : proc[p] = Idle
    BY DEF StackInit
  <2>4. ld[LRoot].ino = ARoot /\ \A d \in LDentries : ld[d].ino = None
    BY StackAssumption DEF StackInit, NoLower, Lowers
  <2>5. lino[ARoot] = ARoot /\ \A a \in LInodes : lino[a] = None
    BY StackAssumption DEF StackInit, Inodes
  <2> QED BY <2>1, <2>2, <2>3, <2>4, <2>5, RootedType, IdleFits
<1>3. Sound
  <2>0. mounted = FALSE /\ fresh = None /\ URoot \in Uppers /\ ARoot \in Inodes
        /\ (\A u \in UDentries : u \in Uppers) /\ \A a \in LInodes : a \in Inodes
    BY DEF StackInit, Uppers, Inodes
  <2>1. RootOK
    BY <1>2, <2>0 DEF RootOK, Shown
  <2>2. LowerOK
    BY <1>2, <2>0 DEF LowerOK, Shown
  <2>3. UpperOK
    BY <1>2, <2>0 DEF UpperOK
  <2>4. ProcOK /\ FreshOK
    BY <1>2, <2>0, IdleFits DEF ProcOK, FreshOK
  <2> QED BY <1>1, <2>1, <2>2, <2>3, <2>4 DEF Sound
<1>4. ASSUME NEW x \in Objects PROVE Surplus(x) = 0
  <2>1. Ups(ud, x) = 0
    <3>1. /\ x \in Lowers => {u \in Uppers : ud[u].low = x} = {}
          /\ {u \in Uppers : ud[u].low # None} = {}
      BY <1>2, Distinct
    <3> QED BY <3>1, FS_EmptySet DEF Ups
  <2>2. Paths(proc, x) = 0
    <3>1. /\ x \in Lowers => {p \in Procs : proc[p].low = x} = {}
          /\ {p \in Procs : proc[p].low # None} = {}
      BY <1>2, Distinct
    <3> QED BY <3>1, FS_EmptySet DEF Paths
  <2>3. Opens(proc, x) = 0 /\ Follows(proc, x) = 0
    <3>1. {p \in Procs : proc[p].pc = "open"} = {} /\ {p \in Procs : proc[p].pc = "following"} = {}
      BY <1>2
    <3> QED BY <3>1, FS_EmptySet DEF Opens, Follows
  <2>4. Entries(ld, x) = 0
    <3>1. x \in Inodes => {d \in LDentries : ld[d].ino = x} = {}
      BY <1>2, Distinct
    <3> QED BY <3>1, FS_EmptySet DEF Entries
  <2>5. Inos(uino, x) = 0
    <3>1. {a \in Inodes : uino[a].file # None} = {}
      BY <1>2
    <3> QED BY <1>2, <3>1, FS_EmptySet DEF Inos
  <2>6. Supers(mounted, x) = 0 /\ refs[x] = 0
    BY DEF StackInit, Supers
  <2>7. Users(x) = 0
    BY <2>1, <2>2, <2>3, <2>4, <2>5, <2>6, UsersAre DEF AllUsers
  <2> QED BY <2>6, <2>7 DEF Surplus
<1> QED BY <1>3, <1>4 DEF RefInv, HeldWhileUsed

LEMMA RefInvHolds == ASSUME Fails = {}, Before36 PROVE StackSpec => []RefInv
<1>1. StackInit => RefInv
  BY StackInitRef
<1>2. RefInv /\ [StackNext]_stackVars => RefInv'
  BY RefInvStep
<1> QED BY <1>1, <1>2, PTL DEF StackSpec

(***************************************************************************)
(* No lower dentry, inode or mount and no private structure is given up    *)
(* while somebody will still give it back, however lookups, opens, links,  *)
(* deletions, revalidations, evictions, mounts and the pruning of the      *)
(* lower caches interleave: before 3.6, where dentry_open() puts the path, *)
(* and where iget5_locked() does not fail.                                 *)
(***************************************************************************)
THEOREM CountsCoverUsers == Fails = {} /\ Before36 => (StackSpec => []HeldWhileUsed)
<1>1. RefInv => HeldWhileUsed
  BY DEF RefInv
<1> SUFFICES ASSUME Fails = {}, Before36 PROVE StackSpec => []HeldWhileUsed
  OBVIOUS
<1> QED BY <1>1, RefInvHolds, PTL

(***************************************************************************)
(* Nothing else leaks than the dentry of dazukofs_statfs() and the         *)
(* file_info of a failed dazukofs_open(): every other step gives back what *)
(* it stops using and takes what it starts to use, to the last reference.  *)
(***************************************************************************)
THEOREM TwoLeaksOnly == Fails = {} /\ Before36 => (StackSpec => OnlyKnownLeaks)
<1> SUFFICES ASSUME Fails = {}, Before36 PROVE StackSpec => OnlyKnownLeaks
  OBVIOUS
<1>1. RefInv /\ [StackNext]_stackVars
        => [\/ \A x \in Objects : Surplus(x)' = Surplus(x)
            \/ \E u \in StatfsOn : Statfs(u)
            \/ \E p \in Procs : OpenFailed(p)]_stackVars
  BY AllSteps DEF Balanced, Leaking
<1> QED BY <1>1, RefInvHolds, PTL DEF StackSpec, OnlyKnownLeaks
-----------------------------------------------------------------------------
(***************************************************************************)
(* One file for an upper inode, and one lower inode for what is held.      *)
(***************************************************************************)
Sames == lino' = lino /\ \A b \in Inodes : uino'[b].file = uino[b].file

Stays ==
    /\ \A p \in Procs : proc'[p].u \in {proc[p].u, None}
    /\ \A u \in UDentries : Holders(u) # {} =>
          /\ ud'[u].low = ud[u].low /\ ud'[u].ino = ud[u].ino
          /\ ld'[ud[u].low].ino = ld[ud[u].low].ino

LEMMA SamesKeep == ASSUME FileInv, Sames PROVE FileInv'
BY DEF FileInv, Sames, Shown

LEMMA StaysKeep == ASSUME RefInv, HeldInv, Stays PROVE HeldInv'
<1> SUFFICES ASSUME NEW p \in Procs, proc'[p].u # None
             PROVE  ld'[ud'[proc'[p].u].low].ino = ud'[proc'[p].u].ino
  BY DEF HeldInv
<1>1. proc'[p].u = proc[p].u /\ proc[p].u # None
  BY DEF Stays
<1>2. proc[p].u \in UDentries
  BY <1>1 DEF RefInv, Sound, StackTypes, Process
<1>3. Holders(proc[p].u) # {}
  BY DEF Holders
<1>4. ld[ud[proc[p].u].low].ino = ud[proc[p].u].ino
  BY <1>1 DEF HeldInv
<1> QED BY <1>1, <1>2, <1>3, <1>4 DEF Stays

LEMMA MildSame == ASSUME RefInv, Mild PROVE Sames /\ Stays
<1>1. Sames
  BY DEF Mild, Tame, Sames
<1>2. \A p \in Procs : proc'[p].u \in {proc[p].u, None}
  BY DEF Mild
<1>3. ASSUME NEW u \in UDentries, Holders(u) # {}
      PROVE  /\ ud'[u].low = ud[u].low /\ ud'[u].ino = ud[u].ino
             /\ ld'[ud[u].low].ino = ld[ud[u].low].ino
  <2>1. PICK p \in Procs : proc[p].u = u
    BY <1>3 DEF Holders
  <2>2. proc[p].pc # "idle"
    BY <2>1, Known DEF RefInv, Sound, ProcOK, Fits, Idle
  <2>3. ud[u].low \in Lowers
    BY <2>1, <2>2, Known DEF RefInv, Sound
  <2>4. u \in Uppers
    BY DEF Uppers
  <2> QED BY <1>3, <2>3, <2>4 DEF Mild, Tame
<1> QED BY <1>1, <1>2, <1>3 DEF Stays

\* somebody's upper dentry is not negative, and its lower one is there
LEMMA HeldIs ==
    ASSUME RefInv, NEW u \in UDentries, Holders(u) # {}
    PROVE  /\ u \in Uppers /\ ud[u].ino \in LInodes /\ ud[u].ino # None
           /\ ud[u].low \in LDentries /\ ud[u].low \in Lowers /\ ud[u].low # None
<1>1. PICK p \in Procs : proc[p].u = u
  BY DEF Holders
<1>2. proc[p].pc # "idle"
  BY <1>1, Known DEF RefInv, Sound, ProcOK, Fits, Idle
<1>3. Sound
  BY DEF RefInv
<1>4. ud[u].ino \in LInodes /\ ud[u].low \in LDentries
  BY <1>1, <1>2, <1>3, Known
<1> QED BY <1>3, <1>4, Known

LEMMA DropsSame ==
    ASSUME RefInv, NEW u \in UDentries, Drops(u) PROVE Sames /\ Stays
<1>1. Sames
  BY DEF Drops, Sames
<1>2. \A p \in Procs : proc'[p].u \in {proc[p].u, None}
  BY DEF Drops
<1>3. ASSUME NEW v \in UDentries, Holders(v) # {}
      PROVE  /\ ud'[v].low = ud[v].low /\ ud'[v].ino = ud[v].ino
             /\ ld'[ud[v].low].ino = ld[ud[v].low].ino
  <2>1. v # u
    BY <1>3 DEF Drops
  <2>2. v \in Uppers /\ ud[v].low \in Lowers
    BY <1>3, HeldIs
  <2>3. ud' = [ud EXCEPT ![u] = NoUpper] /\ ud \in [Uppers -> UpperEntry]
    BY DEF Drops, RefInv, Sound, StackTypes
  <2>4. ud'[v] = ud[v]
    BY <2>1, <2>2, <2>3
  <2> QED BY <2>2, <2>4 DEF Drops
<1> QED BY <1>1, <1>2, <1>3 DEF Stays

\* a dentry in use below is not turned negative
LEMMA UnlinkSame ==
    ASSUME RefInv, ~Races, NEW u \in UDentries, Unlink(u) PROVE Sames /\ Stays
<1>1. CASE refs[ud[u].low] # 1
  BY <1>1, UnlinkStep, MildSame
<1>2. CASE refs[ud[u].low] = 1
  <2>0. Sound /\ ud[u].hashed /\ ~Negative(u) /\ UNCHANGED <<lino, proc>> /\ Tame
        /\ u \in Uppers
    BY UnlinkUpper DEF Uppers
  <2>1. Sames
    BY <2>0 DEF Tame, Sames
  <2>2. \A p \in Procs : proc'[p].u \in {proc[p].u, None}
    BY <2>0
  <2>3. ud[u].low \in Lowers
    BY <2>0, FoundFile
  <2>4. ASSUME NEW v \in UDentries, Holders(v) # {}
        PROVE  /\ ud'[v].low = ud[v].low /\ ud'[v].ino = ud[v].ino
               /\ ld'[ud[v].low].ino = ld[ud[v].low].ino
    <3>1. v \in Uppers /\ ud[v].low \in LDentries
      BY <2>4, HeldIs
    <3>2. ud'[v].low = ud[v].low /\ ud'[v].ino = ud[v].ino
      BY <2>0, <2>4, <3>1 DEF Tame
    <3>3. ud[v].low # ud[u].low
      <4>1. SUFFICES ASSUME ud[v].low = ud[u].low PROVE FALSE
        OBVIOUS
      <4>2. v = u /\ \A p \in Procs : proc[p].low # ud[u].low
        BY <1>2, <2>0, <2>3, <3>1, <4>1, OneHolder
      <4>3. PICK p \in Procs : proc[p].u = u
        BY <2>4, <4>2 DEF Holders
      <4>4. proc[p].low # None
        BY <4>3 DEF Unlink, Holders
      <4>5. proc[p].low = ud[u].low
        BY <2>0, <4>3, <4>4 DEF Sound, ProcOK, Fits
      <4> QED BY <4>2, <4>5
    <3>4. ld'[ud[v].low] = ld[ud[v].low]
      BY <1>2, <3>1, <3>3, UnlinkStep
    <3> QED BY <3>2, <3>4
  <2> QED BY <2>1, <2>2, <2>4 DEF Stays
<1> QED BY <1>1, <1>2

LEMMA GrowsSame ==
    ASSUME RefInv, FileInv, HeldInv, NEW u \in Uppers, NEW d \in LDentries, Grows(u, d)
    PROVE  FileInv' /\ Stays
<1>0. Sound /\ \A b \in LInodes : b \in Inodes /\ b # ARoot
  BY Known DEF RefInv, Sound
<1>1. ASSUME NEW a \in Inodes, uino'[a].file # None PROVE lino'[a] = uino'[a].file
  <2>1. CASE uino[a].file = None
    BY <1>1, <2>1 DEF Grows
  <2>2. CASE uino[a].file # None
    <3>1. uino'[a] = uino[a] /\ lino[a] = uino[a].file
      BY <2>2 DEF Grows, FileInv, Shown
    <3>2. CASE a = ARoot
      BY <1>0, <3>1, <3>2 DEF Grows, Sound, RootOK
    <3>3. CASE a # ARoot
      <4>1. a \in LInodes
        BY <3>3 DEF Inodes
      <4> QED BY <2>2, <3>1, <4>1 DEF Grows
    <3> QED BY <3>2, <3>3
  <2> QED BY <2>1, <2>2
<1>2. ASSUME NEW a \in LInodes, NEW b \in LInodes, lino'[a] # None, lino'[a] = lino'[b]
      PROVE  a = b
  <2>1. CASE lino[a] = None \/ lino[b] = None
    BY <1>2, <2>1 DEF Grows, NewFile
  <2>2. CASE lino[a] # None /\ lino[b] # None
    <3>1. lino'[a] = lino[a] /\ lino'[b] = lino[b]
      BY <2>2 DEF Grows
    <3> QED BY <1>2, <2>2, <3>1 DEF FileInv
  <2> QED BY <2>1, <2>2
<1>3. FileInv'
  BY <1>1, <1>2 DEF FileInv, Shown
<1>4. ASSUME NEW v \in UDentries, Holders(v) # {}
      PROVE  /\ ud'[v].low = ud[v].low /\ ud'[v].ino = ud[v].ino
             /\ ld'[ud[v].low].ino = ld[ud[v].low].ino
  <2>1. v \in Uppers /\ ud[v].ino # None /\ ud[v].low \in Lowers
    BY <1>4, HeldIs
  <2>2. ud'[v] = ud[v]
    BY <2>1 DEF Grows
  <2>3. CASE ud[v].low # d
    BY <2>1, <2>2, <2>3 DEF Grows
  <2>4. CASE ud[v].low = d
    <3>1. PICK p \in Procs : proc[p].u = v
      BY <1>4 DEF Holders
    <3>2. ld[d].ino = ud[v].ino
      BY <2>4, <3>1, Known DEF HeldInv, RefInv
    <3> QED BY <2>1, <2>2, <2>4, <3>2 DEF Grows
  <2> QED BY <2>3, <2>4
<1>5. \A p \in Procs : proc'[p].u \in {proc[p].u, None}
  BY DEF Grows
<1> QED BY <1>3, <1>4, <1>5 DEF Stays

LEMMA ProcSame ==
    ASSUME UNCHANGED <<lowerVars, ud, uino>>,
           \A p \in Procs : proc'[p].u \in {proc[p].u, None}
    PROVE  Sames /\ Stays
BY DEF Sames, Stays, lowerVars

LEMMA FileSame ==
    ASSUME RefInv, FileInv, HeldInv, FileNext
    PROVE  FileInv' /\ HeldInv'
<1>0. Sound /\ proc \in [Procs -> Process] /\ Idle.u = None
  BY DEF RefInv, Sound, StackTypes, Idle
<1>1. ASSUME NEW u \in StatfsOn, Statfs(u) PROVE Sames /\ Stays
  BY <1>1, ProcSame DEF Statfs
<1>2. ASSUME NEW p \in Procs, NEW u \in UDentries, Walk(p, u) PROVE FileInv' /\ HeldInv'
  <2>1. UNCHANGED <<lowerVars, ud, uino>> /\ ud[u].hashed /\ ~Negative(u)
        /\ proc' = [proc EXCEPT ![p] = [pc |-> "walked", u |-> u, low |-> None]]
    BY <1>2 DEF Walk
  <2>2. ld[ud[u].low].ino = ud[u].ino
    BY <1>0, <2>1, FoundFile
  <2>3. \A q \in Procs : proc'[q].u = IF q = p THEN u ELSE proc[q].u
    BY <1>0, <2>1
  <2>4. HeldInv'
    BY <2>1, <2>2, <2>3 DEF HeldInv, lowerVars
  <2>5. FileInv'
    BY <2>1, SamesKeep DEF Sames, lowerVars
  <2> QED BY <2>4, <2>5
<1>3. ASSUME NEW p \in Procs, NEW set \in BOOLEAN, Xattr(p, set) PROVE Sames /\ Stays
  BY <1>3, XattrMild, MildSame
<1>4. ASSUME NEW p \in Procs, NEW m \in Modes, Setattr(p, m) PROVE Sames /\ Stays
  BY <1>4, SetattrMild, MildSame
<1>5. ASSUME NEW p \in Procs,
             WalkEnd(p) \/ OpenRefused(p) \/ OpenFailed(p) \/ Release(p) \/ PutLink(p)
      PROVE  Sames /\ Stays
  <2>1. UNCHANGED <<lowerVars, ud, uino>> /\ proc' = [proc EXCEPT ![p] = Idle]
    BY <1>5 DEF WalkEnd, OpenRefused, OpenFailed, Release, PutLink
  <2>2. \A q \in Procs : proc'[q].u \in {proc[q].u, None}
    BY <1>0, <2>1
  <2> QED BY <2>1, <2>2, ProcSame
<1>6. ASSUME NEW p \in Procs, OpenStart(p) PROVE Sames /\ Stays
  <2>1. UNCHANGED <<lowerVars, ud, uino>>
        /\ proc' = [proc EXCEPT ![p].pc = "checking", ![p].low = ud[proc[p].u].low]
    BY <1>6 DEF OpenStart
  <2>2. \A q \in Procs : proc'[q].u = proc[q].u
    BY <1>0, <2>1 DEF Process
  <2> QED BY <2>1, <2>2, ProcSame
<1>7. ASSUME NEW p \in Procs, OpenDone(p) PROVE Sames /\ Stays
  <2>1. UNCHANGED <<lowerVars, ud, uino>> /\ proc' = [proc EXCEPT ![p].pc = "open"]
    BY <1>7 DEF OpenDone
  <2>2. \A q \in Procs : proc'[q].u = proc[q].u
    BY <1>0, <2>1 DEF Process
  <2> QED BY <2>1, <2>2, ProcSame
<1>8. ASSUME NEW p \in Procs, FollowLink(p) PROVE Sames /\ Stays
  <2>1. /\ UNCHANGED <<lowerVars, uino>>
        /\ (ud' = ud) \/ (ud' = [ud EXCEPT ![proc[p].u].hashed = FALSE])
        /\ (proc' = proc) \/ (proc' = [proc EXCEPT ![p].pc = "following"])
    BY <1>8 DEF FollowLink
  <2>2. \A q \in Procs : proc'[q].u = proc[q].u
    BY <1>0, <2>1 DEF Process
  <2>3. ud \in [Uppers -> UpperEntry]
    BY DEF RefInv, Sound, StackTypes
  <2>4. \A v \in Uppers : ud'[v].low = ud[v].low /\ ud'[v].ino = ud[v].ino
    <3>1. CASE ud' = ud
      BY <3>1
    <3>2. CASE ud' = [ud EXCEPT ![proc[p].u].hashed = FALSE]
      BY <3>2, <2>3 DEF UpperEntry
    <3> QED BY <2>1, <3>1, <3>2
  <2>5. \A v \in UDentries : ud'[v].low = ud[v].low /\ ud'[v].ino = ud[v].ino
    BY <2>4 DEF Uppers
  <2> QED BY <2>1, <2>2, <2>5 DEF Sames, Stays, lowerVars
<1>9. Sames /\ Stays => FileInv' /\ HeldInv'
  BY SamesKeep, StaysKeep
<1> QED BY <1>1, <1>2, <1>3, <1>4, <1>5, <1>6, <1>7, <1>8, <1>9 DEF FileNext

LEMMA DirectorySame ==
    ASSUME RefInv, FileInv, HeldInv, Fails = {}, Before36, ~Races, DirectoryNext
    PROVE  FileInv' /\ HeldInv'
<1>0. Sames /\ Stays => FileInv' /\ HeldInv'
  BY SamesKeep, StaysKeep
<1>9. Interposes = {TRUE}
  BY Interposing
<1>1. ASSUME NEW n \in Names, NEW d \in LDentries, LookupNoMemory(n, d) PROVE FileInv' /\ HeldInv'
  <2>1. Grows(URoot, d) /\ URoot \in Uppers
    BY <1>1, LookupNoMemoryGrows DEF Uppers
  <2> QED BY <2>1, GrowsSame, StaysKeep
<1>2. ASSUME NEW n \in Names, NEW d \in LDentries, NEW u \in UDentries, Lookup(u, n, d, TRUE)
      PROVE  FileInv' /\ HeldInv'
  <2>1. Grows(u, d) /\ u \in Uppers
    BY <1>2, LookupGrows DEF Uppers
  <2> QED BY <2>1, GrowsSame, StaysKeep
<1>3. ASSUME InterposeEnd PROVE Sames /\ Stays
  <2>1. /\ uino' = Copied(ud[fresh].ino, lino[ud[fresh].ino]) /\ UNCHANGED <<lino, ld, ud, proc>>
        /\ uino \in [Inodes -> UpperInode]
    BY <1>3 DEF InterposeEnd, RefInv, Sound, StackTypes
  <2>2. \A b \in Inodes : uino'[b].file = uino[b].file
    BY <2>1 DEF Copied, UpperInode
  <2> QED BY <2>1, <2>2 DEF Sames, Stays
<1>4. ASSUME NEW u \in UDentries, MakeAny(u, TRUE) PROVE FileInv' /\ HeldInv'
  <2>1. (\E d \in LDentries : Grows(u, d)) /\ u \in Uppers
    BY <1>4, MakeAnyMakes, MakeGrows DEF Uppers
  <2> QED BY <2>1, GrowsSame, StaysKeep
<1>5. ASSUME NEW u \in UDentries, NEW v \in UDentries, Link(u, v, TRUE) PROVE FileInv' /\ HeldInv'
  <2>1. (\E d \in LDentries : Grows(v, d)) /\ v \in Uppers
    BY <1>5, LinkGrows DEF Uppers
  <2> QED BY <2>1, GrowsSame, StaysKeep
<1>6. ASSUME NEW u \in UDentries, Unlink(u) \/ Rmdir(u) PROVE Sames /\ Stays
  BY <1>6, UnlinkSame, RmdirMild, MildSame
<1>7. ASSUME NEW u \in UDentries, NEW v \in UDentries, Rename(u, v) PROVE Sames /\ Stays
  BY <1>7, RenameMild, MildSame
<1>8. ASSUME NEW u \in UDentries, NEW valid \in BOOLEAN, Revalidate(u, valid)
      PROVE  Sames /\ Stays
  <2>1. CASE valid \/ Holders(u) # {}
    BY <1>8, <2>1, RevalidateMild, MildSame
  <2>2. CASE ~valid /\ Holders(u) = {}
    BY <1>8, <2>2, RevalidateDrops, DropsSame
  <2> QED BY <2>1, <2>2
<1> QED BY <1>0, <1>1, <1>2, <1>3, <1>4, <1>5, <1>6, <1>7, <1>8, <1>9 DEF DirectoryNext

LEMMA OtherSame ==
    ASSUME RefInv, FileInv, HeldInv,
           CacheNext \/ Mount \/ Unmount \/ \E why \in {"path"} \cup Fails : MountFailed(why)
    PROVE  FileInv' /\ HeldInv'
<1>0. Sames /\ Stays => FileInv' /\ HeldInv'
  BY SamesKeep, StaysKeep
<1>9. /\ Sound /\ uino \in [Inodes -> UpperInode] /\ ud \in [Uppers -> UpperEntry]
      /\ lino \in [Inodes -> Files \cup {None, ARoot}] /\ ld \in [Lowers -> LowerEntry]
      /\ \A b \in LInodes : b \in Inodes /\ b # ARoot
  BY Known DEF RefInv, Sound, StackTypes
<1>1. ASSUME NEW u \in UDentries, DRelease(u) PROVE Sames /\ Stays
  BY <1>1, DReleaseDrops, DropsSame
<1>2. ASSUME NEW a \in LInodes, Evict(a) PROVE FileInv' /\ HeldInv'
  <2>1. uino' = [uino EXCEPT ![a] = NoInode] /\ UNCHANGED <<lino, ld, ud, proc>>
    BY <1>2 DEF Evict, lowerVars
  <2>2. \A b \in Inodes : uino'[b].file # None => uino'[b] = uino[b]
    BY <1>9, <2>1, RootedType
  <2>3. FileInv'
    BY <2>1, <2>2 DEF FileInv, Shown
  <2>4. HeldInv'
    BY <2>1 DEF HeldInv
  <2> QED BY <2>3, <2>4
<1>3. ASSUME NEW a \in LInodes, LowerForget(a) PROVE FileInv' /\ HeldInv'
  <2>1. lino' = [lino EXCEPT ![a] = None] /\ UNCHANGED <<uino, ld, ud, proc>> /\ refs[a] <= 0
    BY <1>3 DEF LowerForget
  <2>2. uino[a].file = None
    BY <1>9, <2>1, Forgotten DEF Shown
  <2>3. \A b \in Inodes : lino'[b] = IF b = a THEN None ELSE lino[b]
    BY <1>9, <2>1
  <2>4. FileInv'
    BY <1>9, <2>1, <2>2, <2>3 DEF FileInv, Shown
  <2>5. HeldInv'
    BY <2>1 DEF HeldInv
  <2> QED BY <2>4, <2>5
<1>4. ASSUME NEW d \in LDentries, LowerPrune(d) PROVE Sames /\ Stays
  <2>1. ld' = [ld EXCEPT ![d] = NoLower] /\ UNCHANGED <<lino, uino, ud, proc>> /\ refs[d] <= 0
    BY <1>4 DEF LowerPrune
  <2>2. \A u \in Uppers : ud[u].low # d
    BY <1>9, <2>1, Unheld, Known
  <2>3. ASSUME NEW v \in UDentries, Holders(v) # {} PROVE ld'[ud[v].low] = ld[ud[v].low]
    BY <1>9, <2>1, <2>2, <2>3, HeldIs
  <2> QED BY <2>1, <2>3 DEF Sames, Stays
<1>5. ASSUME Mount PROVE FileInv' /\ HeldInv'
  <2>1. /\ uino' = [uino EXCEPT ![ARoot] = NewInode(ARoot)] /\ UNCHANGED <<lino, ld, proc>>
        /\ ud' = [ud EXCEPT ![URoot] = Rooted]
    BY <1>5 DEF Mount, lowerVars, Rooted
  <2>2. \A b \in Inodes : IF b = ARoot THEN uino'[b].file = ARoot ELSE uino'[b] = uino[b]
    BY <1>9, <2>1, RootedType
  <2>3. FileInv'
    BY <1>9, <2>1, <2>2 DEF FileInv, Shown, Sound, RootOK
  <2>4. \A u \in UDentries : ud'[u] = ud[u]
    BY <1>9, <2>1, Known
  <2>5. Stays
    BY <2>1, <2>4 DEF Stays
  <2> QED BY <2>3, <2>5, StaysKeep
<1>6. ASSUME Unmount PROVE FileInv' /\ HeldInv'
  <2>1. /\ uino' = [uino EXCEPT ![ARoot] = NoInode] /\ UNCHANGED <<lino, ld, proc>>
        /\ ud' = [ud EXCEPT ![URoot] = NoUpper]
    BY <1>6 DEF Unmount, lowerVars
  <2>2. \A b \in Inodes : uino'[b].file # None => uino'[b] = uino[b]
    BY <1>9, <2>1, RootedType
  <2>3. FileInv'
    BY <2>1, <2>2 DEF FileInv, Shown
  <2>4. \A u \in UDentries : ud'[u] = ud[u]
    BY <1>9, <2>1, Known
  <2>5. Stays
    BY <2>1, <2>4 DEF Stays
  <2> QED BY <2>3, <2>5, StaysKeep
<1>7. ASSUME NEW why, MountFailed(why) PROVE Sames /\ Stays
  BY <1>7 DEF MountFailed, Sames, Stays, lowerVars
<1> QED BY <1>0, <1>1, <1>2, <1>3, <1>4, <1>5, <1>6, <1>7 DEF CacheNext

SameInv == RefInv /\ FileInv /\ HeldInv

LEMMA SameInvHolds == ASSUME Fails = {}, Before36, ~Races PROVE StackSpec => []SameInv
<1>1. StackInit => SameInv
  <2> SUFFICES ASSUME StackInit PROVE SameInv
    OBVIOUS
  <2>1. /\ \A a \in Inodes : uino[a].file = None /\ (a # ARoot => lino[a] = None)
        /\ \A p \in Procs : proc[p].u = None
    BY DEF StackInit, NoInode, Idle
  <2>2. FileInv
    BY <2>1, StackAssumption DEF FileInv, Shown, Inodes
  <2>3. HeldInv
    BY <2>1 DEF HeldInv
  <2> QED BY <2>2, <2>3, StackInitRef DEF SameInv
<1>2. SameInv /\ [StackNext]_stackVars => SameInv'
  <2> SUFFICES ASSUME SameInv, [StackNext]_stackVars PROVE SameInv'
    OBVIOUS
  <2>1. RefInv'
    BY RefInvStep DEF SameInv
  <2>2. CASE UNCHANGED stackVars
    BY <2>1, <2>2 DEF SameInv, FileInv, HeldInv, Shown, stackVars, lowerVars
  <2>3. CASE DirectoryNext
    BY <2>1, <2>3, DirectorySame DEF SameInv
  <2>4. CASE FileNext
    BY <2>1, <2>4, FileSame DEF SameInv
  <2>5. CASE CacheNext \/ Mount \/ Unmount \/ \E why \in {"path"} \cup Fails : MountFailed(why)
    BY <2>1, <2>5, OtherSame DEF SameInv
  <2> QED BY <2>2, <2>3, <2>4, <2>5 DEF StackNext
<1> QED BY <1>1, <1>2, PTL DEF StackSpec

(***************************************************************************)
(* An upper inode stands for the file it was made for, although addresses  *)
(* are used again, and what is found by name or held leads to the same     *)
(* lower inode by get_lower_dentry() and by get_lower_inode().  This needs *)
(* that no name is removed while a path walk is at it (~Races): a lower    *)
(* dentry that only its upper one holds turns negative.                    *)
(***************************************************************************)
THEOREM BothWaysMeet == Fails = {} /\ Before36 /\ ~Races => (StackSpec => []SameFile)
<1> SUFFICES ASSUME Fails = {}, Before36, ~Races PROVE StackSpec => []SameFile
  OBVIOUS
<1>1. ASSUME SameInv PROVE SameFile
  <2>1. \A a \in Inodes : Shown(a) => lino[a] = uino[a].file
    BY <1>1 DEF SameInv, FileInv
  <2>2. ASSUME NEW u \in Uppers, ~Negative(u), ud[u].hashed \/ Holders(u) # {}
        PROVE  ld[ud[u].low].ino = ud[u].ino
    <3>1. CASE u = URoot
      BY <1>1, <2>2, <3>1, RootedType DEF SameInv, RefInv, Sound, RootOK, Negative, NoUpper
    <3>2. CASE u # URoot /\ ud[u].hashed
      BY <1>1, <2>2, <3>2 DEF SameInv, RefInv, Sound, UpperOK, Negative, Uppers
    <3>3. CASE u # URoot /\ Holders(u) # {}
      <4>1. PICK p \in Procs : proc[p].u = u
        BY <3>3 DEF Holders
      <4> QED BY <1>1, <3>3, <4>1, Distinct DEF SameInv, HeldInv
    <3> QED BY <2>2, <3>1, <3>2, <3>3
  <2> QED BY <2>1, <2>2 DEF SameFile
<1> QED BY <1>1, SameInvHolds, PTL
-----------------------------------------------------------------------------
(***************************************************************************)
(* The copies of the attributes.  A step keeps what the upper inode a      *)
(* says, or makes it say what is true then.                                *)
(***************************************************************************)
Keeps(a) ==
    /\ uino'[a] = uino[a] /\ lino'[a] = lino[a] /\ attr'[lino[a]] = attr[lino[a]]
    /\ fresh # None => ud[fresh].ino # a

Renews(a) ==
    /\ uino'[a].attr.mode = attr'[lino'[a]].mode
    /\ uino'[a].stale \/ uino'[a].attr.nlink = attr'[lino'[a]].nlink

AttrsKeep ==
    \A a \in LInodes : uino'[a].file # None /\ (fresh' # None => ud'[fresh'].ino # a) =>
                          Keeps(a) \/ Renews(a)

LEMMA AttrsKept == ASSUME AttrsAgree, AttrsKeep PROVE AttrsAgree'
<1> SUFFICES ASSUME NEW a \in LInodes, uino'[a].file # None, fresh' # None => ud'[fresh'].ino # a
             PROVE  Renews(a)
  BY DEF AttrsAgree, Shown, Renews
<1>1. CASE Keeps(a)
  BY <1>1 DEF Keeps, AttrsAgree, Shown, Renews
<1> QED BY <1>1 DEF AttrsKeep

\* neither the attributes nor the upper inodes change
LEMMA AttrsFrame ==
    ASSUME UNCHANGED <<attr, lino, uino, fresh>>,
           fresh # None => ud'[fresh].ino = ud[fresh].ino
    PROVE  AttrsKeep
BY DEF AttrsKeep, Keeps

LEMMA CopiedIs ==
    ASSUME StackTypes, NEW a \in Inodes, NEW f
    PROVE  /\ Copied(a, f)[a].attr.mode = attr'[f].mode
           /\ Copied(a, f)[a].attr.nlink = attr'[f].nlink
           /\ \A b \in Inodes \ {a} : Copied(a, f)[b] = uino[b]
<1>1. uino \in [Inodes -> UpperInode] /\ uino[a] \in UpperInode
  BY DEF StackTypes
<1>2. Copied(a, f)[a] = [uino[a] EXCEPT !.attr = [nlink |-> attr'[f].nlink, mode |-> attr'[f].mode],
                                        !.stale = FALSE]
  BY <1>1 DEF Copied
<1>3. Copied(a, f)[a].attr = [nlink |-> attr'[f].nlink, mode |-> attr'[f].mode]
  BY <1>1, <1>2 DEF UpperInode
<1> QED BY <1>1, <1>3 DEF Copied

LEMMA NlinkIs ==
    ASSUME StackTypes, NEW a \in Inodes
    PROVE  /\ NlinkSet(a)[a].attr.mode = uino[a].attr.mode
           /\ NlinkSet(a)[a].attr.nlink = attr'[lino[a]].nlink
           /\ \A b \in Inodes \ {a} : NlinkSet(a)[b] = uino[b]
<1>1. uino \in [Inodes -> UpperInode] /\ uino[a] \in UpperInode
  BY DEF StackTypes
<1>2. uino[a].attr \in [nlink : Int, mode : Modes \cup {None}]
  BY <1>1 DEF UpperInode
<1>3. NlinkSet(a)[a] = [uino[a] EXCEPT !.attr.nlink = attr'[lino[a]].nlink, !.stale = FALSE]
  BY <1>1 DEF NlinkSet
<1>4. NlinkSet(a)[a].attr = [uino[a].attr EXCEPT !.nlink = attr'[lino[a]].nlink]
  BY <1>1, <1>3 DEF UpperInode
<1> QED BY <1>1, <1>2, <1>4 DEF NlinkSet

\* a copy renews one inode; the attributes change at most in its file
LEMMA CopyKeeps ==
    ASSUME RefInv, FileInv, NEW a \in LInodes, lino[a] \in Files,
           uino' = Copied(a, lino[a]), lino' = lino,
           fresh # None => \/ fresh' = None /\ ud[fresh].ino = a
                           \/ fresh' = fresh /\ ud'[fresh].ino = ud[fresh].ino,
           \A f \in Files \ {lino[a]} : attr'[f] = attr[f]
    PROVE  AttrsKeep
<1>1. Sound /\ StackTypes /\ a \in Inodes /\ lino[a] # None /\ \A b \in LInodes : b \in Inodes
  BY Known, Distinct DEF RefInv, Sound
<1>2. Renews(a)
  BY <1>1, CopiedIs DEF Renews
<1>3. ASSUME NEW b \in LInodes \ {a}, uino'[b].file # None, fresh' # None => ud'[fresh'].ino # b
      PROVE  Keeps(b)
  <2>1. uino'[b] = uino[b]
    BY <1>1, CopiedIs
  <2>2. lino[b] \in Files /\ lino[b] # lino[a]
    BY <1>1, <1>3, <2>1 DEF Sound, LowerOK, Shown, StackTypes, FileInv
  <2> QED BY <1>3, <2>1, <2>2 DEF Keeps
<1> QED BY <1>2, <1>3 DEF AttrsKeep

\* unhashing leaves the inode of a fresh dentry alone
LEMMA UnhashFresh ==
    ASSUME RefInv, NEW u, (ud' = ud) \/ (ud' = [ud EXCEPT ![u].hashed = FALSE]), fresh # None
    PROVE  ud'[fresh].ino = ud[fresh].ino
<1>1. fresh \in Uppers /\ ud \in [Uppers -> UpperEntry]
  BY Known DEF RefInv, Sound, StackTypes
<1>2. CASE ud' = [ud EXCEPT ![u].hashed = FALSE]
  BY <1>1, <1>2 DEF UpperEntry
<1> QED BY <1>2

LEMMA FileAttrs ==
    ASSUME RefInv, FileInv, HeldInv, FileNext
    PROVE  AttrsKeep
<1>0. Sound /\ StackTypes
  BY DEF RefInv, Sound
<1>1. ASSUME NEW u \in StatfsOn, Statfs(u) PROVE AttrsKeep
  BY <1>1, AttrsFrame DEF Statfs, lowerVars
<1>2. ASSUME NEW p \in Procs,
             \/ \E u \in UDentries : Walk(p, u)
             \/ WalkEnd(p) \/ OpenStart(p) \/ OpenRefused(p) \/ OpenFailed(p) \/ OpenDone(p)
             \/ Release(p) \/ PutLink(p)
      PROVE  AttrsKeep
  <2>1. UNCHANGED <<attr, lino, uino, fresh, ud>>
    BY <1>2 DEF Walk, WalkEnd, OpenStart, OpenRefused, OpenFailed, OpenDone, Release, PutLink,
                lowerVars
  <2> QED BY <2>1, AttrsFrame
<1>3. ASSUME NEW p \in Procs, FollowLink(p) PROVE AttrsKeep
  <2>1. /\ UNCHANGED <<attr, lino, uino, fresh>>
        /\ (ud' = ud) \/ (ud' = [ud EXCEPT ![proc[p].u].hashed = FALSE])
    BY <1>3 DEF FollowLink, lowerVars
  <2>2. fresh # None => ud'[fresh].ino = ud[fresh].ino
    BY <2>1, UnhashFresh
  <2> QED BY <2>1, <2>2, AttrsFrame
<1>4. ASSUME NEW p \in Procs, NEW set \in BOOLEAN, Xattr(p, set) PROVE AttrsKeep
  <2> DEFINE a == ud[proc[p].u].ino
  <2>1. /\ UNCHANGED <<attr, lino, fresh>> /\ proc[p].pc # "idle"
        /\ \/ ud' = [ud EXCEPT ![proc[p].u].hashed = FALSE] /\ uino' = uino
           \/ ud' = ud /\ uino' = uino
           \/ ud' = ud /\ uino' = Copied(a, lino[a])
    BY <1>4 DEF Xattr
  <2>2. fresh # None => ud'[fresh].ino = ud[fresh].ino
    BY <2>1, UnhashFresh
  <2>3. CASE uino' = uino
    BY <2>1, <2>2, <2>3, AttrsFrame
  <2>4. CASE uino' = Copied(a, lino[a])
    <3>1. a \in LInodes /\ lino[a] \in Files
      BY <1>0, <2>1, Known
    <3> HIDE DEF a
    <3> QED BY <2>1, <2>2, <2>4, <3>1, CopyKeeps
  <2> QED BY <2>1, <2>3, <2>4
<1>5. ASSUME NEW p \in Procs, NEW m \in Modes, Setattr(p, m) PROVE AttrsKeep
  <2> DEFINE a == ud[proc[p].u].ino
  <2>1. /\ UNCHANGED <<lino, ud, fresh>> /\ proc[p].pc # "idle" /\ uino' = Copied(a, lino[a])
        /\ attr' = [attr EXCEPT ![lino[ld[ud[proc[p].u].low].ino]].mode = m]
    BY <1>5 DEF Setattr
  <2>2. a \in LInodes /\ lino[a] \in Files /\ proc[p].u # None
    BY <1>0, <2>1, Known
  <2>3. ld[ud[proc[p].u].low].ino = a
    BY <2>2 DEF HeldInv
  <2>4. \A f \in Files \ {lino[a]} : attr'[f] = attr[f]
    BY <1>0, <2>1, <2>2, <2>3 DEF StackTypes
  <2> HIDE DEF a
  <2> QED BY <2>1, <2>2, <2>4, CopyKeeps
<1> QED BY <1>1, <1>2, <1>3, <1>4, <1>5 DEF FileNext

\* the upper inode of a, new or not, waits for its attributes
LEMMA HatchKeeps ==
    ASSUME RefInv, fresh = None, NEW u \in UDentries, NEW a \in LInodes,
           \A b \in Inodes \ {a} : uino'[b] = uino[b],
           \A b \in LInodes : lino[b] # None => lino'[b] = lino[b],
           \A b \in LInodes \ {a} : lino[b] # None => attr'[lino[b]] = attr[lino[b]],
           fresh' = u, ud'[u].ino = a
    PROVE  AttrsKeep
<1> SUFFICES ASSUME NEW b \in LInodes, uino'[b].file # None, fresh' # None => ud'[fresh'].ino # b
             PROVE  Keeps(b)
  BY DEF AttrsKeep
<1>0. Sound /\ u # None /\ b \in Inodes
  BY Known DEF RefInv
<1>1. b # a
  BY <1>0
<1>2. uino'[b] = uino[b] /\ lino[b] # None
  BY <1>0, <1>1 DEF Sound, LowerOK, Shown
<1> QED BY <1>1, <1>2 DEF Keeps

LEMMA HatchesIs ==
    ASSUME RefInv, NEW u \in UDentries, NEW d, NEW a \in LInodes, NEW f \in Files,
           Hatches(u, d, a, f)
    PROVE  /\ \A b \in Inodes \ {a} : uino'[b] = uino[b]
           /\ fresh' = u /\ ud'[u].ino = a /\ ud'[u].low = ud[u].low /\ ud'[u].name = ud[u].name
           /\ ud'[u].hashed /\ \A v \in Uppers \ {u} : ud'[v] = ud[v]
<1> DEFINE i == Instantiated(ud[u], a, FALSE)
           r == Get(refs, {a})
<1>1. /\ StackTypes /\ ud \in [Uppers -> UpperEntry] /\ refs \in [Objects -> Int]
      /\ u \in Uppers /\ ud[u] \in UpperEntry /\ ud[u].hashed
  BY Known DEF RefInv, Sound, StackTypes, Hatches
<1>2. /\ i.ino = a /\ i.low = ud[u].low /\ i.name = ud[u].name /\ i.hashed
  BY <1>1 DEF UpperEntry, Instantiated
<1>3. r \in [Objects -> Int] /\ Interpose(r, a, f, u, ud[u], FALSE)
  BY <1>1, Counts DEF Hatches
<1> HIDE DEF i, r
<1>4. /\ uino' \in [Inodes -> UpperInode] /\ uino'[a].file # None
      /\ \A b \in Inodes \ {a} : uino'[b] = uino[b]
      /\ IF uino[a].file # None THEN uino' = uino ELSE uino'[a].file = f
      /\ ud' = [ud EXCEPT ![u] = i] /\ fresh' = u
      /\ refs' \in [Objects -> Int]
      /\ \A x \in Objects : refs'[x] = r[x] + (Inos(uino', x) - Inos(uino, x))
  <2>1. StackTypes /\ r \in [Objects -> Int]
    BY <1>1, <1>3
  <2> QED BY <1>3, <2>1, Interposed DEF i
<1> QED BY <1>1, <1>2, <1>4

LEMMA MakeAttrs ==
    ASSUME RefInv, NEW u \in UDentries, NEW k \in Kinds, Make(u, k, refs, TRUE)
    PROVE  AttrsKeep
<1> DEFINE d == ud[u].low
<1>1. PICK a \in LInodes, f \in Files, m \in Modes :
          Hatches(u, d, a, f) /\ VfsMake(d, a, f, k, m)
  BY MakeHatches
<1> HIDE DEF d
<1>2. /\ fresh = None /\ attr \in [Files -> FileAttr] /\ lino \in [Inodes -> Files \cup {None, ARoot}]
      /\ \A b \in LInodes : b \in Inodes /\ b # a => lino[b] # ARoot
  BY Known DEF Make, Found, RefInv, Sound, StackTypes, LowerOK
<1>3. /\ attr' = [attr EXCEPT ![f] = [nlink |-> 1, mode |-> m, kind |-> k]]
      /\ \A b \in LInodes : lino[b] # f
  BY <1>1 DEF VfsMake
<1>4. \A b \in LInodes : lino[b] # None => lino'[b] = lino[b]
  BY <1>1 DEF Hatches
<1>5. \A b \in LInodes \ {a} : lino[b] # None => attr'[lino[b]] = attr[lino[b]]
  BY <1>2, <1>3, Known DEF RefInv, Sound, StackTypes
<1>6. (\A b \in Inodes \ {a} : uino'[b] = uino[b]) /\ fresh' = u /\ ud'[u].ino = a
  BY <1>1, HatchesIs
<1> QED BY <1>2, <1>4, <1>5, <1>6, HatchKeeps

LEMMA LinkAttrs ==
    ASSUME RefInv, FileInv, NEW u \in UDentries, NEW v \in UDentries, Link(u, v, TRUE)
    PROVE  AttrsKeep
<1> DEFINE a == ud[u].ino
           d == ud[v].low
<1>1. /\ a \in LInodes /\ lino[a] \in Files /\ Hatches(v, d, a, lino[a]) /\ lino' = lino
      /\ attr' = [attr EXCEPT ![lino[a]].nlink = @ + 1]
  BY LinkHatches
<1>2. fresh = None /\ Sound /\ attr \in [Files -> FileAttr]
  BY DEF Link, Found, RefInv, Sound, StackTypes
<1> HIDE DEF a, d
<1>3. \A b \in LInodes \ {a} : lino[b] # None => lino[b] # lino[a] /\ lino[b] \in Files
  BY <1>1, <1>2, Known DEF FileInv
<1>4. \A b \in LInodes \ {a} : lino[b] # None => attr'[lino[b]] = attr[lino[b]]
  BY <1>1, <1>2, <1>3
<1>5. (\A b \in Inodes \ {a} : uino'[b] = uino[b]) /\ fresh' = v /\ ud'[v].ino = a
  BY <1>1, HatchesIs
<1> QED BY <1>1, <1>2, <1>4, <1>5, HatchKeeps

LEMMA LookupAttrs ==
    ASSUME RefInv, NEW u \in UDentries, NEW n \in Names, NEW d \in LDentries,
           Lookup(u, n, d, TRUE)
    PROVE  AttrsKeep
<1> DEFINE a == ld'[d].ino
           r == Get(Looked(d), {d, "di", "mnt"})
           added == [name |-> n, low |-> d, ino |-> None, hashed |-> TRUE]
<1>1. /\ fresh = None /\ attr' = attr /\ LookupOne(n, d)
      /\ \/ a = None /\ ud' = [ud EXCEPT ![u] = added] /\ UNCHANGED <<uino, fresh>>
         \/ a # None /\ Interpose(r, a, lino'[a], u, added, TRUE)
  BY DEF Lookup
<1>2. /\ \A b \in LInodes : lino[b] # None => lino'[b] = lino[b]
      /\ a \in LInodes \cup {None} /\ (a # None => lino'[a] \in Files)
      /\ Looked(d) \in [Objects -> Int]
  BY <1>1, LookupOneSteps
<1>3. r \in [Objects -> Int]
  BY <1>2, Counts
<1>4. Sound /\ StackTypes /\ ud \in [Uppers -> UpperEntry] /\ u \in Uppers
  BY Known DEF RefInv, Sound, StackTypes
<1> HIDE DEF r
<1>5. CASE a = None
  <2>1. \A b \in LInodes : uino'[b].file # None => lino'[b] = lino[b] /\ uino'[b] = uino[b]
    BY <1>1, <1>2, <1>4, <1>5 DEF Sound, LowerOK, Shown
  <2> QED BY <1>1, <1>5, <2>1 DEF AttrsKeep, Keeps
<1>6. CASE a # None
  <2> DEFINE i == Instantiated(added, a, TRUE)
  <2>1. a \in LInodes /\ lino'[a] \in Files
    BY <1>2, <1>6
  <2>2. i.ino = a
    BY <2>1, AddedIs, ZenonT(60)
  <2> HIDE DEF i
  <2>3. /\ uino' \in [Inodes -> UpperInode] /\ uino'[a].file # None
        /\ \A b \in Inodes \ {a} : uino'[b] = uino[b]
        /\ IF uino[a].file # None THEN uino' = uino ELSE uino'[a].file = lino'[a]
        /\ ud' = [ud EXCEPT ![u] = i] /\ fresh' = u
        /\ refs' \in [Objects -> Int]
        /\ \A x \in Objects : refs'[x] = r[x] + (Inos(uino', x) - Inos(uino, x))
    <3>1. Interpose(r, a, lino'[a], u, added, TRUE)
      BY <1>1, <1>6
    <3>2. StackTypes /\ r \in [Objects -> Int]
      BY <1>3, <1>4
    <3> QED BY <2>1, <3>1, <3>2, Interposed DEF i
  <2>4. ud'[u].ino = a
    BY <1>4, <2>2, <2>3
  <2>5. \A b \in LInodes \ {a} : lino[b] # None => attr'[lino[b]] = attr[lino[b]]
    BY <1>1
  <2> HIDE DEF a
  <2> QED BY <1>1, <1>2, <2>1, <2>3, <2>4, <2>5, HatchKeeps
<1> QED BY <1>5, <1>6

LEMMA LookupNoMemoryAttrs ==
    ASSUME RefInv, NEW n \in Names, NEW d \in LDentries, LookupNoMemory(n, d)
    PROVE  AttrsKeep
<1>1. LookupOne(n, d) /\ fresh = None /\ UNCHANGED <<attr, uino, fresh>>
  BY DEF LookupNoMemory
<1>2. \A b \in LInodes : lino[b] # None => lino'[b] = lino[b]
  BY <1>1, LookupOneSteps
<1>3. \A b \in LInodes : uino'[b].file # None => lino'[b] = lino[b]
  BY <1>1, <1>2 DEF RefInv, Sound, LowerOK, Shown
<1> QED BY <1>1, <1>3 DEF AttrsKeep, Keeps

\* dazukofs_unlink() and dazukofs_rmdir() copy the number of links
LEMMA RemoveAttrs ==
    ASSUME RefInv, FileInv, AttrsAgree, NEW u \in UDentries, Unlink(u) \/ Rmdir(u)
    PROVE  AttrsKeep
<1> DEFINE a == ud[u].ino
<1>1. /\ Sound /\ StackTypes /\ Found(u) /\ ~Negative(u) /\ UNCHANGED <<lino, fresh>>
      /\ attr' = [attr EXCEPT ![lino[ld[ud[u].low].ino]].nlink = @ - 1] /\ uino' = NlinkSet(a)
  BY DEF RefInv, Sound, Unlink, Rmdir, DropName
<1>2. fresh = None /\ ld[ud[u].low].ino = a /\ a \in LInodes /\ a \in Inodes /\ lino[a] \in Files
  BY <1>1, FoundFile DEF Found
<1>3. attr' = [attr EXCEPT ![lino[a]].nlink = @ - 1] /\ attr \in [Files -> FileAttr]
  BY <1>1, <1>2 DEF StackTypes
<1> HIDE DEF a
<1>4. attr'[lino[a]].mode = attr[lino[a]].mode
  BY <1>2, <1>3 DEF FileAttr
<1>5. uino'[a].file # None => Renews(a)
  <2> SUFFICES ASSUME uino'[a].file # None PROVE Renews(a)
    OBVIOUS
  <2>1. uino[a].file # None
    BY <1>1, <1>2, UnlinkUpper, RmdirMild DEF Mild, Tame
  <2>2. uino[a].attr.mode = attr[lino[a]].mode
    BY <1>2, <2>1 DEF AttrsAgree, Shown
  <2>3. uino'[a].attr.mode = uino[a].attr.mode /\ uino'[a].attr.nlink = attr'[lino[a]].nlink
    BY <1>1, <1>2, NlinkIs
  <2> QED BY <1>1, <1>4, <2>2, <2>3 DEF Renews
<1>6. ASSUME NEW b \in LInodes \ {a}, uino'[b].file # None PROVE Keeps(b)
  <2>1. uino'[b] = uino[b]
    BY <1>1, <1>2, NlinkIs, Known
  <2>2. lino[b] # None /\ lino[b] # lino[a]
    BY <1>1, <1>2, <1>6, <2>1, Distinct DEF Sound, LowerOK, Shown, FileInv
  <2>3. attr'[lino[b]] = attr[lino[b]]
    BY <1>1, <1>3, <2>2, Known
  <2> QED BY <1>1, <1>2, <2>1, <2>3 DEF Keeps
<1> QED BY <1>5, <1>6 DEF AttrsKeep

\* dazukofs_rename() leaves the upper inode of a file it replaces stale
LEMMA RenameAttrs ==
    ASSUME RefInv, FileInv, AttrsAgree, NEW u \in UDentries, NEW v \in UDentries, Rename(u, v)
    PROVE  AttrsKeep
<1> DEFINE a == ud[v].ino
<1>1. Sound /\ StackTypes /\ Found(v) /\ fresh = None /\ UNCHANGED <<lino, fresh>>
  BY DEF RefInv, Sound, Rename, Found
<1>2. CASE Negative(v)
  <2>1. attr' = attr /\ uino' = uino
    BY <1>2 DEF Rename
  <2> QED BY <1>1, <2>1, AttrsFrame
<1>3. CASE ~Negative(v)
  <2>1. /\ attr' = [attr EXCEPT ![lino[ld[ud[v].low].ino]].nlink = @ - 1]
        /\ uino' = [uino EXCEPT ![a].stale = TRUE]
    BY <1>3 DEF Rename
  <2>2. ld[ud[v].low].ino = a /\ a \in LInodes /\ a \in Inodes /\ lino[a] \in Files
    BY <1>1, <1>3, FoundFile DEF Found
  <2>3. /\ attr' = [attr EXCEPT ![lino[a]].nlink = @ - 1] /\ attr \in [Files -> FileAttr]
        /\ uino \in [Inodes -> UpperInode] /\ uino[a] \in UpperInode /\ attr[lino[a]] \in FileAttr
    BY <1>1, <2>1, <2>2 DEF StackTypes
  <2> HIDE DEF a
  <2>4. attr'[lino[a]].mode = attr[lino[a]].mode
    BY <2>2, <2>3 DEF FileAttr
  <2>5. /\ uino'[a].stale = TRUE /\ uino'[a].attr.mode = uino[a].attr.mode
        /\ uino'[a].file = uino[a].file
    <3>1. uino'[a] = [uino[a] EXCEPT !.stale = TRUE]
      BY <2>1, <2>2, <2>3
    <3>2. uino'[a].attr = uino[a].attr /\ uino'[a].stale = TRUE /\ uino'[a].file = uino[a].file
      BY <2>3, <3>1 DEF UpperInode
    <3> QED BY <3>2
  <2>6. uino'[a].file # None => Renews(a)
    BY <1>1, <2>2, <2>4, <2>5 DEF AttrsAgree, Shown, Renews
  <2>7. ASSUME NEW b \in LInodes \ {a}, uino'[b].file # None PROVE Keeps(b)
    <3>1. uino'[b] = uino[b]
      BY <1>1, <2>1, <2>2, <2>3, Known
    <3>2. lino[b] # None /\ lino[b] # lino[a]
      BY <1>1, <2>2, <2>7, <3>1, Distinct DEF Sound, LowerOK, Shown, FileInv
    <3>3. attr'[lino[b]] = attr[lino[b]]
      BY <1>1, <2>3, <3>2, Known
    <3> QED BY <1>1, <3>1, <3>3 DEF Keeps
  <2> QED BY <2>6, <2>7 DEF AttrsKeep
<1> QED BY <1>2, <1>3

LEMMA RevalidateAttrs ==
    ASSUME RefInv, FileInv, NEW u \in UDentries, NEW valid \in BOOLEAN, Revalidate(u, valid)
    PROVE  AttrsKeep
<1> DEFINE a == ud[u].ino
<1>1. /\ Sound /\ StackTypes /\ ud[u].hashed /\ UNCHANGED <<attr, lino, fresh>>
      /\ uino' = IF Negative(u) THEN uino ELSE Copied(a, lino[a])
      /\ \/ ud' = ud
         \/ u # fresh /\ ud' = [ud EXCEPT ![u] = NoUpper]
         \/ ud' = [ud EXCEPT ![u].hashed = FALSE]
  BY DEF RefInv, Sound, Revalidate
<1>2. fresh # None => ud'[fresh].ino = ud[fresh].ino
  <2>1. CASE u # fresh /\ ud' = [ud EXCEPT ![u] = NoUpper]
    BY <1>1, <2>1, Known DEF StackTypes
  <2>2. CASE (ud' = ud) \/ (ud' = [ud EXCEPT ![u].hashed = FALSE])
    BY <2>2, UnhashFresh
  <2> QED BY <1>1, <2>1, <2>2
<1>3. CASE Negative(u)
  BY <1>1, <1>2, <1>3, AttrsFrame
<1>4. CASE ~Negative(u)
  <2>1. a \in LInodes /\ lino[a] \in Files /\ uino' = Copied(a, lino[a])
    BY <1>1, <1>4, FoundFile
  <2> HIDE DEF a
  <2> QED BY <1>1, <1>2, <2>1, CopyKeeps
<1> QED BY <1>3, <1>4

LEMMA InterposeEndAttrs == ASSUME RefInv, FileInv, InterposeEnd PROVE AttrsKeep
<1> DEFINE a == ud[fresh].ino
<1>1. /\ Sound /\ fresh # None /\ fresh' = None /\ UNCHANGED <<attr, lino>>
      /\ uino' = Copied(a, lino[a])
  BY DEF RefInv, InterposeEnd
<1>2. a \in LInodes /\ lino[a] \in Files
  BY <1>1, Known
<1>3. a = ud[fresh].ino
  OBVIOUS
<1> HIDE DEF a
<1> QED BY <1>1, <1>2, <1>3, CopyKeeps

LEMMA DirectoryAttrs ==
    ASSUME RefInv, FileInv, AttrsAgree, Fails = {}, Before36, DirectoryNext
    PROVE  AttrsKeep
<1>0. Interposes = {TRUE}
  BY Interposing
<1>1. ASSUME NEW n \in Names, NEW d \in LDentries, LookupNoMemory(n, d) PROVE AttrsKeep
  BY <1>1, LookupNoMemoryAttrs
<1>2. ASSUME NEW n \in Names, NEW d \in LDentries, NEW u \in UDentries, Lookup(u, n, d, TRUE)
      PROVE  AttrsKeep
  BY <1>2, LookupAttrs
<1>3. ASSUME NEW u \in UDentries, MakeAny(u, TRUE) PROVE AttrsKeep
  BY <1>3, MakeAnyMakes, MakeAttrs
<1>4. ASSUME NEW u \in UDentries, NEW v \in UDentries, Link(u, v, TRUE) PROVE AttrsKeep
  BY <1>4, LinkAttrs
<1>5. ASSUME NEW u \in UDentries, Unlink(u) \/ Rmdir(u) PROVE AttrsKeep
  BY <1>5, RemoveAttrs
<1>6. ASSUME NEW u \in UDentries, NEW v \in UDentries, Rename(u, v) PROVE AttrsKeep
  BY <1>6, RenameAttrs
<1>7. ASSUME NEW u \in UDentries, NEW valid \in BOOLEAN, Revalidate(u, valid) PROVE AttrsKeep
  BY <1>7, RevalidateAttrs
<1> QED BY <1>0, <1>1, <1>2, <1>3, <1>4, <1>5, <1>6, <1>7, InterposeEndAttrs DEF DirectoryNext

LEMMA OtherAttrs ==
    ASSUME RefInv,
           CacheNext \/ Mount \/ Unmount \/ \E why \in {"path"} \cup Fails : MountFailed(why)
    PROVE  AttrsKeep
<1>0. /\ Sound /\ uino \in [Inodes -> UpperInode] /\ ud \in [Uppers -> UpperEntry]
      /\ lino \in [Inodes -> Files \cup {None, ARoot}]
      /\ \A b \in LInodes : b \in Inodes /\ b # ARoot
      /\ fresh # None => fresh \in Uppers /\ fresh # URoot
  BY Known DEF RefInv, Sound, StackTypes
<1>1. ASSUME NEW u \in UDentries, DRelease(u) PROVE AttrsKeep
  <2>1. UNCHANGED <<attr, lino, uino, fresh>> /\ u # fresh /\ ud' = [ud EXCEPT ![u] = NoUpper]
    BY <1>1 DEF DRelease, lowerVars
  <2>2. fresh # None => ud'[fresh].ino = ud[fresh].ino
    BY <1>0, <2>1
  <2> QED BY <2>1, <2>2, AttrsFrame
<1>2. ASSUME NEW a \in LInodes, Evict(a) PROVE AttrsKeep
  <2>1. uino' = [uino EXCEPT ![a] = NoInode] /\ UNCHANGED <<attr, lino, ud, fresh>>
    BY <1>2 DEF Evict, lowerVars
  <2>2. \A b \in LInodes : uino'[b].file # None => uino'[b] = uino[b]
    BY <1>0, <2>1, RootedType
  <2> QED BY <2>1, <2>2 DEF AttrsKeep, Keeps
<1>3. ASSUME NEW a \in LInodes, LowerForget(a) PROVE AttrsKeep
  <2>1. lino' = [lino EXCEPT ![a] = None] /\ UNCHANGED <<attr, uino, ud, fresh>> /\ refs[a] <= 0
    BY <1>3 DEF LowerForget
  <2>2. uino'[a].file = None
    BY <1>0, <2>1, Forgotten DEF Shown
  <2>3. \A b \in LInodes : b # a => lino'[b] = lino[b]
    BY <1>0, <2>1
  <2> QED BY <2>1, <2>2, <2>3 DEF AttrsKeep, Keeps
<1>4. ASSUME NEW d \in LDentries, LowerPrune(d) PROVE AttrsKeep
  BY <1>4, AttrsFrame DEF LowerPrune
<1>5. ASSUME Mount \/ Unmount PROVE AttrsKeep
  <2>1. /\ UNCHANGED <<attr, lino, fresh>>
        /\ \E i, r : uino' = [uino EXCEPT ![ARoot] = i] /\ ud' = [ud EXCEPT ![URoot] = r]
    BY <1>5 DEF Mount, Unmount, lowerVars
  <2>2. /\ \A b \in LInodes : uino'[b] = uino[b]
        /\ fresh # None => ud'[fresh] = ud[fresh]
    BY <1>0, <2>1
  <2> QED BY <2>1, <2>2 DEF AttrsKeep, Keeps
<1>6. ASSUME NEW why, MountFailed(why) PROVE AttrsKeep
  BY <1>6, AttrsFrame DEF MountFailed, lowerVars
<1> QED BY <1>1, <1>2, <1>3, <1>4, <1>5, <1>6 DEF CacheNext

(***************************************************************************)
(* The attributes copied into an upper inode by fsstack_copy_attr_all()    *)
(* and set_nlink() are those of its lower inode, except the number of      *)
(* links of a file that a rename has replaced.  It rests on SameInv: what  *)
(* dazukofs_setattr() changes through the lower dentry is what it then     *)
(* copies through the lower inode.                                         *)
(***************************************************************************)
THEOREM CopiesAgree == Fails = {} /\ Before36 /\ ~Races => (StackSpec => []AttrsAgree)
<1> SUFFICES ASSUME Fails = {}, Before36, ~Races PROVE StackSpec => []AttrsAgree
  OBVIOUS
<1>1. StackInit => AttrsAgree
  <2> SUFFICES ASSUME StackInit PROVE \A a \in LInodes : uino[a].file = None
    BY DEF AttrsAgree, Shown
  <2> QED BY DEF StackInit, NoInode, Inodes
<1>2. SameInv /\ AttrsAgree /\ [StackNext]_stackVars => AttrsAgree'
  <2> SUFFICES ASSUME SameInv, AttrsAgree, [StackNext]_stackVars PROVE AttrsAgree'
    OBVIOUS
  <2>1. CASE UNCHANGED stackVars
    BY <2>1 DEF AttrsAgree, Shown, stackVars, lowerVars
  <2>2. CASE StackNext
    <3>1. AttrsKeep
      BY <2>2, DirectoryAttrs, FileAttrs, OtherAttrs DEF StackNext, SameInv
    <3> QED BY <3>1, AttrsKept
  <2> QED BY <2>1, <2>2
<1> QED BY <1>1, <1>2, SameInvHolds, PTL DEF StackSpec
-----------------------------------------------------------------------------
(***************************************************************************)
(* Names.  Fades: dentries keep what they say, are unhashed or leave, the  *)
(* upper and the lower one of a pair together.                             *)
(***************************************************************************)
Fades ==
    /\ \A d \in LDentries : ld'[d].hashed =>
          /\ ld'[d] = ld[d] /\ disk'[ld[d].name] = disk[ld[d].name]
          /\ ld[d].ino # None => lino'[ld[d].ino] = lino[ld[d].ino]
    /\ \A u \in UDentries : ud'[u].low # None =>
          /\ ud'[u].low = ud[u].low /\ (ud'[u].hashed <=> ld'[ud[u].low].hashed)
          /\ ud'[u].hashed => ud'[u] = ud[u]

LEMMA FadesKeeps ==
    ASSUME RefInv, PairInv, DiskInv, Fades PROVE PairInv' /\ DiskInv'
<1>1. Sound
  BY DEF RefInv
<1>2. DiskInv'
  BY DEF DiskInv, Fades
<1>3. ASSUME NEW u \in UDentries, ud'[u].low # None
      PROVE  LET d == ud'[u].low IN
             /\ ud'[u].hashed <=> ld'[d].hashed
             /\ ud'[u].hashed => ld'[d].name = ud'[u].name /\ (ud'[u].ino = None <=> ld'[d].ino = None)
             /\ \A v \in UDentries : ud'[v].low = d => v = u
  <2> DEFINE d == ud[u].low
  <2>1. /\ ud'[u].low = d /\ (ud'[u].hashed <=> ld'[d].hashed) /\ (ud'[u].hashed => ud'[u] = ud[u])
        /\ d # None /\ d \in LDentries
    BY <1>1, <1>3, Known DEF Fades
  <2>2. /\ ud[u].hashed => ld[d].name = ud[u].name /\ (ud[u].ino = None <=> ld[d].ino = None)
        /\ \A v \in UDentries : ud[v].low = d => v = u
    BY <2>1 DEF PairInv
  <2> HIDE DEF d
  <2>3. ud'[u].hashed => ld'[d] = ld[d]
    BY <2>1 DEF Fades
  <2>4. \A v \in UDentries : ud'[v].low = d => v = u
    BY <2>1, <2>2 DEF Fades
  <2> QED BY <2>1, <2>2, <2>3, <2>4
<1> QED BY <1>2, <1>3 DEF PairInv

LEMMA FrameFades ==
    ASSUME RefInv, PairInv, UNCHANGED <<disk, lino, ld>>, \A u \in UDentries : ud'[u] = ud[u]
    PROVE  Fades
BY DEF Fades, PairInv

\* the file of a pair is made, linked or removed
Turns(u, d, a) ==
    /\ ud[u].hashed /\ ud[u].low = d /\ ld[d].hashed
    /\ ud'[u].hashed /\ ud'[u].low = d /\ ud'[u].name = ud[u].name
    /\ ud'[u].ino = None <=> a = None
    /\ ld' = [ld EXCEPT ![d].ino = a]
    /\ disk' = [disk EXCEPT ![ld[d].name] = IF a = None THEN None ELSE lino'[a]]
    /\ \A b \in LInodes : lino[b] # None => lino'[b] = lino[b]
    /\ \A v \in UDentries \ {u} : ud'[v] = ud[v]

LEMMA TurnsKeeps ==
    ASSUME RefInv, PairInv, DiskInv, NEW u \in UDentries, NEW d, NEW a, Turns(u, d, a)
    PROVE  PairInv' /\ DiskInv'
<1>1. /\ Sound /\ d \in LDentries /\ d \in Lowers /\ ld \in [Lowers -> LowerEntry]
      /\ disk \in [Names -> Files \cup {None}] /\ d # None
  BY Known DEF RefInv, Sound, StackTypes, Turns
<1>2. /\ ld'[d].ino = a /\ ld'[d].name = ld[d].name /\ ld'[d].hashed
      /\ \A e \in LDentries \ {d} : ld'[e] = ld[e]
  <2>1. ld'[d] = [ld[d] EXCEPT !.ino = a] /\ ld[d] \in LowerEntry
        /\ \A e \in Lowers \ {d} : ld'[e] = ld[e]
    BY <1>1 DEF Turns
  <2>2. ld'[d].ino = a /\ ld'[d].name = ld[d].name /\ ld'[d].hashed
    BY <2>1 DEF LowerEntry, Turns
  <2> QED BY <2>1, <2>2 DEF Lowers
<1>3. /\ ld[d].name \in Names /\ ld[d].name = ud[u].name
      /\ \A e \in LDentries \ {d} : ld[e].hashed => ld[e].name \in Names /\ ld[e].name # ld[d].name
      /\ \A v \in UDentries : ud[v].low = d => v = u
  BY <1>1 DEF DiskInv, PairInv, Turns
<1>4. \A e \in LDentries \ {d} : ld[e].hashed =>
         /\ disk'[ld[e].name] = disk[ld[e].name]
         /\ ld[e].ino # None => lino'[ld[e].ino] = lino[ld[e].ino]
  <2>1. \A e \in LDentries : ld[e].ino # None => ld[e].ino \in LInodes /\ lino[ld[e].ino] # None
    BY <1>1, Known DEF Sound, LowerOK
  <2> QED BY <1>1, <1>3, <2>1 DEF Turns
<1>5. disk'[ld[d].name] = IF a = None THEN None ELSE lino'[a]
  BY <1>1, <1>3 DEF Turns
<1>6. DiskInv'
  <2>1. ASSUME NEW e \in LDentries, ld'[e].hashed
        PROVE  /\ ld'[e].name \in Names
               /\ disk'[ld'[e].name] = IF ld'[e].ino = None THEN None ELSE lino'[ld'[e].ino]
               /\ \A c \in LDentries : ld'[c].hashed /\ ld'[c].name = ld'[e].name => c = e
    <3>1. CASE e = d
      BY <1>2, <1>3, <1>5, <3>1
    <3>2. CASE e # d
      <4>1. /\ ld[e].hashed /\ ld[e].name \in Names /\ ld[e].name # ld[d].name
            /\ disk[ld[e].name] = IF ld[e].ino = None THEN None ELSE lino[ld[e].ino]
            /\ \A c \in LDentries : ld[c].hashed /\ ld[c].name = ld[e].name => c = e
        BY <1>2, <1>3, <2>1, <3>2 DEF DiskInv
      <4> QED BY <1>2, <1>4, <2>1, <3>2, <4>1
    <3> QED BY <3>1, <3>2
  <2> QED BY <2>1 DEF DiskInv
<1>7. PairInv'
  <2>1. ASSUME NEW v \in UDentries, ud'[v].low # None
        PROVE  LET e == ud'[v].low IN
               /\ ud'[v].hashed <=> ld'[e].hashed
               /\ ud'[v].hashed => ld'[e].name = ud'[v].name /\ (ud'[v].ino = None <=> ld'[e].ino = None)
               /\ \A w \in UDentries : ud'[w].low = e => w = v
    <3>0. \A w \in UDentries : ud'[w].low = ud[w].low
      BY DEF Turns
    <3>1. CASE v = u
      BY <1>2, <1>3, <3>0, <3>1 DEF Turns
    <3>2. CASE v # u
      <4>1. ud'[v] = ud[v] /\ ud[v].low \in LDentries \ {d}
        BY <1>1, <1>3, <2>1, <3>2, Known DEF Turns
      <4>2. ld'[ud[v].low] = ld[ud[v].low]
        BY <1>2, <4>1
      <4> QED BY <2>1, <3>0, <4>1, <4>2 DEF PairInv
    <3> QED BY <3>1, <3>2
  <2> QED BY <2>1 DEF PairInv
<1> QED BY <1>6, <1>7

LEMMA CountStep ==
    ASSUME RefInv, CountInv, Fails = {}, Before36, StatfsOn \subseteq {URoot}, [StackNext]_stackVars
    PROVE  CountInv'
<1> SUFFICES ASSUME NEW d \in LDentries PROVE Surplus(d)' = 0
  BY DEF CountInv
<1>1. /\ Sound /\ StackTypes /\ d \in Objects /\ d # LRoot /\ d # "fi" /\ Surplus(d) = 0
  BY Known, Distinct DEF RefInv, Sound, CountInv, Pool
<1>2. CASE Balanced
  BY <1>1, <1>2 DEF Balanced
<1>3. ASSUME NEW u \in StatfsOn, Statfs(u) PROVE Surplus(d)' = 0
  <2>1. u = URoot /\ ud[u].ino # None
    BY <1>3 DEF Statfs, Negative
  <2>2. ud[u].low = LRoot
    BY <1>1, <2>1, RootedType DEF Sound, RootOK, Rooted
  <2>3. Surplus(d)' = Surplus(d) + In(d, {ud[u].low})
    BY <1>1, <1>3, StatfsStep
  <2>4. In(d, {ud[u].low}) = 0
    BY <1>1, <2>2 DEF In
  <2> QED BY <1>1, <2>3, <2>4
<1>4. ASSUME NEW p \in Procs, OpenFailed(p) PROVE Surplus(d)' = 0
  <2>1. Surplus(d)' = Surplus(d) + In(d, {"fi"})
    BY <1>1, <1>4, OpenFailedStep
  <2>2. In(d, {"fi"}) = 0
    BY <1>1 DEF In
  <2> QED BY <1>1, <2>1, <2>2
<1> QED BY <1>2, <1>3, <1>4, AllSteps DEF Leaking

\* the lower d_delete() of an unlink does what the upper one does
LEMMA DeletesAlike ==
    ASSUME RefInv, CountInv, PairInv, NEW u \in UDentries, ud[u].hashed,
           \A p \in Holders(u) : proc[p].low # None
    PROVE  refs[ud[u].low] = 1 <=> Holders(u) = {}
<1> DEFINE d == ud[u].low
<1>1. /\ Sound /\ d \in LDentries /\ d \in Lowers /\ d # None /\ d # LRoot /\ u \in Uppers
      /\ Surplus(d) = 0
  BY Known DEF RefInv, CountInv
<1>2. \A v \in Uppers : ud[v].low = d <=> v = u
  <2>1. ud[URoot].low # d
    BY <1>1, RootedType DEF Sound, RootOK, Rooted
  <2>2. \A v \in UDentries : ud[v].low = d => v = u
    BY <1>1 DEF PairInv
  <2> QED BY <2>1, <2>2 DEF Uppers
<1>3. \A p \in Procs : proc[p].low = d <=> proc[p].u = u
  <2> SUFFICES ASSUME NEW p \in Procs PROVE proc[p].low = d <=> proc[p].u = u
    OBVIOUS
  <2>1. /\ proc[p].low # None => proc[p].low = ud[proc[p].u].low /\ proc[p].pc # "idle"
        /\ proc[p].pc # "idle" => proc[p].u \in UDentries
    BY <1>1, Known DEF Sound, ProcOK, Fits
  <2>2. proc[p].low = d => proc[p].u = u
    BY <1>1, <1>2, <2>1 DEF Uppers
  <2>3. proc[p].u = u => proc[p].low = d
    BY <1>1, <2>1 DEF Holders
  <2> QED BY <2>2, <2>3
<1>4. /\ refs[d] \in Int /\ Ups(ud, d) \in Nat /\ Paths(proc, d) \in Nat
      /\ refs[d] = Ups(ud, d) + Paths(proc, d)
  BY <1>1, UsersOfDentry
<1>5. Ups(ud, d) = 1
  <2>1. {v \in Uppers : ud[v].low = d} = {u}
    BY <1>1, <1>2
  <2>2. Cardinality({u}) = 1
    BY FS_Singleton
  <2> QED BY <1>1, <2>1, <2>2 DEF Ups
<1>6. CASE Holders(u) = {}
  <2>1. {p \in Procs : proc[p].low = d} = {}
    BY <1>3, <1>6 DEF Holders
  <2>2. Cardinality({}) = 0
    BY FS_EmptySet
  <2>3. Paths(proc, d) = 0
    BY <1>1, <2>1, <2>2 DEF Paths
  <2> QED BY <1>4, <1>5, <1>6, <2>3
<1>7. CASE Holders(u) # {}
  <2>1. PICK p \in Procs : proc[p].low = d
    BY <1>3, <1>7 DEF Holders
  <2> HIDE DEF d
  <2>2. Paths(proc, d) >= 1
    BY <1>1, <2>1, PathsMany
  <2> QED BY <1>4, <1>5, <1>7, <2>2 DEF d
<1> QED BY <1>6, <1>7

\* a pair is unhashed
LEMMA UnhashFades ==
    ASSUME RefInv, PairInv, DiskInv, NEW u \in UDentries, ud[u].hashed,
           ld' = [ld EXCEPT ![ud[u].low].hashed = FALSE], ud' = [ud EXCEPT ![u].hashed = FALSE],
           lino' = lino, disk' \in {disk, [disk EXCEPT ![ld[ud[u].low].name] = None]}
    PROVE  Fades
<1> DEFINE d == ud[u].low
<1>1. /\ Sound /\ d \in LDentries /\ d \in Lowers /\ d # None /\ u \in Uppers
      /\ ud \in [Uppers -> UpperEntry] /\ ld \in [Lowers -> LowerEntry]
      /\ disk \in [Names -> Files \cup {None}] /\ ud[u] \in UpperEntry /\ ld[d] \in LowerEntry
      /\ \A v \in UDentries : v \in Uppers
      /\ \A e \in LDentries : e \in Lowers
  BY Known DEF RefInv, Sound, StackTypes
<1>2. ld[d].hashed /\ \A v \in UDentries : ud[v].low = d => v = u
  BY <1>1 DEF PairInv
<1>3. /\ ld'[d] = [ld[d] EXCEPT !.hashed = FALSE] /\ \A e \in LDentries \ {d} : ld'[e] = ld[e]
      /\ ud'[u] = [ud[u] EXCEPT !.hashed = FALSE] /\ \A v \in UDentries \ {u} : ud'[v] = ud[v]
  BY <1>1
<1>4. ~ld'[d].hashed /\ ~ud'[u].hashed /\ ud'[u].low = d
  BY <1>1, <1>3 DEF UpperEntry, LowerEntry
<1>5. \A e \in LDentries : ld'[e].hashed => ld'[e] = ld[e] /\ disk'[ld[e].name] = disk[ld[e].name]
  BY <1>1, <1>2, <1>3, <1>4 DEF DiskInv
<1>6. ASSUME NEW v \in UDentries, ud'[v].low # None
      PROVE  /\ ud'[v].low = ud[v].low /\ (ud'[v].hashed <=> ld'[ud[v].low].hashed)
             /\ ud'[v].hashed => ud'[v] = ud[v]
  <2>1. CASE v = u
    BY <1>4, <2>1
  <2>2. CASE v # u
    <3>1. ud'[v] = ud[v] /\ ud[v].low \in LDentries \ {d}
      BY <1>1, <1>2, <1>3, <1>6, <2>2, Known
    <3> QED BY <1>3, <1>6, <3>1 DEF PairInv
  <2> QED BY <2>1, <2>2
<1> QED BY <1>5, <1>6 DEF Fades

LEMMA UnlinkNames ==
    ASSUME RefInv, CountInv, PairInv, DiskInv, ~Races, NEW u \in UDentries, Unlink(u)
    PROVE  PairInv' /\ DiskInv'
<1> DEFINE d == ud[u].low
           a == ld[d].ino
<1>1. /\ Sound /\ StackTypes /\ ud[u].hashed /\ ud[u].ino # None /\ ld[d].ino # None
      /\ disk' = [disk EXCEPT ![ld[d].name] = None] /\ lino' = lino
      /\ \A p \in Holders(u) : proc[p].low # None
      /\ ld' = IF refs[d] = 1 THEN [ld EXCEPT ![d].ino = None] ELSE [ld EXCEPT ![d].hashed = FALSE]
      /\ ud' = IF Holders(u) = {} THEN [ud EXCEPT ![u].ino = None]
               ELSE [ud EXCEPT ![u].hashed = FALSE]
  BY DEF RefInv, Sound, Unlink, Found, Negative, DropName, LowerDelete, UpperDelete
<1>2. /\ d \in LDentries /\ d \in Lowers /\ d # None /\ u \in Uppers /\ u # None
      /\ ud \in [Uppers -> UpperEntry] /\ ld \in [Lowers -> LowerEntry]
      /\ disk \in [Names -> Files \cup {None}] /\ ud[u] \in UpperEntry /\ ld[d] \in LowerEntry
      /\ \A v \in UDentries : v \in Uppers
      /\ \A e \in LDentries : e \in Lowers
  BY <1>1, Known DEF StackTypes
<1>3. ld[d].hashed /\ \A v \in UDentries : ud[v].low = d => v = u
  BY <1>1, <1>2 DEF PairInv
<1>4. refs[d] = 1 <=> Holders(u) = {}
  BY <1>1, DeletesAlike
<1> HIDE DEF a, d
<1>5. CASE Holders(u) = {}
  <2>1. ld' = [ld EXCEPT ![d].ino = None] /\ ud' = [ud EXCEPT ![u].ino = None]
    BY <1>1, <1>4, <1>5
  <2>2. ud'[u] = [ud[u] EXCEPT !.ino = None] /\ \A v \in UDentries \ {u} : ud'[v] = ud[v]
    BY <1>2, <2>1
  <2>3. ud'[u].hashed /\ ud'[u].low = d /\ ud'[u].name = ud[u].name /\ ud'[u].ino = None
    BY <1>1, <1>2, <2>2 DEF UpperEntry, d
  <2>4. ud[u].low = d
    BY DEF d
  <2>5. Turns(u, d, None)
    BY <1>1, <1>3, <2>1, <2>2, <2>3, <2>4 DEF Turns
  <2> QED BY <2>5, TurnsKeeps
<1>6. CASE Holders(u) # {}
  <2>1. ld' = [ld EXCEPT ![d].hashed = FALSE] /\ ud' = [ud EXCEPT ![u].hashed = FALSE]
    BY <1>1, <1>4, <1>6
  <2>2. Fades
    BY <1>1, <2>1, UnhashFades DEF d
  <2> QED BY <2>2, FadesKeeps
<1> QED BY <1>5, <1>6

LEMMA RmdirNames ==
    ASSUME RefInv, PairInv, DiskInv, NEW u \in UDentries, Rmdir(u)
    PROVE  PairInv' /\ DiskInv'
<1>1. /\ ud[u].hashed /\ lino' = lino /\ disk' = [disk EXCEPT ![ld[ud[u].low].name] = None]
      /\ ld' = [ld EXCEPT ![ud[u].low].hashed = FALSE] /\ ud' = [ud EXCEPT ![u].hashed = FALSE]
  BY DEF Rmdir, Found, DropName
<1>2. Fades
  BY <1>1, UnhashFades
<1> QED BY <1>2, FadesKeeps

\* an upper dentry is released, and perhaps its lower dentry unhashed
LEMMA ReleaseFades ==
    ASSUME RefInv, PairInv, DiskInv, NEW u \in UDentries, UNCHANGED <<disk, lino>>,
           ud[u].low # None, ud' = [ud EXCEPT ![u] = NoUpper],
           ld' \in {ld, [ld EXCEPT ![ud[u].low].hashed = FALSE]}
    PROVE  Fades
<1> DEFINE d == ud[u].low
<1>1. /\ Sound /\ d \in LDentries /\ d \in Lowers /\ u \in Uppers
      /\ ud \in [Uppers -> UpperEntry] /\ ld \in [Lowers -> LowerEntry] /\ ld[d] \in LowerEntry
      /\ \A v \in UDentries : v \in Uppers
      /\ \A e \in LDentries : e \in Lowers
  BY Known DEF RefInv, Sound, StackTypes
<1>2. \A v \in UDentries : ud[v].low = d => v = u
  BY <1>1 DEF PairInv
<1>3. ud'[u].low = None /\ \A v \in UDentries \ {u} : ud'[v] = ud[v]
  BY <1>1, RootedType
<1>4. /\ \A e \in LDentries \ {d} : ld'[e] = ld[e]
      /\ ld'[d].hashed => ld'[d] = ld[d]
  BY <1>1 DEF LowerEntry
<1>5. ASSUME NEW v \in UDentries, ud'[v].low # None
      PROVE  /\ ud'[v].low = ud[v].low /\ (ud'[v].hashed <=> ld'[ud[v].low].hashed)
             /\ ud'[v].hashed => ud'[v] = ud[v]
  <2>1. ud'[v] = ud[v] /\ ud[v].low \in LDentries \ {d}
    BY <1>1, <1>2, <1>3, <1>5, Known
  <2> QED BY <1>4, <1>5, <2>1 DEF PairInv
<1> QED BY <1>4, <1>5 DEF Fades

LEMMA RevalidateNames ==
    ASSUME RefInv, PairInv, DiskInv, NEW u \in UDentries, NEW valid \in BOOLEAN,
           Revalidate(u, valid)
    PROVE  PairInv' /\ DiskInv'
<1>1. ud[u].hashed /\ UNCHANGED <<disk, lino>> /\ ud[u].low # None
  BY RevalidateCopies DEF Revalidate
<1>2. CASE valid
  <2>1. ld' = ld /\ ud' = ud
    BY <1>2 DEF Revalidate
  <2> QED BY <1>1, <2>1, FrameFades, FadesKeeps
<1>3. CASE ~valid
  <2>1. /\ ld' = [ld EXCEPT ![ud[u].low].hashed = FALSE]
        /\ ud' = IF Holders(u) = {} THEN [ud EXCEPT ![u] = NoUpper]
                 ELSE [ud EXCEPT ![u].hashed = FALSE]
    BY <1>3 DEF Revalidate
  <2>2. CASE Holders(u) = {}
    BY <1>1, <2>1, <2>2, ReleaseFades, FadesKeeps
  <2>3. CASE Holders(u) # {}
    BY <1>1, <2>1, <2>3, UnhashFades, FadesKeeps
  <2> QED BY <2>2, <2>3
<1> QED BY <1>2, <1>3

LEMMA FileNames ==
    ASSUME RefInv, HeldInv, PairInv, DiskInv, FileNext
    PROVE  PairInv' /\ DiskInv'
<1>1. UNCHANGED <<disk, lino, ld, ud>>
  <2>1. ASSUME NEW p \in Procs, proc[p].pc # "idle" PROVE ld[ud[proc[p].u].low].ino # None
    BY <2>1, Known, Distinct DEF RefInv, HeldInv
  <2>2. ASSUME NEW p \in Procs, FollowLink(p) \/ \E set \in BOOLEAN : Xattr(p, set)
        PROVE  UNCHANGED <<disk, lino, ld, ud>>
    BY <2>1, <2>2 DEF FollowLink, Xattr, lowerVars
  <2> QED BY <2>2 DEF FileNext, Statfs, Walk, WalkEnd, OpenStart, OpenRefused, OpenFailed,
                     OpenDone, Release, PutLink, Setattr, lowerVars
<1> QED BY <1>1, FrameFades, FadesKeeps

LEMMA OtherNames ==
    ASSUME RefInv, PairInv, DiskInv,
           CacheNext \/ Mount \/ Unmount \/ \E why \in {"path"} \cup Fails : MountFailed(why)
    PROVE  PairInv' /\ DiskInv'
<1>0. /\ Sound /\ ud \in [Uppers -> UpperEntry] /\ ld \in [Lowers -> LowerEntry]
      /\ lino \in [Inodes -> Files \cup {None, ARoot}]
      /\ \A u \in UDentries : u \in Uppers /\ u # URoot
      /\ \A d \in LDentries : d \in Lowers
  BY Known DEF RefInv, Sound, StackTypes
<1>1. ASSUME NEW u \in UDentries, DRelease(u) PROVE Fades
  BY <1>1, ReleaseFades DEF DRelease, InUse, lowerVars
<1>2. ASSUME NEW a \in LInodes, Evict(a) PROVE Fades
  BY <1>2, FrameFades DEF Evict, lowerVars
<1>3. ASSUME NEW a \in LInodes, LowerForget(a) PROVE Fades
  <2>1. lino' = [lino EXCEPT ![a] = None] /\ UNCHANGED <<disk, ld, ud>> /\ refs[a] <= 0
    BY <1>3 DEF LowerForget
  <2>2. \A d \in LDentries : ld[d].ino # a
    BY <1>0, <2>1, Forgotten, Known
  <2>3. \A d \in LDentries : ld[d].ino # None => lino'[ld[d].ino] = lino[ld[d].ino]
    BY <1>0, <2>1, <2>2, Known
  <2> QED BY <2>1, <2>3 DEF Fades, PairInv
<1>4. ASSUME NEW d \in LDentries, LowerPrune(d) PROVE Fades
  <2>1. ld' = [ld EXCEPT ![d] = NoLower] /\ UNCHANGED <<disk, lino, ud>> /\ refs[d] <= 0
    BY <1>4 DEF LowerPrune
  <2>2. \A u \in Uppers : ud[u].low # d
    BY <1>0, <2>1, Unheld
  <2>3. ~ld'[d].hashed /\ \A e \in LDentries \ {d} : ld'[e] = ld[e]
    BY <1>0, <2>1 DEF NoLower
  <2>4. \A u \in UDentries : ud[u].low # None => ud[u].low \in LDentries \ {d}
    BY <1>0, <2>2, Known
  <2> QED BY <2>1, <2>3, <2>4 DEF Fades, PairInv
<1>5. ASSUME Mount \/ Unmount PROVE Fades
  <2>1. UNCHANGED <<disk, lino, ld>> /\ \E r : ud' = [ud EXCEPT ![URoot] = r]
    BY <1>5 DEF Mount, Unmount, lowerVars
  <2>2. \A u \in UDentries : ud'[u] = ud[u]
    BY <1>0, <2>1
  <2> QED BY <2>1, <2>2, FrameFades
<1>6. ASSUME NEW why, MountFailed(why) PROVE Fades
  BY <1>6, FrameFades DEF MountFailed, lowerVars
<1> QED BY <1>1, <1>2, <1>3, <1>4, <1>5, <1>6, FadesKeeps DEF CacheNext

LEMMA MakeNames ==
    ASSUME RefInv, PairInv, DiskInv, NEW u \in UDentries, NEW k \in Kinds, Make(u, k, refs, TRUE)
    PROVE  PairInv' /\ DiskInv'
<1> DEFINE d == ud[u].low
<1>1. PICK a \in LInodes, f \in Files, m \in Modes :
          Hatches(u, d, a, f) /\ VfsMake(d, a, f, k, m)
  BY MakeHatches
<1>2. ud[u].low = d /\ a # None /\ \A v \in UDentries : v \in Uppers
  BY Known DEF RefInv
<1> HIDE DEF d
<1>3. /\ ud'[u].ino = a /\ ud'[u].low = ud[u].low /\ ud'[u].name = ud[u].name
      /\ ud'[u].hashed /\ \A v \in Uppers \ {u} : ud'[v] = ud[v]
  BY <1>1, HatchesIs
<1>4. /\ ud[u].hashed /\ lino'[a] = f /\ ld' = [ld EXCEPT ![d].ino = a]
      /\ \A b \in LInodes : lino[b] # None => lino'[b] = lino[b]
  BY <1>1 DEF Hatches
<1>5. ld[d].hashed /\ disk' = [disk EXCEPT ![ld[d].name] = f]
  BY <1>1 DEF VfsMake
<1>6. Turns(u, d, a)
  BY <1>2, <1>3, <1>4, <1>5 DEF Turns
<1> QED BY <1>6, TurnsKeeps

LEMMA LinkNames ==
    ASSUME RefInv, PairInv, DiskInv, NEW u \in UDentries, NEW v \in UDentries, Link(u, v, TRUE)
    PROVE  PairInv' /\ DiskInv'
<1> DEFINE a == ud[u].ino
           d == ud[v].low
<1>1. /\ a \in LInodes /\ lino[a] \in Files /\ Hatches(v, d, a, lino[a]) /\ lino' = lino
      /\ disk' = [disk EXCEPT ![ld[d].name] = lino[a]]
  BY LinkHatches
<1>2. ud[v].low = d /\ a # None /\ ld[d].hashed /\ \A w \in UDentries : w \in Uppers
  BY <1>1, Known DEF RefInv, Link
<1> HIDE DEF a, d
<1>3. /\ ud'[v].ino = a /\ ud'[v].low = ud[v].low /\ ud'[v].name = ud[v].name
      /\ ud'[v].hashed /\ \A w \in Uppers \ {v} : ud'[w] = ud[w]
  BY <1>1, HatchesIs
<1>4. ud[v].hashed /\ ld' = [ld EXCEPT ![d].ino = a]
  BY <1>1 DEF Hatches
<1>5. Turns(v, d, a)
  BY <1>1, <1>2, <1>3, <1>4 DEF Turns
<1> QED BY <1>5, TurnsKeeps

\* lookup_one_len() shows a name as it is on the disk, on a dentry that is not in use
\* under another
LEMMA LookupOneNames ==
    ASSUME RefInv, PairInv, DiskInv, NEW n \in Names, NEW d \in LDentries, LookupOne(n, d),
           disk' = disk
    PROVE  /\ DiskInv' /\ ld'[d].hashed /\ ld'[d].name = n
           /\ \A e \in LDentries \ {d} : ld'[e] = ld[e]
           /\ \A v \in UDentries : ud[v].low = d => ud[v].hashed /\ ud[v].name = n /\ ld' = ld
<1>1. /\ Sound /\ d \in Lowers /\ ld \in [Lowers -> LowerEntry] /\ d # None
      /\ \A v \in UDentries : v \in Uppers
      /\ \A e \in LDentries : e \in Lowers
  BY Known DEF RefInv, Sound, StackTypes
<1>2. CASE ld[d].hashed /\ ld[d].name = n /\ UNCHANGED <<lino, ld>>
  <2>1. DiskInv'
    BY <1>2 DEF DiskInv
  <2>2. \A v \in UDentries : ud[v].low = d => ud[v].hashed /\ ud[v].name = n
    BY <1>1, <1>2 DEF PairInv
  <2> QED BY <1>2, <2>1, <2>2
<1>3. CASE /\ ld[d] = NoLower /\ refs[d] = 0
           /\ ~\E e \in LDentries : ld[e].hashed /\ ld[e].name = n
           /\ \/ /\ disk[n] = None
                 /\ ld' = [ld EXCEPT ![d] = [NoLower EXCEPT !.name = n, !.hashed = TRUE]]
              \/ /\ disk[n] # None
                 /\ \E a \in LInodes :
                       /\ lino' = [lino EXCEPT ![a] = disk[n]]
                       /\ ld' = [ld EXCEPT ![d] = [name |-> n, hashed |-> TRUE, ino |-> a]]
  <2>1. \A v \in UDentries : ud[v].low # d
    BY <1>1, <1>3, Unheld
  <2>2. /\ ld'[d].hashed /\ ld'[d].name = n
        /\ disk[n] = IF ld'[d].ino = None THEN None ELSE lino'[ld'[d].ino]
    <3>1. CASE /\ disk[n] = None
               /\ ld' = [ld EXCEPT ![d] = [NoLower EXCEPT !.name = n, !.hashed = TRUE]]
      BY <1>1, <3>1 DEF NoLower
    <3>2. CASE /\ disk[n] # None
               /\ \E a \in LInodes :
                     /\ lino' = [lino EXCEPT ![a] = disk[n]]
                     /\ ld' = [ld EXCEPT ![d] = [name |-> n, hashed |-> TRUE, ino |-> a]]
      <4>1. PICK a \in LInodes :
                     /\ lino' = [lino EXCEPT ![a] = disk[n]]
                     /\ ld' = [ld EXCEPT ![d] = [name |-> n, hashed |-> TRUE, ino |-> a]]
        BY <3>2
      <4>2. a \in Inodes /\ a # None /\ lino \in [Inodes -> Files \cup {None, ARoot}]
        BY <1>1, Known DEF Sound, StackTypes
      <4>3. lino'[a] = disk[n]
        BY <4>1, <4>2
      <4>4. ld'[d] = [name |-> n, hashed |-> TRUE, ino |-> a]
        BY <1>1, <4>1
      <4> QED BY <4>2, <4>3, <4>4
    <3> QED BY <1>3, <3>1, <3>2
  <2>3. \A e \in LDentries \ {d} : ld'[e] = ld[e] /\ (ld[e].hashed => ld[e].name # n)
    BY <1>1, <1>3
  <2>4. \A e \in LDentries : ld[e].ino # None => lino'[ld[e].ino] = lino[ld[e].ino]
    <3>1. \A b \in LInodes : lino[b] # None => lino'[b] = lino[b]
      BY LookupOneSteps
    <3> QED BY <1>1, <3>1, Known DEF Sound, LowerOK
  <2>5. DiskInv'
    <3> SUFFICES ASSUME NEW e \in LDentries, ld'[e].hashed
                 PROVE  /\ ld'[e].name \in Names
                        /\ disk'[ld'[e].name] = IF ld'[e].ino = None THEN None ELSE lino'[ld'[e].ino]
                        /\ \A c \in LDentries : ld'[c].hashed /\ ld'[c].name = ld'[e].name => c = e
      BY DEF DiskInv
    <3>1. CASE e = d
      BY <2>2, <2>3, <3>1
    <3>2. CASE e # d
      BY <2>2, <2>3, <2>4, <3>2 DEF DiskInv
    <3> QED BY <3>1, <3>2
  <2> QED BY <2>1, <2>2, <2>3, <2>5
<1> QED BY <1>2, <1>3 DEF LookupOne

LEMMA LookupNoMemoryNames ==
    ASSUME RefInv, PairInv, DiskInv, NEW n \in Names, NEW d \in LDentries, LookupNoMemory(n, d)
    PROVE  PairInv' /\ DiskInv'
<1>1. LookupOne(n, d) /\ disk' = disk /\ ud' = ud
  BY DEF LookupNoMemory
<1>2. /\ DiskInv' /\ \A e \in LDentries \ {d} : ld'[e] = ld[e]
      /\ \A v \in UDentries : ud[v].low = d => ld' = ld
  BY <1>1, LookupOneNames
<1>3. \A v \in UDentries : ud[v].low # None => ud[v].low \in LDentries
  BY Known DEF RefInv
<1>4. PairInv'
  BY <1>1, <1>2, <1>3 DEF PairInv
<1> QED BY <1>2, <1>4

LEMMA LookupNames ==
    ASSUME RefInv, PairInv, DiskInv, NEW u \in UDentries, NEW n \in Names, NEW d \in LDentries,
           Lookup(u, n, d, TRUE)
    PROVE  PairInv' /\ DiskInv'
<1> DEFINE a == ld'[d].ino
           added == [name |-> n, low |-> d, ino |-> None, hashed |-> TRUE]
<1>1. /\ LookupOne(n, d) /\ disk' = disk /\ ~\E v \in UDentries : ud[v].hashed /\ ud[v].name = n
      /\ \/ a = None /\ ud' = [ud EXCEPT ![u] = added]
         \/ a # None /\ ud' = [ud EXCEPT ![u] = Instantiated(added, Iget5(a), TRUE)]
  BY DEF Lookup, Interpose
<1>2. /\ DiskInv' /\ ld'[d].hashed /\ ld'[d].name = n
      /\ \A e \in LDentries \ {d} : ld'[e] = ld[e]
      /\ \A v \in UDentries : ud[v].low # d
  BY <1>1, LookupOneNames
<1>3. /\ ud \in [Uppers -> UpperEntry] /\ u \in Uppers /\ \A v \in UDentries : v \in Uppers
      /\ \A v \in UDentries : ud[v].low # None => ud[v].low \in LDentries
  BY Known DEF RefInv, Sound, StackTypes
<1>4. /\ ud'[u].hashed /\ ud'[u].low = d /\ ud'[u].name = n /\ ud'[u].ino = a
      /\ \A v \in UDentries \ {u} : ud'[v] = ud[v]
  <2>1. CASE a = None /\ ud' = [ud EXCEPT ![u] = added]
    BY <1>3, <2>1
  <2>2. CASE a # None /\ ud' = [ud EXCEPT ![u] = Instantiated(added, Iget5(a), TRUE)]
    <3>1. Iget5(a) = a
      <4>1. a \in LInodes
        BY <1>1, <2>2, LookupOneSteps
      <4> HIDE DEF a
      <4> QED BY <4>1, IgetIs
    <3> DEFINE i == Instantiated(added, a, TRUE)
    <3>2. i = [added EXCEPT !.ino = a, !.hashed = TRUE]
      BY DEF Instantiated
    <3> HIDE DEF a
    <3>3. i.name = n /\ i.low = d /\ i.ino = a /\ i.hashed
      BY <3>2
    <3>4. ud'[u] = i /\ \A v \in UDentries \ {u} : ud'[v] = ud[v]
      BY <1>3, <2>2, <3>1
    <3> HIDE DEF i
    <3> QED BY <3>3, <3>4
  <2> QED BY <1>1, <2>1, <2>2
<1> HIDE DEF a, added
<1>5. PairInv'
  <2> SUFFICES ASSUME NEW v \in UDentries, ud'[v].low # None
               PROVE  LET e == ud'[v].low IN
                      /\ ud'[v].hashed <=> ld'[e].hashed
                      /\ ud'[v].hashed => /\ ld'[e].name = ud'[v].name
                                          /\ ud'[v].ino = None <=> ld'[e].ino = None
                      /\ \A w \in UDentries : ud'[w].low = e => w = v
    BY DEF PairInv
  <2>1. CASE v = u
    BY <1>2, <1>4, <2>1 DEF a
  <2>2. CASE v # u
    <3>1. ud'[v] = ud[v] /\ ud[v].low \in LDentries \ {d}
      BY <1>2, <1>3, <1>4, <2>2
    <3> QED BY <1>2, <1>4, <2>2, <3>1 DEF PairInv
  <2> QED BY <2>1, <2>2
<1> QED BY <1>2, <1>5

LEMMA RenameNames ==
    ASSUME RefInv, PairInv, DiskInv, NEW u \in UDentries, NEW v \in UDentries, Rename(u, v)
    PROVE  PairInv' /\ DiskInv'
<1> DEFINE d == ud[u].low
           e == ud[v].low
           f == lino[ld[d].ino]
<1>1. /\ Sound /\ u # v /\ ud[u].hashed /\ ud[v].hashed /\ ud[u].ino # None /\ lino' = lino
      /\ disk' = [disk EXCEPT ![ld[e].name] = f, ![ld[d].name] = None]
      /\ ld' = Moved(ld, d, e) /\ ud' = Moved(ud, u, v)
  BY DEF RefInv, Rename, Found, Negative
<1>2. /\ d \in LDentries /\ e \in LDentries /\ d \in Lowers /\ e \in Lowers /\ d # None /\ e # None
      /\ u \in Uppers /\ v \in Uppers /\ ud[u] \in UpperEntry /\ ud[v] \in UpperEntry
      /\ ud \in [Uppers -> UpperEntry] /\ ld \in [Lowers -> LowerEntry]
      /\ ld[d] \in LowerEntry /\ ld[e] \in LowerEntry /\ disk \in [Names -> Files \cup {None}]
      /\ \A w \in UDentries : w \in Uppers
      /\ \A x \in LDentries : x \in Lowers
  BY <1>1, Known DEF Sound, StackTypes
<1>3. /\ ld[d].hashed /\ ld[d].name = ud[u].name /\ ld[d].ino # None
      /\ \A w \in UDentries : ud[w].low = d => w = u
      /\ ld[e].hashed /\ ld[e].name = ud[v].name
      /\ \A w \in UDentries : ud[w].low = e => w = v
  BY <1>1, <1>2 DEF PairInv
<1>4. d # e
  BY <1>1, <1>3
<1>5. /\ ld[d].name \in Names /\ ld[e].name \in Names /\ ld[d].name # ld[e].name
      /\ \A x \in LDentries \ {d, e} : ld[x].hashed =>
            ld[x].name \in Names /\ ld[x].name # ld[d].name /\ ld[x].name # ld[e].name
  BY <1>2, <1>3, <1>4 DEF DiskInv
<1>6. f # None
  BY <1>1, <1>2, <1>3 DEF Sound, LowerOK
<1> HIDE DEF d, e, f
<1>7. /\ ld'[d].name = ld[e].name /\ ld'[d].hashed /\ ld'[d].ino = ld[d].ino /\ ~ld'[e].hashed
      /\ \A x \in LDentries \ {d, e} : ld'[x] = ld[x]
  <2>1. /\ ld'[d] = [ld[d] EXCEPT !.name = ld[e].name]
        /\ ld'[e] = [ld[e] EXCEPT !.name = ld[d].name, !.hashed = FALSE]
        /\ \A x \in LDentries \ {d, e} : ld'[x] = ld[x]
    BY <1>1, <1>2, <1>4 DEF Moved
  <2> QED BY <1>2, <1>3, <2>1 DEF LowerEntry
<1>8. /\ ud'[u].name = ud[v].name /\ ud'[u].hashed /\ ud'[u].ino = ud[u].ino /\ ~ud'[v].hashed
      /\ ud'[u].low = d /\ ud'[v].low = e /\ \A w \in UDentries \ {u, v} : ud'[w] = ud[w]
  <2>1. /\ ud'[u] = [ud[u] EXCEPT !.name = ud[v].name]
        /\ ud'[v] = [ud[v] EXCEPT !.name = ud[u].name, !.hashed = FALSE]
        /\ \A w \in UDentries \ {u, v} : ud'[w] = ud[w]
    BY <1>1, <1>2 DEF Moved
  <2> QED BY <1>1, <1>2, <2>1 DEF UpperEntry, d, e
<1>9. /\ disk'[ld[e].name] = f
      /\ \A n \in Names : n \notin {ld[d].name, ld[e].name} => disk'[n] = disk[n]
  BY <1>1, <1>2, <1>5
<1>10. DiskInv'
  <2> SUFFICES ASSUME NEW x \in LDentries, ld'[x].hashed
               PROVE  /\ ld'[x].name \in Names
                      /\ disk'[ld'[x].name] = IF ld'[x].ino = None THEN None ELSE lino'[ld'[x].ino]
                      /\ \A c \in LDentries : ld'[c].hashed /\ ld'[c].name = ld'[x].name => c = x
    BY DEF DiskInv
  <2>1. CASE x = d
    BY <1>1, <1>3, <1>5, <1>7, <1>9, <2>1 DEF f
  <2>2. CASE x # d
    <3>1. x # e /\ ld'[x] = ld[x] /\ ld[x].hashed
      BY <1>7, <2>2
    <3>2. disk'[ld[x].name] = disk[ld[x].name] /\ ld[x].name \in Names
      BY <1>5, <1>9, <2>2, <3>1
    <3>3. \A c \in LDentries : ld'[c].hashed /\ ld'[c].name = ld[x].name => c = x
      BY <1>5, <1>7, <2>2, <3>1 DEF DiskInv
    <3> QED BY <1>1, <3>1, <3>2, <3>3 DEF DiskInv
  <2> QED BY <2>1, <2>2
<1>11. PairInv'
  <2> SUFFICES ASSUME NEW w \in UDentries, ud'[w].low # None
               PROVE  LET x == ud'[w].low IN
                      /\ ud'[w].hashed <=> ld'[x].hashed
                      /\ ud'[w].hashed => /\ ld'[x].name = ud'[w].name
                                          /\ ud'[w].ino = None <=> ld'[x].ino = None
                      /\ \A y \in UDentries : ud'[y].low = x => y = w
    BY DEF PairInv
  <2>0. \A y \in UDentries : ud'[y].low = ud[y].low
    BY <1>8 DEF d, e
  <2>1. CASE w = u
    BY <1>1, <1>3, <1>7, <1>8, <2>0, <2>1
  <2>2. CASE w = v
    BY <1>3, <1>7, <1>8, <2>0, <2>2
  <2>3. CASE w \notin {u, v}
    <3>1. ud'[w] = ud[w] /\ ud[w].low \in LDentries \ {d, e}
      BY <1>1, <1>3, <1>8, <2>3, Known
    <3> QED BY <1>7, <2>0, <3>1 DEF PairInv
  <2> QED BY <2>1, <2>2, <2>3
<1> QED BY <1>10, <1>11

LEMMA DirectoryNames ==
    ASSUME RefInv, CountInv, PairInv, DiskInv, Fails = {}, Before36, ~Races, DirectoryNext
    PROVE  PairInv' /\ DiskInv'
<1> DEFINE Goal == PairInv' /\ DiskInv'
<1>0. Interposes = {TRUE}
  BY Interposing
<1>1. ASSUME NEW n \in Names, NEW d \in LDentries, LookupNoMemory(n, d) PROVE Goal
  BY <1>1, LookupNoMemoryNames
<1>2. ASSUME NEW n \in Names, NEW d \in LDentries, NEW u \in UDentries, Lookup(u, n, d, TRUE)
      PROVE  Goal
  BY <1>2, LookupNames
<1>3. ASSUME InterposeEnd PROVE Goal
  BY <1>3, FrameFades, FadesKeeps DEF InterposeEnd
<1>4. ASSUME NEW u \in UDentries, MakeAny(u, TRUE) PROVE Goal
  BY <1>4, MakeAnyMakes, MakeNames
<1>5. ASSUME NEW u \in UDentries, NEW v \in UDentries, Link(u, v, TRUE) PROVE Goal
  BY <1>5, LinkNames
<1>6. ASSUME NEW u \in UDentries, Unlink(u) \/ Rmdir(u) PROVE Goal
  BY <1>6, UnlinkNames, RmdirNames
<1>7. ASSUME NEW u \in UDentries, NEW v \in UDentries, Rename(u, v) PROVE Goal
  BY <1>7, RenameNames
<1>8. ASSUME NEW u \in UDentries, NEW valid \in BOOLEAN, Revalidate(u, valid) PROVE Goal
  BY <1>8, RevalidateNames
<1> HIDE DEF Goal
<1>9. Goal
  BY <1>0, <1>1, <1>2, <1>3, <1>4, <1>5, <1>6, <1>7, <1>8 DEF DirectoryNext
<1> QED BY <1>9 DEF Goal

NameInv == CountInv /\ PairInv /\ DiskInv

(***************************************************************************)
(* A name in the upper dcache is the same name below, with a file if and   *)
(* only if there is one.  A removal deletes the upper and the lower dentry *)
(* with a d_delete() each, which look at different counts: they do the     *)
(* same because the lower dentry has exactly the users it should, so this  *)
(* needs that statfs, which leaks one, is only called for the root.        *)
(***************************************************************************)
THEOREM NamesAreShown ==
    Fails = {} /\ Before36 /\ ~Races /\ StatfsOn \subseteq {URoot} => (StackSpec => []NamesAgree)
<1> SUFFICES ASSUME Fails = {}, Before36, ~Races, StatfsOn \subseteq {URoot}
             PROVE  StackSpec => []NamesAgree
  OBVIOUS
<1>1. StackInit => NameInv
  <2> SUFFICES ASSUME StackInit PROVE NameInv
    OBVIOUS
  <2>1. RefInv /\ Sound
    BY StackInitRef DEF RefInv
  <2>2. /\ \A u \in Uppers : ud[u].low = None
        /\ \A p \in Procs : proc[p].low = None
        /\ \A d \in LDentries : ~ld[d].hashed /\ refs[d] = 0 /\ d # None
    BY <2>1, Known DEF StackInit, NoUpper, NoLower, Idle, Objects, Lowers
  <2>3. CountInv
    <3> SUFFICES ASSUME NEW d \in LDentries PROVE Surplus(d) = 0
      BY DEF CountInv
    <3>1. d \in Lowers /\ d # None
      BY <2>1, Known
    <3>2. {u \in Uppers : ud[u].low = d} = {} /\ {p \in Procs : proc[p].low = d} = {}
      BY <2>2, <3>1
    <3>3. Ups(ud, d) = 0 /\ Paths(proc, d) = 0
      BY <3>1, <3>2, FS_EmptySet DEF Ups, Paths
    <3> QED BY <2>1, <2>2, <3>1, <3>3, UsersOfDentry
  <2>4. PairInv /\ DiskInv
    BY <2>2 DEF PairInv, DiskInv, Uppers
  <2> QED BY <2>3, <2>4 DEF NameInv
<1>2. SameInv /\ NameInv /\ [StackNext]_stackVars => NameInv'
  <2> SUFFICES ASSUME SameInv, NameInv, [StackNext]_stackVars PROVE NameInv'
    OBVIOUS
  <2>1. CountInv'
    BY CountStep DEF SameInv, NameInv
  <2>2. CASE UNCHANGED stackVars
    BY <2>1, <2>2 DEF NameInv, PairInv, DiskInv, stackVars, lowerVars
  <2>3. CASE StackNext
    <3>1. PairInv' /\ DiskInv'
      BY <2>3, DirectoryNames, FileNames, OtherNames DEF StackNext, SameInv, NameInv
    <3> QED BY <2>1, <3>1 DEF NameInv
  <2> QED BY <2>2, <2>3
<1>3. SameInv /\ NameInv => NamesAgree
  <2> SUFFICES ASSUME SameInv, NameInv, NEW u \in UDentries, ud[u].hashed
               PROVE  LET d == ud[u].low IN
                      /\ ld[d].hashed /\ ld[d].name = ud[u].name
                      /\ Negative(u) <=> disk[ud[u].name] = None
    BY DEF NamesAgree
  <2>1. /\ Sound /\ ud[u].low \in LDentries /\ ud[u].low # None
        /\ ld[ud[u].low].ino # None => lino[ld[ud[u].low].ino] # None
    BY Known DEF SameInv, RefInv, Sound, LowerOK
  <2>2. /\ ld[ud[u].low].hashed /\ ld[ud[u].low].name = ud[u].name
        /\ ud[u].ino = None <=> ld[ud[u].low].ino = None
    BY <2>1 DEF NameInv, PairInv
  <2>3. disk[ud[u].name] = IF ld[ud[u].low].ino = None THEN None ELSE lino[ld[ud[u].low].ino]
    BY <2>1, <2>2 DEF NameInv, DiskInv
  <2> QED BY <2>1, <2>2, <2>3 DEF Negative
<1> QED BY <1>1, <1>2, <1>3, SameInvHolds, PTL DEF StackSpec
=============================================================================
