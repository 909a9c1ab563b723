----------------------------- MODULE LoadProofs -----------------------------
(***************************************************************************)
(* Theorems about the load of the module, for any number of group devices, *)
(* any step that fails and any processes that use the devices meanwhile.   *)
(***************************************************************************)
EXTENDS ModuleLoad, SequenceTheorems, TLAPS

Words  == {"event_cache", "container_cache", "group_cache", "group_list",
           "chrdev_region", "class", "ctrl_cdev", "ctrl_device", "ign_cache",
           "ign_list", "ign_cdev", "ign_device", "group_cdev", "group_device",
           "file_info_cache", "dentry_info_cache", "sb_info_cache",
           "inode_info_cache", "filesystem"}
Things == Words \X Nat

\* the two lists that the processes fill
Lists == {GroupList, IgnList}

\* the resources of the load, in groups
EventSet == {GroupCache, ContainerCache, EventCache}
CacheSet == {InodeCache, SbCache, DentryCache, FileCache}
Cdevs(k) == {<<"group_cdev", j>> : j \in 0 .. k - 1}
Nodes(k) == {<<"group_device", j>> : j \in 0 .. k - 1}

(***************************************************************************)
(* The order in which error labels and destroy functions release: stages   *)
(* from the highest down, group devices of one stage by their minors.      *)
(***************************************************************************)
Stage(r) ==
    CASE r[1] = "event_cache"       -> 0
      [] r[1] = "container_cache"   -> 1
      [] r[1] = "group_cache"       -> 2
      [] r[1] = "group_list"        -> 3
      [] r[1] = "chrdev_region"     -> 4
      [] r[1] = "class"             -> 5
      [] r[1] = "ctrl_cdev"         -> 6
      [] r[1] = "ctrl_device"       -> 7
      [] r[1] = "ign_cache"         -> 8
      [] r[1] = "ign_list"          -> 9
      [] r[1] = "ign_cdev"          -> 10
      [] r[1] = "ign_device"        -> 11
      [] r[1] = "group_cdev"        -> 12
      [] r[1] = "group_device"      -> 13
      [] r[1] = "file_info_cache"   -> 14
      [] r[1] = "dentry_info_cache" -> 15
      [] r[1] = "sb_info_cache"     -> 16
      [] r[1] = "inode_info_cache"  -> 17
      [] r[1] = "filesystem"        -> 18
      [] OTHER                      -> 19

Before(r, q) == Stage(r) > Stage(q) \/ (Stage(r) = Stage(q) /\ r[2] < q[2])

\* the sequence s releases what is in X, each once and in this order
Undoes(s, X) ==
    /\ s \in Seq(Things)
    /\ X = {s[i] : i \in 1 .. Len(s)}
    /\ \A i, j \in 1 .. Len(s) : i < j => Before(s[i], s[j])
-----------------------------------------------------------------------------
LEMMA Stages ==
    /\ Stage(EventCache) = 0 /\ Stage(ContainerCache) = 1 /\ Stage(GroupCache) = 2
    /\ Stage(GroupList) = 3 /\ Stage(Region) = 4 /\ Stage(Class) = 5
    /\ Stage(CtrlCdev) = 6 /\ Stage(CtrlDevice) = 7
    /\ Stage(IgnCache) = 8 /\ Stage(IgnList) = 9 /\ Stage(IgnCdev) = 10
    /\ Stage(IgnDevice) = 11
    /\ \A j : Stage(<<"group_cdev", j>>) = 12 /\ Stage(<<"group_device", j>>) = 13
    /\ Stage(FileCache) = 14 /\ Stage(DentryCache) = 15 /\ Stage(SbCache) = 16
    /\ Stage(InodeCache) = 17 /\ Stage(Filesystem) = 18 /\ Stage(Nothing) = 19
BY DEF Stage, Res, EventCache, ContainerCache, GroupCache, GroupList, Region, Class,
       CtrlCdev, CtrlDevice, IgnCache, IgnList, IgnCdev, IgnDevice, FileCache,
       DentryCache, SbCache, InodeCache, Filesystem, Nothing

LEMMA AreThings ==
    /\ {EventCache, ContainerCache, GroupCache, GroupList, Region, Class, CtrlCdev,
        CtrlDevice, IgnCache, IgnList, IgnCdev, IgnDevice, FileCache, DentryCache,
        SbCache, InodeCache, Filesystem} \subseteq Things
    /\ \A j \in Nat : <<"group_cdev", j>> \in Things /\ <<"group_device", j>> \in Things
<1>1. \A n \in Words : Res(n) \in Things
  BY DEF Res, Things
<1>2. \A j \in Nat : <<"group_cdev", j>> \in Things /\ <<"group_device", j>> \in Things
  BY DEF Things, Words
<1> QED
  BY <1>1, <1>2 DEF Words, EventCache, ContainerCache, GroupCache, GroupList, Region, Class,
       CtrlCdev, CtrlDevice, IgnCache, IgnList, IgnCdev, IgnDevice, FileCache,
       DentryCache, SbCache, InodeCache, Filesystem

LEMMA StageType == ASSUME NEW r PROVE Stage(r) \in Nat
BY DEF Stage

LEMMA BeforeStrict ==
    ASSUME NEW r \in Things, NEW q \in Things, Before(r, q)
    PROVE  r # q /\ ~Before(q, r)
BY StageType DEF Before, Things

LEMMA NoneUndone == Undoes(<<>>, {})
BY DEF Undoes

LEMMA OneUndone == ASSUME NEW r \in Things PROVE Undoes(<<r>>, {r})
BY DEF Undoes

LEMMA ThenUndone ==
    ASSUME NEW s, NEW X, Undoes(s, X), NEW t, NEW Y, Undoes(t, Y),
           \A x \in X, y \in Y : Before(x, y)
    PROVE  Undoes(s \o t, X \cup Y)
<1> DEFINE u == s \o t
<1>1. u \in Seq(Things) /\ Len(u) = Len(s) + Len(t)
  BY DEF Undoes
<1>2. \A i \in 1 .. Len(u) : u[i] = IF i <= Len(s) THEN s[i] ELSE t[i - Len(s)]
  BY DEF Undoes
<1>3. Len(s) \in Nat /\ Len(t) \in Nat
  BY DEF Undoes
<1>4. X \cup Y = {u[i] : i \in 1 .. Len(u)}
  <2>1. ASSUME NEW x \in X \cup Y PROVE \E i \in 1 .. Len(u) : x = u[i]
    <3>1. CASE x \in X
      <4>1. PICK i \in 1 .. Len(s) : x = s[i]
        BY <3>1 DEF Undoes
      <4> QED BY <4>1, <1>1, <1>2, <1>3
    <3>2. CASE x \in Y
      <4>1. PICK i \in 1 .. Len(t) : x = t[i]
        BY <3>2 DEF Undoes
      <4>2. Len(s) + i \in 1 .. Len(u) /\ u[Len(s) + i] = t[i]
        BY <1>1, <1>2, <1>3
      <4> QED BY <4>1, <4>2
    <3> QED BY <3>1, <3>2
  <2>2. ASSUME NEW i \in 1 .. Len(u) PROVE u[i] \in X \cup Y
    BY <1>1, <1>2, <1>3 DEF Undoes
  <2> HIDE DEF u
  <2> QED BY <2>1, <2>2
<1>5. ASSUME NEW i \in 1 .. Len(u), NEW j \in 1 .. Len(u), i < j
      PROVE  Before(u[i], u[j])
  <2>1. CASE j <= Len(s)
    BY <2>1, <1>1, <1>2, <1>3, <1>5 DEF Undoes
  <2>2. CASE i <= Len(s) /\ j > Len(s)
    <3>1. u[i] = s[i] /\ u[i] \in X
      BY <2>2, <1>1, <1>2, <1>3 DEF Undoes
    <3>2. u[j] = t[j - Len(s)] /\ u[j] \in Y
      BY <2>2, <1>1, <1>2, <1>3 DEF Undoes
    <3> QED BY <3>1, <3>2
  <2>3. CASE i > Len(s)
    <3>1. i - Len(s) \in 1 .. Len(t) /\ j - Len(s) \in 1 .. Len(t)
      BY <2>3, <1>1, <1>3, <1>5
    <3>2. u[i] = t[i - Len(s)] /\ u[j] = t[j - Len(s)]
      BY <2>3, <1>1, <1>2, <1>3, <1>5
    <3> HIDE DEF u
    <3> QED BY <3>1, <3>2, <1>5, <1>3 DEF Undoes
  <2> QED BY <2>1, <2>2, <2>3, <1>3
<1> HIDE DEF u
<1>6. Undoes(u, X \cup Y)
  BY <1>1, <1>4, <1>5 DEF Undoes
<1> QED BY <1>6 DEF u

LEMMA HeadUndone ==
    ASSUME NEW s, NEW X, Undoes(s, X), s # <<>>
    PROVE  /\ Undoes(Tail(s), X \ {Head(s)})
           /\ Head(s) \in X
           /\ \A r \in X \ {Head(s)} : Before(Head(s), r)
           /\ X \subseteq Things
<1>1. Len(s) \in Nat /\ Len(s) > 0 /\ Head(s) = s[1] /\ Tail(s) \in Seq(Things)
      /\ Len(Tail(s)) = Len(s) - 1
      /\ \A i \in 1 .. Len(s) - 1 : Tail(s)[i] = s[i + 1]
  BY DEF Undoes
<1>2. \A i \in 1 .. Len(s) : s[i] \in Things
  BY DEF Undoes
<1>3. \A i \in 2 .. Len(s) : Before(s[1], s[i]) /\ s[i] # s[1]
  BY <1>1, <1>2, BeforeStrict DEF Undoes
<1>4. X \ {Head(s)} = {Tail(s)[i] : i \in 1 .. Len(Tail(s))}
  <2>1. ASSUME NEW x \in X \ {Head(s)} PROVE \E i \in 1 .. Len(Tail(s)) : x = Tail(s)[i]
    <3>1. PICK i \in 1 .. Len(s) : x = s[i]
      BY DEF Undoes
    <3>2. i - 1 \in 1 .. Len(Tail(s)) /\ x = Tail(s)[i - 1]
      BY <3>1, <1>1
    <3> QED BY <3>2
  <2>2. ASSUME NEW i \in 1 .. Len(Tail(s)) PROVE Tail(s)[i] \in X \ {Head(s)}
    BY <1>1, <1>3 DEF Undoes
  <2> QED BY <2>1, <2>2
<1>5. ASSUME NEW i \in 1 .. Len(Tail(s)), NEW j \in 1 .. Len(Tail(s)), i < j
      PROVE  Before(Tail(s)[i], Tail(s)[j])
  <2>1. i + 1 \in 1 .. Len(s) /\ j + 1 \in 1 .. Len(s) /\ i + 1 < j + 1
    BY <1>1, <1>5
  <2> QED BY <2>1, <1>1 DEF Undoes
<1>6. Head(s) \in X /\ X \subseteq Things
  BY <1>1, <1>2 DEF Undoes
<1>7. \A r \in X \ {Head(s)} : Before(Head(s), r)
  BY <1>1, <1>3 DEF Undoes
<1> QED BY <1>1, <1>4, <1>5, <1>6, <1>7 DEF Undoes
-----------------------------------------------------------------------------
(***************************************************************************)
(* The steps of the load by their numbers.                                 *)
(***************************************************************************)
LEMMA GroupSeqs ==
    /\ GroupCdevs \in Seq(Things) /\ Len(GroupCdevs) = GROUP_COUNT
    /\ GroupDevices \in Seq(Things) /\ Len(GroupDevices) = GROUP_COUNT
    /\ \A i \in 1 .. GROUP_COUNT : /\ GroupCdevs[i] = <<"group_cdev", i - 1>>
                                   /\ GroupDevices[i] = <<"group_device", i - 1>>
<1>1. GROUP_COUNT \in Nat
  BY LoadAssumption
<1>2. \A i \in 1 .. GROUP_COUNT : <<"group_cdev", i - 1>> \in Things
                                  /\ <<"group_device", i - 1>> \in Things
  BY <1>1, AreThings
<1>3. GroupCdevs \in [1 .. GROUP_COUNT -> Things]
  BY <1>2 DEF GroupCdevs
<1>4. GroupDevices \in [1 .. GROUP_COUNT -> Things]
  BY <1>2 DEF GroupDevices
<1>5. GroupCdevs \in Seq(Things) /\ GroupDevices \in Seq(Things)
  BY <1>1, <1>3, <1>4, IsASeq
<1>6. Len(GroupCdevs) = GROUP_COUNT /\ Len(GroupDevices) = GROUP_COUNT
  BY <1>1, <1>3, <1>4, <1>5, LenProperties
<1>7. \A i \in 1 .. GROUP_COUNT : /\ GroupCdevs[i] = <<"group_cdev", i - 1>>
                                  /\ GroupDevices[i] = <<"group_device", i - 1>>
  BY DEF GroupCdevs, GroupDevices
<1> QED BY <1>5, <1>6, <1>7

\* u is s, of length m, and then t, of length n
Joined(u, s, m, t, n) ==
    /\ u \in Seq(Things) /\ Len(u) = m + n
    /\ \A i \in 1 .. m : u[i] = s[i]
    /\ \A i \in 1 .. n : u[m + i] = t[i]

LEMMA JoinAt ==
    ASSUME NEW s \in Seq(Things), NEW t \in Seq(Things)
    PROVE  Joined(s \o t, s, Len(s), t, Len(t))
<1> DEFINE m == Len(s)
           n == Len(t)
           u == s \o t
<1>1. m \in Nat /\ n \in Nat
  OBVIOUS
<1>2. u \in Seq(Things) /\ Len(u) = m + n
      /\ \A i \in 1 .. m + n : u[i] = IF i <= m THEN s[i] ELSE t[i - m]
  BY ConcatProperties
<1> HIDE DEF m, n, u
<1>3. ASSUME NEW i \in 1 .. n PROVE u[m + i] = t[i]
  <2>1. m + i \in 1 .. m + n /\ ~(m + i <= m) /\ m + i - m = i
    BY <1>1
  <2> QED BY <1>1, <1>2, <2>1
<1>4. ASSUME NEW i \in 1 .. m PROVE u[i] = s[i]
  <2>1. i \in 1 .. m + n /\ i <= m
    BY <1>1
  <2> QED BY <1>1, <1>2, <2>1
<1>5. Joined(u, s, m, t, n)
  BY <1>2, <1>3, <1>4 DEF Joined
<1> QED BY <1>5 DEF m, n, u

\* what comes before and after the group devices
FirstSteps == InitEvents \o <<Region, Class>> \o CtrlInit \o IgnInit

LEMMA FirstTen ==
    /\ FirstSteps \in Seq(Things) /\ Len(FirstSteps) = 10
    /\ FirstSteps[1] = GroupCache /\ FirstSteps[2] = ContainerCache
    /\ FirstSteps[3] = EventCache /\ FirstSteps[4] = Region /\ FirstSteps[5] = Class
    /\ FirstSteps[6] = CtrlCdev /\ FirstSteps[7] = CtrlDevice
    /\ FirstSteps[8] = IgnCache /\ FirstSteps[9] = IgnCdev
    /\ FirstSteps[10] = IgnDevice
<1> DEFINE RC == <<Region, Class>>
           A  == InitEvents \o RC
           B  == A \o CtrlInit
<1>1. /\ InitEvents \in Seq(Things) /\ Len(InitEvents) = 3
      /\ InitEvents[1] = GroupCache /\ InitEvents[2] = ContainerCache
      /\ InitEvents[3] = EventCache
  BY AreThings DEF InitEvents
<1>2. RC \in Seq(Things) /\ Len(RC) = 2 /\ RC[1] = Region /\ RC[2] = Class
  BY AreThings
<1>3. /\ CtrlInit \in Seq(Things) /\ Len(CtrlInit) = 2
      /\ CtrlInit[1] = CtrlCdev /\ CtrlInit[2] = CtrlDevice
  BY AreThings DEF CtrlInit
<1>4. /\ IgnInit \in Seq(Things) /\ Len(IgnInit) = 3
      /\ IgnInit[1] = IgnCache /\ IgnInit[2] = IgnCdev /\ IgnInit[3] = IgnDevice
  BY AreThings DEF IgnInit
<1>5. FirstSteps = B \o IgnInit
  BY DEF FirstSteps
<1> HIDE DEF RC
<1>6. /\ A \in Seq(Things) /\ Len(A) = 5
      /\ \A i \in 1 .. 3 : A[i] = InitEvents[i]
      /\ \A i \in 1 .. 2 : A[3 + i] = RC[i]
  <2>1. Joined(A, InitEvents, 3, RC, 2)
    BY <1>1, <1>2, JoinAt
  <2> QED BY <2>1 DEF Joined
<1> HIDE DEF A
<1>7. /\ B \in Seq(Things) /\ Len(B) = 7
      /\ \A i \in 1 .. 5 : B[i] = A[i]
      /\ \A i \in 1 .. 2 : B[5 + i] = CtrlInit[i]
  <2>1. Joined(B, A, 5, CtrlInit, 2)
    BY <1>3, <1>6, JoinAt
  <2> QED BY <2>1 DEF Joined
<1> HIDE DEF B
<1>8. /\ FirstSteps \in Seq(Things) /\ Len(FirstSteps) = 10
      /\ \A i \in 1 .. 7 : FirstSteps[i] = B[i]
      /\ \A i \in 1 .. 3 : FirstSteps[7 + i] = IgnInit[i]
  <2>1. Joined(FirstSteps, B, 7, IgnInit, 3)
    BY <1>4, <1>5, <1>7, JoinAt
  <2> QED BY <2>1 DEF Joined
<1>9. /\ A[1] = GroupCache /\ A[2] = ContainerCache /\ A[3] = EventCache
      /\ A[4] = Region /\ A[5] = Class
  BY <1>1, <1>2, <1>6
<1>10. B[6] = CtrlCdev /\ B[7] = CtrlDevice
  BY <1>3, <1>7
<1>11. FirstSteps[8] = IgnCache /\ FirstSteps[9] = IgnCdev /\ FirstSteps[10] = IgnDevice
  BY <1>4, <1>8
<1> QED BY <1>7, <1>8, <1>9, <1>10, <1>11

LEMMA Steps ==
    /\ LoadSteps \in Seq(Things) /\ Len(LoadSteps) = 15 + 2 * GROUP_COUNT
    /\ \A i \in 1 .. 10 : LoadSteps[i] = FirstSteps[i]
    /\ \A j \in 0 .. GROUP_COUNT - 1 :
          /\ LoadSteps[11 + j] = <<"group_cdev", j>>
          /\ LoadSteps[11 + GROUP_COUNT + j] = <<"group_device", j>>
    /\ \A k \in 1 .. 4 : LoadSteps[10 + 2 * GROUP_COUNT + k] = InitCaches[k]
    /\ LoadSteps[15 + 2 * GROUP_COUNT] = Filesystem
<1> DEFINE G == GROUP_COUNT
           M == 2 * G
           B == FirstSteps \o GroupInit
           C == B \o InitCaches
           F == <<Filesystem>>
<1>0. G \in Nat /\ M \in Nat
  BY LoadAssumption
<1>1. /\ GroupInit \in Seq(Things) /\ Len(GroupInit) = G + G
      /\ \A i \in 1 .. G : GroupInit[i] = GroupCdevs[i]
      /\ \A i \in 1 .. G : GroupInit[G + i] = GroupDevices[i]
  <2>1. Joined(GroupInit, GroupCdevs, G, GroupDevices, G)
    BY GroupSeqs, JoinAt DEF GroupInit
  <2> QED BY <2>1 DEF Joined
<1>2. /\ B \in Seq(Things) /\ Len(B) = 10 + (G + G)
      /\ \A i \in 1 .. 10 : B[i] = FirstSteps[i]
      /\ \A i \in 1 .. G + G : B[10 + i] = GroupInit[i]
  <2>1. Joined(B, FirstSteps, 10, GroupInit, G + G)
    BY <1>1, FirstTen, JoinAt
  <2> QED BY <2>1 DEF Joined
<1>3. InitCaches \in Seq(Things) /\ Len(InitCaches) = 4
  BY AreThings DEF InitCaches
<1>4. LoadSteps = C \o F
  BY DEF LoadSteps, FirstSteps
<1>5. F \in Seq(Things) /\ Len(F) = 1 /\ F[1] = Filesystem
  BY AreThings
<1> HIDE DEF B, F
<1>6. /\ C \in Seq(Things) /\ Len(C) = 10 + (G + G) + 4
      /\ \A i \in 1 .. 10 + (G + G) : C[i] = B[i]
      /\ \A k \in 1 .. 4 : C[10 + (G + G) + k] = InitCaches[k]
  <2>1. Joined(C, B, 10 + (G + G), InitCaches, 4)
    BY <1>2, <1>3, JoinAt
  <2> QED BY <2>1 DEF Joined
<1> HIDE DEF C
<1>7. /\ LoadSteps \in Seq(Things) /\ Len(LoadSteps) = 10 + (G + G) + 4 + 1
      /\ \A i \in 1 .. 10 + (G + G) + 4 : LoadSteps[i] = C[i]
      /\ \A k \in 1 .. 1 : LoadSteps[10 + (G + G) + 4 + k] = F[k]
  <2>1. Joined(LoadSteps, C, 10 + (G + G) + 4, F, 1)
    BY <1>4, <1>5, <1>6, JoinAt
  <2> QED BY <2>1 DEF Joined
<1>8. ASSUME NEW i \in 1 .. 10 PROVE LoadSteps[i] = FirstSteps[i]
  <2>1. i \in 1 .. 10 + (G + G) + 4 /\ i \in 1 .. 10 + (G + G)
    BY <1>0
  <2> QED BY <1>2, <1>6, <1>7, <2>1
<1>9. ASSUME NEW j \in 0 .. G - 1
      PROVE  /\ LoadSteps[11 + j] = <<"group_cdev", j>>
             /\ LoadSteps[11 + G + j] = <<"group_device", j>>
  <2>1. \A i \in 1 .. G + G : LoadSteps[10 + i] = GroupInit[i]
    <3> TAKE i \in 1 .. G + G
    <3>1. 10 + i \in 1 .. 10 + (G + G) + 4 /\ 10 + i \in 1 .. 10 + (G + G)
      BY <1>0
    <3> QED BY <1>2, <1>6, <1>7, <3>1
  <2>2. /\ j + 1 \in 1 .. G /\ j + 1 \in 1 .. G + G /\ G + (j + 1) \in 1 .. G + G
        /\ 10 + (j + 1) = 11 + j /\ 10 + (G + (j + 1)) = 11 + G + j /\ j + 1 - 1 = j
    BY <1>0
  <2>3. LoadSteps[11 + j] = GroupCdevs[j + 1]
    BY <1>1, <2>1, <2>2
  <2>4. LoadSteps[11 + G + j] = GroupDevices[j + 1]
    BY <1>1, <2>1, <2>2
  <2>5. GroupCdevs[j + 1] = <<"group_cdev", j>> /\ GroupDevices[j + 1] = <<"group_device", j>>
    BY <2>2, GroupSeqs
  <2> QED BY <2>3, <2>4, <2>5
<1>10. ASSUME NEW k \in 1 .. 4 PROVE LoadSteps[10 + 2 * G + k] = InitCaches[k]
  <2>1. 10 + (G + G) + k \in 1 .. 10 + (G + G) + 4 /\ 10 + (G + G) + k = 10 + 2 * G + k
    BY <1>0
  <2> QED BY <1>6, <1>7, <2>1
<1>11. LoadSteps[15 + 2 * G] = Filesystem /\ Len(LoadSteps) = 15 + 2 * G
  <2>1. 10 + (G + G) + 4 + 1 = 15 + 2 * G
    BY <1>0
  <2> QED BY <1>5, <1>7, <2>1
<1> QED BY <1>7, <1>8, <1>9, <1>10, <1>11

LEMMA FirstStepsAre ==
    /\ LoadSteps[1] = GroupCache /\ LoadSteps[2] = ContainerCache
    /\ LoadSteps[3] = EventCache /\ LoadSteps[4] = Region /\ LoadSteps[5] = Class
    /\ LoadSteps[6] = CtrlCdev /\ LoadSteps[7] = CtrlDevice
    /\ LoadSteps[8] = IgnCache /\ LoadSteps[9] = IgnCdev /\ LoadSteps[10] = IgnDevice
<1>1. \A i \in 1 .. 10 : LoadSteps[i] = FirstSteps[i]
  BY Steps
<1> QED BY <1>1, FirstTen

LEMMA LastStepsAre ==
    /\ LoadSteps[11 + 2 * GROUP_COUNT] = InodeCache
    /\ LoadSteps[12 + 2 * GROUP_COUNT] = SbCache
    /\ LoadSteps[13 + 2 * GROUP_COUNT] = DentryCache
    /\ LoadSteps[14 + 2 * GROUP_COUNT] = FileCache
    /\ LoadSteps[15 + 2 * GROUP_COUNT] = Filesystem
<1> DEFINE G == GROUP_COUNT
<1>1. /\ 10 + 2 * G + 1 = 11 + 2 * G /\ 10 + 2 * G + 2 = 12 + 2 * G
      /\ 10 + 2 * G + 3 = 13 + 2 * G /\ 10 + 2 * G + 4 = 14 + 2 * G
  BY LoadAssumption
<1>2. \A k \in 1 .. 4 : LoadSteps[10 + 2 * G + k] = InitCaches[k]
  BY Steps
<1>3. /\ LoadSteps[10 + 2 * G + 1] = InitCaches[1] /\ LoadSteps[10 + 2 * G + 2] = InitCaches[2]
      /\ LoadSteps[10 + 2 * G + 3] = InitCaches[3] /\ LoadSteps[10 + 2 * G + 4] = InitCaches[4]
  BY <1>2
<1>4. InitCaches[1] = InodeCache /\ InitCaches[2] = SbCache
      /\ InitCaches[3] = DentryCache /\ InitCaches[4] = FileCache
  BY DEF InitCaches
<1>5. LoadSteps[15 + 2 * G] = Filesystem
  BY Steps
<1> QED BY <1>1, <1>3, <1>4, <1>5

\* what has been acquired before step n
Acquired(n) == {LoadSteps[i] : i \in 1 .. n - 1}

LEMMA AcquiredUpTo ==
    ASSUME NEW n, NEW m, n - 1 = m
    PROVE  Acquired(n) = {LoadSteps[i] : i \in 1 .. m}
BY DEF Acquired

LEMMA AcquireOne ==
    ASSUME NEW n \in Nat \ {0}, NEW m, m = n + 1
    PROVE  Acquired(m) = Acquired(n) \cup {LoadSteps[n]}
<1>1. m - 1 = n /\ 1 .. n = 1 .. n - 1 \cup {n}
  OBVIOUS
<1> QED BY <1>1 DEF Acquired

\* everything but what belongs to the group devices and comes after them
Base == EventSet \cup {Region, Class, CtrlCdev, CtrlDevice, IgnCache, IgnCdev, IgnDevice}

LEMMA AcquiredSets ==
    /\ Acquired(1) = {} /\ Acquired(2) = {GroupCache}
    /\ Acquired(3) = {GroupCache, ContainerCache}
    /\ Acquired(4) = EventSet
    /\ Acquired(5) = EventSet \cup {Region}
    /\ Acquired(6) = EventSet \cup {Region, Class}
    /\ Acquired(7) = EventSet \cup {Region, Class, CtrlCdev}
    /\ Acquired(8) = EventSet \cup {Region, Class, CtrlCdev, CtrlDevice}
    /\ Acquired(9) = EventSet \cup {Region, Class, CtrlCdev, CtrlDevice, IgnCache}
    /\ Acquired(10)
         = EventSet \cup {Region, Class, CtrlCdev, CtrlDevice, IgnCache, IgnCdev}
    /\ \A k \in 0 .. GROUP_COUNT : Acquired(11 + k) = Base \cup Cdevs(k)
    /\ \A k \in 0 .. GROUP_COUNT : Acquired(11 + GROUP_COUNT + k)
         = Base \cup Cdevs(GROUP_COUNT) \cup Nodes(k)
    /\ Acquired(12 + 2 * GROUP_COUNT)
         = Base \cup Cdevs(GROUP_COUNT) \cup Nodes(GROUP_COUNT) \cup {InodeCache}
    /\ Acquired(13 + 2 * GROUP_COUNT)
         = Base \cup Cdevs(GROUP_COUNT) \cup Nodes(GROUP_COUNT) \cup {InodeCache, SbCache}
    /\ Acquired(14 + 2 * GROUP_COUNT)
         = Base \cup Cdevs(GROUP_COUNT) \cup Nodes(GROUP_COUNT)
                                \cup {InodeCache, SbCache, DentryCache}
    /\ Acquired(15 + 2 * GROUP_COUNT)
         = Base \cup Cdevs(GROUP_COUNT) \cup Nodes(GROUP_COUNT) \cup CacheSet
    /\ Acquired(16 + 2 * GROUP_COUNT)
         = Base \cup Cdevs(GROUP_COUNT) \cup Nodes(GROUP_COUNT) \cup CacheSet \cup {Filesystem}
<1> DEFINE G == GROUP_COUNT
<1>0. G \in Nat
  BY LoadAssumption
<1>1. Acquired(1) = {}
  BY DEF Acquired
<1>2. Acquired(2) = {GroupCache}
  BY <1>1, FirstStepsAre, AcquireOne, 1 + 1 = 2
<1>3. Acquired(3) = {GroupCache, ContainerCache}
  BY <1>2, FirstStepsAre, AcquireOne, 2 + 1 = 3
<1>4. Acquired(4) = EventSet
  BY <1>3, FirstStepsAre, AcquireOne, 3 + 1 = 4 DEF EventSet
<1>5. Acquired(5) = EventSet \cup {Region}
  BY <1>4, FirstStepsAre, AcquireOne, 4 + 1 = 5
<1>6. Acquired(6) = EventSet \cup {Region, Class}
  BY <1>5, FirstStepsAre, AcquireOne, 5 + 1 = 6
<1>7. Acquired(7) = EventSet \cup {Region, Class, CtrlCdev}
  BY <1>6, FirstStepsAre, AcquireOne, 6 + 1 = 7
<1>8. Acquired(8) = EventSet \cup {Region, Class, CtrlCdev, CtrlDevice}
  BY <1>7, FirstStepsAre, AcquireOne, 7 + 1 = 8
<1>9. Acquired(9) = EventSet \cup {Region, Class, CtrlCdev, CtrlDevice, IgnCache}
  BY <1>8, FirstStepsAre, AcquireOne, 8 + 1 = 9
<1>10. Acquired(10) = EventSet \cup {Region, Class, CtrlCdev, CtrlDevice, IgnCache, IgnCdev}
  BY <1>9, FirstStepsAre, AcquireOne, 9 + 1 = 10
<1>11. Acquired(11) = Base
  BY <1>10, FirstStepsAre, AcquireOne, 10 + 1 = 11 DEF Base
<1>12. ASSUME NEW k \in 0 .. G PROVE Acquired(11 + k) = Base \cup Cdevs(k)
  <2>1. Acquired(11 + k) = Acquired(11) \cup {LoadSteps[11 + j] : j \in 0 .. k - 1}
    <3>1. ASSUME NEW i \in 1 .. 10 + k, i > 10 PROVE i - 11 \in 0 .. k - 1 /\ 11 + (i - 11) = i
      BY <3>1, <1>0
    <3>2. ASSUME NEW j \in 0 .. k - 1 PROVE 11 + j \in 1 .. 10 + k
      BY <1>0
    <3>3. 11 + k - 1 = 10 + k /\ 11 - 1 = 10 /\ 1 .. 10 \subseteq 1 .. 10 + k
      BY <1>0
    <3>4. \A i \in 1 .. 10 + k : i \in 1 .. 10 \/ i > 10
      BY <1>0
    <3> QED BY <3>1, <3>2, <3>3, <3>4 DEF Acquired
  <2>2. {LoadSteps[11 + j] : j \in 0 .. k - 1} = Cdevs(k)
    <3>1. \A j \in 0 .. k - 1 : LoadSteps[11 + j] = <<"group_cdev", j>>
      <4> TAKE j \in 0 .. k - 1
      <4>1. j \in 0 .. G - 1
        BY <1>0
      <4> QED BY <4>1, Steps
    <3> QED BY <3>1, Zenon DEF Cdevs
  <2> QED BY <1>11, <2>1, <2>2
<1>13. ASSUME NEW k \in 0 .. G PROVE Acquired(11 + G + k) = Base \cup Cdevs(G) \cup Nodes(k)
  <2>1. Acquired(11 + G + k)
          = Acquired(11 + G) \cup {LoadSteps[11 + G + j] : j \in 0 .. k - 1}
    <3>1. ASSUME NEW i \in 1 .. 10 + G + k, i > 10 + G
          PROVE  i - (11 + G) \in 0 .. k - 1 /\ 11 + G + (i - (11 + G)) = i
      BY <3>1, <1>0
    <3>2. ASSUME NEW j \in 0 .. k - 1 PROVE 11 + G + j \in 1 .. 10 + G + k
      BY <1>0
    <3>3. 11 + G + k - 1 = 10 + G + k /\ 11 + G - 1 = 10 + G
          /\ 1 .. 10 + G \subseteq 1 .. 10 + G + k
      BY <1>0
    <3>4. \A i \in 1 .. 10 + G + k : i \in 1 .. 10 + G \/ i > 10 + G
      BY <1>0
    <3>5. Acquired(11 + G + k) = {LoadSteps[i] : i \in 1 .. 10 + G + k}
      BY <1>0, <3>3, AcquiredUpTo
    <3>5a. Acquired(11 + G) = {LoadSteps[i] : i \in 1 .. 10 + G}
      BY <1>0, <3>3, AcquiredUpTo
    <3>6. ASSUME NEW i \in 1 .. 10 + G + k
          PROVE  LoadSteps[i] \in Acquired(11 + G)
                   \cup {LoadSteps[11 + G + j] : j \in 0 .. k - 1}
      BY <3>1, <3>4, <3>5a
    <3>7. ASSUME NEW j \in 0 .. k - 1 PROVE LoadSteps[11 + G + j] \in Acquired(11 + G + k)
      BY <3>2, <3>5
    <3>8. Acquired(11 + G) \subseteq Acquired(11 + G + k)
      BY <3>3, <3>5, <3>5a
    <3> QED BY <3>5, <3>6, <3>7, <3>8
  <2>2. {LoadSteps[11 + G + j] : j \in 0 .. k - 1} = Nodes(k)
    <3>1. \A j \in 0 .. k - 1 : LoadSteps[11 + G + j] = <<"group_device", j>>
      <4> TAKE j \in 0 .. k - 1
      <4>1. j \in 0 .. G - 1
        BY <1>0
      <4> QED BY <4>1, Steps
    <3> QED BY <3>1, Zenon DEF Nodes
  <2>3. G \in 0 .. G
    BY <1>0
  <2> QED BY <1>12, <2>1, <2>2, <2>3
<1>14. Acquired(11 + 2 * G) = Base \cup Cdevs(G) \cup Nodes(G)
  <2>1. G \in 0 .. G /\ 11 + G + G = 11 + 2 * G
    BY <1>0
  <2> QED BY <1>13, <2>1
<1>15. /\ 11 + 2 * G \in Nat \ {0} /\ 11 + 2 * G + 1 = 12 + 2 * G
       /\ 12 + 2 * G \in Nat \ {0} /\ 12 + 2 * G + 1 = 13 + 2 * G
       /\ 13 + 2 * G \in Nat \ {0} /\ 13 + 2 * G + 1 = 14 + 2 * G
       /\ 14 + 2 * G \in Nat \ {0} /\ 14 + 2 * G + 1 = 15 + 2 * G
       /\ 15 + 2 * G \in Nat \ {0} /\ 15 + 2 * G + 1 = 16 + 2 * G
  BY <1>0
<1> DEFINE D == Base \cup Cdevs(G) \cup Nodes(G)
<1>16. Acquired(12 + 2 * G) = D \cup {InodeCache}
  BY <1>14, <1>15, AcquireOne, LastStepsAre
<1>17. Acquired(13 + 2 * G) = D \cup {InodeCache, SbCache}
  BY <1>16, <1>15, AcquireOne, LastStepsAre
<1>18. Acquired(14 + 2 * G) = D \cup {InodeCache, SbCache, DentryCache}
  BY <1>17, <1>15, AcquireOne, LastStepsAre
<1>19. Acquired(15 + 2 * G) = D \cup CacheSet
  BY <1>18, <1>15, AcquireOne, LastStepsAre DEF CacheSet
<1>20. Acquired(16 + 2 * G) = D \cup CacheSet \cup {Filesystem}
  BY <1>19, <1>15, AcquireOne, LastStepsAre
<1> QED
  BY <1>1, <1>2, <1>3, <1>4, <1>5, <1>6, <1>7, <1>8, <1>9, <1>10, <1>12, <1>13,
     <1>16, <1>17, <1>18, <1>19, <1>20
-----------------------------------------------------------------------------
(***************************************************************************)
(* What the error labels and destroy functions release.                    *)
(***************************************************************************)
U2 == EventSet \cup {GroupList}
U3 == U2 \cup {Region}
U4 == U3 \cup {Class}
U5 == U4 \cup {CtrlCdev, CtrlDevice}
U6 == U5 \cup {IgnCache, IgnList, IgnCdev, IgnDevice}
UDev == U6 \cup Cdevs(GROUP_COUNT) \cup Nodes(GROUP_COUNT)

LEMMA SetStages ==
    /\ \A r \in EventSet : Stage(r) \in 0 .. 2
    /\ \A r \in U2 : Stage(r) \in 0 .. 3
    /\ \A r \in U3 : Stage(r) \in 0 .. 4
    /\ \A r \in U4 : Stage(r) \in 0 .. 5
    /\ \A r \in U5 : Stage(r) \in 0 .. 7
    /\ \A r \in U6 : Stage(r) \in 0 .. 11
    /\ \A k : \A r \in Cdevs(k) : Stage(r) = 12
    /\ \A k : \A r \in Nodes(k) : Stage(r) = 13
    /\ \A r \in UDev : Stage(r) \in 0 .. 13
    /\ \A r \in CacheSet : Stage(r) \in 14 .. 17
<1>1. /\ \A r \in EventSet : Stage(r) \in 0 .. 2
      /\ \A r \in CacheSet : Stage(r) \in 14 .. 17
  BY Stages DEF EventSet, CacheSet
<1>2. \A r \in U2 : Stage(r) \in 0 .. 3
  BY <1>1, Stages DEF U2
<1>3. \A r \in U3 : Stage(r) \in 0 .. 4
  BY <1>2, Stages DEF U3
<1>4. \A r \in U4 : Stage(r) \in 0 .. 5
  BY <1>3, Stages DEF U4
<1>5. \A r \in U5 : Stage(r) \in 0 .. 7
  BY <1>4, Stages DEF U5
<1>6. \A r \in U6 : Stage(r) \in 0 .. 11
  BY <1>5, Stages DEF U6
<1>7. ASSUME NEW k, NEW r \in Cdevs(k) PROVE Stage(r) = 12
  BY Stages DEF Cdevs
<1>8. ASSUME NEW k, NEW r \in Nodes(k) PROVE Stage(r) = 13
  BY Stages DEF Nodes
<1>9. \A r \in UDev : Stage(r) \in 0 .. 13
  BY <1>6, <1>7, <1>8 DEF UDev
<1> QED BY <1>1, <1>2, <1>3, <1>4, <1>5, <1>6, <1>7, <1>8, <1>9

LEMMA IfMadeUndone ==
    ASSUME NEW r \in Things
    PROVE  Undoes(IfMade(r), held \cap {r})
<1>1. CASE r \in held
  <2>1. held \cap {r} = {r}
    BY <1>1
  <2> QED BY <1>1, <2>1, OneUndone DEF IfMade
<1>2. CASE r \notin held
  <2>1. held \cap {r} = {}
    BY <1>2
  <2> QED BY <1>2, <2>1, NoneUndone DEF IfMade
<1> QED BY <1>1, <1>2

LEMMA EventsUndone == Undoes(EventsUndo, held \cap EventSet)
<1> DEFINE A == IfMade(GroupCache)
           B == IfMade(ContainerCache)
           C == IfMade(EventCache)
<1>1. /\ Undoes(A, held \cap {GroupCache}) /\ Undoes(B, held \cap {ContainerCache})
      /\ Undoes(C, held \cap {EventCache})
  BY IfMadeUndone, AreThings
<1>2. EventsUndo = (A \o B) \o C
  BY DEF EventsUndo
<1> HIDE DEF A, B, C
<1>3. Undoes(A \o B, (held \cap {GroupCache}) \cup (held \cap {ContainerCache}))
  <2>1. \A x \in held \cap {GroupCache}, y \in held \cap {ContainerCache} : Before(x, y)
    BY Stages DEF Before
  <2> QED BY <1>1, <2>1, ThenUndone
<1>4. Undoes((A \o B) \o C, (held \cap {GroupCache}) \cup (held \cap {ContainerCache})
                              \cup (held \cap {EventCache}))
  <2>1. \A x \in (held \cap {GroupCache}) \cup (held \cap {ContainerCache}),
           y \in held \cap {EventCache} : Before(x, y)
    BY Stages DEF Before
  <2> QED BY <1>1, <1>3, <2>1, ThenUndone
<1>5. (held \cap {GroupCache}) \cup (held \cap {ContainerCache})
        \cup (held \cap {EventCache}) = held \cap EventSet
  BY DEF EventSet
<1> QED BY <1>2, <1>4, <1>5

LEMMA CachesUndone == Undoes(DestroyCaches, held \cap CacheSet)
<1> DEFINE A == IfMade(InodeCache)
           B == IfMade(SbCache)
           C == IfMade(DentryCache)
           D == IfMade(FileCache)
           AB == (held \cap {InodeCache}) \cup (held \cap {SbCache})
           ABC == AB \cup (held \cap {DentryCache})
<1>1. /\ Undoes(A, held \cap {InodeCache}) /\ Undoes(B, held \cap {SbCache})
      /\ Undoes(C, held \cap {DentryCache}) /\ Undoes(D, held \cap {FileCache})
  BY IfMadeUndone, AreThings
<1>2. DestroyCaches = ((A \o B) \o C) \o D
  BY DEF DestroyCaches
<1> HIDE DEF A, B, C, D
<1>3. Undoes(A \o B, AB)
  <2>1. \A x \in held \cap {InodeCache}, y \in held \cap {SbCache} : Before(x, y)
    BY Stages DEF Before
  <2> QED BY <1>1, <2>1, ThenUndone
<1>4. Undoes((A \o B) \o C, ABC)
  <2>1. \A x \in AB, y \in held \cap {DentryCache} : Before(x, y)
    BY Stages DEF Before
  <2> QED BY <1>1, <1>3, <2>1, ThenUndone
<1>5. Undoes(((A \o B) \o C) \o D, ABC \cup (held \cap {FileCache}))
  <2>1. \A x \in ABC, y \in held \cap {FileCache} : Before(x, y)
    BY Stages DEF Before
  <2> QED BY <1>1, <1>4, <2>1, ThenUndone
<1>6. ABC \cup (held \cap {FileCache}) = held \cap CacheSet
  BY DEF CacheSet
<1> QED BY <1>2, <1>5, <1>6

\* GroupCdevs and GroupDevices, as far as they were made
LEMMA GroupsUndone ==
    ASSUME NEW k \in 0 .. GROUP_COUNT
    PROVE  /\ Undoes(SubSeq(GroupCdevs, 1, k), Cdevs(k))
           /\ Undoes(SubSeq(GroupDevices, 1, k), Nodes(k))
<1>0. GROUP_COUNT \in Nat
  BY LoadAssumption
<1>1. ASSUME NEW s \in Seq(Things), Len(s) = GROUP_COUNT
      PROVE  /\ SubSeq(s, 1, k) \in Seq(Things) /\ Len(SubSeq(s, 1, k)) = k
             /\ \A i \in 1 .. k : SubSeq(s, 1, k)[i] = s[i]
  BY <1>0, <1>1, SubSeqProperties
<1> DEFINE C == SubSeq(GroupCdevs, 1, k)
           D == SubSeq(GroupDevices, 1, k)
<1>2. /\ C \in Seq(Things) /\ Len(C) = k
      /\ \A i \in 1 .. k : C[i] = GroupCdevs[i]
  BY <1>1, GroupSeqs
<1>3. /\ D \in Seq(Things) /\ Len(D) = k
      /\ \A i \in 1 .. k : D[i] = GroupDevices[i]
  BY <1>1, GroupSeqs
<1> HIDE DEF C, D
<1>4. \A i \in 1 .. k : i \in 1 .. GROUP_COUNT
  BY <1>0
<1>5. \A i \in 1 .. k : C[i] = <<"group_cdev", i - 1>> /\ D[i] = <<"group_device", i - 1>>
  BY <1>2, <1>3, <1>4, GroupSeqs
<1>6. \A i \in 1 .. k : i - 1 \in 0 .. k - 1
  BY <1>0
<1>7. \A j \in 0 .. k - 1 : j + 1 \in 1 .. k /\ (j + 1) - 1 = j
  BY <1>0
<1>8. Cdevs(k) = {C[i] : i \in 1 .. Len(C)} /\ Nodes(k) = {D[i] : i \in 1 .. Len(D)}
  <2>1. ASSUME NEW i \in 1 .. k PROVE C[i] \in Cdevs(k) /\ D[i] \in Nodes(k)
    BY <1>5, <1>6 DEF Cdevs, Nodes
  <2>2. ASSUME NEW j \in 0 .. k - 1
        PROVE  C[j + 1] = <<"group_cdev", j>> /\ D[j + 1] = <<"group_device", j>>
    BY <1>0, <1>5, <1>7
  <2>3. \A r \in Cdevs(k) : \E i \in 1 .. k : r = C[i]
    BY <1>7, <2>2 DEF Cdevs
  <2>4. \A r \in Nodes(k) : \E i \in 1 .. k : r = D[i]
    BY <1>7, <2>2 DEF Nodes
  <2> QED BY <1>2, <1>3, <2>1, <2>3, <2>4
<1>9. ASSUME NEW i \in 1 .. k, NEW j \in 1 .. k, i < j
      PROVE  Before(C[i], C[j]) /\ Before(D[i], D[j])
  BY <1>0, <1>5, <1>9, Stages DEF Before
<1>10. Undoes(C, Cdevs(k)) /\ Undoes(D, Nodes(k))
  BY <1>2, <1>3, <1>8, <1>9 DEF Undoes
<1> QED BY <1>10 DEF C, D

LEMMA AllGroupsUndone ==
    Undoes(GroupCdevs, Cdevs(GROUP_COUNT)) /\ Undoes(GroupDevices, Nodes(GROUP_COUNT))
<1>1. GROUP_COUNT \in 0 .. GROUP_COUNT
  BY LoadAssumption
<1>2. SubSeq(GroupCdevs, 1, GROUP_COUNT) = GroupCdevs
      /\ SubSeq(GroupDevices, 1, GROUP_COUNT) = GroupDevices
  BY GroupSeqs, SubSeqFull, Zenon
<1> QED BY <1>1, <1>2, GroupsUndone

\* a sequence whose stages are all above those of the rest
LEMMA ThenLower ==
    ASSUME NEW s, NEW X, Undoes(s, X), NEW t, NEW Y, Undoes(t, Y), NEW n \in Nat,
           \A x \in X : Stage(x) > n, \A y \in Y : Stage(y) <= n
    PROVE  Undoes(s \o t, X \cup Y)
<1>1. \A x \in X, y \in Y : Before(x, y)
  BY StageType DEF Before
<1> QED BY <1>1, ThenUndone

LEMMA LabelsUndone ==
    /\ Undoes(error_out2, U2) /\ Undoes(error_out3, U3) /\ Undoes(error_out4, U4)
    /\ Undoes(error_out5, U5) /\ Undoes(error_out6, U6) /\ Undoes(DevDestroy, UDev)
<1>1. Undoes(error_out2, U2)
  <2> DEFINE s == <<GroupList, GroupCache, ContainerCache, EventCache>>
  <2>1. s \in Seq(Things) /\ Len(s) = 4
    BY AreThings
  <2>2. U2 = {s[i] : i \in 1 .. 4}
    BY DEF U2, EventSet
  <2>3. ASSUME NEW i \in 1 .. 4, NEW j \in 1 .. 4, i < j PROVE Before(s[i], s[j])
    BY <2>3, Stages DEF Before
  <2>4. error_out2 = s
    BY DEF error_out2, DestroyEvents
  <2> HIDE DEF s
  <2> QED BY <2>1, <2>2, <2>3, <2>4 DEF Undoes
<1>2. Undoes(error_out3, U3)
  <2>1. Undoes(<<Region>> \o error_out2, {Region} \cup U2)
    <3>1. Undoes(<<Region>>, {Region})
      BY OneUndone, AreThings
    <3>2. (\A x \in {Region} : Stage(x) > 3) /\ (\A y \in U2 : Stage(y) <= 3) /\ 3 \in Nat
      BY Stages, SetStages
    <3> QED BY <1>1, <3>1, <3>2, ThenLower
  <2>2. {Region} \cup U2 = U3
    BY DEF U3
  <2> QED BY <2>1, <2>2 DEF error_out3
<1>3. Undoes(error_out4, U4)
  <2>1. Undoes(<<Class>> \o error_out3, {Class} \cup U3)
    <3>1. Undoes(<<Class>>, {Class})
      BY OneUndone, AreThings
    <3>2. (\A x \in {Class} : Stage(x) > 4) /\ (\A y \in U3 : Stage(y) <= 4) /\ 4 \in Nat
      BY Stages, SetStages
    <3> QED BY <1>2, <3>1, <3>2, ThenLower
  <2>2. {Class} \cup U3 = U4
    BY DEF U4
  <2> QED BY <2>1, <2>2 DEF error_out4
<1>4. Undoes(error_out5, U5)
  <2>1. Undoes(CtrlDestroy, {CtrlDevice, CtrlCdev})
    <3> DEFINE s == <<CtrlDevice, CtrlCdev>>
    <3>1. s \in Seq(Things) /\ Len(s) = 2
      BY AreThings
    <3>2. {CtrlDevice, CtrlCdev} = {s[i] : i \in 1 .. 2}
      OBVIOUS
    <3>3. ASSUME NEW i \in 1 .. 2, NEW j \in 1 .. 2, i < j PROVE Before(s[i], s[j])
      BY <3>3, Stages DEF Before
    <3>4. CtrlDestroy = s
      BY DEF CtrlDestroy
    <3> HIDE DEF s
    <3> QED BY <3>1, <3>2, <3>3, <3>4 DEF Undoes
  <2>2. Undoes(CtrlDestroy \o error_out4, {CtrlDevice, CtrlCdev} \cup U4)
    BY <1>3, <2>1, Stages, SetStages, ThenLower, 5 \in Nat
  <2>3. {CtrlDevice, CtrlCdev} \cup U4 = U5
    BY DEF U5
  <2> QED BY <2>2, <2>3 DEF error_out5
<1>5. Undoes(error_out6, U6)
  <2> DEFINE X == {IgnDevice, IgnCdev, IgnList, IgnCache}
  <2>1. Undoes(IgnDestroy, X)
    <3> DEFINE s == <<IgnDevice, IgnCdev, IgnList, IgnCache>>
    <3>1. s \in Seq(Things) /\ Len(s) = 4
      BY AreThings
    <3>2. X = {s[i] : i \in 1 .. 4}
      OBVIOUS
    <3>3. ASSUME NEW i \in 1 .. 4, NEW j \in 1 .. 4, i < j PROVE Before(s[i], s[j])
      BY <3>3, Stages DEF Before
    <3>4. IgnDestroy = s
      BY DEF IgnDestroy
    <3> HIDE DEF s
    <3> QED BY <3>1, <3>2, <3>3, <3>4 DEF Undoes
  <2>2. Undoes(IgnDestroy \o error_out5, X \cup U5)
    BY <1>4, <2>1, Stages, SetStages, ThenLower, 7 \in Nat
  <2>3. X \cup U5 = U6
    BY DEF U6
  <2> QED BY <2>2, <2>3 DEF error_out6
<1>6. Undoes(DevDestroy, UDev)
  <2> DEFINE G == GROUP_COUNT
  <2>1. Undoes(GroupDevices \o GroupCdevs, Nodes(G) \cup Cdevs(G))
    BY AllGroupsUndone, SetStages, ThenLower, 12 \in Nat
  <2>2. Undoes((GroupDevices \o GroupCdevs) \o error_out6, (Nodes(G) \cup Cdevs(G)) \cup U6)
    BY <1>5, <2>1, SetStages, ThenLower, 11 \in Nat
  <2>3. (Nodes(G) \cup Cdevs(G)) \cup U6 = UDev
    BY DEF UDev
  <2> QED BY <2>2, <2>3 DEF DevDestroy, GroupDestroy
<1> QED BY <1>1, <1>2, <1>3, <1>4, <1>5, <1>6
-----------------------------------------------------------------------------
(***************************************************************************)
(* Invariants.                                                             *)
(***************************************************************************)
Kept == held \ Lists

\* what r cannot do without: Requires, the cdev behind a node, and what the
\* handlers of a device or of the filesystem work with
Needs(r) == Requires(r) \cup (IF r \in DOMAIN CdevOf THEN {CdevOf[r]} ELSE {})
              \cup (IF r \in DOMAIN CdevOf \cup {Filesystem} THEN WorksWith(r) ELSE {})

\* what is still to be released
UndoSet == {undo[i] : i \in 1 .. Len(undo)}

(***************************************************************************)
(* Whatever fails, and whoever uses the devices: the load has acquired the *)
(* steps before next, and while it is undone exactly what is left is still *)
(* to be released, nothing before what needs it.                           *)
(***************************************************************************)
LoadInv ==
    /\ phase \in {"absent", "loading", "live", "undoing", "exit"}
    /\ phase = "absent" => Kept = {}
    /\ phase = "loading" => next \in 1 .. Len(LoadSteps) /\ Kept = Acquired(next)
    /\ phase = "live" => Kept = Acquired(Len(LoadSteps) + 1)
    /\ phase \in {"undoing", "exit"} => Undoes(undo, UndoSet) /\ UndoSet \ Lists = Kept
    /\ phase \notin {"undoing", "exit"} => undo = <<>>
    /\ \A r \in Kept : Needs(r) \subseteq Kept

(***************************************************************************)
(* If no step fails while a device is open, the users and what they have   *)
(* added to the lists are gone before the caches they need.                *)
(***************************************************************************)
UseInv ==
    /\ uses \in [Procs -> DOMAIN CdevOf \cup {Nothing, Filesystem}]
    /\ \A p \in Procs :
          /\ uses[p] # Nothing => phase \in {"loading", "live"}
          /\ uses[p] \in DOMAIN CdevOf => uses[p] \in Kept
          /\ uses[p] = Filesystem => phase = "live"
    /\ GroupList \in held =>
          /\ phase # "absent" /\ GroupCache \in Kept
          /\ phase \in {"loading", "live"} => CtrlDevice \in Kept
          /\ phase \in {"undoing", "exit"} => GroupList \in UndoSet
    /\ IgnList \in held => \E p \in Procs : uses[p] = IgnDevice
-----------------------------------------------------------------------------
(***************************************************************************)
(* Where the load can fail, and what is released then.                     *)
(***************************************************************************)
LEMMA Ranges ==
    /\ Range(InitEvents) = EventSet
    /\ Range(CtrlInit) = {CtrlCdev, CtrlDevice}
    /\ Range(IgnInit) = {IgnCache, IgnCdev, IgnDevice}
    /\ Range(GroupCdevs) = Cdevs(GROUP_COUNT)
    /\ Range(GroupDevices) = Nodes(GROUP_COUNT)
    /\ Range(GroupInit) = Cdevs(GROUP_COUNT) \cup Nodes(GROUP_COUNT)
    /\ Range(InitCaches) = CacheSet
<1>1. Range(InitEvents) = EventSet
  BY DEF Range, InitEvents, EventSet
<1>2. Range(CtrlInit) = {CtrlCdev, CtrlDevice}
  BY DEF Range, CtrlInit
<1>3. Range(IgnInit) = {IgnCache, IgnCdev, IgnDevice}
  BY DEF Range, IgnInit
<1>4. ASSUME NEW s, NEW X, Undoes(s, X) PROVE Range(s) = X
  <2>1. DOMAIN s = 1 .. Len(s)
    BY <1>4, LenProperties DEF Undoes
  <2> QED BY <1>4, <2>1 DEF Range, Undoes
<1>5. Range(GroupCdevs) = Cdevs(GROUP_COUNT) /\ Range(GroupDevices) = Nodes(GROUP_COUNT)
  BY <1>4, AllGroupsUndone
<1>6. Range(GroupInit) = Range(GroupCdevs) \cup Range(GroupDevices)
  <2>1. GroupInit = GroupCdevs \o GroupDevices
    BY DEF GroupInit
  <2> DEFINE N == GROUP_COUNT
  <2>2. N \in Nat
    BY LoadAssumption
  <2>3. Joined(GroupInit, GroupCdevs, N, GroupDevices, N)
    BY <2>1, GroupSeqs, JoinAt
  <2>4. DOMAIN GroupInit = 1 .. N + N /\ DOMAIN GroupCdevs = 1 .. N
        /\ DOMAIN GroupDevices = 1 .. N
    BY <2>3, GroupSeqs, LenProperties DEF Joined
  <2>5. ASSUME NEW i \in 1 .. N + N
        PROVE  GroupInit[i] \in Range(GroupCdevs) \cup Range(GroupDevices)
    <3>1. CASE i \in 1 .. N
      BY <2>3, <2>4, <3>1 DEF Joined, Range
    <3>2. CASE i \notin 1 .. N
      <4>1. i - N \in 1 .. N /\ N + (i - N) = i
        BY <2>2, <3>2
      <4>2. GroupInit[N + (i - N)] = GroupDevices[i - N]
        BY <2>2, <2>3, <4>1 DEF Joined
      <4> QED BY <2>4, <4>1, <4>2 DEF Range
    <3> QED BY <3>1, <3>2
  <2>6. ASSUME NEW i \in 1 .. N
        PROVE  GroupCdevs[i] \in Range(GroupInit) /\ GroupDevices[i] \in Range(GroupInit)
    <3>1. i \in 1 .. N + N /\ N + i \in 1 .. N + N
      BY <2>2
    <3>2. GroupCdevs[i] = GroupInit[i] /\ GroupDevices[i] = GroupInit[N + i]
      BY <2>3 DEF Joined
    <3> QED BY <2>4, <3>1, <3>2 DEF Range
  <2> QED BY <2>4, <2>5, <2>6 DEF Range
<1>7. Range(InitCaches) = CacheSet
  BY DEF Range, InitCaches, CacheSet
<1> QED BY <1>1, <1>2, <1>3, <1>5, <1>6, <1>7

LEMMA GroupStages ==
    ASSUME NEW j \in 0 .. GROUP_COUNT - 1
    PROVE  /\ <<"group_cdev", j>> \in Cdevs(GROUP_COUNT)
           /\ <<"group_device", j>> \in Nodes(GROUP_COUNT)
           /\ <<"group_cdev", j>>[2] = j /\ <<"group_device", j>>[2] = j
BY DEF Cdevs, Nodes

LEMMA UndoOf ==
    /\ \A r \in EventSet : OwnUndo(r) = EventsUndo /\ CallersUndo(r) = <<>>
    /\ OwnUndo(Region) = <<>> /\ CallersUndo(Region) = error_out2
    /\ OwnUndo(Class) = <<>> /\ CallersUndo(Class) = error_out3
    /\ OwnUndo(CtrlCdev) = <<>> /\ CallersUndo(CtrlCdev) = error_out4
    /\ OwnUndo(CtrlDevice) = <<CtrlCdev>> /\ CallersUndo(CtrlDevice) = error_out4
    /\ OwnUndo(IgnCache) = <<>> /\ CallersUndo(IgnCache) = error_out5
    /\ OwnUndo(IgnCdev) = <<IgnList, IgnCache>> /\ CallersUndo(IgnCdev) = error_out5
    /\ OwnUndo(IgnDevice) = <<IgnCdev, IgnList, IgnCache>>
    /\ CallersUndo(IgnDevice) = error_out5
    /\ \A j \in 0 .. GROUP_COUNT - 1 :
          /\ OwnUndo(<<"group_cdev", j>>) = SubSeq(GroupCdevs, 1, j)
          /\ CallersUndo(<<"group_cdev", j>>) = error_out6
          /\ OwnUndo(<<"group_device", j>>) = SubSeq(GroupDevices, 1, j) \o GroupCdevs
          /\ CallersUndo(<<"group_device", j>>) = error_out6
    /\ \A r \in CacheSet : OwnUndo(r) = DestroyCaches /\ CallersUndo(r) = DevDestroy
    /\ OwnUndo(Filesystem) = <<>> /\ CallersUndo(Filesystem) = DestroyCaches \o DevDestroy
<1> USE Ranges, Stages, SetStages DEF OwnUndo, CallersUndo
<1>1. ASSUME NEW r \in EventSet PROVE OwnUndo(r) = EventsUndo /\ CallersUndo(r) = <<>>
  BY SMTT(60)
<1>2. OwnUndo(Region) = <<>> /\ CallersUndo(Region) = error_out2
  BY SMTT(60)
<1>3. OwnUndo(Class) = <<>> /\ CallersUndo(Class) = error_out3
  BY SMTT(60)
<1>4. OwnUndo(CtrlCdev) = <<>> /\ CallersUndo(CtrlCdev) = error_out4
  BY SMTT(60)
<1>5. OwnUndo(CtrlDevice) = <<CtrlCdev>> /\ CallersUndo(CtrlDevice) = error_out4
  BY SMTT(60)
<1>6. OwnUndo(IgnCache) = <<>> /\ CallersUndo(IgnCache) = error_out5
  BY SMTT(60)
<1>7. OwnUndo(IgnCdev) = <<IgnList, IgnCache>> /\ CallersUndo(IgnCdev) = error_out5
  BY SMTT(60)
<1>8. OwnUndo(IgnDevice) = <<IgnCdev, IgnList, IgnCache>>
      /\ CallersUndo(IgnDevice) = error_out5
  BY SMTT(60)
<1>9. ASSUME NEW j \in 0 .. GROUP_COUNT - 1
      PROVE  /\ OwnUndo(<<"group_cdev", j>>) = SubSeq(GroupCdevs, 1, j)
             /\ CallersUndo(<<"group_cdev", j>>) = error_out6
  <2> DEFINE r == <<"group_cdev", j>>
  <2>1. r \in Cdevs(GROUP_COUNT) /\ Stage(r) = 12 /\ r[2] = j
    BY GroupStages
  <2> HIDE DEF r
  <2>2. OwnUndo(r) = SubSeq(GroupCdevs, 1, r[2])
    BY <2>1
  <2>3. CallersUndo(r) = error_out6
    BY <2>1
  <2>4. OwnUndo(r) = SubSeq(GroupCdevs, 1, j)
    BY ONLY <2>1, <2>2
  <2> QED BY ONLY <2>3, <2>4 DEF r
<1>10. ASSUME NEW j \in 0 .. GROUP_COUNT - 1
       PROVE  /\ OwnUndo(<<"group_device", j>>) = SubSeq(GroupDevices, 1, j) \o GroupCdevs
              /\ CallersUndo(<<"group_device", j>>) = error_out6
  <2> DEFINE r == <<"group_device", j>>
  <2>1. r \in Nodes(GROUP_COUNT) /\ Stage(r) = 13 /\ r[2] = j
    BY GroupStages
  <2> HIDE DEF r
  <2>a. /\ r \notin Range(InitEvents) /\ r \notin Range(GroupCdevs)
        /\ r \notin Range(InitCaches) /\ r \in Range(GroupDevices)
        /\ r # CtrlDevice /\ r # IgnCdev /\ r # IgnDevice
    BY <2>1
  <2>2. OwnUndo(r) = SubSeq(GroupDevices, 1, r[2]) \o GroupCdevs
    BY ONLY <2>a DEF OwnUndo
  <2>3. CallersUndo(r) = error_out6
    BY <2>1
  <2>4. OwnUndo(r) = SubSeq(GroupDevices, 1, j) \o GroupCdevs
    BY ONLY <2>1, <2>2
  <2> QED BY ONLY <2>3, <2>4 DEF r
<1>11. ASSUME NEW r \in CacheSet
       PROVE  OwnUndo(r) = DestroyCaches /\ CallersUndo(r) = DevDestroy
  BY SMTT(60)
<1>12. OwnUndo(Filesystem) = <<>> /\ CallersUndo(Filesystem) = DestroyCaches \o DevDestroy
  BY SMTT(60)
<1> QED
  BY <1>1, <1>2, <1>3, <1>4, <1>5, <1>6, <1>7, <1>8, <1>9, <1>10, <1>11, <1>12,
     ZenonT(60)

\* the places where the load can be
LEMMA WhereInLoad ==
    ASSUME NEW n \in 1 .. Len(LoadSteps)
    PROVE  \/ n \in 1 .. 10
           \/ \E j \in 0 .. GROUP_COUNT - 1 : n = 11 + j
           \/ \E j \in 0 .. GROUP_COUNT - 1 : n = 11 + GROUP_COUNT + j
           \/ n \in 11 + 2 * GROUP_COUNT .. 14 + 2 * GROUP_COUNT
           \/ n = 15 + 2 * GROUP_COUNT
<1> DEFINE G == GROUP_COUNT
<1>1. G \in Nat /\ n \in 1 .. 15 + 2 * G
  BY LoadAssumption, Steps
<1>2. CASE n \in 11 .. 10 + G
  <2>1. n - 11 \in 0 .. G - 1 /\ n = 11 + (n - 11)
    BY <1>1, <1>2
  <2> QED BY <2>1
<1>3. CASE n \in 11 + G .. 10 + 2 * G
  <2>1. n - (11 + G) \in 0 .. G - 1 /\ n = 11 + G + (n - (11 + G))
    BY <1>1, <1>3
  <2> QED BY <2>1
<1>4. CASE n \in 1 .. 10 \/ n >= 11 + 2 * G
  BY <1>1, <1>4
<1>5. n \in 11 .. 10 + G \/ n \in 11 + G .. 10 + 2 * G \/ n \in 1 .. 10 \/ n >= 11 + 2 * G
  BY <1>1
<1> QED BY <1>2, <1>3, <1>4, <1>5

LEMMA ConcatNothing ==
    ASSUME NEW s \in Seq(Things)
    PROVE  s \o <<>> = s /\ <<>> \o s = s
BY ConcatEmptySeq

\* what a failure of step n leaves to be released
FailsWell(n) ==
    \E X : /\ Undoes(OwnUndo(LoadSteps[n]) \o CallersUndo(LoadSteps[n]), X)
           /\ X \ Lists = Kept
           /\ CtrlDevice \in Kept => GroupList \in X

LEMMA FailWith ==
    ASSUME NEW n, NEW s, NEW X, NEW t, NEW Y, NEW m \in Nat,
           OwnUndo(LoadSteps[n]) = s, CallersUndo(LoadSteps[n]) = t,
           Undoes(s, X), Undoes(t, Y),
           \A x \in X : Stage(x) > m, \A y \in Y : Stage(y) <= m,
           (X \cup Y) \ Lists = Kept,
           CtrlDevice \in Kept => GroupList \in X \cup Y
    PROVE  FailsWell(n)
<1>1. Undoes(s \o t, X \cup Y)
  BY ThenLower
<1> QED BY <1>1 DEF FailsWell

LEMMA FailPlain ==
    ASSUME NEW n, NEW t, NEW Y, OwnUndo(LoadSteps[n]) = <<>>,
           CallersUndo(LoadSteps[n]) = t, Undoes(t, Y), Y \ Lists = Kept,
           CtrlDevice \in Kept => GroupList \in Y
    PROVE  FailsWell(n)
<1>1. <<>> \o t = t
  BY ConcatNothing DEF Undoes
<1> QED BY <1>1 DEF FailsWell

\* the two lists are not among the resources of the load
LEMMA ListsApart ==
    /\ Lists \cap (EventSet \cup {Region, Class, CtrlCdev, CtrlDevice, IgnCache, IgnCdev,
                                  IgnDevice, Filesystem} \cup CacheSet) = {}
    /\ \A k : Lists \cap (Cdevs(k) \cup Nodes(k)) = {}
BY Stages, SetStages DEF Lists

LEMMA FirstFail ==
    ASSUME NEW n \in 1 .. 10, Kept = Acquired(n)
    PROVE  FailsWell(n)
<1>0. Stage(CtrlDevice) = 7 /\ (\A r \in EventSet : Stage(r) \in 0 .. 2)
      /\ CtrlDevice \notin EventSet
  BY Stages, SetStages
<1>1. CASE n \in 1 .. 3
  <2>1. LoadSteps[n] \in EventSet
    BY <1>1, FirstStepsAre DEF EventSet
  <2>2. held \cap EventSet = Kept
    BY <1>1, AcquiredSets, ListsApart DEF Kept, EventSet
  <2>3. Undoes(EventsUndo, held \cap EventSet)
    BY EventsUndone
  <2>4. EventsUndo \o <<>> = EventsUndo
    BY <2>3, ConcatNothing DEF Undoes
  <2>5. OwnUndo(LoadSteps[n]) \o CallersUndo(LoadSteps[n]) = EventsUndo
    BY <2>1, <2>4, UndoOf
  <2>6. Kept \ Lists = Kept /\ CtrlDevice \notin Kept
    BY <1>0, <2>2 DEF Kept
  <2> QED BY <2>2, <2>3, <2>5, <2>6 DEF FailsWell
<1>2. CASE n = 4
  <2>1. U2 \ Lists = Kept /\ CtrlDevice \notin Kept
    BY <1>0, <1>2, AcquiredSets, ListsApart DEF U2, Lists
  <2>2. OwnUndo(LoadSteps[n]) = <<>> /\ CallersUndo(LoadSteps[n]) = error_out2
    BY <1>2, FirstStepsAre, UndoOf
  <2>3. Undoes(error_out2, U2)
    BY LabelsUndone
  <2> QED BY <2>1, <2>2, <2>3, FailPlain
<1>3. CASE n = 5
  <2>1. U3 \ Lists = Kept /\ GroupList \in U3
    BY <1>3, AcquiredSets, ListsApart DEF U3, U2, Lists
  <2>2. OwnUndo(LoadSteps[n]) = <<>> /\ CallersUndo(LoadSteps[n]) = error_out3
    BY <1>3, FirstStepsAre, UndoOf
  <2>3. Undoes(error_out3, U3)
    BY LabelsUndone
  <2> QED BY <2>1, <2>2, <2>3, FailPlain
<1>4. CASE n = 6
  <2>1. U4 \ Lists = Kept /\ GroupList \in U4
    BY <1>4, AcquiredSets, ListsApart DEF U4, U3, U2, Lists
  <2>2. OwnUndo(LoadSteps[n]) = <<>> /\ CallersUndo(LoadSteps[n]) = error_out4
    BY <1>4, FirstStepsAre, UndoOf
  <2>3. Undoes(error_out4, U4)
    BY LabelsUndone
  <2> QED BY <2>1, <2>2, <2>3, FailPlain
<1>5. CASE n = 7
  <2>1. ({CtrlCdev} \cup U4) \ Lists = Kept /\ GroupList \in {CtrlCdev} \cup U4
    BY <1>5, AcquiredSets, ListsApart DEF U4, U3, U2, Lists
  <2>2. Undoes(<<CtrlCdev>>, {CtrlCdev}) /\ \A x \in {CtrlCdev} : Stage(x) > 5
    BY OneUndone, AreThings, Stages
  <2>10. OwnUndo(LoadSteps[n]) = <<CtrlCdev>> /\ CallersUndo(LoadSteps[n]) = error_out4
    BY <1>5, FirstStepsAre, UndoOf
  <2>11. Undoes(<<CtrlCdev>>, {CtrlCdev}) /\ (\A x \in {CtrlCdev} : Stage(x) > 5) /\ 5 \in Nat
    BY <2>2
  <2>12. Undoes(error_out4, U4) /\ \A y \in U4 : Stage(y) <= 5
    BY LabelsUndone, SetStages
  <2> QED BY <2>1, <2>10, <2>11, <2>12, FailWith
<1>6. CASE n = 8
  <2>1. U5 \ Lists = Kept /\ GroupList \in U5
    BY <1>6, AcquiredSets, ListsApart DEF U5, U4, U3, U2, Lists
  <2>2. OwnUndo(LoadSteps[n]) = <<>> /\ CallersUndo(LoadSteps[n]) = error_out5
    BY <1>6, FirstStepsAre, UndoOf
  <2>3. Undoes(error_out5, U5)
    BY LabelsUndone
  <2> QED BY <2>1, <2>2, <2>3, FailPlain
<1>7. CASE n = 9
  <2> DEFINE X == {IgnList, IgnCache}
  <2>1. (X \cup U5) \ Lists = Kept /\ GroupList \in X \cup U5
    BY <1>7, AcquiredSets, ListsApart DEF U5, U4, U3, U2, Lists
  <2>2. Undoes(<<IgnList, IgnCache>>, X)
    <3> DEFINE s == <<IgnList, IgnCache>>
    <3>1. s \in Seq(Things) /\ Len(s) = 2 /\ X = {s[i] : i \in 1 .. 2}
      BY AreThings
    <3>2. ASSUME NEW i \in 1 .. 2, NEW j \in 1 .. 2, i < j PROVE Before(s[i], s[j])
      BY <3>2, Stages DEF Before
    <3> HIDE DEF s, X
    <3>3. Undoes(s, X)
      BY <3>1, <3>2 DEF Undoes
    <3> QED BY <3>3 DEF s
  <2>3. \A x \in X : Stage(x) > 7
    BY Stages
  <2> HIDE DEF X
  <2>10. OwnUndo(LoadSteps[n]) = <<IgnList, IgnCache>> /\ CallersUndo(LoadSteps[n]) = error_out5
    BY <1>7, FirstStepsAre, UndoOf
  <2>11. Undoes(<<IgnList, IgnCache>>, X) /\ (\A x \in X : Stage(x) > 7) /\ 7 \in Nat
    BY <2>2, <2>3
  <2>12. Undoes(error_out5, U5) /\ \A y \in U5 : Stage(y) <= 7
    BY LabelsUndone, SetStages
  <2> QED BY <2>1, <2>10, <2>11, <2>12, FailWith
<1>8. CASE n = 10
  <2> DEFINE X == {IgnCdev, IgnList, IgnCache}
  <2>1. (X \cup U5) \ Lists = Kept /\ GroupList \in X \cup U5
    BY <1>8, AcquiredSets, ListsApart DEF U5, U4, U3, U2, Lists
  <2>2. Undoes(<<IgnCdev, IgnList, IgnCache>>, X)
    <3> DEFINE s == <<IgnCdev, IgnList, IgnCache>>
    <3>1. s \in Seq(Things) /\ Len(s) = 3 /\ X = {s[i] : i \in 1 .. 3}
      BY AreThings
    <3>2. ASSUME NEW i \in 1 .. 3, NEW j \in 1 .. 3, i < j PROVE Before(s[i], s[j])
      BY <3>2, Stages DEF Before
    <3> HIDE DEF s, X
    <3>3. Undoes(s, X)
      BY <3>1, <3>2 DEF Undoes
    <3> QED BY <3>3 DEF s
  <2>3. \A x \in X : Stage(x) > 7
    BY Stages
  <2> HIDE DEF X
  <2>10. OwnUndo(LoadSteps[n]) = <<IgnCdev, IgnList, IgnCache>> /\ CallersUndo(LoadSteps[n]) = error_out5
    BY <1>8, FirstStepsAre, UndoOf
  <2>11. Undoes(<<IgnCdev, IgnList, IgnCache>>, X) /\ (\A x \in X : Stage(x) > 7) /\ 7 \in Nat
    BY <2>2, <2>3
  <2>12. Undoes(error_out5, U5) /\ \A y \in U5 : Stage(y) <= 7
    BY LabelsUndone, SetStages
  <2> QED BY <2>1, <2>10, <2>11, <2>12, FailWith
<1> QED BY <1>1, <1>2, <1>3, <1>4, <1>5, <1>6, <1>7, <1>8

LEMMA LastFail ==
    ASSUME NEW n \in 1 .. Len(LoadSteps), n \notin 1 .. 10, Kept = Acquired(n)
    PROVE  FailsWell(n)
<1> DEFINE G == GROUP_COUNT
<1>0. G \in Nat
  BY LoadAssumption
<1>1. /\ U6 \ Lists = Base /\ GroupList \in U6
      /\ \A k : Cdevs(k) \ Lists = Cdevs(k) /\ Nodes(k) \ Lists = Nodes(k)
      /\ CacheSet \ Lists = CacheSet
  BY ListsApart DEF U6, U5, U4, U3, U2, Base, Lists
<1>2. ASSUME NEW j \in 0 .. G - 1, n = 11 + j PROVE FailsWell(n)
  <2>1. j \in 0 .. G
    BY <1>0
  <2>2. Kept = Base \cup Cdevs(j)
    BY <1>2, <2>1, AcquiredSets
  <2>3. LoadSteps[n] = <<"group_cdev", j>>
    BY <1>2, Steps
  <2>4. OwnUndo(LoadSteps[n]) = SubSeq(GroupCdevs, 1, j) /\ CallersUndo(LoadSteps[n]) = error_out6
    BY <1>2, <2>3, UndoOf
  <2>5. Undoes(SubSeq(GroupCdevs, 1, j), Cdevs(j))
    BY <2>1, GroupsUndone
  <2>6. (Cdevs(j) \cup U6) \ Lists = Kept /\ GroupList \in Cdevs(j) \cup U6
    BY <1>1, <2>2
  <2>7. (\A x \in Cdevs(j) : Stage(x) > 11) /\ 11 \in Nat
    BY SetStages
  <2>8. Undoes(error_out6, U6) /\ \A y \in U6 : Stage(y) <= 11
    BY LabelsUndone, SetStages
  <2> QED BY <2>4, <2>5, <2>6, <2>7, <2>8, FailWith, Zenon
<1>3. ASSUME NEW j \in 0 .. G - 1, n = 11 + G + j PROVE FailsWell(n)
  <2>1. j \in 0 .. G
    BY <1>0
  <2>2. Kept = Base \cup Cdevs(G) \cup Nodes(j)
    BY <1>3, <2>1, AcquiredSets
  <2>3. LoadSteps[n] = <<"group_device", j>>
    BY <1>3, Steps
  <2>4. OwnUndo(LoadSteps[n]) = SubSeq(GroupDevices, 1, j) \o GroupCdevs
        /\ CallersUndo(LoadSteps[n]) = error_out6
    BY <1>3, <2>3, UndoOf
  <2>5. Undoes(SubSeq(GroupDevices, 1, j) \o GroupCdevs, Nodes(j) \cup Cdevs(G))
    BY <2>1, GroupsUndone, AllGroupsUndone, SetStages, ThenLower, 12 \in Nat
  <2>6. ((Nodes(j) \cup Cdevs(G)) \cup U6) \ Lists = Kept
        /\ GroupList \in (Nodes(j) \cup Cdevs(G)) \cup U6
    BY <1>1, <2>2
  <2>7. (\A x \in Nodes(j) \cup Cdevs(G) : Stage(x) > 11) /\ 11 \in Nat
    BY SetStages
  <2>8. Undoes(error_out6, U6) /\ \A y \in U6 : Stage(y) <= 11
    BY LabelsUndone, SetStages
  <2> QED BY <2>4, <2>5, <2>6, <2>7, <2>8, FailWith, Zenon
<1>4. UDev \ Lists = Base \cup Cdevs(G) \cup Nodes(G) /\ GroupList \in UDev
  BY <1>1 DEF UDev
<1>5. (Base \cup Cdevs(G) \cup Nodes(G)) \cap CacheSet = {}
  <2>1. \A r \in Base : Stage(r) \in 0 .. 11
    BY Stages, SetStages DEF Base
  <2> QED BY <2>1, SetStages
<1>6. ASSUME NEW S \in SUBSET CacheSet, Kept = Base \cup Cdevs(G) \cup Nodes(G) \cup S
      PROVE  /\ Undoes(DestroyCaches, S) /\ (S \cup UDev) \ Lists = Kept
             /\ GroupList \in S \cup UDev /\ \A x \in S : Stage(x) > 13
  <2>1. held \cap CacheSet = S
    BY <1>1, <1>5, <1>6 DEF Kept
  <2>2. Undoes(DestroyCaches, S)
    BY <2>1, CachesUndone
  <2>3. \A x \in S : Stage(x) > 13
    BY SetStages
  <2> QED BY <1>1, <1>4, <1>6, <2>2, <2>3
<1>7. CASE n \in 11 + 2 * G .. 14 + 2 * G
  <2>1. LoadSteps[n] \in CacheSet
    <3>1. n = 11 + 2 * G \/ n = 12 + 2 * G \/ n = 13 + 2 * G \/ n = 14 + 2 * G
      BY <1>0, <1>7
    <3> QED BY <3>1, LastStepsAre DEF CacheSet
  <2>2. \E S \in SUBSET CacheSet : Kept = Base \cup Cdevs(G) \cup Nodes(G) \cup S
    <3>1. CASE n = 11 + 2 * G
      <4>1. G \in 0 .. G /\ 11 + G + G = 11 + 2 * G
        BY <1>0
      <4>2. Kept = Base \cup Cdevs(G) \cup Nodes(G) \cup {}
        BY <3>1, <4>1, AcquiredSets
      <4> QED BY <4>2
    <3>2. CASE n = 12 + 2 * G
      <4>1. Kept = Base \cup Cdevs(G) \cup Nodes(G) \cup {InodeCache}
        BY <3>2, AcquiredSets
      <4> QED BY <4>1 DEF CacheSet
    <3>3. CASE n = 13 + 2 * G
      <4>1. Kept = Base \cup Cdevs(G) \cup Nodes(G) \cup {InodeCache, SbCache}
        BY <3>3, AcquiredSets
      <4> QED BY <4>1 DEF CacheSet
    <3>4. CASE n = 14 + 2 * G
      <4>1. Kept = Base \cup Cdevs(G) \cup Nodes(G) \cup {InodeCache, SbCache, DentryCache}
        BY <3>4, AcquiredSets
      <4> QED BY <4>1 DEF CacheSet
    <3>5. n = 11 + 2 * G \/ n = 12 + 2 * G \/ n = 13 + 2 * G \/ n = 14 + 2 * G
      BY <1>0, <1>7
    <3> QED BY <3>1, <3>2, <3>3, <3>4, <3>5
  <2>3. PICK S \in SUBSET CacheSet : Kept = Base \cup Cdevs(G) \cup Nodes(G) \cup S
    BY <2>2
  <2>4. OwnUndo(LoadSteps[n]) = DestroyCaches /\ CallersUndo(LoadSteps[n]) = DevDestroy
    BY <2>1, UndoOf
  <2>5. Undoes(DevDestroy, UDev) /\ (\A y \in UDev : Stage(y) <= 13) /\ 13 \in Nat
    BY LabelsUndone, SetStages
  <2>6. /\ Undoes(DestroyCaches, S) /\ (S \cup UDev) \ Lists = Kept
        /\ GroupList \in S \cup UDev /\ \A x \in S : Stage(x) > 13
    BY <1>6, <2>3
  <2> QED BY <2>4, <2>5, <2>6, FailWith, Zenon
<1>8. CASE n = 15 + 2 * G
  <2>1. Kept = Base \cup Cdevs(G) \cup Nodes(G) \cup CacheSet
    BY <1>8, AcquiredSets
  <2>2. OwnUndo(LoadSteps[n]) = <<>>
        /\ CallersUndo(LoadSteps[n]) = DestroyCaches \o DevDestroy
    BY <1>8, LastStepsAre, UndoOf
  <2>3. /\ Undoes(DestroyCaches, CacheSet) /\ (CacheSet \cup UDev) \ Lists = Kept
        /\ GroupList \in CacheSet \cup UDev /\ \A x \in CacheSet : Stage(x) > 13
    BY <1>6, <2>1
  <2>4. \A y \in UDev : Stage(y) <= 13
    BY SetStages
  <2>5. Undoes(DestroyCaches \o DevDestroy, CacheSet \cup UDev)
    BY <2>3, <2>4, LabelsUndone, ThenLower, 13 \in Nat
  <2>6. <<>> \o (DestroyCaches \o DevDestroy) = DestroyCaches \o DevDestroy
    BY <2>5, ConcatNothing DEF Undoes
  <2> QED BY <2>2, <2>3, <2>5, <2>6 DEF FailsWell
<1> QED BY <1>2, <1>3, <1>7, <1>8, WhereInLoad
-----------------------------------------------------------------------------
(***************************************************************************)
(* What the resources need is acquired before them and released after      *)
(* them.                                                                   *)
(***************************************************************************)
LEMMA DevicesAre ==
    /\ DOMAIN CdevOf = {CtrlDevice, IgnDevice} \cup Nodes(GROUP_COUNT)
    /\ CdevOf[CtrlDevice] = CtrlCdev /\ CdevOf[IgnDevice] = IgnCdev
    /\ \A j \in 0 .. GROUP_COUNT - 1 : CdevOf[<<"group_device", j>>] = <<"group_cdev", j>>
<1>1. DOMAIN CdevOf = {CtrlDevice, IgnDevice} \cup Nodes(GROUP_COUNT)
  BY Ranges DEF CdevOf
<1>2. CtrlDevice # IgnDevice
  BY Stages
<1>3. CdevOf[CtrlDevice] = CtrlCdev /\ CdevOf[IgnDevice] = IgnCdev
  BY <1>2 DEF CdevOf
<1>4. ASSUME NEW j \in 0 .. GROUP_COUNT - 1
      PROVE  CdevOf[<<"group_device", j>>] = <<"group_cdev", j>>
  <2> DEFINE d == <<"group_device", j>>
  <2>1. d \in DOMAIN CdevOf /\ d[2] = j /\ Stage(d) = 13
    BY <1>1, GroupStages, Stages
  <2>2. d # CtrlDevice /\ d # IgnDevice
    BY <2>1, Stages
  <2> HIDE DEF d
  <2>3. CdevOf[d] = <<"group_cdev", d[2]>>
    BY <2>1, <2>2 DEF CdevOf
  <2>4. CdevOf[d] = <<"group_cdev", j>>
    BY ONLY <2>1, <2>3
  <2> QED BY ONLY <2>4 DEF d
<1> QED BY <1>1, <1>3, <1>4

LEMMA Works ==
    /\ WorksWith(IgnDevice) = {IgnCache}
    /\ WorksWith(Filesystem) = CacheSet \cup EventSet \cup {IgnCache}
    /\ WorksWith(Nothing) = {}
    /\ WorksWith(CtrlDevice) = EventSet
    /\ \A r \in Nodes(GROUP_COUNT) : WorksWith(r) = EventSet
<1>1. IgnDevice # Filesystem /\ IgnDevice # Nothing /\ Filesystem # Nothing
      /\ CtrlDevice \notin {IgnDevice, Filesystem, Nothing}
      /\ \A r \in Nodes(GROUP_COUNT) : r \notin {IgnDevice, Filesystem, Nothing}
  BY Stages, SetStages
<1> QED BY <1>1, Ranges DEF WorksWith

LEMMA NeedsAre ==
    /\ Needs(CtrlDevice) = {Class, Region, CtrlCdev} \cup EventSet
    /\ Needs(IgnDevice) = {Class, Region, IgnCdev, IgnCache}
    /\ \A j \in 0 .. GROUP_COUNT - 1 :
          Needs(<<"group_device", j>>) = {Class, Region, <<"group_cdev", j>>} \cup EventSet
    /\ \A r \in {CtrlCdev, IgnCdev} \cup Cdevs(GROUP_COUNT) : Needs(r) = {Region}
    /\ Needs(Filesystem) = CacheSet \cup EventSet \cup {IgnCache}
    /\ Needs(GroupList) = {GroupCache} /\ Needs(IgnList) = {IgnCache}
    /\ \A r : r \notin DOMAIN CdevOf \cup {CtrlCdev, IgnCdev, Filesystem, GroupList, IgnList}
                         \cup Cdevs(GROUP_COUNT) => Needs(r) = {}
<1> DEFINE C == {CtrlCdev, IgnCdev} \cup Range(GroupCdevs)
           D == DOMAIN CdevOf
<1>2. \A r \in D : Stage(r) \in {7, 11, 13}
  BY DevicesAre, Stages, SetStages
<1>3. \A r \in C : Stage(r) \in {6, 10, 12}
  BY Ranges, Stages, SetStages
<1> HIDE DEF C, D
<1>1. ASSUME NEW r \in D
      PROVE  Needs(r) = {Class, Region} \cup {CdevOf[r]} \cup WorksWith(r)
  <2>1. r \notin C \cup {GroupList, IgnList}
    BY <1>2, <1>3, Stages
  <2>2. Requires(r) = {Class, Region}
    BY <2>1 DEF Requires, C, D
  <2> QED BY <2>2 DEF Needs, D
<1>4. ASSUME NEW r \in C PROVE Needs(r) = {Region}
  <2>1. r \notin D \cup {Filesystem, GroupList, IgnList}
    BY <1>2, <1>3, Stages
  <2>2. Requires(r) = {Region}
    BY <2>1 DEF Requires, C, D
  <2> QED BY <2>1, <2>2 DEF Needs, D
<1>5. Filesystem \notin D \cup C /\ GroupList \notin D \cup C /\ IgnList \notin D \cup C
      /\ Filesystem \notin {GroupList, IgnList} /\ GroupList # IgnList
  BY <1>2, <1>3, Stages
<1>6. Requires(Filesystem) = {}
  BY <1>5 DEF Requires, C, D
<1>7. Needs(Filesystem) = CacheSet \cup EventSet \cup {IgnCache}
  BY <1>5, <1>6, Works DEF Needs, D
<1>8. Requires(GroupList) = {GroupCache} /\ Requires(IgnList) = {IgnCache}
  BY <1>5 DEF Requires, C, D
<1>9. Needs(GroupList) = {GroupCache} /\ Needs(IgnList) = {IgnCache}
  BY <1>5, <1>8 DEF Needs, D
<1>10. ASSUME NEW r, r \notin D \cup C \cup {Filesystem, GroupList, IgnList}
       PROVE  Needs(r) = {}
  <2>1. Requires(r) = {}
    BY <1>10 DEF Requires, C, D
  <2> QED BY <1>10, <2>1 DEF Needs, D
<1>11. Needs(CtrlDevice) = {Class, Region, CtrlCdev} \cup EventSet
       /\ Needs(IgnDevice) = {Class, Region, IgnCdev, IgnCache}
  BY <1>1, DevicesAre, Works DEF D
<1>12. ASSUME NEW j \in 0 .. GROUP_COUNT - 1
       PROVE  Needs(<<"group_device", j>>) = {Class, Region, <<"group_cdev", j>>} \cup EventSet
  <2> DEFINE d == <<"group_device", j>>
  <2>1. d \in Nodes(GROUP_COUNT) /\ d \in D
    BY DevicesAre, GroupStages DEF D
  <2>2. CdevOf[d] = <<"group_cdev", j>> /\ WorksWith(d) = EventSet
    BY <2>1, DevicesAre, Works
  <2> HIDE DEF d
  <2>3. Needs(d) = {Class, Region, <<"group_cdev", j>>} \cup EventSet
    BY <1>1, <2>1, <2>2
  <2> QED BY <2>3 DEF d
<1>13. C = {CtrlCdev, IgnCdev} \cup Cdevs(GROUP_COUNT)
  BY Ranges DEF C
<1> QED BY <1>4, <1>7, <1>9, <1>10, <1>11, <1>12, <1>13 DEF D

LEMMA NeedsLower ==
    ASSUME NEW r, NEW q \in Needs(r)
    PROVE  Stage(q) < Stage(r)
<1> DEFINE G == GROUP_COUNT
<1>1. CASE r \in Nodes(G)
  <2>1. PICK j \in 0 .. G - 1 : r = <<"group_device", j>>
    BY <1>1 DEF Nodes
  <2>2. q \in {Class, Region, <<"group_cdev", j>>} \cup EventSet
    BY <2>1, NeedsAre
  <2> QED BY <2>1, <2>2, Stages, SetStages
<1>2. CASE r = CtrlDevice \/ r = IgnDevice
  BY <1>2, NeedsAre, Stages, SetStages
<1>3. CASE r \in {CtrlCdev, IgnCdev} \cup Cdevs(G)
  <2>1. q = Region
    BY <1>3, NeedsAre
  <2> QED BY <1>3, <2>1, Stages, SetStages
<1>4. CASE r \in {Filesystem, GroupList, IgnList}
  BY <1>4, NeedsAre, Stages, SetStages
<1> QED BY <1>1, <1>2, <1>3, <1>4, NeedsAre, DevicesAre

LEMMA NeedsReady ==
    ASSUME NEW n \in 1 .. Len(LoadSteps)
    PROVE  Needs(LoadSteps[n]) \subseteq Acquired(n)
<1> DEFINE G == GROUP_COUNT
           r == LoadSteps[n]
<1>0. G \in Nat
  BY LoadAssumption
<1>1. CASE n \in 1 .. 10
  <2>1. /\ \A e \in EventSet \cup {Region, Class, IgnCache} : Needs(e) = {}
        /\ Needs(CtrlCdev) = {Region} /\ Needs(IgnCdev) = {Region}
    <3>1. ASSUME NEW e \in EventSet \cup {Region, Class, IgnCache}
          PROVE  e \notin DOMAIN CdevOf \cup {CtrlCdev, IgnCdev, Filesystem, GroupList, IgnList}
                             \cup Cdevs(G)
      BY DevicesAre, Stages, SetStages, SMTT(60)
    <3> QED BY <3>1, NeedsAre
  <2>2. CASE n \in 1 .. 5 \/ n = 8
    <3>1. r \in EventSet \cup {Region, Class, IgnCache}
      BY <2>2, FirstStepsAre DEF EventSet
    <3> QED BY <2>1, <3>1
  <2>3. CASE n = 6
    BY <2>1, <2>3, FirstStepsAre, AcquiredSets
  <2>4. CASE n = 7
    BY <2>4, NeedsAre, FirstStepsAre, AcquiredSets
  <2>5. CASE n = 9
    BY <2>1, <2>5, FirstStepsAre, AcquiredSets
  <2>6. CASE n = 10
    BY <2>6, NeedsAre, FirstStepsAre, AcquiredSets
  <2> QED BY <1>1, <2>2, <2>3, <2>4, <2>5, <2>6
<1>2. ASSUME NEW j \in 0 .. G - 1, n = 11 + j PROVE Needs(r) \subseteq Acquired(n)
  <2>1. r = <<"group_cdev", j>> /\ r \in Cdevs(G)
    BY <1>2, Steps, GroupStages
  <2>4. Needs(r) = {Region}
    BY <2>1, NeedsAre
  <2>2. j \in 0 .. G
    BY <1>0
  <2>3. Acquired(n) = Base \cup Cdevs(j)
    BY <1>2, <2>2, AcquiredSets
  <2> QED BY <2>3, <2>4 DEF Base
<1>3. ASSUME NEW j \in 0 .. G - 1, n = 11 + G + j PROVE Needs(r) \subseteq Acquired(n)
  <2>1. r = <<"group_device", j>>
    BY <1>3, Steps
  <2>2. Needs(r) = {Class, Region, <<"group_cdev", j>>} \cup EventSet
    BY <2>1, NeedsAre
  <2>3. j \in 0 .. G
    BY <1>0
  <2>4. Acquired(n) = Base \cup Cdevs(G) \cup Nodes(j)
    BY <1>3, <2>3, AcquiredSets
  <2>5. <<"group_cdev", j>> \in Cdevs(G)
    BY GroupStages
  <2> QED BY <2>2, <2>4, <2>5 DEF Base
<1>4. CASE n \in 11 + 2 * G .. 14 + 2 * G
  <2>1. n = 11 + 2 * G \/ n = 12 + 2 * G \/ n = 13 + 2 * G \/ n = 14 + 2 * G
    BY <1>0, <1>4
  <2>2. r \in CacheSet
    BY <2>1, LastStepsAre DEF CacheSet
  <2>3. r \notin DOMAIN CdevOf \cup {CtrlCdev, IgnCdev, Filesystem, GroupList, IgnList}
                     \cup Cdevs(G)
    <3> HIDE DEF r
    <3>1. Stage(r) \in 14 .. 17
      BY <2>2, SetStages
    <3>2. r # Filesystem
      BY <3>1, Stages
    <3> QED BY <3>1, <3>2, DevicesAre, Stages, SetStages
  <2> QED BY <2>3, NeedsAre
<1>5. CASE n = 15 + 2 * G
  <2>1. r = Filesystem
    BY <1>5, LastStepsAre
  <2> QED BY <1>5, <2>1, NeedsAre, AcquiredSets DEF Base
<1> QED BY <1>1, <1>2, <1>3, <1>4, <1>5, WhereInLoad

\* exit_dazukofs_fs() releases all of it
LEMMA ExitUndone ==
    ASSUME Kept = Acquired(Len(LoadSteps) + 1)
    PROVE  \E X : Undoes(ExitSteps, X) /\ X \ Lists = Kept /\ GroupList \in X
<1> DEFINE G == GROUP_COUNT
           F == <<Filesystem>>
           X == ({Filesystem} \cup CacheSet) \cup UDev
<1>0. G \in Nat
  BY LoadAssumption
<1>1. Len(LoadSteps) + 1 = 16 + 2 * G
  BY <1>0, Steps
<1>2. Kept = Base \cup Cdevs(G) \cup Nodes(G) \cup CacheSet \cup {Filesystem}
  BY <1>1, AcquiredSets
<1>3. held \cap CacheSet = CacheSet
  BY <1>2 DEF Kept
<1>4. Undoes(DestroyCaches, CacheSet)
  BY <1>3, CachesUndone
<1>5. Undoes(F, {Filesystem})
  BY OneUndone, AreThings
<1>6. ExitSteps = (F \o DestroyCaches) \o DevDestroy
  BY DEF ExitSteps
<1> HIDE DEF F
<1>7. Undoes(F \o DestroyCaches, {Filesystem} \cup CacheSet)
  BY <1>4, <1>5, Stages, SetStages, ThenLower, 17 \in Nat
<1>8. Undoes((F \o DestroyCaches) \o DevDestroy, X)
  <2>1. \A x \in {Filesystem} \cup CacheSet : Stage(x) > 13
    BY Stages, SetStages
  <2>2. \A y \in UDev : Stage(y) <= 13
    BY SetStages
  <2> QED BY <1>7, <2>1, <2>2, LabelsUndone, ThenLower, 13 \in Nat
<1>9. GroupList \in UDev /\ UDev \ Lists = Base \cup Cdevs(G) \cup Nodes(G)
  BY ListsApart DEF UDev, U6, U5, U4, U3, U2, Base, Lists
<1>10. Filesystem \notin Lists /\ CacheSet \cap Lists = {}
  BY ListsApart
<1>11. X \ Lists = Kept /\ GroupList \in X
  BY <1>2, <1>9, <1>10
<1> QED BY <1>6, <1>8, <1>11

\* what a process does to the lists leaves the rest alone
LEMMA ListsOnly ==
    ASSUME NEW S \in SUBSET Lists, held' = held \cup S \/ held' = held \ S
    PROVE  Kept' = Kept
<1>1. Kept' = held' \ Lists
  BY DEF Kept, Lists, GroupList, IgnList, Res
<1> QED BY <1>1 DEF Kept
-----------------------------------------------------------------------------
LEMMA LoadInvStart == ASSUME LoadInit PROVE LoadInv
BY DEF LoadInit, LoadInv, Kept

LEMMA KeepsLoadInv ==
    ASSUME LoadInv, UNCHANGED <<phase, next, undo>>, Kept' = Kept
    PROVE  LoadInv'
BY DEF LoadInv, UndoSet

LEMMA StepsApart ==
    ASSUME NEW n \in 1 .. Len(LoadSteps)
    PROVE  LoadSteps[n] \notin Lists
<1> DEFINE r == LoadSteps[n]
<1>0. GROUP_COUNT \in Nat
  BY LoadAssumption
<1>1. CASE n \in 1 .. 10
  <2>1. LoadSteps[n] \in EventSet \cup {Region, Class, CtrlCdev, CtrlDevice, IgnCache,
                                        IgnCdev, IgnDevice}
    BY <1>1, FirstStepsAre DEF EventSet
  <2> QED BY <2>1, ListsApart
<1>2. ASSUME NEW j \in 0 .. GROUP_COUNT - 1,
             n = 11 + j \/ n = 11 + GROUP_COUNT + j
      PROVE  r \notin Lists
  <2>1. r \in {<<"group_cdev", j>>, <<"group_device", j>>}
    BY <1>2, Steps
  <2> QED BY <2>1, Stages, SMTT(60) DEF Lists
<1>3. CASE n \in 11 + 2 * GROUP_COUNT .. 14 + 2 * GROUP_COUNT
  <2>1. \/ n = 11 + 2 * GROUP_COUNT \/ n = 12 + 2 * GROUP_COUNT
        \/ n = 13 + 2 * GROUP_COUNT \/ n = 14 + 2 * GROUP_COUNT
    BY <1>0, <1>3
  <2>2. r \in CacheSet
    BY <2>1, LastStepsAre DEF CacheSet
  <2> QED BY <2>2, ListsApart
<1>4. CASE n = 15 + 2 * GROUP_COUNT
  <2>1. LoadSteps[n] = Filesystem
    BY <1>4, LastStepsAre
  <2> QED BY <2>1, ListsApart
<1> QED BY <1>1, <1>2, <1>3, <1>4, WhereInLoad

LEMMA AcquireKeeps == ASSUME LoadInv, Acquire PROVE LoadInv'
<1> DEFINE L == Len(LoadSteps)
           r == LoadSteps[next]
<1>1. L \in Nat /\ next \in 1 .. L /\ Kept = Acquired(next) /\ undo = <<>>
  BY Steps DEF LoadInv, Acquire
<1>2. Acquired(next + 1) = Acquired(next) \cup {r}
  BY <1>1, AcquireOne
<1>3. r \notin Lists
  BY <1>1, StepsApart
<1>4. Kept' = Kept \cup {r}
  <2>1. Kept' = held' \ Lists
    BY DEF Kept, Lists, GroupList, IgnList, Res
  <2> QED BY <1>3, <2>1 DEF Kept, Acquire
<1>5. Kept' = Acquired(next + 1)
  BY <1>1, <1>2, <1>4
<1>6. Needs(r) \subseteq Kept
  BY <1>1, NeedsReady
<1> HIDE DEF r, L
<1>7. \A q \in Kept' : Needs(q) \subseteq Kept'
  BY <1>4, <1>6 DEF LoadInv
<1>8. CASE next = L
  <2>1. phase' = "live" /\ undo' = undo /\ Kept' = Acquired(L + 1)
    BY <1>5, <1>8 DEF Acquire, L
  <2> QED BY <1>1, <1>7, <2>1 DEF LoadInv, L
<1>9. CASE next # L
  <2>1. phase' = "loading" /\ undo' = undo /\ next' = next + 1 /\ next + 1 \in 1 .. L
    BY <1>1, <1>9 DEF Acquire, L
  <2> QED BY <1>1, <1>5, <1>7, <2>1 DEF LoadInv, L
<1> QED BY <1>8, <1>9

\* undo is set to s, which releases X
LEMMA UndoBegins ==
    ASSUME LoadInv, NEW s, NEW X, Undoes(s, X), X \ Lists = Kept,
           phase' \in {"undoing", "exit"}, undo' = s, held' = held
    PROVE  LoadInv' /\ UndoSet' = X
<1>1. Kept' = Kept
  BY DEF Kept, Lists, GroupList, IgnList, Res
<1>2. UndoSet' = X
  BY DEF UndoSet, Undoes
<1> QED BY <1>1, <1>2 DEF LoadInv

LEMMA FailWell ==
    ASSUME LoadInv, phase = "loading"
    PROVE  FailsWell(next)
<1>1. next \in 1 .. Len(LoadSteps) /\ Kept = Acquired(next)
  BY DEF LoadInv
<1> QED BY <1>1, FirstFail, LastFail

LEMMA AcquireFailsKeeps ==
    ASSUME LoadInv, AcquireFails
    PROVE  LoadInv' /\ (CtrlDevice \in Kept => GroupList \in UndoSet') /\ Kept' = Kept
<1>1. FailsWell(next)
  BY FailWell DEF AcquireFails
<1>2. PICK X : /\ Undoes(OwnUndo(LoadSteps[next]) \o CallersUndo(LoadSteps[next]), X)
               /\ X \ Lists = Kept
               /\ CtrlDevice \in Kept => GroupList \in X
  BY <1>1 DEF FailsWell
<1>3. phase' \in {"undoing", "exit"} /\ held' = held
      /\ undo' = OwnUndo(LoadSteps[next]) \o CallersUndo(LoadSteps[next])
  BY DEF AcquireFails
<1>4. LoadInv' /\ UndoSet' = X
  BY <1>2, <1>3, UndoBegins
<1>5. Kept' = Kept
  BY <1>3 DEF Kept, Lists, GroupList, IgnList, Res
<1> QED BY <1>2, <1>4, <1>5

LEMMA UnloadKeeps ==
    ASSUME LoadInv, Unload
    PROVE  LoadInv' /\ GroupList \in UndoSet' /\ Kept' = Kept
<1>1. Kept = Acquired(Len(LoadSteps) + 1)
  BY DEF LoadInv, Unload
<1>2. PICK X : Undoes(ExitSteps, X) /\ X \ Lists = Kept /\ GroupList \in X
  BY <1>1, ExitUndone
<1>3. phase' \in {"undoing", "exit"} /\ held' = held /\ undo' = ExitSteps
  BY DEF Unload
<1>4. LoadInv' /\ UndoSet' = X
  BY <1>2, <1>3, UndoBegins
<1>5. Kept' = Kept
  BY <1>3 DEF Kept, Lists, GroupList, IgnList, Res
<1> QED BY <1>2, <1>4, <1>5

LEMMA ReleaseKeeps ==
    ASSUME LoadInv, Release
    PROVE  /\ LoadInv' /\ UndoSet' = UndoSet \ {Head(undo)} /\ Kept' = Kept \ {Head(undo)}
           /\ Head(undo) \in UndoSet
           /\ \A q \in UndoSet \ {Head(undo)} : Before(Head(undo), q)
<1> DEFINE h == Head(undo)
<1>1. Undoes(undo, UndoSet) /\ UndoSet \ Lists = Kept
  BY DEF LoadInv, Release
<1>2. /\ Undoes(Tail(undo), UndoSet \ {h}) /\ h \in UndoSet
      /\ \A q \in UndoSet \ {h} : Before(h, q)
  BY <1>1, HeadUndone DEF Release
<1>3. undo' = Tail(undo) /\ held' = held \ {h} /\ phase' = phase
      /\ phase \in {"undoing", "exit"}
  BY DEF Release
<1> HIDE DEF h
<1>4. UndoSet' = UndoSet \ {h}
  <2>1. UndoSet' = {undo'[i] : i \in 1 .. Len(undo')}
    BY DEF UndoSet
  <2>2. UndoSet \ {h} = {Tail(undo)[i] : i \in 1 .. Len(Tail(undo))}
    BY <1>2 DEF Undoes
  <2> QED BY <1>3, <2>1, <2>2
<1>5. Kept' = Kept \ {h}
  <2>1. Kept' = held' \ Lists
    BY DEF Kept, Lists, GroupList, IgnList, Res
  <2> QED BY <1>3, <2>1 DEF Kept
<1>6. ASSUME NEW r \in Kept', NEW q \in Needs(r) PROVE q \in Kept'
  <2>1. r \in Kept /\ r \in UndoSet \ {h}
    BY <1>1, <1>5
  <2>2. q \in Kept
    BY <2>1 DEF LoadInv
  <2>3. Stage(q) < Stage(r) /\ Stage(h) >= Stage(r)
    BY <1>2, <2>1, NeedsLower, StageType DEF Before
  <2>4. q # h
    BY <2>3, StageType
  <2> QED BY <1>5, <2>2, <2>4
<1>7. LoadInv'
  BY <1>1, <1>2, <1>3, <1>4, <1>5, <1>6 DEF LoadInv
<1> QED BY <1>2, <1>4, <1>5, <1>7 DEF h

LEMMA ListsAre == GroupList \in Lists /\ IgnList \in Lists /\ GroupList # IgnList
BY Stages DEF Lists

LEMMA UserKeeps ==
    ASSUME LoadInv, NEW p \in Procs,
           \/ \E d \in DOMAIN CdevOf : OpenDevice(p, d)
           \/ AddGroup(p) \/ Mount(p) \/ Leave(p)
    PROVE  LoadInv' /\ Kept' = Kept /\ UNCHANGED <<phase, next, undo>> /\ UndoSet' = UndoSet
<1>1. /\ UNCHANGED <<phase, next, undo>>
      /\ \/ held' = held \/ held' = held \cup {IgnList} \/ held' = held \cup {GroupList}
         \/ held' = held \ {IgnList}
  BY DEF OpenDevice, AddGroup, Mount, Leave
<1>2. \E S \in SUBSET Lists : held' = held \cup S \/ held' = held \ S
  <2>1. CASE held' = held
    BY <2>1, held' = held \cup {}
  <2>2. CASE held' = held \cup {IgnList} \/ held' = held \ {IgnList}
    BY <2>2, ListsAre, {IgnList} \in SUBSET Lists
  <2>3. CASE held' = held \cup {GroupList}
    BY <2>3, ListsAre, {GroupList} \in SUBSET Lists
  <2> QED BY <1>1, <2>1, <2>2, <2>3
<1>3. Kept' = Kept
  BY <1>2, ListsOnly
<1>4. UndoSet' = UndoSet
  BY <1>1 DEF UndoSet
<1> QED BY <1>1, <1>3, <1>4, KeepsLoadInv

LEMMA LoadKeeps == ASSUME LoadInv, Load PROVE LoadInv' /\ Kept' = Kept /\ Kept = {}
<1>1. Kept' = Kept /\ Kept = {}
  BY DEF LoadInv, Load, Kept, Lists, GroupList, IgnList, Res
<1>2. 1 \in 1 .. Len(LoadSteps) /\ Acquired(1) = {}
  BY Steps, LoadAssumption, AcquiredSets
<1> QED BY <1>1, <1>2 DEF LoadInv, Load

LEMMA ReleasedKeeps ==
    ASSUME LoadInv, Released PROVE LoadInv' /\ Kept' = {} /\ Kept = {} /\ UndoSet = {}
<1>1. UndoSet = {}
  BY DEF Released, UndoSet
<1>2. Kept = {} /\ Kept' = Kept
  BY <1>1 DEF LoadInv, Released, Kept, Lists, GroupList, IgnList, Res
<1> QED BY <1>1, <1>2 DEF LoadInv, Released

LEMMA LoadInvNext == ASSUME LoadInv, [LoadNext]_loadVars PROVE LoadInv'
<1>1. CASE Load
  BY <1>1, LoadKeeps
<1>2. CASE Acquire
  BY <1>2, AcquireKeeps
<1>3. CASE AcquireFails
  BY <1>3, AcquireFailsKeeps
<1>4. CASE Release
  BY <1>4, ReleaseKeeps
<1>5. CASE Released
  BY <1>5, ReleasedKeeps
<1>6. CASE Unload
  BY <1>6, UnloadKeeps
<1>7. ASSUME NEW p \in Procs,
             \/ \E d \in DOMAIN CdevOf : OpenDevice(p, d)
             \/ AddGroup(p) \/ Mount(p) \/ Leave(p)
      PROVE  LoadInv'
  BY <1>7, UserKeeps
<1>8. CASE UNCHANGED loadVars
  BY <1>8, KeepsLoadInv DEF loadVars, Kept, Lists, GroupList, IgnList, Res
<1> QED BY <1>1, <1>2, <1>3, <1>4, <1>5, <1>6, <1>7, <1>8 DEF LoadNext

LEMMA LoadInvHolds == LoadSpec => []LoadInv
<1>1. LoadInit => LoadInv
  BY LoadInvStart
<1>2. LoadInv /\ [LoadNext]_loadVars => LoadInv'
  BY LoadInvNext
<1> QED BY <1>1, <1>2, PTL DEF LoadSpec

(***************************************************************************)
(* The error labels of the load and the destroy functions of the unload    *)
(* release nothing twice and nothing that is not there, whichever step     *)
(* fails, for any number of group devices and even while processes use     *)
(* the devices.                                                            *)
(***************************************************************************)
THEOREM UndoesWhatIsHeld == LoadSpec => []ReleasesHeld
<1>1. ASSUME LoadInv PROVE ReleasesHeld
  <2>1. CASE phase \in {"undoing", "exit"}
    <3>1. Undoes(undo, UndoSet) /\ UndoSet \ Lists = Kept
      BY <1>1, <2>1 DEF LoadInv
    <3>2. DOMAIN undo = 1 .. Len(undo) /\ Len(undo) \in Nat
          /\ \A i \in 1 .. Len(undo) : undo[i] \in Things
      BY <3>1, LenProperties DEF Undoes
    <3>3. ASSUME NEW i \in DOMAIN undo, undo[i] \notin {GroupList, IgnList}
          PROVE  undo[i] \in held
      BY <3>1, <3>2, <3>3 DEF UndoSet, Kept, Lists
    <3>4. ASSUME NEW i \in DOMAIN undo, NEW j \in DOMAIN undo, undo[i] = undo[j]
          PROVE  i = j
      <4>1. ~(i < j) /\ ~(j < i)
        BY <3>1, <3>2, <3>4, BeforeStrict DEF Undoes
      <4> QED BY <3>2, <4>1
    <3> QED BY <3>3, <3>4 DEF ReleasesHeld
  <2>2. CASE phase \notin {"undoing", "exit"}
    <3>1. DOMAIN undo = {}
      BY <1>1, <2>2 DEF LoadInv
    <3> QED BY <3>1 DEF ReleasesHeld
  <2> QED BY <2>1, <2>2
<1> QED BY <1>1, LoadInvHolds, PTL

(***************************************************************************)
(* The node of a group leads to the cdev of that group in every state of   *)
(* load, use, failure and unload, although the ranges given to cdev_add()  *)
(* overlap: the cdevs are there before the first node and after the last.  *)
(***************************************************************************)
THEOREM GroupNodesLeadHome == LoadSpec => []NodesLeadHome
<1>1. ASSUME LoadInv PROVE NodesLeadHome
  <2>1. SUFFICES ASSUME NEW i \in Minors, <<"group_device", i>> \in held
                 PROVE  Dispatch(i) = {i}
    BY DEF NodesLeadHome
  <2>2. i \in 0 .. GROUP_COUNT - 1 /\ GROUP_COUNT \in Nat
    BY LoadAssumption DEF Minors
  <2>3. <<"group_device", i>> \in Kept
    <3>1. <<"group_device", i>> \notin Lists
      BY Stages DEF Lists
    <3> QED BY <2>1, <3>1 DEF Kept
  <2>4. <<"group_cdev", i>> \in Needs(<<"group_device", i>>)
    BY <2>2, NeedsAre
  <2>5. <<"group_cdev", i>> \in held
    BY <1>1, <2>3, <2>4 DEF LoadInv, Kept
  <2>6. \A j \in Minors : j <= i /\ j # i => i \in j + 1 .. i
    BY <2>2 DEF Minors
  <2>7. \A k \in i + 1 .. i : FALSE
    BY <2>2
  <2>8. i <= i
    BY <2>2
  <2> QED BY <2>5, <2>6, <2>7, <2>8 DEF Dispatch
<1> QED BY <1>1, LoadInvHolds, PTL
-----------------------------------------------------------------------------
(***************************************************************************)
(* The users, when no step of the load fails while a device is open.       *)
(***************************************************************************)
LEMMA KeptStays == ASSUME held' = held PROVE Kept' = Kept
BY DEF Kept, Lists, GroupList, IgnList, Res

LEMMA NothingIsNothing ==
    Nothing \notin DOMAIN CdevOf \cup {Filesystem, IgnDevice, CtrlDevice}
    /\ Filesystem \notin DOMAIN CdevOf /\ IgnDevice \in DOMAIN CdevOf
    /\ CtrlDevice \in DOMAIN CdevOf
BY DevicesAre, Stages, SetStages

LEMMA UseInvStart == ASSUME LoadInit PROVE UseInv
BY NothingIsNothing DEF LoadInit, UseInv

LEMMA AcquireUse == ASSUME LoadInv, UseInv, Acquire PROVE UseInv'
<1> DEFINE r == LoadSteps[next]
<1>1. r \notin Lists
  BY StepsApart DEF LoadInv, Acquire
<1>2. held' = held \cup {r} /\ phase = "loading" /\ phase' \in {"loading", "live"}
      /\ uses' = uses
  BY DEF Acquire
<1> HIDE DEF r
<1>3. Kept' = Kept \cup {r}
  <2>1. Kept' = held' \ Lists
    BY DEF Kept, Lists, GroupList, IgnList, Res
  <2> QED BY <1>1, <1>2, <2>1 DEF Kept
<1>4. (GroupList \in held' <=> GroupList \in held) /\ (IgnList \in held' <=> IgnList \in held)
  BY <1>1, <1>2, ListsAre
<1> QED BY <1>2, <1>3, <1>4 DEF UseInv

\* the step that sets undo, and the ones that empty it
LEMMA BeginUse ==
    ASSUME UseInv, Unused, UNCHANGED <<held, uses>>, phase \in {"loading", "live"},
           phase' \in {"undoing", "exit"}, CtrlDevice \in Kept => GroupList \in UndoSet'
    PROVE  UseInv'
<1>1. Kept' = Kept
  BY KeptStays
<1>2. \A p \in Procs : uses[p] = Nothing
  BY DEF Unused
<1>3. IgnList \notin held
  BY <1>2, NothingIsNothing DEF UseInv
<1>4. phase' \notin {"absent", "loading", "live"}
  OBVIOUS
<1>5. GroupList \in held => GroupCache \in Kept /\ GroupList \in UndoSet'
  BY DEF UseInv
<1>6. uses \in [Procs -> DOMAIN CdevOf \cup {Nothing, Filesystem}]
  BY DEF UseInv
<1> QED BY <1>1, <1>2, <1>3, <1>4, <1>5, <1>6, NothingIsNothing DEF UseInv

LEMMA ReleaseUse == ASSUME LoadInv, UseInv, Release PROVE UseInv'
<1> DEFINE h == Head(undo)
<1>1. /\ UndoSet' = UndoSet \ {h} /\ Kept' = Kept \ {h}
      /\ \A q \in UndoSet \ {h} : Before(h, q)
  BY ReleaseKeeps
<1>2. held' = held \ {h} /\ phase' = phase /\ phase \in {"undoing", "exit"} /\ uses' = uses
  BY DEF Release
<1> HIDE DEF h
<1>3. \A p \in Procs : uses[p] = Nothing
  BY <1>2 DEF UseInv
<1>4. IgnList \notin held
  BY <1>3, NothingIsNothing DEF UseInv
<1>5. ASSUME GroupList \in held' PROVE GroupList \in UndoSet' /\ GroupCache \in Kept'
  <2>1. GroupList \in UndoSet \ {h} /\ GroupCache \in Kept
    BY <1>2, <1>5 DEF UseInv
  <2>2. Before(h, GroupList)
    BY <1>1, <2>1
  <2>3. h # GroupCache
    BY <2>2, Stages DEF Before
  <2> QED BY <1>1, <2>1, <2>3
<1>6. uses \in [Procs -> DOMAIN CdevOf \cup {Nothing, Filesystem}]
  BY DEF UseInv
<1> QED BY <1>2, <1>3, <1>4, <1>5, <1>6, NothingIsNothing DEF UseInv

LEMMA ReleasedUse == ASSUME LoadInv, UseInv, Released PROVE UseInv'
<1>1. UndoSet = {}
  BY ReleasedKeeps
<1>2. phase \in {"undoing", "exit"} /\ phase' = "absent" /\ UNCHANGED <<held, uses>>
  BY DEF Released
<1>3. GroupList \notin held /\ \A p \in Procs : uses[p] = Nothing
  BY <1>1, <1>2 DEF UseInv
<1>4. IgnList \notin held
  BY <1>3, NothingIsNothing DEF UseInv
<1>5. uses \in [Procs -> DOMAIN CdevOf \cup {Nothing, Filesystem}]
  BY DEF UseInv
<1> QED BY <1>2, <1>3, <1>4, <1>5, NothingIsNothing DEF UseInv

LEMMA LoadUse == ASSUME LoadInv, UseInv, Load PROVE UseInv'
<1>1. phase = "absent" /\ phase' = "loading" /\ UNCHANGED <<held, uses>>
  BY DEF Load
<1>2. GroupList \notin held /\ \A p \in Procs : uses[p] = Nothing
  BY <1>1 DEF UseInv
<1>3. IgnList \notin held
  BY <1>2, NothingIsNothing DEF UseInv
<1>4. uses \in [Procs -> DOMAIN CdevOf \cup {Nothing, Filesystem}]
  BY DEF UseInv
<1> QED BY <1>1, <1>2, <1>3, <1>4, NothingIsNothing DEF UseInv

LEMMA OpenUse ==
    ASSUME ~FailsInUse, LoadInv, UseInv, NEW p \in Procs, NEW d \in DOMAIN CdevOf,
           OpenDevice(p, d)
    PROVE  UseInv'
<1>1. Kept' = Kept /\ UNCHANGED <<phase, next, undo>> /\ UndoSet' = UndoSet
  BY UserKeeps
<1>2. d \in Kept
  <2>1. d \notin Lists
    BY DevicesAre, Stages, SetStages DEF Lists
  <2> QED BY <2>1 DEF OpenDevice, Kept
<1>3. phase \in {"loading", "live"}
  BY <1>2 DEF OpenDevice, LoadInv
<1>4. /\ uses' = [uses EXCEPT ![p] = d] /\ uses[p] = Nothing
      /\ held' = held \/ (d = IgnDevice /\ held' = held \cup {IgnList})
  BY DEF OpenDevice
<1>5. uses' \in [Procs -> DOMAIN CdevOf \cup {Nothing, Filesystem}]
  BY <1>4 DEF UseInv
<1>6. uses'[p] = d /\ \A q \in Procs \ {p} : uses'[q] = uses[q]
  BY <1>4 DEF UseInv
<1>7. GroupList \in held' => GroupList \in held
  BY <1>4, ListsAre
<1>8. IgnList \in held' => \E q \in Procs : uses'[q] = IgnDevice
  <2>1. CASE d = IgnDevice
    BY <1>6, <2>1
  <2>2. CASE d # IgnDevice
    BY <1>4, <1>6, <2>2, NothingIsNothing DEF UseInv
  <2> QED BY <2>1, <2>2
<1>9. ASSUME NEW q \in Procs
      PROVE  /\ uses'[q] # Nothing => phase \in {"loading", "live"}
             /\ uses'[q] \in DOMAIN CdevOf => uses'[q] \in Kept
             /\ uses'[q] = Filesystem => phase = "live"
  BY <1>2, <1>3, <1>6, NothingIsNothing DEF UseInv
<1> QED BY <1>1, <1>5, <1>7, <1>8, <1>9 DEF UseInv

LEMMA AddGroupUse ==
    ASSUME LoadInv, UseInv, NEW p \in Procs, AddGroup(p) PROVE UseInv'
<1>1. Kept' = Kept /\ UNCHANGED <<phase, next, undo>> /\ UndoSet' = UndoSet
  BY UserKeeps
<1>2. uses[p] = CtrlDevice /\ held' = held \cup {GroupList} /\ uses' = uses
  BY DEF AddGroup
<1>3. phase \in {"loading", "live"} /\ CtrlDevice \in Kept
  BY <1>2, NothingIsNothing DEF UseInv
<1>4. GroupCache \in Kept
  <2>1. GroupCache \in Needs(CtrlDevice)
    BY NeedsAre DEF EventSet
  <2> QED BY <1>3, <2>1 DEF LoadInv
<1>5. IgnList \in held' => IgnList \in held
  BY <1>2, ListsAre
<1> QED BY <1>1, <1>2, <1>3, <1>4, <1>5 DEF UseInv

LEMMA MountUse ==
    ASSUME LoadInv, UseInv, NEW p \in Procs, Mount(p) PROVE UseInv'
<1>1. Kept' = Kept /\ UNCHANGED <<phase, next, undo>> /\ UndoSet' = UndoSet
  BY UserKeeps
<1>2. /\ uses[p] = Nothing /\ phase = "live" /\ held' = held
      /\ uses' = [uses EXCEPT ![p] = Filesystem]
  BY DEF Mount
<1>3. uses' \in [Procs -> DOMAIN CdevOf \cup {Nothing, Filesystem}]
  BY <1>2 DEF UseInv
<1>4. uses'[p] = Filesystem /\ \A q \in Procs \ {p} : uses'[q] = uses[q]
  BY <1>2 DEF UseInv
<1>5. IgnList \in held' => \E q \in Procs : uses'[q] = IgnDevice
  BY <1>2, <1>4, NothingIsNothing DEF UseInv
<1>6. ASSUME NEW q \in Procs
      PROVE  /\ uses'[q] \in DOMAIN CdevOf => uses'[q] \in Kept
  BY <1>4, NothingIsNothing DEF UseInv
<1> QED BY <1>1, <1>2, <1>3, <1>5, <1>6 DEF UseInv

LEMMA LeaveUse ==
    ASSUME LoadInv, UseInv, NEW p \in Procs, Leave(p) PROVE UseInv'
<1>1. Kept' = Kept /\ UNCHANGED <<phase, next, undo>> /\ UndoSet' = UndoSet
  BY UserKeeps
<1>2. /\ uses' = [uses EXCEPT ![p] = Nothing]
      /\ held' = IF uses[p] = IgnDevice /\ \A q \in Procs \ {p} : uses[q] # IgnDevice
                 THEN held \ {IgnList} ELSE held
  BY DEF Leave
<1>3. uses' \in [Procs -> DOMAIN CdevOf \cup {Nothing, Filesystem}]
  BY <1>2 DEF UseInv
<1>4. uses'[p] = Nothing /\ \A q \in Procs \ {p} : uses'[q] = uses[q]
  BY <1>2 DEF UseInv
<1>5. GroupList \in held' => GroupList \in held
  BY <1>2
<1>6. IgnList \in held' => \E q \in Procs : uses'[q] = IgnDevice
  <2>1. CASE uses[p] = IgnDevice /\ \A q \in Procs \ {p} : uses[q] # IgnDevice
    BY <1>2, <2>1
  <2>2. CASE \E q \in Procs \ {p} : uses[q] = IgnDevice
    BY <1>4, <2>2
  <2>3. CASE uses[p] # IgnDevice
    BY <1>2, <1>4, <2>3 DEF UseInv
  <2> QED BY <2>1, <2>2, <2>3
<1>7. ASSUME NEW q \in Procs
      PROVE  /\ uses'[q] # Nothing => phase \in {"loading", "live"}
             /\ uses'[q] \in DOMAIN CdevOf => uses'[q] \in Kept
             /\ uses'[q] = Filesystem => phase = "live"
  BY <1>4, NothingIsNothing DEF UseInv
<1> QED BY <1>1, <1>3, <1>5, <1>6, <1>7 DEF UseInv

LEMMA UseInvNext ==
    ASSUME ~FailsInUse, LoadInv, UseInv, [LoadNext]_loadVars PROVE UseInv'
<1>1. CASE AcquireFails
  <2>1. CtrlDevice \in Kept => GroupList \in UndoSet'
    BY <1>1, AcquireFailsKeeps
  <2> QED BY <1>1, <2>1, BeginUse DEF AcquireFails
<1>2. CASE Unload
  <2>1. GroupList \in UndoSet'
    BY <1>2, UnloadKeeps
  <2> QED BY <1>2, <2>1, BeginUse DEF Unload
<1>3. CASE UNCHANGED loadVars
  <2>1. Kept' = Kept /\ UndoSet' = UndoSet
    BY <1>3, KeptStays DEF loadVars, UndoSet
  <2> QED BY <1>3, <2>1 DEF loadVars, UseInv
<1>4. ASSUME NEW p \in Procs, NEW d \in DOMAIN CdevOf, OpenDevice(p, d) PROVE UseInv'
  BY <1>4, OpenUse
<1>5. ASSUME NEW p \in Procs, AddGroup(p) \/ Mount(p) \/ Leave(p) PROVE UseInv'
  BY <1>5, AddGroupUse, MountUse, LeaveUse
<1>6. CASE Load \/ Acquire \/ Release \/ Released
  BY <1>6, LoadUse, AcquireUse, ReleaseUse, ReleasedUse
<1> QED BY <1>1, <1>2, <1>3, <1>4, <1>5, <1>6 DEF LoadNext

LEMMA UseInvHolds == ASSUME ~FailsInUse PROVE LoadSpec => [](LoadInv /\ UseInv)
<1>1. LoadInit => LoadInv /\ UseInv
  BY LoadInvStart, UseInvStart
<1>2. LoadInv /\ UseInv /\ [LoadNext]_loadVars => (LoadInv /\ UseInv)'
  BY LoadInvNext, UseInvNext
<1> QED BY <1>1, <1>2, PTL DEF LoadSpec

(***************************************************************************)
(* When no step fails while a device is open, a load that fails at any     *)
(* step, and an unload, release exactly what was acquired and leave        *)
(* nothing behind: init_dazukofs_fs(), dazukofs_dev_init() and             *)
(* exit_dazukofs_fs().                                                     *)
(***************************************************************************)
THEOREM LeavesNothing == ~FailsInUse => (LoadSpec => []ReleasesExact)
<1> SUFFICES ASSUME ~FailsInUse PROVE LoadSpec => []ReleasesExact
  OBVIOUS
<1>1. ASSUME LoadInv, UseInv PROVE NothingLeft
  <2>1. SUFFICES ASSUME phase = "absent" PROVE held = {}
    BY DEF NothingLeft
  <2>2. Kept = {} /\ GroupList \notin held
    BY <1>1, <2>1 DEF LoadInv, UseInv
  <2>3. IgnList \notin held
    BY <1>1, <2>1, NothingIsNothing DEF UseInv
  <2> QED BY <2>2, <2>3 DEF Kept, Lists
<1>2. NothingLeft /\ ReleasesHeld => ReleasesExact
  BY DEF ReleasesExact
<1> QED BY <1>1, <1>2, UseInvHolds, UndoesWhatIsHeld, PTL

(***************************************************************************)
(* Under the same hypothesis a device never outlives its class, a cdev its *)
(* numbers, or an object the cache it was allocated from.                  *)
(***************************************************************************)
THEOREM OutlivesNothing == ~FailsInUse => (LoadSpec => []Nested)
<1> SUFFICES ASSUME ~FailsInUse PROVE LoadSpec => []Nested
  OBVIOUS
<1>1. ASSUME LoadInv, UseInv PROVE Nested
  <2>1. SUFFICES ASSUME NEW r \in held PROVE Requires(r) \subseteq held
    BY DEF Nested
  <2>2. Kept \subseteq held /\ Requires(r) \subseteq Needs(r)
    BY DEF Kept, Needs
  <2>3. CASE r \in Kept
    BY <1>1, <2>2, <2>3 DEF LoadInv
  <2>4. CASE r = GroupList
    <3>1. GroupCache \in Kept
      BY <1>1, <2>4 DEF UseInv
    <3> QED BY <2>2, <2>4, <3>1, NeedsAre
  <2>5. CASE r = IgnList
    <3>1. PICK p \in Procs : uses[p] = IgnDevice
      BY <1>1, <2>5 DEF UseInv
    <3>2. IgnDevice \in Kept
      BY <1>1, <3>1, NothingIsNothing DEF UseInv
    <3>3. IgnCache \in Kept
      BY <1>1, <3>2, NeedsAre DEF LoadInv
    <3> QED BY <2>2, <2>5, <3>3, NeedsAre
  <2> QED BY <2>3, <2>4, <2>5 DEF Kept, Lists
<1> QED BY <1>1, UseInvHolds, PTL

(***************************************************************************)
(* What a process has open, or mounted, finds the caches that its handlers *)
(* work with, during the load too: what dazukofs_destroy_events() takes    *)
(* for granted when it takes no locks.                                     *)
(***************************************************************************)
THEOREM UsersAreServed == ~FailsInUse => (LoadSpec => []UsersServed)
<1> SUFFICES ASSUME ~FailsInUse PROVE LoadSpec => []UsersServed
  OBVIOUS
<1>1. ASSUME LoadInv, UseInv PROVE UsersServed
  <2>1. SUFFICES ASSUME NEW p \in Procs PROVE WorksWith(uses[p]) \subseteq held
    BY DEF UsersServed
  <2>2. Kept \subseteq held
    BY DEF Kept
  <2>3. CASE uses[p] = Nothing
    BY <2>3, Works
  <2>4. CASE uses[p] \in DOMAIN CdevOf
    <3>1. uses[p] \in Kept
      BY <1>1, <2>4 DEF UseInv
    <3>2. WorksWith(uses[p]) \subseteq Needs(uses[p])
      BY <2>4 DEF Needs
    <3> QED BY <1>1, <2>2, <3>1, <3>2 DEF LoadInv
  <2>5. CASE uses[p] = Filesystem
    <3>1. Kept = Acquired(Len(LoadSteps) + 1)
      BY <1>1, <2>5 DEF LoadInv, UseInv
    <3>2. Len(LoadSteps) + 1 = 16 + 2 * GROUP_COUNT
      BY Steps, LoadAssumption
    <3>3. Filesystem \in Kept
      BY <3>1, <3>2, AcquiredSets
    <3>4. Needs(Filesystem) \subseteq Kept
      BY <1>1, <3>3 DEF LoadInv
    <3> QED BY <2>2, <2>5, <3>4, NeedsAre, Works
  <2> QED BY <1>1, <2>3, <2>4, <2>5 DEF UseInv
<1> QED BY <1>1, UseInvHolds, PTL
=============================================================================
