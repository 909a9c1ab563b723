---------------------------- MODULE GroupProofs -----------------------------
(***************************************************************************)
(* Theorems about the groups: the group list, the counter of the groups,   *)
(* the use counts and the deletion of groups, for any numbers of processes *)
(* and groups.                                                             *)
(***************************************************************************)
EXTENDS AccessProofs

(***************************************************************************)
(* group_count_sem: the writer is alone, and whoever looks at the groups   *)
(* in dazukofs_check_access() holds it for reading.                        *)
(***************************************************************************)
SharedPCs == {"precheck", "allocate", "assign"}

LocksOK ==
    \A t \in Threads :
        /\ pc[t] \in CtrlPCs => writer = {t} /\ readers = {}
        /\ pc[t] \in SharedPCs => t \in readers

(***************************************************************************)
(* The group list: no two groups on it have a name or an id in common, and *)
(* a name and an id that dazukofs_add_group() has found free stay free     *)
(* until the group is linked, because no other thread adds one.            *)
(***************************************************************************)
NamesOK ==
    /\ \A g, h \in Active :
          g # h => grp[g].id # grp[h].id /\ grp[g].name # grp[h].name
    /\ \A t \in Threads : pc[t] \in {"add_room", "add_link"} =>
          \A g \in Active : grp[g].id # cnt[t] /\ grp[g].name # cmd[t][1]

\* where the tracking flag of a group comes from
FlagsOK ==
    /\ \A t \in Threads : pc[t] \in CtrlPCs \ {"del"} => cmd[t][2] \in TrackFlags
    /\ \A g \in Groups : grp[g].tracking => TRUE \in TrackFlags
    /\ \A g \in Active : ~grp[g].tracking => FALSE \in TrackFlags

ListInv == TypeInv /\ LocksOK /\ NamesOK /\ FlagsOK

(***************************************************************************)
(* group_count.                                                            *)
(***************************************************************************)

\* the hypothesis under which only a holder of group_count_sem changes
\* group_count: there are no tracked groups, or no process leaves one
NoTrackedRemoval == TRUE \notin TrackFlags \/ "quit" \notin Env

Uncounted == \E t \in Threads : pc[t] \in {"add_load", "add_store"}

CountOK(t) ==
    /\ pc[t] \in {"add_check", "add_room", "add_link"} => FreshGroup # NoGroup
    /\ pc[t] = "add_room" => cnt[t] <= Cardinality(Active)
    /\ pc[t] = "add_link" => cnt[t] < GROUP_COUNT /\ Cardinality(Active) < GROUP_COUNT
    /\ pc[t] = "add_store" => cnt[t] = group_count
    /\ pc[t] = "assign" => cnt[t] = Cardinality(Active)
    /\ pc[t] # "rt_store"

CountInv ==
    /\ ListInv
    /\ removing = NoGroup
    /\ group_count = Cardinality(Active) - (IF Uncounted THEN 1 ELSE 0)
    /\ Cardinality(Active) <= GROUP_COUNT
    /\ \A g \in Active : grp[g].id < GROUP_COUNT
    /\ \A t \in Threads : CountOK(t)

(***************************************************************************)
(* use_count and track_count.                                              *)
(***************************************************************************)

\* the hypothesis under which a tracked group is only deleted by the last
\* process that leaves it
NoMixedRemoval == TRUE \notin TrackFlags \/ "del" \notin Commands

\* the threads inside a call on group g
Users(g) == {t \in Threads : cur[t] = g}

InUse(g) == Users(g) # {} \/ TrackedFiles(g) # {}

UsesOK(g) ==
    /\ grp[g].track_count = Cardinality(TrackedFiles(g))
    /\ grp[g].use_count = Cardinality(Users(g)) + Cardinality(TrackedFiles(g))
    /\ InUse(g) => grp[g].state \in {"active", "deprecated"}

FileOK(r) ==
    /\ file[r].tracked =>
          /\ file[r].grp \in Active /\ grp[file[r].grp].tracking
          /\ grp[file[r].grp].id = file[r].gid
    /\ file[r].grp # NoGroup /\ ~file[r].tracked => FALSE \in TrackFlags

UseInv ==
    /\ ListInv
    /\ \A t \in Threads : pc[t] = "del" => "del" \in Commands
    /\ \A g \in Groups : UsesOK(g)
    /\ \A r \in Readers : FileOK(r)
-----------------------------------------------------------------------------
(***************************************************************************)
(* What the steps do to the groups.                                        *)
(***************************************************************************)

\* t takes a reference to a group, gives its own back, or does neither
RefStep(t) ==
    \/ UNCHANGED <<grp, cur>>
    \/ /\ cur[t] = NoGroup
       /\ \E g \in Active : get_group(g) /\ cur' = [cur EXCEPT ![t] = g]
    \/ /\ cur[t] \in Groups
       /\ put_group(cur[t]) /\ cur' = [cur EXCEPT ![t] = NoGroup]

\* a step with no lock but work_mutex, of a thread that has none before or after
Bystander(t) ==
    /\ {pc[t], pc'[t]} \cap (CtrlPCs \cup SharedPCs \cup {"rt_store"}) = {}
    /\ RefStep(t)
    /\ UNCHANGED <<writer, readers, removing, group_count, cnt, cmd, file>>

\* a step of dazukofs_check_access()
ReadSide(t) ==
    /\ {pc[t], pc'[t]} \cap (CtrlPCs \cup {"rt_store"}) = {}
    /\ \/ writer = {} /\ readers' = readers \cup {t}
       \/ readers' = readers \ {t} /\ pc'[t] \notin SharedPCs
       \/ readers' = readers /\ (pc'[t] \in SharedPCs => pc[t] \in SharedPCs)
    /\ pc'[t] = "assign" =>
          \/ pc[t] = "assign" /\ cnt'[t] = cnt[t]
          \/ pc[t] = "allocate" /\ cnt'[t] = IF group_count > 0 THEN group_count ELSE 0
    /\ UNCHANGED <<writer, removing, group_count, grp, cur, cmd, file>>

(* The steps inside read(2), write(2) and poll(2) move references and nothing
   else; the end of __remove_group() is the exception. *)
LEMMA GroupDevBystander ==
    ASSUME TypeInv, NEW t \in Threads, GroupDevStep(t), ~StoreRemoved(t)
    PROVE  Bystander(t)
<1>0. pc \in [Threads -> PCs] /\ LocalOK(t) /\ cur \in [Threads -> Groups \cup {NoGroup}]
  BY DEF TypeInv, TypeOK
<1>g. MyGroup(t) # NoGroup => MyGroup(t) \in Active
  BY LookupType DEF MyGroup
<1> DEFINE Steps == {"idle", "ge_sleep", "ge_check", "ge_claim", "ge_wait", "open",
                     "dentry_open", "open_ret", "unclaim", "unclaim_wake", "copy",
                     "re_release", "poll_lookup", "poll_check", "poll_free", "poll_sleep"}
<1>c. /\ pc[t] \in {"ge_wait", "ge_sleep", "ge_check", "open_ret", "unclaim_wake",
                    "re_release", "poll_check"} => cur[t] \in Groups
      /\ pc[t] \in {"idle", "copy", "poll_lookup"} => cur[t] = NoGroup
  BY <1>0 DEF LocalOK, HasGroup, CheckAccessPCs
<1> USE DEF Goto, shared, locals, user, history
<1>a. ASSUME pc[t] \in Steps, pc'[t] \in Steps, RefStep(t),
             UNCHANGED <<writer, readers, removing, group_count, cnt, cmd, file>>
      PROVE  Bystander(t)
  BY <1>a DEF Bystander, CtrlPCs, SharedPCs
<1>b. ASSUME pc[t] \in Steps, NEW l \in Steps, pc' = [pc EXCEPT ![t] = l], RefStep(t),
             UNCHANGED <<writer, readers, removing, group_count, cnt, cmd, file>>
      PROVE  Bystander(t)
  <2>1. pc'[t] \in Steps
    BY <1>0, <1>b
  <2> QED BY <1>a, <1>b, <2>1
<1>1. CASE GetEventWait(t)
  <2>1. RefStep(t)
    BY <1>0, <1>g, <1>c, <1>1 DEF GetEventWait, RefStep
  <2>2. /\ pc[t] \in Steps /\ \E l \in Steps : pc' = [pc EXCEPT ![t] = l]
        /\ UNCHANGED <<writer, readers, removing, group_count, cnt, cmd, file>>
    BY <1>1 DEF GetEventWait
  <2> QED BY <1>b, <2>1, <2>2
<1>2. CASE GetEventSignal(t)
  <2>1. RefStep(t)
    BY <1>0, <1>g, <1>c, <1>2 DEF GetEventSignal, Leave, RefStep
  <2>2. /\ pc[t] \in Steps /\ \E l \in Steps : pc' = [pc EXCEPT ![t] = l]
        /\ UNCHANGED <<writer, readers, removing, group_count, cnt, cmd, file>>
    BY <1>2 DEF GetEventSignal, Leave
  <2> QED BY <1>b, <2>1, <2>2
<1>3. CASE GetEventCheck(t)
  <2>1. RefStep(t)
    BY <1>0, <1>g, <1>c, <1>3 DEF GetEventCheck, Leave, RefStep
  <2>2. /\ pc[t] \in Steps /\ \E l \in Steps : pc' = [pc EXCEPT ![t] = l]
        /\ UNCHANGED <<writer, readers, removing, group_count, cnt, cmd, file>>
    BY <1>3 DEF GetEventCheck, Leave
  <2> QED BY <1>b, <2>1, <2>2
<1>4. CASE ClaimEvent(t)
  <2>1. RefStep(t)
    BY <1>0, <1>g, <1>c, <1>4 DEF ClaimEvent, RefStep
  <2>2. /\ pc[t] \in Steps /\ \E l \in Steps : pc' = [pc EXCEPT ![t] = l]
        /\ UNCHANGED <<writer, readers, removing, group_count, cnt, cmd, file>>
    BY <1>4 DEF ClaimEvent
  <2> QED BY <1>b, <2>1, <2>2
<1>5. CASE OpenFile(t)
  <2>1. RefStep(t)
    BY <1>0, <1>g, <1>c, <1>5 DEF OpenFile, RefStep
  <2>2. /\ pc[t] \in Steps /\ \E l \in Steps : pc' = [pc EXCEPT ![t] = l]
        /\ UNCHANGED <<writer, readers, removing, group_count, cnt, cmd, file>>
    BY <1>5 DEF OpenFile
  <2> QED BY <1>b, <2>1, <2>2
<1>6. CASE OpenFileNoFd(t)
  <2>1. RefStep(t)
    BY <1>0, <1>g, <1>c, <1>6 DEF OpenFileNoFd, RefStep
  <2>2. /\ pc[t] \in Steps /\ \E l \in Steps : pc' = [pc EXCEPT ![t] = l]
        /\ UNCHANGED <<writer, readers, removing, group_count, cnt, cmd, file>>
    BY <1>6 DEF OpenFileNoFd
  <2> QED BY <1>b, <2>1, <2>2
<1>7. CASE DentryOpenFails(t)
  <2>1. RefStep(t)
    BY <1>0, <1>g, <1>c, <1>7 DEF DentryOpenFails, RefStep
  <2>2. /\ pc[t] \in Steps /\ \E l \in Steps : pc' = [pc EXCEPT ![t] = l]
        /\ UNCHANGED <<writer, readers, removing, group_count, cnt, cmd, file>>
    BY <1>7 DEF DentryOpenFails
  <2> QED BY <1>b, <2>1, <2>2
<1>8. CASE OpenReturn(t)
  <2>1. RefStep(t)
    BY <1>0, <1>g, <1>c, <1>8 DEF OpenReturn, Leave, RefStep
  <2>2. /\ pc[t] \in Steps /\ \E l \in Steps : pc' = [pc EXCEPT ![t] = l]
        /\ UNCHANGED <<writer, readers, removing, group_count, cnt, cmd, file>>
    BY <1>8 DEF OpenReturn, Leave
  <2> QED BY <1>b, <2>1, <2>2
<1>9. CASE Unclaim(t)
  <2>1. RefStep(t)
    BY <1>0, <1>g, <1>c, <1>9 DEF Unclaim, RefStep
  <2>2. /\ pc[t] \in Steps /\ \E l \in Steps : pc' = [pc EXCEPT ![t] = l]
        /\ UNCHANGED <<writer, readers, removing, group_count, cnt, cmd, file>>
    BY <1>9 DEF Unclaim
  <2> QED BY <1>b, <2>1, <2>2
<1>10. CASE CopyOut(t)
  <2>1. RefStep(t)
    BY <1>0, <1>g, <1>c, <1>10 DEF CopyOut, RefStep
  <2>2. /\ pc[t] \in Steps /\ \E l \in Steps : pc' = [pc EXCEPT ![t] = l]
        /\ UNCHANGED <<writer, readers, removing, group_count, cnt, cmd, file>>
    BY <1>10 DEF CopyOut
  <2> QED BY <1>b, <2>1, <2>2
<1>11. CASE CopyFails(t)
  <2>1. RefStep(t)
    BY <1>0, <1>g, <1>c, <1>11 DEF CopyFails, RefStep
  <2>2. /\ pc[t] \in Steps /\ \E l \in Steps : pc' = [pc EXCEPT ![t] = l]
        /\ UNCHANGED <<writer, readers, removing, group_count, cnt, cmd, file>>
    BY <1>11 DEF CopyFails
  <2> QED BY <1>b, <2>1, <2>2
<1>12. CASE PollLookup(t)
  <2>1. RefStep(t)
    BY <1>0, <1>g, <1>c, <1>12 DEF PollLookup, RefStep
  <2>2. /\ pc[t] \in Steps /\ \E l \in Steps : pc' = [pc EXCEPT ![t] = l]
        /\ UNCHANGED <<writer, readers, removing, group_count, cnt, cmd, file>>
    BY <1>12 DEF PollLookup
  <2> QED BY <1>b, <2>1, <2>2
<1>13. CASE PollCheck(t)
  <2>1. RefStep(t)
    BY <1>0, <1>g, <1>c, <1>13 DEF PollCheck, Leave, RefStep
  <2>2. /\ pc[t] \in Steps /\ \E l \in Steps : pc' = [pc EXCEPT ![t] = l]
        /\ UNCHANGED <<writer, readers, removing, group_count, cnt, cmd, file>>
    BY <1>13 DEF PollCheck, Leave
  <2> QED BY <1>b, <2>1, <2>2
<1>14. CASE PollTimeout(t)
  <2>1. RefStep(t)
    BY <1>0, <1>g, <1>c, <1>14 DEF PollTimeout, RefStep
  <2>2. /\ pc[t] \in Steps /\ \E l \in Steps : pc' = [pc EXCEPT ![t] = l]
        /\ UNCHANGED <<writer, readers, removing, group_count, cnt, cmd, file>>
    BY <1>14 DEF PollTimeout
  <2> QED BY <1>b, <2>1, <2>2
<1>15. CASE PollFree(t)
  <2>1. RefStep(t)
    BY <1>0, <1>g, <1>c, <1>15 DEF PollFree, RefStep
  <2>2. /\ pc[t] \in Steps /\ \E l \in Steps : pc' = [pc EXCEPT ![t] = l]
        /\ UNCHANGED <<writer, readers, removing, group_count, cnt, cmd, file>>
    BY <1>15 DEF PollFree
  <2> QED BY <1>b, <2>1, <2>2
<1>16. CASE UnclaimWake(t)
  <2> DEFINE p == [pc EXCEPT ![t] = "idle"]
  <2>1. /\ pc[t] = "unclaim_wake" /\ p[t] = "idle" /\ pc' = wake_up_group(p, {cur[t]})
        /\ put_group(cur[t]) /\ cur' = [cur EXCEPT ![t] = NoGroup]
        /\ UNCHANGED <<writer, readers, removing, group_count, cnt, cmd, file>>
    BY <1>0, <1>16 DEF UnclaimWake
  <2> HIDE DEF p
  <2>2. pc'[t] = "idle"
    BY <2>1 DEF wake_up_group
  <2>3. RefStep(t)
    BY <1>c, <2>1 DEF RefStep
  <2> QED BY <1>a, <2>1, <2>2, <2>3
<1>17. CASE ReleaseAnswered(t)
  <2> DEFINE p == [pc EXCEPT ![t] = "idle"]
  <2>1. /\ pc[t] = "re_release" /\ p[t] = "idle" /\ pc' = wake_up_event(p, Woken({ec[t]}))
        /\ put_group(cur[t]) /\ cur' = [cur EXCEPT ![t] = NoGroup]
        /\ UNCHANGED <<writer, readers, removing, group_count, cnt, cmd, file>>
    BY <1>0, <1>17 DEF ReleaseAnswered
  <2> HIDE DEF p
  <2>2. pc'[t] = "idle"
    BY <2>1 DEF wake_up_event
  <2>3. RefStep(t)
    BY <1>c, <2>1 DEF RefStep
  <2> QED BY <1>a, <2>1, <2>2, <2>3
<1> QED
  BY <1>1, <1>2, <1>3, <1>4, <1>5, <1>6, <1>7, <1>8, <1>9,
     <1>10, <1>11, <1>12, <1>13, <1>14, <1>15, <1>16, <1>17 DEF GroupDevStep

(* The calls of a registered process, apart from open(2) and close(2). *)
LEMMA UserBystander ==
    ASSUME TypeInv, NEW t \in Threads,
           \/ GetEvent(t)
           \/ \E u \in Readers, e \in Events, v \in Answers : ReturnEvent(t, u, e, v)
    PROVE  Bystander(t)
<1>0. pc \in [Threads -> PCs] /\ LocalOK(t)
  BY DEF TypeInv, TypeOK
<1>g. MyGroup(t) # NoGroup => MyGroup(t) \in Active
  BY LookupType DEF MyGroup
<1>c. pc[t] = "idle" => cur[t] = NoGroup
  BY <1>0 DEF LocalOK, HasGroup, CheckAccessPCs
<1> USE DEF Goto, shared, locals, user, history
<1>1. CASE GetEvent(t)
  <2>1. pc[t] = "idle" /\ pc' = [pc EXCEPT ![t] = "ge_wait"] /\ RefStep(t)
    BY <1>g, <1>c, <1>1 DEF GetEvent, RefStep
  <2>2. UNCHANGED <<writer, readers, removing, group_count, cnt, cmd, file>>
    BY <1>1 DEF GetEvent
  <2> QED BY <1>0, <2>1, <2>2 DEF Bystander, CtrlPCs, SharedPCs
<1>2. ASSUME NEW u \in Readers, NEW e \in Events, NEW v \in Answers, ReturnEvent(t, u, e, v)
      PROVE  Bystander(t)
  <2>1. /\ pc[t] = "idle" /\ (pc' = pc \/ pc' = [pc EXCEPT ![t] = "re_release"])
    BY <1>2 DEF ReturnEvent
  <2>2. RefStep(t)
    BY <1>g, <1>c, <1>2 DEF ReturnEvent, RefStep
  <2>3. UNCHANGED <<writer, readers, removing, group_count, cnt, cmd, file>>
    BY <1>2 DEF ReturnEvent
  <2> QED BY <1>0, <2>1, <2>2, <2>3 DEF Bystander, CtrlPCs, SharedPCs
<1> QED BY <1>1, <1>2

(* dazukofs_check_access() takes group_count_sem for reading and lets it go. *)
LEMMA CheckAccessReads ==
    ASSUME TypeInv, NEW t \in Threads, CheckAccessStep(t)
    PROVE  ReadSide(t)
<1>0. /\ pc \in [Threads -> PCs] /\ cnt \in [Threads -> Int] /\ readers \subseteq Threads
      /\ mine[t] \in Events \cup {NoEvent}
  BY DEF TypeInv, TypeOK
<1> USE DEF Goto, shared, locals, user, history
<1> DEFINE Frame == UNCHANGED <<writer, removing, group_count, grp, cur, cmd, file>>
<1>1. CASE DownRead(t)
  BY <1>0, <1>1 DEF DownRead, ReadSide, CtrlPCs, SharedPCs
<1>2. CASE PrecheckPasses(t)
  <2>1. /\ pc[t] = "precheck" /\ readers' = readers \ {t} /\ Frame
        /\ \E l \in {"idle", "open_ret"} : pc' = [pc EXCEPT ![t] = l]
    BY <1>2 DEF PrecheckPasses, CheckAccessReturns
  <2> QED BY <1>0, <2>1 DEF ReadSide, CtrlPCs, SharedPCs
<1>3. CASE PrecheckHandles(t)
  BY <1>0, <1>3 DEF PrecheckHandles, ReadSide, CtrlPCs, SharedPCs
<1>4. CASE Allocate(t)
  <2>1. /\ pc[t] = "allocate" /\ readers' = readers /\ Frame
        /\ pc' = [pc EXCEPT ![t] = "assign"]
        /\ cnt' = [cnt EXCEPT ![t] = IF group_count > 0 THEN group_count ELSE 0]
    BY <1>4 DEF Allocate
  <2> QED BY <1>0, <2>1 DEF ReadSide, CtrlPCs, SharedPCs
<1>5. CASE AllocateFails(t)
  <2>1. /\ pc[t] = "allocate" /\ readers' = readers \ {t} /\ Frame
        /\ \E l \in {"idle", "open_ret"} : pc' = [pc EXCEPT ![t] = l]
    BY <1>5 DEF AllocateFails, CheckAccessReturns
  <2> QED BY <1>0, <2>1 DEF ReadSide, CtrlPCs, SharedPCs
<1>6. CASE Assign(t)
  <2> DEFINE p == [pc EXCEPT ![t] = "ev_wait"]
  <2>1. /\ pc[t] = "assign" /\ p[t] = "ev_wait" /\ pc' = wake_up_group(p, Active)
        /\ readers' = readers \ {t} /\ Frame
    BY <1>0, <1>6 DEF Assign
  <2> HIDE DEF p
  <2>2. pc'[t] = "ev_wait"
    BY <2>1 DEF wake_up_group
  <2> QED BY <2>1, <2>2 DEF ReadSide, CtrlPCs, SharedPCs
<1>7. CASE AssignOverruns(t)
  BY <1>7 DEF AssignOverruns, ReadSide, CtrlPCs, SharedPCs
<1>8. CASE WaitEvent(t)
  BY <1>0, <1>8 DEF WaitEvent, ReadSide, CtrlPCs, SharedPCs
<1>9. CASE ReadVerdict(t)
  BY <1>0, <1>9 DEF ReadVerdict, ReadSide, CtrlPCs, SharedPCs
<1>10. CASE ReleaseOwn(t)
  <2>1. /\ pc[t] = "ev_release" /\ readers' = readers /\ Frame
        /\ \E l \in {"idle", "open_ret"} : pc' = [pc EXCEPT ![t] = l]
    BY <1>10 DEF ReleaseOwn, CheckAccessReturns
  <2> QED BY <1>0, <2>1 DEF ReadSide, CtrlPCs, SharedPCs
<1> QED
  BY <1>1, <1>2, <1>3, <1>4, <1>5, <1>6, <1>7, <1>8, <1>9, <1>10 DEF CheckAccessStep

(* The kinds of steps that matter to the groups. *)
LEMMA GroupSteps ==
    ASSUME TypeInv, NEW t \in Threads, ThreadStep(t)
    PROVE  \/ Bystander(t) \/ ReadSide(t) \/ StoreRemoved(t)
           \/ \E id \in 0 .. GROUP_COUNT - 1 : t \in Readers /\ OpenDev(t, id)
           \/ t \in Readers /\ (CloseUntracked(t) \/ CloseTracked(t))
           \/ GroupCtrlStep(t) \/ CommandStep(t)
  BY GroupDevBystander, UserBystander, CheckAccessReads
     DEF ThreadStep, KernelStep, CallStep, UserStep
-----------------------------------------------------------------------------
(***************************************************************************)
(* Locks, names and flags.                                                 *)
(***************************************************************************)

\* the step obeys group_count_sem
LockStep(t) ==
    /\ readers \ {t} \subseteq readers'
    /\ pc'[t] \in SharedPCs => t \in readers'
    /\ pc'[t] \in CtrlPCs => writer' = {t} /\ readers' = {}
    /\ \/ writer' = writer /\ (readers' \subseteq readers \/ writer = {})
       \/ writer = {} \/ pc[t] \in CtrlPCs

\* no group is linked and none gets another name or id
ListShrinks ==
    \A g \in Groups :
        grp'[g].state = "active" =>
            /\ grp[g].state = "active"
            /\ grp'[g].id = grp[g].id /\ grp'[g].name = grp[g].name

FlagStep ==
    \A g \in Groups :
        /\ grp'[g].tracking => grp[g].tracking \/ TRUE \in TrackFlags
        /\ grp'[g].state = "active" /\ ~grp'[g].tracking =>
              FALSE \in TrackFlags \/ (grp[g].state = "active" /\ ~grp[g].tracking)

\* what t has read or been told about the group to be added is right
OwnList(t) ==
    /\ pc'[t] \in {"add_room", "add_link"} =>
          \A g \in Active' : grp'[g].id # cnt'[t] /\ grp'[g].name # cmd'[t][1]
    /\ pc'[t] \in CtrlPCs \ {"del"} => cmd'[t][2] \in TrackFlags

(* The semaphore stays with its holders. *)
LEMMA LocksKept ==
    ASSUME LocksOK, NEW t \in Threads, OthersAside(t), LockStep(t)
    PROVE  LocksOK'
<1> SUFFICES ASSUME NEW u \in Threads
             PROVE  /\ pc'[u] \in CtrlPCs => writer' = {u} /\ readers' = {}
                    /\ pc'[u] \in SharedPCs => u \in readers'
  BY DEF LocksOK
<1>1. CASE u = t
  BY <1>1 DEF LockStep
<1>2. CASE u # t
  <2>1. pc'[u] \in CtrlPCs \cup SharedPCs => pc[u] = pc'[u]
    BY <1>2 DEF OthersAside, Undisturbed, CtrlPCs, SharedPCs
  <2>2. ASSUME pc'[u] \in CtrlPCs PROVE writer' = {u} /\ readers' = {}
    <3>1. writer = {u} /\ readers = {} /\ pc[t] \notin CtrlPCs
      BY <1>2, <2>1, <2>2 DEF LocksOK
    <3> QED BY <3>1 DEF LockStep
  <2>3. pc'[u] \in SharedPCs => u \in readers'
    BY <1>2, <2>1 DEF LockStep, LocksOK
  <2> QED BY <2>2, <2>3
<1> QED BY <1>1, <1>2

(* A step that links no group. *)
LEMMA ListKept ==
    ASSUME ListInv, TypeInv', NEW t \in Threads, OthersAside(t), LockStep(t),
           ListShrinks, FlagStep, OwnList(t)
    PROVE  ListInv'
<1>1. LocksOK'
  BY LocksKept DEF ListInv
<1>2. \A u \in Threads \ {t} :
         /\ cnt'[u] = cnt[u] /\ cmd'[u] = cmd[u]
         /\ pc'[u] \in CtrlPCs => pc[u] = pc'[u]
  BY DEF OthersAside, Undisturbed, CtrlPCs
<1>3. \A g \in Groups : g \in Active' =>
         g \in Active /\ grp'[g].id = grp[g].id /\ grp'[g].name = grp[g].name
  BY DEF ListShrinks, Active
<1>4. Active' \subseteq Groups /\ {"add_room", "add_link"} \subseteq CtrlPCs
  BY DEF Active, CtrlPCs
<1>5. NamesOK'
  <2>1. \A g, h \in Active' :
           g # h => grp'[g].id # grp'[h].id /\ grp'[g].name # grp'[h].name
    BY <1>3, <1>4 DEF ListInv, NamesOK
  <2>2. ASSUME NEW u \in Threads, pc'[u] \in {"add_room", "add_link"}, NEW g \in Active'
        PROVE  grp'[g].id # cnt'[u] /\ grp'[g].name # cmd'[u][1]
    <3>1. CASE u = t
      BY <2>2, <3>1 DEF OwnList
    <3>2. CASE u # t
      BY <1>2, <1>3, <1>4, <2>2, <3>2 DEF ListInv, NamesOK
    <3> QED BY <3>1, <3>2
  <2> QED BY <2>1, <2>2 DEF NamesOK
<1>6. FlagsOK'
  <2>1. ASSUME NEW u \in Threads, pc'[u] \in CtrlPCs \ {"del"}
        PROVE  cmd'[u][2] \in TrackFlags
    BY <1>2, <2>1 DEF OwnList, ListInv, FlagsOK
  <2>2. \A g \in Groups : /\ grp'[g].tracking => TRUE \in TrackFlags
                          /\ g \in Active' /\ ~grp'[g].tracking => FALSE \in TrackFlags
    BY DEF FlagStep, ListInv, FlagsOK, Active
  <2> QED BY <1>4, <2>1, <2>2 DEF FlagsOK
<1> QED BY <1>1, <1>5, <1>6 DEF ListInv

(* A step that moves references, or reads, leaves the list alone. *)
LEMMA RefsOnly ==
    ASSUME TypeOK, NEW t \in Threads, Bystander(t) \/ ReadSide(t)
    PROVE  \A h \in Groups : /\ grp'[h].state = grp[h].state /\ grp'[h].id = grp[h].id
                             /\ grp'[h].name = grp[h].name
                             /\ grp'[h].tracking = grp[h].tracking
                             /\ grp'[h].track_count = grp[h].track_count
<1>1. \E g : get_group(g) \/ put_group(g) \/ grp' = grp
  BY DEF Bystander, RefStep, ReadSide
<1> QED BY <1>1, CountOnly

(* open(2) and close(2) of a device add no group and give none another name, id
   or flag. *)
LEMMA DeviceGroups ==
    ASSUME TypeOK, NEW t \in Threads,
           \/ \E id : OpenDev(t, id)
           \/ CloseUntracked(t) \/ CloseTracked(t) \/ StoreRemoved(t)
    PROVE  /\ \A h \in Groups :
                 /\ grp'[h].id = grp[h].id /\ grp'[h].name = grp[h].name
                 /\ grp'[h].tracking = grp[h].tracking
                 /\ grp'[h].state = "active" => grp[h].state = "active"
           /\ pc[t] \notin CtrlPCs \cup SharedPCs /\ pc'[t] \notin CtrlPCs \cup SharedPCs
           /\ UNCHANGED <<writer, readers, cmd>>
<1>0. grp \in [Groups -> Group] /\ pc \in [Threads -> PCs]
  BY DEF TypeOK
<1> USE DEF Goto, shared, locals, user, history
<1>1. ASSUME NEW id, OpenDev(t, id)
      PROVE  /\ \A h \in Groups :
                   /\ grp'[h].id = grp[h].id /\ grp'[h].name = grp[h].name
                   /\ grp'[h].tracking = grp[h].tracking
                   /\ grp'[h].state = "active" => grp[h].state = "active"
             /\ pc[t] \notin CtrlPCs \cup SharedPCs /\ pc'[t] \notin CtrlPCs \cup SharedPCs
             /\ UNCHANGED <<writer, readers, cmd>>
  <2> DEFINE g == LookupGroup(id)
  <2>1. /\ \/ grp' = grp
           \/ grp' = [grp EXCEPT ![g].use_count = @ + 1, ![g].track_count = @ + 1]
        /\ pc[t] = "idle" /\ pc' = pc /\ UNCHANGED <<writer, readers, cmd>>
    BY <1>1 DEF OpenDev
  <2> HIDE DEF g
  <2>2. \A h \in Groups :
           /\ grp'[h].id = grp[h].id /\ grp'[h].name = grp[h].name
           /\ grp'[h].tracking = grp[h].tracking
           /\ grp'[h].state = grp[h].state
    BY <1>0, <2>1 DEF Group
  <2> QED BY <2>1, <2>2 DEF CtrlPCs, SharedPCs
<1>2. CASE CloseUntracked(t)
  <2>1. pc[t] = "idle" /\ pc' = pc /\ UNCHANGED <<grp, writer, readers, cmd>>
    BY <1>2 DEF CloseUntracked, Quits
  <2> QED BY <2>1 DEF CtrlPCs, SharedPCs
<1>3. CASE CloseTracked(t)
  <2> DEFINE g == MyGroup(t)
  <2>1. /\ \/ grp' = grp \/ grp' = Untrack(g)
           \/ grp' = [Untrack(g) EXCEPT ![g].state = "deprecated"]
        /\ pc[t] = "idle" /\ (pc' = pc \/ pc' = [pc EXCEPT ![t] = "rt_store"])
        /\ UNCHANGED <<writer, readers, cmd>>
    BY <1>3 DEF CloseTracked, Quits
  <2> HIDE DEF g
  <2>2. \A h \in Groups :
           /\ Untrack(g)[h].id = grp[h].id /\ Untrack(g)[h].name = grp[h].name
           /\ Untrack(g)[h].tracking = grp[h].tracking
           /\ Untrack(g)[h].state = grp[h].state
    BY <1>0 DEF Untrack, Group
  <2>3. grp' # grp => Untrack(g) \in [Groups -> Group]
    <3>1. grp' # grp => g # NoGroup
      BY <1>3 DEF CloseTracked, g
    <3>2. g \in Groups \cup {NoGroup}
      BY LookupType DEF MyGroup, g
    <3> QED BY <3>1, <3>2, TrackTypes
  <2>4. ASSUME grp' # grp, grp' = [Untrack(g) EXCEPT ![g].state = "deprecated"],
               NEW h \in Groups
        PROVE  /\ grp'[h].id = grp[h].id /\ grp'[h].name = grp[h].name
               /\ grp'[h].tracking = grp[h].tracking
               /\ grp'[h].state = "active" => grp[h].state = "active"
    <3>1. grp'[h] = IF h = g THEN [Untrack(g)[h] EXCEPT !.state = "deprecated"]
                    ELSE Untrack(g)[h]
      BY <2>3, <2>4
    <3>2. /\ grp'[h].id = Untrack(g)[h].id /\ grp'[h].name = Untrack(g)[h].name
          /\ grp'[h].tracking = Untrack(g)[h].tracking
          /\ grp'[h].state \in {Untrack(g)[h].state, "deprecated"}
      BY <2>3, <2>4, <3>1 DEF Group
    <3> QED BY <2>2, <3>2
  <2>5. pc'[t] \in {"idle", "rt_store"}
    BY <1>0, <2>1
  <2> QED BY <2>1, <2>2, <2>4, <2>5 DEF CtrlPCs, SharedPCs
<1>4. CASE StoreRemoved(t)
  <2> DEFINE p == [pc EXCEPT ![t] = "idle"]
  <2>1. /\ pc[t] = "rt_store" /\ UNCHANGED <<grp, writer, readers, cmd>>
        /\ p[t] = "idle" /\ pc' = WakeCleared(p, removing)
    BY <1>0, <1>4 DEF StoreRemoved
  <2> HIDE DEF p
  <2>2. pc'[t] = "idle"
    BY <2>1 DEF WakeCleared, wake_up_group, wake_up_event
  <2> QED BY <2>1, <2>2 DEF CtrlPCs, SharedPCs
<1> QED BY <1>1, <1>2, <1>3, <1>4

(* What the loop around __check_for_group() frees and finds. *)
LEMMA CheckForGroupEffect ==
    ASSUME TypeOK, NEW t \in Threads, CheckForGroup(t)
    PROVE  /\ pc[t] = "add_check" /\ pc'[t] \in {"idle", "add_room"} /\ removing = NoGroup
           /\ UNCHANGED <<readers, removing, group_count, cur, file>>
           /\ \A g \in Groups :
                 \/ g \in Sweepable /\ grp'[g] = NullGroup("freed")
                 \/ /\ grp'[g].state = grp[g].state
                    /\ grp'[g].id = grp[g].id /\ grp'[g].name = grp[g].name
                    /\ grp'[g].use_count = grp[g].use_count
                    /\ grp'[g].track_count = grp[g].track_count
                    /\ grp'[g].tracking \in {grp[g].tracking, grp[g].tracking \/ cmd[t][2]}
           /\ pc'[t] = "add_room" =>
                 /\ cnt'[t] = AvailableId /\ UNCHANGED <<writer, cmd>>
                 /\ \A g \in Active : grp[g].name # cmd[t][1]
           /\ pc'[t] = "idle" => writer' = {}
<1>0. /\ grp \in [Groups -> Group] /\ pc \in [Threads -> PCs] /\ cnt \in [Threads -> Int]
  BY DEF TypeOK
<1> DEFINE h == NamedGroup(cmd[t][1])
           S == Swept(h)
<1>1. /\ pc[t] = "add_check" /\ removing = NoGroup
      /\ UNCHANGED <<readers, removing, group_count, cur, file>>
  BY DEF CheckForGroup, WorkMutexFree, user
<1>2. grp' = [g \in Groups |->
               IF g \in S THEN NullGroup("freed")
               ELSE IF g = h THEN [grp[g] EXCEPT !.tracking = @ \/ cmd[t][2]]
               ELSE grp[g]]
  BY DEF CheckForGroup
<1>3. S \subseteq Sweepable
  BY DEF Swept
<1>4. \/ /\ h = NoGroup /\ cnt' = [cnt EXCEPT ![t] = AvailableId]
         /\ pc' = [pc EXCEPT ![t] = "add_room"] /\ UNCHANGED <<writer, cmd>>
      \/ writer' = {} /\ pc' = [pc EXCEPT ![t] = "idle"]
  BY DEF CheckForGroup, UpWrite, Goto
<1>5. h = NoGroup => \A g \in Active : grp[g].name # cmd[t][1]
  <2>1. {g \in Active : grp[g].name = cmd[t][1]} \subseteq Groups
    BY DEF Active
  <2> QED BY <2>1, FirstOfGroups DEF NamedGroup
<1> HIDE DEF h, S
<1>6. ASSUME NEW g \in Groups
      PROVE  \/ g \in Sweepable /\ grp'[g] = NullGroup("freed")
             \/ /\ grp'[g].state = grp[g].state
                /\ grp'[g].id = grp[g].id /\ grp'[g].name = grp[g].name
                /\ grp'[g].use_count = grp[g].use_count
                /\ grp'[g].track_count = grp[g].track_count
                /\ grp'[g].tracking \in {grp[g].tracking, grp[g].tracking \/ cmd[t][2]}
  <2>1. CASE g \in S
    BY <1>2, <1>3, <2>1
  <2>2. CASE g \notin S /\ g = h
    BY <1>0, <1>2, <2>2 DEF Group
  <2>3. CASE g \notin S /\ g # h
    BY <1>2, <2>3
  <2> QED BY <2>1, <2>2, <2>3
<1>7. pc'[t] \in {"idle", "add_room"} /\ (pc'[t] = "idle" => writer' = {})
  BY <1>0, <1>4
<1>8. pc'[t] = "add_room" => /\ cnt'[t] = AvailableId /\ UNCHANGED <<writer, cmd>>
                             /\ \A g \in Active : grp[g].name # cmd[t][1]
  BY <1>0, <1>4, <1>5
<1> QED BY <1>1, <1>6, <1>7, <1>8

(* What linking a group does to the list. *)
LEMMA AddLinkEffect ==
    ASSUME TypeOK, NEW t \in Threads, AddLink(t)
    PROVE  /\ pc[t] = "add_link" /\ pc'[t] = "add_load" /\ removing = NoGroup
           /\ UNCHANGED <<writer, readers, removing, group_count, cnt, cur, cmd, file>>
           /\ FreshGroup \in Groups \cup {NoGroup}
           /\ FreshGroup # NoGroup => grp[FreshGroup].state = "none"
           /\ \A g \in Groups :
                 grp'[g] = IF g = FreshGroup
                           THEN [NullGroup("active") EXCEPT !.name = cmd[t][1], !.id = cnt[t],
                                                            !.tracking = cmd[t][2]]
                           ELSE grp[g]
<1>0. /\ grp \in [Groups -> Group] /\ pc \in [Threads -> PCs]
  BY DEF TypeOK
<1>1. {g \in Groups : grp[g].state = "none"} \subseteq Groups
  OBVIOUS
<1>2. /\ FreshGroup \in Groups \cup {NoGroup}
      /\ FreshGroup # NoGroup => grp[FreshGroup].state = "none"
  BY <1>1, FirstOfGroups DEF FreshGroup
<1> QED BY <1>0, <1>2 DEF AddLink, Goto, WorkMutexFree, locals, user

(* What the removal of a group by name does to the list. *)
LEMMA RemoveGroupEffect ==
    ASSUME TypeOK, NEW t \in Threads, RemoveGroup(t)
    PROVE  \E g \in Active :
              /\ pc[t] = "del" /\ pc'[t] = "idle" /\ writer' = {} /\ removing = NoGroup
              /\ group_count' = group_count - 1
              /\ UNCHANGED <<readers, removing, cur, cnt, file>>
              /\ grp' = [grp EXCEPT ![g].state = "deprecated"]
<1>0. grp \in [Groups -> Group] /\ pc \in [Threads -> PCs]
  BY DEF TypeOK
<1>1. NamedGroup(cmd[t][1]) \in Active
  <2>1. {h \in Active : grp[h].name = cmd[t][1]} \subseteq Groups
    BY DEF Active
  <2> QED BY <2>1, FirstOfGroups DEF RemoveGroup, NamedGroup
<1>2. PICK g \in Active : g = NamedGroup(cmd[t][1])
  BY <1>1
<1> DEFINE p == [pc EXCEPT ![t] = "idle"]
<1>3. /\ pc[t] = "del" /\ p[t] = "idle" /\ pc' = WakeCleared(p, g)
      /\ writer' = {} /\ removing = NoGroup
      /\ group_count' = group_count - 1
      /\ UNCHANGED <<readers, removing, cur, cnt, file>>
      /\ grp' = [grp EXCEPT ![g].state = "deprecated"]
  BY <1>0, <1>2 DEF RemoveGroup, WorkMutexFree, user
<1> HIDE DEF p
<1>4. pc'[t] = "idle"
  BY <1>3 DEF WakeCleared, wake_up_group, wake_up_event
<1> QED BY <1>3, <1>4

(* The steps of dazukofs_add_group() and dazukofs_remove_group() that leave the
   group list alone. *)
LEMMA CtrlEffect ==
    ASSUME TypeOK, NEW t \in Threads,
           \/ AddRoom(t) \/ CreateGroupFails(t) \/ AddLoad(t) \/ AddStore(t)
           \/ RemoveNothing(t)
    PROVE  /\ pc[t] \in CtrlPCs /\ UNCHANGED <<readers, removing, grp, cur, file>>
           /\ \/ pc'[t] = "idle" /\ writer' = {}
              \/ /\ pc[t] = "add_room" /\ pc'[t] = "add_link" /\ group_count # GROUP_COUNT
                 /\ UNCHANGED <<writer, cmd, cnt>>
              \/ /\ pc[t] = "add_load" /\ pc'[t] = "add_store"
                 /\ cnt'[t] = group_count /\ UNCHANGED <<writer, cmd>>
           /\ IF pc[t] = "add_store" THEN group_count' = cnt[t] + 1
              ELSE group_count' = group_count
           /\ pc[t] = "add_load" => pc'[t] = "add_store"
<1>0. pc \in [Threads -> PCs] /\ cnt \in [Threads -> Int]
  BY DEF TypeOK
<1> USE DEF Goto, shared, locals, user, history, CtrlPCs, UpWrite
<1>1. CASE AddRoom(t)
  BY <1>0, <1>1 DEF AddRoom
<1>2. CASE CreateGroupFails(t)
  BY <1>0, <1>2 DEF CreateGroupFails
<1>3. CASE AddLoad(t)
  BY <1>0, <1>3 DEF AddLoad
<1>4. CASE AddStore(t)
  BY <1>0, <1>4 DEF AddStore
<1>5. CASE RemoveNothing(t)
  BY <1>0, <1>5 DEF RemoveNothing
<1> QED BY <1>1, <1>2, <1>3, <1>4, <1>5

(* The start of a command: group_count_sem is taken for writing. *)
LEMMA CommandEffect ==
    ASSUME TypeOK, NEW t \in Threads, CommandStep(t)
    PROVE  /\ pc[t] = "idle" /\ writer = {} /\ readers = {} /\ writer' = {t}
           /\ UNCHANGED <<readers, removing, group_count, grp, cur, cnt, file>>
           /\ \/ /\ pc'[t] = "add_check" /\ FreshGroup # NoGroup
                 /\ cmd'[t][2] \in TrackFlags
              \/ pc'[t] = "del" /\ "del" \in Commands
<1>0. pc \in [Threads -> PCs] /\ cmd \in [Threads -> {NoCmd} \cup (Names \X BOOLEAN)]
  BY DEF TypeOK
<1>1. ASSUME NEW n \in Names, NEW tr \in TrackFlags, AddDown(t, n, tr)
      PROVE  /\ pc[t] = "idle" /\ writer = {} /\ readers = {} /\ writer' = {t}
             /\ UNCHANGED <<readers, removing, group_count, grp, cur, cnt, file>>
             /\ pc'[t] = "add_check" /\ FreshGroup # NoGroup /\ cmd'[t][2] \in TrackFlags
  BY <1>0, <1>1 DEF AddDown, DownWrite, NoReaders, Goto, user
<1>2. ASSUME NEW n \in Names, DelDown(t, n)
      PROVE  /\ pc[t] = "idle" /\ writer = {} /\ readers = {} /\ writer' = {t}
             /\ UNCHANGED <<readers, removing, group_count, grp, cur, cnt, file>>
             /\ pc'[t] = "del" /\ "del" \in Commands
  BY <1>0, <1>2 DEF DelDown, DownWrite, NoReaders, Goto, user
<1> QED BY <1>1, <1>2 DEF CommandStep

(* __create_group() and list_add_tail(): the new group differs from all others. *)
LEMMA AddLinkList ==
    ASSUME ListInv, TypeInv', NEW t \in Threads, OthersAside(t), AddLink(t)
    PROVE  ListInv'
<1>0. TypeOK /\ LocksOK /\ NamesOK /\ FlagsOK /\ LocalOK(t)
  BY DEF ListInv, TypeInv
<1> DEFINE new == [NullGroup("active") EXCEPT !.name = cmd[t][1], !.id = cnt[t],
                                              !.tracking = cmd[t][2]]
<1>1. /\ pc[t] = "add_link" /\ pc'[t] = "add_load"
      /\ UNCHANGED <<writer, readers, cnt, cmd>>
      /\ \A g \in Groups : grp'[g] = IF g = FreshGroup THEN new ELSE grp[g]
  BY <1>0, AddLinkEffect
<1>2. /\ new.state = "active" /\ new.name = cmd[t][1] /\ new.id = cnt[t]
      /\ new.tracking = cmd[t][2]
  BY DEF NullGroup
<1> HIDE DEF new
<1>3. \A u \in Threads \ {t} : pc[u] \notin CtrlPCs /\ pc'[u] \notin CtrlPCs
  <2>1. writer = {t}
    BY <1>0, <1>1 DEF LocksOK, CtrlPCs
  <2> QED BY <1>0, <2>1 DEF LocksOK, OthersAside, Undisturbed, CtrlPCs
<1>4. LocksOK'
  <2>1. LockStep(t)
    BY <1>0, <1>1 DEF LockStep, LocksOK, CtrlPCs, SharedPCs
  <2> QED BY <1>0, <2>1, LocksKept
<1>5. \A g \in Groups : g \in Active' => (g = FreshGroup /\ grp'[g] = new)
                                          \/ (g \in Active /\ grp'[g] = grp[g])
  BY <1>1 DEF Active
<1>6. Active' \subseteq Groups /\ {"add_room", "add_link"} \subseteq CtrlPCs
  BY DEF Active, CtrlPCs
<1>7. NamesOK'
  <2>1. \A g \in Active : grp[g].id # new.id /\ grp[g].name # new.name
    BY <1>0, <1>1, <1>2 DEF NamesOK
  <2>2. ASSUME NEW g \in Active', NEW h \in Active', g # h
        PROVE  grp'[g].id # grp'[h].id /\ grp'[g].name # grp'[h].name
    BY <1>0, <1>5, <1>6, <2>1, <2>2 DEF NamesOK
  <2>3. \A u \in Threads : pc'[u] \notin {"add_room", "add_link"}
    BY <1>1, <1>3, <1>6
  <2> QED BY <2>2, <2>3 DEF NamesOK
<1>8. FlagsOK'
  <2>1. new.tracking \in BOOLEAN /\ new.tracking \in TrackFlags
    BY <1>0, <1>1, <1>2 DEF FlagsOK, LocalOK, CtrlPCs
  <2>2. \A g \in Groups : /\ grp'[g].tracking => TRUE \in TrackFlags
                          /\ g \in Active' /\ ~grp'[g].tracking => FALSE \in TrackFlags
    BY <1>0, <1>1, <1>5, <2>1 DEF FlagsOK
  <2>3. \A u \in Threads : pc'[u] \in CtrlPCs \ {"del"} => cmd'[u][2] \in TrackFlags
    BY <1>0, <1>1, <1>3 DEF FlagsOK, CtrlPCs
  <2> QED BY <1>6, <2>2, <2>3 DEF FlagsOK
<1> QED BY <1>4, <1>7, <1>8 DEF ListInv

(* Every other step. *)
LEMMA ListStep ==
    ASSUME ListInv, TypeInv', NEW t \in Threads, ThreadStep(t)
    PROVE  ListInv'
<1>0. TypeInv /\ TypeOK /\ LocksOK /\ NamesOK /\ FlagsOK /\ LocalOK(t)
  BY DEF ListInv, TypeInv
<1>o. OthersAside(t)
  BY <1>0, OthersUndisturbed DEF OthersAside
<1>a. ASSUME \A h \in Groups : /\ grp'[h].id = grp[h].id /\ grp'[h].name = grp[h].name
                               /\ grp'[h].tracking = grp[h].tracking
                               /\ grp'[h].state = "active" => grp[h].state = "active"
      PROVE  ListShrinks /\ FlagStep
  BY <1>a DEF ListShrinks, FlagStep
<1>1. CASE Bystander(t)
  <2>1. ListShrinks /\ FlagStep
    BY <1>0, <1>1, <1>a, RefsOnly
  <2>2. LockStep(t) /\ OwnList(t)
    BY <1>1 DEF Bystander, LockStep, OwnList, CtrlPCs, SharedPCs
  <2> QED BY <1>o, <2>1, <2>2, ListKept
<1>2. CASE ReadSide(t)
  <2>1. ListShrinks /\ FlagStep
    BY <1>0, <1>2, <1>a, RefsOnly
  <2>2. OwnList(t)
    BY <1>2 DEF ReadSide, OwnList, CtrlPCs
  <2>3. LockStep(t)
    BY <1>0, <1>2 DEF ReadSide, LockStep, LocksOK
  <2> QED BY <1>o, <2>1, <2>2, <2>3, ListKept
<1>3. CASE \/ \E id \in 0 .. GROUP_COUNT - 1 : OpenDev(t, id)
           \/ CloseUntracked(t) \/ CloseTracked(t) \/ StoreRemoved(t)
  <2>1. ListShrinks /\ FlagStep
    BY <1>0, <1>3, <1>a, DeviceGroups
  <2>2. /\ pc[t] \notin CtrlPCs \cup SharedPCs /\ pc'[t] \notin CtrlPCs \cup SharedPCs
        /\ UNCHANGED <<writer, readers, cmd>>
    BY <1>0, <1>3, DeviceGroups
  <2>3. LockStep(t) /\ OwnList(t)
    BY <2>2 DEF LockStep, OwnList, CtrlPCs
  <2> QED BY <1>o, <2>1, <2>3, ListKept
<1>4. CASE CheckForGroup(t)
  <2>1. /\ pc[t] = "add_check" /\ pc'[t] \in {"idle", "add_room"} /\ readers' = readers
        /\ pc'[t] = "add_room" =>
              /\ cnt'[t] = AvailableId /\ UNCHANGED <<writer, cmd>>
              /\ \A g \in Active : grp[g].name # cmd[t][1]
        /\ pc'[t] = "idle" => writer' = {}
    BY <1>0, <1>4, CheckForGroupEffect
  <2>2. \A g \in Groups :
           \/ g \in Sweepable /\ grp'[g] = NullGroup("freed")
           \/ /\ grp'[g].state = grp[g].state
              /\ grp'[g].id = grp[g].id /\ grp'[g].name = grp[g].name
              /\ grp'[g].tracking \in {grp[g].tracking, grp[g].tracking \/ cmd[t][2]}
    BY <1>0, <1>4, CheckForGroupEffect
  <2>3. cmd[t][2] \in BOOLEAN /\ cmd[t][2] \in TrackFlags /\ writer = {t} /\ readers = {}
    BY <1>0, <2>1 DEF LocalOK, FlagsOK, LocksOK, CtrlPCs
  <2>4. ListShrinks
    BY <2>2 DEF ListShrinks, NullGroup
  <2>5. FlagStep
    <3> SUFFICES ASSUME NEW g \in Groups
                 PROVE  /\ grp'[g].tracking => grp[g].tracking \/ TRUE \in TrackFlags
                        /\ grp'[g].state = "active" /\ ~grp'[g].tracking =>
                              FALSE \in TrackFlags \/ (grp[g].state = "active" /\ ~grp[g].tracking)
      BY DEF FlagStep
    <3>1. CASE grp'[g] = NullGroup("freed")
      BY <3>1 DEF NullGroup
    <3>2. CASE grp'[g].tracking = grp[g].tracking /\ grp'[g].state = grp[g].state
      BY <3>2
    <3>3. CASE /\ grp'[g].state = grp[g].state
               /\ grp'[g].tracking = (grp[g].tracking \/ cmd[t][2])
      BY <2>3, <3>3
    <3> QED BY <2>2, <3>1, <3>2, <3>3
  <2>6. LockStep(t)
    BY <2>1, <2>3 DEF LockStep, CtrlPCs, SharedPCs
  <2>7. OwnList(t)
    <3>1. \A g \in Active : grp[g].id # AvailableId
      BY <1>0, AvailableIdType
    <3>2. \A g \in Active' : /\ g \in Active /\ grp'[g].id = grp[g].id
                             /\ grp'[g].name = grp[g].name
      BY <2>4 DEF Active, ListShrinks
    <3> QED BY <2>1, <2>3, <3>1, <3>2 DEF OwnList, CtrlPCs
  <2> QED BY <1>o, <2>4, <2>5, <2>6, <2>7, ListKept
<1>5. CASE \/ AddRoom(t) \/ CreateGroupFails(t) \/ AddLoad(t) \/ AddStore(t)
           \/ RemoveNothing(t)
  <2>1. /\ pc[t] \in CtrlPCs /\ UNCHANGED <<readers, grp>>
        /\ \/ pc'[t] = "idle" /\ writer' = {}
           \/ /\ pc[t] = "add_room" /\ pc'[t] = "add_link"
              /\ UNCHANGED <<writer, cmd, cnt>>
           \/ pc[t] = "add_load" /\ pc'[t] = "add_store" /\ UNCHANGED <<writer, cmd>>
    BY <1>0, <1>5, CtrlEffect
  <2>2. ListShrinks /\ FlagStep
    BY <1>a, <2>1
  <2>3. LockStep(t)
    BY <1>0, <2>1 DEF LockStep, LocksOK, CtrlPCs, SharedPCs
  <2>4. OwnList(t)
    BY <1>0, <2>1 DEF OwnList, NamesOK, FlagsOK, CtrlPCs, Active
  <2> QED BY <1>o, <2>2, <2>3, <2>4, ListKept
<1>6. CASE AddLink(t)
  BY <1>6, <1>o, AddLinkList
<1>7. CASE RemoveGroup(t)
  <2>1. PICK g \in Active :
           /\ pc[t] = "del" /\ pc'[t] = "idle" /\ writer' = {} /\ readers' = readers
           /\ grp' = [grp EXCEPT ![g].state = "deprecated"]
    BY <1>0, <1>7, RemoveGroupEffect
  <2>2. ListShrinks /\ FlagStep
    <3>1. grp \in [Groups -> Group]
      BY <1>0 DEF TypeOK
    <3>2. \A h \in Groups : /\ grp'[h].id = grp[h].id /\ grp'[h].name = grp[h].name
                            /\ grp'[h].tracking = grp[h].tracking
                            /\ grp'[h].state = "active" => grp[h].state = "active"
      BY <2>1, <3>1 DEF Group
    <3> QED BY <1>a, <3>2
  <2>3. LockStep(t) /\ OwnList(t)
    BY <2>1 DEF LockStep, OwnList, CtrlPCs, SharedPCs
  <2> QED BY <1>o, <2>2, <2>3, ListKept
<1>8. CASE CommandStep(t)
  <2>1. /\ writer = {} /\ readers = {} /\ writer' = {t}
        /\ UNCHANGED <<readers, grp>>
        /\ \/ pc'[t] = "add_check" /\ cmd'[t][2] \in TrackFlags
           \/ pc'[t] = "del"
    BY <1>0, <1>8, CommandEffect
  <2>2. ListShrinks /\ FlagStep
    BY <1>a, <2>1
  <2>3. LockStep(t) /\ OwnList(t)
    BY <2>1 DEF LockStep, OwnList, CtrlPCs, SharedPCs
  <2> QED BY <1>o, <2>2, <2>3, ListKept
<1> QED
  BY <1>0, <1>1, <1>2, <1>3, <1>4, <1>5, <1>6, <1>7, <1>8, GroupSteps DEF GroupCtrlStep

(* Locks, names and flags are in order in every state of every behaviour. *)
LEMMA ListInvInductive ==
    Init /\ [][Next]_vars => []ListInv
<1>1. Init /\ TypeInv => ListInv
  <2> SUFFICES ASSUME Init, TypeInv PROVE ListInv
    OBVIOUS
  <2>1. Active = {} /\ \A g \in Groups : ~grp[g].tracking
    BY DEF Init, Active, NullGroup
  <2>2. \A t \in Threads : pc[t] = "idle"
    BY DEF Init
  <2> QED BY <2>1, <2>2 DEF ListInv, LocksOK, NamesOK, FlagsOK, CtrlPCs, SharedPCs
<1>2. ListInv /\ TypeInv' /\ [Next]_vars => ListInv'
  <2> SUFFICES ASSUME ListInv, TypeInv', [Next]_vars PROVE ListInv'
    OBVIOUS
  <2>1. ASSUME NEW t \in Threads, ThreadStep(t) PROVE ListInv'
    BY <2>1, ListStep
  <2>2. ASSUME UNCHANGED <<shared, pc, locals, user, vote>> PROVE ListInv'
    <3>1. UNCHANGED <<writer, readers, grp, pc, cnt, cmd>>
      BY <2>2 DEF shared, locals
    <3>2. Active' = Active
      BY <3>1 DEF Active
    <3> QED BY <3>1, <3>2, ZenonT(60) DEF ListInv, LocksOK, NamesOK, FlagsOK
  <2>3. ASSUME NEW t \in Threads, FaultStep(t) PROVE ListInv'
    BY <2>2, <2>3 DEF FaultStep, UseAfterFree
  <2>4. CASE UNCHANGED vars
    BY <2>2, <2>4 DEF vars, history
  <2> QED BY <2>1, <2>3, <2>4 DEF Next
<1> QED BY <1>1, <1>2, TypeInvInductive, PTL
-----------------------------------------------------------------------------
(***************************************************************************)
(* group_count.                                                            *)
(***************************************************************************)

(* The ids are handed out densely: the first free one is not beyond the number
   of groups. *)
LEMMA AvailableIdBound ==
    ASSUME TypeOK
    PROVE  AvailableId <= Cardinality(Active)
<1>1. FreeIds \subseteq Nat /\ AvailableId \in Nat /\ \A g \in Active : grp[g].id # AvailableId
  BY AvailableIdType DEF FreeIds
<1>2. PICK n \in Nat : n = Cardinality(Active)
  BY FiniteGroups DEF Active
<1> SUFFICES ASSUME AvailableId > n PROVE FALSE
  BY <1>1, <1>2
<1>3. n <= MaxGroups
  BY <1>2, FiniteGroups, FS_Subset DEF Active
<1>4. \A i \in 0 .. n : \E g \in Active : grp[g].id = i
  <2> SUFFICES ASSUME NEW i \in 0 .. n, \A g \in Active : grp[g].id # i PROVE FALSE
    OBVIOUS
  <2>1. i \in FreeIds
    BY <1>3, BoundsAssumption DEF FreeIds
  <2>2. AvailableId <= i
    BY <1>1, <2>1, LeastOfNaturals DEF AvailableId
  <2> QED BY <1>1, <2>2
<1> DEFINE f == [i \in 0 .. n |-> CHOOSE g \in Active : grp[g].id = i]
<1>5. \A i \in 0 .. n : f[i] \in Active /\ grp[f[i]].id = i
  BY <1>4
<1>6. f \in Injection(0 .. n, Active)
  <2>1. f \in [0 .. n -> Active]
    BY <1>5
  <2>2. \A i, j \in 0 .. n : f[i] = f[j] => i = j
    BY <1>5
  <2> HIDE DEF f
  <2> QED BY <2>1, <2>2 DEF Injection, IsInjective
<1>7. IsFiniteSet(Active)
  BY FiniteGroups DEF Active
<1>8. Cardinality(0 .. n) <= Cardinality(Active)
  BY <1>6, <1>7, FS_Injection
<1>9. Cardinality(0 .. n) = n + 1
  BY FS_Interval
<1> QED BY <1>2, <1>8, <1>9

(* A writer of group_count_sem is the only thread that looks at the groups under
   the semaphore. *)
LEMMA WriterAlone ==
    ASSUME LocksOK, NEW t \in Threads, pc[t] \in CtrlPCs
    PROVE  \A u \in Threads \ {t} : pc[u] \notin CtrlPCs \cup SharedPCs
<1>1. writer = {t} /\ readers = {}
  BY DEF LocksOK
<1> QED BY <1>1 DEF LocksOK

(* A step that leaves the groups and their number as they are. *)
LEMMA CountKept ==
    ASSUME CountInv, ListInv', NEW t \in Threads, OthersAside(t),
           \A g \in Groups : /\ grp'[g].state = "active" <=> grp[g].state = "active"
                             /\ grp'[g].state = "none" <=> grp[g].state = "none"
                             /\ g \in Active => grp'[g].id = grp[g].id,
           UNCHANGED <<removing, group_count>>,
           pc[t] \in {"add_load", "add_store"} <=> pc'[t] \in {"add_load", "add_store"},
           CountOK(t)'
    PROVE  CountInv'
<1>1. Active' = Active /\ FreshGroup' = FreshGroup
  BY DEF Active, FreshGroup
<1>2. Uncounted' <=> Uncounted
  BY DEF Uncounted, OthersAside, Undisturbed
<1>3. ASSUME NEW u \in Threads PROVE CountOK(u)'
  <2>1. CASE u = t
    BY <2>1
  <2>2. CASE u # t
    <3>1. CountOK(u) /\ cnt'[u] = cnt[u]
      BY <2>2 DEF CountInv, OthersAside, Undisturbed
    <3>2. \/ pc'[u] = pc[u]
          \/ pc'[u] \in {"ge_wait", "poll_lookup", "ev_wait"}
      BY <2>2 DEF OthersAside, Undisturbed
    <3> QED BY <1>1, <3>1, <3>2 DEF CountOK
  <2> QED BY <2>1, <2>2
<1> QED BY <1>1, <1>2, <1>3 DEF CountInv, Active

(* Linking a group. *)
LEMMA AddLinkCount ==
    ASSUME CountInv, ListInv', NEW t \in Threads, OthersAside(t), AddLink(t)
    PROVE  CountInv'
<1>0. /\ TypeOK /\ ListInv /\ LocksOK /\ CountOK(t) /\ grp \in [Groups -> Group]
      /\ group_count \in Int /\ cnt[t] \in Int
  BY DEF CountInv, ListInv, TypeInv, TypeOK
<1> DEFINE new == [NullGroup("active") EXCEPT !.name = cmd[t][1], !.id = cnt[t],
                                              !.tracking = cmd[t][2]]
<1>1. /\ pc[t] = "add_link" /\ pc'[t] = "add_load"
      /\ UNCHANGED <<removing, group_count>>
      /\ \A g \in Groups : grp'[g] = IF g = FreshGroup THEN new ELSE grp[g]
      /\ FreshGroup \in Groups \cup {NoGroup}
      /\ FreshGroup # NoGroup => grp[FreshGroup].state = "none"
  BY <1>0, AddLinkEffect
<1>2. new.state = "active" /\ new.id = cnt[t]
  BY DEF NullGroup
<1> HIDE DEF new
<1>3. PICK f \in Groups : f = FreshGroup /\ grp[f].state = "none"
  BY <1>0, <1>1 DEF CountOK
<1>4. \A u \in Threads \ {t} : pc[u] \notin CtrlPCs \cup SharedPCs /\ pc[u] # "rt_store"
  BY <1>0, <1>1, WriterAlone DEF CtrlPCs, CountInv, CountOK
<1>5. Active' = Active \cup {f} /\ f \notin Active
  BY <1>1, <1>2, <1>3 DEF Active
<1>6. Cardinality(Active') = Cardinality(Active) + 1 /\ Cardinality(Active) \in Nat
  <2>1. IsFiniteSet(Active) /\ Cardinality(Active) \in Nat
    BY FiniteGroups DEF Active
  <2> QED BY <1>5, <2>1, FS_AddElement
<1>7. ~Uncounted /\ Uncounted'
  BY <1>1, <1>4 DEF Uncounted, CtrlPCs
<1>8. ASSUME NEW u \in Threads PROVE CountOK(u)'
  <2>1. CASE u = t
    BY <1>1, <2>1 DEF CountOK
  <2>2. CASE u # t
    <3>1. pc'[u] \notin CtrlPCs \cup SharedPCs \cup {"rt_store"}
      BY <1>4, <2>2 DEF OthersAside, Undisturbed, CtrlPCs, SharedPCs
    <3> QED BY <3>1 DEF CountOK, CtrlPCs, SharedPCs
  <2> QED BY <2>1, <2>2
<1>9. \A g \in Active' : grp'[g].id < GROUP_COUNT
  <2>1. ASSUME NEW g \in Active' PROVE grp'[g].id < GROUP_COUNT
    <3>1. CASE g = f
      BY <1>0, <1>1, <1>2, <1>3, <3>1 DEF CountOK
    <3>2. CASE g # f
      <4>1. g \in Active /\ g \in Groups
        BY <1>5, <2>1, <3>2 DEF Active
      <4> QED BY <1>1, <1>3, <3>2, <4>1 DEF CountInv
    <3> QED BY <3>1, <3>2
  <2> QED BY <2>1
<1>10. /\ group_count' = Cardinality(Active') - 1 /\ Cardinality(Active') <= GROUP_COUNT
  BY <1>0, <1>1, <1>6, <1>7, BoundsAssumption DEF CountInv, CountOK
<1>11. removing' = NoGroup
  BY <1>1 DEF CountInv
<1> QED BY <1>7, <1>8, <1>9, <1>10, <1>11 DEF CountInv

(* Removing one by name. *)
LEMMA RemoveGroupCount ==
    ASSUME CountInv, ListInv', NEW t \in Threads, OthersAside(t), RemoveGroup(t)
    PROVE  CountInv'
<1>0. /\ TypeOK /\ ListInv /\ LocksOK /\ CountOK(t) /\ grp \in [Groups -> Group]
      /\ group_count \in Int
  BY DEF CountInv, ListInv, TypeInv, TypeOK
<1>1. PICK g \in Active :
         /\ pc[t] = "del" /\ pc'[t] = "idle" /\ removing' = removing
         /\ group_count' = group_count - 1
         /\ grp' = [grp EXCEPT ![g].state = "deprecated"]
  BY <1>0, RemoveGroupEffect
<1>2. \A u \in Threads \ {t} : pc[u] \notin CtrlPCs \cup SharedPCs /\ pc[u] # "rt_store"
  BY <1>0, <1>1, WriterAlone DEF CtrlPCs, CountInv, CountOK
<1>3. \A h \in Groups : /\ grp'[h].id = grp[h].id
                        /\ grp'[h].state = IF h = g THEN "deprecated" ELSE grp[h].state
  BY <1>0, <1>1 DEF Group
<1>4. Active' = Active \ {g} /\ Active \subseteq Groups
  BY <1>3 DEF Active
<1>5. Cardinality(Active') = Cardinality(Active) - 1 /\ Cardinality(Active) \in Nat
  <2>1. IsFiniteSet(Active) /\ Cardinality(Active) \in Nat
    BY FiniteGroups DEF Active
  <2> QED BY <1>4, <2>1, FS_RemoveElement
<1>6. \A u \in Threads : pc'[u] \notin CtrlPCs \cup SharedPCs \cup {"rt_store"}
  BY <1>1, <1>2 DEF OthersAside, Undisturbed, CtrlPCs, SharedPCs
<1>7. ~Uncounted /\ ~Uncounted'
  BY <1>1, <1>2, <1>6 DEF Uncounted, CtrlPCs
<1>8. \A u \in Threads : CountOK(u)'
  BY <1>6 DEF CountOK, CtrlPCs, SharedPCs
<1>9. \A h \in Active' : grp'[h].id < GROUP_COUNT
  BY <1>3, <1>4 DEF CountInv
<1>10. /\ group_count' = Cardinality(Active') - (IF Uncounted' THEN 1 ELSE 0)
       /\ Cardinality(Active') <= GROUP_COUNT
  BY <1>0, <1>1, <1>5, <1>7, BoundsAssumption DEF CountInv
<1>11. removing' = NoGroup
  BY <1>1 DEF CountInv
<1> QED BY <1>7, <1>8, <1>9, <1>10, <1>11 DEF CountInv

(* The other steps of a control process. *)
LEMMA CtrlCount ==
    ASSUME CountInv, ListInv', NEW t \in Threads, OthersAside(t),
           \/ AddRoom(t) \/ CreateGroupFails(t) \/ AddLoad(t) \/ AddStore(t)
           \/ RemoveNothing(t)
    PROVE  CountInv'
<1>0. /\ TypeOK /\ ListInv /\ LocksOK /\ CountOK(t) /\ group_count \in Int /\ cnt[t] \in Int
      /\ Cardinality(Active) \in Nat
  BY FiniteGroups DEF CountInv, ListInv, TypeInv, TypeOK, Active
<1>1. /\ pc[t] \in CtrlPCs /\ UNCHANGED <<removing, grp>>
      /\ \/ pc'[t] = "idle" /\ writer' = {}
         \/ /\ pc[t] = "add_room" /\ pc'[t] = "add_link" /\ group_count # GROUP_COUNT
            /\ UNCHANGED <<writer, cmd, cnt>>
         \/ pc[t] = "add_load" /\ pc'[t] = "add_store" /\ cnt'[t] = group_count
      /\ IF pc[t] = "add_store" THEN group_count' = cnt[t] + 1
         ELSE group_count' = group_count
      /\ pc[t] = "add_load" => pc'[t] = "add_store"
  BY <1>0, CtrlEffect
<1>2. Active' = Active
  BY <1>1 DEF Active
<1>3. \A u \in Threads \ {t} : pc[u] \notin CtrlPCs
  BY <1>0, <1>1, WriterAlone
<1>4. CASE pc[t] # "add_store"
  <2>1. CountOK(t)'
    <3>1. CASE pc'[t] = "idle"
      BY <3>1 DEF CountOK
    <3>2. CASE pc'[t] = "add_store"
      BY <1>1, <1>4, <3>2 DEF CountOK
    <3>3. CASE pc[t] = "add_room" /\ pc'[t] = "add_link"
      <4>1. ~Uncounted
        BY <1>3, <3>3 DEF Uncounted, CtrlPCs
      <4>2. group_count = Cardinality(Active) /\ Cardinality(Active) < GROUP_COUNT
        BY <1>0, <1>1, <3>3, <4>1, BoundsAssumption DEF CountInv
      <4>3. cnt'[t] < GROUP_COUNT
        BY <1>0, <1>1, <3>3, <4>2, BoundsAssumption DEF CountOK
      <4>4. FreshGroup' # NoGroup
        BY <1>0, <1>1, <3>3 DEF CountOK, FreshGroup
      <4> QED BY <1>2, <3>3, <4>2, <4>3, <4>4 DEF CountOK
    <3> QED BY <1>1, <3>1, <3>2, <3>3
  <2>2. pc[t] \in {"add_load", "add_store"} <=> pc'[t] \in {"add_load", "add_store"}
    BY <1>1, <1>4
  <2>3. UNCHANGED <<removing, group_count>>
    BY <1>1, <1>4
  <2> QED BY <1>1, <2>1, <2>2, <2>3, CountKept
<1>5. CASE pc[t] = "add_store"
  <2>1. pc'[t] = "idle" /\ group_count' = group_count + 1
    BY <1>0, <1>1, <1>5 DEF CountOK
  <2>2. Uncounted /\ ~Uncounted'
    BY <1>3, <1>5, <2>1 DEF Uncounted, OthersAside, Undisturbed, CtrlPCs
  <2>3. group_count' = Cardinality(Active') - (IF Uncounted' THEN 1 ELSE 0)
    BY <1>0, <1>2, <2>1, <2>2 DEF CountInv
  <2>4. ASSUME NEW u \in Threads PROVE CountOK(u)'
    <3>1. CASE u = t
      BY <2>1, <3>1 DEF CountOK
    <3>2. CASE u # t
      <4>1. /\ CountOK(u) /\ cnt'[u] = cnt[u] /\ pc'[u] \notin CtrlPCs
            /\ pc'[u] \in SharedPCs \cup {"rt_store"} => pc[u] = pc'[u]
        BY <1>3, <3>2 DEF CountInv, OthersAside, Undisturbed, CtrlPCs, SharedPCs
      <4> QED BY <1>2, <4>1 DEF CountOK, CtrlPCs, SharedPCs
    <3> QED BY <3>1, <3>2
  <2> QED BY <1>1, <1>2, <2>2, <2>3, <2>4 DEF CountInv
<1> QED BY <1>4, <1>5

(* The steps of a registered process that opens or closes its device: none starts
   the removal of a group. *)
LEMMA DeviceCount ==
    ASSUME NoTrackedRemoval, CountInv, ListInv', NEW t \in Threads, OthersAside(t),
           \/ \E id : OpenDev(t, id)
           \/ CloseUntracked(t) \/ CloseTracked(t) \/ StoreRemoved(t)
    PROVE  CountInv'
<1>0. /\ TypeOK /\ FlagsOK /\ CountOK(t) /\ grp \in [Groups -> Group] /\ pc \in [Threads -> PCs]
  BY DEF CountInv, ListInv, TypeInv, TypeOK
<1> USE DEF shared, locals, user, history
<1>1. ASSUME UNCHANGED <<removing, group_count, pc>>, pc[t] = "idle",
             \A g \in Groups : grp'[g].state = grp[g].state /\ grp'[g].id = grp[g].id
      PROVE  CountInv'
  <2>1. CountOK(t)'
    BY <1>1 DEF CountOK
  <2> QED BY <1>1, <2>1, CountKept
<1>2. ASSUME NEW id, OpenDev(t, id) PROVE CountInv'
  <2> DEFINE g == LookupGroup(id)
  <2>1. /\ \/ grp' = grp
           \/ grp' = [grp EXCEPT ![g].use_count = @ + 1, ![g].track_count = @ + 1]
        /\ pc[t] = "idle" /\ UNCHANGED <<removing, group_count, pc>>
    BY <1>2 DEF OpenDev
  <2> HIDE DEF g
  <2>2. \A h \in Groups : grp'[h].state = grp[h].state /\ grp'[h].id = grp[h].id
    BY <1>0, <2>1 DEF Group
  <2> QED BY <1>1, <2>1, <2>2
<1>3. CASE CloseUntracked(t)
  <2>1. pc[t] = "idle" /\ UNCHANGED <<removing, group_count, pc, grp>>
    BY <1>3 DEF CloseUntracked, Quits
  <2> QED BY <1>1, <2>1
<1>4. CASE CloseTracked(t)
  <2>1. MyGroup(t) \in Groups \cup {NoGroup} /\ "quit" \in Env
    BY <1>4, LookupType DEF MyGroup, CloseTracked, Quits
  <2>2. ~(MyGroup(t) # NoGroup /\ grp[MyGroup(t)].tracking)
    BY <1>0, <2>1 DEF NoTrackedRemoval, FlagsOK
  <2>3. pc[t] = "idle" /\ UNCHANGED <<removing, group_count, pc, grp>>
    BY <1>4, <2>2 DEF CloseTracked, Quits
  <2> QED BY <1>1, <2>3
<1>5. CASE StoreRemoved(t)
  BY <1>0, <1>5 DEF StoreRemoved, CountOK
<1> QED BY <1>2, <1>3, <1>4, <1>5

(* Every step. *)
LEMMA CountStep ==
    ASSUME NoTrackedRemoval, CountInv, ListInv', NEW t \in Threads, ThreadStep(t)
    PROVE  CountInv'
<1>0. /\ TypeInv /\ TypeOK /\ LocksOK /\ CountOK(t) /\ group_count \in Int
      /\ Cardinality(Active) \in Nat
  BY FiniteGroups DEF CountInv, ListInv, TypeInv, TypeOK, Active
<1>o. OthersAside(t)
  BY <1>0, OthersUndisturbed DEF OthersAside
<1>1. CASE Bystander(t)
  <2>1. \A g \in Groups : grp'[g].state = grp[g].state /\ grp'[g].id = grp[g].id
    BY <1>0, <1>1, RefsOnly
  <2>2. /\ pc[t] \notin CtrlPCs /\ pc'[t] \notin CtrlPCs \cup SharedPCs \cup {"rt_store"}
        /\ UNCHANGED <<removing, group_count>>
    BY <1>1 DEF Bystander
  <2>3. CountOK(t)'
    BY <2>2 DEF CountOK, CtrlPCs, SharedPCs
  <2>4. pc[t] \in {"add_load", "add_store"} <=> pc'[t] \in {"add_load", "add_store"}
    BY <2>2 DEF CtrlPCs
  <2> QED BY <1>o, <2>1, <2>2, <2>3, <2>4, CountKept
<1>2. CASE ReadSide(t)
  <2>1. \A g \in Groups : grp'[g].state = grp[g].state /\ grp'[g].id = grp[g].id
    BY <1>0, <1>2, RefsOnly
  <2>2. /\ pc[t] \notin CtrlPCs /\ pc'[t] \notin CtrlPCs \cup {"rt_store"}
        /\ UNCHANGED <<removing, group_count, grp>>
    BY <1>2 DEF ReadSide
  <2>3. Active' = Active
    BY <2>2 DEF Active
  <2>4. pc'[t] = "assign" => cnt'[t] = Cardinality(Active)
    <3>1. CASE pc[t] = "assign" /\ cnt'[t] = cnt[t]
      BY <1>0, <3>1 DEF CountOK
    <3>2. CASE pc[t] = "allocate" /\ cnt'[t] = IF group_count > 0 THEN group_count ELSE 0
      <4>1. ~Uncounted
        BY <1>0, <3>2, WriterAlone DEF Uncounted, CtrlPCs, SharedPCs
      <4> QED BY <1>0, <3>2, <4>1 DEF CountInv
    <3> QED BY <1>2, <3>1, <3>2 DEF ReadSide
  <2>5. CountOK(t)'
    BY <2>2, <2>3, <2>4 DEF CountOK, CtrlPCs
  <2>6. pc[t] \in {"add_load", "add_store"} <=> pc'[t] \in {"add_load", "add_store"}
    BY <2>2 DEF CtrlPCs
  <2> QED BY <1>o, <2>1, <2>2, <2>5, <2>6, CountKept
<1>3. CASE \/ \E id \in 0 .. GROUP_COUNT - 1 : OpenDev(t, id)
           \/ CloseUntracked(t) \/ CloseTracked(t) \/ StoreRemoved(t)
  BY <1>3, <1>o, DeviceCount
<1>4. CASE CheckForGroup(t)
  <2>1. /\ pc[t] = "add_check" /\ pc'[t] \in {"idle", "add_room"}
        /\ UNCHANGED <<removing, group_count>>
        /\ pc'[t] = "add_room" => cnt'[t] = AvailableId
    BY <1>0, <1>4, CheckForGroupEffect
  <2>2. \A g \in Groups :
           \/ g \in Sweepable /\ grp'[g] = NullGroup("freed")
           \/ grp'[g].state = grp[g].state /\ grp'[g].id = grp[g].id
    BY <1>0, <1>4, CheckForGroupEffect
  <2>3. \A g \in Groups : /\ grp'[g].state = "active" <=> grp[g].state = "active"
                          /\ grp'[g].state = "none" <=> grp[g].state = "none"
                          /\ g \in Active => grp'[g].id = grp[g].id
    BY <2>2 DEF Sweepable, NullGroup, Active
  <2>4. Active' = Active /\ FreshGroup' = FreshGroup
    BY <2>3 DEF Active, FreshGroup
  <2>5. CountOK(t)'
    BY <1>0, <2>1, <2>4, AvailableIdBound DEF CountOK
  <2>6. pc[t] \in {"add_load", "add_store"} <=> pc'[t] \in {"add_load", "add_store"}
    BY <2>1
  <2> QED BY <1>o, <2>1, <2>3, <2>5, <2>6, CountKept
<1>5. CASE \/ AddRoom(t) \/ CreateGroupFails(t) \/ AddLoad(t) \/ AddStore(t)
           \/ RemoveNothing(t)
  BY <1>5, <1>o, CtrlCount
<1>6. CASE AddLink(t)
  BY <1>6, <1>o, AddLinkCount
<1>7. CASE RemoveGroup(t)
  BY <1>7, <1>o, RemoveGroupCount
<1>8. CASE CommandStep(t)
  <2>1. /\ pc[t] = "idle" /\ UNCHANGED <<removing, group_count, grp>>
        /\ \/ pc'[t] = "add_check" /\ FreshGroup # NoGroup
           \/ pc'[t] = "del"
    BY <1>0, <1>8, CommandEffect
  <2>2. CountOK(t)'
    BY <2>1 DEF CountOK, FreshGroup
  <2> QED BY <1>o, <2>1, <2>2, CountKept
<1> QED
  BY <1>0, <1>1, <1>2, <1>3, <1>4, <1>5, <1>6, <1>7, <1>8, GroupSteps DEF GroupCtrlStep

(* group_count and the containers are in order in every state. *)
LEMMA CountInvInductive ==
    NoTrackedRemoval /\ Init /\ [][Next]_vars => []CountInv
<1>1. Init /\ ListInv => CountInv
  <2> SUFFICES ASSUME Init, ListInv PROVE CountInv
    OBVIOUS
  <2>1. Active = {} /\ ~Uncounted
    BY DEF Init, Active, NullGroup, Uncounted
  <2>2. Cardinality(Active) = 0
    BY <2>1, FS_EmptySet
  <2>3. \A t \in Threads : CountOK(t)
    BY DEF Init, CountOK
  <2> QED BY <2>1, <2>2, <2>3, BoundsAssumption DEF CountInv, Init
<1>2. NoTrackedRemoval /\ CountInv /\ ListInv' /\ [Next]_vars => CountInv'
  <2> SUFFICES ASSUME NoTrackedRemoval, CountInv, ListInv', [Next]_vars PROVE CountInv'
    OBVIOUS
  <2>1. ASSUME NEW t \in Threads, ThreadStep(t) PROVE CountInv'
    BY <2>1, CountStep
  <2>2. ASSUME UNCHANGED <<shared, pc, locals, user, vote>> PROVE CountInv'
    <3>1. UNCHANGED <<removing, group_count, grp, pc, cnt>>
      BY <2>2 DEF shared, locals
    <3>2. Active' = Active /\ FreshGroup' = FreshGroup /\ (Uncounted' <=> Uncounted)
      BY <3>1 DEF Active, FreshGroup, Uncounted
    <3>3. \A u \in Threads : CountOK(u)'
      BY <3>1, <3>2 DEF CountInv, CountOK
    <3> QED BY <3>1, <3>2, <3>3 DEF CountInv
  <2>3. ASSUME NEW t \in Threads, FaultStep(t) PROVE CountInv'
    BY <2>2, <2>3 DEF FaultStep, UseAfterFree
  <2>4. CASE UNCHANGED vars
    BY <2>2, <2>4 DEF vars, history
  <2> QED BY <2>1, <2>3, <2>4 DEF Next
<1>3. NoTrackedRemoval => []NoTrackedRemoval
  OBVIOUS
<1> QED BY <1>1, <1>2, <1>3, ListInvInductive, PTL

(***************************************************************************)
(* group_count agrees with group_list outside the two short sections that  *)
(* change it, as long as no process can leave a tracked group: the theorem *)
(* for GroupCountExact.  Where one can, dazukofs_group_release_tracking()  *)
(* changes the counter without group_count_sem and an update may be lost.  *)
(***************************************************************************)
THEOREM CounterCorrect ==
    ASSUME NoTrackedRemoval
    PROVE  Spec => []GroupCountExact
<1>1. CountInv => GroupCountExact
  <2> SUFFICES ASSUME CountInv PROVE GroupCountExact
    OBVIOUS
  <2>1. \A x, y \in BeingCounted : x = y
    <3> SUFFICES ASSUME NEW x \in BeingCounted, NEW y \in BeingCounted PROVE x = y
      OBVIOUS
    <3>1. x \in Threads /\ y \in Threads /\ pc[x] \in CtrlPCs /\ pc[y] \in CtrlPCs
      BY DEF BeingCounted, CtrlPCs
    <3> QED BY <3>1, WriterAlone DEF CountInv, ListInv
  <2>2. BeingCounted = {} <=> ~Uncounted
    BY DEF BeingCounted, Uncounted
  <2>3. Cardinality(BeingCounted) = IF Uncounted THEN 1 ELSE 0
    <3>1. CASE Uncounted
      <4>1. PICK x : BeingCounted = {x}
        BY <2>1, <2>2, <3>1
      <4> QED BY <3>1, <4>1, FS_Singleton
    <3>2. CASE ~Uncounted
      BY <2>2, <3>2, FS_EmptySet
    <3> QED BY <3>1, <3>2
  <2>4. Cardinality(Active) \in Nat
    BY FiniteGroups DEF Active
  <2> QED BY <2>3, <2>4 DEF CountInv, GroupCountExact
<1> QED BY <1>1, CountInvInductive, PTL DEF Spec

(***************************************************************************)
(* dazukofs_check_access() has one container for every group it assigns    *)
(* the event to, although it counts the groups, allocates and then walks   *)
(* the list in three steps: the theorem for EnoughContainers.              *)
(***************************************************************************)
THEOREM ContainersSuffice ==
    ASSUME NoTrackedRemoval
    PROVE  Spec => []EnoughContainers
<1>1. CountInv => EnoughContainers
  BY DEF CountInv, CountOK, EnoughContainers
<1> QED BY <1>1, CountInvInductive, PTL DEF Spec

(***************************************************************************)
(* No two groups share a name or an id, and every id has its device: the   *)
(* theorem for GroupsDistinct.  It is the number of groups that keeps the  *)
(* ids below GROUP_COUNT, so this part rests on group_count.               *)
(***************************************************************************)
THEOREM NamesAndIdsDistinct ==
    ASSUME NoTrackedRemoval
    PROVE  Spec => []GroupsDistinct
<1>1. CountInv => GroupsDistinct
  BY DEF CountInv, ListInv, NamesOK, GroupsDistinct
<1> QED BY <1>1, CountInvInductive, PTL DEF Spec
-----------------------------------------------------------------------------
(***************************************************************************)
(* use_count and track_count.                                              *)
(***************************************************************************)

(* Finitely many threads use a group and finitely many devices are tracked. *)
LEMMA UsesFinite ==
    \A g : /\ IsFiniteSet(Users(g)) /\ Cardinality(Users(g)) \in Nat
           /\ IsFiniteSet(TrackedFiles(g)) /\ Cardinality(TrackedFiles(g)) \in Nat
<1> SUFFICES ASSUME NEW g
             PROVE  /\ IsFiniteSet(Users(g)) /\ Cardinality(Users(g)) \in Nat
                    /\ IsFiniteSet(TrackedFiles(g)) /\ Cardinality(TrackedFiles(g)) \in Nat
  OBVIOUS
<1>1. Users(g) \subseteq Threads /\ TrackedFiles(g) \subseteq Threads
  BY DEF Users, TrackedFiles, Threads
<1> QED BY <1>1, ThreadsAssumption, FS_Subset, FS_CardinalityType

(* A group whose users and whose counts a step leaves alone. *)
LEMMA UsesKept ==
    ASSUME NEW g \in Groups, UsesOK(g),
           Users(g)' = Users(g), TrackedFiles(g)' = TrackedFiles(g),
           grp'[g].track_count = grp[g].track_count,
           grp'[g].use_count = grp[g].use_count,
           InUse(g) /\ grp[g].state \in {"active", "deprecated"} =>
               grp'[g].state \in {"active", "deprecated"}
    PROVE  UsesOK(g)'
  BY DEF UsesOK, InUse

(* The devices, when a step opens and closes none and no group that tracks one is
   removed or loses its id or its flag. *)
LEMMA FilesKept ==
    ASSUME \A r \in Readers : FileOK(r), file' = file,
           \A g \in Active : TrackedFiles(g) # {} =>
               /\ grp'[g].state = "active" /\ grp'[g].id = grp[g].id
               /\ grp[g].tracking => grp'[g].tracking
    PROVE  \A r \in Readers : FileOK(r)'
<1> SUFFICES ASSUME NEW r \in Readers PROVE FileOK(r)'
  OBVIOUS
<1>1. FileOK(r) /\ file'[r] = file[r]
  OBVIOUS
<1>2. ASSUME file[r].tracked
      PROVE  /\ file[r].grp \in Active' /\ grp'[file[r].grp].tracking
             /\ grp'[file[r].grp].id = file[r].gid
  <2>1. PICK g \in Active : g = file[r].grp /\ grp[g].tracking /\ grp[g].id = file[r].gid
    BY <1>1, <1>2 DEF FileOK
  <2>2. TrackedFiles(g) # {}
    BY <1>2, <2>1 DEF TrackedFiles
  <2> QED BY <2>1, <2>2 DEF Active
<1> QED BY <1>1, <1>2 DEF FileOK

(* get_group() and put_group() go with the thread that comes and leaves. *)
LEMMA RefUses ==
    ASSUME TypeOK, NEW t \in Threads, RefStep(t), file' = file,
           \A g \in Groups : UsesOK(g)
    PROVE  \A g \in Groups : UsesOK(g)'
<1>0. grp \in [Groups -> Group] /\ cur \in [Threads -> Groups \cup {NoGroup}]
  BY DEF TypeOK
<1>f. \A g \in Groups : TrackedFiles(g)' = TrackedFiles(g)
  BY DEF TrackedFiles
<1>n. NoGroup \notin Groups
  BY DEF NoGroup, Groups
<1>1. CASE UNCHANGED <<grp, cur>>
  <2>1. \A g \in Groups : Users(g)' = Users(g)
    BY <1>1 DEF Users
  <2> QED BY <1>1, <1>f, <2>1, UsesKept
<1>2. ASSUME NEW g \in Active, cur[t] = NoGroup, get_group(g),
             cur' = [cur EXCEPT ![t] = g], NEW h \in Groups
      PROVE  UsesOK(h)'
  <2>0. g \in Groups /\ grp[g].state = "active" /\ UsesOK(h)
    BY <1>2 DEF Active
  <2>1. grp[h] \in Group /\ grp'[h] = IF h = g THEN [grp[h] EXCEPT !.use_count = @ + 1]
                                      ELSE grp[h]
    BY <1>0, <1>2, <2>0 DEF get_group
  <2>2. CASE h # g
    <3>1. Users(h)' = Users(h)
      BY <1>0, <1>2, <1>n, <2>2 DEF Users
    <3> QED BY <1>f, <2>0, <2>1, <2>2, <3>1, UsesKept
  <2>3. CASE h = g
    <3>1. Users(h)' = Users(h) \cup {t} /\ t \notin Users(h)
      BY <1>0, <1>2, <1>n, <2>3 DEF Users
    <3>2. Cardinality(Users(h)') = Cardinality(Users(h)) + 1
      BY <3>1, UsesFinite, FS_AddElement
    <3>3. /\ grp'[h].use_count = grp[h].use_count + 1
          /\ grp'[h].track_count = grp[h].track_count /\ grp'[h].state = "active"
      BY <2>0, <2>1, <2>3 DEF Group
    <3> QED BY <1>f, <2>0, <3>2, <3>3, UsesFinite DEF UsesOK
  <2> QED BY <2>2, <2>3
<1>3. ASSUME cur[t] \in Groups, put_group(cur[t]), cur' = [cur EXCEPT ![t] = NoGroup],
             NEW h \in Groups
      PROVE  UsesOK(h)'
  <2>0. PICK g \in Groups : g = cur[t]
    BY <1>3
  <2>1. UsesOK(h) /\ grp[h] \in Group /\
        grp'[h] = IF h = g THEN [grp[h] EXCEPT !.use_count = @ - 1] ELSE grp[h]
    BY <1>0, <1>3, <2>0 DEF put_group
  <2>2. CASE h # g
    <3>1. Users(h)' = Users(h)
      BY <1>0, <1>3, <1>n, <2>0, <2>2 DEF Users
    <3> QED BY <1>f, <2>1, <2>2, <3>1, UsesKept
  <2>3. CASE h = g
    <3>1. Users(h)' = Users(h) \ {t} /\ t \in Users(h)
      BY <1>0, <1>3, <1>n, <2>0, <2>3 DEF Users
    <3>2. Cardinality(Users(h)') = Cardinality(Users(h)) - 1
      BY <3>1, UsesFinite, FS_RemoveElement
    <3>3. /\ grp'[h].use_count = grp[h].use_count - 1
          /\ grp'[h].track_count = grp[h].track_count /\ grp'[h].state = grp[h].state
      BY <2>1, <2>3 DEF Group
    <3>4. grp[h].state \in {"active", "deprecated"}
      BY <2>1, <3>1 DEF UsesOK, InUse
    <3> QED BY <1>f, <2>1, <3>2, <3>3, <3>4, UsesFinite DEF UsesOK
  <2> QED BY <2>2, <2>3
<1> QED BY <1>1, <1>2, <1>3 DEF RefStep

(* open(2) of a device: the reader is tracked, or no count changes. *)
LEMMA OpenUses ==
    ASSUME UseInv, TypeOK, NEW t \in Readers, NEW id, OpenDev(t, id)
    PROVE  (\A g \in Groups : UsesOK(g)') /\ (\A r \in Readers : FileOK(r)')
<1>0. /\ grp \in [Groups -> Group] /\ file \in [Readers -> File]
      /\ cur' = cur /\ file[t] = Closed
  BY DEF TypeOK, OpenDev, locals
<1>u. \A g \in Groups : Users(g)' = Users(g) /\ UsesOK(g)
  BY <1>0 DEF Users, UseInv
<1>n. NoGroup \notin Groups
  BY DEF NoGroup, Groups
<1>1. PICK g \in Groups \cup {NoGroup} : g = LookupGroup(id)
  BY LookupType
<1>2. g # NoGroup => g \in Active /\ grp[g].id = id
  BY <1>1, LookupType
<1> DEFINE tracks == g # NoGroup /\ grp[g].tracking
<1>3. /\ file' = [file EXCEPT ![t] = [gid |-> id, tracked |-> tracks, grp |-> g]]
      /\ grp' = IF tracks THEN [grp EXCEPT ![g].use_count = @ + 1, ![g].track_count = @ + 1]
                ELSE grp
  BY <1>1 DEF OpenDev
<1>4. /\ file'[t].tracked = tracks /\ file'[t].grp = g /\ file'[t].gid = id
      /\ ~file[t].tracked /\ \A r \in Readers \ {t} : file'[r] = file[r]
  BY <1>0, <1>3 DEF Closed
<1>5. CASE ~tracks
  <2>1. grp' = grp /\ Active' = Active
    BY <1>3, <1>5 DEF Active
  <2>2. \A h \in Groups : TrackedFiles(h)' = TrackedFiles(h)
    BY <1>4, <1>5 DEF TrackedFiles
  <2>3. \A h \in Groups : UsesOK(h)'
    BY <1>u, <2>1, <2>2, UsesKept
  <2>4. FileOK(t)'
    BY <1>2, <1>4, <1>5 DEF FileOK, UseInv, ListInv, FlagsOK
  <2>5. \A r \in Readers \ {t} : FileOK(r)'
    BY <1>4, <2>1 DEF FileOK, UseInv
  <2> QED BY <2>3, <2>4, <2>5
<1>6. CASE tracks
  <2>1. g \in Groups /\ g \in Active /\ grp[g].id = id /\ grp[g].tracking
    BY <1>2, <1>6 DEF Active
  <2>2. \A h \in Groups : grp[h] \in Group /\
           grp'[h] = IF h = g THEN [grp[h] EXCEPT !.use_count = @ + 1, !.track_count = @ + 1]
                     ELSE grp[h]
    BY <1>0, <1>3, <1>6, <2>1
  <2>3. \A h \in Groups : /\ grp'[h].state = grp[h].state /\ grp'[h].id = grp[h].id
                          /\ grp'[h].tracking = grp[h].tracking
    BY <2>2 DEF Group
  <2>4. Active' = Active
    BY <2>3 DEF Active
  <2>5. ASSUME NEW h \in Groups PROVE UsesOK(h)'
    <3>1. CASE h # g
      <4>1. TrackedFiles(h)' = TrackedFiles(h)
        BY <1>4, <3>1 DEF TrackedFiles
      <4> QED BY <1>u, <2>2, <3>1, <4>1, UsesKept
    <3>2. CASE h = g
      <4>1. TrackedFiles(h)' = TrackedFiles(h) \cup {t} /\ t \notin TrackedFiles(h)
        BY <1>4, <1>6, <3>2 DEF TrackedFiles
      <4>2. Cardinality(TrackedFiles(h)') = Cardinality(TrackedFiles(h)) + 1
        BY <4>1, UsesFinite, FS_AddElement
      <4>3. /\ grp'[h].use_count = grp[h].use_count + 1
            /\ grp'[h].track_count = grp[h].track_count + 1
            /\ grp'[h].state = "active"
        BY <2>1, <2>2, <3>2 DEF Group, Active
      <4> QED BY <1>u, <4>2, <4>3, UsesFinite DEF UsesOK
    <3> QED BY <3>1, <3>2
  <2>6. FileOK(t)'
    BY <1>4, <1>6, <2>1, <2>3, <2>4 DEF FileOK
  <2>7. ASSUME NEW r \in Readers \ {t} PROVE FileOK(r)'
    <3>1. FileOK(r) /\ file'[r] = file[r] /\ Active \subseteq Groups
      BY <1>4 DEF UseInv, Active
    <3> QED BY <2>3, <2>4, <3>1 DEF FileOK
  <2> QED BY <2>5, <2>6, <2>7
<1> QED BY <1>5, <1>6

(* A device that is tracked leads to the group it was opened on, whatever groups
   came and went in between. *)
LEMMA TrackedLookup ==
    ASSUME UseInv, NEW t \in Readers, file[t].tracked
    PROVE  /\ MyGroup(t) = file[t].grp /\ MyGroup(t) \in Active
           /\ grp[MyGroup(t)].tracking
<1>1. PICK g \in Active : g = file[t].grp /\ grp[g].tracking /\ grp[g].id = file[t].gid
  BY DEF UseInv, FileOK
<1>2. LookupGroup(file[t].gid) # NoGroup
  <2>1. {h \in Active : grp[h].id = file[t].gid} \subseteq Groups
    BY DEF Active
  <2> QED BY <1>1, <2>1, FirstOfGroups DEF LookupGroup
<1>3. LookupGroup(file[t].gid) \in Active /\ grp[LookupGroup(file[t].gid)].id = file[t].gid
  BY <1>2, LookupType
<1>4. LookupGroup(file[t].gid) = g
  BY <1>1, <1>3 DEF UseInv, ListInv, NamesOK
<1> QED BY <1>1, <1>4 DEF MyGroup

(* close(2) of a device that is not tracked. *)
LEMMA CloseUntrackedUses ==
    ASSUME UseInv, TypeOK, NEW t \in Readers, CloseUntracked(t)
    PROVE  (\A g \in Groups : UsesOK(g)') /\ (\A r \in Readers : FileOK(r)')
<1>0. /\ file \in [Readers -> File] /\ UNCHANGED <<grp, cur>>
      /\ ~file[t].tracked /\ file' = [file EXCEPT ![t] = Closed]
  BY DEF TypeOK, CloseUntracked, Quits, shared, locals
<1>1. ~file'[t].tracked /\ file'[t].grp = NoGroup /\ \A r \in Readers \ {t} : file'[r] = file[r]
  BY <1>0 DEF Closed
<1>2. \A g \in Groups : /\ Users(g)' = Users(g) /\ TrackedFiles(g)' = TrackedFiles(g)
                        /\ UsesOK(g)
  BY <1>0, <1>1 DEF Users, TrackedFiles, UseInv
<1>3. \A g \in Groups : UsesOK(g)'
  BY <1>0, <1>2, UsesKept
<1>4. Active' = Active
  BY <1>0 DEF Active
<1>5. FileOK(t)' /\ \A r \in Readers \ {t} : FileOK(r)'
  BY <1>0, <1>1, <1>4 DEF FileOK, UseInv
<1> QED BY <1>3, <1>5

(* close(2) of a tracked device: the last one starts the removal, and no tracked
   device is left behind then. *)
LEMMA CloseTrackedUses ==
    ASSUME UseInv, TypeOK, NEW t \in Readers, CloseTracked(t)
    PROVE  /\ \A g \in Groups : UsesOK(g)'
           /\ \A r \in Readers : FileOK(r)'
           /\ \A g \in Groups : removing # g /\ removing' = g => TrackedFiles(g)' = {}
           /\ pc[t] = "idle" /\ pc'[t] \in {"idle", "rt_store"}
<1>0. /\ grp \in [Groups -> Group] /\ file \in [Readers -> File] /\ cur' = cur
      /\ file[t].tracked /\ file' = [file EXCEPT ![t] = Closed]
      /\ pc \in [Threads -> PCs] /\ t \in Threads
  BY DEF TypeOK, CloseTracked, Quits, Threads
<1>1. PICK g \in Active : g = MyGroup(t) /\ g = file[t].grp /\ grp[g].tracking
  BY <1>0, TrackedLookup
<1>g. g \in Groups /\ g # NoGroup /\ grp[g].state = "active"
  BY DEF Active, Groups, NoGroup
<1>2. IF LastTracked(g)
      THEN grp' = [Untrack(g) EXCEPT ![g].state = "deprecated"] /\ removing' = g
      ELSE grp' = Untrack(g) /\ removing' = removing
  BY <1>1, <1>g DEF CloseTracked
<1>3. Untrack(g) \in [Groups -> Group]
  BY <1>g, TrackTypes
<1>4. \A h \in Groups : grp[h] \in Group /\
         Untrack(g)[h] = IF h = g THEN [grp[h] EXCEPT !.use_count = @ - 1, !.track_count = @ - 1]
                         ELSE grp[h]
  BY <1>0, <1>g DEF Untrack
<1>5. \A h \in Groups : h # g => grp'[h] = grp[h]
  BY <1>2, <1>3, <1>4
<1>6. /\ grp'[g].use_count = grp[g].use_count - 1
      /\ grp'[g].track_count = grp[g].track_count - 1
      /\ grp'[g].id = grp[g].id /\ grp'[g].tracking = grp[g].tracking
      /\ grp'[g].state = IF LastTracked(g) THEN "deprecated" ELSE "active"
  <2>1. /\ Untrack(g)[g].use_count = grp[g].use_count - 1
        /\ Untrack(g)[g].track_count = grp[g].track_count - 1
        /\ Untrack(g)[g].id = grp[g].id /\ Untrack(g)[g].tracking = grp[g].tracking
        /\ Untrack(g)[g].state = "active"
    BY <1>g, <1>4 DEF Group
  <2>2. CASE LastTracked(g)
    <3>1. grp'[g] = [Untrack(g)[g] EXCEPT !.state = "deprecated"] /\ Untrack(g)[g] \in Group
      BY <1>2, <1>3, <1>g, <2>2
    <3>2. /\ grp'[g].use_count = Untrack(g)[g].use_count
          /\ grp'[g].track_count = Untrack(g)[g].track_count
          /\ grp'[g].id = Untrack(g)[g].id /\ grp'[g].tracking = Untrack(g)[g].tracking
          /\ grp'[g].state = "deprecated"
      BY <3>1 DEF Group
    <3> QED BY <2>1, <2>2, <3>2
  <2> QED BY <1>2, <2>1, <2>2
<1>7. ~file'[t].tracked /\ file'[t].grp = NoGroup /\ \A r \in Readers \ {t} : file'[r] = file[r]
  BY <1>0 DEF Closed
<1>8. TrackedFiles(g)' = TrackedFiles(g) \ {t} /\ t \in TrackedFiles(g)
  BY <1>0, <1>1, <1>7 DEF TrackedFiles
<1>9. /\ Cardinality(TrackedFiles(g)') = Cardinality(TrackedFiles(g)) - 1
      /\ IsFiniteSet(TrackedFiles(g)')
  BY <1>8, UsesFinite, FS_RemoveElement
<1>10. LastTracked(g) => TrackedFiles(g)' = {}
  <2> SUFFICES ASSUME LastTracked(g) PROVE TrackedFiles(g)' = {}
    OBVIOUS
  <2>1. Cardinality(TrackedFiles(g)') = 0
    BY <1>9, <1>g, UsesFinite DEF LastTracked, UseInv, UsesOK
  <2> QED BY <1>9, <2>1, FS_EmptySet
<1>11. ASSUME NEW h \in Groups PROVE UsesOK(h)'
  <2>1. UsesOK(h) /\ Users(h)' = Users(h)
    BY <1>0 DEF Users, UseInv
  <2>2. CASE h # g
    <3>1. TrackedFiles(h)' = TrackedFiles(h)
      BY <1>1, <1>7, <2>2 DEF TrackedFiles
    <3> QED BY <1>5, <2>1, <2>2, <3>1, UsesKept
  <2>3. CASE h = g
    <3>1. grp'[h].state \in {"active", "deprecated"}
      BY <1>6, <2>3
    <3> QED BY <1>6, <1>9, <2>1, <2>3, <3>1, UsesFinite DEF UsesOK
  <2> QED BY <2>2, <2>3
<1>12. ASSUME NEW r \in Readers PROVE FileOK(r)'
  <2>1. CASE r = t
    BY <1>7, <2>1 DEF FileOK
  <2>2. CASE r # t
    <3>1. FileOK(r) /\ file'[r] = file[r]
      BY <1>7, <2>2 DEF UseInv
    <3>2. ASSUME file[r].tracked
          PROVE  /\ file[r].grp \in Active' /\ grp'[file[r].grp].tracking
                 /\ grp'[file[r].grp].id = file[r].gid
      <4>1. PICK h \in Active : h = file[r].grp /\ grp[h].tracking /\ grp[h].id = file[r].gid
        BY <3>1, <3>2 DEF FileOK
      <4>2. CASE h # g
        BY <1>5, <4>1, <4>2 DEF Active
      <4>3. CASE h = g
        <5>1. r \in TrackedFiles(g)'
          BY <3>1, <3>2, <4>1, <4>3 DEF TrackedFiles
        <5>2. ~LastTracked(g)
          BY <1>10, <5>1
        <5> QED BY <1>6, <1>g, <4>1, <4>3, <5>2 DEF Active
      <4> QED BY <4>2, <4>3
    <3> QED BY <3>1, <3>2 DEF FileOK
  <2> QED BY <2>1, <2>2
<1>13. \A h \in Groups : removing # h /\ removing' = h => TrackedFiles(h)' = {}
  BY <1>2, <1>10
<1>14. pc[t] = "idle" /\ (pc' = pc \/ pc' = [pc EXCEPT ![t] = "rt_store"])
  BY DEF CloseTracked, Quits, Goto
<1> QED BY <1>0, <1>11, <1>12, <1>13, <1>14

(* __check_for_group() frees groups nobody uses. *)
LEMMA SweepUses ==
    ASSUME UseInv, TypeOK, NEW t \in Threads, CheckForGroup(t)
    PROVE  (\A g \in Groups : UsesOK(g)') /\ (\A r \in Readers : FileOK(r)')
<1>1. cur' = cur /\ file' = file
  BY CheckForGroupEffect
<1>2. \A g \in Groups :
         \/ g \in Sweepable /\ grp'[g] = NullGroup("freed")
         \/ /\ grp'[g].state = grp[g].state /\ grp'[g].id = grp[g].id
            /\ grp'[g].use_count = grp[g].use_count
            /\ grp'[g].track_count = grp[g].track_count
            /\ grp'[g].tracking \in {grp[g].tracking, grp[g].tracking \/ cmd[t][2]}
  BY CheckForGroupEffect
<1>3. \A g \in Groups : /\ Users(g)' = Users(g) /\ TrackedFiles(g)' = TrackedFiles(g)
                        /\ UsesOK(g)
  BY <1>1 DEF Users, TrackedFiles, UseInv
<1>4. ASSUME NEW g \in Groups PROVE UsesOK(g)'
  <2>1. CASE g \in Sweepable /\ grp'[g] = NullGroup("freed")
    <3>1. Cardinality(Users(g)) = 0 /\ Cardinality(TrackedFiles(g)) = 0
      BY <1>3, <2>1, UsesFinite DEF Sweepable, UsesOK
    <3>2. Users(g) = {} /\ TrackedFiles(g) = {}
      BY <3>1, UsesFinite, FS_EmptySet
    <3>3. grp'[g].use_count = 0 /\ grp'[g].track_count = 0
      BY <2>1 DEF NullGroup
    <3> QED BY <1>3, <3>1, <3>2, <3>3 DEF UsesOK, InUse
  <2>2. CASE /\ grp'[g].state = grp[g].state
             /\ grp'[g].use_count = grp[g].use_count
             /\ grp'[g].track_count = grp[g].track_count
    BY <1>3, <2>2, UsesKept
  <2> QED BY <1>2, <2>1, <2>2
<1>5. \A g \in Active : /\ grp'[g].state = "active" /\ grp'[g].id = grp[g].id
                        /\ grp[g].tracking => grp'[g].tracking
  BY <1>2 DEF Active, Sweepable
<1>6. \A r \in Readers : FileOK(r)
  BY DEF UseInv
<1> QED BY <1>1, <1>4, <1>5, <1>6, FilesKept

(* A group that is linked is new to all threads. *)
LEMMA AddLinkUses ==
    ASSUME UseInv, TypeOK, NEW t \in Threads, AddLink(t)
    PROVE  (\A g \in Groups : UsesOK(g)') /\ (\A r \in Readers : FileOK(r)')
<1> DEFINE new == [NullGroup("active") EXCEPT !.name = cmd[t][1], !.id = cnt[t],
                                              !.tracking = cmd[t][2]]
<1>1. /\ cur' = cur /\ file' = file
      /\ FreshGroup # NoGroup => grp[FreshGroup].state = "none"
      /\ \A g \in Groups : grp'[g] = IF g = FreshGroup THEN new ELSE grp[g]
  BY AddLinkEffect
<1>2. new.use_count = 0 /\ new.track_count = 0
  BY DEF NullGroup
<1> HIDE DEF new
<1>3. \A g \in Groups : /\ Users(g)' = Users(g) /\ TrackedFiles(g)' = TrackedFiles(g)
                        /\ UsesOK(g) /\ g # NoGroup
  BY <1>1 DEF Users, TrackedFiles, UseInv, Groups, NoGroup
<1>4. ASSUME NEW g \in Groups PROVE UsesOK(g)'
  <2>1. CASE g = FreshGroup
    <3>1. Users(g) = {} /\ TrackedFiles(g) = {}
      BY <1>1, <1>3, <2>1 DEF UsesOK, InUse
    <3>2. Cardinality(Users(g)) = 0 /\ Cardinality(TrackedFiles(g)) = 0
      BY <3>1, FS_EmptySet
    <3>3. grp'[g].use_count = 0 /\ grp'[g].track_count = 0
      BY <1>1, <1>2, <2>1
    <3> QED BY <1>3, <3>1, <3>2, <3>3 DEF UsesOK, InUse
  <2>2. CASE g # FreshGroup
    BY <1>1, <1>3, <2>2, UsesKept
  <2> QED BY <2>1, <2>2
<1>5. \A g \in Active : grp'[g] = grp[g] /\ grp[g].state = "active"
  BY <1>1, <1>3 DEF Active
<1>6. \A r \in Readers : FileOK(r)
  BY DEF UseInv
<1> QED BY <1>1, <1>4, <1>5, <1>6, FilesKept

(* dazukofs_remove_group() meets no group with a tracked device. *)
LEMMA RemoveUses ==
    ASSUME NoMixedRemoval, UseInv, TypeOK, NEW t \in Threads, RemoveGroup(t)
    PROVE  (\A g \in Groups : UsesOK(g)') /\ (\A r \in Readers : FileOK(r)')
<1>0. grp \in [Groups -> Group] /\ Active \subseteq Groups
  BY DEF TypeOK, Active
<1>1. PICK g \in Active :
         /\ pc[t] = "del" /\ UNCHANGED <<cur, file>>
         /\ grp' = [grp EXCEPT ![g].state = "deprecated"]
  BY RemoveGroupEffect
<1>2. \A h \in Groups : /\ grp'[h].use_count = grp[h].use_count
                        /\ grp'[h].track_count = grp[h].track_count
                        /\ grp'[h].state \in {grp[h].state, "deprecated"}
  BY <1>0, <1>1 DEF Group
<1>3. \A h \in Groups : /\ Users(h)' = Users(h) /\ TrackedFiles(h)' = TrackedFiles(h)
                        /\ UsesOK(h)
  BY <1>1 DEF Users, TrackedFiles, UseInv
<1>4. \A h \in Groups : UsesOK(h)'
  BY <1>2, <1>3, UsesKept
<1>5. \A h \in Groups : ~grp[h].tracking
  BY <1>1 DEF UseInv, NoMixedRemoval, ListInv, FlagsOK
<1>6. \A r \in Readers : FileOK(r) /\ ~file[r].tracked
  BY <1>0, <1>5 DEF UseInv, FileOK
<1>7. \A h \in Active : TrackedFiles(h) = {}
  BY <1>6 DEF TrackedFiles
<1>8. \A r \in Readers : FileOK(r)'
  <2>1. \A r \in Readers : FileOK(r)
    BY <1>6
  <2> QED BY <1>1, <1>7, <2>1, FilesKept
<1> QED BY <1>4, <1>8

(* Every step. *)
LEMMA UseStep ==
    ASSUME NoMixedRemoval, UseInv, ListInv', NEW t \in Threads, ThreadStep(t)
    PROVE  UseInv'
<1>0. TypeInv /\ TypeOK /\ (\A g \in Groups : UsesOK(g)) /\ (\A r \in Readers : FileOK(r))
  BY DEF UseInv, ListInv, TypeInv
<1>o. OthersAside(t)
  BY <1>0, OthersUndisturbed DEF OthersAside
<1>a. ASSUME \A g \in Groups : UsesOK(g)', \A r \in Readers : FileOK(r)',
             pc'[t] = "del" => "del" \in Commands
      PROVE  UseInv'
  <2>1. \A u \in Threads : pc'[u] = "del" => "del" \in Commands
    BY <1>a, <1>o DEF OthersAside, Undisturbed, UseInv
  <2> QED BY <1>a, <2>1 DEF UseInv
<1>b. ASSUME RefStep(t), file' = file,
             \A g \in Groups : /\ grp'[g].state = grp[g].state /\ grp'[g].id = grp[g].id
                               /\ grp'[g].tracking = grp[g].tracking
      PROVE  (\A g \in Groups : UsesOK(g)') /\ (\A r \in Readers : FileOK(r)')
  <2>1. \A g \in Groups : UsesOK(g)'
    BY <1>0, <1>b, RefUses
  <2>2. \A g \in Active : /\ grp'[g].state = "active" /\ grp'[g].id = grp[g].id
                          /\ grp[g].tracking => grp'[g].tracking
    BY <1>b DEF Active
  <2> QED BY <1>0, <1>b, <2>1, <2>2, FilesKept
<1>1. CASE Bystander(t)
  <2>1. \A g \in Groups : /\ grp'[g].state = grp[g].state /\ grp'[g].id = grp[g].id
                          /\ grp'[g].tracking = grp[g].tracking
    BY <1>0, <1>1, RefsOnly
  <2>2. RefStep(t) /\ file' = file /\ pc'[t] # "del"
    BY <1>1 DEF Bystander, CtrlPCs
  <2> QED BY <1>a, <1>b, <2>1, <2>2
<1>2. CASE ReadSide(t)
  <2>1. RefStep(t) /\ file' = file /\ pc'[t] # "del" /\ grp' = grp
    BY <1>2 DEF ReadSide, RefStep, CtrlPCs
  <2> QED BY <1>a, <1>b, <2>1
<1>3. ASSUME \/ \E id \in 0 .. GROUP_COUNT - 1 : OpenDev(t, id)
             \/ CloseUntracked(t) \/ CloseTracked(t) \/ StoreRemoved(t)
      PROVE  pc'[t] # "del"
  BY <1>0, <1>3, DeviceGroups DEF CtrlPCs
<1>4. ASSUME NEW id \in 0 .. GROUP_COUNT - 1, t \in Readers, OpenDev(t, id)
      PROVE  UseInv'
  <2>1. (\A g \in Groups : UsesOK(g)') /\ (\A r \in Readers : FileOK(r)')
    BY <1>0, <1>4, OpenUses
  <2> QED BY <1>3, <1>4, <1>a, <2>1
<1>5. CASE t \in Readers /\ CloseUntracked(t)
  <2>1. (\A g \in Groups : UsesOK(g)') /\ (\A r \in Readers : FileOK(r)')
    BY <1>0, <1>5, CloseUntrackedUses
  <2> QED BY <1>3, <1>5, <1>a, <2>1
<1>6. CASE t \in Readers /\ CloseTracked(t)
  <2>1. (\A g \in Groups : UsesOK(g)') /\ (\A r \in Readers : FileOK(r)')
    BY <1>0, <1>6, CloseTrackedUses
  <2> QED BY <1>3, <1>6, <1>a, <2>1
<1>7. CASE StoreRemoved(t)
  <2>1. UNCHANGED <<grp, cur, file>>
    BY <1>7 DEF StoreRemoved, user
  <2>2. RefStep(t)
    BY <2>1 DEF RefStep
  <2> QED BY <1>3, <1>7, <1>a, <1>b, <2>1, <2>2
<1>8. CASE CheckForGroup(t)
  <2>1. (\A g \in Groups : UsesOK(g)') /\ (\A r \in Readers : FileOK(r)')
    BY <1>0, <1>8, SweepUses
  <2>2. pc'[t] \in {"idle", "add_room"}
    BY <1>0, <1>8, CheckForGroupEffect
  <2> QED BY <1>a, <2>1, <2>2
<1>9. CASE \/ AddRoom(t) \/ CreateGroupFails(t) \/ AddLoad(t) \/ AddStore(t)
           \/ RemoveNothing(t)
  <2>1. UNCHANGED <<grp, cur, file>> /\ pc'[t] # "del"
    BY <1>0, <1>9, CtrlEffect
  <2>2. RefStep(t)
    BY <2>1 DEF RefStep
  <2> QED BY <1>a, <1>b, <2>1, <2>2
<1>10. CASE AddLink(t)
  <2>1. (\A g \in Groups : UsesOK(g)') /\ (\A r \in Readers : FileOK(r)')
    BY <1>0, <1>10, AddLinkUses
  <2>2. pc'[t] = "add_load"
    BY <1>0, <1>10, AddLinkEffect
  <2> QED BY <1>a, <2>1, <2>2
<1>11. CASE RemoveGroup(t)
  <2>1. (\A g \in Groups : UsesOK(g)') /\ (\A r \in Readers : FileOK(r)')
    BY <1>0, <1>11, RemoveUses
  <2>2. pc'[t] = "idle"
    BY <1>0, <1>11, RemoveGroupEffect
  <2> QED BY <1>a, <2>1, <2>2
<1>12. CASE CommandStep(t)
  <2>1. UNCHANGED <<grp, cur, file>> /\ (pc'[t] = "del" => "del" \in Commands)
    BY <1>0, <1>12, CommandEffect
  <2>2. RefStep(t)
    BY <2>1 DEF RefStep
  <2> QED BY <1>a, <1>b, <2>1, <2>2
<1> QED
  BY <1>0, <1>1, <1>2, <1>4, <1>5, <1>6, <1>7, <1>8, <1>9, <1>10, <1>11, <1>12, GroupSteps
     DEF GroupCtrlStep

(* The counts of uses are in order in every state. *)
LEMMA UseInvInductive ==
    NoMixedRemoval /\ Init /\ [][Next]_vars => []UseInv
<1>1. Init /\ ListInv => UseInv
  <2> SUFFICES ASSUME Init, ListInv PROVE UseInv
    OBVIOUS
  <2>1. \A g \in Groups : Users(g) = {} /\ TrackedFiles(g) = {}
    BY DEF Init, Users, TrackedFiles, Closed, Groups, NoGroup
  <2>2. \A g \in Groups : grp[g].use_count = 0 /\ grp[g].track_count = 0
    BY DEF Init, NullGroup
  <2>3. \A g \in Groups : UsesOK(g)
    <3> SUFFICES ASSUME NEW g \in Groups PROVE UsesOK(g)
      OBVIOUS
    <3>1. Cardinality(Users(g)) = 0 /\ Cardinality(TrackedFiles(g)) = 0
      BY <2>1, FS_EmptySet
    <3> QED BY <2>1, <2>2, <3>1 DEF UsesOK, InUse
  <2>4. \A r \in Readers : FileOK(r)
    BY DEF Init, FileOK, Closed
  <2> QED BY <2>3, <2>4 DEF UseInv, Init
<1>2. NoMixedRemoval /\ UseInv /\ ListInv' /\ [Next]_vars => UseInv'
  <2> SUFFICES ASSUME NoMixedRemoval, UseInv, ListInv', [Next]_vars PROVE UseInv'
    OBVIOUS
  <2>1. ASSUME NEW t \in Threads, ThreadStep(t) PROVE UseInv'
    BY <2>1, UseStep
  <2>2. ASSUME UNCHANGED <<shared, pc, locals, user, vote>> PROVE UseInv'
    <3>1. UNCHANGED <<grp, pc, cur, file>>
      BY <2>2 DEF shared, locals, user
    <3>2. \A g \in Groups : /\ Users(g)' = Users(g) /\ TrackedFiles(g)' = TrackedFiles(g)
                            /\ UsesOK(g)
      BY <3>1 DEF Users, TrackedFiles, UseInv
    <3>3. \A g \in Groups : UsesOK(g)'
      BY <3>1, <3>2, UsesKept
    <3>4. \A r \in Readers : FileOK(r)'
      BY <3>1 DEF UseInv, FileOK, Active
    <3> QED BY <3>1, <3>3, <3>4 DEF UseInv
  <2>3. ASSUME NEW t \in Threads, FaultStep(t) PROVE UseInv'
    BY <2>2, <2>3 DEF FaultStep, UseAfterFree
  <2>4. CASE UNCHANGED vars
    BY <2>2, <2>4 DEF vars, history
  <2> QED BY <2>1, <2>3, <2>4 DEF Next
<1>3. NoMixedRemoval => []NoMixedRemoval
  OBVIOUS
<1> QED BY <1>1, <1>2, <1>3, ListInvInductive, PTL

(***************************************************************************)
(* use_count is the number of threads in a call on the group and of the    *)
(* devices tracked for it, through opens and closes, removals and reused   *)
(* ids: the theorem for UseCountExact.  It needs that no tracked group is  *)
(* deleted by name: a process that closes its device after that finds no   *)
(* group, or a later one with the same id.                                 *)
(***************************************************************************)
THEOREM UsesCounted ==
    ASSUME NoMixedRemoval
    PROVE  Spec => []UseCountExact
<1>1. UseInv => UseCountExact
  BY DEF UseInv, UsesOK, Users, UseCountExact
<1> QED BY <1>1, UseInvInductive, PTL DEF Spec

\* a step outside poll(2)
OutsidePoll(t) ==
    /\ pc[t] \notin PollPCs /\ pc'[t] \notin PollPCs
    /\ pollq' = pollq /\ fault' \in {fault, "missing_container"}

(* Only the calls of poll(2) lead into poll(2) and change the wait queue a poller
   is on. *)
LEMMA PollSteps ==
    ASSUME TypeInv, NEW t \in Threads, ThreadStep(t)
    PROVE  \/ PollLookup(t) \/ PollCheck(t) \/ PollTimeout(t) \/ PollFree(t)
           \/ OutsidePoll(t)
<1>0. pc \in [Threads -> PCs]
  BY DEF TypeInv, TypeOK
<1> DEFINE Outside == PCs \ PollPCs
<1> USE DEF Goto, shared, locals, user, history
<1>a. ASSUME pc[t] \in Outside, pc'[t] \in Outside, pollq' = pollq,
             fault' \in {fault, "missing_container"}
      PROVE  OutsidePoll(t)
  BY <1>a DEF OutsidePoll
<1>b. ASSUME pc[t] \in Outside, NEW l \in Outside, pc' = [pc EXCEPT ![t] = l],
             pollq' = pollq, fault' = fault
      PROVE  OutsidePoll(t)
  <2>1. pc'[t] \in Outside
    BY <1>0, <1>b
  <2> QED BY <1>a, <1>b, <2>1
<1>c. {"idle", "precheck", "allocate", "assign", "ev_wait", "ev_sleep", "ev_release",
       "open", "dentry_open", "open_ret", "ge_wait", "ge_sleep", "ge_check", "ge_claim",
       "unclaim", "unclaim_wake", "copy", "re_release", "rt_store", "add_check", "add_room",
       "add_link", "add_load", "add_store", "del"} \subseteq Outside
  BY DEF PCs, CheckAccessPCs, OpenFilePCs, GetEventPCs, ReturnEventPCs, PollPCs,
         TrackingPCs, CtrlPCs
<1> HIDE DEF Outside

<1>1. ASSUME DownRead(t) PROVE OutsidePoll(t)
  <2>1. /\ pc[t] \in {"idle", "dentry_open"} /\ pollq' = pollq /\ fault' = fault
        /\ pc' = [pc EXCEPT ![t] = "precheck"]
    BY <1>1 DEF DownRead
  <2> QED BY <1>b, <1>c, <2>1
<1>2. ASSUME PrecheckPasses(t) PROVE OutsidePoll(t)
  <2>1. /\ pc[t] = "precheck" /\ pollq' = pollq /\ fault' = fault
        /\ \E l \in {"idle", "open_ret"} : pc' = [pc EXCEPT ![t] = l]
    BY <1>2 DEF PrecheckPasses, CheckAccessReturns
  <2> QED BY <1>b, <1>c, <2>1
<1>3. ASSUME PrecheckHandles(t) PROVE OutsidePoll(t)
  <2>1. /\ pc[t] = "precheck" /\ pollq' = pollq /\ fault' = fault
        /\ pc' = [pc EXCEPT ![t] = "allocate"]
    BY <1>3 DEF PrecheckHandles
  <2> QED BY <1>b, <1>c, <2>1
<1>4. ASSUME Allocate(t) PROVE OutsidePoll(t)
  <2>1. /\ pc[t] = "allocate" /\ pollq' = pollq /\ fault' = fault
        /\ pc' = [pc EXCEPT ![t] = "assign"]
    BY <1>4 DEF Allocate
  <2> QED BY <1>b, <1>c, <2>1
<1>5. ASSUME AllocateFails(t) PROVE OutsidePoll(t)
  <2>1. /\ pc[t] = "allocate" /\ pollq' = pollq /\ fault' = fault
        /\ \E l \in {"idle", "open_ret"} : pc' = [pc EXCEPT ![t] = l]
    BY <1>5 DEF AllocateFails, CheckAccessReturns
  <2> QED BY <1>b, <1>c, <2>1
<1>6. ASSUME Assign(t) PROVE OutsidePoll(t)
  <2> DEFINE p == [pc EXCEPT ![t] = "ev_wait"]
  <2>1. /\ pc[t] = "assign" /\ p[t] = "ev_wait" /\ pollq' = pollq /\ fault' = fault
        /\ pc' = wake_up_group(p, Active)
    BY <1>0, <1>6 DEF Assign
  <2> HIDE DEF p
  <2>2. pc'[t] = "ev_wait"
    BY <2>1 DEF wake_up_group
  <2> QED BY <1>a, <1>c, <2>1, <2>2
<1>7. ASSUME AssignOverruns(t) PROVE OutsidePoll(t)
  <2>1. /\ pc[t] = "assign" /\ pc' = pc /\ pollq' = pollq
        /\ fault' = "missing_container"
    BY <1>7 DEF AssignOverruns
  <2> QED BY <1>a, <1>c, <2>1
<1>8. ASSUME WaitEvent(t) PROVE OutsidePoll(t)
  <2>1. /\ pc[t] = "ev_wait" /\ pollq' = pollq /\ fault' = fault
        /\ pc' = [pc EXCEPT ![t] = "ev_sleep"]
    BY <1>8 DEF WaitEvent
  <2> QED BY <1>b, <1>c, <2>1
<1>9. ASSUME ReadVerdict(t) PROVE OutsidePoll(t)
  <2>1. /\ pc[t] = "ev_wait" /\ pollq' = pollq /\ fault' = fault
        /\ pc' = [pc EXCEPT ![t] = "ev_release"]
    BY <1>9 DEF ReadVerdict
  <2> QED BY <1>b, <1>c, <2>1
<1>10. ASSUME ReleaseOwn(t) PROVE OutsidePoll(t)
  <2>1. /\ pc[t] = "ev_release" /\ pollq' = pollq /\ fault' = fault
        /\ \E l \in {"idle", "open_ret"} : pc' = [pc EXCEPT ![t] = l]
    BY <1>10 DEF ReleaseOwn, CheckAccessReturns
  <2> QED BY <1>b, <1>c, <2>1
<1>11. ASSUME StoreRemoved(t) PROVE OutsidePoll(t)
  <2> DEFINE p == [pc EXCEPT ![t] = "idle"]
  <2>1. /\ pc[t] = "rt_store" /\ p[t] = "idle" /\ pollq' = pollq /\ fault' = fault
        /\ pc' = WakeCleared(p, removing)
    BY <1>0, <1>11 DEF StoreRemoved
  <2> HIDE DEF p
  <2>2. pc'[t] = "idle"
    BY <2>1 DEF WakeCleared, wake_up_group, wake_up_event
  <2> QED BY <1>a, <1>c, <2>1, <2>2
<1>12. ASSUME GetEventWait(t) PROVE OutsidePoll(t)
  <2>1. /\ pc[t] = "ge_wait" /\ pollq' = pollq /\ fault' = fault
        /\ \E l \in {"ge_check", "ge_sleep"} : pc' = [pc EXCEPT ![t] = l]
    BY <1>12 DEF GetEventWait
  <2> QED BY <1>b, <1>c, <2>1
<1>13. ASSUME GetEventSignal(t) PROVE OutsidePoll(t)
  <2>1. /\ pc[t] \in {"ge_wait", "ge_sleep"} /\ pollq' = pollq /\ fault' = fault
        /\ \E l \in {"ge_check", "idle"} : pc' = [pc EXCEPT ![t] = l]
    BY <1>13 DEF GetEventSignal, Leave
  <2> QED BY <1>b, <1>c, <2>1
<1>14. ASSUME GetEventCheck(t) PROVE OutsidePoll(t)
  <2>1. /\ pc[t] = "ge_check" /\ pollq' = pollq /\ fault' = fault
        /\ \E l \in {"ge_claim", "idle"} : pc' = [pc EXCEPT ![t] = l]
    BY <1>14 DEF GetEventCheck, Leave
  <2> QED BY <1>b, <1>c, <2>1
<1>15. ASSUME ClaimEvent(t) PROVE OutsidePoll(t)
  <2>1. /\ pc[t] = "ge_claim" /\ pollq' = pollq /\ fault' = fault
        /\ \E l \in {"ge_wait", "open"} : pc' = [pc EXCEPT ![t] = l]
    BY <1>15 DEF ClaimEvent
  <2> QED BY <1>b, <1>c, <2>1
<1>16. ASSUME OpenFile(t) PROVE OutsidePoll(t)
  <2>1. /\ pc[t] = "open" /\ pollq' = pollq /\ fault' = fault
        /\ pc' = [pc EXCEPT ![t] = "dentry_open"]
    BY <1>16 DEF OpenFile
  <2> QED BY <1>b, <1>c, <2>1
<1>17. ASSUME OpenFileNoFd(t) PROVE OutsidePoll(t)
  <2>1. /\ pc[t] = "open" /\ pollq' = pollq /\ fault' = fault
        /\ pc' = [pc EXCEPT ![t] = "unclaim"]
    BY <1>17 DEF OpenFileNoFd
  <2> QED BY <1>b, <1>c, <2>1
<1>18. ASSUME DentryOpenFails(t) PROVE OutsidePoll(t)
  <2>1. /\ pc[t] = "dentry_open" /\ pollq' = pollq /\ fault' = fault
        /\ pc' = [pc EXCEPT ![t] = "open_ret"]
    BY <1>18 DEF DentryOpenFails
  <2> QED BY <1>b, <1>c, <2>1
<1>19. ASSUME OpenReturn(t) PROVE OutsidePoll(t)
  <2>1. /\ pc[t] = "open_ret" /\ pollq' = pollq /\ fault' = fault
        /\ \E l \in {"copy", "unclaim"} : pc' = [pc EXCEPT ![t] = l]
    BY <1>19 DEF OpenReturn, Leave
  <2> QED BY <1>b, <1>c, <2>1
<1>20. ASSUME Unclaim(t) PROVE OutsidePoll(t)
  <2>1. /\ pc[t] = "unclaim" /\ pollq' = pollq /\ fault' = fault
        /\ pc' = [pc EXCEPT ![t] = "unclaim_wake"]
    BY <1>20 DEF Unclaim
  <2> QED BY <1>b, <1>c, <2>1
<1>21. ASSUME UnclaimWake(t) PROVE OutsidePoll(t)
  <2> DEFINE p == [pc EXCEPT ![t] = "idle"]
  <2>1. /\ pc[t] = "unclaim_wake" /\ p[t] = "idle" /\ pollq' = pollq /\ fault' = fault
        /\ pc' = wake_up_group(p, {cur[t]})
    BY <1>0, <1>21 DEF UnclaimWake
  <2> HIDE DEF p
  <2>2. pc'[t] = "idle"
    BY <2>1 DEF wake_up_group
  <2> QED BY <1>a, <1>c, <2>1, <2>2
<1>22. ASSUME CopyOut(t) PROVE OutsidePoll(t)
  <2>1. /\ pc[t] = "copy" /\ pollq' = pollq /\ fault' = fault
        /\ pc' = [pc EXCEPT ![t] = "idle"]
    BY <1>22 DEF CopyOut
  <2> QED BY <1>b, <1>c, <2>1
<1>23. ASSUME CopyFails(t) PROVE OutsidePoll(t)
  <2>1. /\ pc[t] = "copy" /\ pollq' = pollq /\ fault' = fault
        /\ \E l \in {"unclaim", "idle"} : pc' = [pc EXCEPT ![t] = l]
    BY <1>23 DEF CopyFails
  <2> QED BY <1>b, <1>c, <2>1
<1>24. ASSUME ReleaseAnswered(t) PROVE OutsidePoll(t)
  <2> DEFINE p == [pc EXCEPT ![t] = "idle"]
  <2>1. /\ pc[t] = "re_release" /\ p[t] = "idle" /\ pollq' = pollq /\ fault' = fault
        /\ pc' = wake_up_event(p, Woken({ec[t]}))
    BY <1>0, <1>24 DEF ReleaseAnswered
  <2> HIDE DEF p
  <2>2. pc'[t] = "idle"
    BY <2>1 DEF wake_up_event
  <2> QED BY <1>a, <1>c, <2>1, <2>2
<1>25. ASSUME \/ \E id \in 0 .. GROUP_COUNT - 1 : OpenDev(t, id)
              \/ CloseUntracked(t)
      PROVE  OutsidePoll(t)
  <2>1. pc[t] = "idle" /\ pc' = pc /\ pollq' = pollq /\ fault' = fault
    BY <1>25 DEF OpenDev, CloseUntracked, Quits
  <2> QED BY <1>a, <1>c, <2>1
<1>26. ASSUME CloseTracked(t) PROVE OutsidePoll(t)
  <2>1. /\ pc[t] = "idle" /\ pollq' = pollq /\ fault' = fault
        /\ pc' = pc \/ pc' = [pc EXCEPT ![t] = "rt_store"]
    BY <1>26 DEF CloseTracked, Quits
  <2> QED BY <1>a, <1>b, <1>c, <2>1
<1>27. ASSUME GetEvent(t) PROVE OutsidePoll(t)
  <2>1. /\ pc[t] = "idle" /\ pollq' = pollq /\ fault' = fault
        /\ pc' = [pc EXCEPT ![t] = "ge_wait"]
    BY <1>27 DEF GetEvent
  <2> QED BY <1>b, <1>c, <2>1
<1>28. ASSUME NEW u \in Readers, NEW e \in Events, NEW v \in Answers, ReturnEvent(t, u, e, v)
      PROVE  OutsidePoll(t)
  <2>1. /\ pc[t] = "idle" /\ pollq' = pollq /\ fault' = fault
        /\ pc' = pc \/ pc' = [pc EXCEPT ![t] = "re_release"]
    BY <1>28 DEF ReturnEvent
  <2> QED BY <1>a, <1>b, <1>c, <2>1
<1>29. ASSUME CommandStep(t) PROVE OutsidePoll(t)
  <2>1. /\ pc[t] = "idle" /\ pollq' = pollq /\ fault' = fault
        /\ \E l \in {"add_check", "del"} : pc' = [pc EXCEPT ![t] = l]
    BY <1>29 DEF CommandStep, AddDown, DelDown, DownWrite
  <2> QED BY <1>b, <1>c, <2>1
<1>30. ASSUME CheckForGroup(t) PROVE OutsidePoll(t)
  <2>1. /\ pc[t] = "add_check" /\ pollq' = pollq /\ fault' = fault
        /\ \E l \in {"add_room", "idle"} : pc' = [pc EXCEPT ![t] = l]
    BY <1>30 DEF CheckForGroup, UpWrite
  <2> QED BY <1>b, <1>c, <2>1
<1>31. ASSUME AddRoom(t) PROVE OutsidePoll(t)
  <2>1. /\ pc[t] = "add_room" /\ pollq' = pollq /\ fault' = fault
        /\ \E l \in {"add_link", "idle"} : pc' = [pc EXCEPT ![t] = l]
    BY <1>31 DEF AddRoom, UpWrite
  <2> QED BY <1>b, <1>c, <2>1
<1>32. ASSUME CreateGroupFails(t) PROVE OutsidePoll(t)
  <2>1. /\ pc[t] = "add_link" /\ pollq' = pollq /\ fault' = fault
        /\ pc' = [pc EXCEPT ![t] = "idle"]
    BY <1>32 DEF CreateGroupFails, UpWrite
  <2> QED BY <1>b, <1>c, <2>1
<1>33. ASSUME AddLink(t) PROVE OutsidePoll(t)
  <2>1. /\ pc[t] = "add_link" /\ pollq' = pollq /\ fault' = fault
        /\ pc' = [pc EXCEPT ![t] = "add_load"]
    BY <1>33 DEF AddLink
  <2> QED BY <1>b, <1>c, <2>1
<1>34. ASSUME AddLoad(t) PROVE OutsidePoll(t)
  <2>1. /\ pc[t] = "add_load" /\ pollq' = pollq /\ fault' = fault
        /\ pc' = [pc EXCEPT ![t] = "add_store"]
    BY <1>34 DEF AddLoad
  <2> QED BY <1>b, <1>c, <2>1
<1>35. ASSUME AddStore(t) PROVE OutsidePoll(t)
  <2>1. /\ pc[t] = "add_store" /\ pollq' = pollq /\ fault' = fault
        /\ pc' = [pc EXCEPT ![t] = "idle"]
    BY <1>35 DEF AddStore, UpWrite
  <2> QED BY <1>b, <1>c, <2>1
<1>36. ASSUME RemoveNothing(t) PROVE OutsidePoll(t)
  <2>1. /\ pc[t] = "del" /\ pollq' = pollq /\ fault' = fault
        /\ pc' = [pc EXCEPT ![t] = "idle"]
    BY <1>36 DEF RemoveNothing, UpWrite
  <2> QED BY <1>b, <1>c, <2>1
<1>37. ASSUME RemoveGroup(t) PROVE OutsidePoll(t)
  <2> DEFINE p == [pc EXCEPT ![t] = "idle"]
  <2>1. /\ pc[t] = "del" /\ p[t] = "idle" /\ pollq' = pollq /\ fault' = fault
        /\ pc' = WakeCleared(p, NamedGroup(cmd[t][1]))
    BY <1>0, <1>37 DEF RemoveGroup
  <2> HIDE DEF p
  <2>2. pc'[t] = "idle"
    BY <2>1 DEF WakeCleared, wake_up_group, wake_up_event
  <2> QED BY <1>a, <1>c, <2>1, <2>2
<1> HIDE DEF Goto, shared, locals, user, history
<1>38. CheckAccessStep(t) => OutsidePoll(t)
  BY <1>1, <1>2, <1>3, <1>4, <1>5, <1>6, <1>7, <1>8, <1>9, <1>10 DEF CheckAccessStep
<1>39. GroupDevStep(t) =>
          PollLookup(t) \/ PollCheck(t) \/ PollTimeout(t) \/ PollFree(t) \/ OutsidePoll(t)
  BY <1>11, <1>12, <1>13, <1>14, <1>15, <1>16, <1>17, <1>18, <1>19,
     <1>20, <1>21, <1>22, <1>23, <1>24 DEF GroupDevStep
<1>40. UserStep(t) => OutsidePoll(t)
  BY <1>25, <1>26, <1>27, <1>28 DEF UserStep
<1>41. GroupCtrlStep(t) => OutsidePoll(t)
  BY <1>30, <1>31, <1>32, <1>33, <1>34, <1>35, <1>36, <1>37 DEF GroupCtrlStep
<1> QED BY <1>29, <1>38, <1>39, <1>40, <1>41 DEF ThreadStep, KernelStep, CallStep

\* nobody is in poll(2), and nobody has come back to a group that was freed
ProtectInv ==
    /\ \A t \in Threads : pc[t] \notin PollPCs
    /\ fault # "freed_group"

(* A thread outside poll(2) is counted in the group it goes on with. *)
LEMMA CountedUse ==
    ASSUME UseInv, NEW t \in Threads, pc[t] \notin PollPCs
    PROVE  ~UsesFreedGroup(t)
<1> SUFFICES ASSUME UsesFreedGroup(t) PROVE FALSE
  OBVIOUS
<1>1. pc[t] \in HasGroup /\ grp[cur[t]].state = "freed"
  BY DEF UsesFreedGroup, HasGroup, PollPCs
<1>2. PICK g \in Groups : g = cur[t]
  BY <1>1 DEF UseInv, ListInv, TypeInv, LocalOK
<1>3. UsesOK(g) /\ Users(g) # {}
  BY <1>2 DEF UseInv, Users
<1>4. grp[g].state \in {"active", "deprecated"}
  BY <1>3 DEF UsesOK, InUse
<1> QED BY <1>1, <1>2, <1>4

(***************************************************************************)
(* __check_for_group() frees no group that a thread comes back to: the     *)
(* theorem for GroupsProtected.  Pollers are left out because poll(2)      *)
(* stays on the poll_queue inside the group without a use_count.           *)
(***************************************************************************)
THEOREM NoGroupFreedInUse ==
    ASSUME NoMixedRemoval, Pollers = {}
    PROVE  Spec => []GroupsProtected
<1>1. Init => ProtectInv
  BY DEF Init, ProtectInv, PollPCs
<1>2. UseInv /\ ProtectInv /\ [Next]_vars => ProtectInv'
  <2> SUFFICES ASSUME UseInv, ProtectInv, [Next]_vars PROVE ProtectInv'
    OBVIOUS
  <2>0. TypeInv
    BY DEF UseInv, ListInv
  <2>1. ASSUME NEW t \in Threads, ThreadStep(t) PROVE ProtectInv'
    <3>1. \A u \in Threads \ {t} : Undisturbed(u)
      BY <2>0, <2>1, OthersUndisturbed
    <3>2. OutsidePoll(t)
      <4>1. ~PollLookup(t) /\ ~PollCheck(t) /\ ~PollTimeout(t) /\ ~PollFree(t)
        BY DEF ProtectInv, PollLookup, PollCheck, PollTimeout, PollFree, PollPCs
      <4> QED BY <2>0, <2>1, <4>1, PollSteps
    <3>3. \A u \in Threads : pc'[u] \notin PollPCs
      BY <3>1, <3>2 DEF OutsidePoll, ProtectInv, Undisturbed, PollPCs
    <3> QED BY <3>2, <3>3 DEF OutsidePoll, ProtectInv
  <2>2. ASSUME NEW t \in Threads, FaultStep(t) PROVE ProtectInv'
    <3>1. ~UsesFreedGroup(t)
      BY <2>2, CountedUse DEF ProtectInv
    <3> QED BY <2>2, <3>1 DEF FaultStep, UseAfterFree, ProtectInv
  <2>3. CASE UNCHANGED vars
    BY <2>3 DEF vars, history, ProtectInv
  <2> QED BY <2>1, <2>2, <2>3 DEF Next
<1>3. ProtectInv => GroupsProtected
  BY DEF ProtectInv, GroupsProtected
<1> QED BY <1>1, <1>2, <1>3, UseInvInductive, PTL DEF Spec

(* Only close(2) of a tracked device starts the removal of a group in two steps. *)
LEMMA RemovalStarts ==
    ASSUME TypeInv, NEW t \in Threads, ThreadStep(t)
    PROVE  removing' \in {removing, NoGroup} \/ (t \in Readers /\ CloseTracked(t))
<1>0. TypeOK
  BY DEF TypeInv
<1>1. CASE Bystander(t) \/ ReadSide(t)
  BY <1>1 DEF Bystander, ReadSide
<1>2. CASE StoreRemoved(t)
  BY <1>2 DEF StoreRemoved
<1>3. CASE \/ \E id \in 0 .. GROUP_COUNT - 1 : OpenDev(t, id)
           \/ CloseUntracked(t)
  BY <1>3 DEF OpenDev, CloseUntracked, shared
<1>4. CASE CheckForGroup(t)
  BY <1>0, <1>4, CheckForGroupEffect
<1>5. CASE \/ AddRoom(t) \/ CreateGroupFails(t) \/ AddLoad(t) \/ AddStore(t)
           \/ RemoveNothing(t)
  BY <1>0, <1>5, CtrlEffect
<1>6. CASE AddLink(t)
  BY <1>0, <1>6, AddLinkEffect
<1>7. CASE RemoveGroup(t)
  BY <1>0, <1>7, RemoveGroupEffect
<1>8. CASE CommandStep(t)
  BY <1>0, <1>8, CommandEffect
<1> QED
  BY <1>1, <1>2, <1>3, <1>4, <1>5, <1>6, <1>7, <1>8, GroupSteps DEF GroupCtrlStep

(***************************************************************************)
(* dazukofs_group_release_tracking() deletes a group only with the last    *)
(* process that registered with it: the theorem for DeletedOnlyWhenEmpty,  *)
(* when all groups are tracked.  A process that opened the device of a     *)
(* group before addtrack= made it a tracked one is not counted.            *)
(***************************************************************************)
THEOREM LastOneDeletes ==
    ASSUME NoMixedRemoval, FALSE \notin TrackFlags
    PROVE  Spec => DeletedOnlyWhenEmpty
<1>1. UseInv /\ [Next]_vars =>
         [\A g \in Groups :
            removing # g /\ removing' = g => \A r \in Readers : file'[r].grp # g]_vars
  <2> SUFFICES ASSUME UseInv, Next, NEW g \in Groups, removing # g, removing' = g,
                      NEW r \in Readers, file'[r].grp = g
               PROVE  FALSE
    OBVIOUS
  <2>0. TypeInv /\ TypeOK /\ g # NoGroup
    BY DEF UseInv, ListInv, TypeInv, Groups, NoGroup
  <2>1. PICK t \in Threads : ThreadStep(t) \/ FaultStep(t)
    BY DEF Next
  <2>2. ThreadStep(t)
    BY <2>1 DEF FaultStep, UseAfterFree, shared
  <2>3. t \in Readers /\ CloseTracked(t)
    BY <2>0, <2>2, RemovalStarts
  <2>4. (\A s \in Readers : FileOK(s)') /\ TrackedFiles(g)' = {}
    BY <2>0, <2>3, CloseTrackedUses
  <2>5. file'[r].tracked
    BY <2>0, <2>4 DEF FileOK
  <2> QED BY <2>4, <2>5 DEF TrackedFiles
<1> QED BY <1>1, UseInvInductive, PTL DEF Spec, DeletedOnlyWhenEmpty
-----------------------------------------------------------------------------
(***************************************************************************)
(* The wait queues: nobody sleeps on although what he waits for has        *)
(* happened, for any numbers of processes, groups and events.              *)
(***************************************************************************)
\* a lookup for the device of t has led to group g
FoundBy(t, g) ==
    /\ grp[g].state # "none"
    /\ grp[g].state = "active" => grp[g].id = file[t].gid

(***************************************************************************)
(* Only the first call of dazukofs_poll() puts the thread on a poll_queue. *)
(* As long as that group is active, the later calls look at the todo list  *)
(* of the same group: it is the only one with the id.                      *)
(***************************************************************************)
PollOK(t) ==
    /\ pollq[t] # NoGroup => pc[t] \in PollPCs /\ FoundBy(t, pollq[t])
    /\ pc[t] = "poll_sleep" => pollq[t] # NoGroup
    /\ pc[t] = "poll_check" =>
          FoundBy(t, cur[t]) /\ (pollq[t] \in Active => cur[t] = pollq[t])

WakeOK(t) ==
    /\ pc[t] = "ge_sleep" /\ EventOrEnd(cur[t]) => WakeUpDue(cur[t])
    /\ pc[t] = "poll_sleep" /\ todo[pollq[t]] # <<>> => WakeUpDue(pollq[t])

\* what happens to the group of a sleeping poller wakes it, or is about to
Told(t) == pc[t] = "poll_sleep" /\ SleepsOn(t)' => SleepsOn(t)

WakeInv ==
    /\ ListInv /\ AccessInv
    /\ \A t \in Threads : PollOK(t) /\ WakeOK(t)
-----------------------------------------------------------------------------
(***************************************************************************)
(* What the steps do to the sleepers.                                      *)
(***************************************************************************)

\* a step that gives nobody a reason to wake up
Calm(t) ==
    /\ pc[t] # "unclaim_wake"
    /\ \A g \in Groups : todo'[g] # <<>> => todo[g] # <<>>
    /\ pc'[t] = "ge_sleep" => GetEventWait(t)

(* Events are put on a todo list, and sleepers woken, in five places. *)
LEMMA CalmSteps ==
    ASSUME TypeInv, NEW t \in Threads, ThreadStep(t)
    PROVE  \/ Assign(t) \/ Unclaim(t) \/ UnclaimWake(t) \/ StoreRemoved(t) \/ RemoveGroup(t)
           \/ Calm(t)
<1>0. pc \in [Threads -> PCs] /\ todo \in [Groups -> Seq(Events)] /\ LocalOK(t)
  BY DEF TypeInv, TypeOK
<1> DEFINE Awake == PCs \ {"ge_sleep"}
<1> USE DEF Goto, shared, locals, user, history
<1>a. ASSUME pc[t] # "unclaim_wake", NEW l \in Awake, pc' = [pc EXCEPT ![t] = l], todo' = todo
      PROVE  Calm(t)
  BY <1>0, <1>a DEF Calm
<1>b. ASSUME pc[t] \in Awake \ {"unclaim_wake"}, pc'[t] = pc[t], todo' = todo PROVE Calm(t)
  BY <1>b DEF Calm
<1>c. {"idle", "precheck", "allocate", "assign", "ev_wait", "ev_sleep", "ev_release",
       "open", "dentry_open", "open_ret", "ge_wait", "ge_check", "ge_claim", "unclaim",
       "unclaim_wake", "copy", "re_release", "rt_store", "poll_lookup", "poll_check",
       "poll_sleep", "poll_free", "add_check", "add_room", "add_link", "add_load",
       "add_store", "del"} \subseteq Awake
  BY DEF PCs, CheckAccessPCs, OpenFilePCs, GetEventPCs, ReturnEventPCs, PollPCs,
         TrackingPCs, CtrlPCs
<1> HIDE DEF Awake
<1>1. ASSUME DownRead(t) PROVE Calm(t)
  <2>1. /\ pc[t] \in {"idle", "dentry_open"} /\ todo' = todo
        /\ pc' = [pc EXCEPT ![t] = "precheck"]
    BY <1>1 DEF DownRead
  <2> QED BY <1>a, <1>c, <2>1
<1>2. ASSUME PrecheckPasses(t) PROVE Calm(t)
  <2>1. /\ pc[t] = "precheck" /\ todo' = todo
        /\ \E l \in {"idle", "open_ret"} : pc' = [pc EXCEPT ![t] = l]
    BY <1>2 DEF PrecheckPasses, CheckAccessReturns
  <2> QED BY <1>a, <1>c, <2>1
<1>3. ASSUME PrecheckHandles(t) PROVE Calm(t)
  <2>1. /\ pc[t] = "precheck" /\ todo' = todo
        /\ pc' = [pc EXCEPT ![t] = "allocate"]
    BY <1>3 DEF PrecheckHandles
  <2> QED BY <1>a, <1>c, <2>1
<1>4. ASSUME Allocate(t) PROVE Calm(t)
  <2>1. /\ pc[t] = "allocate" /\ todo' = todo
        /\ pc' = [pc EXCEPT ![t] = "assign"]
    BY <1>4 DEF Allocate
  <2> QED BY <1>a, <1>c, <2>1
<1>5. ASSUME AllocateFails(t) PROVE Calm(t)
  <2>1. /\ pc[t] = "allocate" /\ todo' = todo
        /\ \E l \in {"idle", "open_ret"} : pc' = [pc EXCEPT ![t] = l]
    BY <1>5 DEF AllocateFails, CheckAccessReturns
  <2> QED BY <1>a, <1>c, <2>1
<1>6. ASSUME AssignOverruns(t) PROVE Calm(t)
  BY <1>b, <1>c, <1>6 DEF AssignOverruns
<1>7. ASSUME WaitEvent(t) PROVE Calm(t)
  <2>1. /\ pc[t] = "ev_wait" /\ todo' = todo
        /\ pc' = [pc EXCEPT ![t] = "ev_sleep"]
    BY <1>7 DEF WaitEvent
  <2> QED BY <1>a, <1>c, <2>1
<1>8. ASSUME ReadVerdict(t) PROVE Calm(t)
  <2>1. /\ pc[t] = "ev_wait" /\ todo' = todo
        /\ pc' = [pc EXCEPT ![t] = "ev_release"]
    BY <1>8 DEF ReadVerdict
  <2> QED BY <1>a, <1>c, <2>1
<1>9. ASSUME ReleaseOwn(t) PROVE Calm(t)
  <2>1. /\ pc[t] = "ev_release" /\ todo' = todo
        /\ \E l \in {"idle", "open_ret"} : pc' = [pc EXCEPT ![t] = l]
    BY <1>9 DEF ReleaseOwn, CheckAccessReturns
  <2> QED BY <1>a, <1>c, <2>1
<1>10. ASSUME GetEventWait(t) PROVE Calm(t)
  BY <1>10 DEF GetEventWait, Calm
<1>11. ASSUME GetEventSignal(t) PROVE Calm(t)
  <2>1. /\ pc[t] \in {"ge_wait", "ge_sleep"} /\ todo' = todo
        /\ \E l \in {"ge_check", "idle"} : pc' = [pc EXCEPT ![t] = l]
    BY <1>11 DEF GetEventSignal, Leave
  <2> QED BY <1>a, <1>c, <2>1
<1>12. ASSUME GetEventCheck(t) PROVE Calm(t)
  <2>1. /\ pc[t] = "ge_check" /\ todo' = todo
        /\ \E l \in {"ge_claim", "idle"} : pc' = [pc EXCEPT ![t] = l]
    BY <1>12 DEF GetEventCheck, Leave
  <2> QED BY <1>a, <1>c, <2>1
<1>13. ASSUME ClaimEvent(t) PROVE Calm(t)
  <2>1. PICK g \in Groups : g = cur[t]
    BY <1>0, <1>13 DEF ClaimEvent, LocalOK, HasGroup
  <2>2. /\ pc[t] = "ge_claim" /\ \E l \in {"ge_wait", "open"} : pc' = [pc EXCEPT ![t] = l]
        /\ todo' = todo \/ (todo[g] # <<>> /\ todo' = [todo EXCEPT ![g] = Tail(@)])
    BY <1>13, <2>1 DEF ClaimEvent
  <2>3. \A h \in Groups : todo'[h] # <<>> => todo[h] # <<>>
    BY <1>0, <2>2
  <2>4. pc'[t] # "ge_sleep"
    BY <1>0, <2>2
  <2> QED BY <2>2, <2>3, <2>4 DEF Calm
<1>14. ASSUME OpenFile(t) PROVE Calm(t)
  <2>1. /\ pc[t] = "open" /\ todo' = todo
        /\ pc' = [pc EXCEPT ![t] = "dentry_open"]
    BY <1>14 DEF OpenFile
  <2> QED BY <1>a, <1>c, <2>1
<1>15. ASSUME OpenFileNoFd(t) PROVE Calm(t)
  <2>1. /\ pc[t] = "open" /\ todo' = todo
        /\ pc' = [pc EXCEPT ![t] = "unclaim"]
    BY <1>15 DEF OpenFileNoFd
  <2> QED BY <1>a, <1>c, <2>1
<1>16. ASSUME DentryOpenFails(t) PROVE Calm(t)
  <2>1. /\ pc[t] = "dentry_open" /\ todo' = todo
        /\ pc' = [pc EXCEPT ![t] = "open_ret"]
    BY <1>16 DEF DentryOpenFails
  <2> QED BY <1>a, <1>c, <2>1
<1>17. ASSUME OpenReturn(t) PROVE Calm(t)
  <2>1. /\ pc[t] = "open_ret" /\ todo' = todo
        /\ \E l \in {"copy", "unclaim"} : pc' = [pc EXCEPT ![t] = l]
    BY <1>17 DEF OpenReturn, Leave
  <2> QED BY <1>a, <1>c, <2>1
<1>18. ASSUME CopyOut(t) PROVE Calm(t)
  <2>1. /\ pc[t] = "copy" /\ todo' = todo
        /\ pc' = [pc EXCEPT ![t] = "idle"]
    BY <1>18 DEF CopyOut
  <2> QED BY <1>a, <1>c, <2>1
<1>19. ASSUME CopyFails(t) PROVE Calm(t)
  <2>1. /\ pc[t] = "copy" /\ todo' = todo
        /\ \E l \in {"unclaim", "idle"} : pc' = [pc EXCEPT ![t] = l]
    BY <1>19 DEF CopyFails
  <2> QED BY <1>a, <1>c, <2>1
<1>20. ASSUME ReleaseAnswered(t) PROVE Calm(t)
  <2> DEFINE p == [pc EXCEPT ![t] = "idle"]
  <2>1. /\ pc[t] = "re_release" /\ p[t] = "idle" /\ todo' = todo
        /\ pc' = wake_up_event(p, Woken({ec[t]}))
    BY <1>0, <1>20 DEF ReleaseAnswered
  <2> HIDE DEF p
  <2>2. pc'[t] = "idle"
    BY <2>1 DEF wake_up_event
  <2> QED BY <2>1, <2>2 DEF Calm
<1>21. ASSUME PollLookup(t) PROVE Calm(t)
  <2>1. /\ pc[t] \in {"idle", "poll_lookup"} /\ todo' = todo
        /\ \E l \in {"poll_check", "idle", "poll_free"} : pc' = [pc EXCEPT ![t] = l]
    BY <1>21 DEF PollLookup
  <2> QED BY <1>a, <1>c, <2>1
<1>22. ASSUME PollCheck(t) PROVE Calm(t)
  <2>1. /\ pc[t] = "poll_check" /\ todo' = todo
        /\ \E l \in {"poll_sleep", "poll_free"} : pc' = [pc EXCEPT ![t] = l]
    BY <1>22 DEF PollCheck, Leave
  <2> QED BY <1>a, <1>c, <2>1
<1>23. ASSUME PollTimeout(t) PROVE Calm(t)
  <2>1. /\ pc[t] = "poll_sleep" /\ todo' = todo
        /\ pc' = [pc EXCEPT ![t] = "poll_free"]
    BY <1>23 DEF PollTimeout
  <2> QED BY <1>a, <1>c, <2>1
<1>24. ASSUME PollFree(t) PROVE Calm(t)
  <2>1. /\ pc[t] = "poll_free" /\ todo' = todo
        /\ pc' = [pc EXCEPT ![t] = "idle"]
    BY <1>24 DEF PollFree
  <2> QED BY <1>a, <1>c, <2>1
<1>25. ASSUME \/ \E id \in 0 .. GROUP_COUNT - 1 : OpenDev(t, id)
              \/ CloseUntracked(t)
      PROVE  Calm(t)
  <2>1. pc[t] = "idle" /\ pc' = pc /\ todo' = todo
    BY <1>25 DEF OpenDev, CloseUntracked, Quits
  <2> QED BY <1>b, <1>c, <2>1
<1>26. ASSUME CloseTracked(t) PROVE Calm(t)
  <2>1. /\ pc[t] = "idle" /\ todo' = todo
        /\ pc' = pc \/ pc' = [pc EXCEPT ![t] = "rt_store"]
    BY <1>26 DEF CloseTracked, Quits
  <2> QED BY <1>a, <1>b, <1>c, <2>1
<1>27. ASSUME GetEvent(t) PROVE Calm(t)
  <2>1. /\ pc[t] = "idle" /\ todo' = todo
        /\ pc' = [pc EXCEPT ![t] = "ge_wait"]
    BY <1>27 DEF GetEvent
  <2> QED BY <1>a, <1>c, <2>1
<1>28. ASSUME NEW u \in Readers, NEW e \in Events, NEW v \in Answers, ReturnEvent(t, u, e, v)
      PROVE  Calm(t)
  <2>1. /\ pc[t] = "idle" /\ todo' = todo
        /\ pc' = pc \/ pc' = [pc EXCEPT ![t] = "re_release"]
    BY <1>28 DEF ReturnEvent
  <2> QED BY <1>a, <1>b, <1>c, <2>1
<1>29. ASSUME CommandStep(t) PROVE Calm(t)
  <2>1. /\ pc[t] = "idle" /\ todo' = todo
        /\ \E l \in {"add_check", "del"} : pc' = [pc EXCEPT ![t] = l]
    BY <1>29 DEF CommandStep, AddDown, DelDown, DownWrite
  <2> QED BY <1>a, <1>c, <2>1
<1>30. ASSUME CheckForGroup(t) PROVE Calm(t)
  <2>1. /\ pc[t] = "add_check" /\ todo' = todo
        /\ \E l \in {"add_room", "idle"} : pc' = [pc EXCEPT ![t] = l]
    BY <1>30 DEF CheckForGroup, UpWrite
  <2> QED BY <1>a, <1>c, <2>1
<1>31. ASSUME AddRoom(t) PROVE Calm(t)
  <2>1. /\ pc[t] = "add_room" /\ todo' = todo
        /\ \E l \in {"add_link", "idle"} : pc' = [pc EXCEPT ![t] = l]
    BY <1>31 DEF AddRoom, UpWrite
  <2> QED BY <1>a, <1>c, <2>1
<1>32. ASSUME CreateGroupFails(t) PROVE Calm(t)
  <2>1. /\ pc[t] = "add_link" /\ todo' = todo
        /\ pc' = [pc EXCEPT ![t] = "idle"]
    BY <1>32 DEF CreateGroupFails, UpWrite
  <2> QED BY <1>a, <1>c, <2>1
<1>33. ASSUME AddLink(t) PROVE Calm(t)
  <2>1. /\ pc[t] = "add_link" /\ todo' = todo
        /\ pc' = [pc EXCEPT ![t] = "add_load"]
    BY <1>33 DEF AddLink
  <2> QED BY <1>a, <1>c, <2>1
<1>34. ASSUME AddLoad(t) PROVE Calm(t)
  <2>1. /\ pc[t] = "add_load" /\ todo' = todo
        /\ pc' = [pc EXCEPT ![t] = "add_store"]
    BY <1>34 DEF AddLoad
  <2> QED BY <1>a, <1>c, <2>1
<1>35. ASSUME AddStore(t) PROVE Calm(t)
  <2>1. /\ pc[t] = "add_store" /\ todo' = todo
        /\ pc' = [pc EXCEPT ![t] = "idle"]
    BY <1>35 DEF AddStore, UpWrite
  <2> QED BY <1>a, <1>c, <2>1
<1>36. ASSUME RemoveNothing(t) PROVE Calm(t)
  <2>1. /\ pc[t] = "del" /\ todo' = todo
        /\ pc' = [pc EXCEPT ![t] = "idle"]
    BY <1>36 DEF RemoveNothing, UpWrite
  <2> QED BY <1>a, <1>c, <2>1
<1> HIDE DEF Goto, shared, locals, user, history
<1>37. CheckAccessStep(t) => Assign(t) \/ Calm(t)
  BY <1>1, <1>2, <1>3, <1>4, <1>5, <1>6, <1>7, <1>8, <1>9 DEF CheckAccessStep
<1>38. GroupDevStep(t) => Unclaim(t) \/ UnclaimWake(t) \/ StoreRemoved(t) \/ Calm(t)
  BY <1>10, <1>11, <1>12, <1>13, <1>14, <1>15, <1>16, <1>17, <1>18, <1>19, <1>20,
     <1>21, <1>22, <1>23, <1>24 DEF GroupDevStep
<1>39. UserStep(t) => Calm(t)
  BY <1>25, <1>26, <1>27, <1>28 DEF UserStep
<1>40. GroupCtrlStep(t) => RemoveGroup(t) \/ Calm(t)
  BY <1>30, <1>31, <1>32, <1>33, <1>34, <1>35, <1>36 DEF GroupCtrlStep
<1> QED BY <1>29, <1>37, <1>38, <1>39, <1>40 DEF ThreadStep, KernelStep, CallStep

\* a group that exists gets no new id and does not become active again
Aged == \A g \in Groups : grp[g].state # "none" =>
           /\ grp'[g].state # "none"
           /\ grp'[g].state = "active" => grp[g].state = "active" /\ grp'[g].id = grp[g].id

\* no group is being deleted, or is so after the step only
NoneEnds == /\ removing' = removing
            /\ \A g \in Groups : grp'[g].state = "deprecated" => grp[g].state = "deprecated"

(* The life of a group: none, active, deprecated, freed. *)
LEMMA GroupsAge ==
    ASSUME TypeInv, NEW t \in Threads, ThreadStep(t)
    PROVE  Aged /\ (CloseTracked(t) \/ StoreRemoved(t) \/ RemoveGroup(t) \/ NoneEnds)
<1>0. TypeOK /\ grp \in [Groups -> Group]
  BY DEF TypeInv, TypeOK
<1>a. ASSUME \A g \in Groups : grp'[g].state = grp[g].state /\ grp'[g].id = grp[g].id,
             removing' = removing
      PROVE  Aged /\ NoneEnds
  BY <1>a DEF Aged, NoneEnds
<1>1. CASE Bystander(t) \/ ReadSide(t)
  <2>1. removing' = removing
    BY <1>1 DEF Bystander, ReadSide
  <2> QED BY <1>0, <1>1, <1>a, <2>1, RefsOnly
<1>2. CASE StoreRemoved(t)
  BY <1>2 DEF StoreRemoved, Aged
<1>3. ASSUME NEW id, OpenDev(t, id) PROVE Aged /\ NoneEnds
  <2> DEFINE g == LookupGroup(id)
  <2>1. /\ \/ grp' = grp
           \/ grp' = [grp EXCEPT ![g].use_count = @ + 1, ![g].track_count = @ + 1]
        /\ removing' = removing
    BY <1>3 DEF OpenDev
  <2> HIDE DEF g
  <2>2. \A h \in Groups : grp'[h].state = grp[h].state /\ grp'[h].id = grp[h].id
    BY <1>0, <2>1 DEF Group
  <2> QED BY <1>a, <2>1, <2>2
<1>4. CASE CloseUntracked(t)
  BY <1>4, <1>a DEF CloseUntracked, shared
<1>5. CASE CloseTracked(t)
  <2> DEFINE g == MyGroup(t)
  <2>1. grp' = grp \/ (g # NoGroup /\ (\/ grp' = Untrack(g)
                                       \/ grp' = [Untrack(g) EXCEPT ![g].state = "deprecated"]))
    BY <1>5 DEF CloseTracked
  <2>2. g \in Groups \cup {NoGroup}
    BY LookupType DEF MyGroup
  <2> HIDE DEF g
  <2>3. \A h \in Groups : Untrack(g)[h].id = grp[h].id /\ Untrack(g)[h].state = grp[h].state
    BY <1>0 DEF Untrack, Group
  <2>4. g \in Groups => Untrack(g) \in [Groups -> Group]
    BY <1>0, TrackTypes
  <2>5. ASSUME g \in Groups, grp' = [Untrack(g) EXCEPT ![g].state = "deprecated"],
               NEW h \in Groups
        PROVE  grp'[h].id = grp[h].id /\ grp'[h].state \in {grp[h].state, "deprecated"}
    <3>1. grp'[h] = IF h = g THEN [Untrack(g)[h] EXCEPT !.state = "deprecated"]
                    ELSE Untrack(g)[h]
      BY <2>4, <2>5
    <3>2. grp'[h].id = Untrack(g)[h].id /\ grp'[h].state \in {Untrack(g)[h].state, "deprecated"}
      BY <2>4, <2>5, <3>1 DEF Group
    <3> QED BY <2>3, <3>2
  <2>6. \A h \in Groups : grp'[h].id = grp[h].id /\ grp'[h].state \in {grp[h].state, "deprecated"}
    BY <2>1, <2>2, <2>3, <2>5
  <2> QED BY <1>5, <2>6 DEF Aged
<1>6. CASE CheckForGroup(t)
  <2>1. /\ removing' = removing
        /\ \A g \in Groups : \/ g \in Sweepable /\ grp'[g] = NullGroup("freed")
                             \/ grp'[g].state = grp[g].state /\ grp'[g].id = grp[g].id
    BY <1>0, <1>6, CheckForGroupEffect
  <2> QED BY <2>1 DEF NullGroup, Aged, NoneEnds
<1>7. CASE \/ AddRoom(t) \/ CreateGroupFails(t) \/ AddLoad(t) \/ AddStore(t)
           \/ RemoveNothing(t)
  BY <1>0, <1>7, <1>a, CtrlEffect
<1>8. CASE AddLink(t)
  <2> DEFINE new == [NullGroup("active") EXCEPT !.name = cmd[t][1], !.id = cnt[t],
                                                !.tracking = cmd[t][2]]
  <2>1. /\ removing' = removing
        /\ FreshGroup # NoGroup => grp[FreshGroup].state = "none"
        /\ \A g \in Groups : grp'[g] = IF g = FreshGroup THEN new ELSE grp[g]
    BY <1>0, <1>8, AddLinkEffect
  <2>2. new.state = "active"
    BY DEF NullGroup
  <2> HIDE DEF new
  <2>3. NoGroup \notin Groups
    BY DEF NoGroup, Groups
  <2> QED BY <2>1, <2>2, <2>3 DEF Aged, NoneEnds
<1>9. CASE RemoveGroup(t)
  <2>1. PICK g \in Active : grp' = [grp EXCEPT ![g].state = "deprecated"]
    BY <1>0, <1>9, RemoveGroupEffect
  <2>2. \A h \in Groups : grp'[h].id = grp[h].id /\ grp'[h].state \in {grp[h].state, "deprecated"}
    BY <1>0, <2>1 DEF Group
  <2> QED BY <1>9, <2>2 DEF Aged
<1>10. CASE CommandStep(t)
  BY <1>0, <1>10, <1>a, CommandEffect
<1> QED
  BY <1>1, <1>2, <1>3, <1>4, <1>5, <1>6, <1>7, <1>8, <1>9, <1>10, GroupSteps DEF GroupCtrlStep

(* A poller that is left alone, or woken. *)
LEMMA PollOthers ==
    ASSUME TypeInv, NEW u \in Threads, PollOK(u), Undisturbed(u), Aged
    PROVE  PollOK(u)'
<1>0. /\ pollq[u] \in Groups \cup {NoGroup} /\ LocalOK(u)
  BY DEF TypeInv, TypeOK
<1>1. /\ pollq'[u] = pollq[u] /\ cur'[u] = cur[u]
      /\ pc[u] \in PollPCs => file'[u] = file[u]
      /\ pc'[u] = pc[u] \/ pc'[u] \notin {"poll_sleep", "poll_check"}
      /\ pc[u] \in PollPCs => pc'[u] \in PollPCs
      /\ pc'[u] \in PollPCs => pc[u] \in PollPCs
  BY <1>0 DEF Undisturbed, LocalOK, PollPCs
<1>2. ASSUME NEW g \in Groups, pc[u] \in PollPCs, FoundBy(u, g)
      PROVE  FoundBy(u, g)' /\ (g \in Active' => g \in Active)
  <2>1. /\ grp[g].state # "none"
        /\ grp[g].state = "active" => grp[g].id = file[u].gid
    BY <1>2 DEF FoundBy
  <2>2. /\ grp'[g].state # "none"
        /\ grp'[g].state = "active" => grp[g].state = "active" /\ grp'[g].id = grp[g].id
    BY <2>1 DEF Aged
  <2> QED BY <1>1, <1>2, <2>1, <2>2 DEF FoundBy, Active
<1>3. CASE pollq[u] = NoGroup
  <2>1. pc[u] = "poll_check" => cur[u] \in Groups
    BY <1>0 DEF LocalOK, HasGroup
  <2>2. pollq[u] \notin Active'
    BY <1>3 DEF Active, Groups, NoGroup
  <2>3. pc'[u] = "poll_check" => FoundBy(u, cur[u])'
    <3> SUFFICES ASSUME pc'[u] = "poll_check" PROVE FoundBy(u, cur[u])'
      OBVIOUS
    <3>1. pc[u] = "poll_check" /\ "poll_check" \in PollPCs
      BY <1>1 DEF PollPCs
    <3>2. PICK g \in Groups : g = cur[u]
      BY <2>1, <3>1
    <3>3. FoundBy(u, g)'
      BY <1>2, <3>1, <3>2 DEF PollOK
    <3> QED BY <1>1, <3>2, <3>3 DEF FoundBy
  <2> QED BY <1>1, <1>3, <2>2, <2>3 DEF PollOK
<1>4. CASE pollq[u] # NoGroup
  <2>1. PICK g \in Groups : g = pollq[u]
    BY <1>0, <1>4
  <2>2. pc[u] \in PollPCs /\ pc'[u] \in PollPCs /\ FoundBy(u, g)' /\ (g \in Active' => g \in Active)
    BY <1>1, <1>2, <1>4, <2>1 DEF PollOK
  <2>3. FoundBy(u, pollq[u])'
    BY <1>1, <2>1, <2>2 DEF FoundBy
  <2>4. pc'[u] = "poll_check" => FoundBy(u, cur[u])' /\ (g \in Active' => cur'[u] = g)
    <3> SUFFICES ASSUME pc'[u] = "poll_check"
                 PROVE  FoundBy(u, cur[u])' /\ (g \in Active' => cur'[u] = g)
      OBVIOUS
    <3>1. pc[u] = "poll_check"
      BY <1>1
    <3>2. PICK h \in Groups : h = cur[u]
      BY <1>0, <3>1 DEF LocalOK, HasGroup
    <3>3. FoundBy(u, h)' /\ (g \in Active => h = g)
      BY <1>2, <2>1, <2>2, <3>1, <3>2 DEF PollOK
    <3> QED BY <1>1, <2>2, <3>2, <3>3 DEF FoundBy
  <2> QED BY <1>1, <1>4, <2>1, <2>2, <2>3, <2>4 DEF PollOK
<1> QED BY <1>3, <1>4

(* The steps of poll(2) itself. *)
LEMMA PollOwn ==
    ASSUME ListInv, NEW t \in Threads, PollOK(t), ThreadStep(t), Aged
    PROVE  PollOK(t)'
<1>0. /\ TypeInv /\ TypeOK /\ LocalOK(t) /\ NamesOK
      /\ grp \in [Groups -> Group] /\ pc \in [Threads -> PCs]
      /\ cur \in [Threads -> Groups \cup {NoGroup}]
      /\ pollq \in [Threads -> Groups \cup {NoGroup}] /\ NoGroup \notin Groups
  BY DEF ListInv, TypeInv, TypeOK, NoGroup, Groups
<1>a. ASSUME NEW g \in Groups, file' = file, FoundBy(t, g)
      PROVE  FoundBy(t, g)' /\ (g \in Active' => g \in Active /\ grp[g].id = file[t].gid)
  <2>1. /\ grp[g].state # "none"
        /\ grp[g].state = "active" => grp[g].id = file[t].gid
    BY <1>a DEF FoundBy
  <2>2. /\ grp'[g].state # "none"
        /\ grp'[g].state = "active" => grp[g].state = "active" /\ grp'[g].id = grp[g].id
    BY <2>1 DEF Aged
  <2> QED BY <1>a, <2>1, <2>2 DEF FoundBy, Active
<1>b. ASSUME pollq'[t] = pollq[t], file' = file, pc'[t] \in PollPCs \ {"poll_sleep"},
             pollq[t] # NoGroup
      PROVE  /\ pollq'[t] # NoGroup => pc'[t] \in PollPCs /\ FoundBy(t, pollq[t])'
             /\ pc'[t] = "poll_sleep" => pollq'[t] # NoGroup
             /\ pollq[t] \in Active' => pollq[t] \in Active /\ grp[pollq[t]].id = file[t].gid
  <2>1. PICK q \in Groups : q = pollq[t]
    BY <1>0, <1>b
  <2>2. FoundBy(t, q)' /\ (q \in Active' => q \in Active /\ grp[q].id = file[t].gid)
    BY <1>a, <1>b, <2>1 DEF PollOK
  <2>3. FoundBy(t, pollq[t])'
    BY <1>b, <2>1, <2>2 DEF FoundBy
  <2> QED BY <1>b, <2>1, <2>2, <2>3
<1> USE DEF Goto, shared, locals, user, history
<1>1. CASE OutsidePoll(t)
  <2>1. pollq[t] = NoGroup
    BY <1>1 DEF OutsidePoll, PollOK
  <2> QED BY <1>1, <2>1 DEF OutsidePoll, PollOK, PollPCs
<1>2. CASE PollLookup(t)
  <2>1. /\ pollq' = pollq /\ file' = file
        /\ pc[t] \in {"idle", "poll_lookup"}
    BY <1>2 DEF PollLookup
  <2>2. CASE MyGroup(t) = NoGroup
    <3>1. pc'[t] = IF pollq[t] = NoGroup THEN "idle" ELSE "poll_free"
      BY <1>0, <1>2, <2>2 DEF PollLookup
    <3>2. CASE pollq[t] = NoGroup
      BY <2>1, <3>1, <3>2 DEF PollOK
    <3>3. CASE pollq[t] # NoGroup
      <4>1. pc'[t] = "poll_free"
        BY <3>1, <3>3
      <4> QED BY <1>b, <2>1, <3>3, <4>1 DEF PollOK, PollPCs
    <3> QED BY <3>2, <3>3
  <2>3. CASE MyGroup(t) # NoGroup
    <3>1. PICK g \in Active : g = MyGroup(t) /\ grp[g].id = file[t].gid
      BY <2>3, LookupType DEF MyGroup
    <3>2. get_group(g) /\ cur'[t] = g /\ pc'[t] = "poll_check" /\ g \in Groups
      BY <1>0, <1>2, <2>3, <3>1 DEF PollLookup, Active
    <3>3. FoundBy(t, g)
      BY <3>1 DEF FoundBy, Active
    <3>4. FoundBy(t, g)'
      BY <1>a, <2>1, <3>2, <3>3
    <3>5. FoundBy(t, cur[t])'
      BY <3>2, <3>4 DEF FoundBy
    <3>6. CASE pollq[t] = NoGroup
      BY <1>0, <2>1, <3>2, <3>5, <3>6 DEF PollOK, Active
    <3>7. CASE pollq[t] # NoGroup
      <4>1. /\ FoundBy(t, pollq[t])'
            /\ pollq[t] \in Active' => pollq[t] \in Active /\ grp[pollq[t]].id = file[t].gid
        BY <1>b, <2>1, <3>2, <3>7 DEF PollPCs
      <4>2. pollq[t] \in Active' => pollq[t] = g
        BY <1>0, <3>1, <4>1 DEF NamesOK
      <4> QED BY <2>1, <3>2, <3>5, <4>1, <4>2 DEF PollOK, PollPCs
    <3> QED BY <3>6, <3>7
  <2> QED BY <2>2, <2>3
<1>3. CASE PollCheck(t)
  <2>1. PICK g \in Groups : g = cur[t]
    BY <1>0, <1>3 DEF PollCheck, LocalOK, HasGroup
  <2>2. /\ pc[t] = "poll_check" /\ file' = file /\ pc'[t] \in {"poll_free", "poll_sleep"}
        /\ pollq'[t] = IF pollq[t] = NoGroup THEN g ELSE pollq[t]
    BY <1>0, <1>3, <2>1 DEF PollCheck, Leave
  <2>3. PICK q \in Groups : q = pollq'[t]
    BY <1>0, <2>2
  <2>4. FoundBy(t, q)
    BY <2>1, <2>2, <2>3 DEF PollOK
  <2>5. FoundBy(t, q)' /\ q # NoGroup
    BY <1>0, <1>a, <2>2, <2>4
  <2>6. FoundBy(t, pollq[t])'
    BY <2>3, <2>5 DEF FoundBy
  <2> QED BY <2>2, <2>3, <2>5, <2>6 DEF PollOK, PollPCs
<1>4. CASE PollTimeout(t)
  <2>1. pollq' = pollq /\ file' = file /\ pc[t] = "poll_sleep" /\ pc'[t] = "poll_free"
    BY <1>0, <1>4 DEF PollTimeout
  <2>2. pollq[t] # NoGroup
    BY <2>1 DEF PollOK
  <2> QED BY <1>b, <2>1, <2>2 DEF PollOK, PollPCs
<1>5. CASE PollFree(t)
  BY <1>0, <1>5 DEF PollFree, PollOK
<1> HIDE DEF Goto, shared, locals, user, history
<1> QED BY <1>0, <1>1, <1>2, <1>3, <1>4, <1>5, PollSteps

(* Whoever goes to sleep has looked first, at the list he is queued for. *)
LEMMA SleepOwn ==
    ASSUME AccessInv, NEW t \in Threads, PollOK(t), ThreadStep(t), Calm(t)
    PROVE  WakeOK(t)' /\ Told(t)
<1>0. /\ TypeInv /\ TypeOK /\ LocalOK(t) /\ pc \in [Threads -> PCs]
      /\ pollq \in [Threads -> Groups \cup {NoGroup}] /\ NoGroup \notin Groups
      /\ todo \in [Groups -> Seq(Events)]
  BY DEF AccessInv, TypeInv, TypeOK, NoGroup, Groups
<1> USE DEF Goto, shared, locals, user, history
<1>1. ASSUME pc'[t] = "ge_sleep" PROVE ~EventOrEnd(cur[t])'
  <2>1. GetEventWait(t)
    BY <1>1 DEF Calm
  <2>2. ~EventOrEnd(cur[t]) /\ UNCHANGED <<todo, grp, cur>>
    BY <1>0, <1>1, <2>1 DEF GetEventWait
  <2> QED BY <2>2 DEF EventOrEnd
<1>2. ASSUME pc'[t] = "poll_sleep" PROVE pc[t] = "poll_check" /\ todo'[pollq'[t]] = <<>>
  <2>1. PollCheck(t)
    <3>1. ~OutsidePoll(t)
      BY <1>2 DEF OutsidePoll, PollPCs
    <3>2. ~PollLookup(t) /\ ~PollTimeout(t) /\ ~PollFree(t)
      BY <1>0, <1>2 DEF PollLookup, PollTimeout, PollFree
    <3> QED BY <1>0, <3>1, <3>2, PollSteps
  <2>2. PICK g \in Groups : g = cur[t]
    BY <1>0, <2>1 DEF PollCheck, LocalOK, HasGroup
  <2>3. /\ pc[t] = "poll_check" /\ todo' = todo /\ removing = NoGroup
        /\ pollq'[t] = IF pollq[t] = NoGroup THEN g ELSE pollq[t]
        /\ todo[g] = <<>>
    BY <1>0, <1>2, <2>1, <2>2 DEF PollCheck, Leave, WorkMutexFree
  <2>4. PICK q \in Groups : q = pollq'[t]
    BY <1>0, <2>3
  <2>5. CASE q \in Active
    <3>1. q = g
      BY <2>2, <2>3, <2>4, <2>5 DEF PollOK
    <3> QED BY <2>3, <2>4, <3>1
  <2>6. CASE q \notin Active
    <3>1. ~MayHold(q)
      BY <1>0, <2>3, <2>6 DEF MayHold, Active
    <3>2. Contained(q) = {}
      BY <3>1 DEF AccessInv, QueueOK
    <3>3. DOMAIN todo[q] = {}
      BY <3>2 DEF Contained, Range
    <3>4. todo[q] = <<>>
      <4>1. todo[q] \in Seq(Events) /\ (todo[q] # <<>> => 1 \in DOMAIN todo[q])
        BY <1>0
      <4> QED BY <3>3, <4>1
    <3> QED BY <2>3, <2>4, <3>4
  <2> QED BY <2>5, <2>6
<1> QED BY <1>1, <1>2 DEF WakeOK, Told, SleepsOn

(* The other sleepers, when those of the groups in G are woken: whoever has a new
   reason to wake up in another group has a wake-up coming. *)
LEMMA SleepersKept ==
    ASSUME TypeInv, NEW u \in Threads, PollOK(u), WakeOK(u), Undisturbed(u), NEW G,
           pc'[u] = "ge_sleep" => cur[u] \notin G,
           pc'[u] = "poll_sleep" => pollq[u] \notin G,
           \A g \in Groups \ G :
               /\ todo'[g] # <<>> => todo[g] # <<>> \/ WakeUpDue(g)'
               /\ grp'[g].state = "deprecated" => grp[g].state = "deprecated" \/ WakeUpDue(g)'
               /\ WakeUpDue(g) => WakeUpDue(g)'
    PROVE  WakeOK(u)' /\ Told(u)
<1>0. /\ pollq[u] \in Groups \cup {NoGroup} /\ LocalOK(u)
      /\ pollq'[u] = pollq[u] /\ cur'[u] = cur[u]
      /\ pc'[u] \in {"ge_sleep", "poll_sleep"} => pc[u] = pc'[u]
  BY DEF TypeInv, TypeOK, Undisturbed
<1>1. ASSUME pc'[u] = "ge_sleep", EventOrEnd(cur[u])' PROVE WakeUpDue(cur[u])'
  <2>1. PICK g \in Groups : g = cur[u]
    BY <1>0, <1>1 DEF LocalOK, HasGroup
  <2>2. todo'[g] # <<>> \/ grp'[g].state = "deprecated"
    BY <1>0, <1>1, <2>1 DEF EventOrEnd
  <2>3. EventOrEnd(g) => WakeUpDue(g)
    BY <1>0, <1>1, <2>1 DEF WakeOK
  <2>4. WakeUpDue(g)'
    BY <1>1, <2>1, <2>2, <2>3 DEF EventOrEnd
  <2> QED BY <1>0, <2>1, <2>4 DEF WakeUpDue
<1>2. ASSUME pc'[u] = "poll_sleep", todo'[pollq'[u]] # <<>> PROVE WakeUpDue(pollq[u])'
  <2>1. PICK g \in Groups : g = pollq[u]
    BY <1>0, <1>2 DEF PollOK
  <2>2. todo[g] # <<>> => WakeUpDue(g)
    BY <1>0, <1>2, <2>1 DEF WakeOK
  <2>3. WakeUpDue(g)'
    BY <1>0, <1>2, <2>1, <2>2
  <2> QED BY <1>0, <2>1, <2>3 DEF WakeUpDue
<1>3. ASSUME SleepsOn(u)' PROVE SleepsOn(u)
  <2>1. pc'[u] = "poll_sleep" /\ pc[u] = "poll_sleep"
    BY <1>0, <1>3 DEF SleepsOn
  <2>2. PICK g \in Groups : g = pollq[u]
    BY <1>0, <2>1 DEF PollOK
  <2>3. EventOrEnd(g)' /\ ~WakeUpDue(g)'
    BY <1>0, <1>3, <2>2 DEF SleepsOn, EventOrEnd, WakeUpDue
  <2>4. EventOrEnd(g) /\ ~WakeUpDue(g)
    BY <2>1, <2>2, <2>3 DEF EventOrEnd
  <2> QED BY <2>1, <2>2, <2>4 DEF SleepsOn
<1> QED BY <1>1, <1>2, <1>3 DEF WakeOK, Told

(* Wake-ups that are due stay due until they are made. *)
LEMMA DueKept ==
    ASSUME NEW t \in Threads, OthersAside(t), pc[t] # "unclaim_wake"
    PROVE  /\ removing' = removing => \A g \in Groups : WakeUpDue(g) => WakeUpDue(g)'
           /\ removing = NoGroup => \A g \in Groups : WakeUpDue(g) => WakeUpDue(g)'
<1> SUFFICES ASSUME NEW g \in Groups, WakeUpDue(g),
                    removing' = removing \/ removing = NoGroup
             PROVE  WakeUpDue(g)'
  OBVIOUS
<1>1. CASE removing = g
  BY <1>1 DEF WakeUpDue, Groups, NoGroup
<1>2. CASE removing # g
  <2>1. PICK u \in Threads : pc[u] = "unclaim_wake" /\ cur[u] = g
    BY <1>2 DEF WakeUpDue
  <2>2. pc'[u] = "unclaim_wake" /\ cur'[u] = g
    BY <2>1 DEF OthersAside, Undisturbed
  <2> QED BY <2>2 DEF WakeUpDue
<1> QED BY <1>1, <1>2

\* the sleepers on the queues of the groups in G are woken, and t is not asleep
Wakes(t, G) ==
    /\ pc'[t] \notin {"ge_sleep", "poll_sleep"}
    /\ \A u \in Threads \ {t} : /\ pc'[u] = "ge_sleep" => cur[u] \notin G
                                /\ pc'[u] = "poll_sleep" => pollq[u] \notin G

(* The wake-ups of a step reach the sleepers. *)
LEMMA WakesAll ==
    ASSUME NEW t \in Threads, NEW p, NEW G, p[t] \in {"idle", "ev_wait"},
           \/ pc' = wake_up_group(p, G)
           \/ \E g : pc' = WakeCleared(p, g) /\ G = {g}
    PROVE  Wakes(t, G)
<1>1. CASE pc' = wake_up_group(p, G)
  BY <1>1 DEF wake_up_group, Wakes
<1>2. ASSUME NEW g, pc' = WakeCleared(p, g), G = {g}
      PROVE  Wakes(t, G)
  <2> DEFINE q == wake_up_event(p, Woken(Contained(g)))
  <2>1. pc' = wake_up_group(q, G)
    BY <1>2 DEF WakeCleared
  <2>2. q[t] \in {"idle", "ev_wait"}
    BY DEF wake_up_event
  <2> HIDE DEF q
  <2> QED BY <2>1, <2>2 DEF wake_up_group, Wakes
<1> QED BY <1>1, <1>2

(* The steps that wake somebody, or give him a reason to. *)
LEMMA WakingStep ==
    ASSUME WakeInv, NEW t \in Threads, ThreadStep(t), OthersAside(t),
           Assign(t) \/ Unclaim(t) \/ UnclaimWake(t) \/ StoreRemoved(t) \/ RemoveGroup(t)
    PROVE  \A u \in Threads : WakeOK(u)' /\ Told(u)
<1>0. /\ TypeInv /\ TypeOK /\ LocalOK(t) /\ OneRemover
      /\ pc \in [Threads -> PCs] /\ todo \in [Groups -> Seq(Events)]
      /\ grp \in [Groups -> Group]
  BY DEF WakeInv, AccessInv, TypeInv, TypeOK
<1>a. ASSUME NEW G, Wakes(t, G),
             \A g \in Groups \ G :
                 /\ todo'[g] # <<>> => todo[g] # <<>> \/ WakeUpDue(g)'
                 /\ grp'[g].state = "deprecated" => grp[g].state = "deprecated" \/ WakeUpDue(g)'
                 /\ WakeUpDue(g) => WakeUpDue(g)'
      PROVE  \A u \in Threads : WakeOK(u)' /\ Told(u)
  <2>1. WakeOK(t)' /\ Told(t)
    BY <1>a DEF Wakes, WakeOK, Told, SleepsOn
  <2>2. ASSUME NEW u \in Threads \ {t} PROVE WakeOK(u)' /\ Told(u)
    <3>1. PollOK(u) /\ WakeOK(u) /\ Undisturbed(u)
      BY DEF WakeInv, OthersAside
    <3>2. /\ pc'[u] = "ge_sleep" => cur[u] \notin G
          /\ pc'[u] = "poll_sleep" => pollq[u] \notin G
      BY <1>a DEF Wakes
    <3> QED BY <1>0, <1>a, <3>1, <3>2, SleepersKept
  <2> QED BY <2>1, <2>2
<1>b. Aged /\ (pc[t] \in {"idle", "rt_store", "del"} \/ NoneEnds)
  <2>1. Aged /\ (CloseTracked(t) \/ StoreRemoved(t) \/ RemoveGroup(t) \/ NoneEnds)
    BY <1>0, GroupsAge
  <2> QED BY <2>1 DEF CloseTracked, Quits, StoreRemoved, RemoveGroup
<1> USE DEF Goto, shared, locals, user, history
<1>1. CASE Assign(t)
  <2> DEFINE p == [pc EXCEPT ![t] = "ev_wait"]
  <2>1. /\ pc[t] = "assign" /\ p[t] = "ev_wait" /\ pc' = wake_up_group(p, Active)
        /\ \A g \in Groups \ Active : todo'[g] = todo[g]
    BY <1>0, <1>1 DEF Assign
  <2> HIDE DEF p
  <2>2. NoneEnds
    BY <1>b, <2>1
  <2>3. PICK G : G = Active
    OBVIOUS
  <2>4. Wakes(t, G)
    BY <2>1, <2>3, WakesAll
  <2>5. \A g \in Groups : WakeUpDue(g) => WakeUpDue(g)'
    BY <2>1, <2>2, DueKept DEF NoneEnds
  <2>6. \A g \in Groups \ G :
           /\ todo'[g] # <<>> => todo[g] # <<>> \/ WakeUpDue(g)'
           /\ grp'[g].state = "deprecated" => grp[g].state = "deprecated" \/ WakeUpDue(g)'
           /\ WakeUpDue(g) => WakeUpDue(g)'
    BY <2>1, <2>2, <2>3, <2>5 DEF NoneEnds
  <2> QED BY <1>a, <2>4, <2>6
<1>2. CASE Unclaim(t)
  <2>1. PICK g \in Groups : g = cur[t]
    BY <1>0, <1>2 DEF Unclaim, LocalOK, HasGroup
  <2>2. /\ pc[t] = "unclaim" /\ pc'[t] = "unclaim_wake" /\ cur' = cur
        /\ \A h \in Groups \ {g} : todo'[h] = todo[h]
    BY <1>0, <1>2, <2>1 DEF Unclaim, Requeue
  <2>3. NoneEnds
    BY <1>b, <2>2
  <2>4. WakeUpDue(g)'
    BY <2>1, <2>2 DEF WakeUpDue
  <2>5. \A h \in Groups : WakeUpDue(h) => WakeUpDue(h)'
    BY <2>2, <2>3, DueKept DEF NoneEnds
  <2>6. PICK G : G = {}
    OBVIOUS
  <2>7. Wakes(t, G)
    BY <2>2, <2>6 DEF Wakes
  <2>8. \A h \in Groups \ G :
           /\ todo'[h] # <<>> => todo[h] # <<>> \/ WakeUpDue(h)'
           /\ grp'[h].state = "deprecated" => grp[h].state = "deprecated" \/ WakeUpDue(h)'
           /\ WakeUpDue(h) => WakeUpDue(h)'
    BY <2>2, <2>3, <2>4, <2>5, <2>6 DEF NoneEnds
  <2> QED BY <1>a, <2>7, <2>8
<1>3. CASE UnclaimWake(t)
  <2> DEFINE p == [pc EXCEPT ![t] = "idle"]
  <2>1. /\ pc[t] = "unclaim_wake" /\ p[t] = "idle" /\ pc' = wake_up_group(p, {cur[t]})
        /\ todo' = todo
    BY <1>0, <1>3 DEF UnclaimWake
  <2> HIDE DEF p
  <2>2. NoneEnds
    BY <1>b, <2>1
  <2>3. PICK G : G = {cur[t]}
    OBVIOUS
  <2>4. Wakes(t, G)
    BY <2>1, <2>3, WakesAll
  <2>5. ASSUME NEW g \in Groups \ G, WakeUpDue(g) PROVE WakeUpDue(g)'
    <3>1. CASE removing = g
      BY <2>2, <3>1 DEF NoneEnds, WakeUpDue
    <3>2. CASE removing # g
      <4>1. PICK u \in Threads : pc[u] = "unclaim_wake" /\ cur[u] = g
        BY <2>5, <3>2 DEF WakeUpDue
      <4>2. u # t
        BY <2>3, <4>1
      <4>3. pc'[u] = "unclaim_wake" /\ cur'[u] = g
        BY <4>1, <4>2 DEF OthersAside, Undisturbed
      <4> QED BY <4>3 DEF WakeUpDue
    <3> QED BY <3>1, <3>2
  <2>6. \A g \in Groups \ G :
           /\ todo'[g] # <<>> => todo[g] # <<>> \/ WakeUpDue(g)'
           /\ grp'[g].state = "deprecated" => grp[g].state = "deprecated" \/ WakeUpDue(g)'
           /\ WakeUpDue(g) => WakeUpDue(g)'
    BY <2>1, <2>2, <2>5 DEF NoneEnds
  <2> QED BY <1>a, <2>4, <2>6
<1>4. CASE StoreRemoved(t)
  <2> DEFINE p == [pc EXCEPT ![t] = "idle"]
  <2>1. PICK r \in Groups : r = removing
    BY <1>0, <1>4 DEF StoreRemoved, OneRemover
  <2>2. /\ pc[t] = "rt_store" /\ p[t] = "idle" /\ pc' = WakeCleared(p, r) /\ grp' = grp
        /\ \A g \in Groups \ {r} : todo'[g] = todo[g]
    BY <1>0, <1>4, <2>1 DEF StoreRemoved, ClearGroup
  <2> HIDE DEF p
  <2>3. PICK G : G = {r}
    OBVIOUS
  <2>4. Wakes(t, G)
    BY <2>2, <2>3, WakesAll
  <2>5. ASSUME NEW g \in Groups \ G, WakeUpDue(g) PROVE WakeUpDue(g)'
    <3>1. PICK u \in Threads : pc[u] = "unclaim_wake" /\ cur[u] = g
      BY <2>1, <2>3, <2>5 DEF WakeUpDue
    <3>2. pc'[u] = "unclaim_wake" /\ cur'[u] = g
      BY <2>2, <3>1 DEF OthersAside, Undisturbed
    <3> QED BY <3>2 DEF WakeUpDue
  <2>6. \A g \in Groups \ G :
           /\ todo'[g] # <<>> => todo[g] # <<>> \/ WakeUpDue(g)'
           /\ grp'[g].state = "deprecated" => grp[g].state = "deprecated" \/ WakeUpDue(g)'
           /\ WakeUpDue(g) => WakeUpDue(g)'
    BY <2>2, <2>3, <2>5
  <2> QED BY <1>a, <2>4, <2>6
<1>5. CASE RemoveGroup(t)
  <2> DEFINE p == [pc EXCEPT ![t] = "idle"]
  <2>1. PICK g : g = NamedGroup(cmd[t][1])
    OBVIOUS
  <2>2. /\ pc[t] = "del" /\ p[t] = "idle" /\ pc' = WakeCleared(p, g) /\ removing' = removing
        /\ grp' = [grp EXCEPT ![g].state = "deprecated"]
        /\ \A h \in Groups \ {g} : todo'[h] = todo[h]
    BY <1>0, <1>5, <2>1 DEF RemoveGroup, ClearGroup
  <2> HIDE DEF p
  <2>3. PICK G : G = {g}
    OBVIOUS
  <2>4. Wakes(t, G)
    BY <2>2, <2>3, WakesAll
  <2>5. \A h \in Groups : WakeUpDue(h) => WakeUpDue(h)'
    BY <2>2, DueKept
  <2>6. \A h \in Groups \ G : grp'[h] = grp[h]
    BY <1>0, <2>2, <2>3
  <2>7. \A h \in Groups \ G :
           /\ todo'[h] # <<>> => todo[h] # <<>> \/ WakeUpDue(h)'
           /\ grp'[h].state = "deprecated" => grp[h].state = "deprecated" \/ WakeUpDue(h)'
           /\ WakeUpDue(h) => WakeUpDue(h)'
    BY <2>2, <2>3, <2>5, <2>6
  <2> QED BY <1>a, <2>4, <2>7
<1> QED BY <1>1, <1>2, <1>3, <1>4, <1>5

(* The steps that do not. *)
LEMMA CalmStep ==
    ASSUME WakeInv, NEW t \in Threads, ThreadStep(t), OthersAside(t), Calm(t),
           ~StoreRemoved(t), ~RemoveGroup(t)
    PROVE  \A u \in Threads : WakeOK(u)' /\ Told(u)
<1>0. TypeInv /\ TypeOK /\ AccessInv /\ PollOK(t)
  BY DEF WakeInv, AccessInv, TypeInv
<1>1. \A g \in Groups :
         /\ grp'[g].state = "deprecated" => grp[g].state = "deprecated" \/ WakeUpDue(g)'
         /\ WakeUpDue(g) => WakeUpDue(g)'
  <2>1. CASE NoneEnds
    BY <2>1, DueKept DEF NoneEnds, Calm
  <2>2. CASE CloseTracked(t)
    <3>1. \A g \in Groups : WakeUpDue(g) => WakeUpDue(g)'
      BY <2>2, DueKept DEF CloseTracked, WorkMutexFree, Calm
    <3> DEFINE g == MyGroup(t)
    <3>2. \/ grp' = grp
          \/ g # NoGroup /\ grp' = Untrack(g)
          \/ g # NoGroup /\ grp' = [Untrack(g) EXCEPT ![g].state = "deprecated"] /\ removing' = g
      BY <2>2 DEF CloseTracked
    <3>3. g \in Groups \cup {NoGroup}
      BY LookupType DEF MyGroup
    <3> HIDE DEF g
    <3>4. g \in Groups => /\ Untrack(g) \in [Groups -> Group]
                          /\ \A h \in Groups : Untrack(g)[h].state = grp[h].state
      <4>1. grp \in [Groups -> Group]
        BY <1>0 DEF TypeOK
      <4>2. g \in Groups => Untrack(g) \in [Groups -> Group]
        BY <1>0, TrackTypes
      <4> QED BY <4>1, <4>2 DEF Untrack, Group
    <3>5. ASSUME NEW h \in Groups, grp'[h].state = "deprecated", grp[h].state # "deprecated"
          PROVE  WakeUpDue(h)'
      <4>1. CASE removing' = g /\ g \in Groups /\ grp' = [Untrack(g) EXCEPT ![g].state = "deprecated"]
        <5>1. h = g
          BY <3>4, <3>5, <4>1
        <5> QED BY <4>1, <5>1 DEF WakeUpDue
      <4> QED BY <3>2, <3>3, <3>4, <3>5, <4>1
    <3> QED BY <3>1, <3>5
  <2> QED BY <1>0, <2>1, <2>2, GroupsAge
<1>2. WakeOK(t)' /\ Told(t)
  BY <1>0, SleepOwn
<1>3. ASSUME NEW u \in Threads \ {t} PROVE WakeOK(u)' /\ Told(u)
  <2>1. PollOK(u) /\ WakeOK(u) /\ Undisturbed(u)
    BY DEF WakeInv, OthersAside
  <2>2. PICK G : G = {}
    OBVIOUS
  <2>3. \A g \in Groups \ G :
           /\ todo'[g] # <<>> => todo[g] # <<>> \/ WakeUpDue(g)'
           /\ grp'[g].state = "deprecated" => grp[g].state = "deprecated" \/ WakeUpDue(g)'
           /\ WakeUpDue(g) => WakeUpDue(g)'
    BY <1>1 DEF Calm
  <2> QED BY <1>0, <2>1, <2>2, <2>3, SleepersKept
<1> QED BY <1>2, <1>3

(* Sleepers and pollers are in order in every state. *)
LEMMA WakeInvInductive ==
    Init /\ [][Next]_vars => []WakeInv
<1>1. Init /\ ListInv /\ AccessInv => WakeInv
  BY DEF Init, WakeInv, PollOK, WakeOK
<1>2. WakeInv /\ ListInv' /\ AccessInv' /\ [Next]_vars => WakeInv'
  <2> SUFFICES ASSUME WakeInv, ListInv', AccessInv', [Next]_vars PROVE WakeInv'
    OBVIOUS
  <2>0. TypeInv /\ ListInv /\ AccessInv /\ \A t \in Threads : PollOK(t)
    BY DEF WakeInv, ListInv
  <2>1. ASSUME NEW t \in Threads, ThreadStep(t) PROVE WakeInv'
    <3>1. OthersAside(t)
      BY <2>0, <2>1, OthersUndisturbed DEF OthersAside
    <3>2. Aged
      BY <2>0, <2>1, GroupsAge
    <3>3. \A u \in Threads \ {t} : PollOK(u)'
      BY <2>0, <3>1, <3>2, PollOthers DEF OthersAside
    <3>4. PollOK(t)'
      BY <2>0, <2>1, <3>2, PollOwn
    <3>5. \A u \in Threads : WakeOK(u)'
      BY <2>0, <2>1, <3>1, CalmSteps, CalmStep, WakingStep
    <3> QED BY <3>3, <3>4, <3>5 DEF WakeInv
  <2>2. ASSUME UNCHANGED <<shared, pc, locals, user, vote>> PROVE WakeInv'
    <3>1. UNCHANGED <<removing, grp, todo, pc, cur, pollq, file>>
      BY <2>2 DEF shared, locals, user
    <3>2. \A u \in Threads : PollOK(u) /\ WakeOK(u)
      BY DEF WakeInv
    <3>3. \A u \in Threads : PollOK(u)'
      BY <3>1, <3>2 DEF PollOK, FoundBy, Active
    <3>4. \A u \in Threads : WakeOK(u)'
      BY <3>1, <3>2 DEF WakeOK, WakeUpDue, EventOrEnd
    <3> QED BY <3>3, <3>4 DEF WakeInv
  <2>3. ASSUME NEW t \in Threads, FaultStep(t) PROVE WakeInv'
    BY <2>2, <2>3 DEF FaultStep, UseAfterFree
  <2>4. CASE UNCHANGED vars
    BY <2>2, <2>4 DEF vars, history
  <2> QED BY <2>1, <2>3, <2>4 DEF Next
<1> QED BY <1>1, <1>2, ListInvInductive, AccessInvInductive, PTL

(***************************************************************************)
(* No wake-up is lost, however accesses, readers that fail and put an      *)
(* event back, pollers and deletions of groups interleave: the theorem for *)
(* NoLostWakeup.  Who waits for a verdict or reads a group is woken for an *)
(* event and for the end of the group; who polls a group, for an event.    *)
(* For a poller it rests on the distinct ids of the groups: it sleeps on   *)
(* the queue of the group it found first and looks at the list of the one  *)
(* it finds now.                                                           *)
(***************************************************************************)
THEOREM NobodySleepsOn ==
    Spec => []NoLostWakeup
<1>1. WakeInv => NoLostWakeup
  <2> SUFFICES ASSUME WakeInv, NEW t \in Threads
               PROVE  /\ pc[t] = "ev_sleep" => Pending(mine[t]) # {}
                      /\ pc[t] = "ge_sleep" /\ EventOrEnd(cur[t]) => WakeUpDue(cur[t])
                      /\ pc[t] = "poll_sleep" /\ todo[pollq[t]] # <<>> => WakeUpDue(pollq[t])
    BY DEF NoLostWakeup
  <2>1. ASSUME pc[t] = "ev_sleep" PROVE Pending(mine[t]) # {}
    <3>1. PICK e \in Events : e = mine[t]
      BY <2>1 DEF WakeInv, AccessInv, TypeInv, LocalOK
    <3>2. evt[e].assigned # 0 /\ evt[e].assigned = Cardinality(Pending(e))
      BY <2>1, <3>1 DEF WakeInv, AccessInv, AccessOK, EventOK
    <3> QED BY <3>1, <3>2, FS_EmptySet
  <2> QED BY <2>1 DEF WakeInv, WakeOK
<1> QED BY <1>1, WakeInvInductive, PTL DEF Spec

(***************************************************************************)
(* A poller that is on the poll_queue is told of the end of the group too: *)
(* the theorem for PollersTold.  __remove_group() wakes the poll_queue,    *)
(* and between marking the group deprecated and that wake-up work_mutex is *)
(* held.  Who goes to sleep there after the wake-up is not told of it.     *)
(***************************************************************************)
THEOREM SleepingPollersTold ==
    Spec => PollersTold
<1>1. WakeInv /\ [Next]_vars => \A u \in Threads : Told(u)
  <2> SUFFICES ASSUME WakeInv, [Next]_vars PROVE \A u \in Threads : Told(u)
    OBVIOUS
  <2>0. TypeInv /\ ListInv /\ AccessInv
    BY DEF WakeInv, ListInv
  <2>1. ASSUME NEW t \in Threads, ThreadStep(t) PROVE \A u \in Threads : Told(u)
    <3>1. OthersAside(t)
      BY <2>0, <2>1, OthersUndisturbed DEF OthersAside
    <3> QED BY <2>0, <2>1, <3>1, CalmSteps, CalmStep, WakingStep
  <2>2. ASSUME UNCHANGED <<shared, pc, locals, user, vote>>
        PROVE  \A u \in Threads : Told(u)
    <3>1. UNCHANGED <<removing, grp, todo, pc, cur, pollq>>
      BY <2>2 DEF shared, locals
    <3> QED BY <3>1 DEF Told, SleepsOn, EventOrEnd, WakeUpDue
  <2>3. ASSUME NEW t \in Threads, FaultStep(t) PROVE \A u \in Threads : Told(u)
    BY <2>2, <2>3 DEF FaultStep, UseAfterFree
  <2>4. CASE UNCHANGED vars
    BY <2>2, <2>4 DEF vars, history
  <2> QED BY <2>1, <2>3, <2>4 DEF Next
<1>2. WakeInv /\ [Next]_vars
        => [\A t \in Threads : pc[t] = "poll_sleep" /\ SleepsOn(t)' => SleepsOn(t)]_vars
  BY <1>1 DEF Told
<1> QED BY <1>2, WakeInvInductive, PTL DEF Spec, PollersTold
=============================================================================
