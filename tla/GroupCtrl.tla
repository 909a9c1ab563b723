------------------------------ MODULE GroupCtrl ------------------------------
(***************************************************************************)
(* dazukofs_add_group() and dazukofs_remove_group(): what a process that   *)
(* writes to the control device does to the group list, with               *)
(* group_count_sem held for writing throughout.                            *)
(***************************************************************************)
EXTENDS EventState

\* up_write() and the return
UpWrite(t) ==
    /\ writer' = {}
    /\ cmd' = [cmd EXCEPT ![t] = NoCmd]
    /\ Goto(t, "idle")

\* bound: a group structure that has never been used is left
FreshGroup == FirstOf({g \in Groups : grp[g].state = "none"})

\* Mutant of NoReaders: the writer does not wait for the readers.
NoReaders_Ignored == TRUE

\* what down_write() waits for, besides other writers
NoReaders == readers = {}

\* down_write(&group_count_sem)
DownWrite(t, l) ==
    /\ pc[t] = "idle"
    /\ writer = {}
    /\ NoReaders
    /\ writer' = {t}
    /\ Goto(t, l)
    /\ UNCHANGED <<readers, removing, group_count, grp, todo, working,
                   last_event_id, evt, masked, cur, ec, mine, cnt, ans, pollq,
                   user, history>>

AddDown(t, n, tr) ==
    /\ "add" \in Commands
    /\ FreshGroup # NoGroup
    /\ cmd' = [cmd EXCEPT ![t] = <<n, tr>>]
    /\ DownWrite(t, "add_check")

DelDown(t, n) ==
    /\ "del" \in Commands
    /\ cmd' = [cmd EXCEPT ![t] = <<n, FALSE>>]
    /\ DownWrite(t, "del")
-----------------------------------------------------------------------------
\* the active group with the name n
NamedGroup(n) == FirstOf({g \in Active : grp[g].name = n})

\* Mutant of Sweepable: use_count is not looked at.
Sweepable_InUse == {g \in Groups : grp[g].state = "deprecated"}

\* deprecated groups that nobody uses
Sweepable == {g \in Groups : /\ grp[g].state = "deprecated"
                             /\ grp[g].use_count = 0}

(***************************************************************************)
(* What the loop around __check_for_group() frees when the name leads to   *)
(* group h: the loop tries the ids from 0 on and each try walks group_list *)
(* up to the group that has the name or the id.  If no group has the name, *)
(* the last try finds neither and walks the whole list.                    *)
(***************************************************************************)
Swept(h) == IF h = NoGroup THEN Sweepable ELSE {g \in Sweepable : g < h}

\* the ids no active group has; the loop takes the first
FreeIds == {i \in 0 .. MaxGroups : \A g \in Active : grp[g].id # i}

\* Mutant of AvailableId: the number of groups is taken for a free id.
AvailableId_Count == group_count

AvailableId == Least(FreeIds)

CheckForGroup(t) ==
    LET n == cmd[t][1]
        h == NamedGroup(n)
        S == Swept(h)
    IN
    /\ pc[t] = "add_check"
    /\ WorkMutexFree
    /\ grp' = [g \in Groups |->
                 IF g \in S THEN NullGroup("freed")
                 ELSE IF g = h THEN [grp[g] EXCEPT !.tracking = @ \/ cmd[t][2]]
                 ELSE grp[g]]
    /\ IF h = NoGroup
       THEN /\ cnt' = [cnt EXCEPT ![t] = AvailableId]
            /\ Goto(t, "add_room")
            /\ UNCHANGED <<writer, cmd>>
       ELSE UpWrite(t) /\ UNCHANGED cnt
    /\ UNCHANGED <<readers, removing, group_count, todo, working,
                   last_event_id, evt, masked, cur, ec, mine, ans, pollq, user,
                   history>>

\* group_count is read with the semaphore, which does not stop StoreRemoved
AddRoom(t) ==
    /\ pc[t] = "add_room"
    /\ IF group_count = GROUP_COUNT
       THEN UpWrite(t) /\ cnt' = [cnt EXCEPT ![t] = 0]
       ELSE Goto(t, "add_link") /\ UNCHANGED <<writer, cmd, cnt>>
    /\ UNCHANGED <<readers, removing, group_count, grp, todo, working,
                   last_event_id, evt, masked, cur, ec, mine, ans, pollq, user,
                   history>>

\* __create_group() cannot allocate the group or its name
CreateGroupFails(t) ==
    /\ pc[t] = "add_link"
    /\ "enomem" \in Env
    /\ UpWrite(t)
    /\ cnt' = [cnt EXCEPT ![t] = 0]
    /\ UNCHANGED <<readers, removing, group_count, grp, todo, working,
                   last_event_id, evt, masked, cur, ec, mine, ans, pollq, user,
                   history>>

\* __create_group() and list_add_tail() under the mutex
AddLink(t) ==
    /\ pc[t] = "add_link"
    /\ WorkMutexFree
    /\ grp' = [grp EXCEPT ![FreshGroup] =
                 [NullGroup("active") EXCEPT !.name = cmd[t][1], !.id = cnt[t],
                                             !.tracking = cmd[t][2]]]
    /\ Goto(t, "add_load")
    /\ UNCHANGED <<writer, readers, removing, group_count, todo, working,
                   last_event_id, evt, masked, locals, user, history>>

\* group_count++, a load and a store, without the mutex
AddLoad(t) ==
    /\ pc[t] = "add_load"
    /\ cnt' = [cnt EXCEPT ![t] = group_count]
    /\ Goto(t, "add_store")
    /\ UNCHANGED <<shared, cur, ec, mine, cmd, ans, pollq, user, history>>

\* Mutant of AddStore: the counter is not incremented.
AddStore_NoIncrement(t) ==
    /\ pc[t] = "add_store"
    /\ group_count' = cnt[t]
    /\ cnt' = [cnt EXCEPT ![t] = 0]
    /\ UpWrite(t)
    /\ UNCHANGED <<readers, removing, grp, todo, working, last_event_id, evt,
                   masked, cur, ec, mine, ans, pollq, user, history>>

AddStore(t) ==
    /\ pc[t] = "add_store"
    /\ group_count' = cnt[t] + 1
    /\ cnt' = [cnt EXCEPT ![t] = 0]
    /\ UpWrite(t)
    /\ UNCHANGED <<readers, removing, grp, todo, working, last_event_id, evt,
                   masked, cur, ec, mine, ans, pollq, user, history>>
-----------------------------------------------------------------------------
(***************************************************************************)
(* dazukofs_remove_group() after down_write(): __remove_group() on the     *)
(* group with the name.  Both locks are held, so it is one step.           *)
(***************************************************************************)
RemoveGroup(t) ==
    LET g == NamedGroup(cmd[t][1]) IN
    /\ pc[t] = "del"
    /\ group_count # 0 /\ g # NoGroup
    /\ WorkMutexFree
    /\ grp' = [grp EXCEPT ![g].state = "deprecated"]
    /\ group_count' = group_count - 1
    /\ ClearGroup(g)
    /\ writer' = {}
    /\ cmd' = [cmd EXCEPT ![t] = NoCmd]
    /\ pc' = WakeCleared([pc EXCEPT ![t] = "idle"], g)
    /\ UNCHANGED <<readers, removing, last_event_id, masked, cur, ec, mine,
                   cnt, ans, pollq, user, fault>>

\* no group at all (tested without the mutex), or none with the name
RemoveNothing(t) ==
    /\ pc[t] = "del"
    /\ group_count = 0 \/ (WorkMutexFree /\ NamedGroup(cmd[t][1]) = NoGroup)
    /\ UpWrite(t)
    /\ UNCHANGED <<readers, removing, group_count, grp, todo, working,
                   last_event_id, evt, masked, cur, ec, mine, cnt, ans, pollq,
                   user, history>>

CommandStep(t) ==
    \/ \E n \in Names, tr \in TrackFlags : AddDown(t, n, tr)
    \/ \E n \in Names : DelDown(t, n)

GroupCtrlStep(t) ==
    \/ CheckForGroup(t) \/ AddRoom(t) \/ CreateGroupFails(t) \/ AddLink(t)
    \/ AddLoad(t) \/ AddStore(t) \/ RemoveGroup(t) \/ RemoveNothing(t)
=============================================================================
