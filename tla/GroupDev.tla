------------------------------ MODULE GroupDev ------------------------------
(***************************************************************************)
(* The group devices /dev/dazukofs.N: open, release, read, write and poll  *)
(* of group_dev.c with the functions of event.c they call.  The threads    *)
(* are the registered processes.  A device keeps no pointer to its group:  *)
(* every call looks the group up again by the minor number.                *)
(***************************************************************************)
EXTENDS EventState

\* the group the open device of t leads to at this moment
MyGroup(t) == LookupGroup(file[t].gid)

\* Mutant of Leave: the reference is not given back.
Leave_KeepsReference(t, l) ==
    /\ UNCHANGED grp
    /\ cur' = [cur EXCEPT ![t] = NoGroup]
    /\ Goto(t, l)

\* atomic_dec(&grp->use_count), and go on at l
Leave(t, l) ==
    /\ put_group(cur[t])
    /\ cur' = [cur EXCEPT ![t] = NoGroup]
    /\ Goto(t, l)
-----------------------------------------------------------------------------
(***************************************************************************)
(* open(2) and release.                                                    *)
(***************************************************************************)

\* dazukofs_group_open_tracking(); private_data is the tracked flag
OpenDev(t, id) ==
    LET g == LookupGroup(id)
        tracks == g # NoGroup /\ grp[g].tracking
    IN
    /\ pc[t] = "idle"
    /\ file[t] = Closed
    /\ WorkMutexFree
    /\ g # NoGroup \/ "preopen" \in Env
    /\ file' = [file EXCEPT ![t] = [gid |-> id, tracked |-> tracks, grp |-> g]]
    /\ grp' = IF tracks
              THEN [grp EXCEPT ![g].use_count = @ + 1, ![g].track_count = @ + 1]
              ELSE grp
    /\ UNCHANGED <<writer, readers, removing, group_count, todo, working,
                   last_event_id, evt, masked, pc, locals, hand, history>>

\* close(2), or the death of the process, which forgets what it was given
Quits(t) ==
    /\ pc[t] = "idle"
    /\ file[t] # Closed
    /\ "quit" \in Env
    /\ file' = [file EXCEPT ![t] = Closed]
    /\ hand' \in {hand, [hand EXCEPT ![t] = {}]}

CloseUntracked(t) ==
    /\ Quits(t)
    /\ ~file[t].tracked
    /\ UNCHANGED <<shared, pc, locals, history>>

\* one process less is tracked
Untrack(g) == [grp EXCEPT ![g].use_count = @ - 1, ![g].track_count = @ - 1]

\* Mutant of LastTracked: off by one.
LastTracked_OffByOne(g) == grp[g].track_count <= 2

\* the process that leaves is the only one that is tracked
LastTracked(g) == grp[g].track_count = 1

(***************************************************************************)
(* dazukofs_group_release_tracking().  The last tracked process starts     *)
(* __remove_group(); its group_count-- loads the counter here and stores   *)
(* it in StoreRemoved, because group_count_sem is not held.                *)
(***************************************************************************)
CloseTracked(t) ==
    LET g    == MyGroup(t)
        dec  == g # NoGroup /\ grp[g].tracking
        last == dec /\ LastTracked(g)
    IN
    /\ Quits(t)
    /\ file[t].tracked
    /\ WorkMutexFree
    /\ grp' = IF last THEN [Untrack(g) EXCEPT ![g].state = "deprecated"]
              ELSE IF dec THEN Untrack(g)
              ELSE grp
    /\ IF last
       THEN /\ removing' = g
            /\ cnt' = [cnt EXCEPT ![t] = group_count]
            /\ Goto(t, "rt_store")
       ELSE UNCHANGED <<removing, cnt, pc>>
    /\ UNCHANGED <<writer, readers, group_count, todo, working, last_event_id,
                   evt, masked, cur, ec, mine, cmd, ans, pollq, history>>

StoreRemoved(t) ==
    /\ pc[t] = "rt_store"
    /\ group_count' = cnt[t] - 1
    /\ cnt' = [cnt EXCEPT ![t] = 0]
    /\ ClearGroup(removing)
    /\ removing' = NoGroup
    /\ pc' = WakeCleared([pc EXCEPT ![t] = "idle"], removing)
    /\ UNCHANGED <<writer, readers, grp, last_event_id, masked, cur, ec, mine,
                   cmd, ans, pollq, user, fault>>
-----------------------------------------------------------------------------
(***************************************************************************)
(* read(2): dazukofs_get_event(), and the copy to the user's buffer.       *)
(***************************************************************************)
GetEvent(t) ==
    LET g == MyGroup(t) IN
    /\ pc[t] = "idle"
    /\ file[t] # Closed
    /\ hand[t] = {} \/ "readahead" \in Env
    /\ WorkMutexFree
    /\ g # NoGroup
    /\ get_group(g)
    /\ cur' = [cur EXCEPT ![t] = g]
    /\ Goto(t, "ge_wait")
    /\ UNCHANGED <<writer, readers, removing, group_count, todo, working,
                   last_event_id, evt, masked, ec, mine, cnt, cmd, ans, pollq,
                   user, history>>

\* the condition a reader of group g waits for
EventOrEnd(g) == todo[g] # <<>> \/ grp[g].state = "deprecated"

GetEventWait(t) ==
    /\ pc[t] = "ge_wait"
    /\ WorkMutexFree
    /\ Goto(t, IF EventOrEnd(cur[t]) THEN "ge_check" ELSE "ge_sleep")
    /\ UNCHANGED <<shared, locals, user, history>>

\* a signal: the condition is tested before the signal is
GetEventSignal(t) ==
    /\ pc[t] \in {"ge_wait", "ge_sleep"}
    /\ "signal" \in Env
    /\ WorkMutexFree
    /\ IF EventOrEnd(cur[t])
       THEN Goto(t, "ge_check") /\ UNCHANGED <<grp, cur>>
       ELSE Leave(t, "idle")
    /\ UNCHANGED <<writer, readers, removing, group_count, todo, working,
                   last_event_id, evt, masked, ec, mine, cnt, cmd, ans, pollq,
                   user, history>>

\* grp->deprecated is read without the mutex
GetEventCheck(t) ==
    /\ pc[t] = "ge_check"
    /\ IF grp[cur[t]].state = "deprecated"
       THEN Leave(t, "idle")
       ELSE Goto(t, "ge_claim") /\ UNCHANGED <<grp, cur>>
    /\ UNCHANGED <<writer, readers, removing, group_count, todo, working,
                   last_event_id, evt, masked, ec, mine, cnt, cmd, ans, pollq,
                   user, history>>

\* claim_event(): another reader may have been faster
ClaimEvent(t) ==
    LET g == cur[t] IN
    /\ pc[t] = "ge_claim"
    /\ WorkMutexFree
    /\ IF todo[g] = <<>>
       THEN Goto(t, "ge_wait") /\ UNCHANGED <<todo, working, ec>>
       ELSE /\ todo' = [todo EXCEPT ![g] = Tail(@)]
            /\ working' = [working EXCEPT ![g] = @ \cup {Head(todo[g])}]
            /\ ec' = [ec EXCEPT ![t] = Head(todo[g])]
            /\ Goto(t, "open")
    /\ UNCHANGED <<writer, readers, removing, group_count, grp, last_event_id,
                   evt, masked, cur, mine, cnt, cmd, ans, pollq, user, history>>

\* Mutant of mask_proc: the process is not put on proc_list.
mask_proc_Forgotten(t) == UNCHANGED masked

\* mask_proc()
mask_proc(t) == masked' = masked \cup {t}

(***************************************************************************)
(* open_file().  The call of dentry_open() runs dazukofs_open() and with   *)
(* it dazukofs_check_access() in the same thread; it comes back at         *)
(* "open_ret".  dentry_open() may fail before that call and after it.      *)
(***************************************************************************)
OpenFile(t) ==
    /\ pc[t] = "open"
    /\ mask_proc(t)
    /\ Goto(t, "dentry_open")
    /\ UNCHANGED <<writer, readers, removing, group_count, grp, todo, working,
                   last_event_id, evt, locals, user, history>>

OpenFileNoFd(t) ==
    /\ pc[t] = "open"
    /\ "nofd" \in Env
    /\ Goto(t, "unclaim")
    /\ UNCHANGED <<shared, locals, user, history>>

DentryOpenFails(t) ==
    /\ pc[t] = "dentry_open"
    /\ "eopen" \in Env
    /\ ans' = [ans EXCEPT ![t] = "deny"]
    /\ Goto(t, "open_ret")
    /\ UNCHANGED <<shared, cur, ec, mine, cnt, cmd, pollq, user, history>>

OpenReturn(t) ==
    /\ pc[t] = "open_ret"
    /\ masked' = masked \ {t}
    /\ ans' = [ans EXCEPT ![t] = "none"]
    /\ \/ ans[t] = "allow" /\ Leave(t, "copy")
       \/ /\ ans[t] = "deny" \/ "eopen" \in Env
          /\ Goto(t, "unclaim")
          /\ UNCHANGED <<grp, cur>>
    /\ UNCHANGED <<writer, readers, removing, group_count, todo, working,
                   last_event_id, evt, ec, mine, cnt, cmd, pollq, user, history>>

\* Mutant of Requeue: list_del() is forgotten.
Requeue_KeepsWorking(g, e) ==
    /\ UNCHANGED working
    /\ todo' = [todo EXCEPT ![g] = <<e>> \o @]

\* unclaim_event(): from the working list to the head of the todo list
Requeue(g, e) ==
    /\ working' = [working EXCEPT ![g] = @ \ {e}]
    /\ todo' = [todo EXCEPT ![g] = <<e>> \o @]

\* unclaim_event() under the mutex, and its wake-ups after it
Unclaim(t) ==
    /\ pc[t] = "unclaim"
    /\ WorkMutexFree
    /\ Requeue(cur[t], ec[t])
    /\ ec' = [ec EXCEPT ![t] = NoEvent]
    /\ Goto(t, "unclaim_wake")
    /\ UNCHANGED <<writer, readers, removing, group_count, grp, last_event_id,
                   evt, masked, cur, mine, cnt, cmd, ans, pollq, user, history>>

UnclaimWake(t) ==
    /\ pc[t] = "unclaim_wake"
    /\ put_group(cur[t])
    /\ cur' = [cur EXCEPT ![t] = NoGroup]
    /\ pc' = wake_up_group([pc EXCEPT ![t] = "idle"], {cur[t]})
    /\ UNCHANGED <<writer, readers, removing, group_count, todo, working,
                   last_event_id, evt, masked, ec, mine, cnt, cmd, ans, pollq,
                   user, history>>

\* Mutant of CopyOut: the id is taken after ec was reset.
CopyOut_AfterReset(t) ==
    /\ pc[t] = "copy"
    /\ hand' = [hand EXCEPT ![t] = @ \cup {<<file[t].gid, NoEvent>>}]
    /\ ec' = [ec EXCEPT ![t] = NoEvent]
    /\ Goto(t, "idle")
    /\ UNCHANGED <<shared, cur, mine, cnt, cmd, ans, pollq, file, history>>

\* copy_to_user() of the event id and the descriptor
CopyOut(t) ==
    /\ pc[t] = "copy"
    /\ hand' = [hand EXCEPT ![t] = @ \cup {<<file[t].gid, ec[t]>>}]
    /\ ec' = [ec EXCEPT ![t] = NoEvent]
    /\ Goto(t, "idle")
    /\ UNCHANGED <<shared, cur, mine, cnt, cmd, ans, pollq, file, history>>

\* copy_to_user() fails: dazukofs_return_event(..., REPOST) up to its unlock
CopyFails(t) ==
    LET g == MyGroup(t) IN
    /\ pc[t] = "copy"
    /\ "efault" \in Env
    /\ WorkMutexFree
    /\ IF g # NoGroup /\ ec[t] \in working[g]
       THEN /\ get_group(g)
            /\ cur' = [cur EXCEPT ![t] = g]
            /\ Goto(t, "unclaim")
            /\ UNCHANGED ec
       ELSE /\ ec' = [ec EXCEPT ![t] = NoEvent]
            /\ Goto(t, "idle")
            /\ UNCHANGED <<grp, cur>>
    /\ UNCHANGED <<writer, readers, removing, group_count, todo, working,
                   last_event_id, evt, masked, mine, cnt, cmd, ans, pollq,
                   user, history>>
-----------------------------------------------------------------------------
(***************************************************************************)
(* write(2): dazukofs_return_event() with the answer v to what process u   *)
(* was given.  Any process that has the device open may answer, and to any *)
(* event on the working list: also while its reader is in open_file().     *)
(***************************************************************************)
ReturnEvent(t, u, e, v) ==
    LET g == MyGroup(t) IN
    /\ pc[t] = "idle"
    /\ file[t] # Closed
    /\ <<file[t].gid, e>> \in hand[u] \/ "guess" \in Env
    /\ v \in {"allow", "deny"}
    /\ WorkMutexFree
    /\ \/ hand' = [hand EXCEPT ![u] = @ \ {<<file[t].gid, e>>}]
       \/ "dup" \in Env /\ UNCHANGED hand
    /\ IF g # NoGroup /\ e \in working[g]
       THEN /\ get_group(g)
            /\ cur' = [cur EXCEPT ![t] = g]
            /\ working' = [working EXCEPT ![g] = @ \ {e}]
            /\ ec' = [ec EXCEPT ![t] = e]
            /\ ans' = [ans EXCEPT ![t] = v]
            /\ Goto(t, "re_release")
       ELSE UNCHANGED <<grp, cur, working, ec, ans, pc>>
    /\ UNCHANGED <<writer, readers, removing, group_count, todo, last_event_id,
                   evt, masked, mine, cnt, cmd, pollq, file, history>>

\* release_event(evt, 1, response == DENY) after the unlock
ReleaseAnswered(t) ==
    /\ pc[t] = "re_release"
    /\ release_event({ec[t]}, cur[t], ans[t])
    /\ put_group(cur[t])
    /\ cur' = [cur EXCEPT ![t] = NoGroup]
    /\ ec' = [ec EXCEPT ![t] = NoEvent]
    /\ ans' = [ans EXCEPT ![t] = "none"]
    /\ pc' = wake_up_event([pc EXCEPT ![t] = "idle"], Woken({ec[t]}))
    /\ UNCHANGED <<writer, readers, removing, group_count, todo, working,
                   last_event_id, masked, mine, cnt, cmd, pollq, user, fault>>
-----------------------------------------------------------------------------
(***************************************************************************)
(* poll(2).  The kernel calls dazukofs_poll(), sleeps, and calls it again  *)
(* after a wake-up; only the first call puts the thread on a poll_queue,   *)
(* and it stays there, without a use_count, until poll(2) returns.         *)
(***************************************************************************)
PollLookup(t) ==
    LET g == MyGroup(t) IN
    /\ \/ pc[t] = "idle" /\ t \in Pollers /\ file[t] # Closed
       \/ pc[t] = "poll_lookup"
    /\ WorkMutexFree
    /\ IF g # NoGroup
       THEN /\ get_group(g)
            /\ cur' = [cur EXCEPT ![t] = g]
            /\ Goto(t, "poll_check")
       ELSE /\ Goto(t, IF pollq[t] = NoGroup THEN "idle" ELSE "poll_free")
            /\ UNCHANGED <<grp, cur>>
    /\ UNCHANGED <<writer, readers, removing, group_count, todo, working,
                   last_event_id, evt, masked, ec, mine, cnt, cmd, ans, pollq,
                   user, history>>

PollCheck(t) ==
    /\ pc[t] = "poll_check"
    /\ WorkMutexFree
    /\ pollq' = IF pollq[t] = NoGroup THEN [pollq EXCEPT ![t] = cur[t]] ELSE pollq
    /\ Leave(t, IF todo[cur[t]] # <<>> THEN "poll_free" ELSE "poll_sleep")
    /\ UNCHANGED <<writer, readers, removing, group_count, todo, working,
                   last_event_id, evt, masked, ec, mine, cnt, cmd, ans, user,
                   history>>

PollTimeout(t) ==
    /\ pc[t] = "poll_sleep"
    /\ "signal" \in Env
    /\ Goto(t, "poll_free")
    /\ UNCHANGED <<shared, locals, user, history>>

\* poll_freewait(): remove_wait_queue() on the poll_queue, and the return
PollFree(t) ==
    /\ pc[t] = "poll_free"
    /\ pollq' = [pollq EXCEPT ![t] = NoGroup]
    /\ Goto(t, "idle")
    /\ UNCHANGED <<shared, cur, ec, mine, cnt, cmd, ans, user, history>>
-----------------------------------------------------------------------------
\* the steps a registered process starts by itself
UserStep(t) ==
    \/ \E id \in 0 .. GROUP_COUNT - 1 : OpenDev(t, id)
    \/ CloseUntracked(t) \/ CloseTracked(t) \/ GetEvent(t)
    \/ \E u \in Readers, e \in Events, v \in Answers : ReturnEvent(t, u, e, v)

GroupDevStep(t) ==
    \/ StoreRemoved(t)
    \/ GetEventWait(t) \/ GetEventSignal(t) \/ GetEventCheck(t)
    \/ ClaimEvent(t) \/ OpenFile(t) \/ OpenFileNoFd(t) \/ DentryOpenFails(t)
    \/ OpenReturn(t) \/ Unclaim(t) \/ UnclaimWake(t) \/ CopyOut(t)
    \/ CopyFails(t) \/ ReleaseAnswered(t)
    \/ PollLookup(t) \/ PollCheck(t) \/ PollTimeout(t) \/ PollFree(t)
=============================================================================
