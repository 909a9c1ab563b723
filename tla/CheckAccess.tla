----------------------------- MODULE CheckAccess -----------------------------
(***************************************************************************)
(* dazukofs_check_access(): what a process goes through when it opens a    *)
(* file on a DazukoFS mount.  The same code runs for an anonymous process  *)
(* and, inside open_file(), for the registered process that is handed the  *)
(* file; the second one is recognised by cur[t] # NoGroup.                 *)
(***************************************************************************)
EXTENDS EventState

\* bound: the events that may still be started
EventsLeft ==
    last_event_id + Cardinality({u \in Threads :
        pc[u] \in {"precheck", "allocate", "assign"}}) < MaxEvents

\* return v from dazukofs_check_access(); "deny" is any error
CheckAccessReturns(t, v) ==
    IF cur[t] = NoGroup
    THEN Goto(t, "idle") /\ ans' = [ans EXCEPT ![t] = "none"]
    ELSE Goto(t, "open_ret") /\ ans' = [ans EXCEPT ![t] = v]

\* dazukofs_open() on the mount: down_read(&group_count_sem)
DownRead(t) ==
    /\ \/ pc[t] = "idle" /\ t \in Accessors /\ EventsLeft
       \/ pc[t] = "dentry_open"
    /\ writer = {}
    /\ readers' = readers \cup {t}
    /\ Goto(t, "precheck")
    /\ UNCHANGED <<writer, removing, group_count, grp, todo, working,
                   last_event_id, evt, masked, locals, user, history>>

\* check_recursion(): take the thread off proc_list
check_recursion(t) == masked' = masked \ {t}

(***************************************************************************)
(* check_access_precheck().  With no group nothing is looked at, so a      *)
(* masked process stays masked.                                            *)
(***************************************************************************)
PrecheckPasses(t) ==
    /\ pc[t] = "precheck"
    /\ \/ group_count = 0 /\ UNCHANGED masked
       \/ group_count # 0 /\ t \in masked /\ check_recursion(t)
       \/ group_count # 0 /\ t \notin masked /\ t \in Ignored /\ UNCHANGED masked
    /\ readers' = readers \ {t}
    /\ CheckAccessReturns(t, "allow")
    /\ UNCHANGED <<writer, removing, group_count, grp, todo, working,
                   last_event_id, evt, cur, ec, mine, cnt, cmd, pollq, user,
                   history>>

PrecheckHandles(t) ==
    /\ pc[t] = "precheck"
    /\ group_count # 0 /\ t \notin masked /\ t \notin Ignored
    /\ Goto(t, "allocate")
    /\ UNCHANGED <<shared, locals, user, history>>

(***************************************************************************)
(* allocate_event_and_containers(): group_count is read a second time; the *)
(* loop makes that many containers, none if the counter is negative.       *)
(***************************************************************************)
Allocate(t) ==
    /\ pc[t] = "allocate"
    /\ cnt' = [cnt EXCEPT ![t] = IF group_count > 0 THEN group_count ELSE 0]
    /\ Goto(t, "assign")
    /\ UNCHANGED <<shared, cur, ec, mine, cmd, ans, pollq, user, history>>

AllocateFails(t) ==
    /\ pc[t] = "allocate"
    /\ "enomem" \in Env
    /\ readers' = readers \ {t}
    /\ CheckAccessReturns(t, "deny")
    /\ UNCHANGED <<writer, removing, group_count, grp, todo, working,
                   last_event_id, evt, masked, cur, ec, mine, cnt, cmd, pollq,
                   user, history>>

(***************************************************************************)
(* assign_event_to_groups(), then up_read().  One container goes to the    *)
(* todo list of every group that is not deprecated.                        *)
(***************************************************************************)
Assign(t) ==
    LET e == last_event_id + 1 IN
    /\ pc[t] = "assign"
    /\ WorkMutexFree
    /\ last_event_id < MaxEvents
    /\ Cardinality(Active) <= cnt[t]
    /\ last_event_id' = e
    /\ evt' = [evt EXCEPT ![e] = [NullEvent("live") EXCEPT
                                     !.assigned = Cardinality(Active)]]
    /\ todo' = [g \in Groups |-> IF g \in Active THEN Append(todo[g], e)
                                 ELSE todo[g]]
    /\ vote' = [vote EXCEPT ![e] = [g \in Groups |->
                   IF g \in Active THEN "pending" ELSE "none"]]
    /\ mine' = [mine EXCEPT ![t] = e]
    /\ cnt' = [cnt EXCEPT ![t] = 0]
    /\ readers' = readers \ {t}
    /\ pc' = wake_up_group([pc EXCEPT ![t] = "ev_wait"], Active)
    /\ UNCHANGED <<writer, removing, group_count, grp, working, masked, cur,
                   ec, cmd, ans, pollq, user, fault>>

\* more groups than containers: ec_array[i] was never set
AssignOverruns(t) ==
    /\ pc[t] = "assign"
    /\ WorkMutexFree
    /\ Cardinality(Active) > cnt[t]
    /\ fault' = "missing_container"
    /\ UNCHANGED <<shared, pc, locals, user, vote>>

\* Mutant of Settled: the wait may end early.
Settled_Any(e) == TRUE

\* event_assigned(evt) == 0
Settled(e) == evt[e].assigned = 0

\* wait_event(evt->queue, event_assigned(evt) == 0)
WaitEvent(t) ==
    /\ pc[t] = "ev_wait"
    /\ ~Settled(mine[t])
    /\ Goto(t, "ev_sleep")
    /\ UNCHANGED <<shared, locals, user, history>>

\* the wait is over: evt->deny is read without the mutex
ReadVerdict(t) ==
    /\ pc[t] = "ev_wait"
    /\ Settled(mine[t])
    /\ ans' = [ans EXCEPT ![t] = IF evt[mine[t]].deny THEN "deny" ELSE "allow"]
    /\ Goto(t, "ev_release")
    /\ UNCHANGED <<shared, cur, ec, mine, cnt, cmd, pollq, user, history>>

\* Mutant of FreeOwn: the event is never freed.
FreeOwn_Leaks(e) ==
    /\ evt' = [evt EXCEPT ![e] = NullEvent("live")]
    /\ vote' = [vote EXCEPT ![e] = NoVotes]

\* release_event(evt, 0, 0) when no group holds the event
FreeOwn(e) ==
    /\ evt' = [evt EXCEPT ![e] = NullEvent("freed")]
    /\ vote' = [vote EXCEPT ![e] = NoVotes]

\* release_event(evt, 0, 0), and the return
ReleaseOwn(t) ==
    LET e == mine[t] IN
    /\ pc[t] = "ev_release"
    /\ IF evt[e].assigned = 0
       THEN FreeOwn(e)
       ELSE /\ evt' = [evt EXCEPT ![e].deprecated = TRUE]
            /\ UNCHANGED vote
    /\ mine' = [mine EXCEPT ![t] = NoEvent]
    /\ CheckAccessReturns(t, ans[t])
    /\ UNCHANGED <<writer, readers, removing, group_count, grp, todo, working,
                   last_event_id, masked, cur, ec, cnt, cmd, pollq, user,
                   fault>>

CheckAccessStep(t) ==
    \/ DownRead(t) \/ PrecheckPasses(t) \/ PrecheckHandles(t)
    \/ Allocate(t) \/ AllocateFails(t) \/ Assign(t) \/ AssignOverruns(t)
    \/ WaitEvent(t) \/ ReadVerdict(t) \/ ReleaseOwn(t)
=============================================================================
