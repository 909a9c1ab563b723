------------------------------- MODULE Events -------------------------------
(***************************************************************************)
(* The event subsystem of DazukoFS: anonymous processes in                 *)
(* dazukofs_check_access(), registered processes on the group devices and  *)
(* control processes that add and delete groups, all at the same time.     *)
(***************************************************************************)
EXTENDS CheckAccess, GroupDev, GroupCtrl

Init ==
    /\ writer = {} /\ readers = {}
    /\ removing = NoGroup
    /\ group_count = 0
    /\ grp = [g \in Groups |-> NullGroup("none")]
    /\ todo = [g \in Groups |-> <<>>]
    /\ working = [g \in Groups |-> {}]
    /\ last_event_id = 0
    /\ evt = [e \in Events |-> NullEvent("none")]
    /\ masked = {}
    /\ pc = [t \in Threads |-> "idle"]
    /\ cur = [t \in Threads |-> NoGroup]
    /\ ec = [t \in Threads |-> NoEvent]
    /\ mine = [t \in Threads |-> NoEvent]
    /\ cnt = [t \in Threads |-> 0]
    /\ cmd = [t \in Threads |-> NoCmd]
    /\ ans = [t \in Threads |-> "none"]
    /\ pollq = [t \in Threads |-> NoGroup]
    /\ file = [t \in Readers |-> Closed]
    /\ hand = [t \in Readers |-> {}]
    /\ vote = [e \in Events |-> NoVotes]
    /\ fault = "none"
-----------------------------------------------------------------------------
(***************************************************************************)
(* Uses of memory that has been freed: the next step of the thread would   *)
(* follow a pointer to a container that __clear_group_event_list() or      *)
(* dazukofs_return_event() freed, or to a group that __check_for_group()   *)
(* freed, or take itself off a wait queue inside such a group.  What the   *)
(* kernel does then is undefined, so the model stops there with the fault  *)
(* on record.                                                              *)
(***************************************************************************)
UsesFreedContainer(t) ==
    /\ pc[t] \in {"open", "open_ret", "unclaim"}
    /\ ec[t] \notin working[cur[t]]

UsesFreedGroup(t) ==
    \/ /\ pc[t] \in {"ge_wait", "ge_sleep", "ge_check", "ge_claim", "open_ret",
                     "unclaim", "unclaim_wake", "re_release", "poll_check"}
       /\ grp[cur[t]].state = "freed"
    \/ /\ pc[t] = "poll_free"
       /\ grp[pollq[t]].state = "freed"

UseAfterFree(t) ==
    /\ \/ UsesFreedContainer(t) /\ fault' = "freed_container"
       \/ UsesFreedGroup(t) /\ fault' = "freed_group"
    /\ UNCHANGED <<shared, pc, locals, user, vote>>

\* the steps of a thread inside the module
KernelStep(t) == CheckAccessStep(t) \/ GroupDevStep(t) \/ GroupCtrlStep(t)

\* the calls that a process decides to make
CallStep(t) == (t \in Readers /\ UserStep(t)) \/ (t \in Ctrls /\ CommandStep(t))

ThreadStep(t) ==
    /\ fault = "none"
    /\ ~UsesFreedContainer(t) /\ ~UsesFreedGroup(t)
    /\ KernelStep(t) \/ CallStep(t)

FaultStep(t) == fault = "none" /\ UseAfterFree(t)

Next == \E t \in Threads : ThreadStep(t) \/ FaultStep(t)

Spec == Init /\ [][Next]_vars
-----------------------------------------------------------------------------
(***************************************************************************)
(* The variables have their types; in particular what a reader is given is *)
(* always the id of an event and never the cleared pointer.                *)
(***************************************************************************)
TypeOK ==
    /\ writer \subseteq Threads /\ readers \subseteq Threads
    /\ removing \in Groups \cup {NoGroup}
    /\ group_count \in Int
    /\ grp \in [Groups -> Group]
    /\ todo \in [Groups -> Seq(Events)]
    /\ working \in [Groups -> SUBSET Events]
    /\ last_event_id \in 0 .. MaxEvents
    /\ evt \in [Events -> Event]
    /\ masked \subseteq Threads
    /\ pc \in [Threads -> PCs]
    /\ cur \in [Threads -> Groups \cup {NoGroup}]
    /\ ec \in [Threads -> Events \cup {NoEvent}]
    /\ mine \in [Threads -> Events \cup {NoEvent}]
    /\ cnt \in [Threads -> Int]
    /\ cmd \in [Threads -> {NoCmd} \cup (Names \X BOOLEAN)]
    /\ ans \in [Threads -> Answers]
    /\ pollq \in [Threads -> Groups \cup {NoGroup}]
    /\ file \in [Readers -> File]
    /\ hand \in [Readers -> SUBSET (Nat \X Events)]
    /\ vote \in [Events -> [Groups -> Votes]]
    /\ fault \in Faults
-----------------------------------------------------------------------------
(***************************************************************************)
(* Events, their containers and their counts.                              *)
(***************************************************************************)

\* the threads that carry the answer of group g to event e
Releasing(e, g) ==
    {t \in Threads : pc[t] = "re_release" /\ cur[t] = g /\ ec[t] = e}

Pending(e) == {g \in Groups : vote[e][g] = "pending"}

(***************************************************************************)
(* The counter an anonymous process waits for agrees with the lists: it is *)
(* the number of groups that still owe an answer, and a group owes one     *)
(* exactly while the event is on its todo or working list or a writer has  *)
(* taken it off to release it (event.c, "An assigned event means that it   *)
(* is sitting on the todo or working list of a group").                    *)
(***************************************************************************)
EventAccounting ==
    \A e \in Events :
        /\ evt[e].assigned = Cardinality(Pending(e))
        /\ \A g \in Groups :
              g \in Pending(e) <=> e \in Contained(g) \/ Releasing(e, g) # {}

(***************************************************************************)
(* A container is in one place: claim_event(), unclaim_event() and         *)
(* dazukofs_return_event() never leave it on both lists, twice on one list *)
(* or on a list while somebody releases it.                                *)
(***************************************************************************)
HeldOnce ==
    \A g \in Groups, e \in Events :
        Cardinality({i \in DOMAIN todo[g] : todo[g][i] = e})
          + Cardinality({e} \cap working[g]) + Cardinality(Releasing(e, g)) <= 1

(***************************************************************************)
(* release_event() frees an event exactly when nobody has it any more: an  *)
(* event a group holds is alive, and it lives as long as the one process   *)
(* that waits for it.                                                      *)
(***************************************************************************)
EventsAlive ==
    \A e \in Events :
        /\ Pending(e) # {} => evt[e].state = "live"
        /\ evt[e].state = "live" <=> \E t \in Threads : mine[t] = e
        /\ \A t, u \in Threads : mine[t] = e /\ mine[u] = e => t = u

(***************************************************************************)
(* The verdict dazukofs_check_access() returns: all groups that were asked *)
(* have answered or are deleted, and it is a denial exactly if one denied. *)
(***************************************************************************)
VerdictSound ==
    \A t \in Threads : pc[t] = "ev_release" =>
        /\ Pending(mine[t]) = {}
        /\ ans[t] = "deny" <=> \E g \in Groups : vote[mine[t]][g] = "deny"

(***************************************************************************)
(* Nobody sleeps on: an anonymous process whose event is settled, a reader *)
(* whose group has an event or is deleted, a poller whose group has an     *)
(* event, is awake or about to be woken by a thread between its unlock and *)
(* its wake_up().                                                          *)
(***************************************************************************)
WakeUpDue(g) == \/ removing = g
                \/ \E u \in Threads : pc[u] = "unclaim_wake" /\ cur[u] = g

NoLostWakeup ==
    \A t \in Threads :
        /\ pc[t] = "ev_sleep" => Pending(mine[t]) # {}
        /\ pc[t] = "ge_sleep" /\ EventOrEnd(cur[t]) => WakeUpDue(cur[t])
        /\ pc[t] = "poll_sleep" /\ todo[pollq[t]] # <<>> => WakeUpDue(pollq[t])

\* a poller sleeps on although its group has an event or is deleted
SleepsOn(t) ==
    /\ pc[t] = "poll_sleep"
    /\ EventOrEnd(pollq[t])
    /\ ~WakeUpDue(pollq[t])

(***************************************************************************)
(* Whatever happens to a group while a poller sleeps on its poll_queue, an *)
(* event or the end of the group, wakes the poller or is about to.         *)
(***************************************************************************)
PollersTold ==
    [][\A t \in Threads : pc[t] = "poll_sleep" /\ SleepsOn(t)' => SleepsOn(t)]_vars

(***************************************************************************)
(* README: "When a group is deleted, any processes registered with that    *)
(* group will be interrupted": no poller sleeps on the queue of a deleted  *)
(* group.  Not an invariant of this code: dazukofs_poll() gives work_mutex *)
(* back between the lookup and poll_wait(), and looks at the list only, so *)
(* a poller may go to sleep there after the wake-up of the removal.        *)
(***************************************************************************)
PollersInterrupted == \A t \in Threads : ~SleepsOn(t)

(***************************************************************************)
(* Opening the file for the registered process raises no event of its own, *)
(* and the mask never outlives that one open: a process is on proc_list    *)
(* only between mask_proc() and the check_recursion() in open_file().      *)
(***************************************************************************)
NoRecursion ==
    /\ \A t \in Threads : cur[t] # NoGroup => pc[t] \notin {"allocate", "assign"}
    /\ \A t \in masked : pc[t] \in {"dentry_open", "precheck", "open_ret"}
-----------------------------------------------------------------------------
(***************************************************************************)
(* Groups.                                                                 *)
(***************************************************************************)

\* the thread that has linked a group and not counted it yet
BeingCounted == {t \in Threads : pc[t] \in {"add_load", "add_store"}}

(***************************************************************************)
(* group_count is the number of groups that are not deprecated, except     *)
(* between list_add_tail() and group_count++ and inside __remove_group()   *)
(* (event.c: group_count_sem "protects: group_list, group_count").         *)
(***************************************************************************)
GroupCountExact ==
    group_count = Cardinality(Active) - Cardinality(BeingCounted)
                    + (IF removing = NoGroup THEN 0 ELSE 1)

(***************************************************************************)
(* assign_event_to_groups() has exactly one container for every group: it  *)
(* neither runs off ec_array nor leaves a container that nobody frees.     *)
(***************************************************************************)
EnoughContainers ==
    \A t \in Threads : pc[t] = "assign" => cnt[t] = Cardinality(Active)

(***************************************************************************)
(* Two groups never share a name or an id, and every id has its device.    *)
(***************************************************************************)
GroupsDistinct ==
    \A g, h \in Active :
        /\ grp[g].id < GROUP_COUNT
        /\ g # h => grp[g].id # grp[h].id /\ grp[g].name # grp[h].name

\* the open devices that count as a use of group g
TrackedFiles(g) == {r \in Readers : file[r].tracked /\ file[r].grp = g}

(***************************************************************************)
(* use_count is the number of threads inside a call on the group and of    *)
(* devices tracked for it, so that __check_for_group() frees a deprecated  *)
(* group only when no thread can come back to it.                          *)
(***************************************************************************)
UseCountExact ==
    \A g \in Groups :
        grp[g].use_count = Cardinality({t \in Threads : cur[t] = g})
                             + Cardinality(TrackedFiles(g))

(***************************************************************************)
(* After __remove_group() no event is left on a group, whatever readers    *)
(* were doing with it.                                                     *)
(***************************************************************************)
RemovedGroupsEmpty ==
    \A g \in Groups : grp[g].state # "active" /\ g # removing => Contained(g) = {}

(***************************************************************************)
(* README: "Once all processes of the group have unregistered, DazukoFS    *)
(* will automatically delete the group": a group deleted by                *)
(* dazukofs_group_release_tracking() has no process left that registered   *)
(* with it.                                                                *)
(***************************************************************************)
DeletedOnlyWhenEmpty ==
    [][\A g \in Groups :
         removing # g /\ removing' = g => \A r \in Readers : file'[r].grp # g]_vars

(***************************************************************************)
(* event.c: "Deprecated group structures are deleted as new groups are     *)
(* added", and only those nobody uses: no thread comes back to one.        *)
(***************************************************************************)
GroupsProtected == fault # "freed_group"
-----------------------------------------------------------------------------
(***************************************************************************)
(* The abstract specification.                                             *)
(***************************************************************************)
askedBar   == [t \in Threads |-> IF mine[t] = NoEvent THEN NoVotes
                                 ELSE vote[mine[t]]]
verdictBar == [t \in Threads |-> IF pc[t] = "ev_release" THEN ans[t] ELSE "none"]

AC == INSTANCE AccessControl WITH Process <- Threads, Group <- Groups,
                                  asked <- askedBar, verdict <- verdictBar

(***************************************************************************)
(* The event subsystem implements AccessControl: an access is put before   *)
(* the groups at once, a group answers at most once, a deleted group       *)
(* counts as no objection and the verdict comes last.                      *)
(***************************************************************************)
ImplementsAccessControl == AC!ASpec
-----------------------------------------------------------------------------
(***************************************************************************)
(* Liveness.  The kernel runs every thread that can run; no signal or      *)
(* timeout is bound to come to one that sleeps.  An rwsem queues           *)
(* its waiters, so whoever waits for group_count_sem gets it.  A process   *)
(* with a device open goes on reading, and answering what it has read, or  *)
(* quits; nobody is obliged to open a file, a device or to give commands.  *)
(***************************************************************************)
ServesOrQuits(t) ==
    /\ file[t] # Closed
    /\ \/ GetEvent(t) \/ CloseUntracked(t) \/ CloseTracked(t)
       \/ /\ \E u \in Readers, e \in Events, v \in Answers : ReturnEvent(t, u, e, v)
          /\ hand' # hand

Fairness ==
    \A t \in Threads :
        /\ WF_vars(/\ pc[t] \notin {"idle", "ge_sleep", "poll_sleep"}
                   /\ ThreadStep(t) \/ FaultStep(t))
        /\ SF_vars(pc[t] = "dentry_open" /\ ThreadStep(t))
        /\ t \in Readers => WF_vars(pc[t] = "idle" /\ ThreadStep(t) /\ ServesOrQuits(t))

FairSpec == Spec /\ Fairness

\* every active group has a process on its device
Served == \A g \in Active : \E r \in Readers : file[r].gid = grp[g].id

(***************************************************************************)
(* No access hangs: as long as every group keeps a process on its device,  *)
(* the wait in dazukofs_check_access(), which no signal ends, comes to its *)
(* end, unless memory is used after it was freed.                          *)
(***************************************************************************)
EveryAccessReturns ==
    <>[]Served => \A t \in Accessors :
                    pc[t] # "idle" ~> pc[t] = "idle" \/ fault # "none"

(***************************************************************************)
(* __remove_group(), "Any processes waiting on the queue are woken": a     *)
(* thread inside a call on a deleted group comes out of it, unless memory  *)
(* is used after it was freed.                                             *)
(***************************************************************************)
RemovedGroupsLeft ==
    \A t \in Readers, g \in Groups :
        cur[t] = g /\ grp[g].state = "deprecated" ~> cur[t] # g \/ fault # "none"
=============================================================================
