----------------------------- MODULE EventState -----------------------------
(***************************************************************************)
(* The data structures of event.c, and the helpers every actor uses on     *)
(* them: the group list, the events and their containers, the threads that *)
(* run inside the module, the locks and the wait queues.                   *)
(*                                                                         *)
(* A thread is a process inside one call of the module: pc is the point    *)
(* it has reached, the other per-thread variables are its C locals.  One   *)
(* action is one critical section of work_mutex or one unlocked access to  *)
(* shared state.  The only section of work_mutex that takes two actions is *)
(* the removal of a group by dazukofs_group_release_tracking(), because    *)
(* it changes group_count without group_count_sem; `removing' is the group *)
(* it is working on, and no other section can start before it ends.        *)
(***************************************************************************)
EXTENDS Integers, Sequences, FiniteSets, Functions

CONSTANTS
    Accessors,    \* processes that open files on a DazukoFS mount
    Readers,      \* processes that open the group devices
    Pollers,      \* the readers that also poll(2)
    Ctrls,        \* processes that write to the control device
    Ignored,      \* processes that hold the ignore device open
    Names,        \* group names
    Commands,     \* the commands the control processes use: "add", "del"
    TrackFlags,   \* the track argument: {FALSE} add=, {TRUE} addtrack=
    Env,          \* what the environment may do; see EnvChoices
    GROUP_COUNT,  \* number of group devices (dev.h)
    MaxGroups,    \* bound: group structures ever allocated
    MaxEvents     \* bound: events ever assigned

Threads == Accessors \cup Readers \cup Ctrls

(***************************************************************************)
(* enomem: an allocation fails; nofd: no free descriptor; eopen: the file  *)
(* cannot be opened for the registered process; efault: the read buffer is *)
(* bad; signal: a signal or timeout ends a wait; dup: an answer is written *)
(* twice; readahead: a process reads again before it has answered; quit: a *)
(* process closes its device, by itself or because it died; preopen: a     *)
(* device is opened while no group has its id; guess: an answer has the id *)
(* of an event that nobody was given.                                      *)
(***************************************************************************)
EnvChoices == {"enomem", "nofd", "eopen", "efault", "signal", "dup",
               "readahead", "quit", "preopen", "guess"}

ASSUME ThreadsAssumption ==
    /\ IsFiniteSet(Threads)
    /\ Pollers \subseteq Readers

ASSUME BoundsAssumption ==
    /\ GROUP_COUNT \in Nat \ {0}
    /\ MaxGroups \in Nat
    /\ MaxEvents \in Nat

ASSUME InputsAssumption ==
    /\ Commands \subseteq {"add", "del"}
    /\ TrackFlags \subseteq BOOLEAN
    /\ Env \subseteq EnvChoices

VARIABLES
    \* shared state of event.c
    writer, readers,   \* group_count_sem: who holds it for writing, for reading
    removing,          \* the group __remove_group() is working on, or NoGroup
    group_count,
    grp,               \* struct dazukofs_group, by address
    todo, working,     \* the two event lists of a group
    last_event_id,
    evt,               \* struct dazukofs_event, by event id
    masked,            \* proc_list
    \* the C locals of the threads
    pc,
    cur,               \* grp, with a use_count reference on it
    ec,                \* ec, named by the event it contains
    mine,              \* evt of dazukofs_check_access()
    cnt,               \* a value of group_count, or the id a new group gets
    cmd,               \* the arguments of dazukofs_add_group() and _remove_group()
    ans,               \* the answer that is being passed on
    pollq,             \* the group whose poll_queue the thread is on
    \* user space
    file,              \* the open group device of a reader
    hand,              \* what a reader has been given and not answered: the
                       \* device and the event id it read there
    \* history
    vote,              \* what became of an event in each group
    fault              \* the first use of memory that is not there any more

shared  == <<writer, readers, removing, group_count, grp, todo, working,
             last_event_id, evt, masked>>
locals  == <<cur, ec, mine, cnt, cmd, ans, pollq>>
user    == <<file, hand>>
history == <<vote, fault>>
vars    == <<shared, pc, locals, user, history>>
-----------------------------------------------------------------------------
(***************************************************************************)
(* Types.  Groups and events are numbered in the order of allocation and   *)
(* list_add_tail() is the only way into group_list, so group_list is the   *)
(* set of active and deprecated groups in numerical order.                 *)
(***************************************************************************)
Groups  == 1 .. MaxGroups
Events  == 1 .. MaxEvents
NoGroup == 0
NoEvent == 0
NoCmd   == <<>>
NoName  == <<>>

GroupStates == {"none", "active", "deprecated", "freed"}
EventStates == {"none", "live", "freed"}
Votes       == {"none", "pending", "allow", "deny", "gone"}
Answers     == {"none", "allow", "deny"}
Faults      == {"none", "freed_container", "freed_group", "missing_container"}

Group == [state : GroupStates, name : Names \cup {NoName}, id : Nat,
          tracking : BOOLEAN, track_count : Int, use_count : Int]
Event == [state : EventStates, assigned : Int, deny : BOOLEAN,
          deprecated : BOOLEAN]
File  == [gid : {-1} \cup Nat, tracked : BOOLEAN, grp : Groups \cup {NoGroup}]

NullGroup(s) == [state |-> s, name |-> NoName, id |-> 0, tracking |-> FALSE,
                 track_count |-> 0, use_count |-> 0]
NullEvent(s) == [state |-> s, assigned |-> 0, deny |-> FALSE,
                 deprecated |-> FALSE]
Closed       == [gid |-> -1, tracked |-> FALSE, grp |-> NoGroup]
NoVotes      == [g \in Groups |-> "none"]

CheckAccessPCs == {"precheck", "allocate", "assign", "ev_wait", "ev_sleep",
                   "ev_release"}
OpenFilePCs    == {"open", "dentry_open", "open_ret"}
GetEventPCs    == {"ge_wait", "ge_sleep", "ge_check", "ge_claim", "unclaim",
                   "unclaim_wake", "copy"}
ReturnEventPCs == {"re_release"}
PollPCs        == {"poll_lookup", "poll_check", "poll_sleep", "poll_free"}
TrackingPCs    == {"rt_store"}
CtrlPCs        == {"add_check", "add_room", "add_link", "add_load",
                   "add_store", "del"}
PCs == {"idle"} \cup CheckAccessPCs \cup OpenFilePCs \cup GetEventPCs
         \cup ReturnEventPCs \cup PollPCs \cup TrackingPCs \cup CtrlPCs
-----------------------------------------------------------------------------
(***************************************************************************)
(* Locks.                                                                  *)
(***************************************************************************)
WorkMutexFree == removing = NoGroup

Goto(t, l) == pc' = [pc EXCEPT ![t] = l]

(***************************************************************************)
(* The group list.                                                         *)
(***************************************************************************)
Active == {g \in Groups : grp[g].state = "active"}

Least(S) == CHOOSE n \in S : \A m \in S : n <= m

FirstOf(S) == IF S = {} THEN NoGroup ELSE Least(S)

\* the search for a group by its id that five functions of event.c share
LookupGroup(id) == FirstOf({g \in Active : grp[g].id = id})

\* the containers on the lists of a group, each named by its event
Contained(g) == Range(todo[g]) \cup working[g]

get_group(g) == grp' = [grp EXCEPT ![g].use_count = @ + 1]
put_group(g) == grp' = [grp EXCEPT ![g].use_count = @ - 1]

(***************************************************************************)
(* Wait queues.  wait_event() queues the thread before it tests the        *)
(* condition, so "test and sleep" is one step of the sleeper; the waits    *)
(* are not exclusive, so a wake-up wakes every sleeper.  These operators   *)
(* give the value of pc after the wake-up.                                 *)
(***************************************************************************)

\* Mutant of wake_up_group: poll_queue is forgotten.
wake_up_group_NoPollers(p, G) ==
    [u \in Threads |->
        IF p[u] = "ge_sleep" /\ cur[u] \in G THEN "ge_wait" ELSE p[u]]

wake_up_group(p, G) ==
    [u \in Threads |->
        IF p[u] = "ge_sleep" /\ cur[u] \in G THEN "ge_wait"
        ELSE IF p[u] = "poll_sleep" /\ pollq[u] \in G THEN "poll_lookup"
        ELSE p[u]]

\* Mutant of wake_up_event: nobody is woken.
wake_up_event_Forgotten(p, E) == [u \in Threads |-> p[u]]

wake_up_event(p, E) ==
    [u \in Threads |->
        IF p[u] = "ev_sleep" /\ mine[u] \in E THEN "ev_wait" ELSE p[u]]

(***************************************************************************)
(* release_event(evt, 1, deny) on every event of S on behalf of group g,   *)
(* whose last word on them is v.  The last holder wakes the anonymous      *)
(* process or, if that one has left already, frees the event.              *)
(***************************************************************************)
LastHeld(S) == {e \in S : evt[e].assigned = 1}

\* Mutants of release_event: the last answer replaces the earlier ones; all
\* that is no ALLOW is a denial; a denial returns before the decrement.
Released(S, g, v, deny(_), dec) ==
    /\ evt' = [e \in Events |->
                 IF e \notin S THEN evt[e]
                 ELSE IF e \in LastHeld(S) /\ evt[e].deprecated
                 THEN NullEvent("freed")
                 ELSE [evt[e] EXCEPT !.assigned = @ - dec, !.deny = deny(@)]]
    /\ vote' = [e \in Events |->
                 IF e \notin S THEN vote[e] ELSE [vote[e] EXCEPT ![g] = v]]

release_event_LastWins(S, g, v)   == Released(S, g, v, LAMBDA d : v = "deny", 1)
release_event_GoneDenies(S, g, v) == Released(S, g, v, LAMBDA d : d \/ v # "allow", 1)
release_event_DenyReturns(S, g, v) ==
    Released(S, g, v, LAMBDA d : d \/ v = "deny", IF v = "deny" THEN 0 ELSE 1)

release_event(S, g, v) ==
    /\ evt' = [e \in Events |->
                 IF e \notin S THEN evt[e]
                 ELSE IF e \in LastHeld(S) /\ evt[e].deprecated
                 THEN NullEvent("freed")
                 ELSE [evt[e] EXCEPT !.assigned = @ - 1,
                                     !.deny = @ \/ v = "deny"]]
    /\ vote' = [e \in Events |->
                 IF e \notin S THEN vote[e] ELSE [vote[e] EXCEPT ![g] = v]]

\* the anonymous processes that release_event() wakes
Woken(S) == {e \in LastHeld(S) : ~evt[e].deprecated}

(***************************************************************************)
(* The end of __remove_group(): __clear_group_event_list() on both lists.  *)
(***************************************************************************)
\* Mutants of ClearGroup: the working list is forgotten; the containers are
\* freed and the events not released.
ClearGroup_TodoOnly(g) ==
    /\ release_event(Range(todo[g]), g, "gone")
    /\ todo' = [todo EXCEPT ![g] = <<>>]
    /\ UNCHANGED working

ClearGroup_NoRelease(g) ==
    /\ todo' = [todo EXCEPT ![g] = <<>>]
    /\ working' = [working EXCEPT ![g] = {}]
    /\ UNCHANGED <<evt, vote>>

ClearGroup(g) ==
    /\ release_event(Contained(g), g, "gone")
    /\ todo' = [todo EXCEPT ![g] = <<>>]
    /\ working' = [working EXCEPT ![g] = {}]

\* Mutant of WakeCleared: the readers of the group are not woken.
WakeCleared_EventsOnly(p, g) == wake_up_event(p, Woken(Contained(g)))

\* pc after ClearGroup and the two wake_up_all() that follow it
WakeCleared(p, g) ==
    wake_up_group(wake_up_event(p, Woken(Contained(g))), {g})
=============================================================================
