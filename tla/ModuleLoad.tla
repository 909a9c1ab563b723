----------------------------- MODULE ModuleLoad -----------------------------
(***************************************************************************)
(* Loading and unloading of the kernel module: init_dazukofs_fs() and      *)
(* exit_dazukofs_fs() (super.c), dazukofs_dev_init() (dev.c) and the init  *)
(* and destroy functions of the devices and of event.c.  Every step of the *)
(* load may fail and is then undone by a chain of error labels.  The       *)
(* devices work from the moment they are there, so processes use them      *)
(* while the load goes on.                                                 *)
(***************************************************************************)
EXTENDS Integers, Sequences, SequencesExt

CONSTANTS
    Procs,        \* processes that use the module
    FailsInUse,   \* may a step of the load fail while a device is open?
    GROUP_COUNT   \* number of group devices (dev.h)

ASSUME LoadAssumption == FailsInUse \in BOOLEAN /\ GROUP_COUNT \in Nat

\* what the load acquires
Res(n)         == <<n, 0>>
GroupCache     == Res("group_cache")
ContainerCache == Res("container_cache")
EventCache     == Res("event_cache")
Region         == Res("chrdev_region")
Class          == Res("class")
CtrlCdev       == Res("ctrl_cdev")
CtrlDevice     == Res("ctrl_device")
IgnCache       == Res("ign_cache")
IgnCdev        == Res("ign_cdev")
IgnDevice      == Res("ign_device")
InodeCache     == Res("inode_info_cache")
SbCache        == Res("sb_info_cache")
DentryCache    == Res("dentry_info_cache")
FileCache      == Res("file_info_cache")
Filesystem     == Res("filesystem")
\* what the processes add to it
GroupList      == Res("group_list")
IgnList        == Res("ign_list")

Minors       == 0 .. GROUP_COUNT - 1
GroupCdevs   == [i \in 1 .. GROUP_COUNT |-> <<"group_cdev", i - 1>>]
GroupDevices == [i \in 1 .. GROUP_COUNT |-> <<"group_device", i - 1>>]

VARIABLES
    phase,    \* absent, loading, live, or undoing; "exit" while unloading
    next,     \* loading: the position in LoadSteps
    undo,     \* undoing, exit: what is still to be released
    held,     \* what exists at the moment
    uses      \* uses[p]: the device p has open, Filesystem for a mount

loadVars == <<phase, next, undo, held, uses>>

Nothing == Res("nothing")
-----------------------------------------------------------------------------
(***************************************************************************)
(* The load, in the order of the calls.                                    *)
(***************************************************************************)
InitEvents == <<GroupCache, ContainerCache, EventCache>>
CtrlInit   == <<CtrlCdev, CtrlDevice>>
IgnInit    == <<IgnCache, IgnCdev, IgnDevice>>

\* Mutant of GroupInit: the nodes come before the cdevs behind them.
GroupInit_NodesFirst == GroupDevices \o GroupCdevs

GroupInit  == GroupCdevs \o GroupDevices
InitCaches == <<InodeCache, SbCache, DentryCache, FileCache>>

\* Mutant of LoadSteps: the event subsystem comes last.
LoadSteps_EventsLast ==
    <<Region, Class>> \o CtrlInit \o IgnInit \o GroupInit \o InitEvents
      \o InitCaches \o <<Filesystem>>

LoadSteps == InitEvents \o <<Region, Class>> \o CtrlInit \o IgnInit
               \o GroupInit \o InitCaches \o <<Filesystem>>

(***************************************************************************)
(* The destroy functions.                                                  *)
(***************************************************************************)
DestroyEvents == <<GroupList, GroupCache, ContainerCache, EventCache>>
CtrlDestroy   == <<CtrlDevice, CtrlCdev>>
IgnDestroy    == <<IgnDevice, IgnCdev, IgnList, IgnCache>>

GroupDestroy  == GroupDevices \o GroupCdevs

\* if (cachep) kmem_cache_destroy(cachep)
IfMade(r)     == IF r \in held THEN <<r>> ELSE <<>>

\* error_out of dazukofs_init_events(), and destroy_caches()
EventsUndo    == IfMade(GroupCache) \o IfMade(ContainerCache) \o IfMade(EventCache)
DestroyCaches == IfMade(InodeCache) \o IfMade(SbCache) \o IfMade(DentryCache)
                   \o IfMade(FileCache)

\* the labels of dazukofs_dev_init(), and dazukofs_dev_destroy()
error_out2 == DestroyEvents
error_out3 == <<Region>> \o error_out2
error_out4 == <<Class>> \o error_out3

\* Mutant of error_out5: the labels are in the wrong order.
error_out5_ClassFirst == <<Class>> \o CtrlDestroy \o error_out3

error_out5 == CtrlDestroy \o error_out4
error_out6 == IgnDestroy \o error_out5
DevDestroy == GroupDestroy \o error_out6

\* Mutant of OwnUndo: the cdev that was not added is deleted too.
OwnUndo_OffByOne(r) ==
    IF r \in Range(GroupCdevs) THEN SubSeq(GroupCdevs, 1, r[2] + 1) ELSE <<>>

\* what the function in which r fails releases by itself
OwnUndo(r) ==
    CASE r \in Range(InitEvents)   -> EventsUndo
      [] r = CtrlDevice            -> <<CtrlCdev>>
      [] r = IgnCdev               -> <<IgnList, IgnCache>>
      [] r = IgnDevice             -> <<IgnCdev, IgnList, IgnCache>>
      [] r \in Range(GroupCdevs)   -> SubSeq(GroupCdevs, 1, r[2])
      [] r \in Range(GroupDevices) -> SubSeq(GroupDevices, 1, r[2]) \o GroupCdevs
      [] r \in Range(InitCaches)   -> DestroyCaches
      [] OTHER                     -> <<>>

\* Mutant of CallersUndo: the failed group devices jump one label too far.
CallersUndo_WrongLabel(r) ==
    CASE r = Region              -> error_out2
      [] r = Class               -> error_out3
      [] r \in Range(CtrlInit)   -> error_out4
      [] r \in Range(IgnInit)    -> error_out5
      [] r \in Range(GroupInit)  -> error_out5
      [] r \in Range(InitCaches) -> DevDestroy
      [] r = Filesystem          -> DestroyCaches \o DevDestroy
      [] OTHER                   -> <<>>

\* what its callers release then
CallersUndo(r) ==
    CASE r = Region              -> error_out2
      [] r = Class               -> error_out3
      [] r \in Range(CtrlInit)   -> error_out4
      [] r \in Range(IgnInit)    -> error_out5
      [] r \in Range(GroupInit)  -> error_out6
      [] r \in Range(InitCaches) -> DevDestroy
      [] r = Filesystem          -> DestroyCaches \o DevDestroy
      [] OTHER                   -> <<>>

\* exit_dazukofs_fs()
ExitSteps == <<Filesystem>> \o DestroyCaches \o DevDestroy
-----------------------------------------------------------------------------
LoadInit ==
    /\ phase = "absent"
    /\ next = 1
    /\ undo = <<>>
    /\ held = {}
    /\ uses = [p \in Procs |-> Nothing]

Load ==
    /\ phase = "absent"
    /\ phase' = "loading"
    /\ next' = 1
    /\ UNCHANGED <<undo, held, uses>>

Acquire ==
    /\ phase = "loading"
    /\ held' = held \cup {LoadSteps[next]}
    /\ next' = next + 1
    /\ phase' = IF next = Len(LoadSteps) THEN "live" ELSE "loading"
    /\ UNCHANGED <<undo, uses>>

\* the reference count of the module is zero: .owner = THIS_MODULE
Unused == \A p \in Procs : uses[p] = Nothing

AcquireFails ==
    LET r == LoadSteps[next] IN
    /\ phase = "loading"
    /\ FailsInUse \/ Unused
    /\ undo' = OwnUndo(r) \o CallersUndo(r)
    /\ phase' = "undoing"
    /\ UNCHANGED <<next, held, uses>>

Release ==
    /\ phase \in {"undoing", "exit"}
    /\ undo # <<>>
    /\ held' = held \ {Head(undo)}
    /\ undo' = Tail(undo)
    /\ UNCHANGED <<phase, next, uses>>

Released ==
    /\ phase \in {"undoing", "exit"}
    /\ undo = <<>>
    /\ phase' = "absent"
    /\ UNCHANGED <<next, undo, held, uses>>

\* rmmod
Unload ==
    /\ phase = "live"
    /\ Unused
    /\ phase' = "exit"
    /\ undo' = ExitSteps
    /\ UNCHANGED <<next, held, uses>>
-----------------------------------------------------------------------------
(***************************************************************************)
(* The processes.  A device can be opened from the moment its cdev and its *)
(* node exist, during the load too; only a module on its way out refuses.  *)
(***************************************************************************)
CdevOf == [d \in {CtrlDevice, IgnDevice} \cup Range(GroupDevices) |->
             CASE d = CtrlDevice -> CtrlCdev
               [] d = IgnDevice  -> IgnCdev
               [] OTHER          -> <<"group_cdev", d[2]>>]

OpenDevice(p, d) ==
    /\ uses[p] = Nothing
    /\ phase # "exit"
    /\ FailsInUse \/ phase # "undoing"
    /\ d \in held /\ CdevOf[d] \in held
    /\ uses' = [uses EXCEPT ![p] = d]
    /\ held' = IF d = IgnDevice THEN held \cup {IgnList} ELSE held
    /\ UNCHANGED <<phase, next, undo>>

AddGroup(p) ==
    /\ uses[p] = CtrlDevice
    /\ held' = held \cup {GroupList}
    /\ UNCHANGED <<phase, next, undo, uses>>

Mount(p) ==
    /\ uses[p] = Nothing
    /\ phase = "live"
    /\ uses' = [uses EXCEPT ![p] = Filesystem]
    /\ UNCHANGED <<phase, next, undo, held>>

\* close or unmount
Leave(p) ==
    /\ uses[p] # Nothing
    /\ uses' = [uses EXCEPT ![p] = Nothing]
    /\ held' = IF uses[p] = IgnDevice /\ \A q \in Procs \ {p} : uses[q] # IgnDevice
               THEN held \ {IgnList} ELSE held
    /\ UNCHANGED <<phase, next, undo>>

LoadNext ==
    \/ Load \/ Acquire \/ AcquireFails \/ Release \/ Released \/ Unload
    \/ \E p \in Procs : \/ \E d \in DOMAIN CdevOf : OpenDevice(p, d)
                        \/ AddGroup(p) \/ Mount(p) \/ Leave(p)

LoadSpec == LoadInit /\ [][LoadNext]_loadVars
-----------------------------------------------------------------------------
(***************************************************************************)
(* A load that fails, wherever it fails, and an unload leave nothing       *)
(* behind: every error label of dazukofs_dev_init() and of the functions   *)
(* it calls releases what the steps before it acquired.                    *)
(***************************************************************************)
NothingLeft == phase = "absent" => held = {}

(***************************************************************************)
(* The error paths and the destroy functions release nothing twice and     *)
(* nothing that was never acquired; only the two lists may be empty.       *)
(***************************************************************************)
ReleasesHeld ==
    \A i \in DOMAIN undo :
        /\ undo[i] \notin {GroupList, IgnList} => undo[i] \in held
        /\ \A j \in DOMAIN undo : undo[i] = undo[j] => i = j

(***************************************************************************)
(* The error labels and the unload release exactly what was acquired:      *)
(* nothing is left, nothing is released twice or without being held.       *)
(***************************************************************************)
ReleasesExact == NothingLeft /\ ReleasesHeld

\* what r cannot exist without
Requires(r) ==
    CASE r \in DOMAIN CdevOf -> {Class, Region}
      [] r \in {CtrlCdev, IgnCdev} \cup Range(GroupCdevs) -> {Region}
      [] r = GroupList -> {GroupCache}
      [] r = IgnList   -> {IgnCache}
      [] OTHER         -> {}

(***************************************************************************)
(* Whatever the order of the labels, a device never outlives its class, a  *)
(* cdev its numbers, or an object the cache it was allocated from.         *)
(***************************************************************************)
Nested == \A r \in held : Requires(r) \subseteq held

\* what the handlers of a device, or of a mounted filesystem, work with
WorksWith(d) ==
    CASE d = IgnDevice -> {IgnCache}
      [] d = Filesystem -> Range(InitCaches) \cup Range(InitEvents) \cup {IgnCache}
      [] d = Nothing -> {}
      [] OTHER -> Range(InitEvents)

(***************************************************************************)
(* dazukofs_destroy_events(): "We are not using any locks here because we  *)
(* assume everything else has been already cleaned up by the device        *)
(* layer": what a process has open finds the caches and lists it works on. *)
(***************************************************************************)
UsersServed == \A p \in Procs : WorksWith(uses[p]) \subseteq held

(***************************************************************************)
(* External: the cdev a minor number leads to.  All group cdevs cover      *)
(* GROUP_COUNT minors from their own on, so the ranges overlap, and the    *)
(* kernel takes the one with the highest start.                            *)
(***************************************************************************)
Dispatch(i) ==
    {j \in Minors : /\ j <= i /\ <<"group_cdev", j>> \in held
                    /\ \A k \in j + 1 .. i : <<"group_cdev", k>> \notin held}

(***************************************************************************)
(* /dev/dazukofs.N leads to the handlers of group N whenever it is there,  *)
(* although cdev_add() is given overlapping ranges of minor numbers.       *)
(***************************************************************************)
NodesLeadHome ==
    \A i \in Minors : <<"group_device", i>> \in held => Dispatch(i) = {i}
=============================================================================
