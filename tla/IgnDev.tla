------------------------------- MODULE IgnDev -------------------------------
(***************************************************************************)
(* The ignore device /dev/dazukofs.ign (ign_dev.c).  An open file of it    *)
(* has an entry on ign_list; a process with an entry raises no events.     *)
(* The entries come from a cache, so the address of a freed one is handed  *)
(* out again.                                                              *)
(***************************************************************************)
EXTENDS Naturals, Sequences, FiniteSets, SequencesExt

CONSTANTS
    Procs,       \* processes (struct pid)
    Files,       \* open files of the device
    Slots,       \* bound: entries the cache has at the same time
    OpenTwice,   \* may a process have the device open more than once?
    NoProc, NoSlot

ASSUME IgnAssumption ==
    /\ OpenTwice \in BOOLEAN
    /\ NoProc \notin Procs
    /\ NoSlot \notin Slots

VARIABLES
    ign_list,    \* the entries, first one first
    proc_id,     \* proc_id[s]: whose entry s is, NoProc if s is free
    opener,      \* who opened the file, NoProc if it is closed
    private_data \* the entry the file points to, NoSlot if it has none

ignVars == <<ign_list, proc_id, opener, private_data>>

IgnInit ==
    /\ ign_list = <<>>
    /\ proc_id = [s \in Slots |-> NoProc]
    /\ opener = [f \in Files |-> NoProc]
    /\ private_data = [f \in Files |-> NoSlot]

\* dazukofs_check_ignore_process() for process p
Hidden(p) == \E s \in Range(ign_list) : proc_id[s] = p

\* dazukofs_ign_open(): dazukofs_add_ign()
IgnOpen(p, f, s) ==
    /\ opener[f] = NoProc
    /\ OpenTwice \/ \A h \in Files : opener[h] # p
    /\ proc_id[s] = NoProc
    /\ opener' = [opener EXCEPT ![f] = p]
    /\ private_data' = [private_data EXCEPT ![f] = s]
    /\ proc_id' = [proc_id EXCEPT ![s] = p]
    /\ ign_list' = <<s>> \o ign_list

(***************************************************************************)
(* What check_proc->proc_id reads.  An entry that has been freed and not   *)
(* handed out again still holds some process, or none.                     *)
(***************************************************************************)
ReadsPid(s) == IF proc_id[s] # NoProc THEN {proc_id[s]} ELSE Procs \cup {NoProc}

\* the positions of the entries of process q
Matches(q) == {i \in DOMAIN ign_list : proc_id[ign_list[i]] = q}

\* Mutant of Unlink: nothing is done.
Unlink_Nothing(f, q) == UNCHANGED <<ign_list, proc_id, private_data>>

\* the loop of dazukofs_remove_ign(): the first entry of q goes, and is freed
Unlink(f, q) ==
    IF Matches(q) = {}
    THEN UNCHANGED <<ign_list, proc_id, private_data>>
    ELSE LET i == CHOOSE j \in Matches(q) : \A k \in Matches(q) : j <= k IN
         /\ ign_list' = RemoveAt(ign_list, i)
         /\ proc_id' = [proc_id EXCEPT ![ign_list[i]] = NoProc]
         /\ private_data' = [private_data EXCEPT ![f] = NoSlot]

\* dazukofs_ign_release(): dazukofs_remove_ign()
IgnRelease(f) ==
    /\ opener[f] # NoProc
    /\ opener' = [opener EXCEPT ![f] = NoProc]
    /\ \E q \in ReadsPid(private_data[f]) : Unlink(f, q)

IgnNext ==
    \/ \E p \in Procs, f \in Files, s \in Slots : IgnOpen(p, f, s)
    \/ \E f \in Files : IgnRelease(f)

IgnSpec == IgnInit /\ [][IgnNext]_ignVars
-----------------------------------------------------------------------------
(***************************************************************************)
(* README: "By opening the /dev/dazukofs.ign device, a process will be     *)
(* ignored by DazukoFS", "As soon as the /dev/dazukofs.ign device is       *)
(* closed, the process is no longer hidden": dazukofs_check_ignore_process *)
(* finds exactly the processes that have the device open.                  *)
(***************************************************************************)
HiddenIffOpen ==
    \A p \in Procs : Hidden(p) <=> \E f \in Files : opener[f] = p

(***************************************************************************)
(* dazukofs_remove_ign() looks an entry up by its process and not by its   *)
(* address, yet every open file keeps an entry of its own that is          *)
(* allocated, on the list once and its opener's, and nothing else is on    *)
(* the list.                                                               *)
(***************************************************************************)
EntriesOwned ==
    /\ \A f \in Files : opener[f] # NoProc =>
          /\ private_data[f] \in Slots
          /\ proc_id[private_data[f]] = opener[f]
          /\ \A h \in Files : opener[h] # NoProc /\ h # f =>
                private_data[h] # private_data[f]
          /\ \E i \in DOMAIN ign_list : ign_list[i] = private_data[f]
    /\ \A i, j \in DOMAIN ign_list : ign_list[i] = ign_list[j] => i = j
    /\ \A i \in DOMAIN ign_list : \E f \in Files :
          opener[f] # NoProc /\ ign_list[i] = private_data[f]

\* The variables of ign_dev.c have their types.
IgnTypeOK ==
    /\ ign_list \in Seq(Slots)
    /\ proc_id \in [Slots -> Procs \cup {NoProc}]
    /\ opener \in [Files -> Procs \cup {NoProc}]
    /\ private_data \in [Files -> Slots \cup {NoSlot}]
=============================================================================
