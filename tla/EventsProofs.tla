---------------------------- MODULE EventsProofs ----------------------------
(***************************************************************************)
(* Theorems about Events, for any numbers of processes, groups, events and *)
(* devices.                                                                *)
(***************************************************************************)
EXTENDS Events, FiniteSetTheorems, WellFoundedInduction, TLAPS

(* A set of naturals that is not empty has a least member, the one that Least
   chooses: the first hit of a walk over a list in the order of allocation. *)
LEMMA LeastOfNaturals ==
    ASSUME NEW S, S \subseteq Nat, S # {}
    PROVE  Least(S) \in S /\ \A m \in S : Least(S) <= m
<1> DEFINE R == StrictSubsetOrdering(Nat)
           T == {0 .. n : n \in S}
<1>1. T \subseteq FiniteSubsetsOf(Nat) /\ T # {}
  <2>1. ASSUME NEW n \in S PROVE 0 .. n \in FiniteSubsetsOf(Nat)
    BY FS_Interval DEF FiniteSubsetsOf
  <2> QED BY <2>1
<1>2. PICK I \in T : \A J \in T : <<J, I>> \notin R
  <2> HIDE DEF R, T
  <2>1. IsWellFoundedOn(R, FiniteSubsetsOf(Nat))
    BY FS_StrictSubsetOrderingWellFounded DEF R
  <2> QED BY <1>1, <2>1, WFMin
<1>3. PICK n \in S : I = 0 .. n
  OBVIOUS
<1>4. ASSUME NEW m \in S PROVE n <= m
  <2>1. <<0 .. m, 0 .. n>> \notin R
    BY <1>2, <1>3
  <2>2. CASE m < n
    <3>1. 0 .. m \subseteq 0 .. n /\ 0 .. m # 0 .. n
      BY <2>2
    <3>2. <<0 .. m, 0 .. n>> \in (SUBSET Nat) \X (SUBSET Nat)
      OBVIOUS
    <3> QED BY <2>1, <3>1, <3>2 DEF StrictSubsetOrdering
  <2> QED BY <2>2
<1> QED
  BY <1>3, <1>4 DEF Least

(* FirstOf, the first group of group_list with some property, is a group of
   the set, or NoGroup exactly if the set is empty. *)
LEMMA FirstOfGroups ==
    ASSUME NEW S, S \subseteq Groups
    PROVE  /\ FirstOf(S) \in Groups \cup {NoGroup}
           /\ FirstOf(S) # NoGroup => FirstOf(S) \in S
           /\ FirstOf(S) = NoGroup => S = {}
<1>1. S \subseteq Nat
  BY BoundsAssumption DEF Groups
<1>2. S # {} => Least(S) \in S
  BY <1>1, LeastOfNaturals
<1>3. NoGroup \notin S
  BY DEF NoGroup, Groups
<1> QED
  BY <1>2, <1>3 DEF FirstOf

(* A lookup by id ends at NoGroup or at an active group that has the id. *)
LEMMA LookupType ==
    ASSUME NEW id
    PROVE  /\ LookupGroup(id) \in Groups \cup {NoGroup}
           /\ LookupGroup(id) # NoGroup =>
                 LookupGroup(id) \in Active /\ grp[LookupGroup(id)].id = id
<1>1. {g \in Active : grp[g].id = id} \subseteq Groups
  BY DEF Active
<1> QED
  BY <1>1, FirstOfGroups DEF LookupGroup

(* There are finitely many group structures. *)
LEMMA FiniteGroups ==
    /\ IsFiniteSet(Groups) /\ Cardinality(Groups) = MaxGroups
    /\ \A S \in SUBSET Groups : IsFiniteSet(S) /\ Cardinality(S) \in Nat
<1>1. IsFiniteSet(Groups) /\ Cardinality(Groups) = MaxGroups
  BY FS_Interval, BoundsAssumption DEF Groups
<1>2. ASSUME NEW S \in SUBSET Groups PROVE IsFiniteSet(S) /\ Cardinality(S) \in Nat
  BY <1>1, FS_Subset, FS_CardinalityType
<1> QED BY <1>1, <1>2

(* The id that dazukofs_add_group() settles on is no active group's: of one
   id more than there are groups, one must be free. *)
LEMMA AvailableIdType ==
    ASSUME TypeOK
    PROVE  AvailableId \in Nat /\ \A g \in Active : grp[g].id # AvailableId
<1>1. FreeIds # {}
  <2> SUFFICES ASSUME FreeIds = {} PROVE FALSE
    OBVIOUS
  <2> DEFINE D == 0 .. MaxGroups
             f == [i \in D |-> CHOOSE g \in Active : grp[g].id = i]
  <2>1. \A i \in D : f[i] \in Active /\ grp[f[i]].id = i
    BY DEF FreeIds
  <2>2. f \in Injection(D, Groups)
    <3>1. f \in [D -> Groups]
      BY <2>1 DEF Active
    <3>2. \A i, j \in D : f[i] = f[j] => i = j
      BY <2>1
    <3> HIDE DEF f
    <3> QED BY <3>1, <3>2 DEF Injection, IsInjective
  <2>3. Cardinality(D) <= Cardinality(Groups)
    BY <2>2, FiniteGroups, FS_Injection
  <2>4. Cardinality(D) = MaxGroups + 1
    BY FS_Interval, BoundsAssumption
  <2> QED BY <2>3, <2>4, FiniteGroups, BoundsAssumption
<1>2. FreeIds \subseteq Nat
  BY DEF FreeIds
<1>3. AvailableId \in FreeIds
  BY <1>1, <1>2, LeastOfNaturals DEF AvailableId
<1> QED BY <1>2, <1>3 DEF FreeIds
-----------------------------------------------------------------------------
(***************************************************************************)
(* Type correctness.  TypeOK is not inductive: which of its locals a       *)
(* thread may use depends on where it is.                                  *)
(***************************************************************************)
HasGroup == {"ge_wait", "ge_sleep", "ge_check", "ge_claim", "open",
             "dentry_open", "open_ret", "unclaim", "unclaim_wake",
             "re_release", "poll_check"}
HasContainer == {"open", "dentry_open", "open_ret", "unclaim", "copy",
                 "re_release"}

LocalOK(t) ==
    /\ pc[t] \in HasGroup => cur[t] \in Groups
    /\ pc[t] \in HasContainer => ec[t] \in Events
    /\ cur[t] # NoGroup => pc[t] \in HasGroup \cup CheckAccessPCs
    /\ cur[t] # NoGroup /\ pc[t] \in CheckAccessPCs => ec[t] \in Events
    /\ cur[t] # NoGroup \/ pc[t] = "copy" =>
          t \in Readers /\ file[t].gid \in Nat
    /\ pc[t] \in PollPCs => t \in Readers
    /\ pc[t] \in {"ev_wait", "ev_sleep", "ev_release"} => mine[t] \in Events
    /\ pc[t] \in CtrlPCs => cmd[t] \in Names \X BOOLEAN
    /\ pc[t] \in {"add_room", "add_link"} => cnt[t] \in Nat

TypeInv == TypeOK /\ \A t \in Threads : LocalOK(t)

(* The assignments to the fields of an event keep its type. *)
LEMMA EventTypes ==
    ASSUME NEW st \in EventStates, NEW n \in Int, NEW ev \in Event, NEW b \in BOOLEAN
    PROVE  /\ NullEvent(st) \in Event
           /\ [NullEvent(st) EXCEPT !.assigned = n] \in Event
           /\ [ev EXCEPT !.deprecated = TRUE] \in Event
           /\ [ev EXCEPT !.assigned = n, !.deny = b] \in Event
           /\ ev.assigned \in Int /\ ev.deny \in BOOLEAN
           /\ NoVotes \in [Groups -> Votes]
<1>1. NullEvent(st) \in Event
  BY DEF NullEvent, Event
<1>2. [NullEvent(st) EXCEPT !.assigned = n] \in Event
  BY <1>1 DEF Event
<1>3. [ev EXCEPT !.deprecated = TRUE] \in Event
  BY DEF Event
<1>4. [ev EXCEPT !.assigned = n, !.deny = b] \in Event
  BY DEF Event
<1>5. NoVotes \in [Groups -> Votes]
  BY DEF NoVotes, Votes
<1>6. ev.assigned \in Int /\ ev.deny \in BOOLEAN
  BY DEF Event
<1> QED BY <1>1, <1>2, <1>3, <1>4, <1>5, <1>6

(* release_event() leaves an event an event, and a vote a vote. *)
LEMMA ReleaseTypes ==
    ASSUME TypeOK, NEW S, NEW g, NEW v \in Votes, release_event(S, g, v)
    PROVE  evt' \in [Events -> Event] /\ vote' \in [Events -> [Groups -> Votes]]
<1> DEFINE E(e) == IF e \in LastHeld(S) /\ evt[e].deprecated
                   THEN NullEvent("freed")
                   ELSE [evt[e] EXCEPT !.assigned = @ - 1, !.deny = @ \/ v = "deny"]
<1>1. ASSUME NEW e \in Events PROVE E(e) \in Event /\ evt[e] \in Event
  <2>1. evt[e] \in Event
    BY DEF TypeOK
  <2>2. evt[e].assigned - 1 \in Int
    BY <2>1 DEF Event
  <2>6. (evt[e].deny \/ v = "deny") \in BOOLEAN
    OBVIOUS
  <2>3. "freed" \in EventStates
    BY DEF EventStates
  <2>4. NullEvent("freed") \in Event
    BY <2>3 DEF NullEvent, Event
  <2>5. [evt[e] EXCEPT !.assigned = @ - 1, !.deny = @ \/ v = "deny"] \in Event
    BY <2>1, <2>2, <2>3, <2>6, EventTypes
  <2> QED BY <2>1, <2>4, <2>5
<1>2. evt' = [e \in Events |-> IF e \notin S THEN evt[e] ELSE E(e)]
  BY DEF release_event
<1> HIDE DEF E
<1>3. evt' \in [Events -> Event]
  BY <1>1, <1>2
<1>4. vote' \in [Events -> [Groups -> Votes]]
  BY DEF release_event, TypeOK
<1> QED BY <1>3, <1>4

(* A wake-up moves a sleeper back to the test of its condition and no other
   thread anywhere. *)
LEMMA WakeTypes ==
    ASSUME TypeOK, NEW p \in [Threads -> PCs], NEW X,
           \/ pc' = wake_up_group(p, X)
           \/ pc' = wake_up_event(p, X)
           \/ pc' = WakeCleared(p, X)
    PROVE  /\ pc' \in [Threads -> PCs]
           /\ \A u \in Threads :
                \/ pc'[u] = p[u]
                \/ p[u] = "ge_sleep" /\ pc'[u] = "ge_wait"
                \/ p[u] = "poll_sleep" /\ pc'[u] = "poll_lookup"
                \/ p[u] = "ev_sleep" /\ pc'[u] = "ev_wait"
<1> USE DEF PCs, CheckAccessPCs, GetEventPCs, PollPCs
<1>1. CASE pc' = wake_up_group(p, X)
  BY <1>1 DEF wake_up_group
<1>2. CASE pc' = wake_up_event(p, X)
  BY <1>2 DEF wake_up_event
<1>3. CASE pc' = WakeCleared(p, X)
  BY <1>3 DEF WakeCleared, wake_up_group, wake_up_event
<1> QED BY <1>1, <1>2, <1>3

(* The return from dazukofs_check_access() leads an anonymous process out of
   the module and a registered one back into open_file(). *)
LEMMA ReturnTypes ==
    ASSUME TypeInv, NEW t \in Threads, NEW v \in Answers,
           pc[t] \in CheckAccessPCs, CheckAccessReturns(t, v),
           \A u \in Threads \ {t} : mine'[u] = mine[u],
           UNCHANGED <<cur, ec, cnt, cmd, file>>
    PROVE  /\ pc' \in [Threads -> PCs] /\ ans' \in [Threads -> Answers]
           /\ \A u \in Threads : LocalOK(u)'
<1> USE DEF TypeInv, TypeOK, LocalOK, Goto, CheckAccessReturns
<1> USE DEF HasGroup, HasContainer, PCs, CheckAccessPCs, OpenFilePCs,
            GetEventPCs, ReturnEventPCs, PollPCs, TrackingPCs, CtrlPCs
<1>1. CASE cur[t] = NoGroup
  <2>1. pc' = [pc EXCEPT ![t] = "idle"] /\ ans' = [ans EXCEPT ![t] = "none"]
    BY <1>1
  <2> QED BY <1>1, <2>1 DEF Answers
<1>2. CASE cur[t] # NoGroup
  <2>1. pc' = [pc EXCEPT ![t] = "open_ret"] /\ ans' = [ans EXCEPT ![t] = v]
    BY <1>2
  <2>2. cur[t] \in Groups /\ ec[t] \in Events
    BY <1>2
  <2>3. ASSUME NEW u \in Threads PROVE LocalOK(u)'
    <3>1. CASE u = t
      BY <1>2, <2>1, <2>2, <3>1
    <3>2. CASE u # t
      BY <1>2, <2>1, <2>2, <3>2
    <3> QED BY <3>1, <3>2
  <2> QED BY <2>1, <2>3
<1> QED BY <1>1, <1>2

(* The steps of dazukofs_check_access() preserve TypeInv. *)
LEMMA CheckAccessTypes ==
    ASSUME TypeInv, NEW t \in Threads, CheckAccessStep(t)
    PROVE  TypeInv'
<1> USE DEF TypeInv, TypeOK, LocalOK, Goto, shared, locals, user, history
<1> USE DEF HasGroup, HasContainer, PCs, CheckAccessPCs, OpenFilePCs,
            GetEventPCs, ReturnEventPCs, PollPCs, TrackingPCs, CtrlPCs
<1>1. CASE DownRead(t)
  BY <1>1 DEF DownRead
<1>2. CASE PrecheckPasses(t)
  <2>1. "allow" \in Answers
    BY DEF Answers
  <2>2. /\ pc' \in [Threads -> PCs] /\ ans' \in [Threads -> Answers]
        /\ \A u \in Threads : LocalOK(u)'
    <3> HIDE DEF TypeInv, TypeOK, LocalOK
    <3> QED BY <1>2, <2>1, ReturnTypes DEF PrecheckPasses
  <2>3. TypeOK'
    BY <1>2, <2>2 DEF PrecheckPasses, check_recursion
  <2> QED BY <2>2, <2>3
<1>3. CASE PrecheckHandles(t)
  BY <1>3 DEF PrecheckHandles
<1>4. CASE Allocate(t)
  BY <1>4 DEF Allocate
<1>5. CASE AllocateFails(t)
  <2>1. "deny" \in Answers
    BY DEF Answers
  <2>2. /\ pc' \in [Threads -> PCs] /\ ans' \in [Threads -> Answers]
        /\ \A u \in Threads : LocalOK(u)'
    <3> HIDE DEF TypeInv, TypeOK, LocalOK
    <3> QED BY <1>5, <2>1, ReturnTypes DEF AllocateFails
  <2>3. TypeOK'
    BY <1>5, <2>2 DEF AllocateFails
  <2> QED BY <2>2, <2>3
<1>6. CASE Assign(t)
  <2> DEFINE p == [pc EXCEPT ![t] = "ev_wait"]
  <2>1. /\ p \in [Threads -> PCs]
        /\ \A u \in Threads : u # t => p[u] = pc[u]
        /\ p[t] = "ev_wait"
    OBVIOUS
  <2>2. pc' = wake_up_group(p, Active)
    BY <1>6 DEF Assign
  <2> HIDE DEF p
  <2>3. /\ pc' \in [Threads -> PCs]
        /\ \A u \in Threads :
              \/ pc'[u] = p[u]
              \/ p[u] = "ge_sleep" /\ pc'[u] = "ge_wait"
              \/ p[u] = "poll_sleep" /\ pc'[u] = "poll_lookup"
              \/ p[u] = "ev_sleep" /\ pc'[u] = "ev_wait"
    BY <2>1, <2>2, WakeTypes
  <2>4. last_event_id + 1 \in Events /\ last_event_id + 1 \in 0 .. MaxEvents
    BY <1>6, BoundsAssumption DEF Assign, Events
  <2>8. /\ last_event_id' = last_event_id + 1
        /\ readers' = readers \ {t}
        /\ mine' = [mine EXCEPT ![t] = last_event_id + 1]
        /\ cnt' = [cnt EXCEPT ![t] = 0]
        /\ UNCHANGED <<writer, removing, group_count, grp, working, masked,
                       cur, ec, cmd, ans, pollq, user, fault>>
    BY <1>6 DEF Assign
  <2>5. TypeOK'
    <3>1. evt' \in [Events -> Event]
      <4>1. Cardinality(Active) \in Int
        BY FiniteGroups DEF Active
      <4>2. [NullEvent("live") EXCEPT !.assigned = Cardinality(Active)] \in Event
        BY <4>1 DEF NullEvent, Event, EventStates
      <4> QED BY <1>6, <2>4, <4>2 DEF Assign
    <3>2. todo' \in [Groups -> Seq(Events)]
      <4>1. ASSUME NEW g \in Groups PROVE Append(todo[g], last_event_id + 1) \in Seq(Events)
        BY <2>4
      <4>2. todo' = [g \in Groups |-> IF g \in Active
                                      THEN Append(todo[g], last_event_id + 1)
                                      ELSE todo[g]]
        BY <1>6 DEF Assign
      <4> QED BY <4>1, <4>2
    <3>3. vote' \in [Events -> [Groups -> Votes]]
      BY <1>6 DEF Assign, Votes
    <3> QED BY <2>3, <2>4, <2>8, <3>1, <3>2, <3>3
  <2>6. ASSUME NEW u \in Threads PROVE LocalOK(u)'
    <3>1. pc[t] = "assign"
      BY <1>6 DEF Assign
    <3>2. CASE u = t
      BY <2>1, <2>3, <2>4, <2>8, <3>1, <3>2
    <3>3. CASE u # t
      BY <2>1, <2>3, <2>8, <3>3
    <3> QED BY <3>2, <3>3
  <2> QED BY <2>5, <2>6
<1>7. CASE AssignOverruns(t)
  BY <1>7 DEF AssignOverruns, Faults
<1>8. CASE WaitEvent(t)
  BY <1>8 DEF WaitEvent
<1>9. CASE ReadVerdict(t)
  BY <1>9 DEF ReadVerdict, Answers
<1>10. CASE ReleaseOwn(t)
  <2>1. mine[t] \in Events /\ ans[t] \in Answers
    BY <1>10 DEF ReleaseOwn
  <2>2. evt' \in [Events -> Event] /\ vote' \in [Events -> [Groups -> Votes]]
    <3>1. NullEvent("freed") \in Event /\ NoVotes \in [Groups -> Votes]
      BY DEF NullEvent, Event, EventStates, NoVotes, Votes
    <3>2. [evt[mine[t]] EXCEPT !.deprecated = TRUE] \in Event
      <4>1. evt[mine[t]] \in Event
        BY <2>1
      <4>2. \A ev \in Event : [ev EXCEPT !.deprecated = TRUE] \in Event
        BY DEF Event
      <4> QED BY <4>1, <4>2
    <3>3. \/ /\ evt' = [evt EXCEPT ![mine[t]] = NullEvent("freed")]
             /\ vote' = [vote EXCEPT ![mine[t]] = NoVotes]
          \/ /\ evt' = [evt EXCEPT ![mine[t]] =
                          [evt[mine[t]] EXCEPT !.deprecated = TRUE]]
             /\ vote' = vote
      <4> HIDE DEF TypeInv, TypeOK, LocalOK
      <4> QED BY <1>10 DEF ReleaseOwn, FreeOwn
    <3> DEFINE dep == [evt[mine[t]] EXCEPT !.deprecated = TRUE]
    <3> HIDE DEF dep
    <3>4. dep \in Event
      BY <3>2 DEF dep
    <3>5. \/ /\ evt' = [evt EXCEPT ![mine[t]] = NullEvent("freed")]
             /\ vote' = [vote EXCEPT ![mine[t]] = NoVotes]
          \/ /\ evt' = [evt EXCEPT ![mine[t]] = dep]
             /\ vote' = vote
      BY <3>3 DEF dep
    <3>6. evt \in [Events -> Event] /\ vote \in [Events -> [Groups -> Votes]]
      OBVIOUS
    <3> HIDE DEF TypeInv, TypeOK, LocalOK
    <3> QED BY <2>1, <3>1, <3>4, <3>5, <3>6
  <2>3. /\ pc' \in [Threads -> PCs] /\ ans' \in [Threads -> Answers]
        /\ \A u \in Threads : LocalOK(u)'
    <3> HIDE DEF TypeInv, LocalOK
    <3> QED BY <1>10, <2>1, ReturnTypes DEF ReleaseOwn
  <2>4. TypeOK'
    BY <1>10, <2>2, <2>3 DEF ReleaseOwn
  <2> QED BY <2>3, <2>4
<1> QED
  BY <1>1, <1>2, <1>3, <1>4, <1>5, <1>6, <1>7, <1>8, <1>9, <1>10
     DEF CheckAccessStep

(* The assignments to the fields of a group keep its type. *)
LEMMA GroupTypes ==
    ASSUME NEW gr \in Group, NEW n \in Int, NEW m \in Int
    PROVE  /\ gr.use_count \in Int /\ gr.track_count \in Int
           /\ [gr EXCEPT !.use_count = n] \in Group
           /\ [gr EXCEPT !.use_count = n, !.track_count = m] \in Group
           /\ [gr EXCEPT !.state = "deprecated"] \in Group
  BY DEF Group, GroupStates

(* Taking and dropping a reference keeps the groups' type. *)
LEMMA CountTypes ==
    ASSUME TypeOK, NEW g, get_group(g) \/ put_group(g)
    PROVE  grp' \in [Groups -> Group]
<1>1. grp \in [Groups -> Group]
  BY DEF TypeOK
<1>2. CASE g \in Groups
  <2>1. grp[g] \in Group
    BY <1>1, <1>2
  <2>2. grp[g].use_count + 1 \in Int /\ grp[g].use_count - 1 \in Int
    BY <2>1 DEF Group
  <2>3. /\ [grp[g] EXCEPT !.use_count = @ + 1] \in Group
        /\ [grp[g] EXCEPT !.use_count = @ - 1] \in Group
    BY <2>1, <2>2, GroupTypes
  <2>4. \/ grp' = [grp EXCEPT ![g] = [grp[g] EXCEPT !.use_count = @ + 1]]
        \/ grp' = [grp EXCEPT ![g] = [grp[g] EXCEPT !.use_count = @ - 1]]
    BY DEF get_group, put_group
  <2> QED BY <1>1, <1>2, <2>3, <2>4
<1>3. CASE g \notin Groups
  BY <1>1, <1>3 DEF get_group, put_group
<1> QED BY <1>2, <1>3

(***************************************************************************)
(* A step of another thread leaves the locals of u alone and may wake it.  *)
(***************************************************************************)
Undisturbed(u) ==
    /\ cur'[u] = cur[u] /\ ec'[u] = ec[u] /\ mine'[u] = mine[u]
    /\ cnt'[u] = cnt[u] /\ cmd'[u] = cmd[u]
    /\ ans'[u] = ans[u] /\ pollq'[u] = pollq[u]
    /\ u \in Readers => file'[u] = file[u]
    /\ \/ pc'[u] = pc[u]
       \/ pc[u] = "ge_sleep" /\ pc'[u] = "ge_wait"
       \/ pc[u] = "poll_sleep" /\ pc'[u] = "poll_lookup"
       \/ pc[u] = "ev_sleep" /\ pc'[u] = "ev_wait"

(* A thread that is left alone, or woken, keeps LocalOK. *)
LEMMA UndisturbedLocals ==
    ASSUME NEW u \in Threads, LocalOK(u), Undisturbed(u)
    PROVE  LocalOK(u)'
  BY DEF LocalOK, Undisturbed, HasGroup, HasContainer, CheckAccessPCs, CtrlPCs,
         PollPCs

(* To preserve TypeInv, a step of t has to preserve TypeOK and the locals of
   t, and leave the other threads alone. *)
LEMMA LocalsKept ==
    ASSUME TypeInv, NEW t \in Threads, TypeOK', LocalOK(t)',
           \A u \in Threads \ {t} : Undisturbed(u)
    PROVE  TypeInv'
<1>1. ASSUME NEW u \in Threads PROVE LocalOK(u)'
  <2>1. CASE u = t
    BY <2>1
  <2>2. CASE u # t
    BY <2>2, UndisturbedLocals DEF TypeInv
  <2> QED BY <2>1, <2>2
<1> QED BY <1>1 DEF TypeInv


(* The steps of a registered process inside read(2), write(2), poll(2) and
   close(2) preserve TypeInv. *)
LEMMA GroupDevTypes ==
    ASSUME TypeInv, NEW t \in Threads, GroupDevStep(t)
    PROVE  TypeInv' /\ \A u \in Threads \ {t} : Undisturbed(u)
<1>0. TypeOK /\ \A u \in Threads : LocalOK(u)
  BY DEF TypeInv
<1> USE DEF HasGroup, HasContainer, PCs, CheckAccessPCs, OpenFilePCs, GetEventPCs, ReturnEventPCs,
            PollPCs, TrackingPCs, CtrlPCs
<1>1. CASE StoreRemoved(t)
  <2> DEFINE p == [pc EXCEPT ![t] = "idle"]
  <2>1. /\ group_count' = cnt[t] - 1
        /\ cnt' = [cnt EXCEPT ![t] = 0]
        /\ todo' = [todo EXCEPT ![removing] = <<>>]
        /\ working' = [working EXCEPT ![removing] = {}]
        /\ removing' = NoGroup
        /\ pc[t] = "rt_store"
        /\ UNCHANGED <<writer, readers, grp, last_event_id, masked, cur, ec,
                       mine, cmd, ans, pollq, file, hand, fault>>
    BY <1>1 DEF StoreRemoved, ClearGroup, user, history
  <2>2. /\ p \in [Threads -> PCs] /\ p[t] = "idle"
        /\ \A u \in Threads \ {t} : p[u] = pc[u]
    BY <1>0 DEF TypeOK
  <2>6. pc' = WakeCleared(p, removing)
    BY <1>1 DEF StoreRemoved
  <2> HIDE DEF p
  <2>7. /\ pc' \in [Threads -> PCs]
        /\ \A u \in Threads :
              \/ pc'[u] = p[u]
              \/ p[u] = "ge_sleep" /\ pc'[u] = "ge_wait"
              \/ p[u] = "poll_sleep" /\ pc'[u] = "poll_lookup"
              \/ p[u] = "ev_sleep" /\ pc'[u] = "ev_wait"
    BY <1>0, <2>2, <2>6, WakeTypes
  <2>8. /\ pc'[t] = "idle"
        /\ \A u \in Threads \ {t} :
              \/ pc'[u] = pc[u]
              \/ pc[u] = "ge_sleep" /\ pc'[u] = "ge_wait"
              \/ pc[u] = "poll_sleep" /\ pc'[u] = "poll_lookup"
              \/ pc[u] = "ev_sleep" /\ pc'[u] = "ev_wait"
    BY <2>2, <2>7
  <2>11. todo' \in [Groups -> Seq(Events)]
    <3>1. <<>> \in Seq(Events)
      OBVIOUS
    <3> QED BY <1>0, <2>1, <3>1, Zenon DEF TypeOK
  <2>10. evt' \in [Events -> Event] /\ vote' \in [Events -> [Groups -> Votes]]
    <3>1. release_event(Contained(removing), removing, "gone") /\ "gone" \in Votes
      BY <1>0, <1>1 DEF StoreRemoved, ClearGroup, Votes, Answers, TypeOK
    <3> QED BY <1>0, <3>1, ReleaseTypes
  <2>3. TypeOK'
    <3>1. group_count' \in Int
      BY <1>0, <2>1 DEF TypeOK
    <3>2. cnt' \in [Threads -> Int]
      BY <1>0, <2>1 DEF TypeOK
    <3>3. working' \in [Groups -> SUBSET Events]
      BY <1>0, <2>1 DEF TypeOK
    <3>4. removing' \in Groups \cup {NoGroup}
      BY <1>0, <2>1 DEF TypeOK
    <3> QED BY <1>0, <2>1, <2>7, <2>10, <2>11, <3>1, <3>2, <3>3, <3>4 DEF TypeOK
  <2>4. LocalOK(t)'
    BY <1>0, <2>1, <2>3, <2>8 DEF LocalOK, TypeOK
  <2>5. \A u \in Threads \ {t} : Undisturbed(u)
    BY <1>0, <2>1, <2>8 DEF Undisturbed, TypeOK
  <2> QED BY <1>0, <2>3, <2>4, <2>5, LocalsKept
<1>2. CASE GetEventWait(t)
  <2>1. /\ pc[t] = "ge_wait"
        /\ \/ pc' = [pc EXCEPT ![t] = "ge_check"]
           \/ pc' = [pc EXCEPT ![t] = "ge_sleep"]
        /\ UNCHANGED <<writer, readers, removing, group_count, grp, todo,
                       working, last_event_id, evt, masked, cur, ec, mine,
                       cnt, cmd, ans, pollq, file, hand, vote, fault>>
    BY <1>2 DEF GetEventWait, Goto, shared, locals, user, history
  <2>3. TypeOK'
    BY <1>0, <2>1 DEF TypeOK
  <2>4. LocalOK(t)'
    BY <1>0, <2>1, <2>3 DEF LocalOK, TypeOK
  <2>5. \A u \in Threads \ {t} : Undisturbed(u)
    BY <1>0, <2>1 DEF Undisturbed, TypeOK
  <2> QED BY <1>0, <2>3, <2>4, <2>5, LocalsKept
<1>3. CASE GetEventSignal(t)
  <2>1. /\ pc[t] \in {"ge_wait", "ge_sleep"}
        /\ \/ pc' = [pc EXCEPT ![t] = "ge_check"] /\ cur' = cur
           \/ /\ pc' = [pc EXCEPT ![t] = "idle"]
              /\ cur' = [cur EXCEPT ![t] = NoGroup]
        /\ UNCHANGED <<writer, readers, removing, group_count, todo, working,
                       last_event_id, evt, masked, ec, mine, cnt, cmd, ans,
                       pollq, file, hand, vote, fault>>
    BY <1>3 DEF GetEventSignal, Leave, Goto, shared, locals, user, history
  <2>2. grp' \in [Groups -> Group]
    <3>1. (\E g : get_group(g) \/ put_group(g)) \/ grp' = grp
      BY <1>3 DEF GetEventSignal, Leave
    <3> QED BY <1>0, <3>1, CountTypes DEF TypeOK
  <2>3. TypeOK'
    <3>1. pc' \in [Threads -> PCs]
      BY <1>0, <2>1, ZenonT(60) DEF TypeOK
    <3>2. cur' \in [Threads -> Groups \cup {NoGroup}]
      BY <1>0, <2>1 DEF TypeOK
    <3> QED BY <1>0, <2>1, <2>2, <3>1, <3>2 DEF TypeOK
  <2>4. LocalOK(t)'
    BY <1>0, <2>1, <2>3 DEF LocalOK, TypeOK
  <2>5. \A u \in Threads \ {t} : Undisturbed(u)
    BY <1>0, <2>1 DEF Undisturbed, TypeOK
  <2> QED BY <1>0, <2>3, <2>4, <2>5, LocalsKept
<1>4. CASE GetEventCheck(t)
  <2>1. /\ pc[t] = "ge_check"
        /\ \/ pc' = [pc EXCEPT ![t] = "ge_claim"] /\ cur' = cur
           \/ /\ pc' = [pc EXCEPT ![t] = "idle"]
              /\ cur' = [cur EXCEPT ![t] = NoGroup]
        /\ UNCHANGED <<writer, readers, removing, group_count, todo, working,
                       last_event_id, evt, masked, ec, mine, cnt, cmd, ans,
                       pollq, file, hand, vote, fault>>
    BY <1>4 DEF GetEventCheck, Leave, Goto, shared, locals, user, history
  <2>2. grp' \in [Groups -> Group]
    <3>1. (\E g : get_group(g) \/ put_group(g)) \/ grp' = grp
      BY <1>4 DEF GetEventCheck, Leave
    <3> QED BY <1>0, <3>1, CountTypes DEF TypeOK
  <2>3. TypeOK'
    <3>1. pc' \in [Threads -> PCs]
      BY <1>0, <2>1, ZenonT(60) DEF TypeOK
    <3>2. cur' \in [Threads -> Groups \cup {NoGroup}]
      BY <1>0, <2>1 DEF TypeOK
    <3> QED BY <1>0, <2>1, <2>2, <3>1, <3>2 DEF TypeOK
  <2>4. LocalOK(t)'
    BY <1>0, <2>1, <2>3 DEF LocalOK, TypeOK
  <2>5. \A u \in Threads \ {t} : Undisturbed(u)
    BY <1>0, <2>1 DEF Undisturbed, TypeOK
  <2> QED BY <1>0, <2>3, <2>4, <2>5, LocalsKept
<1>5. CASE ClaimEvent(t)
  <2>1. /\ pc[t] = "ge_claim"
        /\ \/ /\ pc' = [pc EXCEPT ![t] = "ge_wait"]
              /\ UNCHANGED <<todo, working, ec>>
           \/ /\ todo[cur[t]] # <<>>
              /\ todo' = [todo EXCEPT ![cur[t]] = Tail(@)]
              /\ working' = [working EXCEPT ![cur[t]] = @ \cup {Head(todo[cur[t]])}]
              /\ ec' = [ec EXCEPT ![t] = Head(todo[cur[t]])]
              /\ pc' = [pc EXCEPT ![t] = "open"]
        /\ UNCHANGED <<writer, readers, removing, group_count, grp,
                       last_event_id, evt, masked, cur, mine, cnt, cmd, ans,
                       pollq, file, hand, vote, fault>>
    BY <1>5 DEF ClaimEvent, Goto, shared, locals, user, history
  <2>6. /\ cur[t] \in Groups
        /\ todo[cur[t]] # <<>> => /\ Head(todo[cur[t]]) \in Events
                                  /\ Tail(todo[cur[t]]) \in Seq(Events)
    <3>1. cur[t] \in Groups
      BY <1>0, <2>1 DEF LocalOK
    <3>2. todo[cur[t]] \in Seq(Events)
      BY <1>0, <3>1 DEF TypeOK
    <3> QED BY <3>1, <3>2
  <2>7. todo' \in [Groups -> Seq(Events)]
    <3> DEFINE s == Tail(todo[cur[t]])
    <3>1. todo' = todo \/ (todo[cur[t]] # <<>> /\ todo' = [todo EXCEPT ![cur[t]] = s])
      BY <2>1
    <3>2. todo[cur[t]] # <<>> => s \in Seq(Events)
      BY <2>6
    <3> HIDE DEF s
    <3> QED BY <1>0, <3>1, <3>2 DEF TypeOK
  <2>8. working' \in [Groups -> SUBSET Events]
    <3> DEFINE h == working[cur[t]] \cup {Head(todo[cur[t]])}
    <3>1. \/ working' = working
          \/ todo[cur[t]] # <<>> /\ working' = [working EXCEPT ![cur[t]] = h]
      BY <2>1
    <3>2. todo[cur[t]] # <<>> => h \in SUBSET Events
      BY <1>0, <2>6 DEF TypeOK
    <3> HIDE DEF h
    <3> QED BY <1>0, <3>1, <3>2 DEF TypeOK
  <2>3. TypeOK'
    <3>1. pc' \in [Threads -> PCs]
      BY <1>0, <2>1, <2>6, ZenonT(60) DEF TypeOK
    <3>2. ec' \in [Threads -> Events \cup {NoEvent}]
      BY <1>0, <2>1, <2>6 DEF TypeOK
    <3> QED BY <1>0, <2>1, <2>7, <2>8, <3>1, <3>2 DEF TypeOK
  <2>4. LocalOK(t)'
    BY <1>0, <2>1, <2>3, <2>6 DEF LocalOK, TypeOK
  <2>5. \A u \in Threads \ {t} : Undisturbed(u)
    BY <1>0, <2>1 DEF Undisturbed, TypeOK
  <2> QED BY <1>0, <2>3, <2>4, <2>5, LocalsKept
<1>6. CASE OpenFile(t)
  <2>1. /\ pc[t] = "open"
        /\ pc' = [pc EXCEPT ![t] = "dentry_open"]
        /\ masked' = masked \cup {t}
        /\ UNCHANGED <<writer, readers, removing, group_count, grp, todo,
                       working, last_event_id, evt, cur, ec, mine, cnt, cmd,
                       ans, pollq, file, hand, vote, fault>>
    BY <1>6 DEF OpenFile, mask_proc, Goto, shared, locals, user, history
  <2>3. TypeOK'
    BY <1>0, <2>1 DEF TypeOK
  <2>4. LocalOK(t)'
    BY <1>0, <2>1, <2>3 DEF LocalOK, TypeOK
  <2>5. \A u \in Threads \ {t} : Undisturbed(u)
    BY <1>0, <2>1 DEF Undisturbed, TypeOK
  <2> QED BY <1>0, <2>3, <2>4, <2>5, LocalsKept
<1>7. CASE OpenFileNoFd(t)
  <2>1. /\ pc[t] = "open"
        /\ pc' = [pc EXCEPT ![t] = "unclaim"]
        /\ UNCHANGED <<writer, readers, removing, group_count, grp, todo,
                       working, last_event_id, evt, masked, cur, ec, mine,
                       cnt, cmd, ans, pollq, file, hand, vote, fault>>
    BY <1>7 DEF OpenFileNoFd, Goto, shared, locals, user, history
  <2>3. TypeOK'
    BY <1>0, <2>1 DEF TypeOK
  <2>4. LocalOK(t)'
    BY <1>0, <2>1, <2>3 DEF LocalOK, TypeOK
  <2>5. \A u \in Threads \ {t} : Undisturbed(u)
    BY <1>0, <2>1 DEF Undisturbed, TypeOK
  <2> QED BY <1>0, <2>3, <2>4, <2>5, LocalsKept
<1>8. CASE DentryOpenFails(t)
  <2>1. /\ pc[t] = "dentry_open"
        /\ pc' = [pc EXCEPT ![t] = "open_ret"]
        /\ ans' = [ans EXCEPT ![t] = "deny"]
        /\ UNCHANGED <<writer, readers, removing, group_count, grp, todo,
                       working, last_event_id, evt, masked, cur, ec, mine,
                       cnt, cmd, pollq, file, hand, vote, fault>>
    BY <1>8 DEF DentryOpenFails, Goto, shared, locals, user, history
  <2>3. TypeOK'
    BY <1>0, <2>1 DEF TypeOK, Answers
  <2>4. LocalOK(t)'
    BY <1>0, <2>1, <2>3 DEF LocalOK, TypeOK
  <2>5. \A u \in Threads \ {t} : Undisturbed(u)
    BY <1>0, <2>1 DEF Undisturbed, TypeOK
  <2> QED BY <1>0, <2>3, <2>4, <2>5, LocalsKept
<1>9. CASE OpenReturn(t)
  <2>1. /\ pc[t] = "open_ret"
        /\ masked' = masked \ {t}
        /\ ans' = [ans EXCEPT ![t] = "none"]
        /\ \/ pc' = [pc EXCEPT ![t] = "unclaim"] /\ cur' = cur
           \/ /\ pc' = [pc EXCEPT ![t] = "copy"]
              /\ cur' = [cur EXCEPT ![t] = NoGroup]
        /\ UNCHANGED <<writer, readers, removing, group_count, todo, working,
                       last_event_id, evt, ec, mine, cnt, cmd, pollq, file,
                       hand, vote, fault>>
    BY <1>9 DEF OpenReturn, Leave, Goto, shared, locals, user, history
  <2>2. grp' \in [Groups -> Group]
    <3>1. (\E g : get_group(g) \/ put_group(g)) \/ grp' = grp
      BY <1>9 DEF OpenReturn, Leave
    <3> QED BY <1>0, <3>1, CountTypes DEF TypeOK
  <2>6. /\ t \in Readers /\ file[t].gid \in Nat
        /\ cur[t] \in Groups /\ ec[t] \in Events
    BY <1>0, <2>1 DEF LocalOK, NoGroup, Groups
  <2>7. \/ pc'[t] = "unclaim" /\ cur'[t] = cur[t]
        \/ pc'[t] = "copy" /\ cur'[t] = NoGroup
    BY <1>0, <2>1 DEF TypeOK
  <2>3. TypeOK'
    <3>1. pc' \in [Threads -> PCs]
      BY <1>0, <2>1, ZenonT(60) DEF TypeOK, Answers
    <3>2. ans' \in [Threads -> Answers]
      BY <1>0, <2>1 DEF TypeOK, Answers
    <3>3. masked' \subseteq Threads
      BY <1>0, <2>1 DEF TypeOK, Answers
    <3>4. cur' \in [Threads -> Groups \cup {NoGroup}]
      BY <1>0, <2>1 DEF TypeOK, Answers
    <3> QED BY <1>0, <2>1, <2>2, <3>1, <3>2, <3>3, <3>4 DEF TypeOK
  <2>4. LocalOK(t)'
    BY <2>1, <2>6, <2>7 DEF LocalOK, TypeOK
  <2>5. \A u \in Threads \ {t} : Undisturbed(u)
    BY <1>0, <2>1 DEF Undisturbed, TypeOK
  <2> QED BY <1>0, <2>3, <2>4, <2>5, LocalsKept
<1>10. CASE Unclaim(t)
  <2>1. /\ pc[t] = "unclaim"
        /\ pc' = [pc EXCEPT ![t] = "unclaim_wake"]
        /\ working' = [working EXCEPT ![cur[t]] = @ \ {ec[t]}]
        /\ todo' = [todo EXCEPT ![cur[t]] = <<ec[t]>> \o @]
        /\ ec' = [ec EXCEPT ![t] = NoEvent]
        /\ UNCHANGED <<writer, readers, removing, group_count, grp,
                       last_event_id, evt, masked, cur, mine, cnt, cmd, ans,
                       pollq, file, hand, vote, fault>>
    BY <1>10 DEF Unclaim, Requeue, Goto, shared, locals, user, history
  <2>6. cur[t] \in Groups /\ ec[t] \in Events
    BY <1>0, <2>1 DEF LocalOK
  <2>7. <<ec[t]>> \o todo[cur[t]] \in Seq(Events)
    BY <1>0, <2>6 DEF TypeOK
  <2>3. TypeOK'
    <3>1. pc' \in [Threads -> PCs]
      BY <1>0, <2>1, <2>6, <2>7 DEF TypeOK
    <3>2. working' \in [Groups -> SUBSET Events]
      BY <1>0, <2>1, <2>6, <2>7 DEF TypeOK
    <3>3. todo' \in [Groups -> Seq(Events)]
      BY <1>0, <2>1, <2>6, <2>7 DEF TypeOK
    <3>4. ec' \in [Threads -> Events \cup {NoEvent}]
      BY <1>0, <2>1, <2>6, <2>7 DEF TypeOK
    <3> QED BY <1>0, <2>1, <3>1, <3>2, <3>3, <3>4 DEF TypeOK
  <2>4. LocalOK(t)'
    BY <1>0, <2>1, <2>3, <2>6 DEF LocalOK, TypeOK
  <2>5. \A u \in Threads \ {t} : Undisturbed(u)
    BY <1>0, <2>1 DEF Undisturbed, TypeOK
  <2> QED BY <1>0, <2>3, <2>4, <2>5, LocalsKept
<1>11. CASE UnclaimWake(t)
  <2> DEFINE p == [pc EXCEPT ![t] = "idle"]
  <2>1. /\ pc[t] = "unclaim_wake"
        /\ cur' = [cur EXCEPT ![t] = NoGroup]
        /\ UNCHANGED <<writer, readers, removing, group_count, todo, working,
                       last_event_id, evt, masked, ec, mine, cnt, cmd, ans,
                       pollq, file, hand, vote, fault>>
    BY <1>11 DEF UnclaimWake, user, history
  <2>2. /\ p \in [Threads -> PCs] /\ p[t] = "idle"
        /\ \A u \in Threads \ {t} : p[u] = pc[u]
    BY <1>0 DEF TypeOK
  <2>6. pc' = wake_up_group(p, {cur[t]})
    BY <1>11 DEF UnclaimWake
  <2> HIDE DEF p
  <2>7. /\ pc' \in [Threads -> PCs]
        /\ \A u \in Threads :
              \/ pc'[u] = p[u]
              \/ p[u] = "ge_sleep" /\ pc'[u] = "ge_wait"
              \/ p[u] = "poll_sleep" /\ pc'[u] = "poll_lookup"
              \/ p[u] = "ev_sleep" /\ pc'[u] = "ev_wait"
    BY <1>0, <2>2, <2>6, WakeTypes
  <2>8. /\ pc'[t] = "idle"
        /\ \A u \in Threads \ {t} :
              \/ pc'[u] = pc[u]
              \/ pc[u] = "ge_sleep" /\ pc'[u] = "ge_wait"
              \/ pc[u] = "poll_sleep" /\ pc'[u] = "poll_lookup"
              \/ pc[u] = "ev_sleep" /\ pc'[u] = "ev_wait"
    BY <2>2, <2>7
  <2>9. grp' \in [Groups -> Group]
    <3>1. put_group(cur[t])
      BY <1>11 DEF UnclaimWake
    <3> QED BY <1>0, <3>1, CountTypes
  <2>3. TypeOK'
    <3>1. cur' \in [Threads -> Groups \cup {NoGroup}]
      BY <1>0, <2>1 DEF TypeOK
    <3> QED BY <1>0, <2>1, <2>7, <2>9, <3>1 DEF TypeOK
  <2>4. LocalOK(t)'
    BY <1>0, <2>1, <2>3, <2>8 DEF LocalOK, TypeOK
  <2>5. \A u \in Threads \ {t} : Undisturbed(u)
    BY <1>0, <2>1, <2>8 DEF Undisturbed, TypeOK
  <2> QED BY <1>0, <2>3, <2>4, <2>5, LocalsKept
<1>12. CASE CopyOut(t)
  <2>1. /\ pc[t] = "copy"
        /\ pc' = [pc EXCEPT ![t] = "idle"]
        /\ hand' = [hand EXCEPT ![t] = @ \cup {<<file[t].gid, ec[t]>>}]
        /\ ec' = [ec EXCEPT ![t] = NoEvent]
        /\ UNCHANGED <<writer, readers, removing, group_count, grp, todo,
                       working, last_event_id, evt, masked, cur, mine, cnt,
                       cmd, ans, pollq, file, vote, fault>>
    BY <1>12 DEF CopyOut, Goto, shared, locals, user, history
  <2>6. file[t].gid \in Nat /\ ec[t] \in Events /\ cur[t] = NoGroup
        /\ t \in Readers
    BY <1>0, <2>1 DEF LocalOK
  <2>7. hand[t] \cup {<<file[t].gid, ec[t]>>} \in SUBSET (Nat \X Events)
    <3>1. hand[t] \in SUBSET (Nat \X Events)
      BY <1>0, <2>6 DEF TypeOK
    <3>2. <<file[t].gid, ec[t]>> \in Nat \X Events
      BY <2>6
    <3> QED BY <3>1, <3>2
  <2>8. hand' \in [Readers -> SUBSET (Nat \X Events)]
    <3> DEFINE h == hand[t] \cup {<<file[t].gid, ec[t]>>}
    <3>1. hand' = [hand EXCEPT ![t] = h]
      BY <2>1
    <3> HIDE DEF h
    <3> QED BY <1>0, <2>7, <3>1 DEF h, TypeOK
  <2>3. TypeOK'
    <3>1. pc' \in [Threads -> PCs]
      BY <1>0, <2>1, <2>6 DEF TypeOK
    <3>2. ec' \in [Threads -> Events \cup {NoEvent}]
      BY <1>0, <2>1, <2>6 DEF TypeOK
    <3> QED BY <1>0, <2>1, <2>8, <3>1, <3>2 DEF TypeOK
  <2>4. LocalOK(t)'
    BY <1>0, <2>1, <2>3, <2>6 DEF LocalOK, TypeOK
  <2>5. \A u \in Threads \ {t} : Undisturbed(u)
    BY <1>0, <2>1 DEF Undisturbed, TypeOK
  <2> QED BY <1>0, <2>3, <2>4, <2>5, LocalsKept
<1>13. CASE CopyFails(t)
  <2>1. /\ pc[t] = "copy"
        /\ \/ /\ MyGroup(t) # NoGroup
              /\ cur' = [cur EXCEPT ![t] = MyGroup(t)]
              /\ pc' = [pc EXCEPT ![t] = "unclaim"]
              /\ ec' = ec
           \/ /\ pc' = [pc EXCEPT ![t] = "idle"]
              /\ ec' = [ec EXCEPT ![t] = NoEvent]
              /\ cur' = cur
        /\ UNCHANGED <<writer, readers, removing, group_count, todo, working,
                       last_event_id, evt, masked, mine, cnt, cmd, ans,
                       pollq, file, hand, vote, fault>>
    BY <1>13 DEF CopyFails, Goto, shared, locals, user, history
  <2>2. grp' \in [Groups -> Group]
    <3>1. (\E g : get_group(g) \/ put_group(g)) \/ grp' = grp
      BY <1>13 DEF CopyFails
    <3> QED BY <1>0, <3>1, CountTypes DEF TypeOK
  <2>6. /\ file[t].gid \in Nat /\ ec[t] \in Events /\ cur[t] = NoGroup
        /\ t \in Readers
    BY <1>0, <2>1 DEF LocalOK
  <2>7. MyGroup(t) \in Groups \cup {NoGroup}
    BY LookupType DEF MyGroup
  <2>3. TypeOK'
    <3>1. pc' \in [Threads -> PCs]
      BY <1>0, <2>1, <2>6, <2>7, ZenonT(60) DEF TypeOK
    <3>2. cur' \in [Threads -> Groups \cup {NoGroup}]
      BY <1>0, <2>1, <2>6, <2>7, ZenonT(60) DEF TypeOK
    <3>3. ec' \in [Threads -> Events \cup {NoEvent}]
      BY <1>0, <2>1, <2>6, <2>7, ZenonT(60) DEF TypeOK
    <3> QED BY <1>0, <2>1, <2>2, <3>1, <3>2, <3>3 DEF TypeOK
  <2>4. LocalOK(t)'
    BY <1>0, <2>1, <2>3, <2>6, <2>7 DEF LocalOK, TypeOK
  <2>5. \A u \in Threads \ {t} : Undisturbed(u)
    BY <1>0, <2>1 DEF Undisturbed, TypeOK
  <2> QED BY <1>0, <2>3, <2>4, <2>5, LocalsKept
<1>14. CASE ReleaseAnswered(t)
  <2> DEFINE p == [pc EXCEPT ![t] = "idle"]
  <2>1. /\ pc[t] = "re_release"
        /\ cur' = [cur EXCEPT ![t] = NoGroup]
        /\ ec' = [ec EXCEPT ![t] = NoEvent]
        /\ ans' = [ans EXCEPT ![t] = "none"]
        /\ UNCHANGED <<writer, readers, removing, group_count, todo, working,
                       last_event_id, masked, mine, cnt, cmd, pollq, file,
                       hand, fault>>
    BY <1>14 DEF ReleaseAnswered, user, history
  <2>2. /\ p \in [Threads -> PCs] /\ p[t] = "idle"
        /\ \A u \in Threads \ {t} : p[u] = pc[u]
    BY <1>0 DEF TypeOK
  <2>6. pc' = wake_up_event(p, Woken({ec[t]}))
    BY <1>14 DEF ReleaseAnswered
  <2> HIDE DEF p
  <2>7. /\ pc' \in [Threads -> PCs]
        /\ \A u \in Threads :
              \/ pc'[u] = p[u]
              \/ p[u] = "ge_sleep" /\ pc'[u] = "ge_wait"
              \/ p[u] = "poll_sleep" /\ pc'[u] = "poll_lookup"
              \/ p[u] = "ev_sleep" /\ pc'[u] = "ev_wait"
    BY <1>0, <2>2, <2>6, WakeTypes
  <2>8. /\ pc'[t] = "idle"
        /\ \A u \in Threads \ {t} :
              \/ pc'[u] = pc[u]
              \/ pc[u] = "ge_sleep" /\ pc'[u] = "ge_wait"
              \/ pc[u] = "poll_sleep" /\ pc'[u] = "poll_lookup"
              \/ pc[u] = "ev_sleep" /\ pc'[u] = "ev_wait"
    BY <2>2, <2>7
  <2>9. grp' \in [Groups -> Group]
    <3>1. put_group(cur[t])
      BY <1>14 DEF ReleaseAnswered
    <3> QED BY <1>0, <3>1, CountTypes
  <2>10. evt' \in [Events -> Event] /\ vote' \in [Events -> [Groups -> Votes]]
    <3>1. release_event({ec[t]}, cur[t], ans[t]) /\ ans[t] \in Votes
      BY <1>0, <1>14 DEF ReleaseAnswered, Votes, Answers, TypeOK
    <3> QED BY <1>0, <3>1, ReleaseTypes
  <2>3. TypeOK'
    <3>1. cur' \in [Threads -> Groups \cup {NoGroup}]
      BY <1>0, <2>1 DEF TypeOK, Answers
    <3>2. ec' \in [Threads -> Events \cup {NoEvent}]
      BY <1>0, <2>1 DEF TypeOK, Answers
    <3>3. ans' \in [Threads -> Answers]
      BY <1>0, <2>1 DEF TypeOK, Answers
    <3> QED BY <1>0, <2>1, <2>7, <2>9, <2>10, <3>1, <3>2, <3>3 DEF TypeOK
  <2>4. LocalOK(t)'
    BY <1>0, <2>1, <2>3, <2>8 DEF LocalOK, TypeOK
  <2>5. \A u \in Threads \ {t} : Undisturbed(u)
    BY <1>0, <2>1, <2>8 DEF Undisturbed, TypeOK
  <2> QED BY <1>0, <2>3, <2>4, <2>5, LocalsKept
<1>15. CASE PollLookup(t)
  <2>1. /\ \/ pc[t] = "idle" /\ t \in Pollers
           \/ pc[t] = "poll_lookup"
        /\ \/ /\ MyGroup(t) # NoGroup
              /\ cur' = [cur EXCEPT ![t] = MyGroup(t)]
              /\ pc' = [pc EXCEPT ![t] = "poll_check"]
           \/ /\ \/ pc' = [pc EXCEPT ![t] = "idle"]
                 \/ pc' = [pc EXCEPT ![t] = "poll_free"]
              /\ cur' = cur
        /\ UNCHANGED <<writer, readers, removing, group_count, todo, working,
                       last_event_id, evt, masked, ec, mine, cnt, cmd, ans,
                       pollq, file, hand, vote, fault>>
    BY <1>15 DEF PollLookup, Goto, shared, locals, user, history
  <2>2. grp' \in [Groups -> Group]
    <3>1. (\E g : get_group(g) \/ put_group(g)) \/ grp' = grp
      BY <1>15 DEF PollLookup
    <3> QED BY <1>0, <3>1, CountTypes DEF TypeOK
  <2>6. t \in Readers /\ cur[t] = NoGroup
    BY <1>0, <2>1, ThreadsAssumption DEF LocalOK
  <2>7. /\ MyGroup(t) \in Groups \cup {NoGroup}
        /\ MyGroup(t) # NoGroup => file[t].gid \in Nat
    <3>1. \A g \in Groups : grp[g].id \in Nat
      BY <1>0 DEF TypeOK, Group
    <3> QED BY <3>1, LookupType DEF MyGroup, Active
  <2>3. TypeOK'
    <3>1. pc' \in [Threads -> PCs]
      BY <1>0, <2>1, <2>6, <2>7 DEF TypeOK
    <3>2. cur' \in [Threads -> Groups \cup {NoGroup}]
      BY <1>0, <2>1, <2>6, <2>7, ZenonT(60) DEF TypeOK
    <3> QED BY <1>0, <2>1, <2>2, <3>1, <3>2 DEF TypeOK
  <2>4. LocalOK(t)'
    BY <1>0, <2>1, <2>3, <2>6, <2>7 DEF LocalOK, TypeOK
  <2>5. \A u \in Threads \ {t} : Undisturbed(u)
    BY <1>0, <2>1 DEF Undisturbed, TypeOK
  <2> QED BY <1>0, <2>3, <2>4, <2>5, LocalsKept
<1>16. CASE PollCheck(t)
  <2>1. /\ pc[t] = "poll_check"
        /\ cur' = [cur EXCEPT ![t] = NoGroup]
        /\ \/ pc' = [pc EXCEPT ![t] = "poll_free"]
           \/ pc' = [pc EXCEPT ![t] = "poll_sleep"]
        /\ pollq' = [pollq EXCEPT ![t] = cur[t]] \/ pollq' = pollq
        /\ UNCHANGED <<writer, readers, removing, group_count, todo, working,
                       last_event_id, evt, masked, ec, mine, cnt, cmd, ans,
                       file, hand, vote, fault>>
    BY <1>16 DEF PollCheck, Leave, Goto, shared, locals, user, history
  <2>2. grp' \in [Groups -> Group]
    <3>1. (\E g : get_group(g) \/ put_group(g)) \/ grp' = grp
      BY <1>16 DEF PollCheck, Leave
    <3> QED BY <1>0, <3>1, CountTypes DEF TypeOK
  <2>3. TypeOK'
    <3>1. pc' \in [Threads -> PCs]
      BY <1>0, <2>1, ZenonT(60) DEF TypeOK
    <3>2. cur' \in [Threads -> Groups \cup {NoGroup}]
      BY <1>0, <2>1 DEF TypeOK
    <3>3. pollq' \in [Threads -> Groups \cup {NoGroup}]
      BY <1>0, <2>1 DEF TypeOK
    <3> QED BY <1>0, <2>1, <2>2, <3>1, <3>2, <3>3 DEF TypeOK
  <2>4. LocalOK(t)'
    BY <1>0, <2>1, <2>3 DEF LocalOK, TypeOK
  <2>5. \A u \in Threads \ {t} : Undisturbed(u)
    BY <1>0, <2>1 DEF Undisturbed, TypeOK
  <2> QED BY <1>0, <2>3, <2>4, <2>5, LocalsKept
<1>17. CASE PollTimeout(t)
  <2>1. /\ pc[t] = "poll_sleep"
        /\ pc' = [pc EXCEPT ![t] = "poll_free"]
        /\ UNCHANGED <<writer, readers, removing, group_count, grp, todo,
                       working, last_event_id, evt, masked, cur, ec, mine,
                       cnt, cmd, ans, pollq, file, hand, vote, fault>>
    BY <1>17 DEF PollTimeout, Goto, shared, locals, user, history
  <2>6. t \in Readers /\ cur[t] = NoGroup /\ pc'[t] = "poll_free"
    BY <1>0, <2>1 DEF LocalOK, TypeOK
  <2>3. TypeOK'
    BY <1>0, <2>1 DEF TypeOK
  <2>4. LocalOK(t)'
    BY <2>1, <2>6 DEF LocalOK, TypeOK
  <2>5. \A u \in Threads \ {t} : Undisturbed(u)
    BY <1>0, <2>1 DEF Undisturbed, TypeOK
  <2> QED BY <1>0, <2>3, <2>4, <2>5, LocalsKept
<1>18. CASE PollFree(t)
  <2>1. /\ pc[t] = "poll_free"
        /\ pc' = [pc EXCEPT ![t] = "idle"]
        /\ pollq' = [pollq EXCEPT ![t] = NoGroup]
        /\ UNCHANGED <<writer, readers, removing, group_count, grp, todo,
                       working, last_event_id, evt, masked, cur, ec, mine,
                       cnt, cmd, ans, file, hand, vote, fault>>
    BY <1>18 DEF PollFree, Goto, shared, locals, user, history
  <2>6. t \in Readers /\ cur[t] = NoGroup /\ pc'[t] = "idle"
    BY <1>0, <2>1 DEF LocalOK, TypeOK
  <2>3. TypeOK'
    BY <1>0, <2>1 DEF TypeOK
  <2>4. LocalOK(t)'
    BY <2>1, <2>6 DEF LocalOK, TypeOK
  <2>5. \A u \in Threads \ {t} : Undisturbed(u)
    BY <1>0, <2>1 DEF Undisturbed, TypeOK
  <2> QED BY <1>0, <2>3, <2>4, <2>5, LocalsKept
<1> QED
  BY <1>1, <1>2, <1>3, <1>4, <1>5, <1>6, <1>7, <1>8, <1>9, <1>10,
     <1>11, <1>12, <1>13, <1>14, <1>15, <1>16, <1>17, <1>18
     DEF GroupDevStep

(* The bookkeeping of tracked processes keeps the groups' type. *)
LEMMA TrackTypes ==
    ASSUME TypeOK, NEW g \in Groups
    PROVE  /\ [grp EXCEPT ![g].use_count = @ + 1, ![g].track_count = @ + 1]
                 \in [Groups -> Group]
           /\ Untrack(g) \in [Groups -> Group]
           /\ [Untrack(g) EXCEPT ![g].state = "deprecated"] \in [Groups -> Group]
<1>1. grp \in [Groups -> Group] /\ grp[g] \in Group
  BY DEF TypeOK
<1>2. ASSUME NEW n \in Int, NEW m \in Int, NEW f,
             f = [grp EXCEPT ![g].use_count = n, ![g].track_count = m]
      PROVE  /\ f \in [Groups -> Group]
             /\ [f EXCEPT ![g].state = "deprecated"] \in [Groups -> Group]
  <2> DEFINE gr == [grp[g] EXCEPT !.use_count = n, !.track_count = m]
             dr == [gr EXCEPT !.state = "deprecated"]
  <2>1. gr \in Group
    BY <1>1, GroupTypes
  <2>2. f = [grp EXCEPT ![g] = gr]
    BY <1>1, <1>2
  <2>3. dr \in Group
    <3> HIDE DEF gr
    <3> QED BY <2>1, GroupTypes
  <2>4. f[g] = gr
    BY <1>1, <2>2
  <2>5. [f EXCEPT ![g].state = "deprecated"] = [f EXCEPT ![g] = dr]
    <3> HIDE DEF gr
    <3> QED BY <2>4
  <2> HIDE DEF gr, dr
  <2> QED BY <1>1, <2>1, <2>2, <2>3, <2>5
<1>3. /\ grp[g].use_count + 1 \in Int /\ grp[g].use_count - 1 \in Int
      /\ grp[g].track_count + 1 \in Int /\ grp[g].track_count - 1 \in Int
  BY <1>1 DEF Group
<1>4. [grp EXCEPT ![g].use_count = @ + 1, ![g].track_count = @ + 1]
         = [grp EXCEPT ![g].use_count = grp[g].use_count + 1,
                       ![g].track_count = grp[g].track_count + 1]
  BY <1>1
<1>5. Untrack(g) = [grp EXCEPT ![g].use_count = grp[g].use_count - 1,
                               ![g].track_count = grp[g].track_count - 1]
  BY <1>1 DEF Untrack
<1> QED BY <1>2, <1>3, <1>4, <1>5

(* The calls of a registered process preserve TypeInv. *)
LEMMA UserTypes ==
    ASSUME TypeInv, NEW t \in Threads, t \in Readers, UserStep(t)
    PROVE  TypeInv' /\ \A u \in Threads \ {t} : Undisturbed(u)
<1>0. TypeOK /\ \A u \in Threads : LocalOK(u)
  BY DEF TypeInv
<1> USE DEF HasGroup, HasContainer, PCs, CheckAccessPCs, OpenFilePCs, GetEventPCs,
            ReturnEventPCs, PollPCs, TrackingPCs, CtrlPCs
<1>1. ASSUME NEW id \in 0 .. GROUP_COUNT - 1, OpenDev(t, id)
      PROVE  TypeInv' /\ \A u \in Threads \ {t} : Undisturbed(u)
  <2> DEFINE g == LookupGroup(id)
             new == [gid |-> id, tracked |-> g # NoGroup /\ grp[g].tracking, grp |-> g]
  <2>1. /\ pc[t] = "idle"
        /\ file' = [file EXCEPT ![t] = new]
        /\ UNCHANGED <<writer, readers, removing, group_count, todo, working,
                       last_event_id, evt, masked, pc, cur, ec, mine, cnt,
                       cmd, ans, pollq, hand, vote, fault>>
    BY <1>1 DEF OpenDev, locals, history
  <2>6. pc[t] = "idle" /\ cur[t] = NoGroup
    BY <1>0, <2>1 DEF LocalOK, Groups, NoGroup
  <2>7. g \in Groups \cup {NoGroup}
    BY LookupType
  <2>8. new \in File
    <3>1. (g # NoGroup /\ grp[g].tracking) \in BOOLEAN
      OBVIOUS
    <3>2. id \in Nat
      BY BoundsAssumption
    <3> HIDE DEF g
    <3> QED BY <2>7, <3>1, <3>2 DEF File
  <2>9. grp' \in [Groups -> Group]
    <3>1. \/ /\ g # NoGroup
             /\ grp' = [grp EXCEPT ![g].use_count = @ + 1, ![g].track_count = @ + 1]
          \/ grp' = grp
      BY <1>1 DEF OpenDev
    <3> HIDE DEF g
    <3> QED BY <1>0, <2>7, <3>1, TrackTypes DEF TypeOK
  <2> HIDE DEF new
  <2>3. TypeOK'
    BY <1>0, <2>1, <2>8, <2>9 DEF TypeOK
  <2>4. LocalOK(t)'
    BY <2>1, <2>6 DEF LocalOK
  <2>5. \A u \in Threads \ {t} : Undisturbed(u)
    BY <1>0, <2>1 DEF Undisturbed, TypeOK
  <2> QED BY <1>0, <2>3, <2>4, <2>5, LocalsKept
<1>2. CASE CloseUntracked(t)
  <2>1. /\ pc[t] = "idle"
        /\ file' = [file EXCEPT ![t] = Closed]
        /\ hand' \in {hand, [hand EXCEPT ![t] = {}]}
        /\ UNCHANGED <<writer, readers, removing, group_count, grp, todo,
                       working, last_event_id, evt, masked, pc, cur, ec, mine,
                       cnt, cmd, ans, pollq, vote, fault>>
    BY <1>2 DEF CloseUntracked, Quits, shared, locals, history
  <2>6. pc[t] = "idle" /\ cur[t] = NoGroup
    BY <1>0, <2>1 DEF LocalOK, Groups, NoGroup
  <2>7. Closed \in File /\ hand' \in [Readers -> SUBSET (Nat \X Events)]
    BY <1>0, <2>1 DEF Closed, File, TypeOK
  <2>3. TypeOK'
    BY <1>0, <2>1, <2>7 DEF TypeOK
  <2>4. LocalOK(t)'
    BY <2>1, <2>6 DEF LocalOK
  <2>5. \A u \in Threads \ {t} : Undisturbed(u)
    BY <1>0, <2>1 DEF Undisturbed, TypeOK
  <2> QED BY <1>0, <2>3, <2>4, <2>5, LocalsKept
<1>3. CASE CloseTracked(t)
  <2> DEFINE g == MyGroup(t)
  <2>1. /\ pc[t] = "idle"
        /\ file' = [file EXCEPT ![t] = Closed]
        /\ hand' \in {hand, [hand EXCEPT ![t] = {}]}
        /\ \/ UNCHANGED <<removing, cnt, pc>>
           \/ /\ g # NoGroup
              /\ removing' = g
              /\ cnt' = [cnt EXCEPT ![t] = group_count]
              /\ pc' = [pc EXCEPT ![t] = "rt_store"]
        /\ UNCHANGED <<writer, readers, group_count, todo, working,
                       last_event_id, evt, masked, cur, ec, mine, cmd, ans,
                       pollq, vote, fault>>
    BY <1>3 DEF CloseTracked, Quits, Goto, history
  <2>6. pc[t] = "idle" /\ cur[t] = NoGroup
    BY <1>0, <2>1 DEF LocalOK, Groups, NoGroup
  <2>7. Closed \in File /\ hand' \in [Readers -> SUBSET (Nat \X Events)]
    BY <1>0, <2>1 DEF Closed, File, TypeOK
  <2>8. g \in Groups \cup {NoGroup}
    BY LookupType DEF MyGroup
  <2>9. grp' \in [Groups -> Group]
    <3>1. \/ /\ g # NoGroup
             /\ \/ grp' = [Untrack(g) EXCEPT ![g].state = "deprecated"]
                \/ grp' = Untrack(g)
          \/ grp' = grp
      BY <1>3 DEF CloseTracked
    <3>2. grp \in [Groups -> Group]
      BY <1>0 DEF TypeOK
    <3>3. g # NoGroup =>
            /\ [Untrack(g) EXCEPT ![g].state = "deprecated"] \in [Groups -> Group]
            /\ Untrack(g) \in [Groups -> Group]
      BY <1>0, <2>8, TrackTypes
    <3> HIDE DEF g
    <3> QED BY <3>1, <3>2, <3>3, Zenon
  <2> HIDE DEF g
  <2>10. /\ removing' \in Groups \cup {NoGroup} /\ cnt' \in [Threads -> Int]
         /\ pc' \in [Threads -> PCs]
    <3>1. /\ removing \in Groups \cup {NoGroup} /\ cnt \in [Threads -> Int]
          /\ pc \in [Threads -> PCs] /\ group_count \in Int
      BY <1>0 DEF TypeOK
    <3>2. \/ UNCHANGED <<removing, cnt, pc>>
          \/ /\ removing' = g
             /\ cnt' = [cnt EXCEPT ![t] = group_count]
             /\ pc' = [pc EXCEPT ![t] = "rt_store"]
      BY <2>1
    <3> QED BY <2>8, <3>1, <3>2
  <2>3. TypeOK'
    BY <1>0, <2>1, <2>7, <2>9, <2>10 DEF TypeOK
  <2>11. pc'[t] = "idle" \/ pc'[t] = "rt_store"
    BY <1>0, <2>1, <2>6 DEF TypeOK
  <2>4. LocalOK(t)'
    BY <2>1, <2>6, <2>11 DEF LocalOK
  <2>5. \A u \in Threads \ {t} : Undisturbed(u)
    BY <1>0, <2>1 DEF Undisturbed, TypeOK
  <2> QED BY <1>0, <2>3, <2>4, <2>5, LocalsKept
<1>5. MyGroup(t) \in Groups => file[t].gid \in Nat
  <2>1. \A g \in Groups : grp[g].id \in Nat
    BY <1>0 DEF TypeOK, Group
  <2> QED BY <2>1, LookupType DEF MyGroup, Active, NoGroup, Groups
<1>4. CASE GetEvent(t)
  <2> DEFINE g == MyGroup(t)
  <2>1. /\ pc[t] = "idle"
        /\ g # NoGroup
        /\ get_group(g)
        /\ cur' = [cur EXCEPT ![t] = g]
        /\ pc' = [pc EXCEPT ![t] = "ge_wait"]
        /\ UNCHANGED <<writer, readers, removing, group_count, todo, working,
                       last_event_id, evt, masked, ec, mine, cnt, cmd, ans,
                       pollq, file, hand, vote, fault>>
    BY <1>4 DEF GetEvent, Goto, user, history
  <2>7. g \in Groups
    BY <2>1, LookupType DEF MyGroup
  <2> HIDE DEF g
  <2>8. grp' \in [Groups -> Group]
    BY <1>0, <2>1, CountTypes
  <2>3. TypeOK'
    BY <1>0, <2>1, <2>7, <2>8 DEF TypeOK
  <2>9. pc'[t] = "ge_wait" /\ cur'[t] = g
    BY <1>0, <2>1 DEF TypeOK
  <2>4. LocalOK(t)'
    BY <1>5, <2>1, <2>7, <2>9 DEF LocalOK, g
  <2>5. \A u \in Threads \ {t} : Undisturbed(u)
    BY <1>0, <2>1 DEF Undisturbed, TypeOK
  <2> QED BY <1>0, <2>3, <2>4, <2>5, LocalsKept
<1>6. ASSUME NEW w \in Readers, NEW e \in Events, NEW v \in Answers,
             ReturnEvent(t, w, e, v)
      PROVE  TypeInv' /\ \A u \in Threads \ {t} : Undisturbed(u)
  <2> DEFINE g == MyGroup(t)
  <2>1. /\ pc[t] = "idle"
        /\ \/ hand' = [hand EXCEPT ![w] = @ \ {<<file[t].gid, e>>}]
           \/ hand' = hand
        /\ \/ /\ g # NoGroup
              /\ get_group(g)
              /\ cur' = [cur EXCEPT ![t] = g]
              /\ working' = [working EXCEPT ![g] = @ \ {e}]
              /\ ec' = [ec EXCEPT ![t] = e]
              /\ ans' = [ans EXCEPT ![t] = v]
              /\ pc' = [pc EXCEPT ![t] = "re_release"]
           \/ UNCHANGED <<grp, cur, working, ec, ans, pc>>
        /\ UNCHANGED <<writer, readers, removing, group_count, todo,
                       last_event_id, evt, masked, mine, cnt, cmd, pollq, file,
                       vote, fault>>
    BY <1>6 DEF ReturnEvent, Goto, history
  <2>6. pc[t] = "idle" /\ cur[t] = NoGroup
    BY <1>0, <2>1 DEF LocalOK, Groups, NoGroup
  <2>7. g \in Groups \cup {NoGroup}
    BY LookupType DEF MyGroup
  <2> HIDE DEF g
  <2>8. grp' \in [Groups -> Group]
    <3>1. get_group(g) \/ grp' = grp
      BY <2>1
    <3> QED BY <1>0, <3>1, CountTypes DEF TypeOK
  <2>9. hand' \in [Readers -> SUBSET (Nat \X Events)]
    <3> DEFINE h == hand[w] \ {<<file[t].gid, e>>}
    <3>1. hand' = [hand EXCEPT ![w] = h] \/ hand' = hand
      BY <2>1
    <3>2. h \in SUBSET (Nat \X Events)
      BY <1>0 DEF TypeOK
    <3> HIDE DEF h
    <3> QED BY <1>0, <3>1, <3>2 DEF TypeOK
  <2>3. TypeOK'
    <3>1. working' \in [Groups -> SUBSET Events]
      <4> DEFINE wk == working[g] \ {e}
      <4>1. working' = [working EXCEPT ![g] = wk] \/ working' = working
        BY <2>1
      <4>2. g \in Groups => wk \in SUBSET Events
        BY <1>0 DEF TypeOK
      <4> HIDE DEF wk
      <4> QED BY <1>0, <4>1, <4>2 DEF TypeOK
    <3>4. /\ \/ pc' = [pc EXCEPT ![t] = "re_release"]
             \/ pc' = pc
          /\ ans' = [ans EXCEPT ![t] = v] \/ ans' = ans
          /\ ec' = [ec EXCEPT ![t] = e] \/ ec' = ec
      BY <2>1
    <3>2. /\ pc' \in [Threads -> PCs] /\ ans' \in [Threads -> Answers]
          /\ ec' \in [Threads -> Events \cup {NoEvent}]
      BY <1>0, <3>4, ZenonT(60) DEF TypeOK
    <3>3. cur' \in [Threads -> Groups \cup {NoGroup}]
      BY <1>0, <2>1, <2>7, ZenonT(60) DEF TypeOK
    <3> QED BY <1>0, <2>1, <2>8, <2>9, <3>1, <3>2, <3>3 DEF TypeOK
  <2>10. \/ pc'[t] = "idle" /\ cur'[t] = NoGroup
         \/ pc'[t] = "re_release" /\ cur'[t] = g /\ g \in Groups /\ ec'[t] = e
    BY <1>0, <2>1, <2>6, <2>7 DEF TypeOK
  <2>4. LocalOK(t)'
    BY <1>5, <2>1, <2>10 DEF LocalOK, g
  <2>5. \A u \in Threads \ {t} : Undisturbed(u)
    BY <1>0, <2>1 DEF Undisturbed, TypeOK
  <2> QED BY <1>0, <2>3, <2>4, <2>5, LocalsKept
<1> QED
  BY <1>1, <1>2, <1>3, <1>4, <1>6 DEF UserStep


(* The start of a command on the control device preserves TypeInv. *)
LEMMA CommandTypes ==
    ASSUME TypeInv, NEW t \in Threads, CommandStep(t)
    PROVE  TypeInv' /\ \A u \in Threads \ {t} : Undisturbed(u)
<1>0. TypeOK /\ \A u \in Threads : LocalOK(u)
  BY DEF TypeInv
<1> USE DEF HasGroup, HasContainer, PCs, CheckAccessPCs, OpenFilePCs, GetEventPCs,
            ReturnEventPCs, PollPCs, TrackingPCs, CtrlPCs
<1>1. ASSUME NEW n \in Names, NEW tr \in TrackFlags, AddDown(t, n, tr)
      PROVE  TypeInv' /\ \A u \in Threads \ {t} : Undisturbed(u)
  <2>1. /\ pc[t] = "idle"
        /\ cmd' = [cmd EXCEPT ![t] = <<n, tr>>]
        /\ writer' = {t}
        /\ pc' = [pc EXCEPT ![t] = "add_check"]
        /\ UNCHANGED <<readers, removing, group_count, grp, todo, working,
                       last_event_id, evt, masked, cur, ec, mine, cnt, ans,
                       pollq, file, hand, vote, fault>>
    BY <1>1 DEF AddDown, DownWrite, Goto, user, history
  <2>2. <<n, tr>> \in Names \X BOOLEAN
    BY <1>1, InputsAssumption
  <2>3. TypeOK'
    BY <1>0, <2>1, <2>2 DEF TypeOK
  <2>6. cur'[t] = NoGroup /\ pc'[t] = "add_check" /\ cmd'[t] = <<n, tr>>
    BY <1>0, <2>1 DEF LocalOK, TypeOK, Groups, NoGroup
  <2>4. LocalOK(t)'
    BY <2>2, <2>6 DEF LocalOK
  <2>5. \A u \in Threads \ {t} : Undisturbed(u)
    BY <1>0, <2>1 DEF Undisturbed, TypeOK
  <2> QED BY <1>0, <2>3, <2>4, <2>5, LocalsKept
<1>2. ASSUME NEW n \in Names, DelDown(t, n)
      PROVE  TypeInv' /\ \A u \in Threads \ {t} : Undisturbed(u)
  <2>1. /\ pc[t] = "idle"
        /\ cmd' = [cmd EXCEPT ![t] = <<n, FALSE>>]
        /\ writer' = {t}
        /\ pc' = [pc EXCEPT ![t] = "del"]
        /\ UNCHANGED <<readers, removing, group_count, grp, todo, working,
                       last_event_id, evt, masked, cur, ec, mine, cnt, ans,
                       pollq, file, hand, vote, fault>>
    BY <1>2 DEF DelDown, DownWrite, Goto, user, history
  <2>2. <<n, FALSE>> \in Names \X BOOLEAN
    BY <1>2, InputsAssumption
  <2>3. TypeOK'
    BY <1>0, <2>1, <2>2 DEF TypeOK
  <2>6. cur'[t] = NoGroup /\ pc'[t] = "del" /\ cmd'[t] = <<n, FALSE>>
    BY <1>0, <2>1 DEF LocalOK, TypeOK, Groups, NoGroup
  <2>4. LocalOK(t)'
    BY <2>2, <2>6 DEF LocalOK
  <2>5. \A u \in Threads \ {t} : Undisturbed(u)
    BY <1>0, <2>1 DEF Undisturbed, TypeOK
  <2> QED BY <1>0, <2>3, <2>4, <2>5, LocalsKept
<1> QED BY <1>1, <1>2 DEF CommandStep

(* The steps of dazukofs_add_group() and dazukofs_remove_group() preserve
   TypeInv. *)
LEMMA GroupCtrlTypes ==
    ASSUME TypeInv, NEW t \in Threads, GroupCtrlStep(t)
    PROVE  TypeInv' /\ \A u \in Threads \ {t} : Undisturbed(u)
<1>0. TypeOK /\ \A u \in Threads : LocalOK(u)
  BY DEF TypeInv
<1> USE DEF HasGroup, HasContainer, PCs, CheckAccessPCs, OpenFilePCs, GetEventPCs,
            ReturnEventPCs, PollPCs, TrackingPCs, CtrlPCs
<1>1. CASE CheckForGroup(t)
  <2> DEFINE h == NamedGroup(cmd[t][1])
             Q(g) == IF g \in Swept(h) THEN NullGroup("freed")
                     ELSE IF g = h THEN [grp[g] EXCEPT !.tracking = @ \/ cmd[t][2]]
                     ELSE grp[g]
  <2>1. /\ pc[t] = "add_check"
        /\ \/ /\ cnt' = [cnt EXCEPT ![t] = AvailableId]
              /\ pc' = [pc EXCEPT ![t] = "add_room"]
              /\ UNCHANGED <<writer, cmd>>
           \/ /\ writer' = {}
              /\ cmd' = [cmd EXCEPT ![t] = NoCmd]
              /\ pc' = [pc EXCEPT ![t] = "idle"]
              /\ cnt' = cnt
        /\ UNCHANGED <<readers, removing, group_count, todo, working,
                       last_event_id, evt, masked, cur, ec, mine, ans, pollq,
                       file, hand, vote, fault>>
    BY <1>1 DEF CheckForGroup, UpWrite, Goto, user, history
  <2>7. grp' = [g \in Groups |-> Q(g)]
    BY <1>1 DEF CheckForGroup
  <2>8. AvailableId \in Nat
    BY <1>0, AvailableIdType
  <2>9. ASSUME NEW g \in Groups PROVE Q(g) \in Group
    <3>1. NullGroup("freed") \in Group /\ grp[g] \in Group
      BY <1>0 DEF NullGroup, Group, GroupStates, TypeOK
    <3>2. (grp[g].tracking \/ cmd[t][2]) \in BOOLEAN
      OBVIOUS
    <3>3. \A gr \in Group, b \in BOOLEAN : [gr EXCEPT !.tracking = b] \in Group
      BY DEF Group
    <3>4. [grp[g] EXCEPT !.tracking = @ \/ cmd[t][2]] \in Group
      BY <3>1, <3>2, <3>3
    <3> QED BY <3>1, <3>4
  <2> HIDE DEF Q
  <2>10. grp' \in [Groups -> Group]
    BY <2>7, <2>9
  <2>3. TypeOK'
    <3>1. writer' \subseteq Threads /\ cnt' \in [Threads -> Int]
      BY <1>0, <2>1, <2>8 DEF TypeOK
    <3>2. cmd' \in [Threads -> {NoCmd} \cup (Names \X BOOLEAN)]
      BY <1>0, <2>1 DEF TypeOK
    <3>3. pc' \in [Threads -> PCs]
      BY <1>0, <2>1, ZenonT(60) DEF TypeOK
    <3> QED BY <1>0, <2>1, <3>1, <3>2, <3>3, <2>10 DEF TypeOK
  <2>6. /\ cur'[t] = NoGroup
        /\ \/ /\ pc'[t] = "add_room" /\ cnt'[t] = AvailableId
              /\ cmd'[t] \in Names \X BOOLEAN
           \/ pc'[t] = "idle"
    <3>1. cur[t] = NoGroup /\ cmd[t] \in Names \X BOOLEAN
      BY <1>0, <2>1 DEF LocalOK, TypeOK, Groups, NoGroup
    <3>2. cur'[t] = NoGroup
      BY <2>1, <3>1
    <3>3. \/ pc'[t] = "add_room" /\ cnt'[t] = AvailableId /\ cmd' = cmd
          \/ pc'[t] = "idle"
      BY <1>0, <2>1 DEF TypeOK
    <3> QED BY <3>1, <3>2, <3>3
  <2>4. LocalOK(t)'
    BY <2>6, <2>8 DEF LocalOK
  <2>5. \A u \in Threads \ {t} : Undisturbed(u)
    BY <1>0, <2>1 DEF Undisturbed, TypeOK
  <2> QED BY <1>0, <2>3, <2>4, <2>5, LocalsKept
<1>2. CASE AddRoom(t)
  <2>1. /\ pc[t] = "add_room"
        /\ \/ /\ pc' = [pc EXCEPT ![t] = "add_link"]
              /\ UNCHANGED <<writer, cmd, cnt>>
           \/ /\ writer' = {}
              /\ cmd' = [cmd EXCEPT ![t] = NoCmd]
              /\ pc' = [pc EXCEPT ![t] = "idle"]
              /\ cnt' = [cnt EXCEPT ![t] = 0]
        /\ UNCHANGED <<readers, removing, group_count, grp, todo, working,
                       last_event_id, evt, masked, cur, ec, mine, ans, pollq,
                       file, hand, vote, fault>>
    BY <1>2 DEF AddRoom, UpWrite, Goto, user, history
  <2>3. TypeOK'
    <3>1. writer' \subseteq Threads /\ cnt' \in [Threads -> Int]
      BY <1>0, <2>1 DEF TypeOK
    <3>2. cmd' \in [Threads -> {NoCmd} \cup (Names \X BOOLEAN)]
      BY <1>0, <2>1 DEF TypeOK
    <3>3. pc' \in [Threads -> PCs]
      BY <1>0, <2>1 DEF TypeOK
    <3> QED BY <1>0, <2>1, <3>1, <3>2, <3>3 DEF TypeOK
  <2>6. /\ cur'[t] = NoGroup
        /\ \/ /\ pc'[t] = "add_link" /\ cnt'[t] \in Nat
              /\ cmd'[t] \in Names \X BOOLEAN
           \/ pc'[t] = "idle"
    BY <1>0, <2>1, ZenonT(60) DEF LocalOK, TypeOK, Groups, NoGroup
  <2>4. LocalOK(t)'
    BY <2>6 DEF LocalOK
  <2>5. \A u \in Threads \ {t} : Undisturbed(u)
    BY <1>0, <2>1 DEF Undisturbed, TypeOK
  <2> QED BY <1>0, <2>3, <2>4, <2>5, LocalsKept
<1>3. CASE CreateGroupFails(t)
  <2>1. /\ pc[t] = "add_link"
        /\ writer' = {}
        /\ cmd' = [cmd EXCEPT ![t] = NoCmd]
        /\ pc' = [pc EXCEPT ![t] = "idle"]
        /\ cnt' = [cnt EXCEPT ![t] = 0]
        /\ UNCHANGED <<readers, removing, group_count, grp, todo, working,
                       last_event_id, evt, masked, cur, ec, mine, ans, pollq,
                       file, hand, vote, fault>>
    BY <1>3 DEF CreateGroupFails, UpWrite, Goto, user, history
  <2>3. TypeOK'
    BY <1>0, <2>1 DEF TypeOK
  <2>6. cur'[t] = NoGroup /\ pc'[t] = "idle"
    BY <1>0, <2>1 DEF LocalOK, TypeOK, Groups, NoGroup
  <2>4. LocalOK(t)'
    BY <2>6 DEF LocalOK
  <2>5. \A u \in Threads \ {t} : Undisturbed(u)
    BY <1>0, <2>1 DEF Undisturbed, TypeOK
  <2> QED BY <1>0, <2>3, <2>4, <2>5, LocalsKept
<1>4. CASE AddLink(t)
  <2> DEFINE new == [NullGroup("active") EXCEPT !.name = cmd[t][1], !.id = cnt[t],
                                                !.tracking = cmd[t][2]]
  <2>1. /\ pc[t] = "add_link"
        /\ pc' = [pc EXCEPT ![t] = "add_load"]
        /\ UNCHANGED <<writer, readers, removing, group_count, todo, working,
                       last_event_id, evt, masked, cur, ec, mine, cnt, cmd,
                       ans, pollq, file, hand, vote, fault>>
    BY <1>4 DEF AddLink, Goto, locals, user, history
  <2>2. grp' = [grp EXCEPT ![FreshGroup] = new]
    BY <1>4 DEF AddLink
  <2>7. cnt[t] \in Nat /\ cmd[t] \in Names \X BOOLEAN /\ cur[t] = NoGroup
    BY <1>0, <2>1 DEF LocalOK, Groups, NoGroup
  <2>8. new \in Group
    <3>1. NullGroup("active") \in Group
      BY DEF NullGroup, Group, GroupStates
    <3>2. \A gr \in Group, n \in Names, i \in Nat, b \in BOOLEAN :
            [gr EXCEPT !.name = n, !.id = i, !.tracking = b] \in Group
      BY DEF Group
    <3>3. cmd[t][1] \in Names /\ cmd[t][2] \in BOOLEAN
      BY <2>7
    <3> QED BY <2>7, <3>1, <3>2, <3>3
  <2> HIDE DEF new
  <2>9. grp' \in [Groups -> Group]
    BY <1>0, <2>2, <2>8 DEF TypeOK
  <2>3. TypeOK'
    BY <1>0, <2>1, <2>9 DEF TypeOK
  <2>6. pc'[t] = "add_load"
    BY <1>0, <2>1 DEF TypeOK
  <2>4. LocalOK(t)'
    BY <2>1, <2>6, <2>7 DEF LocalOK
  <2>5. \A u \in Threads \ {t} : Undisturbed(u)
    BY <1>0, <2>1 DEF Undisturbed, TypeOK
  <2> QED BY <1>0, <2>3, <2>4, <2>5, LocalsKept
<1>5. CASE AddLoad(t)
  <2>1. /\ pc[t] = "add_load"
        /\ cnt' = [cnt EXCEPT ![t] = group_count]
        /\ pc' = [pc EXCEPT ![t] = "add_store"]
        /\ UNCHANGED <<writer, readers, removing, group_count, grp, todo,
                       working, last_event_id, evt, masked, cur, ec, mine, cmd,
                       ans, pollq, file, hand, vote, fault>>
    BY <1>5 DEF AddLoad, Goto, shared, user, history
  <2>3. TypeOK'
    BY <1>0, <2>1 DEF TypeOK
  <2>6. /\ pc'[t] = "add_store" /\ cur'[t] = NoGroup
        /\ cmd'[t] \in Names \X BOOLEAN
    BY <1>0, <2>1 DEF LocalOK, TypeOK, Groups, NoGroup
  <2>4. LocalOK(t)'
    BY <2>6 DEF LocalOK
  <2>5. \A u \in Threads \ {t} : Undisturbed(u)
    BY <1>0, <2>1 DEF Undisturbed, TypeOK
  <2> QED BY <1>0, <2>3, <2>4, <2>5, LocalsKept
<1>6. CASE AddStore(t)
  <2>1. /\ pc[t] = "add_store"
        /\ writer' = {}
        /\ cmd' = [cmd EXCEPT ![t] = NoCmd]
        /\ pc' = [pc EXCEPT ![t] = "idle"]
        /\ group_count' = cnt[t] + 1
        /\ cnt' = [cnt EXCEPT ![t] = 0]
        /\ UNCHANGED <<readers, removing, grp, todo, working,
                       last_event_id, evt, masked, cur, ec, mine, ans, pollq,
                       file, hand, vote, fault>>
    BY <1>6 DEF AddStore, UpWrite, Goto, user, history
  <2>3. TypeOK'
    BY <1>0, <2>1 DEF TypeOK
  <2>6. cur'[t] = NoGroup /\ pc'[t] = "idle"
    BY <1>0, <2>1 DEF LocalOK, TypeOK, Groups, NoGroup
  <2>4. LocalOK(t)'
    BY <2>6 DEF LocalOK
  <2>5. \A u \in Threads \ {t} : Undisturbed(u)
    BY <1>0, <2>1 DEF Undisturbed, TypeOK
  <2> QED BY <1>0, <2>3, <2>4, <2>5, LocalsKept
<1>7. CASE RemoveGroup(t)
  <2> DEFINE g == NamedGroup(cmd[t][1])
             p == [pc EXCEPT ![t] = "idle"]
  <2>1. /\ pc[t] = "del"
        /\ group_count' = group_count - 1
        /\ todo' = [todo EXCEPT ![g] = <<>>]
        /\ working' = [working EXCEPT ![g] = {}]
        /\ writer' = {}
        /\ cmd' = [cmd EXCEPT ![t] = NoCmd]
        /\ UNCHANGED <<readers, removing, last_event_id, masked, cur, ec, mine,
                       cnt, ans, pollq, file, hand, fault>>
    BY <1>7 DEF RemoveGroup, ClearGroup, user
  <2>2. /\ grp' = [grp EXCEPT ![g].state = "deprecated"]
        /\ pc' = WakeCleared(p, g)
        /\ release_event(Contained(g), g, "gone")
    BY <1>7 DEF RemoveGroup, ClearGroup
  <2>7. /\ p \in [Threads -> PCs] /\ p[t] = "idle"
        /\ \A u \in Threads \ {t} : p[u] = pc[u]
    BY <1>0 DEF TypeOK
  <2> HIDE DEF g, p
  <2>8. /\ pc' \in [Threads -> PCs]
        /\ \A u \in Threads :
              \/ pc'[u] = p[u]
              \/ p[u] = "ge_sleep" /\ pc'[u] = "ge_wait"
              \/ p[u] = "poll_sleep" /\ pc'[u] = "poll_lookup"
              \/ p[u] = "ev_sleep" /\ pc'[u] = "ev_wait"
    BY <1>0, <2>2, <2>7, WakeTypes
  <2>9. /\ pc'[t] = "idle"
        /\ \A u \in Threads \ {t} :
              \/ pc'[u] = pc[u]
              \/ pc[u] = "ge_sleep" /\ pc'[u] = "ge_wait"
              \/ pc[u] = "poll_sleep" /\ pc'[u] = "poll_lookup"
              \/ pc[u] = "ev_sleep" /\ pc'[u] = "ev_wait"
    BY <2>7, <2>8
  <2>10. evt' \in [Events -> Event] /\ vote' \in [Events -> [Groups -> Votes]]
    <3>1. "gone" \in Votes
      BY DEF Votes
    <3> QED BY <1>0, <2>2, <3>1, ReleaseTypes
  <2>11. grp' \in [Groups -> Group]
    <3> DEFINE d == [grp[g] EXCEPT !.state = "deprecated"]
    <3>1. g \in Groups => d \in Group
      <4>1. \A gr \in Group : [gr EXCEPT !.state = "deprecated"] \in Group
        BY DEF Group, GroupStates
      <4> QED BY <1>0, <4>1 DEF TypeOK
    <3>2. grp' = [grp EXCEPT ![g] = d]
      BY <2>2
    <3> HIDE DEF d
    <3> QED BY <1>0, <3>1, <3>2 DEF TypeOK
  <2>12. todo' \in [Groups -> Seq(Events)]
    <3>1. <<>> \in Seq(Events)
      OBVIOUS
    <3> QED BY <1>0, <2>1, <3>1, Zenon DEF TypeOK
  <2>3. TypeOK'
    <3>1. working' \in [Groups -> SUBSET Events]
      BY <1>0, <2>1 DEF TypeOK
    <3>2. cmd' \in [Threads -> {NoCmd} \cup (Names \X BOOLEAN)]
      BY <1>0, <2>1 DEF TypeOK
    <3> QED BY <1>0, <2>1, <2>8, <2>10, <2>11, <2>12, <3>1, <3>2 DEF TypeOK
  <2>6. cur'[t] = NoGroup
    BY <1>0, <2>1 DEF LocalOK, TypeOK, Groups, NoGroup
  <2>4. LocalOK(t)'
    BY <2>6, <2>9 DEF LocalOK
  <2>5. \A u \in Threads \ {t} : Undisturbed(u)
    BY <1>0, <2>1, <2>9 DEF Undisturbed, TypeOK
  <2> QED BY <1>0, <2>3, <2>4, <2>5, LocalsKept
<1>8. CASE RemoveNothing(t)
  <2>1. /\ pc[t] = "del"
        /\ writer' = {}
        /\ cmd' = [cmd EXCEPT ![t] = NoCmd]
        /\ pc' = [pc EXCEPT ![t] = "idle"]
        /\ cnt' = cnt
        /\ UNCHANGED <<readers, removing, group_count, grp, todo, working,
                       last_event_id, evt, masked, cur, ec, mine, ans, pollq,
                       file, hand, vote, fault>>
    BY <1>8 DEF RemoveNothing, UpWrite, Goto, user, history
  <2>3. TypeOK'
    BY <1>0, <2>1 DEF TypeOK
  <2>6. cur'[t] = NoGroup /\ pc'[t] = "idle"
    BY <1>0, <2>1 DEF LocalOK, TypeOK, Groups, NoGroup
  <2>4. LocalOK(t)'
    BY <2>6 DEF LocalOK
  <2>5. \A u \in Threads \ {t} : Undisturbed(u)
    BY <1>0, <2>1 DEF Undisturbed, TypeOK
  <2> QED BY <1>0, <2>3, <2>4, <2>5, LocalsKept
<1> QED
  BY <1>1, <1>2, <1>3, <1>4, <1>5, <1>6, <1>7, <1>8
     DEF GroupCtrlStep

(* The steps of dazukofs_check_access() leave the other threads alone. *)
LEMMA CheckAccessOthers ==
    ASSUME TypeInv, NEW t \in Threads, CheckAccessStep(t)
    PROVE  \A u \in Threads \ {t} : Undisturbed(u)
<1>0. /\ pc \in [Threads -> PCs] /\ mine \in [Threads -> Events \cup {NoEvent}]
      /\ cnt \in [Threads -> Int] /\ ans \in [Threads -> Answers]
  BY DEF TypeInv, TypeOK
<1> USE DEF Goto, locals, user, history
<1>1. CASE Assign(t)
  <2> DEFINE p == [pc EXCEPT ![t] = "ev_wait"]
  <2>1. /\ pc' = wake_up_group(p, Active)
        /\ mine' = [mine EXCEPT ![t] = last_event_id + 1]
        /\ cnt' = [cnt EXCEPT ![t] = 0]
        /\ UNCHANGED <<cur, ec, cmd, ans, pollq, file>>
    BY <1>1 DEF Assign
  <2>2. \A u \in Threads \ {t} : p[u] = pc[u]
    BY <1>0
  <2> HIDE DEF p
  <2>3. \A u \in Threads \ {t} :
           \/ pc'[u] = pc[u]
           \/ pc[u] = "ge_sleep" /\ pc'[u] = "ge_wait"
           \/ pc[u] = "poll_sleep" /\ pc'[u] = "poll_lookup"
    BY <2>1, <2>2 DEF wake_up_group
  <2> QED BY <1>0, <2>1, <2>3 DEF Undisturbed
<1>2. CASE ~Assign(t)
  <2>1. /\ (\E l : pc' = [pc EXCEPT ![t] = l]) \/ pc' = pc
        /\ mine' = [mine EXCEPT ![t] = NoEvent] \/ mine' = mine
        /\ (\E n : cnt' = [cnt EXCEPT ![t] = n]) \/ cnt' = cnt
        /\ (\E v : ans' = [ans EXCEPT ![t] = v]) \/ ans' = ans
        /\ UNCHANGED <<cur, ec, cmd, pollq, file>>
    <3>1. CASE DownRead(t)
      BY <3>1 DEF DownRead
    <3>2. CASE PrecheckPasses(t)
      BY <3>2 DEF PrecheckPasses, CheckAccessReturns
    <3>3. CASE PrecheckHandles(t)
      BY <3>3 DEF PrecheckHandles
    <3>4. CASE Allocate(t)
      BY <3>4 DEF Allocate
    <3>5. CASE AllocateFails(t)
      BY <3>5 DEF AllocateFails, CheckAccessReturns
    <3>6. CASE AssignOverruns(t)
      BY <3>6 DEF AssignOverruns
    <3>7. CASE WaitEvent(t)
      BY <3>7 DEF WaitEvent
    <3>8. CASE ReadVerdict(t)
      BY <3>8 DEF ReadVerdict
    <3>9. CASE ReleaseOwn(t)
      BY <3>9 DEF ReleaseOwn, CheckAccessReturns
    <3> QED
      BY <1>2, <3>1, <3>2, <3>3, <3>4, <3>5, <3>6, <3>7, <3>8, <3>9
         DEF CheckAccessStep
  <2> QED BY <1>0, <2>1 DEF Undisturbed
<1> QED BY <1>1, <1>2

(* Recording a use of freed memory preserves TypeInv. *)
LEMMA FaultTypes ==
    ASSUME TypeInv, NEW t \in Threads, FaultStep(t)
    PROVE  TypeInv'
<1>1. /\ fault' \in Faults
      /\ UNCHANGED <<shared, pc, locals, user, vote>>
  BY DEF FaultStep, UseAfterFree, Faults
<1> QED
  BY <1>1 DEF TypeInv, TypeOK, LocalOK, shared, locals, user

(***************************************************************************)
(* TypeInv, which adds to TypeOK what the locals of a thread hold at each  *)
(* point of its call, is an inductive invariant.                           *)
(***************************************************************************)
LEMMA TypeInvInductive ==
    Init /\ [][Next]_vars => []TypeInv
<1>1. Init => TypeInv
  <2> SUFFICES ASSUME Init PROVE TypeInv
    OBVIOUS
  <2>1. /\ NullGroup("none") \in Group /\ NullEvent("none") \in Event
        /\ Closed \in File /\ NoVotes \in [Groups -> Votes]
    BY DEF NullGroup, Group, GroupStates, NullEvent, Event, EventStates, Closed,
           File, NoVotes, Votes
  <2>2. TypeOK
    BY <2>1, BoundsAssumption DEF Init, TypeOK, PCs, Answers, Faults
  <2>3. \A t \in Threads : LocalOK(t)
    BY DEF Init, LocalOK, HasGroup, HasContainer, CheckAccessPCs, CtrlPCs, PollPCs
  <2> QED BY <2>2, <2>3 DEF TypeInv
<1>2. TypeInv /\ [Next]_vars => TypeInv'
  <2> SUFFICES ASSUME TypeInv, [Next]_vars PROVE TypeInv'
    OBVIOUS
  <2>1. CASE UNCHANGED vars
    BY <2>1 DEF TypeInv, TypeOK, LocalOK, vars, shared, locals, user, history
  <2>2. ASSUME NEW t \in Threads, ThreadStep(t) PROVE TypeInv'
    BY <2>2, CheckAccessTypes, GroupDevTypes, GroupCtrlTypes, UserTypes, CommandTypes
       DEF ThreadStep, KernelStep, CallStep
  <2>3. ASSUME NEW t \in Threads, FaultStep(t) PROVE TypeInv'
    BY <2>3, FaultTypes
  <2> QED BY <2>1, <2>2, <2>3 DEF Next
<1> QED BY <1>1, <1>2, PTL

(***************************************************************************)
(* The variables of event.c, the locals of every thread and the state of   *)
(* the devices keep their types in every run of the event subsystem: the   *)
(* theorem for TypeOK, for any number of processes, groups and events.     *)
(***************************************************************************)
THEOREM TypeCorrect ==
    Spec => []TypeOK
<1>1. TypeInv => TypeOK
  BY DEF TypeInv
<1> QED BY <1>1, TypeInvInductive, PTL DEF Spec

(* A step of one thread leaves the locals of every other thread alone. *)
LEMMA OthersUndisturbed ==
    ASSUME TypeInv, NEW t \in Threads, ThreadStep(t)
    PROVE  \A u \in Threads \ {t} : Undisturbed(u)
  BY CheckAccessOthers, GroupDevTypes, GroupCtrlTypes, UserTypes, CommandTypes
     DEF ThreadStep, KernelStep, CallStep
-----------------------------------------------------------------------------
(***************************************************************************)
(* Theorems about the mask that keeps a registered process, for which a    *)
(* file is opened, from raising an event of its own (proc_list).           *)
(***************************************************************************)
\* the points between mask_proc() and the end of open_file()
MaskedPCs == {"dentry_open", "precheck", "open_ret"}

(***************************************************************************)
(* The strengthening of NoRecursion: inside the open of dentry_open() the  *)
(* thread is masked until it has passed the precheck, and a masked thread  *)
(* is inside that open.                                                    *)
(***************************************************************************)
MaskOK(t) ==
    /\ cur[t] # NoGroup /\ pc[t] \in {"dentry_open", "precheck"} => t \in masked
    /\ cur[t] # NoGroup => pc[t] \notin {"allocate", "assign"}
    /\ t \in masked => cur[t] # NoGroup /\ pc[t] \in MaskedPCs

MaskInv == TypeInv /\ \A t \in Threads : MaskOK(t)

\* a step of t that neither starts nor ends inside the open
KeepsMask(t) ==
    /\ masked' = masked
    /\ pc[t] \notin MaskedPCs
    /\ pc'[t] \notin MaskedPCs \cup {"allocate", "assign"}

(* A step outside the open preserves MaskOK: the thread is not masked. *)
LEMMA QuietMask ==
    ASSUME NEW t \in Threads, MaskOK(t), KeepsMask(t)
    PROVE  MaskOK(t)'
  BY DEF MaskOK, KeepsMask, MaskedPCs

(* A thread that another thread's step leaves alone keeps MaskOK. *)
LEMMA OthersMask ==
    ASSUME NEW t \in Threads, NEW u \in Threads \ {t}, MaskOK(u), Undisturbed(u),
           masked' \in {masked, masked \cup {t}, masked \ {t}}
    PROVE  MaskOK(u)'
<1>1. u \in masked' <=> u \in masked
  OBVIOUS
<1> QED BY <1>1 DEF MaskOK, Undisturbed, MaskedPCs

(* The steps of dazukofs_check_access(): a masked thread passes the precheck
   and raises no event. *)
LEMMA CheckAccessMask ==
    ASSUME MaskInv, NEW t \in Threads, CheckAccessStep(t)
    PROVE  MaskOK(t)' /\ masked' \in {masked, masked \ {t}}
<1>0. /\ pc \in [Threads -> PCs] /\ cur \in [Threads -> Groups \cup {NoGroup}]
      /\ LocalOK(t) /\ MaskOK(t)
  BY DEF MaskInv, TypeInv, TypeOK
<1>a. pc[t] = "idle" => cur[t] = NoGroup
  BY <1>0 DEF LocalOK, HasGroup, CheckAccessPCs
<1> USE DEF Goto, shared, locals, user, history
<1>1. CASE DownRead(t)
  <2>1. /\ pc[t] \in {"idle", "dentry_open"} /\ masked' = masked /\ cur' = cur
        /\ pc' = [pc EXCEPT ![t] = "precheck"]
    BY <1>1 DEF DownRead
  <2> QED BY <1>0, <1>a, <2>1 DEF MaskOK, MaskedPCs
<1>2. CASE PrecheckPasses(t)
  <2>1. /\ pc[t] = "precheck" /\ masked' \in {masked, masked \ {t}} /\ cur' = cur
        /\ \/ cur[t] = NoGroup /\ pc' = [pc EXCEPT ![t] = "idle"]
           \/ cur[t] # NoGroup /\ pc' = [pc EXCEPT ![t] = "open_ret"]
    BY <1>2 DEF PrecheckPasses, CheckAccessReturns, check_recursion
  <2> QED BY <1>0, <2>1 DEF MaskOK, MaskedPCs
<1>3. CASE PrecheckHandles(t)
  <2>1. /\ pc[t] = "precheck" /\ t \notin masked /\ masked' = masked /\ cur' = cur
        /\ pc' = [pc EXCEPT ![t] = "allocate"]
    BY <1>3 DEF PrecheckHandles
  <2> QED BY <1>0, <2>1 DEF MaskOK, MaskedPCs
<1>4. CASE Allocate(t)
  <2>1. /\ pc[t] = "allocate" /\ masked' = masked /\ cur' = cur
        /\ pc' = [pc EXCEPT ![t] = "assign"]
    BY <1>4 DEF Allocate
  <2> QED BY <1>0, <2>1 DEF MaskOK, MaskedPCs
<1>5. CASE AllocateFails(t)
  <2>1. /\ pc[t] = "allocate" /\ masked' = masked /\ cur' = cur
        /\ cur[t] = NoGroup => pc' = [pc EXCEPT ![t] = "idle"]
    BY <1>5 DEF AllocateFails, CheckAccessReturns
  <2> QED BY <1>0, <2>1 DEF MaskOK, MaskedPCs
<1>6. CASE AssignOverruns(t)
  BY <1>0, <1>6 DEF AssignOverruns, MaskOK
<1>7. CASE Assign(t)
  <2> DEFINE p == [pc EXCEPT ![t] = "ev_wait"]
  <2>1. /\ pc[t] = "assign" /\ masked' = masked /\ cur' = cur
        /\ pc' = wake_up_group(p, Active)
    BY <1>7 DEF Assign
  <2>2. p[t] = "ev_wait"
    BY <1>0
  <2> HIDE DEF p
  <2>3. pc'[t] = "ev_wait"
    BY <2>1, <2>2 DEF wake_up_group
  <2> QED BY <1>0, <2>1, <2>3 DEF MaskOK, MaskedPCs
<1>8. CASE WaitEvent(t)
  <2>1. KeepsMask(t)
    BY <1>0, <1>8 DEF WaitEvent, KeepsMask, MaskedPCs
  <2> QED BY <1>0, <2>1, QuietMask DEF KeepsMask
<1>9. CASE ReadVerdict(t)
  <2>1. KeepsMask(t)
    BY <1>0, <1>9 DEF ReadVerdict, KeepsMask, MaskedPCs
  <2> QED BY <1>0, <2>1, QuietMask DEF KeepsMask
<1>10. CASE ReleaseOwn(t)
  <2>1. /\ pc[t] = "ev_release" /\ masked' = masked /\ cur' = cur
        /\ \/ pc' = [pc EXCEPT ![t] = "idle"]
           \/ pc' = [pc EXCEPT ![t] = "open_ret"]
    BY <1>10 DEF ReleaseOwn, CheckAccessReturns
  <2> QED BY <1>0, <2>1 DEF MaskOK, MaskedPCs
<1> QED
  BY <1>1, <1>2, <1>3, <1>4, <1>5, <1>6, <1>7, <1>8, <1>9, <1>10
     DEF CheckAccessStep

(* The steps of a registered process: open_file() masks it and unmasks it. *)
LEMMA GroupDevMask ==
    ASSUME MaskInv, NEW t \in Threads, GroupDevStep(t)
    PROVE  MaskOK(t)' /\ masked' \in {masked, masked \cup {t}, masked \ {t}}
<1>0. /\ pc \in [Threads -> PCs] /\ cur \in [Threads -> Groups \cup {NoGroup}]
      /\ LocalOK(t) /\ MaskOK(t)
  BY DEF MaskInv, TypeInv, TypeOK
<1> USE DEF Goto, shared, locals, user, history
<1>1. CASE GetEventWait(t)
  <2>1. KeepsMask(t)
    BY <1>0, <1>1 DEF GetEventWait, KeepsMask, MaskedPCs
  <2> QED BY <1>0, <2>1, QuietMask DEF KeepsMask
<1>2. CASE GetEventSignal(t)
  <2>1. KeepsMask(t)
    BY <1>0, <1>2 DEF GetEventSignal, KeepsMask, MaskedPCs, Leave
  <2> QED BY <1>0, <2>1, QuietMask DEF KeepsMask
<1>3. CASE GetEventCheck(t)
  <2>1. KeepsMask(t)
    BY <1>0, <1>3 DEF GetEventCheck, KeepsMask, MaskedPCs, Leave
  <2> QED BY <1>0, <2>1, QuietMask DEF KeepsMask
<1>4. CASE ClaimEvent(t)
  <2>1. KeepsMask(t)
    BY <1>0, <1>4 DEF ClaimEvent, KeepsMask, MaskedPCs
  <2> QED BY <1>0, <2>1, QuietMask DEF KeepsMask
<1>5. CASE OpenFileNoFd(t)
  <2>1. KeepsMask(t)
    BY <1>0, <1>5 DEF OpenFileNoFd, KeepsMask, MaskedPCs
  <2> QED BY <1>0, <2>1, QuietMask DEF KeepsMask
<1>6. CASE Unclaim(t)
  <2>1. KeepsMask(t)
    BY <1>0, <1>6 DEF Unclaim, KeepsMask, MaskedPCs, Requeue
  <2> QED BY <1>0, <2>1, QuietMask DEF KeepsMask
<1>7. CASE CopyOut(t)
  <2>1. KeepsMask(t)
    BY <1>0, <1>7 DEF CopyOut, KeepsMask, MaskedPCs
  <2> QED BY <1>0, <2>1, QuietMask DEF KeepsMask
<1>8. CASE CopyFails(t)
  <2>1. KeepsMask(t)
    BY <1>0, <1>8 DEF CopyFails, KeepsMask, MaskedPCs
  <2> QED BY <1>0, <2>1, QuietMask DEF KeepsMask
<1>9. CASE PollLookup(t)
  <2>1. KeepsMask(t)
    BY <1>0, <1>9 DEF PollLookup, KeepsMask, MaskedPCs
  <2> QED BY <1>0, <2>1, QuietMask DEF KeepsMask
<1>10. CASE PollCheck(t)
  <2>1. KeepsMask(t)
    BY <1>0, <1>10 DEF PollCheck, KeepsMask, MaskedPCs, Leave
  <2> QED BY <1>0, <2>1, QuietMask DEF KeepsMask
<1>11. CASE PollTimeout(t)
  <2>1. KeepsMask(t)
    BY <1>0, <1>11 DEF PollTimeout, KeepsMask, MaskedPCs
  <2> QED BY <1>0, <2>1, QuietMask DEF KeepsMask
<1>12. CASE PollFree(t)
  <2>1. KeepsMask(t)
    BY <1>0, <1>12 DEF PollFree, KeepsMask, MaskedPCs
  <2> QED BY <1>0, <2>1, QuietMask DEF KeepsMask
<1>13. CASE StoreRemoved(t)
  <2> DEFINE p == [pc EXCEPT ![t] = "idle"]
  <2>1. pc[t] \notin MaskedPCs /\ masked' = masked /\ pc' = WakeCleared(p, removing)
    BY <1>13 DEF StoreRemoved, MaskedPCs
  <2>2. p[t] = "idle"
    BY <1>0
  <2> HIDE DEF p
  <2>3. pc'[t] = "idle"
    BY <2>1, <2>2 DEF wake_up_group, wake_up_event, WakeCleared
  <2>4. KeepsMask(t)
    BY <2>1, <2>3 DEF KeepsMask, MaskedPCs
  <2> QED BY <1>0, <2>4, QuietMask DEF KeepsMask
<1>14. CASE UnclaimWake(t)
  <2> DEFINE p == [pc EXCEPT ![t] = "idle"]
  <2>1. pc[t] \notin MaskedPCs /\ masked' = masked /\ pc' = wake_up_group(p, {cur[t]})
    BY <1>14 DEF UnclaimWake, MaskedPCs
  <2>2. p[t] = "idle"
    BY <1>0
  <2> HIDE DEF p
  <2>3. pc'[t] = "idle"
    BY <2>1, <2>2 DEF wake_up_group, wake_up_event, WakeCleared
  <2>4. KeepsMask(t)
    BY <2>1, <2>3 DEF KeepsMask, MaskedPCs
  <2> QED BY <1>0, <2>4, QuietMask DEF KeepsMask
<1>15. CASE ReleaseAnswered(t)
  <2> DEFINE p == [pc EXCEPT ![t] = "idle"]
  <2>1. pc[t] \notin MaskedPCs /\ masked' = masked /\ pc' = wake_up_event(p, Woken({ec[t]}))
    BY <1>15 DEF ReleaseAnswered, MaskedPCs
  <2>2. p[t] = "idle"
    BY <1>0
  <2> HIDE DEF p
  <2>3. pc'[t] = "idle"
    BY <2>1, <2>2 DEF wake_up_group, wake_up_event, WakeCleared
  <2>4. KeepsMask(t)
    BY <2>1, <2>3 DEF KeepsMask, MaskedPCs
  <2> QED BY <1>0, <2>4, QuietMask DEF KeepsMask
<1>16. CASE OpenFile(t)
  <2>1. /\ pc[t] = "open" /\ masked' = masked \cup {t} /\ cur' = cur
        /\ pc' = [pc EXCEPT ![t] = "dentry_open"]
    BY <1>16 DEF OpenFile, mask_proc
  <2>2. cur[t] \in Groups
    BY <1>0, <2>1 DEF LocalOK, HasGroup
  <2>3. cur[t] # NoGroup
    BY <2>2 DEF Groups, NoGroup
  <2> QED BY <1>0, <2>1, <2>3 DEF MaskOK, MaskedPCs
<1>17. CASE DentryOpenFails(t)
  <2>1. /\ pc[t] = "dentry_open" /\ masked' = masked /\ cur' = cur
        /\ pc' = [pc EXCEPT ![t] = "open_ret"]
    BY <1>17 DEF DentryOpenFails
  <2> QED BY <1>0, <2>1 DEF MaskOK, MaskedPCs
<1>18. CASE OpenReturn(t)
  <2>1. /\ masked' = masked \ {t}
        /\ \/ pc' = [pc EXCEPT ![t] = "copy"]
           \/ pc' = [pc EXCEPT ![t] = "unclaim"]
    BY <1>18 DEF OpenReturn, Leave
  <2> QED BY <1>0, <2>1 DEF MaskOK
<1> QED
  BY <1>1, <1>2, <1>3, <1>4, <1>5, <1>6, <1>7, <1>8, <1>9, <1>10, <1>11,
     <1>12, <1>13, <1>14, <1>15, <1>16, <1>17, <1>18
     DEF GroupDevStep

(* The calls a registered process starts. *)
LEMMA UserMask ==
    ASSUME MaskInv, NEW t \in Threads, UserStep(t)
    PROVE  MaskOK(t)' /\ masked' \in {masked, masked \cup {t}, masked \ {t}}
<1>0. /\ pc \in [Threads -> PCs] /\ cur \in [Threads -> Groups \cup {NoGroup}]
      /\ LocalOK(t) /\ MaskOK(t)
  BY DEF MaskInv, TypeInv, TypeOK
<1> USE DEF Goto, shared, locals, user, history
<1>1. ASSUME NEW id \in 0 .. GROUP_COUNT - 1, OpenDev(t, id) PROVE KeepsMask(t)
  BY <1>1 DEF OpenDev, KeepsMask, MaskedPCs
<1>2. CASE CloseUntracked(t)
  BY <1>2, QuietMask, <1>0 DEF CloseUntracked, Quits, KeepsMask, MaskedPCs
<1>3. CASE CloseTracked(t)
  <2>1. /\ pc[t] = "idle" /\ masked' = masked
        /\ pc' = pc \/ pc' = [pc EXCEPT ![t] = "rt_store"]
    BY <1>3 DEF CloseTracked, Quits
  <2>2. KeepsMask(t)
    BY <1>0, <2>1 DEF KeepsMask, MaskedPCs
  <2> QED BY <1>0, <2>2, QuietMask DEF KeepsMask
<1>4. CASE GetEvent(t)
  <2>1. KeepsMask(t)
    BY <1>0, <1>4 DEF GetEvent, KeepsMask, MaskedPCs
  <2> QED BY <1>0, <2>1, QuietMask DEF KeepsMask
<1>5. ASSUME NEW w \in Readers, NEW e \in Events, NEW v \in Answers,
             ReturnEvent(t, w, e, v)
      PROVE  KeepsMask(t)
  <2>1. /\ pc[t] = "idle" /\ masked' = masked
        /\ pc' = pc \/ pc' = [pc EXCEPT ![t] = "re_release"]
    BY <1>5 DEF ReturnEvent
  <2> QED BY <1>0, <2>1 DEF KeepsMask, MaskedPCs
<1>6. KeepsMask(t) => MaskOK(t)' /\ masked' = masked
  BY <1>0, QuietMask DEF KeepsMask
<1> QED BY <1>1, <1>2, <1>3, <1>4, <1>5, <1>6 DEF UserStep

(* The start of a command on the control device. *)
LEMMA CommandMask ==
    ASSUME MaskInv, NEW t \in Threads, CommandStep(t)
    PROVE  MaskOK(t)' /\ masked' \in {masked, masked \cup {t}, masked \ {t}}
<1>0. /\ pc \in [Threads -> PCs] /\ cur \in [Threads -> Groups \cup {NoGroup}]
      /\ LocalOK(t) /\ MaskOK(t)
  BY DEF MaskInv, TypeInv, TypeOK
<1> USE DEF Goto, shared, locals, user, history
<1>1. pc[t] = "idle" /\ masked' = masked
  BY DEF CommandStep, AddDown, DelDown, DownWrite
<1>2. \/ pc' = [pc EXCEPT ![t] = "add_check"]
      \/ pc' = [pc EXCEPT ![t] = "del"]
  BY DEF CommandStep, AddDown, DelDown, DownWrite
<1>3. KeepsMask(t)
  BY <1>0, <1>1, <1>2 DEF KeepsMask, MaskedPCs
<1> QED BY <1>0, <1>3, QuietMask DEF KeepsMask

(* The steps of dazukofs_add_group() and dazukofs_remove_group(). *)
LEMMA GroupCtrlMask ==
    ASSUME MaskInv, NEW t \in Threads, GroupCtrlStep(t)
    PROVE  MaskOK(t)' /\ masked' \in {masked, masked \cup {t}, masked \ {t}}
<1>0. /\ pc \in [Threads -> PCs] /\ cur \in [Threads -> Groups \cup {NoGroup}]
      /\ LocalOK(t) /\ MaskOK(t)
  BY DEF MaskInv, TypeInv, TypeOK
<1> USE DEF Goto, shared, locals, user, history
<1>1. CASE CheckForGroup(t)
  <2>1. /\ pc[t] = "add_check" /\ masked' = masked
        /\ \/ pc' = [pc EXCEPT ![t] = "idle"]
           \/ pc' = [pc EXCEPT ![t] = "add_room"]
    BY <1>1 DEF CheckForGroup, UpWrite
  <2>2. KeepsMask(t)
    BY <1>0, <2>1 DEF KeepsMask, MaskedPCs
  <2> QED BY <1>0, <2>2, QuietMask DEF KeepsMask
<1>2. CASE AddRoom(t)
  <2>1. /\ pc[t] = "add_room" /\ masked' = masked
        /\ \/ pc' = [pc EXCEPT ![t] = "idle"]
           \/ pc' = [pc EXCEPT ![t] = "add_link"]
    BY <1>2 DEF AddRoom, UpWrite
  <2>2. KeepsMask(t)
    BY <1>0, <2>1 DEF KeepsMask, MaskedPCs
  <2> QED BY <1>0, <2>2, QuietMask DEF KeepsMask
<1>3. CASE CreateGroupFails(t)
  <2>1. /\ pc[t] = "add_link" /\ masked' = masked
        /\ \/ pc' = [pc EXCEPT ![t] = "idle"]
           \/ pc' = [pc EXCEPT ![t] = "idle"]
    BY <1>3 DEF CreateGroupFails, UpWrite
  <2>2. KeepsMask(t)
    BY <1>0, <2>1 DEF KeepsMask, MaskedPCs
  <2> QED BY <1>0, <2>2, QuietMask DEF KeepsMask
<1>4. CASE AddLink(t)
  <2>1. /\ pc[t] = "add_link" /\ masked' = masked
        /\ \/ pc' = [pc EXCEPT ![t] = "idle"]
           \/ pc' = [pc EXCEPT ![t] = "add_load"]
    BY <1>4 DEF AddLink, UpWrite
  <2>2. KeepsMask(t)
    BY <1>0, <2>1 DEF KeepsMask, MaskedPCs
  <2> QED BY <1>0, <2>2, QuietMask DEF KeepsMask
<1>5. CASE AddLoad(t)
  <2>1. /\ pc[t] = "add_load" /\ masked' = masked
        /\ \/ pc' = [pc EXCEPT ![t] = "idle"]
           \/ pc' = [pc EXCEPT ![t] = "add_store"]
    BY <1>5 DEF AddLoad, UpWrite
  <2>2. KeepsMask(t)
    BY <1>0, <2>1 DEF KeepsMask, MaskedPCs
  <2> QED BY <1>0, <2>2, QuietMask DEF KeepsMask
<1>6. CASE AddStore(t)
  <2>1. /\ pc[t] = "add_store" /\ masked' = masked
        /\ \/ pc' = [pc EXCEPT ![t] = "idle"]
           \/ pc' = [pc EXCEPT ![t] = "idle"]
    BY <1>6 DEF AddStore, UpWrite
  <2>2. KeepsMask(t)
    BY <1>0, <2>1 DEF KeepsMask, MaskedPCs
  <2> QED BY <1>0, <2>2, QuietMask DEF KeepsMask
<1>7. CASE RemoveNothing(t)
  <2>1. /\ pc[t] = "del" /\ masked' = masked
        /\ \/ pc' = [pc EXCEPT ![t] = "idle"]
           \/ pc' = [pc EXCEPT ![t] = "idle"]
    BY <1>7 DEF RemoveNothing, UpWrite
  <2>2. KeepsMask(t)
    BY <1>0, <2>1 DEF KeepsMask, MaskedPCs
  <2> QED BY <1>0, <2>2, QuietMask DEF KeepsMask
<1>8. CASE RemoveGroup(t)
  <2> DEFINE p == [pc EXCEPT ![t] = "idle"]
  <2>1. pc[t] \notin MaskedPCs /\ masked' = masked /\ pc' = WakeCleared(p, NamedGroup(cmd[t][1]))
    BY <1>8 DEF RemoveGroup, MaskedPCs
  <2>2. p[t] = "idle"
    BY <1>0
  <2> HIDE DEF p
  <2>3. pc'[t] = "idle"
    BY <2>1, <2>2 DEF wake_up_group, wake_up_event, WakeCleared
  <2>4. KeepsMask(t)
    BY <2>1, <2>3 DEF KeepsMask, MaskedPCs
  <2> QED BY <1>0, <2>4, QuietMask DEF KeepsMask
<1> QED
  BY <1>1, <1>2, <1>3, <1>4, <1>5, <1>6, <1>7, <1>8
     DEF GroupCtrlStep

(***************************************************************************)
(* dentry_open() for the registered process raises no event, and the mask  *)
(* never outlives that open (mask_proc(), check_recursion()): NoRecursion  *)
(* holds for any number of processes, groups and events.                   *)
(***************************************************************************)
THEOREM RecursionExcluded ==
    Spec => []NoRecursion
<1>1. Init /\ TypeInv => MaskInv
  BY DEF Init, MaskInv, MaskOK
<1>2. ASSUME MaskInv, TypeInv', [Next]_vars PROVE MaskInv'
  <2>1. CASE UNCHANGED vars
    BY <1>2, <2>1 DEF MaskInv, MaskOK, vars, shared, locals
  <2>2. ASSUME NEW t \in Threads, ThreadStep(t) PROVE MaskInv'
    <3>1. MaskOK(t)' /\ masked' \in {masked, masked \cup {t}, masked \ {t}}
      BY <1>2, <2>2, CheckAccessMask, GroupDevMask, UserMask, CommandMask,
         GroupCtrlMask DEF ThreadStep, KernelStep, CallStep
    <3>2. \A u \in Threads \ {t} : Undisturbed(u) /\ MaskOK(u)
      BY <1>2, <2>2, OthersUndisturbed DEF MaskInv
    <3>3. \A u \in Threads \ {t} : MaskOK(u)'
      BY <3>1, <3>2, OthersMask
    <3> QED BY <1>2, <3>1, <3>3 DEF MaskInv
  <2>3. ASSUME NEW t \in Threads, FaultStep(t) PROVE MaskInv'
    BY <1>2, <2>3 DEF FaultStep, UseAfterFree, MaskInv, MaskOK, shared, locals
  <2> QED BY <1>2, <2>1, <2>2, <2>3 DEF Next
<1>3. MaskInv => NoRecursion
  <2>1. MaskInv => masked \subseteq Threads
    BY DEF MaskInv, TypeInv, TypeOK
  <2> QED BY <2>1 DEF MaskInv, MaskOK, NoRecursion, MaskedPCs
<1> QED BY <1>1, <1>2, <1>3, TypeInvInductive, PTL DEF Spec
=============================================================================
