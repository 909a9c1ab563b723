---------------------------- MODULE AccessProofs ----------------------------
(***************************************************************************)
(* Theorems about the events: what becomes of an access between            *)
(* dazukofs_check_access() and the groups, for any numbers of processes,   *)
(* groups, events and devices, and whatever the environment does.          *)
(***************************************************************************)
EXTENDS EventsProofs

(***************************************************************************)
(* Sequences: what list_add(), list_add_tail() and list_del() of the head  *)
(* do to the events on a todo list.                                        *)
(***************************************************************************)

\* no event is twice on the list s
NoRepeats(s) == \A i, j \in DOMAIN s : s[i] = s[j] => i = j

(* list_add_tail() of an event that is not on the list. *)
LEMMA RangeOfAppend ==
    ASSUME NEW S, NEW s \in Seq(S), NEW e \in S
    PROVE  /\ Range(Append(s, e)) = Range(s) \cup {e}
           /\ NoRepeats(s) /\ e \notin Range(s) => NoRepeats(Append(s, e))
<1> DEFINE r == Append(s, e)
<1>1. /\ DOMAIN s = 1 .. Len(s) /\ Len(s) \in Nat /\ DOMAIN r = 1 .. Len(s) + 1
      /\ \A i \in 1 .. Len(s) : r[i] = s[i]
      /\ r[Len(s) + 1] = e
  OBVIOUS
<1> HIDE DEF r
<1>2. \A i \in DOMAIN r : i \in DOMAIN s \/ i = Len(s) + 1
  BY <1>1
<1>3. DOMAIN s \subseteq DOMAIN r /\ Len(s) + 1 \in DOMAIN r
  BY <1>1
<1>4. Range(r) = Range(s) \cup {e}
  BY <1>1, <1>2, <1>3 DEF Range
<1>5. NoRepeats(s) /\ e \notin Range(s) => NoRepeats(r)
  BY <1>1, <1>2 DEF Range, NoRepeats
<1> QED BY <1>4, <1>5 DEF r

(* list_del() of the first event. *)
LEMMA RangeOfTail ==
    ASSUME NEW S, NEW s \in Seq(S), s # <<>>
    PROVE  /\ Head(s) \in Range(s) /\ Head(s) \in S
           /\ Range(s) = Range(Tail(s)) \cup {Head(s)}
           /\ NoRepeats(s) => NoRepeats(Tail(s)) /\ Head(s) \notin Range(Tail(s))
<1> DEFINE r == Tail(s)
<1>1. /\ DOMAIN s = 1 .. Len(s) /\ Len(s) \in Nat \ {0} /\ DOMAIN r = 1 .. Len(s) - 1
      /\ \A i \in 1 .. Len(s) - 1 : r[i] = s[i + 1]
      /\ Head(s) = s[1] /\ Head(s) \in S
  OBVIOUS
<1> HIDE DEF r
<1>2. \A i \in DOMAIN s : i = 1 \/ (i - 1 \in DOMAIN r /\ r[i - 1] = s[i])
  BY <1>1
<1>3. \A i \in DOMAIN r : i + 1 \in DOMAIN s /\ r[i] = s[i + 1]
  BY <1>1
<1>4. 1 \in DOMAIN s
  BY <1>1
<1>5. Range(s) = Range(r) \cup {Head(s)}
  BY <1>1, <1>2, <1>3, <1>4 DEF Range
<1>6. NoRepeats(s) => NoRepeats(r)
  <2> SUFFICES ASSUME NoRepeats(s), NEW i \in DOMAIN r, NEW j \in DOMAIN r, r[i] = r[j]
               PROVE  i = j
    BY DEF NoRepeats
  <2>1. i + 1 = j + 1
    BY <1>3 DEF NoRepeats
  <2> QED BY <1>1, <2>1
<1>7. NoRepeats(s) => Head(s) \notin Range(r)
  <2> SUFFICES ASSUME NoRepeats(s), NEW i \in DOMAIN r, r[i] = s[1] PROVE FALSE
    BY <1>1 DEF Range
  <2>1. i + 1 = 1
    BY <1>3, <1>4 DEF NoRepeats
  <2> QED BY <1>1, <2>1
<1> QED BY <1>1, <1>4, <1>5, <1>6, <1>7 DEF r, Range

(* list_add() of an event that is not on the list. *)
LEMMA RangeOfPush ==
    ASSUME NEW S, NEW s \in Seq(S), NEW e \in S
    PROVE  /\ Range(<<e>> \o s) = Range(s) \cup {e}
           /\ NoRepeats(s) /\ e \notin Range(s) => NoRepeats(<<e>> \o s)
           /\ <<e>> \o s # <<>>
<1> DEFINE r == <<e>> \o s
<1>1. /\ DOMAIN s = 1 .. Len(s) /\ Len(s) \in Nat /\ DOMAIN r = 1 .. Len(s) + 1
      /\ \A i \in 1 .. Len(s) : r[i + 1] = s[i]
      /\ r[1] = e
  OBVIOUS
<1> HIDE DEF r
<1>2. \A i \in DOMAIN r : i = 1 \/ (i - 1 \in DOMAIN s /\ s[i - 1] = r[i])
  BY <1>1
<1>3. \A i \in DOMAIN s : i + 1 \in DOMAIN r /\ s[i] = r[i + 1]
  BY <1>1
<1>4. 1 \in DOMAIN r
  BY <1>1
<1>5. Range(r) = Range(s) \cup {e}
  <2>1. ASSUME NEW x \in Range(r) PROVE x \in Range(s) \cup {e}
    BY <1>1, <1>2 DEF Range
  <2>2. Range(s) \subseteq Range(r) /\ e \in Range(r)
    BY <1>1, <1>3, <1>4 DEF Range
  <2> QED BY <2>1, <2>2
<1>6. NoRepeats(s) /\ e \notin Range(s) => NoRepeats(r)
  <2> SUFFICES ASSUME NoRepeats(s), e \notin Range(s),
                      NEW i \in DOMAIN r, NEW j \in DOMAIN r, r[i] = r[j]
               PROVE  i = j
    BY DEF NoRepeats
  <2>1. CASE i = 1 \/ j = 1
    BY <1>1, <1>2, <2>1 DEF Range
  <2>2. CASE i # 1 /\ j # 1
    <3>1. i - 1 = j - 1
      BY <1>2, <2>2 DEF NoRepeats
    <3> QED BY <1>1, <3>1
  <2> QED BY <2>1, <2>2
<1>7. r # <<>>
  BY <1>4
<1> QED BY <1>5, <1>6, <1>7 DEF r
-----------------------------------------------------------------------------
(***************************************************************************)
(* The inductive invariant.  The lists of a group and the threads that     *)
(* carry an answer of it are the only places where an event can be owed an *)
(* answer; what a group said is recorded in vote; the anonymous process    *)
(* that waits for the event is the only one that frees it.                 *)
(***************************************************************************)

\* the groups that may have containers on their lists
MayHold(g) == grp[g].state = "active" \/ g = removing

\* group g has not answered event e yet
Owes(e, g) == e \in Contained(g) \/ Releasing(e, g) # {}

QueueOK(g) ==
    /\ NoRepeats(todo[g])
    /\ Range(todo[g]) \cap working[g] = {}
    /\ \A e \in Contained(g) : e <= last_event_id /\ Releasing(e, g) = {}
    /\ ~MayHold(g) => Contained(g) = {}

EventOK(e) ==
    /\ \A g \in Groups : vote[e][g] = "pending" <=> Owes(e, g)
    /\ evt[e].assigned = Cardinality(Pending(e))
    /\ ~evt[e].deprecated
    /\ evt[e].deny <=> \E g \in Groups : vote[e][g] = "deny"
    /\ evt[e].state = "live" <=> \E t \in Threads : mine[t] = e
    /\ evt[e].state = "live" => e <= last_event_id
    /\ evt[e].state # "live" => vote[e] = NoVotes

WaitPCs == {"ev_wait", "ev_sleep", "ev_release"}

AccessOK(t) ==
    /\ mine[t] # NoEvent <=> pc[t] \in WaitPCs
    /\ pc[t] = "ev_sleep" => evt[mine[t]].assigned # 0
    /\ pc[t] = "ev_release" =>
          /\ evt[mine[t]].assigned = 0
          /\ ans[t] = IF evt[mine[t]].deny THEN "deny" ELSE "allow"
    /\ pc[t] = "re_release" => ans[t] \in {"allow", "deny"}

\* no event has two owners and no answer two carriers
OneOwner ==
    \A t, u \in Threads :
        /\ mine[t] = mine[u] /\ mine[t] # NoEvent => t = u
        /\ /\ pc[t] = "re_release" /\ pc[u] = "re_release"
           /\ cur[t] = cur[u] /\ ec[t] = ec[u]
           => t = u

\* inside __remove_group() one thread is at work, on a group
OneRemover ==
    \A t, u \in Threads :
        pc[t] = "rt_store" => removing \in Groups /\ (pc[u] = "rt_store" => t = u)

AccessInv ==
    /\ TypeInv /\ OneRemover
    /\ \A g \in Groups : QueueOK(g)
    /\ \A e \in Events : EventOK(e)
    /\ \A t \in Threads : AccessOK(t)
    /\ OneOwner
-----------------------------------------------------------------------------
(***************************************************************************)
(* The steps that leave every event where it is, apart from moving it      *)
(* between the two lists of a group.                                       *)
(***************************************************************************)
ListsKept ==
    \A g \in Groups : /\ Contained(g)' = Contained(g)
                      /\ NoRepeats(todo'[g])
                      /\ Range(todo'[g]) \cap working'[g] = {}

HoldersKept == \A g \in Groups : MayHold(g) => MayHold(g)'

\* t neither waits for an event nor carries an answer
Elsewhere(t) ==
    /\ pc[t] \notin WaitPCs \cup {"re_release"}
    /\ pc'[t] \notin WaitPCs \cup {"re_release"}

\* the step starts __remove_group(), ends it or has nothing to do with it
RemoverStep(t) ==
    \/ removing' = removing /\ pc'[t] # "rt_store"
    \/ removing = NoGroup /\ removing' \in Groups
    \/ pc[t] = "rt_store" /\ removing' = NoGroup /\ pc'[t] # "rt_store"

Quiet(t) ==
    /\ ListsKept /\ HoldersKept /\ Elsewhere(t) /\ RemoverStep(t)
    /\ UNCHANGED <<last_event_id, evt, vote, mine>>

\* what a step of t is to the other threads
OthersAside(t) == \A u \in Threads \ {t} : Undisturbed(u)

(* The other threads carry the answers they carried before. *)
LEMMA CarriersKept ==
    ASSUME NEW t \in Threads, OthersAside(t)
    PROVE  \A e, g : \A u \in Threads \ {t} :
              u \in Releasing(e, g)' <=> u \in Releasing(e, g)
  BY DEF OthersAside, Undisturbed, Releasing

(* A thread that carries no answer before a step and none after it. *)
LEMMA CarriersSame ==
    ASSUME NEW t \in Threads, OthersAside(t),
           pc[t] # "re_release", pc'[t] # "re_release"
    PROVE  \A e, g : Releasing(e, g)' = Releasing(e, g)
<1>1. \A e, g : t \notin Releasing(e, g) /\ t \notin Releasing(e, g)'
  BY DEF Releasing
<1>2. \A e, g : Releasing(e, g) \subseteq Threads /\ Releasing(e, g)' \subseteq Threads
  BY DEF Releasing
<1> QED BY <1>1, <1>2, CarriersKept

(* The event on which another thread waits is as it was, or has been released
   and its sleeper woken: the other threads keep AccessOK. *)
LEMMA OthersAccess ==
    ASSUME NEW t \in Threads, OthersAside(t), NEW u \in Threads \ {t}, AccessOK(u),
           pc[u] \in WaitPCs => evt'[mine[u]] = evt[mine[u]]
    PROVE  AccessOK(u)'
  BY DEF AccessOK, OthersAside, Undisturbed, WaitPCs

(* What the other threads have and carry belongs to them alone. *)
LEMMA OwnersKept ==
    ASSUME NEW t \in Threads, OneOwner, OthersAside(t),
           \A u \in Threads \ {t} : mine'[t] # NoEvent => mine[u] # mine'[t],
           \A u \in Threads \ {t} :
              pc'[t] = "re_release" => u \notin Releasing(ec'[t], cur'[t])
    PROVE  OneOwner'
<1> SUFFICES ASSUME NEW x \in Threads, NEW y \in Threads, x # y
             PROVE  /\ ~(mine'[x] = mine'[y] /\ mine'[x] # NoEvent)
                    /\ ~(/\ pc'[x] = "re_release" /\ pc'[y] = "re_release"
                         /\ cur'[x] = cur'[y] /\ ec'[x] = ec'[y])
  BY DEF OneOwner
<1>1. CASE x # t /\ y # t
  BY <1>1 DEF OneOwner, OthersAside, Undisturbed
<1>2. CASE x = t
  BY <1>2 DEF OthersAside, Undisturbed, Releasing
<1>3. CASE y = t
  BY <1>3 DEF OthersAside, Undisturbed, Releasing
<1> QED BY <1>1, <1>2, <1>3

(* There is still one remover at most. *)
LEMMA RemoverKept ==
    ASSUME NEW t \in Threads, OneRemover, OthersAside(t), RemoverStep(t)
    PROVE  OneRemover'
<1>1. NoGroup \notin Groups
  BY DEF NoGroup, Groups
<1>2. \A u \in Threads \ {t} : pc'[u] = "rt_store" <=> pc[u] = "rt_store"
  BY DEF OthersAside, Undisturbed
<1>3. CASE removing' = removing /\ pc'[t] # "rt_store"
  BY <1>2, <1>3 DEF OneRemover
<1>4. CASE removing = NoGroup /\ removing' \in Groups
  BY <1>1, <1>2, <1>4 DEF OneRemover
<1>5. CASE pc[t] = "rt_store" /\ removing' = NoGroup /\ pc'[t] # "rt_store"
  BY <1>2, <1>5 DEF OneRemover
<1> QED BY <1>3, <1>4, <1>5 DEF RemoverStep

(* A quiet step preserves the invariant. *)
LEMMA QuietAccess ==
    ASSUME AccessInv, TypeInv', NEW t \in Threads, OthersAside(t), Quiet(t)
    PROVE  AccessInv'
<1>1. \A e, g : Releasing(e, g)' = Releasing(e, g)
  BY CarriersSame DEF Quiet, Elsewhere
<1>2. ASSUME NEW g \in Groups PROVE QueueOK(g)'
  <2>1. QueueOK(g) /\ Contained(g)' = Contained(g)
    BY DEF AccessInv, Quiet, ListsKept
  <2>2. /\ NoRepeats(todo[g])' /\ (Range(todo[g]) \cap working[g] = {})'
        /\ MayHold(g) => MayHold(g)'
    BY DEF Quiet, ListsKept, HoldersKept, NoRepeats
  <2> QED BY <1>1, <2>1, <2>2 DEF QueueOK, Quiet
<1>3. ASSUME NEW e \in Events PROVE EventOK(e)'
  <2>1. Pending(e)' = Pending(e)
    BY DEF Quiet, Pending
  <2>2. \A g \in Groups : Owes(e, g)' <=> Owes(e, g)
    BY <1>1 DEF Owes, Quiet, ListsKept
  <2>3. EventOK(e)
    BY DEF AccessInv
  <2> QED BY <2>1, <2>2, <2>3 DEF EventOK, Quiet
<1>4. ASSUME NEW u \in Threads PROVE AccessOK(u)'
  <2>1. AccessOK(u)
    BY DEF AccessInv
  <2>2. CASE u = t
    BY <2>1, <2>2 DEF AccessOK, Quiet, Elsewhere, WaitPCs
  <2>3. CASE u # t
    BY <2>1, <2>3, OthersAccess DEF Quiet
  <2> QED BY <2>2, <2>3
<1>5. OneOwner'
  <2>1. mine'[t] = NoEvent
    BY DEF AccessInv, AccessOK, Quiet, Elsewhere
  <2> QED BY <2>1, OwnersKept DEF AccessInv, Quiet, Elsewhere
<1>6. OneRemover'
  BY RemoverKept DEF AccessInv, Quiet
<1> QED BY <1>2, <1>3, <1>4, <1>5, <1>6 DEF AccessInv

(* A reference to a group, or one less, changes nothing else about it. *)
LEMMA CountOnly ==
    ASSUME TypeOK, NEW g, get_group(g) \/ put_group(g) \/ grp' = grp
    PROVE  \A h \in Groups : /\ grp'[h].state = grp[h].state /\ grp'[h].id = grp[h].id
                             /\ grp'[h].name = grp[h].name
                             /\ grp'[h].tracking = grp[h].tracking
                             /\ grp'[h].track_count = grp[h].track_count
<1> SUFFICES ASSUME NEW h \in Groups
             PROVE  /\ grp'[h].state = grp[h].state /\ grp'[h].id = grp[h].id
                    /\ grp'[h].name = grp[h].name
                    /\ grp'[h].tracking = grp[h].tracking
                    /\ grp'[h].track_count = grp[h].track_count
  OBVIOUS
<1>1. grp \in [Groups -> Group] /\ grp[h] \in Group
  BY DEF TypeOK
<1>2. CASE get_group(g)
  BY <1>1, <1>2 DEF get_group, Group
<1>3. CASE put_group(g)
  BY <1>1, <1>3 DEF put_group, Group
<1> QED BY <1>2, <1>3

(* A step that touches no list and only the use_count of a group is quiet. *)
LEMMA QuietByCount ==
    ASSUME AccessInv, NEW t \in Threads, Elsewhere(t), pc'[t] # "rt_store", NEW g,
           get_group(g) \/ put_group(g) \/ grp' = grp,
           UNCHANGED <<todo, working, removing, last_event_id, evt, vote, mine>>
    PROVE  Quiet(t)
<1>1. ListsKept
  BY DEF ListsKept, AccessInv, QueueOK, Contained
<1>2. HoldersKept
  BY CountOnly DEF HoldersKept, MayHold, AccessInv, TypeInv
<1> QED BY <1>1, <1>2 DEF Quiet, RemoverStep

(* The steps of dazukofs_check_access() up to the assignment are quiet. *)
LEMMA CheckAccessQuiet ==
    ASSUME AccessInv, NEW t \in Threads, CheckAccessStep(t)
    PROVE  \/ Quiet(t)
           \/ Assign(t) \/ WaitEvent(t) \/ ReadVerdict(t) \/ ReleaseOwn(t)
<1>0. pc \in [Threads -> PCs]
  BY DEF AccessInv, TypeInv, TypeOK
<1> USE DEF Goto, shared, locals, user, history
<1>a. ASSUME NEW l \in {"idle", "open_ret", "precheck", "allocate", "assign"},
             pc' = [pc EXCEPT ![t] = l],
             pc[t] \notin WaitPCs \cup {"re_release"},
             grp' = grp,
             UNCHANGED <<todo, working, removing, last_event_id, evt, vote, mine>>
      PROVE  Quiet(t)
  <2>1. Elsewhere(t) /\ pc'[t] # "rt_store"
    BY <1>0, <1>a DEF Elsewhere, WaitPCs
  <2> QED BY <1>a, <2>1, QuietByCount
<1>b. ASSUME NEW v, CheckAccessReturns(t, v)
      PROVE  \/ pc' = [pc EXCEPT ![t] = "idle"] \/ pc' = [pc EXCEPT ![t] = "open_ret"]
  BY <1>b DEF CheckAccessReturns
<1>1. CASE DownRead(t)
  BY <1>1, <1>a DEF DownRead, WaitPCs
<1>2. CASE PrecheckPasses(t)
  BY <1>2, <1>a, <1>b DEF PrecheckPasses, WaitPCs
<1>3. CASE PrecheckHandles(t)
  BY <1>3, <1>a DEF PrecheckHandles, WaitPCs
<1>4. CASE Allocate(t)
  BY <1>4, <1>a DEF Allocate, WaitPCs
<1>5. CASE AllocateFails(t)
  BY <1>5, <1>a, <1>b DEF AllocateFails, WaitPCs
<1>6. CASE AssignOverruns(t)
  <2>1. pc[t] = "assign" /\ pc' = [pc EXCEPT ![t] = "assign"]
    BY <1>0, <1>6 DEF AssignOverruns
  <2> QED BY <1>6, <1>a, <2>1 DEF AssignOverruns, WaitPCs
<1> QED
  BY <1>1, <1>2, <1>3, <1>4, <1>5, <1>6 DEF CheckAccessStep

(* Taking an event off the todo list and putting it back moves it between the
   two lists of the group. *)
LEMMA ClaimKeepsLists ==
    ASSUME AccessInv, NEW t \in Threads, ClaimEvent(t) \/ Unclaim(t),
           ~UsesFreedContainer(t)
    PROVE  ListsKept
<1>0. /\ todo \in [Groups -> Seq(Events)] /\ working \in [Groups -> SUBSET Events]
      /\ cur[t] \in Groups
  BY DEF AccessInv, TypeInv, TypeOK, LocalOK, HasGroup, ClaimEvent, Unclaim
<1>g. PICK g \in Groups : g = cur[t]
  BY <1>0
<1>1. QueueOK(g) /\ todo[g] \in Seq(Events)
  BY <1>0 DEF AccessInv
<1>2. ASSUME NEW h \in Groups, h # g
      PROVE  todo'[h] = todo[h] /\ working'[h] = working[h]
  BY <1>0, <1>g, <1>2 DEF ClaimEvent, Unclaim, Requeue
<1>3. /\ Contained(g)' = Contained(g) /\ NoRepeats(todo'[g])
      /\ Range(todo'[g]) \cap working'[g] = {}
  <2>1. CASE UNCHANGED <<todo, working>>
    BY <1>1, <2>1 DEF QueueOK, Contained
  <2>2. CASE ClaimEvent(t) /\ todo[g] # <<>>
    <3>1. todo'[g] = Tail(todo[g]) /\ working'[g] = working[g] \cup {Head(todo[g])}
      BY <1>0, <1>g, <2>2 DEF ClaimEvent
    <3> QED BY <1>1, <2>2, <3>1, RangeOfTail DEF QueueOK, Contained
  <2>3. CASE Unclaim(t)
    <3>1. /\ todo'[g] = <<ec[t]>> \o todo[g] /\ working'[g] = working[g] \ {ec[t]}
          /\ ec[t] \in working[g] /\ ec[t] \in Events
      BY <1>0, <1>g, <2>3 DEF Unclaim, Requeue, UsesFreedContainer
    <3> QED BY <1>1, <3>1, RangeOfPush DEF QueueOK, Contained
  <2> QED BY <1>g, <2>1, <2>2, <2>3 DEF ClaimEvent
<1> QED
  BY <1>2, <1>3 DEF ListsKept, AccessInv, QueueOK, Contained

\* __clear_group_event_list() on both lists of g, and the wake-ups
Clears(t, g) ==
    /\ ClearGroup(g)
    /\ pc' = WakeCleared([pc EXCEPT ![t] = "idle"], g)
    /\ pc[t] \notin WaitPCs \cup {"re_release"}
    /\ \A h \in Groups \ {g} : MayHold(h) => MayHold(h)'
    /\ RemoverStep(t)
    /\ UNCHANGED <<last_event_id, mine>>

\* t takes event e off the working list of g, to release it
Takes(t, g, e) ==
    /\ e \in working[g]
    /\ working' = [working EXCEPT ![g] = @ \ {e}]
    /\ pc[t] = "idle" /\ pc'[t] = "re_release" /\ cur'[t] = g /\ ec'[t] = e
    /\ ans'[t] \in {"allow", "deny"}
    /\ HoldersKept
    /\ UNCHANGED <<removing, todo, last_event_id, evt, vote, mine>>

(* The steps inside read(2), write(2), poll(2) and close(2): all are quiet but
   the release of an answered event and the end of __remove_group(). *)
LEMMA GroupDevQuiet ==
    ASSUME AccessInv, NEW t \in Threads, GroupDevStep(t), ~UsesFreedContainer(t)
    PROVE  Quiet(t) \/ ReleaseAnswered(t) \/ (\E g \in Groups : Clears(t, g))
<1>0. pc \in [Threads -> PCs]
  BY DEF AccessInv, TypeInv, TypeOK
<1> DEFINE Steps == {"idle", "ge_sleep", "ge_check", "ge_claim", "ge_wait", "open",
                     "dentry_open", "open_ret", "unclaim", "unclaim_wake", "copy",
                     "poll_check", "poll_free", "poll_sleep"}
<1> USE DEF Goto, shared, locals, user, history
<1>a. ASSUME NEW l \in Steps, pc' = [pc EXCEPT ![t] = l],
             pc[t] \notin WaitPCs \cup {"re_release"}
      PROVE  Elsewhere(t) /\ pc'[t] # "rt_store"
  BY <1>0, <1>a DEF Elsewhere, WaitPCs
<1>b. ASSUME NEW l \in Steps, pc' = [pc EXCEPT ![t] = l],
             pc[t] \notin WaitPCs \cup {"re_release"},
             (\E g : get_group(g) \/ put_group(g)) \/ grp' = grp,
             UNCHANGED <<todo, working, removing, last_event_id, evt, vote, mine>>
      PROVE  Quiet(t)
  <2>1. Elsewhere(t) /\ pc'[t] # "rt_store"
    BY <1>a, <1>b
  <2> QED BY <1>b, <2>1, QuietByCount
<1>c. ASSUME ClaimEvent(t) \/ Unclaim(t) PROVE Quiet(t)
  <2>1. ListsKept
    BY <1>c, ClaimKeepsLists
  <2>2. /\ \E l \in Steps : pc' = [pc EXCEPT ![t] = l]
        /\ pc[t] \notin WaitPCs \cup {"re_release"}
        /\ UNCHANGED <<removing, grp, last_event_id, evt, vote, mine>>
    BY <1>c DEF ClaimEvent, Unclaim, WaitPCs
  <2>3. Elsewhere(t) /\ pc'[t] # "rt_store"
    BY <1>a, <2>2
  <2>4. HoldersKept
    BY <2>2 DEF HoldersKept, MayHold
  <2> QED BY <2>1, <2>2, <2>3, <2>4 DEF Quiet, RemoverStep
<1>1. CASE StoreRemoved(t)
  <2>1. removing \in Groups /\ pc[t] = "rt_store"
    BY <1>1 DEF AccessInv, OneRemover, StoreRemoved
  <2>2. PICK g \in Groups : g = removing
    BY <2>1
  <2>3. /\ ClearGroup(g) /\ removing' = NoGroup /\ grp' = grp
        /\ pc' = WakeCleared([pc EXCEPT ![t] = "idle"], g)
        /\ UNCHANGED <<last_event_id, mine>>
    BY <1>1, <2>2 DEF StoreRemoved
  <2>4. pc'[t] = "idle"
    <3> DEFINE p == [pc EXCEPT ![t] = "idle"]
    <3>1. p[t] = "idle" /\ pc' = WakeCleared(p, g)
      BY <1>0, <2>3
    <3> HIDE DEF p
    <3> QED BY <3>1 DEF WakeCleared, wake_up_group, wake_up_event
  <2>5. \A h \in Groups \ {g} : MayHold(h) => MayHold(h)'
    BY <2>2, <2>3 DEF MayHold
  <2>6. Clears(t, g)
    BY <2>1, <2>3, <2>4, <2>5 DEF Clears, WaitPCs, RemoverStep
  <2> QED BY <2>6
<1>2. CASE GetEventWait(t)
  BY <1>2, <1>b DEF GetEventWait, WaitPCs
<1>3. CASE GetEventSignal(t)
  <2>1. (\E g : get_group(g) \/ put_group(g)) \/ grp' = grp
    BY <1>3 DEF GetEventSignal, Leave
  <2>2. /\ \E l \in Steps : pc' = [pc EXCEPT ![t] = l]
        /\ pc[t] \notin WaitPCs \cup {"re_release"}
    BY <1>3 DEF GetEventSignal, Leave, WaitPCs
  <2>3. UNCHANGED <<todo, working, removing, last_event_id, evt, vote, mine>>
    BY <1>3 DEF GetEventSignal
  <2> QED BY <1>b, <2>1, <2>2, <2>3
<1>4. CASE GetEventCheck(t)
  <2>1. (\E g : get_group(g) \/ put_group(g)) \/ grp' = grp
    BY <1>4 DEF GetEventCheck, Leave
  <2>2. /\ \E l \in Steps : pc' = [pc EXCEPT ![t] = l]
        /\ pc[t] \notin WaitPCs \cup {"re_release"}
    BY <1>4 DEF GetEventCheck, Leave, WaitPCs
  <2>3. UNCHANGED <<todo, working, removing, last_event_id, evt, vote, mine>>
    BY <1>4 DEF GetEventCheck
  <2> QED BY <1>b, <2>1, <2>2, <2>3
<1>5. CASE ClaimEvent(t)
  BY <1>5, <1>c
<1>6. CASE OpenFile(t)
  BY <1>6, <1>b DEF OpenFile, WaitPCs
<1>7. CASE OpenFileNoFd(t)
  BY <1>7, <1>b DEF OpenFileNoFd, WaitPCs
<1>8. CASE DentryOpenFails(t)
  BY <1>8, <1>b DEF DentryOpenFails, WaitPCs
<1>9. CASE OpenReturn(t)
  <2>1. (\E g : get_group(g) \/ put_group(g)) \/ grp' = grp
    BY <1>9 DEF OpenReturn, Leave
  <2>2. /\ \E l \in Steps : pc' = [pc EXCEPT ![t] = l]
        /\ pc[t] \notin WaitPCs \cup {"re_release"}
    BY <1>9 DEF OpenReturn, Leave, WaitPCs
  <2>3. UNCHANGED <<todo, working, removing, last_event_id, evt, vote, mine>>
    BY <1>9 DEF OpenReturn
  <2> QED BY <1>b, <2>1, <2>2, <2>3
<1>10. CASE Unclaim(t)
  BY <1>10, <1>c
<1>11. CASE UnclaimWake(t)
  <2> DEFINE p == [pc EXCEPT ![t] = "idle"]
  <2>1. pc[t] = "unclaim_wake" /\ p[t] = "idle" /\ pc' = wake_up_group(p, {cur[t]})
    BY <1>0, <1>11 DEF UnclaimWake
  <2> HIDE DEF p
  <2>2. pc'[t] = "idle"
    BY <2>1 DEF wake_up_group
  <2>3. Elsewhere(t)
    BY <2>1, <2>2 DEF Elsewhere, WaitPCs
  <2>4. put_group(cur[t]) /\
        UNCHANGED <<todo, working, removing, last_event_id, evt, vote, mine>>
    BY <1>11 DEF UnclaimWake
  <2> QED BY <2>2, <2>3, <2>4, QuietByCount
<1>12. CASE CopyOut(t)
  BY <1>12, <1>b DEF CopyOut, WaitPCs
<1>13. CASE CopyFails(t)
  <2>1. (\E g : get_group(g) \/ put_group(g)) \/ grp' = grp
    BY <1>13 DEF CopyFails
  <2>2. /\ \E l \in Steps : pc' = [pc EXCEPT ![t] = l]
        /\ pc[t] \notin WaitPCs \cup {"re_release"}
    BY <1>13 DEF CopyFails, WaitPCs
  <2>3. UNCHANGED <<todo, working, removing, last_event_id, evt, vote, mine>>
    BY <1>13 DEF CopyFails
  <2> QED BY <1>b, <2>1, <2>2, <2>3
<1>14. CASE PollLookup(t)
  <2>1. (\E g : get_group(g) \/ put_group(g)) \/ grp' = grp
    BY <1>14 DEF PollLookup
  <2>2. /\ \E l \in Steps : pc' = [pc EXCEPT ![t] = l]
        /\ pc[t] \notin WaitPCs \cup {"re_release"}
    BY <1>14 DEF PollLookup, WaitPCs
  <2>3. UNCHANGED <<todo, working, removing, last_event_id, evt, vote, mine>>
    BY <1>14 DEF PollLookup
  <2> QED BY <1>b, <2>1, <2>2, <2>3
<1>15. CASE PollCheck(t)
  <2>1. (\E g : get_group(g) \/ put_group(g)) \/ grp' = grp
    BY <1>15 DEF PollCheck, Leave
  <2>2. /\ \E l \in Steps : pc' = [pc EXCEPT ![t] = l]
        /\ pc[t] \notin WaitPCs \cup {"re_release"}
    BY <1>15 DEF PollCheck, Leave, WaitPCs
  <2>3. UNCHANGED <<todo, working, removing, last_event_id, evt, vote, mine>>
    BY <1>15 DEF PollCheck
  <2> QED BY <1>b, <2>1, <2>2, <2>3
<1>16. CASE PollTimeout(t)
  BY <1>16, <1>b DEF PollTimeout, WaitPCs
<1>17. CASE PollFree(t)
  BY <1>17, <1>b DEF PollFree, WaitPCs
<1> QED
  BY <1>1, <1>2, <1>3, <1>4, <1>5, <1>6, <1>7, <1>8, <1>9, <1>10, <1>11, <1>12,
     <1>13, <1>14, <1>15, <1>16, <1>17 DEF GroupDevStep

(* A step that touches no list and deprecates no group is quiet. *)
LEMMA QuietByState ==
    ASSUME AccessInv, NEW t \in Threads, Elsewhere(t), RemoverStep(t), HoldersKept,
           UNCHANGED <<todo, working, last_event_id, evt, vote, mine>>
    PROVE  Quiet(t)
<1>1. ListsKept
  BY DEF ListsKept, AccessInv, QueueOK, Contained
<1> QED BY <1>1 DEF Quiet

(* The calls a registered process makes: all are quiet but an answer to an
   event that is on the working list. *)
LEMMA UserQuiet ==
    ASSUME AccessInv, NEW t \in Threads, UserStep(t)
    PROVE  Quiet(t) \/ (\E g \in Groups, e \in Events : Takes(t, g, e))
<1>0. TypeOK /\ pc \in [Threads -> PCs] /\ grp \in [Groups -> Group]
  BY DEF AccessInv, TypeInv, TypeOK
<1>g. MyGroup(t) \in Groups \cup {NoGroup}
  BY LookupType DEF MyGroup
<1> USE DEF Goto, shared, locals, user, history
<1>1. ASSUME NEW id, OpenDev(t, id) PROVE Quiet(t)
  <2>1. /\ pc[t] = "idle" /\ pc' = pc /\ removing' = removing
        /\ UNCHANGED <<todo, working, last_event_id, evt, vote, mine>>
    BY <1>1 DEF OpenDev
  <2>2. \A h \in Groups : grp'[h].state = grp[h].state
    <3> DEFINE g == LookupGroup(id)
    <3>1. \/ grp' = grp
          \/ grp' = [grp EXCEPT ![g].use_count = @ + 1, ![g].track_count = @ + 1]
      BY <1>1 DEF OpenDev
    <3> HIDE DEF g
    <3> QED BY <1>0, <3>1 DEF Group
  <2>3. Elsewhere(t) /\ RemoverStep(t)
    BY <2>1 DEF Elsewhere, WaitPCs, RemoverStep
  <2>4. HoldersKept
    BY <2>1, <2>2 DEF HoldersKept, MayHold
  <2> QED BY <2>1, <2>3, <2>4, QuietByState
<1>2. CASE CloseUntracked(t)
  <2>1. /\ pc[t] = "idle" /\ pc' = pc /\ UNCHANGED <<removing, grp>>
        /\ UNCHANGED <<todo, working, last_event_id, evt, vote, mine>>
    BY <1>2 DEF CloseUntracked, Quits
  <2>2. Elsewhere(t) /\ pc'[t] # "rt_store"
    BY <2>1 DEF Elsewhere, WaitPCs
  <2> QED BY <2>1, <2>2, QuietByCount
<1>3. CASE CloseTracked(t)
  <2> DEFINE g == MyGroup(t)
  <2>1. /\ pc[t] = "idle" /\ removing = NoGroup
        /\ UNCHANGED <<todo, working, last_event_id, evt, vote, mine>>
        /\ \/ /\ g # NoGroup /\ removing' = g /\ pc' = [pc EXCEPT ![t] = "rt_store"]
              /\ grp' = [Untrack(g) EXCEPT ![g].state = "deprecated"]
           \/ UNCHANGED <<removing, pc>> /\ grp' = Untrack(g)
           \/ UNCHANGED <<removing, pc, grp>>
    BY <1>3 DEF CloseTracked, Quits, WorkMutexFree
  <2> HIDE DEF g
  <2>2. g \in Groups \cup {NoGroup}
    BY <1>g DEF g
  <2>3. Elsewhere(t) /\ RemoverStep(t)
    BY <1>0, <2>1, <2>2 DEF Elsewhere, WaitPCs, RemoverStep
  <2>4. \A h \in Groups : Untrack(g)[h].state = grp[h].state
    BY <1>0 DEF Untrack, Group
  <2>5. \A h \in Groups \ {g} :
           [Untrack(g) EXCEPT ![g].state = "deprecated"][h].state = grp[h].state
    BY <1>0 DEF Untrack, Group
  <2>6. HoldersKept
    <3> SUFFICES ASSUME NEW h \in Groups, MayHold(h) PROVE MayHold(h)'
      BY DEF HoldersKept
    <3>1. grp[h].state = "active"
      BY <2>1 DEF MayHold, NoGroup, Groups
    <3>2. grp'[h].state = grp[h].state \/ h = removing'
      BY <2>1, <2>4, <2>5, Zenon
    <3> QED BY <3>1, <3>2 DEF MayHold
  <2> QED BY <2>1, <2>3, <2>6, QuietByState
<1>4. CASE GetEvent(t)
  <2>1. /\ pc[t] = "idle" /\ pc' = [pc EXCEPT ![t] = "ge_wait"] /\ get_group(MyGroup(t))
        /\ UNCHANGED <<todo, working, removing, last_event_id, evt, vote, mine>>
    BY <1>4 DEF GetEvent
  <2>2. Elsewhere(t) /\ pc'[t] # "rt_store"
    BY <1>0, <2>1 DEF Elsewhere, WaitPCs
  <2> QED BY <2>1, <2>2, QuietByCount
<1>5. ASSUME NEW u \in Readers, NEW e \in Events, NEW v \in Answers,
             ReturnEvent(t, u, e, v)
      PROVE  Quiet(t) \/ (\E g \in Groups : Takes(t, g, e))
  <2>g. PICK g \in Groups \cup {NoGroup} : g = MyGroup(t)
    BY <1>g
  <2>1. /\ pc[t] = "idle" /\ v \in {"allow", "deny"}
        /\ UNCHANGED <<todo, removing, last_event_id, evt, vote, mine>>
    BY <1>5 DEF ReturnEvent
  <2>2. CASE g # NoGroup /\ e \in working[g]
    <3>1. /\ get_group(g) /\ cur' = [cur EXCEPT ![t] = g]
          /\ working' = [working EXCEPT ![g] = @ \ {e}]
          /\ ec' = [ec EXCEPT ![t] = e] /\ ans' = [ans EXCEPT ![t] = v]
          /\ pc' = [pc EXCEPT ![t] = "re_release"]
      BY <1>5, <2>g, <2>2 DEF ReturnEvent
    <3>2. /\ cur'[t] = g /\ ec'[t] = e /\ ans'[t] \in {"allow", "deny"}
          /\ pc'[t] = "re_release"
      BY <1>0, <2>1, <3>1 DEF TypeOK
    <3>3. HoldersKept
      BY <1>0, <2>1, <3>1, CountOnly DEF HoldersKept, MayHold
    <3> QED BY <2>1, <2>2, <3>1, <3>2, <3>3 DEF Takes
  <2>3. CASE ~(g # NoGroup /\ e \in working[g])
    <3>1. UNCHANGED <<grp, working, pc>>
      BY <1>5, <2>g, <2>3 DEF ReturnEvent
    <3>2. Elsewhere(t) /\ pc'[t] # "rt_store"
      BY <2>1, <3>1 DEF Elsewhere, WaitPCs
    <3> QED BY <2>1, <3>1, <3>2, QuietByCount
  <2> QED BY <2>2, <2>3
<1> QED
  BY <1>1, <1>2, <1>3, <1>4, <1>5 DEF UserStep

(* The steps of a control process: all are quiet but the removal of a group. *)
LEMMA GroupCtrlQuiet ==
    ASSUME AccessInv, NEW t \in Threads, GroupCtrlStep(t) \/ CommandStep(t)
    PROVE  Quiet(t) \/ (\E g \in Groups : Clears(t, g))
<1>0. TypeOK /\ pc \in [Threads -> PCs] /\ grp \in [Groups -> Group]
  BY DEF AccessInv, TypeInv, TypeOK
<1> DEFINE Steps == {"idle", "add_check", "add_room", "add_link", "add_load",
                     "add_store", "del"}
<1> USE DEF Goto, shared, locals, user, history
<1>b. ASSUME pc[t] \in Steps, NEW l \in Steps, pc' = [pc EXCEPT ![t] = l],
             \A h \in Groups : grp[h].state = "active" => grp'[h].state = "active",
             UNCHANGED <<todo, working, removing, last_event_id, evt, vote, mine>>
      PROVE  Quiet(t)
  <2>1. Elsewhere(t) /\ RemoverStep(t)
    BY <1>0, <1>b DEF Elsewhere, WaitPCs, RemoverStep
  <2>2. HoldersKept
    BY <1>b DEF HoldersKept, MayHold
  <2> QED BY <1>b, <2>1, <2>2, QuietByState
<1>1. CASE CommandStep(t)
  <2>1. /\ pc[t] = "idle" /\ \E l \in Steps : pc' = [pc EXCEPT ![t] = l]
        /\ UNCHANGED <<todo, working, removing, grp, last_event_id, evt, vote, mine>>
    BY <1>1 DEF CommandStep, AddDown, DelDown, DownWrite
  <2> QED BY <1>b, <2>1
<1>2. CASE CheckForGroup(t)
  <2> DEFINE h == NamedGroup(cmd[t][1])
             S == Swept(h)
  <2>1. /\ pc[t] = "add_check" /\ \E l \in Steps : pc' = [pc EXCEPT ![t] = l]
        /\ UNCHANGED <<todo, working, removing, last_event_id, evt, vote, mine>>
    BY <1>2 DEF CheckForGroup, UpWrite
  <2>2. grp' = [g \in Groups |->
                 IF g \in S THEN NullGroup("freed")
                 ELSE IF g = h THEN [grp[g] EXCEPT !.tracking = @ \/ cmd[t][2]]
                 ELSE grp[g]]
    BY <1>2 DEF CheckForGroup
  <2>3. \A g \in S : grp[g].state = "deprecated"
    BY DEF Swept, Sweepable
  <2> HIDE DEF h, S
  <2>4. ASSUME NEW g \in Groups, grp[g].state = "active" PROVE grp'[g].state = "active"
    BY <1>0, <2>2, <2>3, <2>4 DEF Group
  <2> QED BY <1>b, <2>1, <2>4
<1>3. CASE AddRoom(t)
  <2>1. /\ pc[t] = "add_room" /\ \E l \in Steps : pc' = [pc EXCEPT ![t] = l]
        /\ UNCHANGED <<todo, working, removing, grp, last_event_id, evt, vote, mine>>
    BY <1>3 DEF AddRoom, UpWrite
  <2> QED BY <1>b, <2>1
<1>4. CASE CreateGroupFails(t)
  <2>1. /\ pc[t] = "add_link" /\ \E l \in Steps : pc' = [pc EXCEPT ![t] = l]
        /\ UNCHANGED <<todo, working, removing, grp, last_event_id, evt, vote, mine>>
    BY <1>4 DEF CreateGroupFails, UpWrite
  <2> QED BY <1>b, <2>1
<1>5. CASE AddLink(t)
  <2> DEFINE new == [NullGroup("active") EXCEPT !.name = cmd[t][1], !.id = cnt[t],
                                                !.tracking = cmd[t][2]]
  <2>1. /\ pc[t] = "add_link" /\ \E l \in Steps : pc' = [pc EXCEPT ![t] = l]
        /\ grp' = [grp EXCEPT ![FreshGroup] = new]
        /\ UNCHANGED <<todo, working, removing, last_event_id, evt, vote, mine>>
    BY <1>5 DEF AddLink
  <2>2. new.state = "active"
    BY DEF NullGroup
  <2> HIDE DEF new
  <2>3. \A h \in Groups : grp[h].state = "active" => grp'[h].state = "active"
    BY <1>0, <2>1, <2>2
  <2> QED BY <1>b, <2>1, <2>3
<1>6. CASE AddLoad(t)
  <2>1. /\ pc[t] = "add_load" /\ \E l \in Steps : pc' = [pc EXCEPT ![t] = l]
        /\ UNCHANGED <<todo, working, removing, grp, last_event_id, evt, vote, mine>>
    BY <1>6 DEF AddLoad
  <2> QED BY <1>b, <2>1
<1>7. CASE AddStore(t)
  <2>1. /\ pc[t] = "add_store" /\ \E l \in Steps : pc' = [pc EXCEPT ![t] = l]
        /\ UNCHANGED <<todo, working, removing, grp, last_event_id, evt, vote, mine>>
    BY <1>7 DEF AddStore, UpWrite
  <2> QED BY <1>b, <2>1
<1>8. CASE RemoveNothing(t)
  <2>1. /\ pc[t] = "del" /\ \E l \in Steps : pc' = [pc EXCEPT ![t] = l]
        /\ UNCHANGED <<todo, working, removing, grp, last_event_id, evt, vote, mine>>
    BY <1>8 DEF RemoveNothing, UpWrite
  <2> QED BY <1>b, <2>1
<1>9. CASE RemoveGroup(t)
  <2>1. NamedGroup(cmd[t][1]) \in Groups
    <3>1. {h \in Active : grp[h].name = cmd[t][1]} \subseteq Groups
      BY DEF Active
    <3> QED BY <1>9, <3>1, FirstOfGroups DEF RemoveGroup, NamedGroup
  <2>2. PICK g \in Groups : g = NamedGroup(cmd[t][1])
    BY <2>1
  <2>3. /\ pc[t] = "del" /\ ClearGroup(g) /\ removing' = removing
        /\ pc' = WakeCleared([pc EXCEPT ![t] = "idle"], g)
        /\ grp' = [grp EXCEPT ![g].state = "deprecated"]
        /\ UNCHANGED <<last_event_id, mine>>
    BY <1>9, <2>2 DEF RemoveGroup
  <2>4. pc'[t] = "idle"
    <3> DEFINE p == [pc EXCEPT ![t] = "idle"]
    <3>1. p[t] = "idle" /\ pc' = WakeCleared(p, g)
      BY <1>0, <2>3
    <3> HIDE DEF p
    <3> QED BY <3>1 DEF WakeCleared, wake_up_group, wake_up_event
  <2>5. \A h \in Groups \ {g} : MayHold(h) => MayHold(h)'
    BY <1>0, <2>3 DEF MayHold
  <2>6. Clears(t, g)
    BY <2>3, <2>4, <2>5 DEF Clears, WaitPCs, RemoverStep
  <2> QED BY <2>6
<1> QED
  BY <1>1, <1>2, <1>3, <1>4, <1>5, <1>6, <1>7, <1>8, <1>9 DEF GroupCtrlStep
-----------------------------------------------------------------------------
(***************************************************************************)
(* The steps that change an event.                                         *)
(***************************************************************************)

\* what release_event(S, g, v) does to an event e
AfterRelease(S, g, v, e) ==
    /\ e \notin S => evt'[e] = evt[e] /\ vote'[e] = vote[e]
    /\ e \in S => /\ evt'[e].assigned = evt[e].assigned - 1
                  /\ evt'[e].state = evt[e].state
                  /\ ~evt'[e].deprecated
                  /\ evt'[e].deny <=> (evt[e].deny \/ v = "deny")
                  /\ vote'[e] = [vote[e] EXCEPT ![g] = v]
                  /\ evt[e].assigned = 1 => e \in Woken(S)

(* release_event() on events that are owed an answer by g: each loses one
   holder and none is freed, because the process that waits is still there. *)
LEMMA ReleaseOne ==
    ASSUME AccessInv, NEW S, NEW g, NEW v, release_event(S, g, v), NEW e \in Events
    PROVE  AfterRelease(S, g, v, e)
<1>1. evt[e] \in Event /\ ~evt[e].deprecated
  BY DEF AccessInv, TypeInv, TypeOK, EventOK
<1>2. e \notin S => evt'[e] = evt[e] /\ vote'[e] = vote[e]
  BY DEF release_event
<1>3. ASSUME e \in S
      PROVE  /\ evt'[e] = [evt[e] EXCEPT !.assigned = @ - 1, !.deny = @ \/ v = "deny"]
             /\ vote'[e] = [vote[e] EXCEPT ![g] = v]
  BY <1>1, <1>3 DEF release_event
<1>4. ASSUME e \in S
      PROVE  /\ evt'[e].assigned = evt[e].assigned - 1
             /\ evt'[e].state = evt[e].state
             /\ evt'[e].deprecated = evt[e].deprecated
             /\ evt'[e].deny <=> (evt[e].deny \/ v = "deny")
  BY <1>1, <1>3, <1>4 DEF Event
<1>5. e \in S /\ evt[e].assigned = 1 => e \in Woken(S)
  BY <1>1 DEF Woken, LastHeld
<1> QED BY <1>1, <1>2, <1>3, <1>4, <1>5 DEF AfterRelease

(* After it every event is in order again, if the containers or the carrier
   have gone in the same step. *)
LEMMA ReleaseKeepsEvents ==
    ASSUME AccessInv, NEW S \in SUBSET Events, NEW g \in Groups, NEW v,
           v \in {"allow", "deny", "gone"}, release_event(S, g, v),
           \A e \in S : vote[e][g] = "pending",
           UNCHANGED <<last_event_id, mine>>,
           \A e \in Events, h \in Groups :
              Owes(e, h)' <=> Owes(e, h) /\ ~(e \in S /\ h = g)
    PROVE  \A e \in Events : EventOK(e)'
<1> SUFFICES ASSUME NEW e \in Events PROVE EventOK(e)'
  OBVIOUS
<1>1. EventOK(e) /\ vote[e] \in [Groups -> Votes] /\ evt[e] \in Event
  BY DEF AccessInv, TypeInv, TypeOK
<1>r. AfterRelease(S, g, v, e)
  BY ReleaseOne
<1>2. CASE e \notin S
  <2>1. evt'[e] = evt[e] /\ vote'[e] = vote[e]
    BY <1>2, <1>r DEF AfterRelease
  <2>2. Pending(e)' = Pending(e)
    BY <2>1 DEF Pending
  <2> QED BY <1>1, <1>2, <2>1, <2>2 DEF EventOK
<1>3. CASE e \in S
  <2>1. /\ evt'[e].assigned = evt[e].assigned - 1
        /\ evt'[e].state = evt[e].state
        /\ ~evt'[e].deprecated
        /\ evt'[e].deny <=> (evt[e].deny \/ v = "deny")
        /\ vote'[e] = [vote[e] EXCEPT ![g] = v]
    BY <1>3, <1>r DEF AfterRelease
  <2>2. vote'[e][g] = v /\ \A h \in Groups \ {g} : vote'[e][h] = vote[e][h]
    BY <1>1, <2>1
  <2>3. Pending(e)' = Pending(e) \ {g} /\ g \in Pending(e)
    BY <1>3, <2>2 DEF Pending
  <2>4. Cardinality(Pending(e)') = Cardinality(Pending(e)) - 1
    <3>1. IsFiniteSet(Pending(e))
      BY FiniteGroups DEF Pending
    <3> QED BY <2>3, <3>1, FS_RemoveElement
  <2>5. evt[e].state = "live"
    BY <1>1, <1>3 DEF EventOK, NoVotes
  <2>6. evt'[e].assigned = Cardinality(Pending(e)')
    BY <1>1, <2>1, <2>4 DEF EventOK
  <2>7. evt'[e].deny <=> \E h \in Groups : vote'[e][h] = "deny"
    BY <1>1, <1>3, <2>1, <2>2 DEF EventOK
  <2>8. \A h \in Groups : vote'[e][h] = "pending" <=> Owes(e, h)'
    BY <1>1, <1>3, <2>2 DEF EventOK
  <2> QED BY <1>1, <2>1, <2>5, <2>6, <2>7, <2>8 DEF EventOK
<1> QED BY <1>2, <1>3

(* A process whose event is released is awake when nobody holds the event any
   more, and one that has its verdict loses nothing. *)
LEMMA ReleaseKeepsOthers ==
    ASSUME AccessInv, NEW t \in Threads, OthersAside(t),
           NEW S \in SUBSET Events, NEW g \in Groups, NEW v,
           v \in {"allow", "deny", "gone"}, release_event(S, g, v),
           \A e \in S : vote[e][g] = "pending",
           \A u \in Threads \ {t} :
              pc[u] = "ev_sleep" /\ mine[u] \in Woken(S) => pc'[u] = "ev_wait"
    PROVE  \A u \in Threads \ {t} : AccessOK(u)'
<1> SUFFICES ASSUME NEW u \in Threads \ {t} PROVE AccessOK(u)'
  OBVIOUS
<1>1. AccessOK(u)
  BY DEF AccessInv
<1>2. CASE pc[u] \in WaitPCs
  <2>1. mine[u] \in Events /\ EventOK(mine[u]) /\ evt[mine[u]] \in Event
    BY <1>2 DEF AccessInv, TypeInv, TypeOK, LocalOK, WaitPCs
  <2>r. AfterRelease(S, g, v, mine[u])
    BY <2>1, ReleaseOne
  <2>2. CASE mine[u] \notin S
    BY <1>1, <2>2, <2>r, OthersAccess DEF AfterRelease
  <2>3. CASE mine[u] \in S
    <3>1. evt[mine[u]].assigned # 0
      <4>1. g \in Pending(mine[u])
        BY <2>3 DEF Pending
      <4> QED BY <2>1, <4>1, FiniteGroups, FS_EmptySet DEF EventOK, Pending
    <3>2. pc[u] # "ev_release"
      BY <1>1, <3>1 DEF AccessOK
    <3>3. /\ evt'[mine[u]].assigned = evt[mine[u]].assigned - 1
          /\ evt[mine[u]].assigned = 1 => mine[u] \in Woken(S)
      BY <2>3, <2>r DEF AfterRelease
    <3>4. evt[mine[u]].assigned \in Int
      BY <2>1 DEF Event
    <3>5. pc'[u] = "ev_sleep" => evt'[mine[u]].assigned # 0
      BY <1>1, <3>3, <3>4 DEF AccessOK, OthersAside, Undisturbed
    <3> QED BY <1>1, <1>2, <3>2, <3>5 DEF AccessOK, OthersAside, Undisturbed, WaitPCs
  <2> QED BY <2>2, <2>3
<1>3. CASE pc[u] \notin WaitPCs
  BY <1>1, <1>3, OthersAccess
<1> QED BY <1>2, <1>3

(* An answer takes the container off the working list; from then on the thread
   that carries it stands for it. *)
LEMMA TakesAccess ==
    ASSUME AccessInv, TypeInv', NEW t \in Threads, OthersAside(t),
           NEW g \in Groups, NEW e \in Events, Takes(t, g, e)
    PROVE  AccessInv'
<1>0. /\ working \in [Groups -> SUBSET Events] /\ QueueOK(g)
      /\ \A h \in Groups : QueueOK(h)
  BY DEF AccessInv, TypeInv, TypeOK
<1>1. /\ working'[g] = working[g] \ {e}
      /\ \A h \in Groups \ {g} : working'[h] = working[h]
  BY <1>0 DEF Takes
<1>2. /\ \A h \in Groups \ {g} : Contained(h)' = Contained(h)
      /\ Contained(g)' = Contained(g) \ {e} /\ e \in Contained(g)
  BY <1>0, <1>1 DEF Contained, Takes, QueueOK
<1>3. \A x, h : Releasing(x, h)' =
                  IF x = e /\ h = g THEN Releasing(x, h) \cup {t} ELSE Releasing(x, h)
  <2>1. \A x, h : t \in Releasing(x, h)' <=> x = e /\ h = g
    BY DEF Releasing, Takes
  <2>2. \A x, h : t \notin Releasing(x, h)
    BY DEF Releasing, Takes
  <2>3. \A x, h : Releasing(x, h) \subseteq Threads /\ Releasing(x, h)' \subseteq Threads
    BY DEF Releasing
  <2> QED BY <2>1, <2>2, <2>3, CarriersKept
<1>4. ASSUME NEW h \in Groups PROVE QueueOK(h)'
  <2>1. QueueOK(h) /\ (MayHold(h) => MayHold(h)')
    BY <1>0 DEF Takes, HoldersKept
  <2>2. CASE h = g
    BY <1>1, <1>2, <1>3, <2>1, <2>2 DEF QueueOK, Takes
  <2>3. CASE h # g
    BY <1>1, <1>2, <1>3, <2>1, <2>3 DEF QueueOK, Takes
  <2> QED BY <2>2, <2>3
<1>5. ASSUME NEW x \in Events PROVE EventOK(x)'
  <2>1. Pending(x)' = Pending(x)
    BY DEF Takes, Pending
  <2>2. \A h \in Groups : Owes(x, h)' <=> Owes(x, h)
    BY <1>2, <1>3 DEF Owes
  <2>3. EventOK(x)
    BY DEF AccessInv
  <2> QED BY <2>1, <2>2, <2>3 DEF EventOK, Takes
<1>6. ASSUME NEW u \in Threads PROVE AccessOK(u)'
  <2>1. AccessOK(u)
    BY DEF AccessInv
  <2>2. CASE u = t
    BY <2>1, <2>2 DEF AccessOK, Takes, WaitPCs
  <2>3. CASE u # t
    BY <2>1, <2>3, OthersAccess DEF Takes
  <2> QED BY <2>2, <2>3
<1>7. OneOwner'
  <2>1. mine'[t] = NoEvent
    BY DEF AccessInv, AccessOK, Takes, WaitPCs
  <2>2. Releasing(e, g) = {}
    BY <1>0, <1>2 DEF QueueOK
  <2> QED BY <2>1, <2>2, OwnersKept DEF AccessInv, Takes
<1>8. OneRemover'
  BY RemoverKept DEF AccessInv, Takes, RemoverStep
<1> QED BY <1>4, <1>5, <1>6, <1>7, <1>8 DEF AccessInv

(* The wake-ups of __remove_group() and of release_event() reach the sleeper. *)
LEMMA SleepersWoken ==
    ASSUME NEW t \in Threads, pc \in [Threads -> PCs], NEW S,
           \/ pc' = wake_up_event([pc EXCEPT ![t] = "idle"], Woken(S))
           \/ \E g : /\ S = Contained(g)
                    /\ pc' = WakeCleared([pc EXCEPT ![t] = "idle"], g)
    PROVE  /\ pc'[t] = "idle"
           /\ \A u \in Threads \ {t} :
                 pc[u] = "ev_sleep" /\ mine[u] \in Woken(S) => pc'[u] = "ev_wait"
<1> DEFINE p == [pc EXCEPT ![t] = "idle"]
<1>1. p[t] = "idle" /\ \A u \in Threads \ {t} : p[u] = pc[u]
  OBVIOUS
<1> HIDE DEF p
<1>2. CASE pc' = wake_up_event(p, Woken(S))
  BY <1>1, <1>2 DEF wake_up_event
<1>3. ASSUME NEW g, S = Contained(g), pc' = WakeCleared(p, g)
      PROVE  /\ pc'[t] = "idle"
             /\ \A u \in Threads \ {t} :
                   pc[u] = "ev_sleep" /\ mine[u] \in Woken(S) => pc'[u] = "ev_wait"
  BY <1>1, <1>3 DEF WakeCleared, wake_up_event, wake_up_group
<1> QED BY <1>2, <1>3 DEF p

(* __remove_group() empties both lists: the containers are gone and their
   events released. *)
LEMMA ClearsAccess ==
    ASSUME AccessInv, TypeInv', NEW t \in Threads, OthersAside(t),
           NEW g \in Groups, Clears(t, g)
    PROVE  AccessInv'
<1> DEFINE S == Contained(g)
<1>0. /\ todo \in [Groups -> Seq(Events)] /\ working \in [Groups -> SUBSET Events]
      /\ pc \in [Threads -> PCs] /\ \A h \in Groups : QueueOK(h)
  BY DEF AccessInv, TypeInv, TypeOK
<1>1. S \in SUBSET Events
  <2>1. Range(todo[g]) \subseteq Events
    BY <1>0 DEF Range
  <2> QED BY <1>0, <2>1 DEF Contained
<1>2. /\ release_event(S, g, "gone")
      /\ todo' = [todo EXCEPT ![g] = <<>>] /\ working' = [working EXCEPT ![g] = {}]
  BY DEF Clears, ClearGroup
<1>3. /\ todo'[g] = <<>> /\ working'[g] = {}
      /\ \A h \in Groups \ {g} : todo'[h] = todo[h] /\ working'[h] = working[h]
  BY <1>0, <1>2
<1>4. /\ Contained(g)' = {} /\ \A h \in Groups \ {g} : Contained(h)' = Contained(h)
  BY <1>3 DEF Contained, Range
<1>5. /\ pc'[t] = "idle"
      /\ \A u \in Threads \ {t} :
            pc[u] = "ev_sleep" /\ mine[u] \in Woken(S) => pc'[u] = "ev_wait"
  BY <1>0, SleepersWoken DEF Clears
<1>6. \A x, h : Releasing(x, h)' = Releasing(x, h)
  BY <1>5, CarriersSame DEF Clears
<1>7. \A e \in S : vote[e][g] = "pending" /\ Releasing(e, g) = {}
  BY <1>0, <1>1 DEF AccessInv, EventOK, Owes, QueueOK
<1> HIDE DEF S
<1>8. ASSUME NEW h \in Groups PROVE QueueOK(h)'
  <2>1. QueueOK(h)
    BY <1>0
  <2>2. CASE h = g
    BY <1>3, <1>4, <2>2 DEF QueueOK, NoRepeats, Range
  <2>3. CASE h # g
    BY <1>3, <1>4, <1>6, <2>1, <2>3 DEF QueueOK, Clears
  <2> QED BY <2>2, <2>3
<1>9. \A e \in Events, h \in Groups :
         Owes(e, h)' <=> Owes(e, h) /\ ~(e \in S /\ h = g)
  BY <1>4, <1>6, <1>7 DEF Owes, S
<1>10. \A e \in Events : EventOK(e)'
  BY <1>1, <1>2, <1>7, <1>9, ReleaseKeepsEvents DEF Clears
<1>11. ASSUME NEW u \in Threads PROVE AccessOK(u)'
  <2>1. CASE u = t
    <3>1. mine'[t] = NoEvent
      BY DEF AccessInv, AccessOK, Clears
    <3> QED BY <1>5, <2>1, <3>1 DEF AccessOK, WaitPCs
  <2>2. CASE u # t
    BY <1>1, <1>2, <1>5, <1>7, <2>2, ReleaseKeepsOthers
  <2> QED BY <2>1, <2>2
<1>12. OneOwner'
  <2>1. mine'[t] = NoEvent
    BY DEF AccessInv, AccessOK, Clears
  <2> QED BY <1>5, <2>1, OwnersKept DEF AccessInv
<1>13. OneRemover'
  BY RemoverKept DEF AccessInv, Clears
<1> QED BY <1>8, <1>10, <1>11, <1>12, <1>13 DEF AccessInv

(* release_event() in dazukofs_return_event(): the carrier puts the answer on
   record and is none any more. *)
LEMMA AnswerAccess ==
    ASSUME AccessInv, TypeInv', NEW t \in Threads, OthersAside(t), ReleaseAnswered(t)
    PROVE  AccessInv'
<1>0. /\ pc \in [Threads -> PCs] /\ pc[t] = "re_release"
      /\ cur[t] \in Groups /\ ec[t] \in Events /\ ans[t] \in {"allow", "deny"}
      /\ TypeOK /\ AccessOK(t)
  BY DEF AccessInv, TypeInv, TypeOK, LocalOK, HasGroup, HasContainer, AccessOK,
         ReleaseAnswered
<1>g. PICK g \in Groups : g = cur[t]
  BY <1>0
<1>e. PICK e \in Events : e = ec[t]
  BY <1>0
<1>v. PICK v \in {"allow", "deny"} : v = ans[t]
  BY <1>0
<1>1. /\ release_event({e}, g, v) /\ put_group(g)
      /\ pc' = wake_up_event([pc EXCEPT ![t] = "idle"], Woken({e}))
      /\ UNCHANGED <<removing, todo, working, last_event_id, mine>>
  BY <1>g, <1>e, <1>v DEF ReleaseAnswered
<1>2. /\ pc'[t] = "idle"
      /\ \A u \in Threads \ {t} :
            pc[u] = "ev_sleep" /\ mine[u] \in Woken({e}) => pc'[u] = "ev_wait"
  BY <1>0, <1>1, SleepersWoken
<1>3. /\ t \in Releasing(e, g)
      /\ \A x, h : Releasing(x, h)' = Releasing(x, h) \ {t}
  <2>1. \A x, h : t \notin Releasing(x, h)'
    BY <1>2 DEF Releasing
  <2>2. \A x, h : Releasing(x, h) \subseteq Threads /\ Releasing(x, h)' \subseteq Threads
    BY DEF Releasing
  <2>3. t \in Releasing(e, g)
    BY <1>0, <1>g, <1>e DEF Releasing
  <2> QED BY <2>1, <2>2, <2>3, CarriersKept
<1>4. /\ Releasing(e, g) = {t}
      /\ \A x, h : x # e \/ h # g => t \notin Releasing(x, h)
  BY <1>0, <1>g, <1>e, <1>3 DEF AccessInv, OneOwner, Releasing
<1>5. \A h \in Groups : Contained(h)' = Contained(h)
  BY <1>1 DEF Contained
<1>6. ASSUME NEW h \in Groups PROVE QueueOK(h)'
  <2>1. QueueOK(h)
    BY DEF AccessInv
  <2>2. MayHold(h) => MayHold(h)'
    BY <1>0, <1>1, CountOnly DEF MayHold
  <2> QED BY <1>1, <1>3, <1>5, <2>1, <2>2 DEF QueueOK
<1>7. e \notin Contained(g) /\ vote[e][g] = "pending"
  <2>1. QueueOK(g) /\ EventOK(e)
    BY DEF AccessInv
  <2> QED BY <1>3, <2>1 DEF QueueOK, EventOK, Owes
<1>8. \A x \in Events, h \in Groups :
         Owes(x, h)' <=> Owes(x, h) /\ ~(x \in {e} /\ h = g)
  BY <1>3, <1>4, <1>5, <1>7 DEF Owes
<1>9. \A x \in Events : EventOK(x)'
  <2>1. {e} \in SUBSET Events /\ \A x \in {e} : vote[x][g] = "pending"
    BY <1>7
  <2> QED BY <1>1, <1>8, <2>1, ReleaseKeepsEvents
<1>10. ASSUME NEW u \in Threads PROVE AccessOK(u)'
  <2>1. CASE u = t
    <3>1. mine'[t] = NoEvent
      BY <1>0, <1>1 DEF AccessOK, WaitPCs
    <3> QED BY <1>2, <2>1, <3>1 DEF AccessOK, WaitPCs
  <2>2. CASE u # t
    <3>1. {e} \in SUBSET Events /\ \A x \in {e} : vote[x][g] = "pending"
      BY <1>7
    <3> QED BY <1>1, <1>2, <2>2, <3>1, ReleaseKeepsOthers
  <2> QED BY <2>1, <2>2
<1>11. OneOwner'
  <2>1. mine'[t] = NoEvent
    BY <1>0, <1>1 DEF AccessOK, WaitPCs
  <2> QED BY <1>2, <2>1, OwnersKept DEF AccessInv
<1>12. OneRemover'
  BY <1>1, <1>2, RemoverKept DEF AccessInv, RemoverStep
<1> QED BY <1>6, <1>9, <1>10, <1>11, <1>12 DEF AccessInv

(* assign_event_to_groups(): the event is new to every group, and every active
   group gets a container. *)
LEMMA AssignAccess ==
    ASSUME AccessInv, TypeInv', NEW t \in Threads, OthersAside(t), Assign(t)
    PROVE  AccessInv'
<1>0. /\ pc \in [Threads -> PCs] /\ pc[t] = "assign" /\ AccessOK(t)
      /\ todo \in [Groups -> Seq(Events)] /\ working \in [Groups -> SUBSET Events]
      /\ last_event_id \in 0 .. MaxEvents /\ last_event_id < MaxEvents
      /\ evt \in [Events -> Event] /\ vote \in [Events -> [Groups -> Votes]]
      /\ mine \in [Threads -> Events \cup {NoEvent}] /\ TypeOK
  BY DEF AccessInv, TypeInv, TypeOK, Assign
<1>e. PICK e \in Events : e = last_event_id + 1
  BY <1>0, BoundsAssumption DEF Events
<1>a. PICK A \in SUBSET Groups : A = Active
  BY DEF Active
<1>b. \A x \in Events : x \in Nat /\ x # NoEvent
  BY BoundsAssumption DEF Events, NoEvent
<1> DEFINE new == [NullEvent("live") EXCEPT !.assigned = Cardinality(A)]
           asked == [g \in Groups |-> IF g \in A THEN "pending" ELSE "none"]
<1>1. /\ last_event_id' = e /\ evt' = [evt EXCEPT ![e] = new]
      /\ todo' = [g \in Groups |-> IF g \in A THEN Append(todo[g], e) ELSE todo[g]]
      /\ vote' = [vote EXCEPT ![e] = asked]
      /\ mine' = [mine EXCEPT ![t] = e]
      /\ pc' = wake_up_group([pc EXCEPT ![t] = "ev_wait"], A)
      /\ UNCHANGED <<removing, grp, working>>
  BY <1>e, <1>a DEF Assign
<1>2. /\ new.state = "live" /\ new.assigned = Cardinality(A) /\ new.deny = FALSE
      /\ new.deprecated = FALSE
  BY DEF NullEvent
<1>3. /\ evt'[e] = new /\ vote'[e] = asked
      /\ \A x \in Events \ {e} : evt'[x] = evt[x] /\ vote'[x] = vote[x]
  BY <1>0, <1>1
<1>4. \A g \in Groups : asked[g] = IF g \in A THEN "pending" ELSE "none"
  OBVIOUS
<1> HIDE DEF new, asked
<1>5. pc'[t] = "ev_wait" /\ mine'[t] = e
  <2> DEFINE p == [pc EXCEPT ![t] = "ev_wait"]
  <2>1. p[t] = "ev_wait" /\ pc' = wake_up_group(p, A)
    BY <1>0, <1>1
  <2> HIDE DEF p
  <2> QED BY <1>0, <1>1, <2>1 DEF wake_up_group
<1>6. \A x, h : Releasing(x, h)' = Releasing(x, h)
  BY <1>0, <1>5, CarriersSame
<1>7. /\ evt[e].state # "live" /\ vote[e] = NoVotes
      /\ \A g \in Groups : e \notin Contained(g) /\ Releasing(e, g) = {}
  <2>1. EventOK(e)
    BY DEF AccessInv
  <2>2. evt[e].state # "live" /\ vote[e] = NoVotes
    BY <1>0, <1>e, <2>1 DEF EventOK
  <2> QED BY <2>1, <2>2 DEF EventOK, Owes, NoVotes
<1>8. ASSUME NEW g \in Groups
      PROVE  /\ QueueOK(g)'
             /\ Contained(g)' = IF g \in A THEN Contained(g) \cup {e} ELSE Contained(g)
  <2>1. /\ QueueOK(g) /\ todo[g] \in Seq(Events) /\ e \notin Range(todo[g])
        /\ e \notin working[g]
    BY <1>0, <1>7 DEF AccessInv, Contained
  <2>2. working'[g] = working[g] /\ (MayHold(g)' <=> MayHold(g))
    BY <1>1 DEF MayHold
  <2>3. CASE g \in A
    <3>1. todo'[g] = Append(todo[g], e) /\ MayHold(g)
      BY <1>1, <1>a, <2>3 DEF MayHold, Active
    <3>2. /\ Range(todo'[g]) = Range(todo[g]) \cup {e} /\ NoRepeats(todo'[g])
      BY <2>1, <3>1, RangeOfAppend DEF QueueOK
    <3>3. Contained(g)' = Contained(g) \cup {e}
      BY <2>2, <3>2 DEF Contained
    <3>4. \A x \in Contained(g)' : x <= last_event_id' /\ Releasing(x, g)' = {}
      <4>1. ASSUME NEW x \in Contained(g) PROVE x \in Nat /\ x <= last_event_id
        <5>1. x \in Events
          BY <1>0, <4>1 DEF Contained, Range
        <5> QED BY <1>b, <2>1, <4>1, <5>1 DEF QueueOK
      <4>2. ASSUME NEW x \in Contained(g) PROVE x <= last_event_id'
        BY <1>0, <1>1, <1>e, <4>1
      <4>3. e <= last_event_id'
        BY <1>1, <1>b
      <4> QED BY <1>6, <1>7, <2>1, <3>3, <4>2, <4>3 DEF QueueOK
    <3> QED BY <2>1, <2>2, <2>3, <3>1, <3>2, <3>3, <3>4 DEF QueueOK
  <2>4. CASE g \notin A
    <3>1. todo'[g] = todo[g]
      BY <1>1, <2>4
    <3>2. Contained(g)' = Contained(g)
      BY <2>2, <3>1 DEF Contained
    <3>4. \A x \in Contained(g) : x <= last_event_id'
      <4>1. ASSUME NEW x \in Contained(g) PROVE x <= last_event_id'
        <5>1. x \in Events
          BY <1>0, <4>1 DEF Contained, Range
        <5> QED BY <1>0, <1>1, <1>e, <1>b, <2>1, <4>1, <5>1 DEF QueueOK
      <4> QED BY <4>1
    <3> QED BY <1>6, <2>1, <2>2, <2>4, <3>1, <3>2, <3>4 DEF QueueOK
  <2> QED BY <2>3, <2>4
<1>9. ASSUME NEW x \in Events PROVE EventOK(x)'
  <2>1. CASE x = e
    <3>1. \A g \in Groups : Owes(e, g)' <=> g \in A
      BY <1>6, <1>7, <1>8 DEF Owes
    <3>2. Pending(e)' = A
      BY <1>3, <1>4 DEF Pending
    <3>3. ~evt'[e].deny /\ ~\E g \in Groups : vote'[e][g] = "deny"
      BY <1>2, <1>3, <1>4
    <3>4. e <= last_event_id'
      BY <1>1, <1>b
    <3> QED BY <1>2, <1>3, <1>4, <1>5, <2>1, <3>1, <3>2, <3>3, <3>4 DEF EventOK
  <2>2. CASE x # e
    <3>1. EventOK(x) /\ evt'[x] = evt[x] /\ vote'[x] = vote[x]
      BY <1>3, <2>2 DEF AccessInv
    <3>2. Pending(x)' = Pending(x)
      BY <3>1 DEF Pending
    <3>3. \A g \in Groups : Owes(x, g)' <=> Owes(x, g)
      BY <1>6, <1>8, <2>2 DEF Owes
    <3>4. (\E u \in Threads : mine'[u] = x) <=> \E u \in Threads : mine[u] = x
      <4>1. mine[t] = NoEvent /\ \A u \in Threads \ {t} : mine'[u] = mine[u]
        BY <1>0, <1>1 DEF AccessOK, WaitPCs
      <4> QED BY <1>b, <1>5, <2>2, <4>1
    <3>5. x <= last_event_id => x <= last_event_id'
      BY <1>0, <1>1, <1>b, <1>e
    <3> QED BY <3>1, <3>2, <3>3, <3>4, <3>5 DEF EventOK
  <2> QED BY <2>1, <2>2
<1>10. \A u \in Threads : mine[u] # e
  BY <1>7 DEF AccessInv, EventOK
<1>11. ASSUME NEW u \in Threads PROVE AccessOK(u)'
  <2>1. CASE u = t
    BY <1>5, <1>b, <2>1 DEF AccessOK, WaitPCs
  <2>2. CASE u # t
    <3>1. pc[u] \in WaitPCs => mine[u] \in Events \ {e}
      BY <1>10 DEF AccessInv, TypeInv, LocalOK, WaitPCs
    <3> QED BY <1>3, <2>2, <3>1, OthersAccess DEF AccessInv
  <2> QED BY <2>1, <2>2
<1>12. OneOwner'
  BY <1>5, <1>10, OwnersKept DEF AccessInv
<1>13. OneRemover'
  BY <1>1, <1>5, RemoverKept DEF AccessInv, RemoverStep
<1> QED BY <1>8, <1>9, <1>11, <1>12, <1>13 DEF AccessInv

(* wait_event() and the read of evt->deny change nothing but where the process
   is and what it has read. *)
LEMMA WaitAccess ==
    ASSUME AccessInv, TypeInv', NEW t \in Threads, OthersAside(t),
           WaitEvent(t) \/ ReadVerdict(t)
    PROVE  AccessInv'
<1>0. /\ pc \in [Threads -> PCs] /\ ans \in [Threads -> Answers] /\ pc[t] = "ev_wait"
      /\ AccessOK(t) /\ mine[t] \in Events
  BY DEF AccessInv, TypeInv, TypeOK, LocalOK, WaitEvent, ReadVerdict
<1>1. UNCHANGED <<removing, grp, todo, working, last_event_id, evt, vote, mine>>
  BY DEF WaitEvent, ReadVerdict, shared, locals, history
<1>2. \/ pc'[t] = "ev_sleep" /\ evt[mine[t]].assigned # 0
      \/ /\ pc'[t] = "ev_release" /\ evt[mine[t]].assigned = 0
         /\ ans'[t] = IF evt[mine[t]].deny THEN "deny" ELSE "allow"
  BY <1>0 DEF WaitEvent, ReadVerdict, Goto, Settled
<1>3. \A x, h : Releasing(x, h)' = Releasing(x, h)
  BY <1>0, <1>2, CarriersSame
<1>4. ASSUME NEW g \in Groups PROVE QueueOK(g)'
  <2>1. QueueOK(g) /\ Contained(g)' = Contained(g) /\ (MayHold(g)' <=> MayHold(g))
    BY <1>1 DEF AccessInv, Contained, MayHold
  <2> QED BY <1>1, <1>3, <2>1 DEF QueueOK
<1>5. ASSUME NEW e \in Events PROVE EventOK(e)'
  <2>1. EventOK(e) /\ Pending(e)' = Pending(e)
    BY <1>1 DEF AccessInv, Pending
  <2>2. \A g \in Groups : Owes(e, g)' <=> Owes(e, g)
    BY <1>1, <1>3 DEF Owes, Contained
  <2> QED BY <1>1, <2>1, <2>2 DEF EventOK
<1>6. ASSUME NEW u \in Threads PROVE AccessOK(u)'
  <2>1. CASE u = t
    BY <1>0, <1>1, <1>2, <2>1 DEF AccessOK, WaitPCs
  <2>2. CASE u # t
    BY <1>1, <2>2, OthersAccess DEF AccessInv
  <2> QED BY <2>1, <2>2
<1>7. OneOwner'
  <2>1. \A u \in Threads \ {t} : mine'[t] # NoEvent => mine[u] # mine'[t]
    BY <1>1 DEF AccessInv, OneOwner
  <2> QED BY <1>2, <2>1, OwnersKept DEF AccessInv
<1>8. OneRemover'
  BY <1>1, <1>2, RemoverKept DEF AccessInv, RemoverStep
<1> QED BY <1>4, <1>5, <1>6, <1>7, <1>8 DEF AccessInv

(* At the end nobody holds the event, so release_event() frees it. *)
LEMMA ReleaseOwnFrees ==
    ASSUME AccessInv, NEW t \in Threads, ReleaseOwn(t)
    PROVE  /\ mine[t] \in Events /\ Pending(mine[t]) = {}
           /\ evt' = [evt EXCEPT ![mine[t]] = NullEvent("freed")]
           /\ vote' = [vote EXCEPT ![mine[t]] = NoVotes]
<1>1. AccessOK(t) /\ mine[t] \in Events /\ EventOK(mine[t]) /\ pc[t] = "ev_release"
  BY DEF AccessInv, TypeInv, LocalOK, ReleaseOwn
<1>2. evt[mine[t]].assigned = 0
  BY <1>1 DEF AccessOK
<1>3. Pending(mine[t]) = {}
  <2>1. IsFiniteSet(Pending(mine[t]))
    BY FiniteGroups DEF Pending
  <2> QED BY <1>1, <1>2, <2>1, FS_EmptySet DEF EventOK
<1> QED BY <1>1, <1>2, <1>3 DEF ReleaseOwn, FreeOwn

(* The process that waited is the only owner of its event, so that the event
   goes with it and the others are as they were. *)
LEMMA ReleaseOwnAccess ==
    ASSUME AccessInv, TypeInv', NEW t \in Threads, OthersAside(t), ReleaseOwn(t)
    PROVE  AccessInv'
<1>0. /\ pc \in [Threads -> PCs] /\ pc[t] = "ev_release"
      /\ evt \in [Events -> Event] /\ vote \in [Events -> [Groups -> Votes]]
      /\ mine \in [Threads -> Events \cup {NoEvent}]
  BY DEF AccessInv, TypeInv, TypeOK, ReleaseOwn
<1>e. PICK e \in Events : e = mine[t]
  BY ReleaseOwnFrees
<1>b. \A x \in Events : x # NoEvent
  BY BoundsAssumption DEF Events, NoEvent
<1>1. /\ Pending(e) = {} /\ evt' = [evt EXCEPT ![e] = NullEvent("freed")]
      /\ vote' = [vote EXCEPT ![e] = NoVotes]
      /\ mine' = [mine EXCEPT ![t] = NoEvent]
      /\ UNCHANGED <<removing, grp, todo, working, last_event_id>>
  BY <1>e, ReleaseOwnFrees DEF ReleaseOwn
<1>2. pc'[t] \in {"idle", "open_ret"} /\ mine'[t] = NoEvent
  BY <1>0, <1>1 DEF ReleaseOwn, CheckAccessReturns, Goto
<1>3. \A x, h : Releasing(x, h)' = Releasing(x, h)
  BY <1>0, <1>2, CarriersSame
<1>4. ASSUME NEW g \in Groups PROVE QueueOK(g)'
  <2>1. QueueOK(g) /\ Contained(g)' = Contained(g) /\ (MayHold(g)' <=> MayHold(g))
    BY <1>1 DEF AccessInv, Contained, MayHold
  <2> QED BY <1>1, <1>3, <2>1 DEF QueueOK
<1>5. \A u \in Threads \ {t} : mine[u] # e /\ mine'[u] = mine[u]
  BY <1>0, <1>1, <1>b, <1>e DEF AccessInv, OneOwner
<1>6. ASSUME NEW x \in Events PROVE EventOK(x)'
  <2>1. EventOK(x) /\ \A g \in Groups : Owes(x, g)' <=> Owes(x, g)
    BY <1>1, <1>3 DEF AccessInv, Owes, Contained
  <2>2. CASE x = e
    <3>1. evt'[e] = NullEvent("freed") /\ vote'[e] = NoVotes
      BY <1>0, <1>1
    <3>2. Pending(e)' = {} /\ \A g \in Groups : vote'[e][g] = "none"
      BY <3>1 DEF Pending, NoVotes
    <3>3. \A g \in Groups : ~Owes(e, g)
      BY <1>1, <2>1, <2>2 DEF EventOK, Pending
    <3>4. /\ evt'[e].state = "freed" /\ evt'[e].assigned = 0 /\ ~evt'[e].deny
          /\ ~evt'[e].deprecated
      BY <3>1 DEF NullEvent
    <3>5. \A u \in Threads : mine'[u] # e
      BY <1>2, <1>5, <1>b
    <3>6. Cardinality(Pending(e)') = 0
      BY <3>2, FS_EmptySet
    <3> QED BY <2>1, <2>2, <3>1, <3>2, <3>3, <3>4, <3>5, <3>6 DEF EventOK
  <2>3. CASE x # e
    <3>1. evt'[x] = evt[x] /\ vote'[x] = vote[x]
      BY <1>0, <1>1, <2>3
    <3>2. Pending(x)' = Pending(x)
      BY <3>1 DEF Pending
    <3>3. (\E u \in Threads : mine'[u] = x) <=> \E u \in Threads : mine[u] = x
      BY <1>2, <1>5, <1>b, <1>e, <2>3
    <3> QED BY <1>1, <2>1, <3>1, <3>2, <3>3 DEF EventOK
  <2> QED BY <2>2, <2>3
<1>7. ASSUME NEW u \in Threads PROVE AccessOK(u)'
  <2>1. CASE u = t
    BY <1>2, <2>1 DEF AccessOK, WaitPCs
  <2>2. CASE u # t
    <3>1. pc[u] \in WaitPCs => mine[u] \in Events \ {e}
      BY <1>5, <2>2 DEF AccessInv, TypeInv, LocalOK, WaitPCs
    <3> QED BY <1>0, <1>1, <2>2, <3>1, OthersAccess DEF AccessInv
  <2> QED BY <2>1, <2>2
<1>8. OneOwner'
  BY <1>2, OwnersKept DEF AccessInv
<1>9. OneRemover'
  BY <1>1, <1>2, RemoverKept DEF AccessInv, RemoverStep
<1> QED BY <1>4, <1>6, <1>7, <1>8, <1>9 DEF AccessInv
-----------------------------------------------------------------------------
(* What a step of a thread does to the events. *)
LEMMA StepKinds ==
    ASSUME AccessInv, NEW t \in Threads, ThreadStep(t)
    PROVE  \/ Quiet(t) \/ Assign(t) \/ WaitEvent(t) \/ ReadVerdict(t) \/ ReleaseOwn(t)
           \/ ReleaseAnswered(t)
           \/ \E g \in Groups : Clears(t, g)
           \/ \E g \in Groups, e \in Events : Takes(t, g, e)
  BY CheckAccessQuiet, GroupDevQuiet, UserQuiet, GroupCtrlQuiet
     DEF ThreadStep, KernelStep, CallStep

(* A use of freed memory stops the model and, like a stuttering step, leaves the
   events alone. *)
LEMMA StutterAccess ==
    ASSUME AccessInv, TypeInv', UNCHANGED <<shared, pc, locals, user, vote>>
    PROVE  AccessInv'
<1>1. UNCHANGED <<removing, grp, todo, working, last_event_id, evt, pc, cur, ec, mine,
                  ans, vote>>
  BY DEF shared, locals
<1>2. /\ \A e, g : Releasing(e, g)' = Releasing(e, g)
      /\ \A g : Contained(g)' = Contained(g) /\ (MayHold(g)' <=> MayHold(g))
      /\ \A e : Pending(e)' = Pending(e)
  BY <1>1 DEF Releasing, Contained, MayHold, Pending
<1>3. ASSUME NEW g \in Groups PROVE QueueOK(g)'
  BY <1>1, <1>2 DEF AccessInv, QueueOK
<1>4. ASSUME NEW e \in Events PROVE EventOK(e)'
  BY <1>1, <1>2 DEF AccessInv, EventOK, Owes
<1>5. ASSUME NEW t \in Threads PROVE AccessOK(t)'
  BY <1>1 DEF AccessInv, AccessOK
<1>6. OneOwner' /\ OneRemover'
  BY <1>1 DEF AccessInv, OneOwner, OneRemover
<1> QED BY <1>3, <1>4, <1>5, <1>6 DEF AccessInv

(* The invariant holds in every state of every behaviour. *)
LEMMA AccessInvInductive ==
    Init /\ [][Next]_vars => []AccessInv
<1>1. Init /\ TypeInv => AccessInv
  <2> SUFFICES ASSUME Init, TypeInv PROVE AccessInv
    OBVIOUS
  <2>1. \A g \in Groups : Contained(g) = {}
    BY DEF Init, Contained, Range
  <2>2. \A e, g : Releasing(e, g) = {}
    BY DEF Init, Releasing
  <2>3. ASSUME NEW g \in Groups PROVE QueueOK(g)
    BY <2>1 DEF Init, QueueOK, NoRepeats, Range
  <2>4. ASSUME NEW e \in Events PROVE EventOK(e)
    <3>1. evt[e] = NullEvent("none") /\ vote[e] = NoVotes
      BY DEF Init
    <3>2. \A g \in Groups : vote[e][g] = "none"
      BY <3>1 DEF NoVotes
    <3>3. Pending(e) = {}
      BY <3>2 DEF Pending
    <3>4. \A u \in Threads : mine[u] # e
      BY DEF Init, NoEvent, Events
    <3>5. \A g \in Groups : ~Owes(e, g)
      BY <2>1, <2>2 DEF Owes
    <3> QED BY <3>1, <3>2, <3>3, <3>4, <3>5, FS_EmptySet DEF EventOK, NullEvent
  <2>5. \A t \in Threads : AccessOK(t)
    BY DEF Init, AccessOK, WaitPCs
  <2>6. OneOwner /\ OneRemover
    BY DEF Init, OneOwner, OneRemover
  <2> QED BY <2>3, <2>4, <2>5, <2>6 DEF AccessInv
<1>2. AccessInv /\ TypeInv' /\ [Next]_vars => AccessInv'
  <2> SUFFICES ASSUME AccessInv, TypeInv', [Next]_vars PROVE AccessInv'
    OBVIOUS
  <2>1. ASSUME NEW t \in Threads, ThreadStep(t) PROVE AccessInv'
    <3>1. OthersAside(t)
      BY <2>1, OthersUndisturbed DEF AccessInv, OthersAside
    <3> QED
      BY <2>1, <3>1, StepKinds, QuietAccess, AssignAccess, WaitAccess,
         ReleaseOwnAccess, AnswerAccess, ClearsAccess, TakesAccess
  <2>2. ASSUME NEW t \in Threads, FaultStep(t) PROVE AccessInv'
    BY <2>2, StutterAccess DEF FaultStep, UseAfterFree
  <2>3. CASE UNCHANGED vars
    BY <2>3, StutterAccess DEF vars, history
  <2> QED BY <2>1, <2>2, <2>3 DEF Next
<1> QED BY <1>1, <1>2, TypeInvInductive, PTL
-----------------------------------------------------------------------------
(***************************************************************************)
(* The theorems.  None of them has a hypothesis about the environment: a   *)
(* failed allocation, a signal, an answer written twice or the death of a  *)
(* registered process at any point breaks none of them.                    *)
(***************************************************************************)

(***************************************************************************)
(* evt->assigned is the number of groups that owe an answer, and a group   *)
(* owes one exactly while its container is on a list or in the hands of    *)
(* the one writer that releases it: the theorem for EventAccounting.       *)
(***************************************************************************)
THEOREM EventsAccounted ==
    Spec => []EventAccounting
<1>1. AccessInv => EventAccounting
  <2> SUFFICES ASSUME AccessInv, NEW e \in Events
               PROVE  /\ evt[e].assigned = Cardinality(Pending(e))
                      /\ \A g \in Groups :
                            g \in Pending(e) <=> e \in Contained(g) \/ Releasing(e, g) # {}
    BY DEF EventAccounting
  <2>1. EventOK(e)
    BY DEF AccessInv
  <2> QED BY <2>1 DEF EventOK, Owes, Pending
<1> QED BY <1>1, AccessInvInductive, PTL DEF Spec

(* A set whose members are all the same has at most one. *)
LEMMA AtMostOne ==
    ASSUME NEW S, \A x, y \in S : x = y
    PROVE  Cardinality(S) \in {0, 1} /\ (S = {} => Cardinality(S) = 0)
<1>1. S = {} \/ \E x : S = {x}
  OBVIOUS
<1> QED BY <1>1, FS_EmptySet, FS_Singleton

(***************************************************************************)
(* claim_event(), unclaim_event() and dazukofs_return_event() move a       *)
(* container and never copy it, in whatever order the processes of a group *)
(* read, answer and fail: the theorem for HeldOnce.                        *)
(***************************************************************************)
THEOREM ContainersUnique ==
    Spec => []HeldOnce
<1>1. AccessInv => HeldOnce
  <2> SUFFICES ASSUME AccessInv, NEW g \in Groups, NEW e \in Events
               PROVE  Cardinality({i \in DOMAIN todo[g] : todo[g][i] = e})
                        + Cardinality({e} \cap working[g])
                        + Cardinality(Releasing(e, g)) <= 1
    BY DEF HeldOnce
  <2> DEFINE I == {i \in DOMAIN todo[g] : todo[g][i] = e}
             W == {e} \cap working[g]
             R == Releasing(e, g)
  <2>1. QueueOK(g) /\ OneOwner
    BY DEF AccessInv
  <2>2. /\ \A x, y \in I : x = y
        /\ \A x, y \in W : x = y
        /\ \A x, y \in R : x = y
    BY <2>1 DEF QueueOK, NoRepeats, OneOwner, Releasing
  <2>3. (I = {} \/ W = {}) /\ (I # {} \/ W # {} => R = {})
    <3>1. I # {} => e \in Range(todo[g])
      BY DEF Range
    <3>2. W # {} => e \in working[g]
      OBVIOUS
    <3> QED BY <2>1, <3>1, <3>2 DEF QueueOK, Contained
  <2> HIDE DEF I, W, R
  <2>4. /\ Cardinality(I) \in {0, 1} /\ (I = {} => Cardinality(I) = 0)
        /\ Cardinality(W) \in {0, 1} /\ (W = {} => Cardinality(W) = 0)
        /\ Cardinality(R) \in {0, 1} /\ (R = {} => Cardinality(R) = 0)
    BY <2>2, AtMostOne
  <2>5. Cardinality(I) + Cardinality(W) + Cardinality(R) <= 1
    BY <2>3, <2>4
  <2> QED BY <2>5 DEF I, W, R
<1> QED BY <1>1, AccessInvInductive, PTL DEF Spec

(***************************************************************************)
(* No list of a group and no process ever leads to an event that           *)
(* release_event() has freed, and every event is freed by its one process: *)
(* the theorem for EventsAlive.                                            *)
(***************************************************************************)
THEOREM NoEventFreedInUse ==
    Spec => []EventsAlive
<1>1. AccessInv => EventsAlive
  <2> SUFFICES ASSUME AccessInv, NEW e \in Events
               PROVE  /\ Pending(e) # {} => evt[e].state = "live"
                      /\ evt[e].state = "live" <=> \E t \in Threads : mine[t] = e
                      /\ \A t, u \in Threads : mine[t] = e /\ mine[u] = e => t = u
    BY DEF EventsAlive
  <2>1. EventOK(e) /\ OneOwner /\ e # NoEvent
    BY BoundsAssumption DEF AccessInv, Events, NoEvent
  <2>2. Pending(e) # {} => evt[e].state = "live"
    BY <2>1 DEF EventOK, Pending, NoVotes
  <2> QED BY <2>1, <2>2 DEF EventOK, OneOwner
<1> QED BY <1>1, AccessInvInductive, PTL DEF Spec

(***************************************************************************)
(* dazukofs_check_access() returns after the last answer and denies        *)
(* exactly if a group denied, although evt->deny is read without the       *)
(* mutex: the theorem for VerdictSound.                                    *)
(***************************************************************************)
THEOREM VerdictCorrect ==
    Spec => []VerdictSound
<1>1. AccessInv => VerdictSound
  <2> SUFFICES ASSUME AccessInv, NEW t \in Threads, pc[t] = "ev_release"
               PROVE  /\ Pending(mine[t]) = {}
                      /\ ans[t] = "deny" <=> \E g \in Groups : vote[mine[t]][g] = "deny"
    BY DEF VerdictSound
  <2>1. AccessOK(t) /\ mine[t] \in Events /\ EventOK(mine[t])
    BY DEF AccessInv, TypeInv, LocalOK
  <2>2. IsFiniteSet(Pending(mine[t]))
    BY FiniteGroups DEF Pending
  <2>3. Pending(mine[t]) = {}
    BY <2>1, <2>2, FS_EmptySet DEF AccessOK, EventOK
  <2> QED BY <2>1, <2>3 DEF AccessOK, EventOK
<1> QED BY <1>1, AccessInvInductive, PTL DEF Spec

(***************************************************************************)
(* After __remove_group() a group holds no event and gets none any more,   *)
(* even if a reader of it still has an event to give back: the theorem for *)
(* RemovedGroupsEmpty.                                                     *)
(***************************************************************************)
THEOREM RemovedStayEmpty ==
    Spec => []RemovedGroupsEmpty
<1>1. AccessInv => RemovedGroupsEmpty
  BY DEF AccessInv, QueueOK, MayHold, RemovedGroupsEmpty
<1> QED BY <1>1, AccessInvInductive, PTL DEF Spec
-----------------------------------------------------------------------------
(***************************************************************************)
(* The refinement.  A step of the event subsystem is one step of           *)
(* AccessControl or none; only five kinds of step are visible there.       *)
(***************************************************************************)

\* nobody is told anything by the step, and no group is asked or answers
Unseen == askedBar' = askedBar /\ verdictBar' = verdictBar

(* What AccessControl sees of a process. *)
LEMMA BarValues ==
    \A u \in Threads :
        /\ askedBar[u] = (IF mine[u] = NoEvent THEN NoVotes ELSE vote[mine[u]])
        /\ askedBar'[u] = (IF mine'[u] = NoEvent THEN NoVotes ELSE vote'[mine'[u]])
        /\ verdictBar[u] = (IF pc[u] = "ev_release" THEN ans[u] ELSE "none")
        /\ verdictBar'[u] = (IF pc'[u] = "ev_release" THEN ans'[u] ELSE "none")
  BY DEF askedBar, verdictBar

(* The other processes have the verdicts they had. *)
LEMMA VerdictsKept ==
    ASSUME NEW t \in Threads, OthersAside(t)
    PROVE  /\ \A u \in Threads \ {t} : verdictBar'[u] = verdictBar[u]
           /\ pc[t] # "ev_release" /\ pc'[t] # "ev_release" => verdictBar' = verdictBar
<1>1. \A u \in Threads \ {t} : verdictBar'[u] = verdictBar[u]
  BY BarValues DEF OthersAside, Undisturbed
<1>2. ASSUME pc[t] # "ev_release", pc'[t] # "ev_release" PROVE verdictBar' = verdictBar
  <2>1. \A u \in Threads : verdictBar'[u] = verdictBar[u]
    BY <1>1, <1>2, BarValues
  <2> QED BY <2>1 DEF verdictBar
<1> QED BY <1>1, <1>2

(* The initial states: no access is under way. *)
LEMMA InitRefines ==
    Init => AC!AInit
<1> SUFFICES ASSUME Init PROVE AC!AInit
  OBVIOUS
<1>1. \A u \in Threads : mine[u] = NoEvent /\ pc[u] = "idle"
  BY DEF Init
<1> QED BY <1>1 DEF AC!AInit, AC!NotAsked, askedBar, verdictBar, NoVotes

(* A quiet step, the taking of an answer and the sleep of the process that waits
   are not visible. *)
LEMMA QuietUnseen ==
    ASSUME AccessInv, NEW t \in Threads, OthersAside(t),
           \/ Quiet(t) \/ WaitEvent(t) \/ \E g \in Groups, e \in Events : Takes(t, g, e)
    PROVE  Unseen
<1>1. UNCHANGED <<mine, vote>>
  BY DEF Quiet, WaitEvent, Takes, locals, history
<1>2. pc[t] # "ev_release" /\ pc'[t] # "ev_release"
  <2>1. pc \in [Threads -> PCs]
    BY DEF AccessInv, TypeInv, TypeOK
  <2> QED BY <2>1 DEF Quiet, Elsewhere, WaitPCs, WaitEvent, Goto, Takes
<1> QED BY <1>1, <1>2, VerdictsKept DEF Unseen, askedBar

(* assign_event_to_groups() puts the access before all active groups. *)
LEMMA AssignSubmits ==
    ASSUME AccessInv, NEW t \in Threads, OthersAside(t), Assign(t)
    PROVE  AC!Submit(t, Active)
<1>0. /\ pc \in [Threads -> PCs] /\ pc[t] = "assign" /\ AccessOK(t)
      /\ last_event_id \in 0 .. MaxEvents /\ last_event_id < MaxEvents
      /\ vote \in [Events -> [Groups -> Votes]]
      /\ mine \in [Threads -> Events \cup {NoEvent}]
  BY DEF AccessInv, TypeInv, TypeOK, Assign
<1>e. PICK e \in Events : e = last_event_id + 1
  BY <1>0, BoundsAssumption DEF Events
<1> DEFINE new == [g \in Groups |-> IF g \in Active THEN "pending" ELSE "none"]
<1>1. /\ vote' = [vote EXCEPT ![e] = new] /\ mine' = [mine EXCEPT ![t] = e]
      /\ pc' = wake_up_group([pc EXCEPT ![t] = "ev_wait"], Active)
  BY <1>e DEF Assign
<1>2. e # NoEvent /\ mine[t] = NoEvent /\ mine'[t] = e /\ vote'[e] = new
  BY <1>0, <1>1 DEF AccessOK, WaitPCs, NoEvent, Events
<1>3. \A u \in Threads \ {t} : mine'[u] = mine[u] /\ mine[u] # e
  <2>1. EventOK(e) /\ ~(e <= last_event_id)
    BY <1>0, <1>e DEF AccessInv
  <2> QED BY <1>0, <1>1, <2>1 DEF EventOK
<1>4. pc'[t] = "ev_wait"
  <2> DEFINE p == [pc EXCEPT ![t] = "ev_wait"]
  <2>1. p[t] = "ev_wait" /\ pc' = wake_up_group(p, Active)
    BY <1>0, <1>1
  <2> HIDE DEF p
  <2> QED BY <2>1 DEF wake_up_group
<1>5. verdictBar[t] = "none" /\ verdictBar' = verdictBar
  BY <1>0, <1>4, BarValues, VerdictsKept
<1>6. askedBar[t] = AC!NotAsked
  BY <1>2, BarValues DEF AC!NotAsked, NoVotes
<1> HIDE DEF new
<1>7. askedBar'[t] = new /\ \A u \in Threads \ {t} : askedBar'[u] = askedBar[u]
  <2>1. ASSUME NEW u \in Threads \ {t}, mine[u] # NoEvent
        PROVE  vote'[mine[u]] = vote[mine[u]]
    BY <1>0, <1>1, <1>3, <2>1
  <2> QED BY <1>2, <1>3, <2>1, BarValues
<1>8. askedBar' = [askedBar EXCEPT ![t] = new]
  <2>1. askedBar = [u \in Threads |-> askedBar[u]] /\ askedBar' = [u \in Threads |-> askedBar'[u]]
    BY DEF askedBar
  <2> QED BY <1>7, <2>1
<1> QED BY <1>5, <1>6, <1>8 DEF AC!Submit, new

\* the answer v of group g to the events in S, as the abstract variables show it
SeenAfter(S, g, v) ==
    /\ verdictBar' = verdictBar
    /\ \A u \in Threads :
          askedBar'[u] = IF mine[u] \in S THEN [askedBar[u] EXCEPT ![g] = v]
                         ELSE askedBar[u]

(* What release_event() does is seen by the process that waits for the event and
   by no other. *)
LEMMA ReleaseSeen ==
    ASSUME AccessInv, NEW t \in Threads, OthersAside(t), NEW S, S \subseteq Events,
           NEW g \in Groups, NEW v, release_event(S, g, v),
           pc[t] # "ev_release", pc'[t] # "ev_release", UNCHANGED mine
    PROVE  SeenAfter(S, g, v)
<1>1. verdictBar' = verdictBar
  BY VerdictsKept
<1>2. ASSUME NEW u \in Threads
      PROVE  askedBar'[u] = IF mine[u] \in S THEN [askedBar[u] EXCEPT ![g] = v]
                            ELSE askedBar[u]
  <2>1. CASE mine[u] = NoEvent
    <3>1. mine[u] \notin S
      BY <2>1 DEF NoEvent, Events
    <3> QED BY <2>1, <3>1, BarValues
  <2>2. CASE mine[u] # NoEvent
    <3>1. mine[u] \in Events
      BY <2>2 DEF AccessInv, TypeInv, TypeOK
    <3>2. AfterRelease(S, g, v, mine[u])
      BY <3>1, ReleaseOne
    <3> QED BY <2>2, <3>2, BarValues DEF AfterRelease
  <2> QED BY <2>1, <2>2
<1> QED BY <1>1, <1>2 DEF SeenAfter

(* release_event() in dazukofs_return_event() is the answer of the group. *)
LEMMA ReleaseAnswers ==
    ASSUME AccessInv, NEW t \in Threads, OthersAside(t), ReleaseAnswered(t)
    PROVE  \E p \in Threads, g \in Groups, v \in {"allow", "deny"} : AC!Answer(p, g, v)
<1>0. /\ pc \in [Threads -> PCs] /\ pc[t] = "re_release"
      /\ cur[t] \in Groups /\ ec[t] \in Events /\ ans[t] \in {"allow", "deny"}
  BY DEF AccessInv, TypeInv, TypeOK, LocalOK, HasGroup, HasContainer, AccessOK,
         ReleaseAnswered
<1>g. PICK g \in Groups : g = cur[t]
  BY <1>0
<1>e. PICK e \in Events : e = ec[t]
  BY <1>0
<1>v. PICK v \in {"allow", "deny"} : v = ans[t]
  BY <1>0
<1>1. /\ release_event({e}, g, v) /\ UNCHANGED mine
      /\ pc' = wake_up_event([pc EXCEPT ![t] = "idle"], Woken({e}))
  BY <1>g, <1>e, <1>v DEF ReleaseAnswered
<1>2. pc'[t] = "idle"
  BY <1>0, <1>1, SleepersWoken
<1>3. EventOK(e) /\ vote[e][g] = "pending"
  <2>1. EventOK(e) /\ Releasing(e, g) # {}
    BY <1>0, <1>g, <1>e DEF AccessInv, Releasing
  <2> QED BY <2>1 DEF EventOK, Owes
<1>4. PICK p \in Threads : mine[p] = e
  BY <1>3 DEF EventOK, NoVotes
<1>5. e # NoEvent /\ \A u \in Threads : mine[u] \in {e} <=> u = p
  BY <1>4 DEF AccessInv, OneOwner, NoEvent, Events
<1>6. askedBar[p][g] = "pending"
  BY <1>3, <1>4, <1>5, BarValues
<1>7. /\ verdictBar' = verdictBar
      /\ \A u \in Threads :
            askedBar'[u] = IF u = p THEN [askedBar[u] EXCEPT ![g] = v] ELSE askedBar[u]
  <2>1. PICK S \in SUBSET Events : S = {e}
    OBVIOUS
  <2>2. /\ release_event(S, g, v) /\ mine' = mine /\ S \subseteq Events
        /\ pc[t] # "ev_release" /\ pc'[t] # "ev_release"
    BY <1>0, <1>1, <1>2, <2>1
  <2>3. SeenAfter(S, g, v)
    BY <2>2, ReleaseSeen
  <2> QED BY <1>5, <2>1, <2>3 DEF SeenAfter
<1>8. askedBar' = [askedBar EXCEPT ![p][g] = v]
  <2>1. askedBar = [u \in Threads |-> askedBar[u]] /\ askedBar' = [u \in Threads |-> askedBar'[u]]
    BY DEF askedBar
  <2> QED BY <1>7, <2>1
<1>9. AC!Answer(p, g, v)
  BY <1>6, <1>7, <1>8 DEF AC!Answer
<1> QED BY <1>9

(* __remove_group() withdraws the group from every access it still holds. *)
LEMMA ClearsWithdraws ==
    ASSUME AccessInv, NEW t \in Threads, OthersAside(t), NEW g \in Groups, Clears(t, g)
    PROVE  \E P \in SUBSET Threads : AC!Withdraw(g, P)
<1> DEFINE S == Contained(g)
           P == {u \in Threads : mine[u] \in S}
<1>0. /\ todo \in [Groups -> Seq(Events)] /\ working \in [Groups -> SUBSET Events]
      /\ pc \in [Threads -> PCs]
  BY DEF AccessInv, TypeInv, TypeOK
<1>1. S \subseteq Events
  <2>1. Range(todo[g]) \subseteq Events
    BY <1>0 DEF Range
  <2> QED BY <1>0, <2>1 DEF Contained
<1>2. release_event(S, g, "gone") /\ UNCHANGED mine
  BY DEF Clears, ClearGroup
<1>3. pc[t] # "ev_release" /\ pc'[t] # "ev_release"
  <2>1. pc'[t] = "idle"
    BY <1>0, SleepersWoken DEF Clears
  <2> QED BY <2>1 DEF Clears, WaitPCs
<1>4. \A e \in S : vote[e][g] = "pending" /\ e # NoEvent
  BY <1>1 DEF AccessInv, EventOK, Owes, NoEvent, Events
<1> HIDE DEF S
<1>5. \A u \in P : askedBar[u][g] = "pending"
  BY <1>4, BarValues
<1>6. /\ verdictBar' = verdictBar
      /\ \A u \in Threads :
            askedBar'[u] = IF u \in P THEN [askedBar[u] EXCEPT ![g] = "gone"]
                           ELSE askedBar[u]
  <2>1. SeenAfter(S, g, "gone")
    BY <1>1, <1>2, <1>3, ReleaseSeen
  <2> QED BY <2>1 DEF SeenAfter
<1>7. askedBar' = [u \in Threads |-> IF u \in P THEN [askedBar[u] EXCEPT ![g] = "gone"]
                                     ELSE askedBar[u]]
  <2>1. askedBar' = [u \in Threads |-> askedBar'[u]]
    BY DEF askedBar
  <2> QED BY <1>6, <2>1
<1>8. AC!Withdraw(g, P)
  BY <1>5, <1>6, <1>7 DEF AC!Withdraw
<1> QED BY <1>8

(* The read of evt->deny is the decision. *)
LEMMA ReadDecides ==
    ASSUME AccessInv, NEW t \in Threads, OthersAside(t), ReadVerdict(t)
    PROVE  AC!Decide(t)
<1>0. /\ pc \in [Threads -> PCs] /\ ans \in [Threads -> Answers] /\ pc[t] = "ev_wait"
      /\ AccessOK(t) /\ mine[t] \in Events /\ EventOK(mine[t])
  BY DEF AccessInv, TypeInv, TypeOK, LocalOK, ReadVerdict
<1>e. mine[t] # NoEvent
  BY <1>0 DEF NoEvent, Events
<1>1. UNCHANGED <<mine, vote>> /\ evt[mine[t]].assigned = 0
  BY DEF ReadVerdict, locals, history, Settled
<1>2. /\ pc'[t] = "ev_release"
      /\ ans'[t] = IF evt[mine[t]].deny THEN "deny" ELSE "allow"
  BY <1>0 DEF ReadVerdict, Goto
<1>3. askedBar' = askedBar /\ askedBar[t] = vote[mine[t]]
  BY <1>e, <1>1, BarValues DEF askedBar
<1>4. Pending(mine[t]) = {}
  <2>1. IsFiniteSet(Pending(mine[t]))
    BY FiniteGroups DEF Pending
  <2> QED BY <1>0, <1>1, <2>1, FS_EmptySet DEF EventOK
<1>5. \A g \in Groups : askedBar[t][g] # "pending"
  BY <1>3, <1>4 DEF Pending
<1>6. verdictBar'[t] = IF \E g \in Groups : askedBar[t][g] = "deny" THEN "deny" ELSE "allow"
  BY <1>0, <1>2, <1>3, BarValues DEF EventOK
<1>7. verdictBar[t] = "none" /\ \A u \in Threads \ {t} : verdictBar'[u] = verdictBar[u]
  BY <1>0, BarValues, VerdictsKept
<1>8. verdictBar' = [verdictBar EXCEPT ![t] =
                       IF \E g \in Groups : askedBar[t][g] = "deny" THEN "deny" ELSE "allow"]
  <2>1. /\ verdictBar = [u \in Threads |-> verdictBar[u]]
        /\ verdictBar' = [u \in Threads |-> verdictBar'[u]]
    BY DEF verdictBar
  <2> QED BY <1>6, <1>7, <2>1
<1> QED BY <1>3, <1>5, <1>7, <1>8 DEF AC!Decide

(* The end of dazukofs_check_access(). *)
LEMMA ReleaseReturns ==
    ASSUME AccessInv, NEW t \in Threads, OthersAside(t), ReleaseOwn(t)
    PROVE  AC!Return(t)
<1>0. /\ pc \in [Threads -> PCs] /\ pc[t] = "ev_release" /\ AccessOK(t)
      /\ vote \in [Events -> [Groups -> Votes]]
      /\ mine \in [Threads -> Events \cup {NoEvent}]
  BY DEF AccessInv, TypeInv, TypeOK, ReleaseOwn
<1>e. PICK e \in Events : e = mine[t]
  BY ReleaseOwnFrees
<1>1. vote' = [vote EXCEPT ![e] = NoVotes] /\ mine' = [mine EXCEPT ![t] = NoEvent]
  BY <1>e, ReleaseOwnFrees DEF ReleaseOwn
<1>2. pc'[t] \in {"idle", "open_ret"} /\ mine'[t] = NoEvent
  BY <1>0, <1>1 DEF ReleaseOwn, CheckAccessReturns, Goto
<1>3. e # NoEvent /\ \A u \in Threads \ {t} : mine[u] # e /\ mine'[u] = mine[u]
  BY <1>0, <1>1, <1>e DEF AccessInv, OneOwner, NoEvent, Events
<1>4. askedBar'[t] = AC!NotAsked /\ \A u \in Threads \ {t} : askedBar'[u] = askedBar[u]
  <2>1. askedBar'[t] = NoVotes
    BY <1>2, BarValues
  <2>2. ASSUME NEW u \in Threads \ {t}, mine[u] # NoEvent
        PROVE  vote'[mine[u]] = vote[mine[u]]
    BY <1>0, <1>1, <1>3, <2>2
  <2> QED BY <1>3, <2>1, <2>2, BarValues DEF AC!NotAsked, NoVotes
<1>5. /\ verdictBar[t] # "none" /\ verdictBar'[t] = "none"
      /\ \A u \in Threads \ {t} : verdictBar'[u] = verdictBar[u]
  BY <1>0, <1>2, BarValues, VerdictsKept DEF AccessOK
<1>6. /\ askedBar' = [askedBar EXCEPT ![t] = AC!NotAsked]
      /\ verdictBar' = [verdictBar EXCEPT ![t] = "none"]
  <2>1. /\ askedBar = [u \in Threads |-> askedBar[u]]
        /\ askedBar' = [u \in Threads |-> askedBar'[u]]
        /\ verdictBar = [u \in Threads |-> verdictBar[u]]
        /\ verdictBar' = [u \in Threads |-> verdictBar'[u]]
    BY DEF askedBar, verdictBar
  <2> QED BY <1>4, <1>5, <2>1
<1> QED BY <1>5, <1>6 DEF AC!Return

(* Every step is a step of AccessControl or is not visible there. *)
LEMMA StepRefines ==
    ASSUME AccessInv, [Next]_vars
    PROVE  [AC!ANext]_<<askedBar, verdictBar>>
<1>1. ASSUME NEW t \in Threads, ThreadStep(t) PROVE AC!ANext \/ Unseen
  <2>1. OthersAside(t)
    BY <1>1, OthersUndisturbed DEF AccessInv, OthersAside
  <2>2. CASE Quiet(t) \/ WaitEvent(t) \/ \E g \in Groups, e \in Events : Takes(t, g, e)
    BY <2>1, <2>2, QuietUnseen
  <2>3. CASE Assign(t)
    <3>1. Active \in SUBSET Groups
      BY DEF Active
    <3> QED BY <2>1, <2>3, <3>1, AssignSubmits DEF AC!ANext
  <2>4. CASE ReadVerdict(t)
    BY <2>1, <2>4, ReadDecides DEF AC!ANext
  <2>5. CASE ReleaseOwn(t)
    BY <2>1, <2>5, ReleaseReturns DEF AC!ANext
  <2>6. CASE ReleaseAnswered(t)
    BY <2>1, <2>6, ReleaseAnswers DEF AC!ANext
  <2>7. ASSUME NEW g \in Groups, Clears(t, g) PROVE AC!ANext
    BY <2>1, <2>7, ClearsWithdraws DEF AC!ANext
  <2> QED BY <1>1, <2>2, <2>3, <2>4, <2>5, <2>6, <2>7, StepKinds
<1>2. ASSUME UNCHANGED <<shared, pc, locals, user, vote>> PROVE Unseen
  BY <1>2 DEF Unseen, askedBar, verdictBar, locals
<1>3. ASSUME NEW t \in Threads, FaultStep(t) PROVE Unseen
  BY <1>2, <1>3 DEF FaultStep, UseAfterFree
<1>4. ASSUME UNCHANGED vars PROVE Unseen
  BY <1>2, <1>4 DEF vars, history
<1>5. AC!ANext \/ Unseen
  BY <1>1, <1>3, <1>4 DEF Next
<1> QED BY <1>5 DEF Unseen

(***************************************************************************)
(* The event subsystem implements AccessControl, whatever readers, writers *)
(* and control processes do at the same time: every step of event.c is one *)
(* step of the abstract specification or changes nothing there.  The       *)
(* theorem for ImplementsAccessControl.                                    *)
(***************************************************************************)
THEOREM AccessControlImplemented ==
    Spec => ImplementsAccessControl
<1>1. AccessInv /\ [Next]_vars => [AC!ANext]_<<askedBar, verdictBar>>
  BY StepRefines
<1> QED
  BY <1>1, InitRefines, AccessInvInductive, PTL
     DEF Spec, ImplementsAccessControl, AC!ASpec
=============================================================================
