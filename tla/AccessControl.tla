---------------------------- MODULE AccessControl ----------------------------
(***************************************************************************)
(* What the event subsystem promises to a process that opens a file, with  *)
(* nothing said about lists, locks or devices: the access is put before a  *)
(* set of groups; every one of them answers once or is deleted; the access *)
(* is decided when none is left to answer, and it is denied exactly if     *)
(* some group denied it.                                                   *)
(***************************************************************************)
CONSTANTS Process, Group

VARIABLES
    asked,     \* asked[p][g]: what group g said about the access of p
    verdict    \* the decision p has been given

NotAsked == [g \in Group |-> "none"]

AInit ==
    /\ asked = [p \in Process |-> NotAsked]
    /\ verdict = [p \in Process |-> "none"]

Submit(p, G) ==
    /\ asked[p] = NotAsked /\ verdict[p] = "none"
    /\ asked' = [asked EXCEPT ![p] =
                   [g \in Group |-> IF g \in G THEN "pending" ELSE "none"]]
    /\ UNCHANGED verdict

Answer(p, g, v) ==
    /\ asked[p][g] = "pending"
    /\ asked' = [asked EXCEPT ![p][g] = v]
    /\ UNCHANGED verdict

\* the group is deleted; an answer that is on its way still counts
Withdraw(g, P) ==
    /\ \A p \in P : asked[p][g] = "pending"
    /\ asked' = [p \in Process |->
                   IF p \in P THEN [asked[p] EXCEPT ![g] = "gone"] ELSE asked[p]]
    /\ UNCHANGED verdict

Decide(p) ==
    /\ verdict[p] = "none"
    /\ \A g \in Group : asked[p][g] # "pending"
    /\ verdict' = [verdict EXCEPT ![p] =
                     IF \E g \in Group : asked[p][g] = "deny"
                     THEN "deny" ELSE "allow"]
    /\ UNCHANGED asked

Return(p) ==
    /\ verdict[p] # "none"
    /\ asked' = [asked EXCEPT ![p] = NotAsked]
    /\ verdict' = [verdict EXCEPT ![p] = "none"]

ANext ==
    \/ \E p \in Process :
         \/ \E G \in SUBSET Group : Submit(p, G)
         \/ \E g \in Group, v \in {"allow", "deny"} : Answer(p, g, v)
         \/ Decide(p) \/ Return(p)
    \/ \E g \in Group, P \in SUBSET Process : Withdraw(g, P)

ASpec == AInit /\ [][ANext]_<<asked, verdict>>
=============================================================================
