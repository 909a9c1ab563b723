------------------------------ MODULE MCDevText -----------------------------
(***************************************************************************)
(* Model checking of DevText: one client, whose name is the end of other   *)
(* names; texts of one and of two commands, one with a name that is cut    *)
(* and one whose first command fails.                                      *)
(***************************************************************************)
EXTENDS DevText

MCCommand(k, n) == [key |-> k, name |-> [w |-> "a", len |-> n]]
MCNameOf == [p \in Clients |-> [w |-> "a", len |-> 1]]
MCTexts  == {<<MCCommand("add", 35)>>,
             <<MCCommand("del", 27)>>,
             <<MCCommand("del", 0), MCCommand("add", 10)>>,
             <<MCCommand("add", 10), MCCommand("del", 10)>>,
             <<MCCommand("addtrack", 10), MCCommand("add", 0)>>}
=============================================================================
