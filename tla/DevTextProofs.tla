---------------------------- MODULE DevTextProofs ---------------------------
(***************************************************************************)
(* The promises of the devices' texts, for any number of processes and     *)
(* groups and any texts: a reader of the list gets one list, which fits    *)
(* its buffer; a write carries out its commands in order; a client serves  *)
(* its own group, and an answer arrives in the sense it was meant.         *)
(***************************************************************************)
EXTENDS DevText, FiniteSetTheorems, WellFoundedInduction, TLAPS

\* a list that was made is not taken for none
ListsAreSomething == \A t, r : [text |-> t, room |-> r] # NoList

(***************************************************************************)
(* The list of a process that has the control device open: private_data is *)
(* set once, by the first read, and every piece comes from it.             *)
(***************************************************************************)
IsFile(f) ==
    f = [alloc |-> f.alloc, list |-> f.list, pos |-> f.pos, got |-> f.got]

FileOK(l, f) ==
    /\ IsFile(f)
    /\ l = "get_groups" => f.list = NoList
    /\ l = "read" => f.list # NoList
    /\ f.list = NoList => f.got = {}
    /\ \A m \in f.got : m = f.list.text

ListInv ==
    /\ pc = [p \in Procs |-> pc[p]]
    /\ file = [p \in Procs |-> file[p]]
    /\ \A p \in Procs : FileOK(pc[p], file[p])

(***************************************************************************)
(* The handles of the library.                                             *)
(***************************************************************************)
IsHandle(h) ==
    h = [gid |-> h.gid, pos |-> h.pos, id |-> h.id, whole |-> h.whole,
         failed |-> h.failed]

\* fds and pids have some width, an event id at most 11 digits (a positive
\* last_event_id, an int, has 10): the answer "id=%lu r=%d" then fits the
\* buffer of group_dev.c
DigitsFit ==
    /\ FdDigits \subseteq Nat /\ PidDigits \subseteq Nat
    /\ IdDigits \subseteq 0 .. 11
    /\ NoId \notin Events

HandleOK(h) ==
    /\ IsHandle(h)
    /\ h.id \in Events \cup {NoId}
    /\ h.id = NoId => h.pos = 0
    /\ h.whole = TRUE
    /\ h.failed # "refused"

AnswerInv ==
    /\ hnd = [p \in Clients |-> hnd[p]]
    /\ \A p \in Clients : HandleOK(hnd[p])
    /\ event \in [Events -> [id : IdDigits, fd : FdDigits, pid : PidDigits,
                            deny : BOOLEAN]]
    /\ answered = [i \in Events |-> answered[i]]
    /\ \A i \in Events : answered[i] # NoId => answered[i] = event[i].deny
-----------------------------------------------------------------------------
(***************************************************************************)
(* The order in which dazukofs_ctrl_write() looks for its keys.            *)
(***************************************************************************)
LEMMA Places ==
    /\ Place("del") = 1 /\ Place("add") = 2 /\ Place("addtrack") = 3
    /\ After("del") = "add" /\ After("add") = "addtrack"
<1>1. Order[1] = "del" /\ Order[2] = "add" /\ Order[3] = "addtrack"
  BY DEF Order
<1>2. ASSUME NEW k, NEW i \in 1 .. 3, Order[i] = k
      PROVE  Place(k) = i
  <2>1. \A j \in 1 .. 3 : Order[j] = k => j = i
    BY <1>1, <1>2
  <2> HIDE DEF Order
  <2>2. Place(k) \in 1 .. 3 /\ Order[Place(k)] = k
    BY <1>2 DEF Place
  <2> QED
    BY <2>1, <2>2
<1>3. Place("del") = 1 /\ Place("add") = 2 /\ Place("addtrack") = 3
  <2> HIDE DEF Order
  <2> QED
    BY <1>1, <1>2
<1> QED
  BY <1>1, <1>3 DEF After
-----------------------------------------------------------------------------
(***************************************************************************)
(* The list.                                                               *)
(***************************************************************************)

\* a step of p, as far as the file of p is concerned
FileStep(p) ==
    /\ \A q \in Procs : q # p => pc'[q] = pc[q] /\ file'[q] = file[q]
    /\ pc' = [q \in Procs |-> pc'[q]] /\ file' = [q \in Procs |-> file'[q]]
    /\ FileOK(pc'[p], file'[p])

LEMMA ListFrame ==
    ASSUME ListInv, NEW p \in Procs, FileStep(p)
    PROVE  ListInv'
BY DEF ListInv, FileStep

LEMMA FileFields ==
    ASSUME NEW f, IsFile(f), NEW a, NEW l, NEW n, NEW g
    PROVE  /\ [f EXCEPT !.alloc = a]
                = [alloc |-> a, list |-> f.list, pos |-> f.pos, got |-> f.got]
           /\ [f EXCEPT !.list = l]
                = [alloc |-> f.alloc, list |-> l, pos |-> f.pos, got |-> f.got]
           /\ [f EXCEPT !.pos = n]
                = [alloc |-> f.alloc, list |-> f.list, pos |-> n, got |-> f.got]
           /\ [f EXCEPT !.pos = n, !.got = g]
                = [alloc |-> f.alloc, list |-> f.list, pos |-> n, got |-> g]
<1>1. f = [alloc |-> f.alloc, list |-> f.list, pos |-> f.pos, got |-> f.got]
  BY DEF IsFile
<1>2. DOMAIN f = {"alloc", "list", "pos", "got"}
  BY <1>1
<1>3. [f EXCEPT !.alloc = a]
        = [alloc |-> a, list |-> f.list, pos |-> f.pos, got |-> f.got]
  BY <1>1, <1>2
<1>4. [f EXCEPT !.list = l]
        = [alloc |-> f.alloc, list |-> l, pos |-> f.pos, got |-> f.got]
  BY <1>1, <1>2
<1>5. [f EXCEPT !.pos = n]
        = [alloc |-> f.alloc, list |-> f.list, pos |-> n, got |-> f.got]
  BY <1>1, <1>2
<1>6. [f EXCEPT !.pos = n, !.got = g]
        = [alloc |-> f.alloc, list |-> f.list, pos |-> n, got |-> g]
  <2>1. [f EXCEPT !.pos = n, !.got = g] = [[f EXCEPT !.pos = n] EXCEPT !.got = g]
    OBVIOUS
  <2>2. [[alloc |-> f.alloc, list |-> f.list, pos |-> n, got |-> f.got] EXCEPT !.got = g]
          = [alloc |-> f.alloc, list |-> f.list, pos |-> n, got |-> g]
    OBVIOUS
  <2> QED
    BY <1>5, <2>1, <2>2
<1> QED
  BY <1>3, <1>4, <1>5, <1>6

\* what is left of a file when one of its fields is set
LEMMA FileKept ==
    ASSUME NEW f, NEW h, NEW l, FileOK(l, f), NEW a, NEW n, NEW k,
           h = [alloc |-> a, list |-> f.list, pos |-> n, got |-> f.got],
           k = "get_groups" => f.list = NoList, k = "read" => f.list # NoList
    PROVE  FileOK(k, h)
BY DEF FileOK, IsFile

LEMMA FileClosed == \A l : l \notin {"read"} => FileOK(l, NoFile)
BY DEF FileOK, IsFile, NoFile

\* every step that moves one process and leaves its file alone or closes it
LEMMA FileCalm ==
    ASSUME ListInv, NEW p \in Procs, NEW l, l \notin {"get_groups", "read"},
           Goto(p, l), file' = file \/ file' = [file EXCEPT ![p] = NoFile]
    PROVE  ListInv'
<1>1. pc'[p] = l /\ \A q \in Procs : q # p => pc'[q] = pc[q] /\ file'[q] = file[q]
  BY DEF ListInv, Goto
<1>2. pc' = [q \in Procs |-> pc'[q]] /\ file' = [q \in Procs |-> file'[q]]
  BY DEF ListInv, Goto
<1>3. file'[p] = file[p] \/ file'[p] = NoFile
  BY DEF ListInv
<1>4. FileOK(l, file'[p])
  <2>1. CASE file'[p] = file[p]
    BY <2>1 DEF ListInv, FileOK
  <2>2. CASE file'[p] = NoFile
    BY <2>2, FileClosed
  <2> QED
    BY <1>3, <2>1, <2>2
<1> QED
  BY <1>1, <1>2, <1>4, ListFrame DEF FileStep

LEMMA ListCommand ==
    ASSUME ListInv, NEW p \in Procs, NEW memory, Command(p, memory)
    PROVE  ListInv'
<1>1. pc[p] \in Keys /\ file' = file
  BY DEF Command
<1>2. After("del") = "add" /\ After("add") = "addtrack"
  BY Places
<1>3. PICK l : l = (IF pc[p] = "addtrack" THEN "written" ELSE After(pc[p]))
  OBVIOUS
<1>4. l \notin {"get_groups", "read"}
  BY <1>1, <1>2, <1>3 DEF Keys
<1>5. Goto(p, l)
  BY <1>3 DEF Command
<1> QED
  BY <1>1, <1>4, <1>5, FileCalm

LEMMA ListGetGroups ==
    ASSUME ListsAreSomething, ListInv, NEW p \in Procs, GetGroups(p)
    PROVE  ListInv'
<1>1. FileOK(pc[p], file[p]) /\ pc[p] = "get_groups"
  BY DEF ListInv, GetGroups
<1>2. IsFile(file[p]) /\ file[p].list = NoList /\ file[p].got = {}
  BY <1>1 DEF FileOK
<1>3. PICK made : made = [text |-> groups, room |-> file[p].alloc - 2]
  OBVIOUS
<1>4. made # NoList
  BY <1>3 DEF ListsAreSomething
<1>5. CASE Fits(1 + Width(groups), file[p].alloc)
  <2>1. file' = [file EXCEPT ![p] = [file[p] EXCEPT !.list = made]] /\ Goto(p, "read")
    BY <1>3, <1>5 DEF GetGroups
  <2>2. file'[p] = [alloc |-> file[p].alloc, list |-> made, pos |-> file[p].pos, got |-> {}]
    <3>1. file'[p] = [file[p] EXCEPT !.list = made]
      BY <2>1 DEF ListInv
    <3> QED
      BY <1>2, <3>1, FileFields, ZenonT(60)
  <2>3. FileOK("read", file'[p])
    BY <1>4, <2>2 DEF FileOK, IsFile
  <2> QED
    BY <2>1, <2>3, ListFrame DEF FileStep, ListInv, Goto
<1>6. CASE ~Fits(1 + Width(groups), file[p].alloc)
  <2>1. PICK n : n = 2 * file[p].alloc
    OBVIOUS
  <2>2. file' = [file EXCEPT ![p] = [file[p] EXCEPT !.alloc = n]] /\ Goto(p, "get_groups")
    BY <1>6, <2>1 DEF GetGroups
  <2>3. file'[p] = [alloc |-> n, list |-> file[p].list, pos |-> file[p].pos,
                    got |-> file[p].got]
    <3>1. file'[p] = [file[p] EXCEPT !.alloc = n]
      BY <2>2 DEF ListInv
    <3> QED
      BY <1>2, <3>1, FileFields, ZenonT(60)
  <2>4. FileOK("get_groups", file'[p])
    BY <1>2, <2>3 DEF FileOK, IsFile
  <2> QED
    BY <2>2, <2>4, ListFrame DEF FileStep, ListInv, Goto
<1> QED
  BY <1>5, <1>6

LEMMA ListStartRead ==
    ASSUME ListInv, NEW p \in Procs, StartRead(p)
    PROVE  ListInv'
<1>1. FileOK(pc[p], file[p]) /\ IsFile(file[p])
  BY DEF ListInv, FileOK
<1>2. CASE file[p].list # NoList
  <2>1. file' = file /\ Goto(p, "read")
    BY <1>2 DEF StartRead, ListOf
  <2>2. FileOK("read", file'[p])
    BY <1>1, <1>2, <2>1 DEF FileOK
  <2> QED
    BY <2>1, <2>2, ListFrame DEF FileStep, ListInv, Goto
<1>3. CASE file[p].list = NoList
  <2>1. file' = [file EXCEPT ![p].alloc = ALLOCSIZE] /\ Goto(p, "get_groups")
    BY <1>3 DEF StartRead, ListOf
  <2>2. file'[p] = [alloc |-> ALLOCSIZE, list |-> file[p].list, pos |-> file[p].pos,
                    got |-> file[p].got]
    <3>1. file'[p] = [file[p] EXCEPT !.alloc = ALLOCSIZE]
      BY <2>1 DEF ListInv
    <3> QED
      BY <1>1, <3>1, FileFields
  <2>3. FileOK("get_groups", file'[p])
    BY <1>1, <1>3, <2>2 DEF FileOK, IsFile
  <2> QED
    BY <2>1, <2>3, ListFrame DEF FileStep, ListInv, Goto
<1> QED
  BY <1>2, <1>3

LEMMA ListReadPiece ==
    ASSUME ListInv, NEW p \in Procs, ReadPiece(p)
    PROVE  ListInv'
<1>1. /\ FileOK(pc[p], file[p]) /\ IsFile(file[p]) /\ file[p].list # NoList
      /\ Goto(p, "open")
  BY DEF ListInv, FileOK, ReadPiece
<1>2. CASE file' = file
  BY <1>1, <1>2, FileCalm
<1>3. CASE file' # file
  <2>1. PICK n : n = (IF file[p].pos + ReadLen > Width(file[p].list.text)
                      THEN Width(file[p].list.text) ELSE file[p].pos + ReadLen)
    OBVIOUS
  <2>2. PICK g : g = file[p].got \cup {file[p].list.text}
    OBVIOUS
  <2>3. file' = [file EXCEPT ![p].pos = n, ![p].got = g]
    BY <1>3, <2>1, <2>2 DEF ReadPiece
  <2>4. file'[p] = [alloc |-> file[p].alloc, list |-> file[p].list, pos |-> n, got |-> g]
    <3>1. file'[p] = [file[p] EXCEPT !.pos = n, !.got = g]
      BY <2>3 DEF ListInv
    <3> QED
      BY <1>1, <3>1, FileFields
  <2>5. FileOK("open", file'[p])
    BY <1>1, <2>2, <2>4 DEF FileOK, IsFile
  <2> QED
    BY <1>1, <2>3, <2>5, ListFrame DEF FileStep, ListInv, Goto
<1> QED
  BY <1>2, <1>3

LEMMA ListCtrlWritten ==
    ASSUME ListInv, NEW p \in Procs, CtrlWritten(p)
    PROVE  ListInv'
<1>1. /\ FileOK(pc[p], file[p]) /\ IsFile(file[p]) /\ Goto(p, "open")
  BY DEF ListInv, FileOK, CtrlWritten
<1>2. CASE file' = file
  BY <1>1, <1>2, FileCalm
<1>3. CASE file' # file
  <2>1. PICK n : n = file[p].pos + wr[p].len
    OBVIOUS
  <2>2. file' = [file EXCEPT ![p].pos = n]
    BY <1>3, <2>1 DEF CtrlWritten
  <2>3. file'[p] = [alloc |-> file[p].alloc, list |-> file[p].list, pos |-> n,
                    got |-> file[p].got]
    <3>1. file'[p] = [file[p] EXCEPT !.pos = n]
      BY <2>2 DEF ListInv
    <3> QED
      BY <1>1, <3>1, FileFields
  <2>4. FileOK("open", file'[p])
    BY <1>1, <2>3 DEF FileOK, IsFile
  <2> QED
    BY <1>1, <2>2, <2>4, ListFrame DEF FileStep, ListInv, Goto
<1> QED
  BY <1>2, <1>3

LEMMA ListStep == ListsAreSomething /\ ListInv /\ [TextNext]_textVars => ListInv'
<1> SUFFICES ASSUME ListsAreSomething, ListInv, [TextNext]_textVars
             PROVE  ListInv'
  OBVIOUS
<1>1. CASE UNCHANGED textVars
  BY <1>1 DEF textVars, ListInv
<1>2. ASSUME NEW p \in Procs, NEW text, NEW end, StartWrite(p, text, end), file' = file
      PROVE  ListInv'
  BY <1>2, FileCalm DEF StartWrite
<1>3. ASSUME NEW p \in Ctrls, CtrlNext(p)
      PROVE  ListInv'
  <2>1. p \in Procs
    BY DEF Procs
  <2>2. CASE CtrlOpen(p) \/ CtrlRelease(p)
    BY <2>1, <2>2, FileCalm DEF CtrlOpen, CtrlRelease
  <2>3. ASSUME NEW text \in Texts, NEW end \in BOOLEAN, CtrlWrite(p, text, end)
        PROVE  ListInv'
    BY <1>2, <2>1, <2>3 DEF CtrlWrite
  <2> QED
    BY <1>3, <2>1, <2>2, <2>3, ListStartRead, ListReadPiece, ListCtrlWritten
       DEF CtrlNext, CtrlRead
<1>4. ASSUME NEW p \in Clients, ClientNext(p)
      PROVE  ListInv'
  <2>1. p \in Procs
    BY DEF Procs
  <2>2. ASSUME NEW key, NEW writable, LibOpen(p, key, writable)
        PROVE  ListInv'
    BY <1>2, <2>1, <2>2, ListStartRead DEF LibOpen
  <2>3. CASE LibWritten(p)
    BY <2>1, <2>3, ListStartRead, FileCalm DEF LibWritten
  <2>4. CASE LibFind(p)
    <3>1. file' = file /\ (Goto(p, "open_dev") \/ Goto(p, "close"))
      BY <2>4 DEF LibFind
    <3> QED
      BY <2>1, <3>1, FileCalm
  <2>5. CASE LibFails(p) \/ LibRemoved(p)
    <3>1. CASE LibFails(p)
      BY <2>1, <3>1, FileCalm DEF LibFails
    <3>2. CASE LibRemoved(p)
      <4>1. file' = file /\ (Goto(p, "serving") \/ Goto(p, "idle"))
        BY <3>2 DEF LibRemoved
      <4> QED
        BY <2>1, <4>1, FileCalm
    <3> QED
      BY <2>5, <3>1, <3>2
  <2>6. ASSUME NEW b \in BOOLEAN, LibOpenDev(p, b)
        PROVE  ListInv'
    <3>1. /\ file' = [file EXCEPT ![p] = NoFile]
          /\ Goto(p, "serving") \/ Goto(p, "idle")
      BY <2>6 DEF LibOpenDev
    <3> QED
      BY <2>1, <3>1, FileCalm
  <2>7. ASSUME NEW b \in BOOLEAN, LibClose(p, b)
        PROVE  ListInv'
    BY <1>2, <2>1, <2>7, FileCalm DEF LibClose
  <2>8. CASE \/ \E b \in BOOLEAN : ReturnAccess(p, b)
             \/ \E i \in Events : GetAccess(p, i)
    <3>1. pc' = pc /\ file' = file
      BY <2>8 DEF ReturnAccess, GetAccess
    <3> QED
      BY <3>1 DEF ListInv
  <2> QED
    BY <1>4, <2>2, <2>3, <2>4, <2>5, <2>6, <2>7, <2>8 DEF ClientNext
<1>5. ASSUME NEW p \in Procs, GetGroupsFails(p)
      PROVE  ListInv'
  <2>1. file' = file /\ (Goto(p, "close") \/ Goto(p, "open"))
    BY <1>5 DEF GetGroupsFails
  <2> QED
    BY <2>1, FileCalm
<1> QED
  BY <1>1, <1>3, <1>4, <1>5, ListCommand, ListGetGroups DEF TextNext

(***************************************************************************)
(* dazukofs_ctrl_read() hands out one list to a process that reads it in   *)
(* pieces, whoever adds and deletes groups in the meantime, whatever the   *)
(* process writes in between and however often the buffer has to grow.     *)
(***************************************************************************)
THEOREM ListReadWhole ==
    ASSUME ListsAreSomething
    PROVE  TextSpec => []OneList
<1>1. TextInit => ListInv
  <2>1. "idle" \notin {"read"}
    OBVIOUS
  <2> QED
    BY <2>1, FileClosed DEF TextInit, ListInv
<1>2. ListInv /\ [TextNext]_textVars => ListInv'
  BY ListStep
<1>3. ListInv => OneList
  BY DEF ListInv, FileOK, OneList, Procs
<1> QED
  BY <1>1, <1>2, <1>3, PTL DEF TextSpec
-----------------------------------------------------------------------------
(***************************************************************************)
(* Answers.                                                                *)
(***************************************************************************)
LEMMA HandleFields ==
    ASSUME NEW h, IsHandle(h), NEW a, NEW n, NEW i
    PROVE  /\ [h EXCEPT !.gid = a]
                = [gid |-> a, pos |-> h.pos, id |-> h.id, whole |-> h.whole,
                   failed |-> h.failed]
           /\ [h EXCEPT !.failed = a]
                = [gid |-> h.gid, pos |-> h.pos, id |-> h.id, whole |-> h.whole,
                   failed |-> a]
           /\ [h EXCEPT !.id = i, !.pos = n]
                = [gid |-> h.gid, pos |-> n, id |-> i, whole |-> h.whole,
                   failed |-> h.failed]
<1>1. h = [gid |-> h.gid, pos |-> h.pos, id |-> h.id, whole |-> h.whole,
           failed |-> h.failed]
  BY DEF IsHandle
<1>2. DOMAIN h = {"gid", "pos", "id", "whole", "failed"}
  BY <1>1
<1>3. [h EXCEPT !.gid = a]
        = [gid |-> a, pos |-> h.pos, id |-> h.id, whole |-> h.whole,
           failed |-> h.failed]
  BY <1>1, <1>2
<1>4. [h EXCEPT !.failed = a]
        = [gid |-> h.gid, pos |-> h.pos, id |-> h.id, whole |-> h.whole,
           failed |-> a]
  BY <1>1, <1>2
<1>5. [h EXCEPT !.id = i]
        = [gid |-> h.gid, pos |-> h.pos, id |-> i, whole |-> h.whole,
           failed |-> h.failed]
  BY <1>1, <1>2
<1>6. [h EXCEPT !.id = i, !.pos = n]
        = [gid |-> h.gid, pos |-> n, id |-> i, whole |-> h.whole,
           failed |-> h.failed]
  <2>1. [h EXCEPT !.id = i, !.pos = n] = [[h EXCEPT !.id = i] EXCEPT !.pos = n]
    OBVIOUS
  <2>2. [[gid |-> h.gid, pos |-> h.pos, id |-> i, whole |-> h.whole,
          failed |-> h.failed] EXCEPT !.pos = n]
          = [gid |-> h.gid, pos |-> n, id |-> i, whole |-> h.whole,
             failed |-> h.failed]
    OBVIOUS
  <2> QED
    BY <1>5, <2>1, <2>2
<1> QED
  BY <1>3, <1>4, <1>6

\* what dazukofs_open(), dazukofs_get_access() and dazukofs_return_access() set
LEMMA HandleSet ==
    ASSUME NEW h, HandleOK(h), NEW n
    PROVE  /\ HandleOK([h EXCEPT !.gid = n])
           /\ HandleOK([h EXCEPT !.failed = "lost"])
           /\ HandleOK([h EXCEPT !.failed = "gone"])
           /\ HandleOK([h EXCEPT !.id = NoId, !.pos = 0])
           /\ \A i \in Events : i # NoId
                => HandleOK([h EXCEPT !.id = i, !.pos = n, !.whole = TRUE])
<1>0. IsHandle(h)
  BY DEF HandleOK
<1>1. HandleOK([h EXCEPT !.gid = n])
  <2>1. [h EXCEPT !.gid = n] = [gid |-> n, pos |-> h.pos, id |-> h.id,
                                whole |-> h.whole, failed |-> h.failed]
    BY <1>0, HandleFields
  <2> QED
    BY <2>1 DEF HandleOK, IsHandle
<1>2. ASSUME NEW a, a # "refused"
      PROVE  HandleOK([h EXCEPT !.failed = a])
  <2>1. [h EXCEPT !.failed = a] = [gid |-> h.gid, pos |-> h.pos, id |-> h.id,
                                   whole |-> h.whole, failed |-> a]
    BY <1>0, HandleFields
  <2> QED
    BY <1>2, <2>1 DEF HandleOK, IsHandle
<1>3. ASSUME NEW i, NEW m, m = 0, i = NoId
      PROVE  HandleOK([h EXCEPT !.id = i, !.pos = m])
  <2>1. [h EXCEPT !.id = i, !.pos = m] = [gid |-> h.gid, pos |-> m, id |-> i,
                                          whole |-> h.whole, failed |-> h.failed]
    BY <1>0, HandleFields
  <2> QED
    BY <1>3, <2>1 DEF HandleOK, IsHandle
<1>4. ASSUME NEW i \in Events, i # NoId, NEW w, w = TRUE
      PROVE  HandleOK([h EXCEPT !.id = i, !.pos = n, !.whole = w])
  <2>1. [h EXCEPT !.id = i, !.pos = n, !.whole = w]
          = [gid |-> h.gid, pos |-> n, id |-> i, whole |-> w, failed |-> h.failed]
    <3>1. [h EXCEPT !.id = i, !.pos = n]
            = [gid |-> h.gid, pos |-> n, id |-> i, whole |-> h.whole,
               failed |-> h.failed]
      BY <1>0, HandleFields
    <3>2. [h EXCEPT !.id = i, !.pos = n, !.whole = w]
            = [[h EXCEPT !.id = i, !.pos = n] EXCEPT !.whole = w]
      OBVIOUS
    <3>3. [[gid |-> h.gid, pos |-> n, id |-> i, whole |-> h.whole,
            failed |-> h.failed] EXCEPT !.whole = w]
            = [gid |-> h.gid, pos |-> n, id |-> i, whole |-> w,
               failed |-> h.failed]
      OBVIOUS
    <3> QED
      BY <3>1, <3>2, <3>3
  <2> QED
    BY <1>4, <2>1 DEF HandleOK, IsHandle
<1> QED
  BY <1>1, <1>2, <1>3, <1>4

\* the arithmetic of the two buffers
LEMMA LineFits ==
    ASSUME DigitsFit, NEW e \in [id : IdDigits, fd : FdDigits, pid : PidDigits,
                                 deny : BOOLEAN]
    PROVE  /\ ~TooLong(e) => Whole(e) = TRUE
           /\ ~Refused(e)
           /\ Response(e) = e.deny
<1>1. e.id \in 0 .. 11 /\ e.fd \in Nat /\ e.pid \in Nat
  BY DEF DigitsFit
<1>2. Line(e) \in Nat
  BY <1>1 DEF Line
<1>3. ~TooLong(e) => Whole(e) = TRUE
  BY <1>2 DEF TooLong, Whole, ReadBuffer
<1>4. ~Refused(e) /\ e.id + 7 <= AnswerRoom
  BY <1>1 DEF Refused, AnswerRoom, AnswerBuffer
<1> QED
  BY <1>3, <1>4 DEF Response

\* a step that gives the client p another handle and answers nothing
LEMMA HandleFrame ==
    ASSUME AnswerInv, NEW p \in Clients, NEW h, HandleOK(h),
           hnd' = [hnd EXCEPT ![p] = h], UNCHANGED <<event, answered>>
    PROVE  AnswerInv'
BY DEF AnswerInv

LEMMA FreshHandle == HandleOK(NoHandle)
BY DEF HandleOK, IsHandle, NoHandle

LEMMA AnswerFind ==
    ASSUME AnswerInv, NEW p \in Clients, LibFind(p)
    PROVE  AnswerInv'
<1>1. HandleOK(hnd[p]) /\ IsHandle(hnd[p]) /\ UNCHANGED <<event, answered>>
  BY DEF AnswerInv, HandleOK, LibFind
<1>2. \/ hnd' = hnd
      \/ \E n : hnd' = [hnd EXCEPT ![p].gid = n]
      \/ hnd' = [hnd EXCEPT ![p].failed = "lost"]
  BY DEF LibFind
<1>3. ASSUME NEW n
      PROVE  HandleOK([hnd[p] EXCEPT !.gid = n]) /\ HandleOK([hnd[p] EXCEPT !.failed = "lost"])
  BY <1>1, HandleSet
<1>4. ASSUME NEW n, hnd' = [hnd EXCEPT ![p].gid = n]
      PROVE  AnswerInv'
  <2>1. hnd' = [hnd EXCEPT ![p] = [hnd[p] EXCEPT !.gid = n]]
    BY <1>4
  <2> QED
    BY <1>1, <1>3, <2>1, HandleFrame
<1>5. CASE hnd' = [hnd EXCEPT ![p].failed = "lost"]
  <2>1. hnd' = [hnd EXCEPT ![p] = [hnd[p] EXCEPT !.failed = "lost"]]
    BY <1>5
  <2> QED
    BY <1>1, <1>3, <2>1, HandleFrame
<1>6. CASE hnd' = hnd
  BY <1>1, <1>6 DEF AnswerInv
<1> QED
  BY <1>2, <1>4, <1>5, <1>6

LEMMA AnswerRead ==
    ASSUME DigitsFit, AnswerInv, NEW p \in Clients, NEW i \in Events, GetAccess(p, i)
    PROVE  AnswerInv'
<1>1. HandleOK(hnd[p]) /\ IsHandle(hnd[p])
  BY DEF AnswerInv, HandleOK
<1>2. Whole(event[i]) = TRUE
  <2>1. event[i] \in [id : IdDigits, fd : FdDigits, pid : PidDigits, deny : BOOLEAN]
    BY DEF AnswerInv
  <2>2. ~TooLong(event[i])
    BY DEF GetAccess
  <2> QED
    BY <2>1, <2>2, LineFits
<1>3. PICK n : n = Line(event[i])
  OBVIOUS
<1>4. hnd' = [hnd EXCEPT ![p] = [hnd[p] EXCEPT !.id = i, !.pos = n, !.whole = TRUE]]
  BY <1>2, <1>3 DEF GetAccess
<1>5. HandleOK([hnd[p] EXCEPT !.id = i, !.pos = n, !.whole = TRUE])
  <2>1. i # NoId
    BY DEF DigitsFit
  <2> QED
    BY <1>1, <2>1, HandleSet
<1> QED
  BY <1>4, <1>5, HandleFrame DEF GetAccess

LEMMA AnswerReturn ==
    ASSUME DigitsFit, AnswerInv, NEW p \in Clients, NEW gone \in BOOLEAN,
           ReturnAccess(p, gone)
    PROVE  AnswerInv'
<1>1. HandleOK(hnd[p]) /\ IsHandle(hnd[p])
  BY DEF AnswerInv, HandleOK
<1>2. PICK i \in Events : i = hnd[p].id
  BY <1>1 DEF HandleOK, ReturnAccess
<1>3. event[i] \in [id : IdDigits, fd : FdDigits, pid : PidDigits, deny : BOOLEAN]
  BY DEF AnswerInv
<1>4. ~Refused(event[i]) /\ Response(event[i]) = event[i].deny
  BY <1>3, LineFits
<1>5. CASE gone
  <2>1. /\ hnd' = [hnd EXCEPT ![p] = [hnd[p] EXCEPT !.failed = "gone"]]
        /\ UNCHANGED <<event, answered>>
    BY <1>5 DEF ReturnAccess
  <2>2. HandleOK([hnd[p] EXCEPT !.failed = "gone"])
    BY <1>1, HandleSet
  <2> QED
    BY <2>1, <2>2, HandleFrame
<1>6. CASE ~gone
  <2>1. /\ hnd' = [hnd EXCEPT ![p] = [hnd[p] EXCEPT !.id = NoId, !.pos = 0]]
        /\ answered' = [answered EXCEPT ![i] = event[i].deny]
        /\ event' = event
    BY <1>2, <1>4, <1>6 DEF ReturnAccess
  <2>2. HandleOK([hnd[p] EXCEPT !.id = NoId, !.pos = 0])
    BY <1>1, HandleSet
  <2> QED
    BY <2>1, <2>2 DEF AnswerInv
<1> QED
  BY <1>5, <1>6

LEMMA AnswerStep == DigitsFit /\ AnswerInv /\ [TextNext]_textVars => AnswerInv'
<1> SUFFICES ASSUME DigitsFit, AnswerInv, [TextNext]_textVars
             PROVE  AnswerInv'
  OBVIOUS
<1>1. ASSUME UNCHANGED <<hnd, event, answered>>
      PROVE  AnswerInv'
  BY <1>1 DEF AnswerInv
<1>2. ASSUME UNCHANGED textVars
      PROVE  UNCHANGED <<hnd, event, answered>>
  BY <1>2 DEF textVars
<1>3. ASSUME NEW p \in Ctrls, CtrlNext(p)
      PROVE  UNCHANGED <<hnd, event, answered>>
  BY <1>3 DEF CtrlNext, CtrlOpen, CtrlWritten, CtrlRead, StartRead, ReadPiece,
              CtrlRelease, CtrlWrite
<1>4. ASSUME NEW p \in Procs,
             \/ \E memory \in BOOLEAN : Command(p, memory)
             \/ GetGroups(p) \/ GetGroupsFails(p)
      PROVE  UNCHANGED <<hnd, event, answered>>
  BY <1>4 DEF Command, GetGroups, GetGroupsFails
<1>5. ASSUME NEW p \in Clients, ClientNext(p)
      PROVE  AnswerInv'
  <2>1. ASSUME \/ \E key \in {"add", "addtrack"} : LibOpen(p, key, TRUE)
               \/ LibOpen(p, "add", FALSE) \/ LibWritten(p) \/ LibFails(p)
        PROVE  UNCHANGED <<hnd, event, answered>>
    BY <2>1 DEF LibOpen, LibWritten, LibFails, StartRead
  <2>2. ASSUME hnd' = hnd \/ hnd' = [hnd EXCEPT ![p] = NoHandle],
               UNCHANGED <<event, answered>>
        PROVE  AnswerInv'
    BY <1>1, <2>2, FreshHandle, HandleFrame
  <2>3. CASE LibRemoved(p)
    BY <2>2, <2>3 DEF LibRemoved
  <2>4. ASSUME NEW b \in BOOLEAN, LibOpenDev(p, b) \/ LibClose(p, b)
        PROVE  AnswerInv'
    <3>1. CASE LibOpenDev(p, b)
      BY <2>2, <3>1 DEF LibOpenDev
    <3>2. CASE LibClose(p, b)
      BY <2>2, <3>2 DEF LibClose
    <3> QED
      BY <2>4, <3>1, <3>2
  <2> QED
    BY <1>1, <1>5, <2>1, <2>3, <2>4, AnswerFind, AnswerRead, AnswerReturn
       DEF ClientNext
<1> QED
  BY <1>1, <1>2, <1>3, <1>4, <1>5 DEF TextNext

(***************************************************************************)
(* A client knows the whole of the access it was handed, and its answer is *)
(* taken in the sense it was meant, if event ids have at most 11 digits:   *)
(* then "id=%lu r=%d" fits the buffer of dazukofs_group_write().  The      *)
(* widths of file descriptors and pids do not matter, because a line that  *)
(* does not fit the buffer of dazukofs_group_read() is not handed out.     *)
(***************************************************************************)
THEOREM AnswersTaken ==
    ASSUME DigitsFit
    PROVE  TextSpec => []AnswersArrive
<1>1. TextInit => AnswerInv
  BY FreshHandle DEF TextInit, AnswerInv
<1>2. AnswerInv /\ [TextNext]_textVars => AnswerInv'
  BY AnswerStep
<1>3. AnswerInv => AnswersArrive
  BY DEF AnswerInv, HandleOK, AnswersArrive
<1> QED
  BY <1>1, <1>2, <1>3, PTL DEF TextSpec
-----------------------------------------------------------------------------
(***************************************************************************)
(* The commands of a write.  Before the key with place n is looked for,    *)
(* those with smaller places have been carried out, up to the first that   *)
(* failed.                                                                 *)
(***************************************************************************)
IsWrite(w) ==
    /\ w = [cmds |-> w.cmds, len |-> w.len, ran |-> w.ran]
    /\ w.ran \in Seq([key : Keys, ok : BOOLEAN])

Done(w) == {w.ran[i].key : i \in DOMAIN w.ran}

WriteOK(n, w) ==
    /\ IsWrite(w)
    /\ \A k \in Done(w) : k \in Keys /\ w.cmds[k] # NoName /\ Place(k) < n
    /\ \A i \in 1 .. Len(w.ran) - 1 :
          w.ran[i].ok /\ Place(w.ran[i].key) < Place(w.ran[i + 1].key)
    /\ \A j \in Done(w), k \in Keys :
          k \notin Done(w) /\ w.cmds[k] # NoName => Place(j) < Place(k)
    /\ GoesOn(w.ran) =>
          \A k \in Keys : Place(k) < n /\ w.cmds[k] # NoName => k \in Done(w)

Stage(l) == IF l = "written" THEN 4 ELSE Place(l)

WriteInv ==
    /\ pc = [p \in Procs |-> pc[p]]
    /\ wr = [p \in Procs |-> wr[p]]
    /\ \A p \in Procs : pc[p] \in Keys \cup {"written"} => WriteOK(Stage(pc[p]), wr[p])

LEMMA KeyPlaces ==
    /\ \A k \in Keys : Place(k) \in 1 .. 3
    /\ \A j, k \in Keys : Place(j) = Place(k) => j = k
BY Places DEF Keys

\* a key that is not found, or comes behind a failure, is passed over
LEMMA WriteSkips ==
    ASSUME NEW k \in Keys, NEW w, WriteOK(Place(k), w),
           w.cmds[k] = NoName \/ ~GoesOn(w.ran)
    PROVE  WriteOK(Place(k) + 1, w)
<1>1. ASSUME NEW j \in Keys, Place(j) < Place(k) + 1
      PROVE  j = k \/ Place(j) < Place(k)
  BY <1>1, KeyPlaces
<1>2. \A j \in Done(w) : j \in Keys /\ w.cmds[j] # NoName /\ Place(j) < Place(k) + 1
  BY KeyPlaces DEF WriteOK
<1>3. GoesOn(w.ran) =>
        \A j \in Keys : Place(j) < Place(k) + 1 /\ w.cmds[j] # NoName => j \in Done(w)
  BY <1>1 DEF WriteOK
<1> QED
  BY <1>2, <1>3 DEF WriteOK

\* a key that is found is carried out
LEMMA WriteRuns ==
    ASSUME NEW k \in Keys, NEW w, WriteOK(Place(k), w), w.cmds[k] # NoName,
           GoesOn(w.ran), NEW ok \in BOOLEAN
    PROVE  WriteOK(Place(k) + 1, [w EXCEPT !.ran = Append(@, [key |-> k, ok |-> ok])])
<1> DEFINE C == [key : Keys, ok : BOOLEAN]
           c == [key |-> k, ok |-> ok]
           r == w.ran
           s == Append(w.ran, c)
           v == [w EXCEPT !.ran = Append(@, c)]
<1>1. r \in Seq(C) /\ c \in C /\ IsWrite(w)
  BY DEF WriteOK, IsWrite
<1>2. /\ s \in Seq(C) /\ Len(s) = Len(r) + 1 /\ s[Len(r) + 1] = c
      /\ \A i \in 1 .. Len(r) : s[i] = r[i]
  <2>1. s = Append(r, c)
    OBVIOUS
  <2> HIDE DEF c, r, s, C
  <2>2. Len(r) \in Nat
    BY <1>1
  <2> QED
    BY <1>1, <2>1, <2>2
<1>3. v = [cmds |-> w.cmds, len |-> w.len, ran |-> s]
  <2>1. w = [cmds |-> w.cmds, len |-> w.len, ran |-> w.ran]
    BY <1>1 DEF IsWrite
  <2> HIDE DEF c
  <2> QED
    BY <2>1
<1>4. v.cmds = w.cmds /\ v.ran = s /\ IsWrite(v)
  <2> HIDE DEF s, v, C
  <2>1. v.cmds = w.cmds /\ v.ran = s
    BY <1>3
  <2> QED
    BY <1>2, <1>3, <2>1 DEF IsWrite, C
<1>5. Done(v) = Done(w) \cup {k}
  <2>1. DOMAIN s = 1 .. Len(r) + 1 /\ DOMAIN r = 1 .. Len(r) /\ Len(r) \in Nat
    BY <1>1, <1>2
  <2>2. {s[i].key : i \in 1 .. Len(r) + 1} = {r[i].key : i \in 1 .. Len(r)} \cup {k}
    <3>1. c.key = k
      OBVIOUS
    <3>2. 1 .. Len(r) + 1 = (1 .. Len(r)) \cup {Len(r) + 1}
      BY <2>1
    <3> HIDE DEF s, r, c
    <3> QED
      BY <1>2, <3>1, <3>2
  <2> HIDE DEF s, v
  <2> QED
    BY <1>4, <2>1, <2>2 DEF Done
<1> HIDE DEF s, v, c, C
<1>6. /\ \A j \in Done(w) : j \in Keys /\ w.cmds[j] # NoName /\ Place(j) < Place(k)
      /\ \A j \in Keys : Place(j) < Place(k) /\ w.cmds[j] # NoName => j \in Done(w)
  BY DEF WriteOK
<1>7. \A j \in Done(v) : j \in Keys /\ v.cmds[j] # NoName /\ Place(j) < Place(k) + 1
  BY <1>4, <1>5, <1>6, KeyPlaces
<1>8. \A j \in Keys : Place(j) < Place(k) + 1 /\ v.cmds[j] # NoName => j \in Done(v)
  <2>1. ASSUME NEW j \in Keys, Place(j) < Place(k) + 1
        PROVE  j = k \/ Place(j) < Place(k)
    BY <2>1, KeyPlaces
  <2> QED
    BY <1>4, <1>5, <1>6, <2>1
<1>9. \A i \in Done(v), j \in Keys :
         j \notin Done(v) /\ v.cmds[j] # NoName => Place(i) < Place(j)
  <2> SUFFICES ASSUME NEW i \in Done(v), NEW j \in Keys, j \notin Done(v),
                      v.cmds[j] # NoName
               PROVE  Place(i) < Place(j)
    OBVIOUS
  <2>1. ~(Place(j) < Place(k) + 1) /\ Place(i) < Place(k) + 1 /\ i \in Keys
    BY <1>7, <1>8
  <2> QED
    BY <2>1, KeyPlaces
<1>10. \A i \in 1 .. Len(s) - 1 : s[i].ok /\ Place(s[i].key) < Place(s[i + 1].key)
  <2> SUFFICES ASSUME NEW i \in 1 .. Len(s) - 1
               PROVE  s[i].ok /\ Place(s[i].key) < Place(s[i + 1].key)
    OBVIOUS
  <2>0. Len(r) \in Nat /\ DOMAIN r = 1 .. Len(r)
    BY <1>1
  <2>1. i \in 1 .. Len(r) /\ s[i] = r[i]
    BY <1>2, <2>0
  <2>2. CASE i = Len(r)
    <3>1. s[i + 1] = c /\ c.key = k
      BY <1>2, <2>2 DEF c
    <3>2. r # <<>> /\ r[i].ok
      <4>1. r # <<>> /\ Last(r) = r[i]
        BY <1>1, <2>1, <2>2 DEF Last
      <4> QED
        BY <4>1 DEF GoesOn
    <3>3. r[i].key \in Done(w)
      BY <2>0, <2>1 DEF Done
    <3> QED
      BY <1>6, <2>1, <3>1, <3>2, <3>3
  <2>3. CASE i # Len(r)
    <3>1. i \in 1 .. Len(r) - 1 /\ i + 1 \in 1 .. Len(r)
      BY <2>0, <2>1, <2>3
    <3>2. r[i].ok /\ Place(r[i].key) < Place(r[i + 1].key)
      BY <3>1 DEF WriteOK
    <3> QED
      BY <1>2, <2>1, <3>1, <3>2
  <2> QED
    BY <2>2, <2>3
<1> QED
  BY <1>4, <1>7, <1>8, <1>9, <1>10 DEF WriteOK, v, c

LEMMA WriteCalm ==
    ASSUME WriteInv, NEW p \in Procs, NEW l, l \notin Keys \cup {"written"},
           Goto(p, l), wr' = wr \/ wr' = [wr EXCEPT ![p] = NoWrite]
    PROVE  WriteInv'
<1>1. pc'[p] = l /\ \A q \in Procs : q # p => pc'[q] = pc[q] /\ wr'[q] = wr[q]
  BY DEF WriteInv, Goto
<1>2. pc' = [q \in Procs |-> pc'[q]] /\ wr' = [q \in Procs |-> wr'[q]]
  BY DEF WriteInv, Goto
<1> QED
  BY <1>1, <1>2 DEF WriteInv

LEMMA WriteStart ==
    ASSUME WriteInv, NEW p \in Procs, NEW text, NEW end, StartWrite(p, text, end)
    PROVE  WriteInv'
<1>1. PICK c, n : c = Parsed(text, end) /\ n = TextLen(text, end)
  OBVIOUS
<1> DEFINE w == [cmds |-> c, len |-> n, ran |-> <<>>]
<1>2. wr' = [wr EXCEPT ![p] = w] /\ pc' = [pc EXCEPT ![p] = "del"]
  BY <1>1 DEF StartWrite, Goto
<1>3. /\ pc'[p] = "del" /\ wr'[p] = w
      /\ \A q \in Procs : q # p => pc'[q] = pc[q] /\ wr'[q] = wr[q]
      /\ pc' = [q \in Procs |-> pc'[q]] /\ wr' = [q \in Procs |-> wr'[q]]
  BY <1>2 DEF WriteInv
<1>4. WriteOK(Stage("del"), w)
  <2>1. Stage("del") = 1
    BY Places DEF Stage
  <2>2. w.ran = <<>> /\ Len(<<>>) = 0 /\ DOMAIN <<>> = {}
    OBVIOUS
  <2>3. Done(w) = {}
    BY <2>2 DEF Done
  <2>4. \A k \in Keys : ~(Place(k) < 1)
    BY KeyPlaces
  <2>5. IsWrite(w)
    BY DEF IsWrite
  <2> HIDE DEF w
  <2> QED
    BY <2>1, <2>2, <2>3, <2>4, <2>5 DEF WriteOK
<1> HIDE DEF w
<1> QED
  BY <1>3, <1>4 DEF WriteInv

LEMMA WriteCommand ==
    ASSUME WriteInv, NEW p \in Procs, NEW memory \in BOOLEAN, Command(p, memory)
    PROVE  WriteInv'
<1>1. PICK k \in Keys : k = pc[p]
  BY DEF Command
<1>2. PICK l : l = (IF k = "addtrack" THEN "written" ELSE After(k))
  OBVIOUS
<1>3. Stage(k) = Place(k) /\ Stage(l) = Place(k) + 1
  BY <1>1, <1>2, Places DEF Keys, Stage
<1>4. WriteOK(Place(k), wr[p])
  BY <1>1, <1>3 DEF WriteInv
<1> DEFINE n == wr[p].cmds[k]
           ok == n # Empty /\ (k = "del" \/ Named(n) # {} \/ (memory /\ ~Full))
<1>5. ok \in BOOLEAN
  OBVIOUS
<1>6. /\ wr' = IF n # NoName /\ GoesOn(wr[p].ran)
               THEN [wr EXCEPT ![p].ran = Append(@, [key |-> k, ok |-> ok])] ELSE wr
      /\ pc' = [pc EXCEPT ![p] = l]
  BY <1>1, <1>2 DEF Command, Goto
<1> HIDE DEF ok
<1>7. /\ pc'[p] = l
      /\ \A q \in Procs : q # p => pc'[q] = pc[q] /\ wr'[q] = wr[q]
      /\ pc' = [q \in Procs |-> pc'[q]] /\ wr' = [q \in Procs |-> wr'[q]]
  BY <1>6 DEF WriteInv
<1>8. WriteOK(Place(k) + 1, wr'[p])
  <2>1. CASE n # NoName /\ GoesOn(wr[p].ran)
    <3>1. wr'[p] = [wr[p] EXCEPT !.ran = Append(@, [key |-> k, ok |-> ok])]
      BY <1>6, <2>1 DEF WriteInv
    <3> QED
      BY <1>4, <1>5, <2>1, <3>1, WriteRuns
  <2>2. CASE ~(n # NoName /\ GoesOn(wr[p].ran))
    <3>1. wr' = wr
      BY <1>6, <2>2
    <3> QED
      BY <1>4, <2>2, <3>1, WriteSkips
  <2> QED
    BY <2>1, <2>2
<1> QED
  BY <1>3, <1>7, <1>8 DEF WriteInv

(***************************************************************************)
(* What a step is to the writes: it starts one, carries out a command of   *)
(* one, or leaves them alone but for one that has returned.                *)
(***************************************************************************)
Commands == [key : Keys, name : [w : Words, len : Nat]]

\* the texts that are written: by the others, and by the library
Written ==
    {text \in Seq(Commands) :
        \/ text \in Texts
        \/ \E k \in Keys, p \in Clients : text = <<[key |-> k, name |-> NameOf[p]]>>}

Apart(p) ==
    /\ \E l : l \notin Keys \cup {"written"} /\ Goto(p, l)
    /\ wr' = wr \/ wr' = [wr EXCEPT ![p] = NoWrite]
    /\ groups' = groups

Starts(p) ==
    /\ \E text \in Written, end \in BOOLEAN : StartWrite(p, text, end)
    /\ groups' = groups

LEMMA StepKinds ==
    ASSUME [TextNext]_textVars
    PROVE  \/ UNCHANGED <<groups, pc, wr>>
           \/ \E p \in Procs : Apart(p) \/ Starts(p)
           \/ \E p \in Procs, memory \in BOOLEAN : Command(p, memory)
<1>1. CASE UNCHANGED textVars
  BY <1>1 DEF textVars
<1>2. /\ "idle" \notin Keys \cup {"written"} /\ "open" \notin Keys \cup {"written"}
      /\ "close" \notin Keys \cup {"written"} /\ "read" \notin Keys \cup {"written"}
      /\ "get_groups" \notin Keys \cup {"written"}
      /\ "open_dev" \notin Keys \cup {"written"}
      /\ "serving" \notin Keys \cup {"written"}
  BY DEF Keys
<1>3. ASSUME NEW p \in Procs, StartRead(p)
      PROVE  Apart(p)
  <2>1. wr' = wr /\ groups' = groups /\ (Goto(p, "read") \/ Goto(p, "get_groups"))
    BY <1>3 DEF StartRead
  <2> QED
    BY <1>2, <2>1 DEF Apart
<1>4. ASSUME NEW p \in Ctrls, CtrlNext(p)
      PROVE  Apart(p) \/ Starts(p)
  <2>1. p \in Procs
    BY DEF Procs
  <2>2. CASE CtrlOpen(p) \/ CtrlWritten(p) \/ ReadPiece(p) \/ CtrlRelease(p)
    <3>1. /\ wr' = wr \/ wr' = [wr EXCEPT ![p] = NoWrite]
          /\ Goto(p, "open") \/ Goto(p, "idle")
          /\ groups' = groups
      BY <2>2 DEF CtrlOpen, CtrlWritten, ReadPiece, CtrlRelease
    <3> QED
      BY <1>2, <3>1 DEF Apart
  <2>3. ASSUME NEW text \in Texts, NEW end \in BOOLEAN, CtrlWrite(p, text, end)
        PROVE  Starts(p)
    <3>1. text \in Written
      BY TextsAssumption DEF Written, Commands
    <3>2. StartWrite(p, text, end) /\ groups' = groups
      BY <2>3 DEF CtrlWrite
    <3> QED
      BY <3>1, <3>2 DEF Starts
  <2> QED
    BY <1>3, <1>4, <2>1, <2>2, <2>3 DEF CtrlNext, CtrlRead
<1>5. ASSUME NEW p \in Clients, ClientNext(p)
      PROVE  Apart(p) \/ Starts(p) \/ UNCHANGED <<groups, pc, wr>>
  <2>1. p \in Procs
    BY DEF Procs
  <2>2. ASSUME NEW k \in Keys
        PROVE  <<[key |-> k, name |-> NameOf[p]]>> \in Written
    <3>1. NameOf[p] \in [w : Words, len : Nat]
      BY TextAssumption
    <3>2. [key |-> k, name |-> NameOf[p]] \in Commands
      BY <3>1 DEF Commands
    <3>3. <<[key |-> k, name |-> NameOf[p]]>> \in Seq(Commands)
      BY <3>2
    <3> QED
      BY <3>3 DEF Written
  <2>3. ASSUME NEW k \in Keys, groups' = groups,
               StartWrite(p, <<[key |-> k, name |-> NameOf[p]]>>, FALSE)
        PROVE  Starts(p)
    <3>1. PICK text \in Written : text = <<[key |-> k, name |-> NameOf[p]]>>
      BY <2>2
    <3> QED
      BY <2>3, <3>1 DEF Starts
  <2>4. "add" \in Keys /\ "addtrack" \in Keys /\ "del" \in Keys
    BY DEF Keys
  <2>5. ASSUME NEW key \in Keys, NEW writable \in BOOLEAN, LibOpen(p, key, writable)
        PROVE  Apart(p) \/ Starts(p)
    BY <1>3, <2>1, <2>3, <2>5 DEF LibOpen
  <2>6. CASE LibWritten(p)
    <3>1. StartRead(p) \/ (Goto(p, "close") /\ wr' = wr /\ groups' = groups)
      BY <2>6 DEF LibWritten
    <3> QED
      BY <1>2, <1>3, <2>1, <3>1 DEF Apart
  <2>7. CASE LibFind(p) \/ LibFails(p) \/ LibRemoved(p)
    <3>1. /\ wr' = wr \/ wr' = [wr EXCEPT ![p] = NoWrite]
          /\ \/ Goto(p, "open_dev") \/ Goto(p, "close") \/ Goto(p, "idle")
             \/ Goto(p, "serving")
          /\ groups' = groups
      <4>1. CASE LibFind(p)
        BY <4>1 DEF LibFind
      <4>2. CASE LibFails(p)
        BY <4>2 DEF LibFails
      <4>3. CASE LibRemoved(p)
        BY <4>3 DEF LibRemoved
      <4> QED
        BY <2>7, <4>1, <4>2, <4>3
    <3> QED
      BY <1>2, <3>1 DEF Apart
  <2>8. ASSUME NEW b \in BOOLEAN, LibOpenDev(p, b)
        PROVE  Apart(p)
    <3>1. /\ wr' = [wr EXCEPT ![p] = NoWrite] /\ groups' = groups
          /\ Goto(p, "serving") \/ Goto(p, "idle")
      BY <2>8 DEF LibOpenDev
    <3> QED
      BY <1>2, <3>1 DEF Apart
  <2>9. ASSUME NEW b \in BOOLEAN, LibClose(p, b)
        PROVE  Apart(p) \/ Starts(p)
    <3>1. CASE b
      BY <2>3, <2>4, <2>9, <3>1 DEF LibClose
    <3>2. CASE ~b
      <4>1. Goto(p, "idle") /\ wr' = wr /\ groups' = groups
        BY <2>9, <3>2 DEF LibClose
      <4> QED
        BY <1>2, <4>1 DEF Apart
    <3> QED
      BY <3>1, <3>2
  <2>10. CASE \/ \E b \in BOOLEAN : ReturnAccess(p, b)
              \/ \E i \in Events : GetAccess(p, i)
    BY <2>10 DEF ReturnAccess, GetAccess
  <2> QED
    BY <1>5, <2>4, <2>5, <2>6, <2>7, <2>8, <2>9, <2>10 DEF ClientNext
<1>6. ASSUME NEW p \in Procs, GetGroups(p) \/ GetGroupsFails(p)
      PROVE  Apart(p)
  <2>1. /\ wr' = wr /\ groups' = groups
        /\ \E l \in {"read", "get_groups", "close", "open"} : Goto(p, l)
    BY <1>6 DEF GetGroups, GetGroupsFails
  <2> QED
    BY <1>2, <2>1 DEF Apart
<1> QED
  BY <1>1, <1>4, <1>5, <1>6 DEF TextNext, Procs

LEMMA WriteStep == WriteInv /\ [TextNext]_textVars => WriteInv'
<1> SUFFICES ASSUME WriteInv, [TextNext]_textVars
             PROVE  WriteInv'
  OBVIOUS
<1>1. CASE UNCHANGED <<groups, pc, wr>>
  BY <1>1 DEF WriteInv
<1>2. ASSUME NEW p \in Procs, Apart(p)
      PROVE  WriteInv'
  BY <1>2, WriteCalm DEF Apart
<1>3. ASSUME NEW p \in Procs, Starts(p)
      PROVE  WriteInv'
  BY <1>3, WriteStart DEF Starts
<1> QED
  BY <1>1, <1>2, <1>3, StepKinds, WriteCommand

(***************************************************************************)
(* A write to the control device carries out the commands it has in the    *)
(* order of dazukofs_ctrl_write(), each at most once, up to the first that *)
(* fails, and all of them if none does: whatever the texts, however often  *)
(* memory is short, and whatever others write at the same time.            *)
(***************************************************************************)
THEOREM CommandsRunInOrder == TextSpec => []WritesInOrder
<1>1. TextInit => WriteInv
  <2>1. "idle" \notin Keys \cup {"written"}
    BY DEF Keys
  <2> QED
    BY <2>1 DEF TextInit, WriteInv
<1>2. WriteInv /\ [TextNext]_textVars => WriteInv'
  BY WriteStep
<1>3. WriteInv => WritesInOrder
  <2> SUFFICES ASSUME WriteInv, NEW p \in Procs, pc[p] = "written"
               PROVE  /\ Done(wr[p]) \subseteq {k \in Keys : wr[p].cmds[k] # NoName}
                      /\ \A i \in 1 .. Len(wr[p].ran) - 1 :
                            /\ wr[p].ran[i].ok
                            /\ Place(wr[p].ran[i].key) < Place(wr[p].ran[i + 1].key)
                      /\ \A j \in Done(wr[p]),
                            k \in {k \in Keys : wr[p].cmds[k] # NoName} \ Done(wr[p]) :
                               Place(j) < Place(k)
                      /\ wr[p].ran = <<>> \/ Last(wr[p].ran).ok =>
                            Done(wr[p]) = {k \in Keys : wr[p].cmds[k] # NoName}
    BY DEF WritesInOrder, Done
  <2>1. WriteOK(4, wr[p])
    BY DEF WriteInv, Stage
  <2>2. \A k \in Keys : Place(k) < 4
    BY KeyPlaces
  <2> QED
    BY <2>1, <2>2 DEF WriteOK, GoesOn
<1> QED
  BY <1>1, <1>2, <1>3, PTL DEF TextSpec
-----------------------------------------------------------------------------
(***************************************************************************)
(* How long texts are.                                                     *)
(***************************************************************************)

\* the first of a set of places
LEMMA LeastOfNaturals ==
    ASSUME NEW S, S \subseteq Nat, S # {}
    PROVE  Least(S) \in S /\ \A m \in S : Least(S) <= m
<1> DEFINE R == StrictSubsetOrdering(Nat)
           T == {0 .. n : n \in S}
<1>1. T \subseteq FiniteSubsetsOf(Nat) /\ T # {}
  <2>1. ASSUME NEW n \in S PROVE 0 .. n \in FiniteSubsetsOf(Nat)
    BY FS_Interval DEF FiniteSubsetsOf
  <2> QED
    BY <2>1
<1>2. PICK I \in T : \A J \in T : <<J, I>> \notin R
  <2> HIDE DEF R, T
  <2>1. IsWellFoundedOn(R, FiniteSubsetsOf(Nat))
    BY FS_StrictSubsetOrderingWellFounded DEF R
  <2> QED
    BY <1>1, <2>1, WFMin
<1>3. PICK n \in S : I = 0 .. n
  OBVIOUS
<1>4. ASSUME NEW m \in S PROVE n <= m
  <2>1. <<0 .. m, 0 .. n>> \notin R
    BY <1>2, <1>3
  <2>2. CASE m < n
    <3>1. 0 .. m \subseteq 0 .. n /\ 0 .. m # 0 .. n
      BY <2>2
    <3>2. <<0 .. m, 0 .. n>> \in (SUBSET Nat) \X (SUBSET Nat)
      OBVIOUS
    <3> QED
      BY <2>1, <3>1, <3>2 DEF StrictSubsetOrdering
  <2> QED
    BY <2>2
<1> QED
  BY <1>3, <1>4 DEF Least

LEMMA CharsNat ==
    ASSUME NEW n \in Nat, NEW f, DOMAIN f = 1 .. n, \A i \in 1 .. n : f[i] \in Nat
    PROVE  Chars(f) \in Nat
<1> DEFINE T == {{i} \X (1 .. f[i]) : i \in 1 .. n}
           g == [i \in 1 .. n |-> {i} \X (1 .. f[i])]
<1>1. IsFiniteSet(1 .. n)
  BY FS_Interval
<1>2. g \in Surjection(1 .. n, T)
  BY DEF Surjection
<1>3. \A U \in T : IsFiniteSet(U)
  <2>1. ASSUME NEW i \in 1 .. n
        PROVE  IsFiniteSet({i} \X (1 .. f[i]))
    <3>1. IsFiniteSet({i})
      BY FS_Singleton
    <3>2. IsFiniteSet(1 .. f[i])
      BY FS_Interval
    <3> QED
      BY <3>1, <3>2, FS_Product
  <2> QED
    BY <2>1
<1> HIDE DEF T, g
<1>4. IsFiniteSet(T)
  BY <1>1, <1>2, FS_Surjection
<1>5. IsFiniteSet(UNION T)
  BY <1>3, <1>4, FS_UNION
<1>6. Cardinality(UNION T) \in Nat
  BY <1>5, FS_CardinalityType
<1> QED
  BY <1>6 DEF Chars, T

LEMMA CharsBound ==
    ASSUME NEW n \in Nat, NEW m \in Nat, NEW f, DOMAIN f = 1 .. n,
           \A i \in 1 .. n : f[i] \in Nat /\ f[i] <= m
    PROVE  Chars(f) <= n * m
<1> DEFINE T == UNION {{i} \X (1 .. f[i]) : i \in 1 .. n}
           U == (1 .. n) \X (1 .. m)
<1>1. T \subseteq U
  <2>1. ASSUME NEW i \in 1 .. n
        PROVE  {i} \X (1 .. f[i]) \subseteq U
    <3>1. 1 .. f[i] \subseteq 1 .. m
      OBVIOUS
    <3> QED
      BY <3>1
  <2> QED
    BY <2>1
<1>2. /\ IsFiniteSet(1 .. n) /\ Cardinality(1 .. n) = n
      /\ IsFiniteSet(1 .. m) /\ Cardinality(1 .. m) = m
  BY FS_Interval
<1>3. IsFiniteSet(U) /\ Cardinality(U) = n * m
  <2>1. PICK A, B : A = 1 .. n /\ B = 1 .. m
    OBVIOUS
  <2>2. IsFiniteSet(A) /\ Cardinality(A) = n /\ IsFiniteSet(B) /\ Cardinality(B) = m
    BY <1>2, <2>1
  <2>3. IsFiniteSet(A \X B) /\ Cardinality(A \X B) = Cardinality(A) * Cardinality(B)
    BY <2>2, FS_Product, Zenon
  <2>4. U = A \X B
    BY <2>1
  <2> HIDE DEF U
  <2> QED
    BY <2>2, <2>3, <2>4
<1> HIDE DEF U, T
<1>4. Cardinality(T) <= Cardinality(U)
  BY <1>1, <1>3, FS_Subset
<1> QED
  BY <1>3, <1>4 DEF Chars, T

LEMMA CharsFew ==
    /\ Chars([j \in {} |-> 0]) = 0
    /\ \A m \in Nat : Chars([j \in {1} |-> m]) = m
<1>1. Chars([j \in {} |-> 0]) = 0
  <2>1. UNION {{i} \X (1 .. [j \in {} |-> 0][i]) : i \in DOMAIN [j \in {} |-> 0]} = {}
    OBVIOUS
  <2> QED
    BY <2>1, FS_EmptySet DEF Chars
<1>2. ASSUME NEW m \in Nat
      PROVE  Chars([j \in {1} |-> m]) = m
  <2>1. UNION {{i} \X (1 .. [j \in {1} |-> m][i]) : i \in DOMAIN [j \in {1} |-> m]}
          = {1} \X (1 .. m)
    OBVIOUS
  <2>2. IsFiniteSet({1}) /\ Cardinality({1}) = 1
    BY FS_Singleton
  <2>3. IsFiniteSet(1 .. m) /\ Cardinality(1 .. m) = m
    BY FS_Interval
  <2>4. Cardinality({1} \X (1 .. m)) = 1 * m
    BY <2>2, <2>3, FS_Product
  <2> QED
    BY <2>1, <2>4 DEF Chars
<1> QED
  BY <1>1, <1>2
-----------------------------------------------------------------------------
(***************************************************************************)
(* Names and groups.  LongestName is the length of the longest name that   *)
(* the texts have, as far as dazukofs_ctrl_write() sees them: its buffer   *)
(* has room for "add=" and 27 characters, so no name of a group is longer. *)
(***************************************************************************)
NameUpTo(n) == [w : Words \cup {""}, len : 0 .. n]

NamesUpTo(n) == \A text \in Written, end \in BOOLEAN, k \in Keys :
                    Parsed(text, end)[k] \in NameUpTo(n) \cup {NoName, Empty}

LongestName == Least({n \in 0 .. 27 : NamesUpTo(n)})

Name  == NameUpTo(LongestName)
Group == [id : Nat, name : Name]

GroupsOK(list) == list \in Seq(Group) /\ Len(list) <= GROUP_COUNT

Room(text, end, i) == Copied(TextLen(text, end)) - StartOf(text, i) - KeyLen(text[i].key)

Marked(text, end, k) == {i \in DOMAIN text : text[i].key = k /\ Room(text, end, i) >= 0}

FoundAt(text, end, i) ==
    IF text[i].name.len = 0 /\ Room(text, end, i) > 0 THEN Empty
    ELSE Cut(text[i].name, Room(text, end, i))

LEMMA ParsedIs ==
    ASSUME NEW text, NEW end, NEW k \in Keys
    PROVE  Parsed(text, end)[k] = IF Marked(text, end, k) = {} THEN NoName
                                  ELSE FoundAt(text, end, Least(Marked(text, end, k)))
BY DEF Parsed, Marked, FoundAt, Room

LEMMA KeyLens == \A k \in Keys : KeyLen(k) \in Nat /\ KeyLen(k) >= 4
BY DEF Keys, KeyLen

LEMMA StartNat ==
    ASSUME NEW text \in Seq(Commands), NEW i \in 1 .. Len(text) + 1
    PROVE  StartOf(text, i) \in Nat
<1> DEFINE f == [j \in 1 .. i - 1 |-> KeyLen(text[j].key) + text[j].name.len + 1]
<1>1. i - 1 \in Nat /\ Len(text) \in Nat
  OBVIOUS
<1>2. \A j \in 1 .. i - 1 : f[j] \in Nat
  <2> SUFFICES ASSUME NEW j \in 1 .. i - 1
               PROVE  f[j] \in Nat
    OBVIOUS
  <2>1. text[j] \in Commands
    BY <1>1
  <2>2. text[j].key \in Keys /\ text[j].name.len \in Nat
    BY <2>1 DEF Commands
  <2> QED
    BY <2>2, KeyLens
<1>3. DOMAIN f = 1 .. i - 1
  OBVIOUS
<1> HIDE DEF f
<1>4. Chars(f) \in Nat
  BY <1>1, <1>2, <1>3, CharsNat
<1> QED
  BY <1>4 DEF StartOf, f

LEMMA RoomInt ==
    ASSUME NEW text \in Seq(Commands), NEW end, NEW i \in DOMAIN text
    PROVE  Room(text, end, i) \in Int /\ Room(text, end, i) <= 27
<1>1. Len(text) \in Nat /\ i \in 1 .. Len(text) /\ text[i] \in Commands
  OBVIOUS
<1>2. StartOf(text, i) \in Nat /\ StartOf(text, Len(text) + 1) \in Nat
  <2>1. i \in 1 .. Len(text) + 1 /\ Len(text) + 1 \in 1 .. Len(text) + 1
    BY <1>1
  <2> QED
    BY <2>1, StartNat
<1>3. TextLen(text, end) \in Int
  BY <1>2 DEF TextLen
<1>4. Copied(TextLen(text, end)) \in Int /\ Copied(TextLen(text, end)) <= 31
  BY <1>3 DEF Copied, WriteBuffer
<1>5. KeyLen(text[i].key) \in Nat /\ KeyLen(text[i].key) >= 4
  BY <1>1, KeyLens DEF Commands
<1> QED
  BY <1>2, <1>4, <1>5 DEF Room

LEMMA IsName ==
    ASSUME NEW w \in Words \cup {""}, NEW n \in 0 .. 27
    PROVE  [w |-> w, len |-> n] \in NameUpTo(27)
BY DEF NameUpTo

LEMMA CutIs ==
    ASSUME NEW name, name = [w |-> name.w, len |-> name.len], NEW n
    PROVE  Cut(name, n) = IF n = 0 \/ name.len = 0 THEN [w |-> "", len |-> 0]
                          ELSE [w |-> name.w,
                                len |-> IF name.len > n THEN n ELSE name.len]
<1>1. PICK m : m = (IF name.len > n THEN n ELSE name.len)
  OBVIOUS
<1>2. Cut(name, n) = IF n = 0 \/ name.len = 0 THEN [w |-> "", len |-> 0]
                     ELSE [name EXCEPT !.len = m]
  BY <1>1, Zenon DEF Cut
<1>3. [name EXCEPT !.len = m] = [w |-> name.w, len |-> m]
  OBVIOUS
<1> QED
  BY <1>1, <1>2, <1>3, Zenon

LEMMA CutName ==
    ASSUME NEW name \in [w : Words, len : Nat], NEW n \in 0 .. 27
    PROVE  Cut(name, n) \in NameUpTo(27)
<1>1. /\ name.w \in Words \cup {""} /\ "" \in Words \cup {""} /\ name.len \in Nat
      /\ name = [w |-> name.w, len |-> name.len]
  OBVIOUS
<1>2. PICK m : m = (IF name.len > n THEN n ELSE name.len)
  OBVIOUS
<1>3. m \in 0 .. 27 /\ 0 \in 0 .. 27
  <2>1. name.len > n => m \in 0 .. 27
    BY <1>2, Zenon
  <2>2. ASSUME ~(name.len > n)
        PROVE  m \in 0 .. 27
    <3>1. PICK l \in Nat : l = name.len
      BY <1>1
    <3>2. l \in 0 .. 27
      BY <2>2, <3>1
    <3> QED
      BY <1>2, <2>2, <3>1, <3>2, Zenon
  <2>3. 0 \in 0 .. 27
    OBVIOUS
  <2> QED
    BY <2>1, <2>2, <2>3, Zenon
<1>4. \/ Cut(name, n) = [w |-> "", len |-> 0]
      \/ Cut(name, n) = [w |-> name.w, len |-> m]
  BY <1>1, <1>2, CutIs, Zenon
<1>5. [w |-> "", len |-> 0] \in NameUpTo(27) /\ [w |-> name.w, len |-> m] \in NameUpTo(27)
  BY <1>1, <1>3, IsName
<1> QED
  BY <1>4, <1>5

\* what process_command() finds is a name, or no name
LEMMA ParsedTyped ==
    ASSUME NEW text \in Seq(Commands), NEW end, NEW k \in Keys
    PROVE  Parsed(text, end)[k] \in NameUpTo(27) \cup {NoName, Empty}
<1> DEFINE S == Marked(text, end, k)
<1>1. CASE S = {}
  BY <1>1, ParsedIs
<1>2. CASE S # {}
  <2>1. S \subseteq Nat
    BY DEF Marked
  <2>2. PICK i : i = Least(S)
    OBVIOUS
  <2>3. i \in S
    BY <1>2, <2>1, <2>2, LeastOfNaturals
  <2>4. i \in DOMAIN text /\ Room(text, end, i) >= 0
    BY <2>3 DEF Marked
  <2>5. Room(text, end, i) \in 0 .. 27
    <3>1. PICK r \in Int : r = Room(text, end, i)
      BY <2>4, RoomInt, Zenon
    <3>2. r \in Int /\ r <= 27 /\ r >= 0
      BY <2>4, <3>1, RoomInt
    <3>3. r \in 0 .. 27
      BY <3>2
    <3> QED
      BY <3>1, <3>3, Zenon
  <2>6. text[i].name \in [w : Words, len : Nat]
    <3>1. text[i] \in Commands
      BY <2>4
    <3> QED
      BY <3>1 DEF Commands
  <2>7. FoundAt(text, end, i) \in NameUpTo(27) \cup {Empty}
    BY <2>5, <2>6, CutName DEF FoundAt
  <2> QED
    BY <1>2, <2>2, <2>7, ParsedIs
<1> QED
  BY <1>1, <1>2

LEMMA LongestNameBounds == LongestName \in 0 .. 27 /\ NamesUpTo(LongestName)
<1> DEFINE S == {n \in 0 .. 27 : NamesUpTo(n)}
<1>1. 27 \in S
  <2>1. NamesUpTo(27)
    BY ParsedTyped DEF NamesUpTo, Written
  <2> QED
    BY <2>1
<1>2. S \subseteq Nat /\ S # {}
  BY <1>1
<1>3. Least(S) \in S
  BY <1>2, LeastOfNaturals
<1> QED
  BY <1>3 DEF LongestName

(***************************************************************************)
(* A text with one command that fits the buffer is found as it was         *)
(* written: "add=%s", "addtrack=%s" and "del=%s" of the library.           *)
(***************************************************************************)
LEMMA ParsedOne ==
    ASSUME NEW key \in Keys, NEW name \in [w : Words, len : 1 .. 20], NEW k \in Keys
    PROVE  Parsed(<<[key |-> key, name |-> name]>>, FALSE)[k]
              = IF k = key THEN name ELSE NoName
<1> DEFINE c == [key |-> key, name |-> name]
           m == KeyLen(key) + name.len + 1
<1>1. PICK text : text = <<c>>
  OBVIOUS
<1>2. Len(text) = 1 /\ DOMAIN text = {1} /\ text[1] = c
  BY <1>1
<1>3. c.key = key /\ c.name = name
  OBVIOUS
<1>4. /\ m \in Nat /\ m \in 6 .. 30 /\ KeyLen(key) \in {4, 9}
      /\ name.len \in 1 .. 20
  BY DEF KeyLen
<1>5. StartOf(text, 1) = 0
  <2>1. [j \in 1 .. 1 - 1 |-> KeyLen(text[j].key) + text[j].name.len + 1] = [j \in {} |-> 0]
    OBVIOUS
  <2> QED
    BY <2>1, CharsFew DEF StartOf
<1>6. StartOf(text, 2) = m
  <2>1. [j \in 1 .. 2 - 1 |-> KeyLen(text[j].key) + text[j].name.len + 1] = [j \in {1} |-> m]
    BY <1>2, <1>3
  <2> HIDE DEF m
  <2> QED
    BY <1>4, <2>1, CharsFew DEF StartOf
<1>7. TextLen(text, FALSE) = m - 1
  <2> HIDE DEF m
  <2> QED
    BY <1>2, <1>4, <1>6 DEF TextLen
<1>8. Room(text, FALSE, 1) = name.len
  <2>1. Copied(m - 1) = m - 1
    BY <1>4 DEF Copied, WriteBuffer
  <2>2. Room(text, FALSE, 1) = (m - 1) - 0 - KeyLen(key)
    BY <1>2, <1>3, <1>5, <1>7, <2>1 DEF Room
  <2>3. PICK a, b : a = KeyLen(key) /\ b = name.len
    OBVIOUS
  <2>4. (a + b + 1) - 1 - 0 - a = b
    BY <1>4, <2>3
  <2> QED
    BY <2>2, <2>3, <2>4
<1>9. CASE k = key
  <2>1. Marked(text, FALSE, k) = {1}
    <3>1. Room(text, FALSE, 1) >= 0 /\ text[1].key = k
      <4>1. name.len >= 0
        BY <1>4
      <4>2. text[1].key = key
        BY <1>2, <1>3, Zenon
      <4> QED
        BY <1>8, <1>9, <4>1, <4>2, Zenon
    <3> QED
      BY <1>2, <3>1 DEF Marked
  <2>2. Least({1}) = 1
    BY LeastOfNaturals
  <2>3. FoundAt(text, FALSE, 1) = name
    <3>1. name = [w |-> name.w, len |-> name.len] /\ name.len \in 1 .. 20
      OBVIOUS
    <3>2. name.len # 0 /\ ~(name.len > name.len)
      BY <3>1
    <3>3. Cut(name, name.len) = name
      BY <3>1, <3>2, CutIs, Zenon
    <3>4. text[1].name = name
      BY <1>2, <1>3, Zenon
    <3> QED
      BY <1>8, <3>2, <3>3, <3>4, Zenon DEF FoundAt
  <2>4. Parsed(text, FALSE)[k] = FoundAt(text, FALSE, Least(Marked(text, FALSE, k)))
    BY <2>1, ParsedIs
  <2> QED
    BY <1>1, <1>9, <2>1, <2>2, <2>3, <2>4
<1>10. CASE k # key
  <2>1. Marked(text, FALSE, k) = {}
    BY <1>2, <1>3, <1>10 DEF Marked
  <2> QED
    BY <1>1, <1>10, <2>1, ParsedIs
<1> QED
  BY <1>9, <1>10

(***************************************************************************)
(* The list after dazukofs_add_group() and dazukofs_remove_group().        *)
(***************************************************************************)

\* there is a free minor as long as there is room for a group
LEMMA FreeIdNat ==
    ASSUME GroupsOK(groups)
    PROVE  FreeId \in Nat
<1> DEFINE I == {groups[j].id : j \in DOMAIN groups}
           S == {i \in 0 .. GROUP_COUNT : \A j \in DOMAIN groups : groups[j].id # i}
           D == 1 .. Len(groups)
           g == [j \in D |-> groups[j].id]
<1>1. GROUP_COUNT \in Nat /\ Len(groups) \in Nat /\ DOMAIN groups = D
  BY TextAssumption DEF GroupsOK
<1>2. S # {}
  <2> SUFFICES ASSUME S = {}
               PROVE  FALSE
    OBVIOUS
  <2>1. 0 .. GROUP_COUNT \subseteq I
    BY Zenon
  <2>2. g \in Surjection(D, I)
    <3> HIDE DEF D
    <3> QED
      BY <1>1, Zenon DEF Surjection
  <2>3. IsFiniteSet(D) /\ Cardinality(D) = Len(groups)
    <3>1. PICK m \in Nat : m = Len(groups)
      BY <1>1
    <3>2. IsFiniteSet(1 .. m) /\ Cardinality(1 .. m) = m
      BY FS_Interval
    <3> QED
      BY <3>1, <3>2, Zenon
  <2>4. IsFiniteSet(0 .. GROUP_COUNT) /\ Cardinality(0 .. GROUP_COUNT) = GROUP_COUNT + 1
    BY <1>1, FS_Interval
  <2> HIDE DEF I, D, g
  <2>5. IsFiniteSet(I) /\ Cardinality(I) <= Cardinality(D)
    BY <2>2, <2>3, FS_Surjection, Zenon
  <2>6. Cardinality(0 .. GROUP_COUNT) <= Cardinality(I) /\ Cardinality(I) \in Nat
    BY <2>1, <2>5, FS_Subset, FS_CardinalityType
  <2> QED
    BY <1>1, <2>3, <2>4, <2>5, <2>6 DEF GroupsOK
<1>3. S \subseteq Nat
  OBVIOUS
<1> HIDE DEF S
<1>4. Least(S) \in S
  BY <1>2, <1>3, LeastOfNaturals
<1> QED
  BY <1>3, <1>4 DEF FreeId, S

LEMMA AddedFacts ==
    ASSUME GroupsOK(groups), NEW n \in Name
    PROVE  /\ GroupsOK(Added(n))
           /\ ToSet(groups) \subseteq ToSet(Added(n))
           /\ Named(n) # {} \/ ~Full => \E g \in ToSet(Added(n)) : g.name = n
<1>1. CASE Named(n) # {} \/ Full
  <2>1. Added(n) = groups
    BY <1>1 DEF Added
  <2>2. Named(n) # {} => \E g \in ToSet(groups) : g.name = n
    BY DEF Named, ToSet
  <2> QED
    BY <1>1, <2>1, <2>2
<1>2. CASE ~(Named(n) # {} \/ Full)
  <2>1. PICK a \in Group : a = [id |-> FreeId, name |-> n]
    BY FreeIdNat DEF Group
  <2>2. Added(n) = Append(groups, a)
    BY <1>2, <2>1 DEF Added
  <2>3. groups \in Seq(Group) /\ Len(groups) \in Nat /\ Len(groups) < GROUP_COUNT
    BY <1>2, TextAssumption DEF GroupsOK, Full
  <2>4. /\ Append(groups, a) \in Seq(Group)
        /\ Len(Append(groups, a)) = Len(groups) + 1
        /\ Append(groups, a)[Len(groups) + 1] = a
        /\ \A i \in 1 .. Len(groups) : Append(groups, a)[i] = groups[i]
    BY <2>3
  <2>5. DOMAIN Append(groups, a) = 1 .. Len(groups) + 1 /\ DOMAIN groups = 1 .. Len(groups)
    BY <2>3, <2>4
  <2>6. GroupsOK(Added(n))
    BY <2>2, <2>3, <2>4, TextAssumption DEF GroupsOK
  <2>7. a \in ToSet(Added(n)) /\ a.name = n
    BY <2>1, <2>2, <2>3, <2>4, <2>5 DEF ToSet
  <2>8. ToSet(groups) \subseteq ToSet(Added(n))
    BY <2>2, <2>3, <2>4, <2>5 DEF ToSet
  <2> QED
    BY <2>6, <2>7, <2>8
<1> QED
  BY <1>1, <1>2

LEMMA RemovedOne ==
    ASSUME NEW S, NEW s \in Seq(S), NEW i \in 1 .. Len(s)
    PROVE  /\ RemoveAt(s, i) \in Seq(S)
           /\ Len(RemoveAt(s, i)) <= Len(s)
           /\ \A j \in 1 .. Len(s) : j # i => s[j] \in ToSet(RemoveAt(s, i))
<1> DEFINE a == SubSeq(s, 1, i - 1)
           b == SubSeq(s, i + 1, Len(s))
<1>1. a \in Seq(S) /\ Len(a) = i - 1 /\ \A j \in 1 .. i - 1 : a[j] = s[j]
  OBVIOUS
<1>2. /\ b \in Seq(S) /\ Len(b) = Len(s) - i
      /\ \A j \in 1 .. Len(s) - i : b[j] = s[j + i]
  OBVIOUS
<1>3. RemoveAt(s, i) = a \o b
  BY DEF RemoveAt
<1> HIDE DEF a, b
<1>4. a \o b \in Seq(S) /\ Len(a \o b) = Len(a) + Len(b)
  <2>1. a \in Seq(S) /\ b \in Seq(S)
    BY <1>1, <1>2
  <2> QED
    BY <2>1
<1>5. \A j \in 1 .. Len(a) + Len(b) :
        (a \o b)[j] = IF j <= Len(a) THEN a[j] ELSE b[j - Len(a)]
  BY <1>1, <1>2
<1>6. DOMAIN (a \o b) = 1 .. Len(s) - 1 /\ Len(a) + Len(b) = Len(s) - 1
  BY <1>1, <1>2, <1>4
<1>7. ASSUME NEW j \in 1 .. Len(s), j # i
      PROVE  s[j] \in ToSet(a \o b)
  <2>1. CASE j < i
    <3>1. j \in 1 .. Len(a) + Len(b) /\ j <= Len(a) /\ j \in 1 .. i - 1
      BY <1>1, <1>6, <2>1
    <3>2. (a \o b)[j] = s[j] /\ j \in DOMAIN (a \o b)
      BY <1>1, <1>5, <1>6, <3>1
    <3> QED
      BY <3>2 DEF ToSet
  <2>2. CASE ~(j < i)
    <3>1. j - 1 \in 1 .. Len(a) + Len(b) /\ ~(j - 1 <= Len(a)) /\ j - i \in 1 .. Len(s) - i
      BY <1>1, <1>6, <1>7, <2>2
    <3>2. (j - 1) - Len(a) = j - i /\ (j - i) + i = j
      BY <1>1
    <3>3. (a \o b)[j - 1] = b[j - i]
      BY <1>5, <3>1, <3>2
    <3>4. b[j - i] = s[j]
      BY <1>2, <3>1, <3>2
    <3>5. (a \o b)[j - 1] = s[j] /\ j - 1 \in DOMAIN (a \o b)
      BY <1>6, <3>1, <3>3, <3>4
    <3> QED
      BY <3>5 DEF ToSet
  <2> QED
    BY <2>1, <2>2
<1> QED
  BY <1>3, <1>4, <1>6, <1>7

LEMMA DeletedFacts ==
    ASSUME GroupsOK(groups), NEW n
    PROVE  /\ GroupsOK(Deleted(n))
           /\ \A g \in ToSet(groups) : g.name # n => g \in ToSet(Deleted(n))
<1>1. CASE Named(n) = {}
  BY <1>1 DEF Deleted
<1>2. CASE Named(n) # {}
  <2>1. PICK i : i = Least(Named(n))
    OBVIOUS
  <2>2. groups \in Seq(Group) /\ DOMAIN groups = 1 .. Len(groups) /\ Len(groups) \in Nat
    BY DEF GroupsOK
  <2>3. i \in 1 .. Len(groups) /\ groups[i].name = n
    <3>1. Named(n) \subseteq Nat
      BY <2>2 DEF Named
    <3>2. i \in Named(n)
      BY <1>2, <2>1, <3>1, LeastOfNaturals
    <3> QED
      BY <2>2, <3>2 DEF Named
  <2>4. Deleted(n) = RemoveAt(groups, i)
    BY <1>2, <2>1 DEF Deleted
  <2>5. /\ RemoveAt(groups, i) \in Seq(Group)
        /\ Len(RemoveAt(groups, i)) <= Len(groups)
        /\ \A j \in 1 .. Len(groups) : j # i => groups[j] \in ToSet(RemoveAt(groups, i))
    BY <2>2, <2>3, RemovedOne
  <2>6. Len(RemoveAt(groups, i)) \in Nat
    BY <2>5
  <2>7. GroupsOK(Deleted(n))
    BY <2>2, <2>4, <2>5, <2>6, TextAssumption DEF GroupsOK
  <2>8. ASSUME NEW g \in ToSet(groups), g.name # n
        PROVE  g \in ToSet(Deleted(n))
    <3>1. PICK j \in 1 .. Len(groups) : g = groups[j]
      BY <2>2 DEF ToSet
    <3> QED
      BY <2>3, <2>4, <2>5, <2>8, <3>1
  <2> QED
    BY <2>7, <2>8
<1> QED
  BY <1>1, <1>2
-----------------------------------------------------------------------------
(***************************************************************************)
(* What the groups are called, and the size of their list.                 *)
(***************************************************************************)
NamesInv ==
    /\ GroupsOK(groups)
    /\ \A p \in Procs : pc[p] \in Keys =>
          \A k \in Keys : wr[p].cmds[k] \in Name \cup {NoName, Empty}

\* what a command finds, and what it does to the list
LEMMA CommandFacts ==
    ASSUME WriteInv, NamesInv, NEW p \in Procs, NEW memory \in BOOLEAN,
           Command(p, memory)
    PROVE  /\ GroupsOK(groups')
           /\ \A k \in Keys : wr'[p].cmds[k] = wr[p].cmds[k]
           /\ \A q \in Procs : q # p => wr'[q] = wr[q] /\ pc'[q] = pc[q]
           /\ \A g \in ToSet(groups) :
                 (pc[p] = "del" /\ g.name = wr[p].cmds["del"]) \/ g \in ToSet(groups')
<1>1. PICK k \in Keys : k = pc[p]
  BY DEF Command
<1> DEFINE n == wr[p].cmds[k]
           ok == n # Empty /\ (k = "del" \/ Named(n) # {} \/ (memory /\ ~Full))
           run == n # NoName /\ GoesOn(wr[p].ran)
<1>2. /\ groups' = IF ~run \/ ~ok THEN groups
                   ELSE IF k = "del" THEN Deleted(n) ELSE Added(n)
      /\ wr' = IF run THEN [wr EXCEPT ![p].ran = Append(@, [key |-> k, ok |-> ok])] ELSE wr
      /\ \E l : pc' = [pc EXCEPT ![p] = l]
  BY <1>1 DEF Command, Goto
<1>3. run /\ ok => n \in Name
  BY <1>1 DEF NamesInv
<1>4. GroupsOK(groups)
  BY DEF NamesInv
<1>5. IsWrite(wr[p])
  BY <1>1 DEF WriteInv, WriteOK
<1>6. /\ \A j \in Keys : wr'[p].cmds[j] = wr[p].cmds[j]
      /\ \A q \in Procs : q # p => wr'[q] = wr[q] /\ pc'[q] = pc[q]
  <2> HIDE DEF run, ok
  <2>1. CASE run
    <3>1. PICK r : r = Append(wr[p].ran, [key |-> k, ok |-> ok])
      OBVIOUS
    <3>2. wr' = [wr EXCEPT ![p] = [wr[p] EXCEPT !.ran = r]]
      BY <1>2, <2>1, <3>1
    <3>3. [wr[p] EXCEPT !.ran = r].cmds = wr[p].cmds
      BY <1>5 DEF IsWrite
    <3> QED
      BY <1>2, <3>2, <3>3 DEF WriteInv
  <2>2. CASE ~run
    BY <1>2, <2>2 DEF WriteInv
  <2> QED
    BY <2>1, <2>2
<1> HIDE DEF run, ok
<1>7. CASE ~run \/ ~ok
  <2>1. groups' = groups
    BY <1>2, <1>7
  <2> QED
    BY <1>4, <1>6, <2>1
<1>8. CASE run /\ ok /\ k = "del"
  <2>1. groups' = Deleted(n)
    BY <1>2, <1>8
  <2>2. /\ GroupsOK(Deleted(n))
        /\ \A g \in ToSet(groups) : g.name # n => g \in ToSet(Deleted(n))
    BY <1>4, DeletedFacts
  <2> QED
    BY <1>1, <1>6, <1>8, <2>1, <2>2
<1>9. CASE run /\ ok /\ k # "del"
  <2>1. groups' = Added(n)
    BY <1>2, <1>9
  <2>2. GroupsOK(Added(n)) /\ ToSet(groups) \subseteq ToSet(Added(n))
    BY <1>3, <1>4, <1>9, AddedFacts
  <2> QED
    BY <1>6, <2>1, <2>2
<1> QED
  BY <1>7, <1>8, <1>9

LEMMA NamesStep == WriteInv /\ NamesInv /\ [TextNext]_textVars => NamesInv'
<1> SUFFICES ASSUME WriteInv, NamesInv, [TextNext]_textVars
             PROVE  NamesInv'
  OBVIOUS
<1>1. CASE UNCHANGED <<groups, pc, wr>>
  BY <1>1 DEF NamesInv, GroupsOK
<1>2. ASSUME NEW p \in Procs, Apart(p)
      PROVE  NamesInv'
  <2>1. pc'[p] \notin Keys /\ groups' = groups
    BY <1>2 DEF Apart, Goto, WriteInv
  <2>2. \A q \in Procs : q # p => pc'[q] = pc[q] /\ wr'[q] = wr[q]
    BY <1>2 DEF Apart, Goto, WriteInv
  <2> QED
    BY <2>1, <2>2 DEF NamesInv, GroupsOK
<1>3. ASSUME NEW p \in Procs, Starts(p)
      PROVE  NamesInv'
  <2>1. PICK text \in Written, end \in BOOLEAN : StartWrite(p, text, end)
    BY <1>3 DEF Starts
  <2>2. PICK c, n : c = Parsed(text, end) /\ n = TextLen(text, end)
    OBVIOUS
  <2>3. wr'[p] = [cmds |-> c, len |-> n, ran |-> <<>>]
    BY <2>1, <2>2 DEF StartWrite, WriteInv
  <2>4. \A k \in Keys : wr'[p].cmds[k] \in Name \cup {NoName, Empty}
    BY <2>2, <2>3, LongestNameBounds DEF NamesUpTo, Name
  <2>5. \A q \in Procs : q # p => pc'[q] = pc[q] /\ wr'[q] = wr[q]
    BY <2>1 DEF StartWrite, Goto, WriteInv
  <2>6. groups' = groups
    BY <1>3 DEF Starts
  <2> QED
    BY <2>4, <2>5, <2>6 DEF NamesInv, GroupsOK
<1>4. ASSUME NEW p \in Procs, NEW memory \in BOOLEAN, Command(p, memory)
      PROVE  NamesInv'
  <2>1. pc[p] \in Keys
    BY <1>4 DEF Command
  <2>2. GroupsOK(groups)'
    BY <1>4, CommandFacts DEF GroupsOK
  <2>3. \A k \in Keys : wr'[p].cmds[k] \in Name \cup {NoName, Empty}
    BY <1>4, <2>1, CommandFacts DEF NamesInv
  <2>4. \A q \in Procs : q # p => wr'[q] = wr[q] /\ pc'[q] = pc[q]
    BY <1>4, CommandFacts
  <2> QED
    BY <2>2, <2>3, <2>4 DEF NamesInv
<1> QED
  BY <1>1, <1>2, <1>3, <1>4, StepKinds

\* "%lu:%s\n": three characters and the name
LEMMA WidthBound ==
    ASSUME NEW list, GroupsOK(list)
    PROVE  Width(list) \in Nat /\ Width(list) <= Len(list) * (LongestName + 3)
<1>0. LongestName \in Nat /\ LongestName + 3 \in Nat
  BY LongestNameBounds
<1> DEFINE f == [i \in DOMAIN list |-> list[i].name.len + 3]
<1>1. list \in Seq(Group) /\ Len(list) \in Nat /\ DOMAIN list = 1 .. Len(list)
  BY DEF GroupsOK
<1>2. DOMAIN f = 1 .. Len(list)
  BY <1>1
<1>3. \A i \in 1 .. Len(list) : f[i] \in Nat /\ f[i] <= LongestName + 3
  <2> SUFFICES ASSUME NEW i \in 1 .. Len(list)
               PROVE  f[i] \in Nat /\ f[i] <= LongestName + 3
    OBVIOUS
  <2>1. list[i] \in Group
    BY <1>1
  <2>2. list[i].name.len \in 0 .. LongestName
    BY <2>1 DEF Group, Name, NameUpTo
  <2>3. PICK m \in 0 .. LongestName : m = list[i].name.len
    BY <2>2
  <2>4. f[i] = m + 3
    BY <1>1, <2>3
  <2>5. m + 3 \in Nat /\ m + 3 <= LongestName + 3
    BY <1>0
  <2> HIDE DEF f
  <2> QED
    BY <2>4, <2>5
<1> HIDE DEF f
<1>4. Chars(f) \in Nat
  BY <1>1, <1>2, <1>3, CharsNat
<1>5. Chars(f) <= Len(list) * (LongestName + 3)
  BY <1>0, <1>1, <1>2, <1>3, CharsBound
<1> QED
  BY <1>4, <1>5 DEF Width, f

(***************************************************************************)
(* What a step is to the open control devices.                             *)
(***************************************************************************)
FileMoves(p) ==
    \/ file' = [file EXCEPT ![p] = NoFile]
    \/ file' = [file EXCEPT ![p].alloc = ALLOCSIZE]
    \/ \E n : file' = [file EXCEPT ![p].pos = n]
    \/ \E n, g : file' = [file EXCEPT ![p].pos = n, ![p].got = g]

LEMMA FileKinds ==
    ASSUME [TextNext]_textVars
    PROVE  file' = file \/ \E p \in Procs : FileMoves(p) \/ GetGroups(p)
<1>1. CASE UNCHANGED textVars
  BY <1>1 DEF textVars
<1>2. ASSUME NEW p, StartRead(p)
      PROVE  file' = file \/ FileMoves(p)
  BY <1>2 DEF StartRead, FileMoves
<1>3. ASSUME NEW p \in Ctrls, CtrlNext(p)
      PROVE  file' = file \/ FileMoves(p)
  <2>1. CASE ReadPiece(p)
    <3>1. PICK n : n = (IF file[p].pos + ReadLen > Width(file[p].list.text)
                        THEN Width(file[p].list.text) ELSE file[p].pos + ReadLen)
      OBVIOUS
    <3>2. PICK g : g = file[p].got \cup {file[p].list.text}
      OBVIOUS
    <3>3. file' = file \/ file' = [file EXCEPT ![p].pos = n, ![p].got = g]
      BY <2>1, <3>1, <3>2 DEF ReadPiece
    <3> QED
      BY <3>3 DEF FileMoves
  <2>2. CASE CtrlWritten(p)
    <3>1. PICK n : n = file[p].pos + wr[p].len
      OBVIOUS
    <3>2. file' = file \/ file' = [file EXCEPT ![p].pos = n]
      BY <2>2, <3>1 DEF CtrlWritten
    <3> QED
      BY <3>2 DEF FileMoves
  <2>3. CASE CtrlRelease(p)
    BY <2>3 DEF CtrlRelease, FileMoves
  <2> QED
    BY <1>2, <1>3, <2>1, <2>2, <2>3 DEF CtrlNext, CtrlOpen, CtrlRead, CtrlWrite
<1>4. ASSUME NEW p \in Clients, ClientNext(p)
      PROVE  file' = file \/ FileMoves(p)
  <2>1. CASE LibFails(p) \/ \E b \in BOOLEAN : LibOpenDev(p, b)
    BY <2>1 DEF LibFails, LibOpenDev, FileMoves
  <2>2. CASE LibFind(p) \/ LibRemoved(p) \/ \E b \in BOOLEAN : LibClose(p, b)
    BY <2>2 DEF LibFind, LibRemoved, LibClose
  <2>3. CASE (\E b \in BOOLEAN : ReturnAccess(p, b)) \/ \E i \in Events : GetAccess(p, i)
    BY <2>3 DEF ReturnAccess, GetAccess
  <2>4. CASE LibWritten(p) \/ \E key, writable : LibOpen(p, key, writable)
    BY <1>2, <2>4 DEF LibWritten, LibOpen
  <2> QED
    BY <1>4, <2>1, <2>2, <2>3, <2>4 DEF ClientNext
<1>5. ASSUME NEW p \in Procs, NEW memory \in BOOLEAN, Command(p, memory) \/ GetGroupsFails(p)
      PROVE  file' = file
  BY <1>5 DEF Command, GetGroupsFails
<1> QED
  BY <1>1, <1>3, <1>4, <1>5 DEF TextNext, Procs

\* what the list of one process is after such a step
LEMMA FileMoved ==
    ASSUME ListInv, NEW p \in Procs, FileMoves(p)
    PROVE  /\ \A q \in Procs : q # p => file'[q] = file[q]
           /\ \/ file'[p] = NoFile
              \/ /\ file'[p].list = file[p].list
                 /\ file'[p].alloc = file[p].alloc \/ file'[p].alloc = ALLOCSIZE
<1>1. IsFile(file[p]) /\ file = [q \in Procs |-> file[q]]
  BY DEF ListInv, FileOK
<1>2. \A q \in Procs : q # p => file'[q] = file[q]
  BY <1>1 DEF FileMoves
<1>3. CASE file' = [file EXCEPT ![p] = NoFile]
  BY <1>1, <1>2, <1>3
<1>4. CASE file' = [file EXCEPT ![p].alloc = ALLOCSIZE]
  <2>1. file'[p] = [file[p] EXCEPT !.alloc = ALLOCSIZE]
    BY <1>1, <1>4
  <2>2. file'[p] = [alloc |-> ALLOCSIZE, list |-> file[p].list, pos |-> file[p].pos,
                    got |-> file[p].got]
    BY <1>1, <2>1, FileFields
  <2> QED
    BY <1>2, <2>2
<1>5. ASSUME NEW n, file' = [file EXCEPT ![p].pos = n]
      PROVE  file'[p].list = file[p].list /\ file'[p].alloc = file[p].alloc
  <2>1. file'[p] = [file[p] EXCEPT !.pos = n]
    BY <1>1, <1>5
  <2>2. file'[p] = [alloc |-> file[p].alloc, list |-> file[p].list, pos |-> n,
                    got |-> file[p].got]
    BY <1>1, <2>1, FileFields
  <2> QED
    BY <2>2
<1>6. ASSUME NEW n, NEW g, file' = [file EXCEPT ![p].pos = n, ![p].got = g]
      PROVE  file'[p].list = file[p].list /\ file'[p].alloc = file[p].alloc
  <2>1. file'[p] = [file[p] EXCEPT !.pos = n, !.got = g]
    BY <1>1, <1>6
  <2>2. file'[p] = [alloc |-> file[p].alloc, list |-> file[p].list, pos |-> n, got |-> g]
    BY <1>1, <2>1, FileFields
  <2> QED
    BY <2>2
<1> QED
  BY <1>2, <1>3, <1>4, <1>5, <1>6 DEF FileMoves

\* and after dazukofs_get_groups() has tried
LEMMA ListMade ==
    ASSUME ListInv, NEW p \in Procs, GetGroups(p)
    PROVE  /\ \A q \in Procs : q # p => file'[q] = file[q]
           /\ \/ /\ Fits(1 + Width(groups), file[p].alloc)
                 /\ file'[p].list = [text |-> groups, room |-> file[p].alloc - 2]
                 /\ file'[p].alloc = file[p].alloc /\ Goto(p, "read")
              \/ /\ file'[p].list = file[p].list /\ Goto(p, "get_groups")
                 /\ file'[p].alloc = 2 * file[p].alloc
<1>1. IsFile(file[p]) /\ file = [q \in Procs |-> file[q]]
  BY DEF ListInv, FileOK
<1>2. PICK m, n : m = [text |-> groups, room |-> file[p].alloc - 2] /\ n = 2 * file[p].alloc
  OBVIOUS
<1>3. CASE Fits(1 + Width(groups), file[p].alloc)
  <2>1. file' = [file EXCEPT ![p] = [file[p] EXCEPT !.list = m]] /\ Goto(p, "read")
    BY <1>2, <1>3 DEF GetGroups
  <2>2. file'[p] = [alloc |-> file[p].alloc, list |-> m, pos |-> file[p].pos,
                    got |-> file[p].got]
    BY <1>1, <2>1, FileFields
  <2>3. \A q \in Procs : q # p => file'[q] = file[q]
    BY <1>1, <2>1
  <2> QED
    BY <1>2, <1>3, <2>1, <2>2, <2>3
<1>4. CASE ~Fits(1 + Width(groups), file[p].alloc)
  <2>1. file' = [file EXCEPT ![p] = [file[p] EXCEPT !.alloc = n]] /\ Goto(p, "get_groups")
    BY <1>2, <1>4 DEF GetGroups
  <2>2. file'[p] = [alloc |-> n, list |-> file[p].list, pos |-> file[p].pos,
                    got |-> file[p].got]
    BY <1>1, <2>1, FileFields
  <2>3. \A q \in Procs : q # p => file'[q] = file[q]
    BY <1>1, <2>1
  <2> QED
    BY <1>2, <2>1, <2>2, <2>3
<1> QED
  BY <1>3, <1>4

SizeOK(f) ==
    /\ f.alloc \in Int
    /\ f.list # NoList => /\ GroupsOK(f.list.text)
                          /\ Width(f.list.text) <= f.list.room

SizeInv == \A p \in Procs : SizeOK(file[p])

LEMMA SizeStep == ListInv /\ NamesInv /\ SizeInv /\ [TextNext]_textVars => SizeInv'
<1> SUFFICES ASSUME ListInv, NamesInv, SizeInv, [TextNext]_textVars
             PROVE  \A p \in Procs : SizeOK(file'[p])
  BY DEF SizeInv, SizeOK, GroupsOK
<1>1. CASE file' = file
  BY <1>1 DEF SizeInv
<1>2. ASSUME NEW p \in Procs, FileMoves(p)
      PROVE  \A q \in Procs : SizeOK(file'[q])
  <2>1. SizeOK(NoFile)
    BY DEF SizeOK, NoFile
  <2>2. ALLOCSIZE \in Int
    BY TextAssumption
  <2>3. SizeOK(file'[p])
    BY <1>2, <2>1, <2>2, FileMoved DEF SizeInv, SizeOK
  <2> QED
    BY <1>2, <2>3, FileMoved DEF SizeInv
<1>3. ASSUME NEW p \in Procs, GetGroups(p)
      PROVE  \A q \in Procs : SizeOK(file'[q])
  <2>1. SizeOK(file[p]) /\ file[p].alloc \in Int
    BY DEF SizeInv, SizeOK
  <2>2. PICK a \in Int : a = file[p].alloc
    BY <2>1
  <2>3. GroupsOK(groups)
    BY DEF NamesInv
  <2>4. PICK w \in Nat : w = Width(groups)
    BY <2>3, WidthBound, Zenon
  <2>5. ASSUME Fits(1 + Width(groups), file[p].alloc),
               file'[p].list = [text |-> groups, room |-> file[p].alloc - 2],
               file'[p].alloc = file[p].alloc
        PROVE  SizeOK(file'[p])
    <3>1. w <= a - 2
      <4>1. Fits(1 + w, a)
        BY <2>2, <2>4, <2>5, Zenon
      <4> QED
        BY <4>1 DEF Fits
    <3>2. file'[p].list.text = groups /\ file'[p].list.room = a - 2
      BY <2>2, <2>5
    <3> QED
      BY <2>1, <2>3, <2>4, <2>5, <3>1, <3>2 DEF SizeOK
  <2>6. ASSUME file'[p].list = file[p].list, file'[p].alloc = 2 * file[p].alloc
        PROVE  SizeOK(file'[p])
    <3>1. 2 * a \in Int
      OBVIOUS
    <3> QED
      BY <2>1, <2>2, <2>6, <3>1 DEF SizeOK
  <2>7. SizeOK(file'[p])
    BY <1>3, <2>5, <2>6, ListMade
  <2> QED
    BY <1>3, <2>7, ListMade DEF SizeInv
<1> QED
  BY <1>1, <1>2, <1>3, FileKinds

LEMMA TextStarts == TextInit => ListInv /\ WriteInv /\ NamesInv /\ SizeInv
<1> SUFFICES ASSUME TextInit
             PROVE  ListInv /\ WriteInv /\ NamesInv /\ SizeInv
  OBVIOUS
<1>1. "idle" \notin Keys \cup {"written"} /\ "idle" \notin {"read"}
  BY DEF Keys
<1>2. ListInv
  BY <1>1, FileClosed DEF TextInit, ListInv
<1>3. WriteInv
  BY <1>1 DEF TextInit, WriteInv
<1>4. GroupsOK(<<>>)
  BY TextAssumption DEF GroupsOK
<1>5. NamesInv
  BY <1>1, <1>4 DEF TextInit, NamesInv
<1>6. SizeInv
  BY DEF TextInit, SizeInv, SizeOK, NoFile
<1> QED
  BY <1>2, <1>3, <1>5, <1>6

(***************************************************************************)
(* The list that dazukofs_get_groups() hands to dazukofs_ctrl_read() fits  *)
(* its buffer, for up to ten groups (GROUP_COUNT), texts with names of any *)
(* length and any first size, although groups are added between two tries. *)
(***************************************************************************)
THEOREM ListsFit ==
    ASSUME ListsAreSomething
    PROVE  TextSpec => []ListFits
<1> DEFINE Inv == ListInv /\ WriteInv /\ NamesInv /\ SizeInv
<1>1. TextInit => Inv
  BY TextStarts
<1>2. Inv /\ [TextNext]_textVars => Inv'
  BY ListStep, WriteStep, NamesStep, SizeStep
<1>3. Inv => ListFits
  BY DEF SizeInv, SizeOK, ListFits
<1> QED
  BY <1>1, <1>2, <1>3, PTL DEF TextSpec
-----------------------------------------------------------------------------
(***************************************************************************)
(* The group of a client.  What has to be assumed: every client has a name *)
(* of its own, nobody deletes it through the control device, and the       *)
(* library reads the longest list there can be.  With its 255 bytes and    *)
(* ten groups that is so when the names have up to 22 characters; the      *)
(* library itself allows 20.                                               *)
(***************************************************************************)
OwnGroups ==
    /\ Clients \cap Ctrls = {}
    /\ \A p \in Clients : NameOf[p].len > 0 /\ NameOf[p] # NoName /\ NameOf[p] # Empty
    /\ \A p, q \in Clients : p # q => NameOf[p] # NameOf[q]
    /\ \A text \in Texts, end \in BOOLEAN, p \in Clients :
          Parsed(text, end)["del"] # NameOf[p]
    /\ LibReadLen >= GROUP_COUNT * (LongestName + 3)

\* the groups of a list that have the client's name
Own(p, list) == {g \in ToSet(list) : g.name = NameOf[p]}

\* the text of w is the one command key=<name of p>
Writes(p, w, key) == \A k \in Keys : w.cmds[k] = IF k = key THEN NameOf[p] ELSE NoName

Opening(p, w, h, list) ==
    /\ h.gid = -1
    /\ Writes(p, w, "add") \/ Writes(p, w, "addtrack")
    /\ ~Failed(w.ran) => Own(p, list) # {}

Closing(p, l, w, h) ==
    /\ h.gid \in Nat
    /\ Writes(p, w, "del")
    /\ IF l = "del" THEN w.ran = <<>> ELSE ~Failed(w.ran)

(***************************************************************************)
(* A client at l, with the write w, the list m it has read, the handle h   *)
(* and the groups in list.                                                 *)
(***************************************************************************)
Client(p, l, w, m, h, list) ==
    /\ IsHandle(h) /\ h.failed # "lost"
    /\ l \in {"open_dev", "serving"} => h.gid \in Nat /\ \E g \in Own(p, list) : g.id = h.gid
    /\ l \in {"idle", "get_groups", "read", "close"} => h.gid = -1
    /\ l \in {"idle", "serving"} => w = NoWrite
    /\ l \in {"idle", "serving", "written"} \cup Keys => m = NoList
    /\ l \in {"written"} \cup Keys => Opening(p, w, h, list) \/ Closing(p, l, w, h)
    /\ l \in {"get_groups", "read"} /\ w # NoWrite => Own(p, list) # {}
    /\ l = "read" /\ w # NoWrite => Own(p, m.text) # {}
    /\ m # NoList => Own(p, m.text) \subseteq Own(p, list)

ClientAt(p) == Client(p, pc[p], wr[p], file[p].list, hnd[p], groups)

OwnInv ==
    /\ hnd = [p \in Clients |-> hnd[p]]
    /\ \A p \in Clients : ClientAt(p)
    /\ \A q \in Ctrls, p \in Clients : pc[q] = "del" => wr[q].cmds["del"] # NameOf[p]

\* a client that others leave alone
LEMMA ClientLeft ==
    ASSUME NEW p, NEW l, NEW w, NEW m, NEW h, NEW list, NEW new,
           Client(p, l, w, m, h, list), Own(p, list) \subseteq Own(p, new)
    PROVE  Client(p, l, w, m, h, new)
BY DEF Client, Opening

\* a step of p that neither adds nor deletes a group
Alone(p) ==
    /\ groups' = groups
    /\ \A q \in Procs : q # p => pc'[q] = pc[q] /\ wr'[q] = wr[q] /\ file'[q] = file[q]
    /\ \A q \in Clients : q # p => hnd'[q] = hnd[q]
    /\ hnd' = [q \in Clients |-> hnd'[q]]

LEMMA OwnFrame ==
    ASSUME OwnGroups, OwnInv, NEW p \in Clients, Alone(p),
           Client(p, pc'[p], wr'[p], file'[p].list, hnd'[p], groups)
    PROVE  OwnInv'
<1>1. p \notin Ctrls
  BY DEF OwnGroups
<1>2. ASSUME NEW q \in Clients
      PROVE  Client(q, pc'[q], wr'[q], file'[q].list, hnd'[q], groups')
  <2>1. CASE q = p
    BY <2>1 DEF Alone
  <2>2. CASE q # p
    <3>1. q \in Procs /\ ClientAt(q)
      BY DEF Procs, OwnInv
    <3> QED
      BY <2>2, <3>1 DEF Alone, ClientAt
  <2> QED
    BY <2>1, <2>2
<1>3. \A q \in Clients : ClientAt(q)'
  BY <1>2 DEF ClientAt
<1>4. \A q \in Ctrls, r \in Clients : pc'[q] = "del" => wr'[q].cmds["del"] # NameOf[r]
  BY <1>1 DEF OwnInv, Alone, Procs
<1> QED
  BY <1>3, <1>4 DEF OwnInv, Alone

LEMMA CtrlFrame ==
    ASSUME OwnGroups, OwnInv, NEW p \in Ctrls, Alone(p), hnd' = hnd,
           \A q \in Clients : pc'[p] = "del" => wr'[p].cmds["del"] # NameOf[q]
    PROVE  OwnInv'
<1>1. ASSUME NEW q \in Clients
      PROVE  ClientAt(q)'
  <2>1. q # p /\ q \in Procs /\ ClientAt(q)
    BY DEF OwnGroups, OwnInv, Procs
  <2>2. Client(q, pc'[q], wr'[q], file'[q].list, hnd'[q], groups')
    BY <2>1 DEF Alone, ClientAt
  <2> QED
    BY <2>2 DEF ClientAt
<1>2. \A q \in Ctrls, r \in Clients : pc'[q] = "del" => wr'[q].cmds["del"] # NameOf[r]
  BY DEF OwnInv, Alone, Procs
<1> QED
  BY <1>1, <1>2 DEF OwnInv, Alone

\* the library sets some fields of a handle and keeps the others
LEMMA HandleKeeps ==
    ASSUME NEW h, IsHandle(h), NEW x, NEW new,
           \/ new = [h EXCEPT !.id = x] \/ new = [h EXCEPT !.pos = x]
           \/ new = [h EXCEPT !.whole = x]
    PROVE  IsHandle(new) /\ new.gid = h.gid /\ new.failed = h.failed
<1>1. h = [gid |-> h.gid, pos |-> h.pos, id |-> h.id, whole |-> h.whole,
           failed |-> h.failed]
  BY DEF IsHandle
<1>2. ASSUME NEW b, NEW c, NEW d,
             new = [gid |-> h.gid, pos |-> b, id |-> c, whole |-> d, failed |-> h.failed]
      PROVE  IsHandle(new) /\ new.gid = h.gid /\ new.failed = h.failed
  BY <1>2 DEF IsHandle
<1>3. CASE new = [h EXCEPT !.id = x]
  <2>1. new = [gid |-> h.gid, pos |-> h.pos, id |-> x, whole |-> h.whole,
               failed |-> h.failed]
    BY <1>1, <1>3
  <2> QED
    BY <1>2, <2>1
<1>4. CASE new = [h EXCEPT !.pos = x]
  <2>1. new = [gid |-> h.gid, pos |-> x, id |-> h.id, whole |-> h.whole,
               failed |-> h.failed]
    BY <1>1, <1>4
  <2> QED
    BY <1>2, <2>1
<1>5. CASE new = [h EXCEPT !.whole = x]
  <2>1. new = [gid |-> h.gid, pos |-> h.pos, id |-> h.id, whole |-> x,
               failed |-> h.failed]
    BY <1>1, <1>5
  <2> QED
    BY <1>2, <2>1
<1> QED
  BY <1>3, <1>4, <1>5

LEMMA HandleGiven ==
    ASSUME NEW h, IsHandle(h), NEW x, NEW new
    PROVE  /\ new = [h EXCEPT !.gid = x] =>
                 IsHandle(new) /\ new.gid = x /\ new.failed = h.failed
           /\ new = [h EXCEPT !.failed = x] =>
                 IsHandle(new) /\ new.gid = h.gid /\ new.failed = x
<1>1. ASSUME new = [h EXCEPT !.gid = x]
      PROVE  IsHandle(new) /\ new.gid = x /\ new.failed = h.failed
  <2>1. new = [gid |-> x, pos |-> h.pos, id |-> h.id, whole |-> h.whole,
               failed |-> h.failed]
    BY <1>1, HandleFields
  <2> QED
    BY <2>1 DEF IsHandle
<1>2. ASSUME new = [h EXCEPT !.failed = x]
      PROVE  IsHandle(new) /\ new.gid = h.gid /\ new.failed = x
  <2>1. new = [gid |-> h.gid, pos |-> h.pos, id |-> h.id, whole |-> h.whole,
               failed |-> x]
    BY <1>2, HandleFields
  <2> QED
    BY <2>1 DEF IsHandle
<1> QED
  BY <1>1, <1>2

\* the result of a write is that of its last command
LEMMA LastDecides ==
    ASSUME NEW r \in Seq([key : Keys, ok : BOOLEAN]), NEW k \in Keys, NEW ok \in BOOLEAN
    PROVE  Failed(Append(r, [key |-> k, ok |-> ok])) <=> ~ok
<1>1. PICK c \in [key : Keys, ok : BOOLEAN] : c = [key |-> k, ok |-> ok]
  OBVIOUS
<1>2. Len(r) \in Nat /\ Append(r, c) \in Seq([key : Keys, ok : BOOLEAN])
  BY <1>1
<1>3. Len(Append(r, c)) = Len(r) + 1 /\ Append(r, c)[Len(r) + 1] = c
  BY <1>1, <1>2
<1>4. Append(r, c) # <<>> /\ Last(Append(r, c)) = c
  BY <1>2, <1>3 DEF Last
<1>5. c.ok = ok
  BY <1>1
<1> QED
  BY <1>1, <1>4, <1>5 DEF Failed

\* what a command does to the write it belongs to
LEMMA CommandOwn ==
    ASSUME WriteInv, NamesInv, NEW p \in Procs, NEW memory \in BOOLEAN,
           Command(p, memory), NEW k \in Keys, k = pc[p]
    PROVE  /\ \A j \in Keys : wr'[p].cmds[j] = wr[p].cmds[j]
           /\ \/ /\ wr'[p] = wr[p] /\ groups' = groups
                 /\ wr[p].cmds[k] = NoName \/ ~GoesOn(wr[p].ran)
              \/ /\ wr[p].cmds[k] # NoName
                 /\ k = "del" /\ wr[p].cmds[k] # Empty => ~Failed(wr'[p].ran)
                 /\ k # "del" /\ ~Failed(wr'[p].ran) =>
                       \E g \in ToSet(groups') : g.name = wr[p].cmds[k]
<1> DEFINE n == wr[p].cmds[k]
           ok == n # Empty /\ (k = "del" \/ Named(n) # {} \/ (memory /\ ~Full))
           run == n # NoName /\ GoesOn(wr[p].ran)
<1>1. /\ groups' = IF ~run \/ ~ok THEN groups
                   ELSE IF k = "del" THEN Deleted(n) ELSE Added(n)
      /\ wr' = IF run THEN [wr EXCEPT ![p].ran = Append(@, [key |-> k, ok |-> ok])] ELSE wr
  BY DEF Command
<1>2. \A j \in Keys : wr'[p].cmds[j] = wr[p].cmds[j]
  BY CommandFacts
<1>3. CASE ~run
  <2>1. wr' = wr /\ groups' = groups
    BY <1>1, <1>3
  <2> QED
    BY <1>2, <1>3, <2>1
<1>4. CASE run
  <2>1. IsWrite(wr[p])
    BY DEF WriteInv, WriteOK
  <2>2. ok \in BOOLEAN
    OBVIOUS
  <2>3. k # "del" /\ ok => \E g \in ToSet(groups') : g.name = n
    <3> SUFFICES ASSUME k # "del", ok
                 PROVE  \E g \in ToSet(groups') : g.name = n
      OBVIOUS
    <3>1. groups' = Added(n)
      BY <1>1, <1>4
    <3>2. n \in Name /\ GroupsOK(groups)
      BY <1>4 DEF NamesInv
    <3>3. Named(n) # {} \/ ~Full
      OBVIOUS
    <3> QED
      BY <3>1, <3>2, <3>3, AddedFacts
  <2>4. k = "del" /\ n # Empty => ok
    OBVIOUS
  <2> HIDE DEF ok
  <2>5. wr' = [wr EXCEPT ![p].ran = Append(@, [key |-> k, ok |-> ok])]
    BY <1>1, <1>4
  <2>6. wr'[p].ran = Append(wr[p].ran, [key |-> k, ok |-> ok])
    <3>1. PICK r : r = Append(wr[p].ran, [key |-> k, ok |-> ok])
      OBVIOUS
    <3>2. wr' = [wr EXCEPT ![p] = [wr[p] EXCEPT !.ran = r]]
      BY <2>5, <3>1
    <3>3. [wr[p] EXCEPT !.ran = r].ran = r
      BY <2>1 DEF IsWrite
    <3> QED
      BY <3>1, <3>2, <3>3 DEF WriteInv
  <2>7. Failed(wr'[p].ran) <=> ~ok
    BY <2>1, <2>2, <2>6, LastDecides DEF IsWrite
  <2> QED
    BY <1>2, <1>4, <2>3, <2>4, <2>7
<1> QED
  BY <1>3, <1>4

\* a write of a client looks for one key only, and finds its own name there
LEMMA OwnWrite ==
    ASSUME OwnGroups, WriteInv, NamesInv, OwnInv, NEW p \in Clients,
           NEW memory \in BOOLEAN, Command(p, memory)
    PROVE  Client(p, pc'[p], wr'[p], file[p].list, hnd[p], groups')
<1>1. p \in Procs
  BY DEF Procs
<1>2. PICK k \in Keys : k = pc[p]
  BY DEF Command
<1>3. PICK l : l = (IF k = "addtrack" THEN "written" ELSE After(k))
  OBVIOUS
<1>4. pc'[p] = l
  BY <1>1, <1>2, <1>3 DEF Command, Goto, WriteInv
<1>5. l \in {"add", "addtrack", "written"}
  BY <1>3, Places DEF Keys
<1>6. /\ \A j \in Keys : wr'[p].cmds[j] = wr[p].cmds[j]
      /\ \/ /\ wr'[p] = wr[p] /\ groups' = groups
            /\ wr[p].cmds[k] = NoName \/ ~GoesOn(wr[p].ran)
         \/ /\ wr[p].cmds[k] # NoName
            /\ k = "del" /\ wr[p].cmds[k] # Empty => ~Failed(wr'[p].ran)
            /\ k # "del" /\ ~Failed(wr'[p].ran) =>
                  \E g \in ToSet(groups') : g.name = wr[p].cmds[k]
  BY <1>1, <1>2, CommandOwn
<1>7. Client(p, k, wr[p], file[p].list, hnd[p], groups)
  BY <1>2 DEF OwnInv, ClientAt
<1>8. /\ IsHandle(hnd[p]) /\ hnd[p].failed # "lost" /\ file[p].list = NoList
      /\ Opening(p, wr[p], hnd[p], groups) \/ Closing(p, k, wr[p], hnd[p])
  BY <1>7 DEF Client
<1>9. ASSUME NEW key \in Keys, Writes(p, wr[p], key)
      PROVE  Writes(p, wr'[p], key)
  BY <1>6, <1>9 DEF Writes
<1>10. "del" \in Keys /\ "add" \in Keys /\ "addtrack" \in Keys
  BY DEF Keys
<1>11. ASSUME Opening(p, wr[p], hnd[p], groups)
       PROVE  Opening(p, wr'[p], hnd[p], groups')
  <2>1. hnd[p].gid = -1 /\ (Writes(p, wr'[p], "add") \/ Writes(p, wr'[p], "addtrack"))
    BY <1>9, <1>10, <1>11 DEF Opening
  <2>2. CASE wr'[p] = wr[p] /\ groups' = groups
    BY <1>11, <2>2
  <2>3. CASE /\ wr[p].cmds[k] # NoName
             /\ k # "del" /\ ~Failed(wr'[p].ran) =>
                   \E g \in ToSet(groups') : g.name = wr[p].cmds[k]
    <3>1. wr[p].cmds[k] = NameOf[p] /\ k # "del"
      BY <1>10, <1>11, <2>3 DEF Opening, Writes
    <3> QED
      BY <2>1, <2>3, <3>1 DEF Opening, Own
  <2> QED
    BY <1>6, <2>2, <2>3
<1>12. ASSUME Closing(p, k, wr[p], hnd[p])
       PROVE  Closing(p, l, wr'[p], hnd[p])
  <2>1. hnd[p].gid \in Nat /\ Writes(p, wr'[p], "del") /\ l # "del"
    BY <1>5, <1>9, <1>10, <1>12 DEF Closing
  <2>2. ~Failed(wr'[p].ran)
    <3>1. CASE k = "del"
      <4>1. wr[p].cmds[k] = NameOf[p] /\ wr[p].ran = <<>>
        BY <1>12, <3>1 DEF Closing, Writes
      <4>2. wr[p].cmds[k] # NoName /\ wr[p].cmds[k] # Empty /\ GoesOn(wr[p].ran)
        BY <4>1 DEF OwnGroups, GoesOn
      <4> QED
        BY <1>6, <3>1, <4>2
    <3>2. CASE k # "del"
      <4>1. wr[p].cmds[k] = NoName /\ ~Failed(wr[p].ran)
        BY <1>12, <3>2 DEF Closing, Writes
      <4> QED
        BY <1>6, <4>1
    <3> QED
      BY <3>1, <3>2
  <2> QED
    BY <2>1, <2>2 DEF Closing
<1>13. Opening(p, wr'[p], hnd[p], groups') \/ Closing(p, l, wr'[p], hnd[p])
  BY <1>8, <1>11, <1>12
<1> QED
  BY <1>4, <1>5, <1>8, <1>13 DEF Client, Keys

LEMMA OwnCommand ==
    ASSUME OwnGroups, WriteInv, NamesInv, OwnInv, NEW p \in Procs,
           NEW memory \in BOOLEAN, Command(p, memory)
    PROVE  OwnInv'
<1>1. /\ \A q \in Procs : q # p => wr'[q] = wr[q] /\ pc'[q] = pc[q]
      /\ \A g \in ToSet(groups) :
            (pc[p] = "del" /\ g.name = wr[p].cmds["del"]) \/ g \in ToSet(groups')
      /\ \A k \in Keys : wr'[p].cmds[k] = wr[p].cmds[k]
  BY CommandFacts
<1>2. hnd' = hnd /\ file' = file /\ pc[p] \in Keys
  BY DEF Command
<1>3. ASSUME NEW q \in Clients, q # p
      PROVE  Client(q, pc'[q], wr'[q], file'[q].list, hnd'[q], groups')
  <2>1. pc[p] = "del" => wr[p].cmds["del"] # NameOf[q]
    <3>1. CASE p \in Ctrls
      BY <3>1 DEF OwnInv
    <3>2. CASE p \in Clients
      <4> SUFFICES ASSUME pc[p] = "del"
                   PROVE  wr[p].cmds["del"] # NameOf[q]
        OBVIOUS
      <4>1. ClientAt(p) /\ "del" \in Keys
        BY <3>2 DEF OwnInv, Keys
      <4>2. wr[p].cmds["del"] = NameOf[p] \/ wr[p].cmds["del"] = NoName
        <5>1. Opening(p, wr[p], hnd[p], groups) \/ Closing(p, pc[p], wr[p], hnd[p])
          BY <4>1 DEF ClientAt, Client
        <5>2. \E key \in Keys : Writes(p, wr[p], key)
          BY <5>1 DEF Opening, Closing, Keys
        <5> QED
          BY <4>1, <5>2 DEF Writes
      <4> QED
        BY <1>3, <3>2, <4>2 DEF OwnGroups
    <3> QED
      BY <3>1, <3>2 DEF Procs
  <2>2. Own(q, groups) \subseteq Own(q, groups')
    BY <1>1, <2>1 DEF Own
  <2>3. Client(q, pc[q], wr[q], file[q].list, hnd[q], groups) /\ q \in Procs
    BY DEF OwnInv, ClientAt, Procs
  <2>4. Client(q, pc[q], wr[q], file[q].list, hnd[q], groups')
    BY <2>2, <2>3, ClientLeft
  <2> QED
    BY <1>1, <1>2, <1>3, <2>3, <2>4
<1>4. ASSUME NEW q \in Clients
      PROVE  ClientAt(q)'
  <2>1. Client(q, pc'[q], wr'[q], file'[q].list, hnd'[q], groups')
    BY <1>2, <1>3, OwnWrite
  <2> QED
    BY <2>1 DEF ClientAt
<1>5. ASSUME NEW q \in Ctrls, NEW r \in Clients, pc'[q] = "del"
      PROVE  wr'[q].cmds["del"] # NameOf[r]
  <2>1. q \in Procs
    BY DEF Procs
  <2>2. CASE q # p
    BY <1>1, <1>5, <2>1, <2>2 DEF OwnInv
  <2>3. CASE q = p
    <3>1. pc'[p] \in {"add", "addtrack", "written"}
      BY <1>2, Places DEF Command, Goto, WriteInv, Keys
    <3> QED
      BY <1>5, <2>3, <3>1
  <2> QED
    BY <2>2, <2>3
<1> QED
  BY <1>2, <1>4, <1>5 DEF OwnInv

LEMMA OthersKept ==
    ASSUME ListInv, NEW p \in Procs, NEW l, Goto(p, l)
    PROVE  pc'[p] = l /\ \A q \in Procs : q # p => pc'[q] = pc[q]
BY DEF ListInv, Goto

LEMMA ClientStarts ==
    ASSUME OwnGroups, ListInv, WriteInv, OwnInv, NEW p \in Clients, NEW key \in Keys,
           StartWrite(p, <<[key |-> key, name |-> NameOf[p]]>>, FALSE),
           UNCHANGED <<groups, file, hnd>>
    PROVE  /\ Alone(p) /\ pc'[p] = "del"
           /\ wr'[p].ran = <<>> /\ Writes(p, wr'[p], key)
<1>1. p \in Procs
  BY DEF Procs
<1>2. PICK c, n : /\ c = Parsed(<<[key |-> key, name |-> NameOf[p]]>>, FALSE)
                  /\ n = TextLen(<<[key |-> key, name |-> NameOf[p]]>>, FALSE)
  OBVIOUS
<1>3. wr' = [wr EXCEPT ![p] = [cmds |-> c, len |-> n, ran |-> <<>>]] /\ Goto(p, "del")
  BY <1>2 DEF StartWrite
<1>4. /\ pc'[p] = "del" /\ wr'[p] = [cmds |-> c, len |-> n, ran |-> <<>>]
      /\ \A q \in Procs : q # p => pc'[q] = pc[q] /\ wr'[q] = wr[q]
  BY <1>1, <1>3, OthersKept DEF WriteInv
<1>5. NameOf[p] \in [w : Words, len : 1 .. 20]
  <2>1. NameOf[p] \in [w : Words, len : 0 .. 20] /\ NameOf[p].len > 0
    BY TextAssumption DEF OwnGroups
  <2> QED
    BY <2>1
<1>6. \A k \in Keys : c[k] = IF k = key THEN NameOf[p] ELSE NoName
  BY <1>2, <1>5, ParsedOne
<1>7. Writes(p, wr'[p], key) /\ wr'[p].ran = <<>>
  BY <1>4, <1>6 DEF Writes
<1> QED
  BY <1>4, <1>7 DEF Alone, OwnInv

LEMMA ClientReads ==
    ASSUME ListInv, WriteInv, OwnInv, NEW p \in Clients, StartRead(p),
           file[p].list = NoList
    PROVE  /\ Alone(p) /\ pc'[p] = "get_groups" /\ file'[p].list = NoList
           /\ wr'[p] = wr[p] /\ hnd'[p] = hnd[p]
<1>1. p \in Procs /\ IsFile(file[p])
  BY DEF Procs, ListInv, FileOK
<1>2. /\ file' = [file EXCEPT ![p].alloc = ALLOCSIZE] /\ Goto(p, "get_groups")
      /\ UNCHANGED <<groups, wr, hnd>>
  BY DEF StartRead, ListOf
<1>3. file'[p].list = file[p].list /\ \A q \in Procs : q # p => file'[q] = file[q]
  <2>1. file'[p] = [file[p] EXCEPT !.alloc = ALLOCSIZE]
    BY <1>1, <1>2 DEF ListInv
  <2>2. file'[p] = [alloc |-> ALLOCSIZE, list |-> file[p].list, pos |-> file[p].pos,
                    got |-> file[p].got]
    BY <1>1, <2>1, FileFields
  <2>3. \A q \in Procs : q # p => file'[q] = file[q]
    BY <1>1, <1>2 DEF ListInv
  <2> QED
    BY <2>2, <2>3
<1>4. pc'[p] = "get_groups" /\ \A q \in Procs : q # p => pc'[q] = pc[q]
  BY <1>1, <1>2, OthersKept
<1> QED
  BY <1>2, <1>3, <1>4 DEF Alone, OwnInv

LEMMA OwnOpen ==
    ASSUME OwnGroups, ListInv, WriteInv, OwnInv, NEW p \in Clients,
           NEW key \in {"add", "addtrack"}, NEW writable \in BOOLEAN,
           LibOpen(p, key, writable)
    PROVE  OwnInv'
<1>1. pc[p] = "idle" /\ ClientAt(p) /\ key \in Keys
  BY DEF LibOpen, OwnInv, Keys
<1>2. /\ IsHandle(hnd[p]) /\ hnd[p].failed # "lost" /\ hnd[p].gid = -1
      /\ wr[p] = NoWrite /\ file[p].list = NoList
  BY <1>1 DEF ClientAt, Client
<1>3. CASE writable
  <2>1. /\ StartWrite(p, <<[key |-> key, name |-> NameOf[p]]>>, FALSE)
        /\ UNCHANGED <<groups, file, hnd>>
    BY <1>3 DEF LibOpen
  <2>2. /\ Alone(p) /\ pc'[p] = "del"
        /\ wr'[p].ran = <<>> /\ Writes(p, wr'[p], key)
    BY <1>1, <2>1, ClientStarts
  <2>3. Opening(p, wr'[p], hnd[p], groups)
    BY <1>2, <2>2 DEF Opening, Failed
  <2>4. Client(p, "del", wr'[p], file[p].list, hnd[p], groups)
    BY <1>2, <2>3 DEF Client
  <2> QED
    BY <2>1, <2>2, <2>4, OwnFrame
<1>4. CASE ~writable
  <2>1. StartRead(p)
    BY <1>4 DEF LibOpen
  <2>2. /\ Alone(p) /\ pc'[p] = "get_groups" /\ file'[p].list = NoList
        /\ wr'[p] = wr[p] /\ hnd'[p] = hnd[p]
    BY <1>2, <2>1, ClientReads
  <2>3. Client(p, "get_groups", wr[p], NoList, hnd[p], groups)
    BY <1>2 DEF Client, Keys
  <2> QED
    BY <2>2, <2>3, OwnFrame
<1> QED
  BY <1>3, <1>4

LEMMA OwnWritten ==
    ASSUME OwnGroups, ListInv, WriteInv, OwnInv, NEW p \in Clients, LibWritten(p)
    PROVE  OwnInv'
<1>1. pc[p] = "written" /\ ClientAt(p) /\ hnd[p].gid < 0 /\ p \in Procs
  BY DEF LibWritten, OwnInv, Procs
<1>2. /\ IsHandle(hnd[p]) /\ hnd[p].failed # "lost" /\ file[p].list = NoList
      /\ Opening(p, wr[p], hnd[p], groups) \/ Closing(p, pc[p], wr[p], hnd[p])
  BY <1>1 DEF ClientAt, Client
<1>3. Opening(p, wr[p], hnd[p], groups)
  <2>1. ASSUME hnd[p].gid \in Nat
        PROVE  FALSE
    BY <1>1, <2>1
  <2> QED
    BY <1>2, <2>1 DEF Closing
<1>4. hnd[p].gid = -1 /\ (~Failed(wr[p].ran) => Own(p, groups) # {})
  BY <1>3 DEF Opening
<1>5. CASE Failed(wr[p].ran)
  <2>1. Goto(p, "close") /\ UNCHANGED <<groups, wr, file, hnd>>
    BY <1>5 DEF LibWritten
  <2>2. pc'[p] = "close" /\ \A q \in Procs : q # p => pc'[q] = pc[q]
    BY <1>1, <2>1, OthersKept
  <2>3. Alone(p)
    BY <2>1, <2>2 DEF Alone, OwnInv
  <2>4. Client(p, "close", wr[p], file[p].list, hnd[p], groups)
    BY <1>2, <1>4 DEF Client, Keys
  <2> QED
    BY <2>1, <2>2, <2>3, <2>4, OwnFrame
<1>6. CASE ~Failed(wr[p].ran)
  <2>1. StartRead(p)
    BY <1>6 DEF LibWritten
  <2>2. /\ Alone(p) /\ pc'[p] = "get_groups" /\ file'[p].list = NoList
        /\ wr'[p] = wr[p] /\ hnd'[p] = hnd[p]
    BY <1>2, <2>1, ClientReads
  <2>3. Client(p, "get_groups", wr[p], NoList, hnd[p], groups)
    BY <1>2, <1>4, <1>6 DEF Client, Keys
  <2> QED
    BY <2>2, <2>3, OwnFrame
<1> QED
  BY <1>5, <1>6

LEMMA OwnGetGroups ==
    ASSUME OwnGroups, ListInv, WriteInv, OwnInv, NEW p \in Clients, GetGroups(p)
    PROVE  OwnInv'
<1>1. pc[p] = "get_groups" /\ ClientAt(p) /\ p \in Procs
  BY DEF GetGroups, OwnInv, Procs
<1>2. /\ IsHandle(hnd[p]) /\ hnd[p].failed # "lost" /\ hnd[p].gid = -1
      /\ wr[p] # NoWrite => Own(p, groups) # {}
  BY <1>1 DEF ClientAt, Client
<1>3. file[p].list = NoList
  BY <1>1 DEF ListInv, FileOK
<1>4. UNCHANGED <<groups, wr, hnd>>
  BY DEF GetGroups
<1>5. PICK l \in {"read", "get_groups"} :
         /\ Goto(p, l) /\ \A q \in Procs : q # p => file'[q] = file[q]
         /\ l = "read" => file'[p].list.text = groups
         /\ l = "get_groups" => file'[p].list = NoList
  <2>1. \A q \in Procs : q # p => file'[q] = file[q]
    BY <1>1, ListMade
  <2>2. \/ /\ file'[p].list = [text |-> groups, room |-> file[p].alloc - 2]
           /\ Goto(p, "read")
        \/ file'[p].list = file[p].list /\ Goto(p, "get_groups")
    BY <1>1, ListMade
  <2>3. ASSUME NEW m, NEW r, m = [text |-> groups, room |-> r]
        PROVE  m.text = groups
    BY <2>3
  <2> QED
    BY <1>3, <2>1, <2>2, <2>3
<1>6. pc'[p] = l /\ \A q \in Procs : q # p => pc'[q] = pc[q]
  BY <1>1, <1>5, OthersKept
<1>7. Alone(p)
  BY <1>4, <1>5, <1>6 DEF Alone, OwnInv
<1>8. Client(p, l, wr[p], file'[p].list, hnd[p], groups)
  BY <1>2, <1>5 DEF Client, Keys
<1> QED
  BY <1>4, <1>6, <1>7, <1>8, OwnFrame

\* the library reads the whole of a list
LEMMA SeenWhole ==
    ASSUME OwnGroups, NEW list, GroupsOK(list.text), NEW i \in DOMAIN list.text
    PROVE  i \in Seen(list)
<1>1. PICK t : t = list.text
  OBVIOUS
<1>2. t \in Seq(Group) /\ Len(t) \in Nat /\ Len(t) <= GROUP_COUNT /\ i \in 1 .. Len(t)
  BY <1>1 DEF GroupsOK
<1>0. ASSUME NEW S, NEW r \in Seq(S), NEW j \in 1 .. Len(r)
      PROVE  SubSeq(r, 1, j) \in Seq(S) /\ Len(SubSeq(r, 1, j)) = j
  OBVIOUS
<1>3. PICK s \in Seq(Group) : s = SubSeq(t, 1, i)
  BY <1>0, <1>2, Zenon
<1>4. Len(s) = i
  BY <1>0, <1>2, <1>3, Zenon
<1>5. GroupsOK(s)
  BY <1>2, <1>4, TextAssumption DEF GroupsOK
<1>6. PICK w \in Nat : w = Width(s)
  BY <1>5, WidthBound, Zenon
<1>7. PICK m \in Nat : m = LongestName + 3
  BY LongestNameBounds
<1>8. w <= i * m
  BY <1>4, <1>5, <1>6, <1>7, WidthBound
<1>9. w <= LibReadLen
  <2>1. LibReadLen \in Nat /\ LibReadLen >= GROUP_COUNT * m /\ GROUP_COUNT \in Nat
    BY <1>7, TextAssumption DEF OwnGroups
  <2>2. i \in Nat /\ i <= GROUP_COUNT
    BY <1>2, <2>1
  <2>3. i * m <= GROUP_COUNT * m
    BY <2>1, <2>2
  <2> QED
    BY <1>8, <2>1, <2>2, <2>3
<1> QED
  BY <1>1, <1>3, <1>6, <1>9 DEF Seen

LEMMA OwnFind ==
    ASSUME OwnGroups, ListInv, WriteInv, SizeInv, OwnInv, NEW p \in Clients, LibFind(p)
    PROVE  OwnInv'
<1>1. pc[p] = "read" /\ ClientAt(p) /\ p \in Procs /\ UNCHANGED <<groups, wr, file>>
  BY DEF LibFind, OwnInv, Procs
<1>2. /\ IsHandle(hnd[p]) /\ hnd[p].failed # "lost" /\ hnd[p].gid = -1
      /\ wr[p] # NoWrite => Own(p, file[p].list.text) # {}
      /\ file[p].list # NoList => Own(p, file[p].list.text) \subseteq Own(p, groups)
  BY <1>1 DEF ClientAt, Client
<1>3. PICK m : m = file[p].list
  OBVIOUS
<1>4. m # NoList /\ GroupsOK(m.text)
  BY <1>1, <1>3 DEF ListInv, FileOK, SizeInv, SizeOK
<1> DEFINE hits == {i \in Seen(m) : Matches(m.text[i].name, NameOf[p])}
<1>5. hits = {i \in DOMAIN m.text : m.text[i].name = NameOf[p]}
  <2>1. Seen(m) = DOMAIN m.text
    BY <1>4, SeenWhole DEF Seen
  <2> QED
    BY <2>1 DEF Matches
<1>6. /\ hnd' = IF hits # {} THEN [hnd EXCEPT ![p].gid = m.text[Least(hits)].id]
                ELSE IF wr[p] = NoWrite THEN hnd ELSE [hnd EXCEPT ![p].failed = "lost"]
      /\ Goto(p, IF hits # {} THEN "open_dev" ELSE "close")
  BY <1>3 DEF LibFind
<1>7. hits = {} => wr[p] = NoWrite
  BY <1>2, <1>3, <1>5 DEF Own, ToSet
<1> HIDE DEF hits
<1>8. CASE hits = {}
  <2>1. hnd' = hnd /\ Goto(p, "close")
    BY <1>6, <1>7, <1>8
  <2>2. pc'[p] = "close" /\ \A q \in Procs : q # p => pc'[q] = pc[q]
    BY <1>1, <2>1, OthersKept
  <2>3. Alone(p)
    BY <1>1, <2>1, <2>2 DEF Alone, OwnInv
  <2>4. Client(p, "close", wr[p], file[p].list, hnd[p], groups)
    BY <1>2 DEF Client, Keys
  <2> QED
    BY <1>1, <2>1, <2>2, <2>3, <2>4, OwnFrame
<1>9. CASE hits # {}
  <2>1. PICK i : i = Least(hits)
    OBVIOUS
  <2>2. i \in DOMAIN m.text /\ m.text[i].name = NameOf[p]
    <3>1. hits \subseteq Nat
      BY <1>4, <1>5 DEF GroupsOK
    <3>2. i \in hits
      BY <1>9, <2>1, <3>1, LeastOfNaturals
    <3> QED
      BY <1>5, <3>2
  <2>3. m.text[i] \in Own(p, groups)
    BY <1>2, <1>3, <1>4, <2>2 DEF Own, ToSet
  <2>4. PICK n \in Nat : n = m.text[i].id
    <3>1. m.text[i] \in Group
      BY <1>4, <2>2 DEF GroupsOK
    <3> QED
      BY <3>1 DEF Group
  <2>5. hnd' = [hnd EXCEPT ![p].gid = n] /\ Goto(p, "open_dev")
    BY <1>6, <1>9, <2>1, <2>4
  <2>6. PICK h : h = [hnd[p] EXCEPT !.gid = n]
    OBVIOUS
  <2>7. /\ hnd'[p] = h /\ hnd' = [q \in Clients |-> hnd'[q]]
        /\ \A q \in Clients : q # p => hnd'[q] = hnd[q]
    BY <2>5, <2>6 DEF OwnInv
  <2>8. IsHandle(h) /\ h.gid = n /\ h.failed # "lost"
    BY <1>2, <2>6, HandleGiven
  <2>9. pc'[p] = "open_dev" /\ \A q \in Procs : q # p => pc'[q] = pc[q]
    BY <1>1, <2>5, OthersKept
  <2>10. Alone(p)
    BY <1>1, <2>7, <2>9 DEF Alone
  <2>11. Client(p, "open_dev", wr[p], file[p].list, h, groups)
    BY <1>2, <2>3, <2>4, <2>8 DEF Client, Keys
  <2> QED
    BY <1>1, <2>7, <2>9, <2>10, <2>11, OwnFrame
<1> QED
  BY <1>8, <1>9

LEMMA OwnDevice ==
    ASSUME OwnGroups, ListInv, WriteInv, OwnInv, NEW p \in Clients,
           LibFails(p) \/ \E ok \in BOOLEAN : LibOpenDev(p, ok)
    PROVE  OwnInv'
<1>1. ClientAt(p) /\ p \in Procs /\ IsHandle(hnd[p]) /\ hnd[p].failed # "lost"
  BY DEF OwnInv, ClientAt, Client, Procs
<1>2. /\ file' = [file EXCEPT ![p] = NoFile] /\ wr' = [wr EXCEPT ![p] = NoWrite]
      /\ groups' = groups
  BY DEF LibFails, LibOpenDev
<1>3. /\ file'[p] = NoFile /\ wr'[p] = NoWrite
      /\ \A q \in Procs : q # p => file'[q] = file[q] /\ wr'[q] = wr[q]
  BY <1>1, <1>2 DEF ListInv, WriteInv
<1>4. NoFile.list = NoList
  BY DEF NoFile
<1>5. ASSUME NEW l \in {"idle", "serving"}, Goto(p, l), NEW h, IsHandle(h),
             h.failed # "lost", hnd' = [hnd EXCEPT ![p] = h],
             l = "idle" => h.gid = -1,
             l = "serving" => h.gid \in Nat /\ \E g \in Own(p, groups) : g.id = h.gid
      PROVE  OwnInv'
  <2>1. /\ hnd'[p] = h /\ hnd' = [q \in Clients |-> hnd'[q]]
        /\ \A q \in Clients : q # p => hnd'[q] = hnd[q]
    BY <1>5 DEF OwnInv
  <2>2. pc'[p] = l /\ \A q \in Procs : q # p => pc'[q] = pc[q]
    BY <1>1, <1>5, OthersKept
  <2>3. Alone(p)
    BY <1>2, <1>3, <2>1, <2>2 DEF Alone
  <2>4. Client(p, l, NoWrite, NoList, h, groups)
    BY <1>5 DEF Client, Keys
  <2> QED
    BY <1>3, <1>4, <2>1, <2>2, <2>3, <2>4, OwnFrame
<1>6. hnd = [hnd EXCEPT ![p] = hnd[p]]
  BY DEF OwnInv
<1>7. NoHandle.gid = -1 /\ NoHandle.failed # "lost" /\ IsHandle(NoHandle)
  BY DEF NoHandle, IsHandle
<1>8. CASE LibFails(p)
  <2>1. pc[p] = "close" /\ hnd' = hnd /\ Goto(p, "idle")
    BY <1>8 DEF LibFails
  <2>2. hnd[p].gid = -1
    BY <1>1, <2>1 DEF ClientAt, Client
  <2> QED
    BY <1>1, <1>5, <1>6, <2>1, <2>2
<1>9. ASSUME NEW ok \in BOOLEAN, LibOpenDev(p, ok)
      PROVE  OwnInv'
  <2>1. CASE ok
    <3>1. pc[p] = "open_dev" /\ hnd' = hnd /\ Goto(p, "serving")
      BY <1>9, <2>1 DEF LibOpenDev
    <3>2. hnd[p].gid \in Nat /\ \E g \in Own(p, groups) : g.id = hnd[p].gid
      BY <1>1, <3>1 DEF ClientAt, Client
    <3> QED
      BY <1>1, <1>5, <1>6, <3>1, <3>2
  <2>2. CASE ~ok
    <3>1. hnd' = [hnd EXCEPT ![p] = NoHandle] /\ Goto(p, "idle")
      BY <1>9, <2>2 DEF LibOpenDev
    <3> QED
      BY <1>5, <1>7, <3>1
  <2> QED
    BY <2>1, <2>2
<1> QED
  BY <1>8, <1>9

LEMMA OwnClose ==
    ASSUME OwnGroups, ListInv, WriteInv, OwnInv, NEW p \in Clients,
           LibRemoved(p) \/ \E remove \in BOOLEAN : LibClose(p, remove)
    PROVE  OwnInv'
<1>1. ClientAt(p) /\ p \in Procs /\ IsHandle(hnd[p]) /\ hnd[p].failed # "lost"
  BY DEF OwnInv, ClientAt, Client, Procs
<1>2. NoHandle.gid = -1 /\ NoHandle.failed # "lost" /\ IsHandle(NoHandle)
  BY DEF NoHandle, IsHandle
<1>3. ASSUME Goto(p, "idle"), hnd' = [hnd EXCEPT ![p] = NoHandle],
             groups' = groups, file' = file, file[p].list = NoList, wr'[p] = NoWrite,
             \A q \in Procs : q # p => wr'[q] = wr[q]
      PROVE  OwnInv'
  <2>1. /\ hnd'[p] = NoHandle /\ hnd' = [q \in Clients |-> hnd'[q]]
        /\ \A q \in Clients : q # p => hnd'[q] = hnd[q]
    BY <1>3 DEF OwnInv
  <2>2. pc'[p] = "idle" /\ \A q \in Procs : q # p => pc'[q] = pc[q]
    BY <1>1, <1>3, OthersKept
  <2>3. Alone(p)
    BY <1>3, <2>1, <2>2 DEF Alone
  <2>4. Client(p, "idle", NoWrite, NoList, NoHandle, groups)
    BY <1>2 DEF Client, Keys
  <2> QED
    BY <1>3, <2>1, <2>2, <2>3, <2>4, OwnFrame
<1>4. CASE LibRemoved(p)
  <2>1. pc[p] = "written" /\ hnd[p].gid >= 0 /\ UNCHANGED <<groups, file>>
    BY <1>4 DEF LibRemoved
  <2>2. /\ file[p].list = NoList
        /\ Opening(p, wr[p], hnd[p], groups) \/ Closing(p, pc[p], wr[p], hnd[p])
    BY <1>1, <2>1 DEF ClientAt, Client
  <2>3. ~Opening(p, wr[p], hnd[p], groups)
    <3>1. hnd[p].gid # -1
      BY <2>1
    <3> QED
      BY <3>1 DEF Opening
  <2>4. ~Failed(wr[p].ran)
    BY <2>1, <2>2, <2>3 DEF Closing
  <2>5. /\ Goto(p, "idle") /\ hnd' = [hnd EXCEPT ![p] = NoHandle]
        /\ wr' = [wr EXCEPT ![p] = NoWrite]
    BY <1>4, <2>4 DEF LibRemoved
  <2>6. wr'[p] = NoWrite /\ \A q \in Procs : q # p => wr'[q] = wr[q]
    BY <1>1, <2>5 DEF WriteInv
  <2> QED
    BY <1>3, <2>1, <2>2, <2>5, <2>6
<1>5. ASSUME NEW remove \in BOOLEAN, LibClose(p, remove)
      PROVE  OwnInv'
  <2>1. pc[p] = "serving" /\ UNCHANGED <<groups, file>>
    BY <1>5 DEF LibClose
  <2>2. file[p].list = NoList /\ wr[p] = NoWrite /\ hnd[p].gid \in Nat
    BY <1>1, <2>1 DEF ClientAt, Client
  <2>3. CASE remove
    <3>1. StartWrite(p, <<[key |-> "del", name |-> NameOf[p]]>>, FALSE) /\ hnd' = hnd
      BY <1>5, <2>3 DEF LibClose
    <3>2. /\ Alone(p) /\ pc'[p] = "del"
          /\ wr'[p].ran = <<>> /\ Writes(p, wr'[p], "del")
      BY <2>1, <3>1, ClientStarts DEF Keys
    <3>3. Closing(p, "del", wr'[p], hnd[p])
      BY <2>2, <3>2 DEF Closing
    <3>4. Client(p, "del", wr'[p], file[p].list, hnd[p], groups)
      BY <1>1, <2>2, <3>3 DEF Client
    <3> QED
      BY <2>1, <3>1, <3>2, <3>4, OwnFrame
  <2>4. CASE ~remove
    <3>1. Goto(p, "idle") /\ hnd' = [hnd EXCEPT ![p] = NoHandle] /\ wr' = wr
      BY <1>5, <2>4 DEF LibClose
    <3> QED
      BY <1>3, <2>1, <2>2, <3>1
  <2> QED
    BY <2>3, <2>4
<1> QED
  BY <1>4, <1>5

LEMMA OwnServe ==
    ASSUME OwnGroups, OwnInv, NEW p \in Clients,
           \/ \E i \in Events : GetAccess(p, i)
           \/ \E gone \in BOOLEAN : ReturnAccess(p, gone)
    PROVE  OwnInv'
<1>1. /\ pc[p] = "serving" /\ ClientAt(p) /\ p \in Procs
      /\ UNCHANGED <<groups, pc, wr, file>>
  BY DEF GetAccess, ReturnAccess, OwnInv, Procs
<1>2. IsHandle(hnd[p]) /\ hnd[p].failed # "lost"
  BY <1>1 DEF ClientAt, Client
<1>3. PICK h : /\ hnd' = [hnd EXCEPT ![p] = h]
               /\ IsHandle(h) /\ h.gid = hnd[p].gid /\ h.failed # "lost"
  <2>1. ASSUME NEW i \in Events, GetAccess(p, i)
        PROVE  \E h : /\ hnd' = [hnd EXCEPT ![p] = h]
                      /\ IsHandle(h) /\ h.gid = hnd[p].gid /\ h.failed # "lost"
    <3>1. PICK n, w : n = Line(event[i]) /\ w = Whole(event[i])
      OBVIOUS
    <3>2. PICK h : h = [hnd[p] EXCEPT !.id = i, !.pos = n, !.whole = w]
      OBVIOUS
    <3>3. hnd' = [hnd EXCEPT ![p].id = i, ![p].pos = n, ![p].whole = w]
      BY <2>1, <3>1, Zenon DEF GetAccess
    <3>4. hnd' = [hnd EXCEPT ![p] = h]
      BY <3>2, <3>3
    <3>5. IsHandle(h) /\ h.gid = hnd[p].gid /\ h.failed = hnd[p].failed
      <4>1. PICK a : a = [hnd[p] EXCEPT !.id = i]
        OBVIOUS
      <4>2. PICK b : b = [a EXCEPT !.pos = n]
        OBVIOUS
      <4>3. h = [b EXCEPT !.whole = w]
        BY <3>2, <4>1, <4>2
      <4>4. IsHandle(a) /\ a.gid = hnd[p].gid /\ a.failed = hnd[p].failed
        BY <1>2, <4>1, HandleKeeps
      <4>5. IsHandle(b) /\ b.gid = a.gid /\ b.failed = a.failed
        BY <4>2, <4>4, HandleKeeps
      <4>6. IsHandle(h) /\ h.gid = b.gid /\ h.failed = b.failed
        BY <4>3, <4>5, HandleKeeps
      <4> QED
        BY <4>4, <4>5, <4>6
    <3> QED
      BY <1>2, <3>4, <3>5
  <2>2. ASSUME NEW gone \in BOOLEAN, ReturnAccess(p, gone)
        PROVE  \E h : /\ hnd' = [hnd EXCEPT ![p] = h]
                      /\ IsHandle(h) /\ h.gid = hnd[p].gid /\ h.failed # "lost"
    <3>1. CASE \E f \in {"gone", "refused"} : hnd' = [hnd EXCEPT ![p].failed = f]
      <4>1. PICK f \in {"gone", "refused"} : hnd' = [hnd EXCEPT ![p].failed = f]
        BY <3>1
      <4>2. PICK h : h = [hnd[p] EXCEPT !.failed = f]
        OBVIOUS
      <4>3. hnd' = [hnd EXCEPT ![p] = h]
        BY <4>1, <4>2
      <4>4. IsHandle(h) /\ h.gid = hnd[p].gid /\ h.failed = f
        BY <1>2, <4>2, HandleGiven
      <4> QED
        BY <4>1, <4>3, <4>4
    <3>2. CASE hnd' = [hnd EXCEPT ![p].id = NoId, ![p].pos = 0]
      <4>1. PICK h : h = [hnd[p] EXCEPT !.id = NoId, !.pos = 0]
        OBVIOUS
      <4>2. hnd' = [hnd EXCEPT ![p] = h]
        BY <3>2, <4>1
      <4>3. IsHandle(h) /\ h.gid = hnd[p].gid /\ h.failed = hnd[p].failed
        <5>1. PICK a : a = [hnd[p] EXCEPT !.id = NoId]
          OBVIOUS
        <5>2. h = [a EXCEPT !.pos = 0]
          BY <4>1, <5>1
        <5>3. IsHandle(a) /\ a.gid = hnd[p].gid /\ a.failed = hnd[p].failed
          BY <1>2, <5>1, HandleKeeps
        <5>4. IsHandle(h) /\ h.gid = a.gid /\ h.failed = a.failed
          BY <5>2, <5>3, HandleKeeps
        <5> QED
          BY <5>3, <5>4
      <4> QED
        BY <1>2, <4>2, <4>3
    <3>3. \/ \E f \in {"gone", "refused"} : hnd' = [hnd EXCEPT ![p].failed = f]
          \/ hnd' = [hnd EXCEPT ![p].id = NoId, ![p].pos = 0]
      BY <2>2 DEF ReturnAccess
    <3> QED
      BY <3>1, <3>2, <3>3
  <2> QED
    BY <2>1, <2>2
<1>4. /\ hnd'[p] = h /\ hnd' = [q \in Clients |-> hnd'[q]]
      /\ \A q \in Clients : q # p => hnd'[q] = hnd[q]
  BY <1>3 DEF OwnInv
<1>5. Alone(p)
  BY <1>1, <1>4 DEF Alone
<1>6. Client(p, pc[p], wr[p], file[p].list, h, groups)
  BY <1>1, <1>3 DEF ClientAt, Client, Keys
<1> QED
  BY <1>1, <1>4, <1>5, <1>6, OwnFrame

LEMMA OwnGetFails ==
    ASSUME OwnGroups, ListInv, OwnInv, NEW p \in Clients, GetGroupsFails(p)
    PROVE  OwnInv'
<1>1. pc[p] = "get_groups" /\ ClientAt(p) /\ p \in Procs /\ UNCHANGED <<groups, wr, file, hnd>>
  BY DEF GetGroupsFails, OwnInv, Procs
<1>2. Goto(p, "close")
  BY DEF GetGroupsFails
<1>3. pc'[p] = "close" /\ \A q \in Procs : q # p => pc'[q] = pc[q]
  BY <1>1, <1>2, OthersKept
<1>4. Alone(p)
  BY <1>1, <1>3 DEF Alone, OwnInv
<1>5. Client(p, "close", wr[p], file[p].list, hnd[p], groups)
  BY <1>1 DEF ClientAt, Client, Keys
<1> QED
  BY <1>1, <1>3, <1>4, <1>5, OwnFrame

\* steps of the other processes; only a write of theirs could be about a group
LEMMA OwnOthers ==
    ASSUME OwnGroups, ListInv, WriteInv, OwnInv, NEW p \in Ctrls,
           CtrlNext(p) \/ GetGroups(p) \/ GetGroupsFails(p)
    PROVE  OwnInv'
<1>1. p \in Procs /\ p \notin Clients
  BY DEF Procs, OwnGroups
<1>2. groups' = groups /\ hnd' = hnd
  BY DEF CtrlNext, CtrlOpen, CtrlWritten, CtrlRead, StartRead, ReadPiece, CtrlRelease,
         CtrlWrite, GetGroups, GetGroupsFails
<1>3. /\ \/ \E l \in {"open", "idle", "read", "get_groups"} : Goto(p, l)
         \/ \E text \in Texts, end \in BOOLEAN : StartWrite(p, text, end)
      /\ \A q \in Procs : q # p => wr'[q] = wr[q] /\ file'[q] = file[q]
  <2>1. CASE \E text \in Texts, end \in BOOLEAN : CtrlWrite(p, text, end)
    BY <2>1 DEF CtrlWrite, StartWrite, WriteInv
  <2>2. CASE CtrlOpen(p) \/ CtrlWritten(p) \/ CtrlRelease(p) \/ ReadPiece(p)
    BY <2>2 DEF CtrlOpen, CtrlWritten, CtrlRelease, ReadPiece, ListInv, WriteInv
  <2>3. CASE CtrlRead(p)
    BY <2>3 DEF CtrlRead, StartRead, ListInv
  <2>4. CASE GetGroups(p) \/ GetGroupsFails(p)
    BY <1>1, <2>4, ListMade DEF GetGroups, GetGroupsFails
  <2> QED
    BY <2>1, <2>2, <2>3, <2>4 DEF CtrlNext
<1>4. ASSUME NEW l, Goto(p, l)
      PROVE  Alone(p) /\ pc'[p] = l
  <2>1. pc'[p] = l /\ \A q \in Procs : q # p => pc'[q] = pc[q]
    BY <1>1, <1>4, OthersKept
  <2> QED
    BY <1>2, <1>3, <2>1 DEF Alone, OwnInv
<1>5. CASE \E l \in {"open", "idle", "read", "get_groups"} : Goto(p, l)
  BY <1>2, <1>4, <1>5, CtrlFrame
<1>6. ASSUME NEW text \in Texts, NEW end \in BOOLEAN, StartWrite(p, text, end)
      PROVE  OwnInv'
  <2>1. PICK c, n : c = Parsed(text, end) /\ n = TextLen(text, end)
    OBVIOUS
  <2>2. wr'[p] = [cmds |-> c, len |-> n, ran |-> <<>>] /\ Goto(p, "del")
    BY <1>1, <1>6, <2>1 DEF StartWrite, WriteInv
  <2>3. \A q \in Clients : wr'[p].cmds["del"] # NameOf[q]
    BY <2>1, <2>2 DEF OwnGroups
  <2> QED
    BY <1>2, <1>4, <2>2, <2>3, CtrlFrame
<1> QED
  BY <1>3, <1>5, <1>6

LEMMA OwnStep ==
    OwnGroups /\ ListInv /\ WriteInv /\ NamesInv /\ SizeInv /\ OwnInv
      /\ [TextNext]_textVars => OwnInv'
<1> SUFFICES ASSUME OwnGroups, ListInv, WriteInv, NamesInv, SizeInv, OwnInv,
                    [TextNext]_textVars
             PROVE  OwnInv'
  OBVIOUS
<1>1. CASE UNCHANGED textVars
  <2>1. UNCHANGED <<groups, pc, wr, file, hnd>>
    BY <1>1 DEF textVars
  <2>2. \A p \in Clients : ClientAt(p)'
    BY <2>1 DEF OwnInv, ClientAt
  <2> QED
    BY <2>1, <2>2 DEF OwnInv
<1>2. ASSUME NEW p \in Clients, ClientNext(p)
      PROVE  OwnInv'
  BY <1>2, OwnOpen, OwnWritten, OwnFind, OwnDevice, OwnClose, OwnServe DEF ClientNext
<1>3. ASSUME NEW p \in Procs, GetGroups(p) \/ GetGroupsFails(p)
      PROVE  OwnInv'
  BY <1>3, OwnGetGroups, OwnGetFails, OwnOthers DEF Procs
<1> QED
  BY <1>1, <1>2, <1>3, OwnOthers, OwnCommand DEF TextNext

(***************************************************************************)
(* A client of the library always finds the group it has added, and is     *)
(* given the device of that group, whatever others write to the control    *)
(* device in the meantime and however its list was made: for any number of *)
(* clients and up to ten groups (GROUP_COUNT), if OwnGroups holds.  The    *)
(* 255 bytes of the library suffice for ten groups with names of up to 22  *)
(* characters, or for 8 with the longest names that can be written.        *)
(***************************************************************************)
THEOREM ClientsServeTheirGroups ==
    ASSUME ListsAreSomething, OwnGroups
    PROVE  TextSpec => []ClientServesItsGroup
<1> DEFINE Inv == ListInv /\ WriteInv /\ NamesInv /\ SizeInv /\ OwnInv
<1>1. TextInit => Inv
  <2> SUFFICES ASSUME TextInit
               PROVE  Inv
    OBVIOUS
  <2>1. ListInv /\ WriteInv /\ NamesInv /\ SizeInv
    BY TextStarts
  <2>2. /\ pc = [p \in Procs |-> "idle"] /\ wr = [p \in Procs |-> NoWrite]
        /\ file = [p \in Procs |-> NoFile] /\ hnd = [p \in Clients |-> NoHandle]
    BY DEF TextInit
  <2>3. NoHandle.gid = -1 /\ NoHandle.failed # "lost" /\ IsHandle(NoHandle)
    BY DEF NoHandle, IsHandle
  <2>4. NoFile.list = NoList
    BY DEF NoFile
  <2>5. \A p \in Clients : ClientAt(p)
    <3>1. \A p : Client(p, "idle", NoWrite, NoList, NoHandle, groups)
      BY <2>3 DEF Client, Keys
    <3> QED
      BY <2>2, <2>4, <3>1 DEF ClientAt, Procs
  <2> QED
    BY <2>1, <2>2, <2>5 DEF OwnInv, Procs
<1>2. Inv /\ [TextNext]_textVars => Inv'
  BY ListStep, WriteStep, NamesStep, SizeStep, OwnStep
<1>3. Inv => ClientServesItsGroup
  <2> SUFFICES ASSUME Inv, NEW p \in Clients
               PROVE  /\ hnd[p].failed # "lost"
                      /\ pc[p] \in {"open_dev", "serving"} =>
                            \E i \in Named(NameOf[p]) : groups[i].id = hnd[p].gid
    BY DEF ClientServesItsGroup
  <2>1. ClientAt(p)
    BY DEF OwnInv
  <2>2. /\ hnd[p].failed # "lost"
        /\ pc[p] \in {"open_dev", "serving"} => \E g \in Own(p, groups) : g.id = hnd[p].gid
    BY <2>1 DEF ClientAt, Client
  <2> QED
    BY <2>2 DEF Own, ToSet, Named
<1> QED
  BY <1>1, <1>2, <1>3, PTL DEF TextSpec
=============================================================================
