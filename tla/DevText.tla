------------------------------ MODULE DevText -------------------------------
(***************************************************************************)
(* The text that goes through the devices: ctrl_dev.c, the list made by    *)
(* dazukofs_get_groups(), the lines of group_dev.c, and libdazukofs, which *)
(* writes and reads them for an application.  Of a text the model keeps    *)
(* the words and their widths, so that it knows where a buffer cuts it.    *)
(*                                                                         *)
(* Adding and deleting a group is one step here; Events has the rest.      *)
(***************************************************************************)
EXTENDS Integers, FiniteSets, SequencesExt

CONSTANTS
    Clients, Ctrls,    \* processes that use the library, or the control device
    Words,             \* a name is [w : word, len : its length]
    NameOf,            \* NameOf[p]: the group of client p
    Texts,             \* texts they write: sequences of [key, name]
    NoName, Empty, NoList, NoId,
    GROUP_COUNT,
    ALLOCSIZE,         \* first size of the list's buffer, 256 in the code
    ReadLen,           \* how much of the list the others read at once
    LibReadLen,        \* how much the library reads, 255 in the code
    FdDigits, PidDigits, IdDigits,
    MaxEvents          \* bound: events, each with its own id

Procs == Clients \cup Ctrls

ASSUME TextAssumption ==
    /\ GROUP_COUNT \in 1 .. 10 /\ ALLOCSIZE \in Nat \ {0}
    /\ ReadLen \in Nat \ {0} /\ LibReadLen \in Nat /\ MaxEvents \in Nat
    /\ NameOf \in [Clients -> [w : Words, len : 0 .. 20]]     \* check_group_name()

Keys      == {"del", "add", "addtrack"}
Order     == <<"del", "add", "addtrack">>
KeyLen(k) == IF k = "addtrack" THEN 9 ELSE 4

\* names in texts may be longer
ASSUME TextsAssumption ==
    Texts \subseteq Seq([key : Keys, name : [w : Words, len : Nat]])

WriteBuffer  == 32    \* DAZUKOFS_MAX_WRITE_BUFFER of ctrl_dev.c
AnswerBuffer == 19    \* the one of group_dev.c
ReadBuffer   == 43    \* DAZUKOFS_MIN_READ_BUFFER

Least(S) == CHOOSE n \in S : \A m \in S : n <= m

\* how many characters parts of these lengths have together
Chars(len) == Cardinality(UNION {{i} \X (1 .. len[i]) : i \in DOMAIN len})

VARIABLES
    groups,    \* the active groups in the order of group_list: id and name
    pc,
    wr,        \* wr[p]: the commands p is writing and those carried out
    file,      \* file[p]: private_data and position of the control device p has open
    hnd,       \* hnd[p]: handle of the client p
    event,     \* event[i]: digits of its id, fd and pid; what the client means
    answered   \* answered[i]: the response dazukofs_return_event() gets

textVars == <<groups, pc, wr, file, hnd, event, answered>>

NoWrite  == [cmds |-> [k \in Keys |-> NoName], len |-> 0, ran |-> <<>>]
NoFile   == [alloc |-> 0, list |-> NoList, pos |-> 0, got |-> {}]
NoHandle == [gid |-> -1, pos |-> 0, id |-> NoId, whole |-> TRUE, failed |-> "no"]
Events   == 1 .. MaxEvents

TextInit ==
    /\ groups = <<>>
    /\ pc = [p \in Procs |-> "idle"]
    /\ wr = [p \in Procs |-> NoWrite]
    /\ file = [p \in Procs |-> NoFile]
    /\ hnd = [p \in Clients |-> NoHandle]
    /\ event \in [Events -> [id : IdDigits, fd : FdDigits, pid : PidDigits, deny : BOOLEAN]]
    /\ answered = [i \in Events |-> NoId]

Goto(p, l) == pc' = [pc EXCEPT ![p] = l]
-----------------------------------------------------------------------------
(***************************************************************************)
(* dazukofs_ctrl_write().                                                  *)
(*                                                                         *)
(* A text is a sequence of commands [key, name] with a character between   *)
(* them that is not allowed in a name; such a character ends the text too  *)
(* when end is TRUE.                                                       *)
(***************************************************************************)

\* where command i starts
StartOf(text, i) ==
    Chars([j \in 1 .. i - 1 |-> KeyLen(text[j].key) + text[j].name.len + 1])

TextLen(text, end) == StartOf(text, Len(text) + 1) - (IF end THEN 0 ELSE 1)

\* cp_len
Copied(n) == IF n >= WriteBuffer THEN WriteBuffer - 1 ELSE n

\* the first n characters of a name
Cut(name, n) == IF n = 0 \/ name.len = 0 THEN [w |-> "", len |-> 0]
                ELSE [name EXCEPT !.len = IF @ > n THEN n ELSE @]

(***************************************************************************)
(* What process_command() finds for each key in the copy: the first        *)
(* command with it, whose name may be cut.  An empty name is refused when  *)
(* a character follows; strchr() takes the '\0' for an allowed one.        *)
(***************************************************************************)
Parsed(text, end) ==
    LET room(i) == Copied(TextLen(text, end)) - StartOf(text, i) - KeyLen(text[i].key)
        seen(k) == {i \in DOMAIN text : text[i].key = k /\ room(i) >= 0}
        found(i) == IF text[i].name.len = 0 /\ room(i) > 0 THEN Empty
                    ELSE Cut(text[i].name, room(i))
    IN [k \in Keys |-> IF seen(k) = {} THEN NoName ELSE found(Least(seen(k)))]

\* dazukofs_add_group() and dazukofs_remove_group() by name: the new list
Named(n)  == {i \in DOMAIN groups : groups[i].name = n}
FreeId    == Least({i \in 0 .. GROUP_COUNT : \A j \in DOMAIN groups : groups[j].id # i})
Full      == Len(groups) = GROUP_COUNT
Added(n)  == IF Named(n) # {} \/ Full THEN groups
             ELSE Append(groups, [id |-> FreeId, name |-> n])
Deleted(n) == IF Named(n) = {} THEN groups ELSE RemoveAt(groups, Least(Named(n)))

\* the copy is taken, and the first command looked for
StartWrite(p, text, end) ==
    /\ wr' = [wr EXCEPT ![p] = [cmds |-> Parsed(text, end), len |-> TextLen(text, end),
                                ran |-> <<>>]]
    /\ Goto(p, "del")

Place(k) == CHOOSE i \in 1 .. 3 : Order[i] = k
After(k) == Order[Place(k) + 1]

\* Mutant of GoesOn: an error does not stop the write.
GoesOn_Always(ran) == TRUE

\* !match || (match && ret >= 0)
GoesOn(ran) == ran = <<>> \/ Last(ran).ok

\* the write returns an error: no command, or one that failed
Failed(ran) == ran = <<>> \/ ~Last(ran).ok

\* one process_command(), which may find no memory for a group
Command(p, memory) ==
    LET k   == pc[p]
        n   == wr[p].cmds[k]
        run == n # NoName /\ GoesOn(wr[p].ran)
        ok  == n # Empty /\ (k = "del" \/ Named(n) # {} \/ (memory /\ ~Full))
    IN
    /\ k \in Keys
    /\ groups' = IF ~run \/ ~ok THEN groups
                 ELSE IF k = "del" THEN Deleted(n) ELSE Added(n)
    /\ wr' = IF run THEN [wr EXCEPT ![p].ran = Append(@, [key |-> k, ok |-> ok])] ELSE wr
    /\ Goto(p, IF k = "addtrack" THEN "written" ELSE After(k))
    /\ UNCHANGED <<file, hnd, event, answered>>
-----------------------------------------------------------------------------
(***************************************************************************)
(* The list: dazukofs_get_groups() and dazukofs_ctrl_read().               *)
(***************************************************************************)

\* "%lu:%s\n" for every group
Width(list) == Chars([i \in DOMAIN list |-> list[i].name.len + 3])

\* Mutant of Fits: there is no room for the '\0'.
Fits_Exactly(n, size) == n <= size

\* buflen < allocsize
Fits(n, size) == n < size

\* one try, with work_mutex held; snprintf() leaves the last two bytes alone
GetGroups(p) ==
    LET size == file[p].alloc IN
    /\ pc[p] = "get_groups"
    /\ file' = [file EXCEPT ![p] =
                  IF Fits(1 + Width(groups), size)
                  THEN [@ EXCEPT !.list = [text |-> groups, room |-> size - 2]]
                  ELSE [@ EXCEPT !.alloc = 2 * size]]
    /\ Goto(p, IF Fits(1 + Width(groups), size) THEN "read" ELSE "get_groups")
    /\ UNCHANGED <<groups, wr, hnd, event, answered>>

\* kzalloc() fails, and the read
GetGroupsFails(p) ==
    /\ pc[p] = "get_groups"
    /\ Goto(p, IF p \in Clients THEN "close" ELSE "open")
    /\ UNCHANGED <<groups, wr, file, hnd, event, answered>>

\* Mutant of ListOf: the list is made anew for every read.
ListOf_Now(f) == NoList

\* private_data
ListOf(f) == f.list

\* the read starts
StartRead(p) ==
    LET known == ListOf(file[p]) # NoList IN
    /\ file' = IF known THEN file ELSE [file EXCEPT ![p].alloc = ALLOCSIZE]
    /\ Goto(p, IF known THEN "read" ELSE "get_groups")
    /\ UNCHANGED <<groups, wr, hnd, event, answered>>

\* and goes on with the list
ReadPiece(p) ==
    LET f == file[p]
        w == Width(f.list.text)
    IN
    /\ p \in Ctrls /\ pc[p] = "read"
    /\ file' = IF f.pos >= w THEN file
               ELSE [file EXCEPT ![p].pos = IF @ + ReadLen > w THEN w ELSE @ + ReadLen,
                                 ![p].got = @ \cup {f.list.text}]
    /\ Goto(p, "open")
    /\ UNCHANGED <<groups, wr, hnd, event, answered>>

\* open(2), write(2), read(2) and close(2) of the control device by the others
CtrlOpen(p) ==
    /\ pc[p] = "idle" /\ Goto(p, "open")
    /\ UNCHANGED <<groups, wr, file, hnd, event, answered>>

\* bound: one write before the reads
CtrlWrite(p, text, end) ==
    /\ pc[p] = "open" /\ file[p].pos = 0
    /\ StartWrite(p, text, end)
    /\ UNCHANGED <<groups, file, hnd, event, answered>>

\* the position, which the next read starts from, moves by the whole length
CtrlWritten(p) ==
    /\ pc[p] = "written"
    /\ file' = IF Failed(wr[p].ran) THEN file ELSE [file EXCEPT ![p].pos = @ + wr[p].len]
    /\ wr' = [wr EXCEPT ![p] = NoWrite]
    /\ Goto(p, "open")
    /\ UNCHANGED <<groups, hnd, event, answered>>

CtrlRead(p) == pc[p] = "open" /\ StartRead(p)

CtrlRelease(p) ==
    /\ pc[p] = "open"
    /\ file' = [file EXCEPT ![p] = NoFile]
    /\ Goto(p, "idle")
    /\ UNCHANGED <<groups, wr, hnd, event, answered>>
-----------------------------------------------------------------------------
(***************************************************************************)
(* dazukofs_open() and dazukofs_close() of the library.                    *)
(***************************************************************************)

\* "add=%s" or "addtrack=%s" without a newline; only the list is read when the
\* control device cannot be opened for writing
LibOpen(p, key, writable) ==
    /\ pc[p] = "idle"
    /\ IF writable
       THEN /\ StartWrite(p, <<[key |-> key, name |-> NameOf[p]]>>, FALSE)
            /\ UNCHANGED <<groups, file, hnd, event, answered>>
       ELSE StartRead(p)

\* the write has returned; lseek() makes the read start at the list's beginning
LibWritten(p) ==
    /\ pc[p] = "written" /\ hnd[p].gid < 0
    /\ IF Failed(wr[p].ran)
       THEN Goto(p, "close") /\ UNCHANGED <<groups, wr, file, hnd, event, answered>>
       ELSE StartRead(p)

\* Mutant of Matches: a name that ends like it is taken as well.
Matches_Suffix(g, name) == g.w = name.w /\ g.len >= name.len

\* strstr() of ":%s\n"
Matches(g, name) == g = name

\* what the library sees of a list
Seen(list) == {i \in DOMAIN list.text : Width(SubSeq(list.text, 1, i)) <= LibReadLen}

\* the digit before it
LibFind(p) ==
    LET list == file[p].list
        hits == {i \in Seen(list) : Matches(list.text[i].name, NameOf[p])}
    IN
    /\ p \in Clients /\ pc[p] = "read"
    /\ hnd' = IF hits # {} THEN [hnd EXCEPT ![p].gid = list.text[Least(hits)].id]
              ELSE IF wr[p] = NoWrite THEN hnd
              ELSE [hnd EXCEPT ![p].failed = "lost"]
    /\ Goto(p, IF hits # {} THEN "open_dev" ELSE "close")
    /\ UNCHANGED <<groups, wr, file, event, answered>>

\* the group device is opened, or not, and the control device closed
LibOpenDev(p, ok) ==
    /\ pc[p] = "open_dev"
    /\ hnd' = IF ok THEN hnd ELSE [hnd EXCEPT ![p] = NoHandle]
    /\ file' = [file EXCEPT ![p] = NoFile]
    /\ wr' = [wr EXCEPT ![p] = NoWrite]
    /\ Goto(p, IF ok THEN "serving" ELSE "idle")
    /\ UNCHANGED <<groups, event, answered>>

\* error_out_close
LibFails(p) ==
    /\ pc[p] = "close"
    /\ file' = [file EXCEPT ![p] = NoFile]
    /\ wr' = [wr EXCEPT ![p] = NoWrite]
    /\ Goto(p, "idle")
    /\ UNCHANGED <<groups, hnd, event, answered>>

\* dazukofs_close(); with DAZUKOFS_REMOVE_GROUP, "del=%s" is written first
LibClose(p, remove) ==
    /\ pc[p] = "serving"
    /\ IF remove
       THEN StartWrite(p, <<[key |-> "del", name |-> NameOf[p]]>>, FALSE) /\ UNCHANGED hnd
       ELSE hnd' = [hnd EXCEPT ![p] = NoHandle] /\ Goto(p, "idle") /\ UNCHANGED wr
    /\ UNCHANGED <<groups, file, event, answered>>

LibRemoved(p) ==
    /\ pc[p] = "written" /\ hnd[p].gid >= 0
    /\ hnd' = IF Failed(wr[p].ran) THEN hnd ELSE [hnd EXCEPT ![p] = NoHandle]
    /\ wr' = [wr EXCEPT ![p] = NoWrite]
    /\ Goto(p, IF Failed(wr[p].ran) THEN "serving" ELSE "idle")
    /\ UNCHANGED <<groups, file, event, answered>>
-----------------------------------------------------------------------------
(***************************************************************************)
(* Accesses: dazukofs_group_read() with dazukofs_get_access(), and         *)
(* dazukofs_group_write() with dazukofs_return_access().                   *)
(***************************************************************************)

\* "id=%lu\nfd=%d\npid=%d\n"
Line(e) == 13 + e.id + e.fd + e.pid

\* Mutant of TooLong: a line that is as long as the buffer is handed out.
TooLong_More(e) == Line(e) > ReadBuffer

\* tmp_used >= sizeof(tmp): the event is posted again
TooLong(e) == Line(e) >= ReadBuffer

\* snprintf() has written all but the newline, at least
Whole(e) == Line(e) - 1 <= ReadBuffer - 2

\* an event is read; at another position than 0 the read would return nothing
GetAccess(p, i) ==
    /\ pc[p] = "serving"
    /\ hnd[p].pos = 0
    /\ answered[i] = NoId /\ \A q \in Clients : hnd[q].id # i
    /\ ~TooLong(event[i])
    /\ hnd' = [hnd EXCEPT ![p].id = i, ![p].pos = Line(event[i]), ![p].whole = Whole(event[i])]
    /\ UNCHANGED <<groups, pc, wr, file, event, answered>>

\* how much dazukofs_group_write() copies of an answer
AnswerRoom == AnswerBuffer - 1

(***************************************************************************)
(* What it makes of "id=%lu r=%d": a digit that is cut off reads as the    *)
(* '\0', which is not '0'.  Without "r=" there is no answer.               *)
(***************************************************************************)
Response(e) == IF e.id + 7 <= AnswerRoom THEN e.deny ELSE TRUE
Refused(e)  == e.id + 6 > AnswerRoom

(***************************************************************************)
(* dazukofs_return_access().  When the write fails, because the group or   *)
(* the event is gone or the answer is refused, the descriptor is closed    *)
(* and the position not reset: no second try gets as far as the write, and *)
(* no read returns.                                                        *)
(***************************************************************************)
ReturnAccess(p, gone) ==
    LET i == hnd[p].id IN
    /\ pc[p] = "serving"
    /\ i # NoId /\ hnd[p].failed = "no"
    /\ IF gone \/ Refused(event[i])
       THEN /\ hnd' = [hnd EXCEPT ![p].failed = IF gone THEN "gone" ELSE "refused"]
            /\ UNCHANGED answered
       ELSE /\ hnd' = [hnd EXCEPT ![p].id = NoId, ![p].pos = 0]
            /\ answered' = [answered EXCEPT ![i] = Response(event[i])]
    /\ UNCHANGED <<groups, pc, wr, file, event>>
-----------------------------------------------------------------------------
CtrlNext(p) ==
    \/ CtrlOpen(p) \/ CtrlWritten(p) \/ CtrlRead(p) \/ ReadPiece(p) \/ CtrlRelease(p)
    \/ \E text \in Texts, end \in BOOLEAN : CtrlWrite(p, text, end)

ClientNext(p) ==
    \/ \E key \in {"add", "addtrack"} : LibOpen(p, key, TRUE)
    \/ LibOpen(p, "add", FALSE)
    \/ LibWritten(p) \/ LibFind(p) \/ LibFails(p) \/ LibRemoved(p)
    \/ \E b \in BOOLEAN : LibOpenDev(p, b) \/ LibClose(p, b) \/ ReturnAccess(p, b)
    \/ \E i \in Events : GetAccess(p, i)

TextNext ==
    \/ \E p \in Ctrls : CtrlNext(p)
    \/ \E p \in Clients : ClientNext(p)
    \/ \E p \in Procs : \/ \E memory \in BOOLEAN : Command(p, memory)
                        \/ GetGroups(p) \/ GetGroupsFails(p)

TextSpec == TextInit /\ [][TextNext]_textVars
-----------------------------------------------------------------------------
(***************************************************************************)
(* One write may hold several commands.  It carries out those it has up to *)
(* the first that fails, and returns an error only if one has failed:      *)
(* nothing is done behind a failure and nothing is left out otherwise.     *)
(***************************************************************************)
WritesInOrder ==
    \A p \in Procs : pc[p] = "written" =>
        LET ran  == wr[p].ran
            done == {ran[i].key : i \in DOMAIN ran}
            want == {k \in Keys : wr[p].cmds[k] # NoName}
        IN
        /\ done \subseteq want
        /\ \A i \in 1 .. Len(ran) - 1 : ran[i].ok /\ Place(ran[i].key) < Place(ran[i + 1].key)
        /\ \A j \in done, k \in want \ done : Place(j) < Place(k)
        /\ ran = <<>> \/ Last(ran).ok => done = want

(***************************************************************************)
(* A process that reads the list of groups in pieces reads one list, while *)
(* others add and delete groups.                                           *)
(***************************************************************************)
OneList == \A p \in Ctrls : \A l, m \in file[p].got : l = m

(***************************************************************************)
(* The list fits the buffer that dazukofs_get_groups() has found large     *)
(* enough, although groups come between two tries: no line is cut.         *)
(***************************************************************************)
ListFits == \A p \in Procs :
                file[p].list # NoList => Width(file[p].list.text) <= file[p].list.room

(***************************************************************************)
(* A client whose group nobody else deletes gets the device of this group, *)
(* and always finds it in the list after adding it.                        *)
(***************************************************************************)
ClientServesItsGroup ==
    \A p \in Clients :
        /\ hnd[p].failed # "lost"
        /\ pc[p] \in {"open_dev", "serving"} =>
              \E i \in Named(NameOf[p]) : groups[i].id = hnd[p].gid

(***************************************************************************)
(* A client that has been handed an access knows all of it, and its answer *)
(* is taken, for the event it was given and in the sense it was meant,     *)
(* for all widths of the numbers in IdDigits, FdDigits and PidDigits; then *)
(* it can read the next.                                                   *)
(***************************************************************************)
AnswersArrive ==
    /\ \A p \in Clients : /\ hnd[p].whole /\ hnd[p].failed # "refused"
                          /\ pc[p] = "serving" /\ hnd[p].id = NoId => hnd[p].pos = 0
    /\ \A i \in Events : answered[i] # NoId => answered[i] = event[i].deny
=============================================================================
