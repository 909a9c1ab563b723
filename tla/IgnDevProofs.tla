---------------------------- MODULE IgnDevProofs ----------------------------
(***************************************************************************)
(* Theorems about the ignore device, for processes that open it once.      *)
(***************************************************************************)
EXTENDS IgnDev, TLAPS

(* list_del(): the entries before the i-th stay, the others move up. *)
LEMMA RemoveAtFacts ==
    ASSUME NEW S, NEW s \in Seq(S), NEW i \in 1 .. Len(s)
    PROVE  /\ RemoveAt(s, i) \in Seq(S)
           /\ Len(RemoveAt(s, i)) = Len(s) - 1
           /\ \A j \in 1 .. Len(s) - 1 :
                RemoveAt(s, i)[j] = IF j < i THEN s[j] ELSE s[j + 1]
<1> DEFINE a == SubSeq(s, 1, i - 1)
           b == SubSeq(s, i + 1, Len(s))
<1>1. a \in Seq(S) /\ Len(a) = i - 1 /\ \A j \in 1 .. i - 1 : a[j] = s[j]
  OBVIOUS
<1>2. /\ b \in Seq(S) /\ Len(b) = Len(s) - i
      /\ \A j \in 1 .. Len(s) - i : b[j] = s[j + i]
  OBVIOUS
<1>3. RemoveAt(s, i) = a \o b
  BY DEF RemoveAt
<1> HIDE DEF a, b
<1>a. a \o b \in Seq(S)
  BY <1>1, <1>2
<1>b. Len(a \o b) = Len(a) + Len(b)
  <2>1. a \in Seq(S) /\ b \in Seq(S)
    BY <1>1, <1>2
  <2> QED BY <2>1
<1>c. \A j \in 1 .. Len(a) + Len(b) :
        (a \o b)[j] = IF j <= Len(a) THEN a[j] ELSE b[j - Len(a)]
  BY <1>1, <1>2
<1>d. Len(a) + Len(b) = Len(s) - 1
  BY <1>1, <1>2
<1>4. /\ a \o b \in Seq(S) /\ Len(a \o b) = Len(s) - 1
      /\ \A j \in 1 .. Len(s) - 1 :
            (a \o b)[j] = IF j < i THEN a[j] ELSE b[j - (i - 1)]
  <2>1. ASSUME NEW j \in 1 .. Len(s) - 1
        PROVE  (a \o b)[j] = IF j < i THEN a[j] ELSE b[j - (i - 1)]
    <3>1. j \in 1 .. Len(a) + Len(b)
      BY <1>d
    <3>2. (a \o b)[j] = IF j <= Len(a) THEN a[j] ELSE b[j - Len(a)]
      BY <1>c, <3>1
    <3>3. Len(a) = i - 1 /\ (j <= i - 1 <=> j < i)
      BY <1>1
    <3> QED BY <3>2, <3>3
  <2> QED BY <1>a, <1>b, <1>d, <2>1
<1>5. ASSUME NEW j \in 1 .. Len(s) - 1
      PROVE  (a \o b)[j] = IF j < i THEN s[j] ELSE s[j + 1]
  <2>1. CASE j < i
    BY <1>1, <1>4, <2>1
  <2>2. CASE ~(j < i)
    <3>1. j - (i - 1) \in 1 .. Len(s) - i
      BY <2>2
    <3>2. b[j - (i - 1)] = s[(j - (i - 1)) + i]
      BY <1>2, <3>1
    <3> QED BY <1>4, <2>2, <3>2
  <2> QED BY <2>1, <2>2
<1> QED BY <1>3, <1>4, <1>5

\* no process has the device open twice
OneFileEach ==
    \A f, h \in Files : opener[f] # NoProc /\ opener[f] = opener[h] => f = h

(***************************************************************************)
(* The inductive invariant: an entry is looked up by its process, so it is *)
(* the right one only because the process has one file.                    *)
(***************************************************************************)
IgnInv == IgnTypeOK /\ EntriesOwned /\ OneFileEach

(* The entries are exactly those of the files that are open. *)
LEMMA HiddenFromEntries ==
    ASSUME IgnInv PROVE HiddenIffOpen
<1> USE IgnAssumption DEF IgnInv, IgnTypeOK, EntriesOwned
<1> SUFFICES ASSUME NEW p \in Procs
             PROVE  Hidden(p) <=> \E f \in Files : opener[f] = p
  BY DEF HiddenIffOpen
<1>1. ASSUME Hidden(p) PROVE \E f \in Files : opener[f] = p
  <2>1. PICK i \in DOMAIN ign_list : proc_id[ign_list[i]] = p
    BY <1>1 DEF Hidden, Range
  <2>2. PICK f \in Files : opener[f] # NoProc /\ ign_list[i] = private_data[f]
    OBVIOUS
  <2> QED BY <2>1, <2>2
<1>2. ASSUME NEW f \in Files, opener[f] = p PROVE Hidden(p)
  <2>1. PICK i \in DOMAIN ign_list : ign_list[i] = private_data[f]
    BY <1>2
  <2>2. proc_id[ign_list[i]] = p
    BY <1>2, <2>1
  <2> QED BY <2>2 DEF Hidden, Range
<1> QED BY <1>1, <1>2

(* dazukofs_ign_open() preserves the invariant. *)
LEMMA OpenInv ==
    ASSUME IgnInv, OpenTwice = FALSE,
           NEW p \in Procs, NEW f \in Files, NEW s \in Slots, IgnOpen(p, f, s)
    PROVE  IgnInv'
<1> USE IgnAssumption DEF IgnInv, IgnTypeOK
<1>1. /\ opener[f] = NoProc /\ proc_id[s] = NoProc
      /\ \A h \in Files : opener[h] # p
      /\ opener' = [opener EXCEPT ![f] = p]
      /\ private_data' = [private_data EXCEPT ![f] = s]
      /\ proc_id' = [proc_id EXCEPT ![s] = p]
      /\ ign_list' = <<s>> \o ign_list
  BY DEF IgnOpen
<1>2. IgnTypeOK'
  BY <1>1
<1>3. OneFileEach'
  BY <1>1 DEF OneFileEach
<1>4. /\ Len(ign_list') = Len(ign_list) + 1
      /\ ign_list'[1] = s
      /\ \A i \in 1 .. Len(ign_list) : ign_list'[i + 1] = ign_list[i]
      /\ \A i \in 2 .. Len(ign_list) + 1 : ign_list'[i] = ign_list[i - 1]
  BY <1>1
<1>5. \A i \in 1 .. Len(ign_list) : ign_list[i] # s
  BY <1>1 DEF EntriesOwned
<1>6. \A h \in Files : opener[h] # NoProc => h # f /\ private_data[h] # s
  BY <1>1 DEF EntriesOwned
<1>7. EntriesOwned'
  <2>1. ASSUME NEW h \in Files, opener'[h] # NoProc
        PROVE  /\ private_data'[h] \in Slots
               /\ proc_id'[private_data'[h]] = opener'[h]
               /\ \A k \in Files : opener'[k] # NoProc /\ k # h =>
                     private_data'[k] # private_data'[h]
               /\ \E i \in DOMAIN ign_list' : ign_list'[i] = private_data'[h]
    <3>1. CASE h = f
      <4>1. 1 \in DOMAIN ign_list'
        BY <1>2, <1>4
      <4> QED BY <1>1, <1>4, <1>6, <3>1, <4>1
    <3>2. CASE h # f
      <4>1. opener[h] # NoProc /\ opener'[h] = opener[h]
        BY <1>1, <2>1, <3>2
      <4>2. PICK i \in DOMAIN ign_list : ign_list[i] = private_data[h]
        BY <4>1 DEF EntriesOwned
      <4>3. i + 1 \in DOMAIN ign_list' /\ ign_list'[i + 1] = private_data[h]
        BY <1>2, <1>4, <4>2
      <4>4. private_data'[h] = private_data[h] /\ private_data[h] # s
        BY <1>1, <1>6, <3>2, <4>1
      <4>5. /\ private_data[h] \in Slots
            /\ proc_id[private_data[h]] = opener[h]
            /\ \A k \in Files : opener[k] # NoProc /\ k # h =>
                  private_data[k] # private_data[h]
        BY <4>1 DEF EntriesOwned
      <4> QED BY <1>1, <4>1, <4>3, <4>4, <4>5
    <3> QED BY <3>1, <3>2
  <2>2. ASSUME NEW i \in DOMAIN ign_list', NEW j \in DOMAIN ign_list',
               ign_list'[i] = ign_list'[j]
        PROVE  i = j
    <3>1. i \in 1 .. Len(ign_list) + 1 /\ j \in 1 .. Len(ign_list) + 1
      BY <1>2, <1>4
    <3>2. \A k, l \in 1 .. Len(ign_list) : ign_list[k] = ign_list[l] => k = l
      BY DEF EntriesOwned
    <3>3. CASE i = 1 /\ j = 1
      BY <3>3
    <3>4. CASE i = 1 /\ j # 1
      <4>1. j - 1 \in 1 .. Len(ign_list) /\ ign_list'[j] = ign_list[j - 1]
        BY <1>4, <3>1, <3>4
      <4> QED BY <1>4, <1>5, <2>2, <3>4, <4>1
    <3>5. CASE i # 1 /\ j = 1
      <4>1. i - 1 \in 1 .. Len(ign_list) /\ ign_list'[i] = ign_list[i - 1]
        BY <1>4, <3>1, <3>5
      <4> QED BY <1>4, <1>5, <2>2, <3>5, <4>1
    <3>6. CASE i # 1 /\ j # 1
      <4>1. i - 1 \in 1 .. Len(ign_list) /\ ign_list'[i] = ign_list[i - 1]
        BY <1>4, <3>1, <3>6
      <4>2. j - 1 \in 1 .. Len(ign_list) /\ ign_list'[j] = ign_list[j - 1]
        BY <1>4, <3>1, <3>6
      <4>3. i - 1 = j - 1
        BY <2>2, <3>2, <4>1, <4>2
      <4> QED BY <3>1, <4>3
    <3> QED BY <3>3, <3>4, <3>5, <3>6
  <2>3. ASSUME NEW i \in DOMAIN ign_list'
        PROVE  \E h \in Files : opener'[h] # NoProc /\ ign_list'[i] = private_data'[h]
    <3>1. i \in 1 .. Len(ign_list) + 1
      BY <1>2, <1>4
    <3>2. CASE i = 1
      BY <1>1, <1>4, <3>2
    <3>3. CASE i # 1
      <4>1. i - 1 \in DOMAIN ign_list /\ ign_list'[i] = ign_list[i - 1]
        BY <1>4, <3>1, <3>3
      <4>2. PICK h \in Files : opener[h] # NoProc /\ ign_list[i - 1] = private_data[h]
        BY <4>1 DEF EntriesOwned
      <4>3. h # f
        BY <1>6, <4>2
      <4> QED BY <1>1, <4>1, <4>2, <4>3
    <3> QED BY <3>2, <3>3
  <2> QED BY <2>1, <2>2, <2>3 DEF EntriesOwned
<1> QED BY <1>2, <1>3, <1>7

(* dazukofs_ign_release() preserves the invariant: the entry found by the
   process is the entry of the file. *)
LEMMA ReleaseInv ==
    ASSUME IgnInv, NEW f \in Files, IgnRelease(f)
    PROVE  IgnInv'
<1> USE IgnAssumption DEF IgnInv, IgnTypeOK
<1>1. opener[f] # NoProc /\ opener' = [opener EXCEPT ![f] = NoProc]
  BY DEF IgnRelease
<1> DEFINE s == private_data[f]
<1>2. /\ s \in Slots /\ proc_id[s] = opener[f]
      /\ \A h \in Files : opener[h] # NoProc /\ h # f => private_data[h] # s
  BY <1>1 DEF EntriesOwned
<1>3. PICK i \in DOMAIN ign_list : ign_list[i] = s
  BY <1>1 DEF EntriesOwned
<1>4. PICK q \in ReadsPid(s) : Unlink(f, q)
  BY DEF IgnRelease
<1>5. q = opener[f]
  BY <1>1, <1>2, <1>4 DEF ReadsPid
<1>6. Matches(q) = {i}
  <2>1. ASSUME NEW j \in DOMAIN ign_list, proc_id[ign_list[j]] = q PROVE j = i
    <3>1. PICK h \in Files : opener[h] # NoProc /\ ign_list[j] = private_data[h]
      BY DEF EntriesOwned
    <3>2. proc_id[private_data[h]] = opener[h]
      BY <3>1 DEF EntriesOwned
    <3>3. h = f
      BY <1>1, <1>5, <2>1, <3>1, <3>2 DEF OneFileEach
    <3> QED BY <1>3, <3>1, <3>3 DEF EntriesOwned
  <2>2. proc_id[ign_list[i]] = q
    BY <1>2, <1>3, <1>5
  <2> QED BY <2>1, <2>2 DEF Matches
<1> HIDE DEF s
<1>7. /\ ign_list' = RemoveAt(ign_list, i)
      /\ proc_id' = [proc_id EXCEPT ![s] = NoProc]
      /\ private_data' = [private_data EXCEPT ![f] = NoSlot]
  <2>1. i = CHOOSE j \in Matches(q) : \A k \in Matches(q) : j <= k
    <3>1. i \in Int
      BY <1>3
    <3> QED BY <1>6, <3>1
  <2> QED BY <1>3, <1>4, <1>6, <2>1 DEF Unlink
<1>8. /\ ign_list' \in Seq(Slots) /\ Len(ign_list') = Len(ign_list) - 1
      /\ \A j \in 1 .. Len(ign_list) - 1 :
            ign_list'[j] = IF j < i THEN ign_list[j] ELSE ign_list[j + 1]
  <2>1. i \in 1 .. Len(ign_list)
    BY <1>3
  <2> QED BY <1>7, <2>1, RemoveAtFacts
<1>9. IgnTypeOK'
  BY <1>1, <1>7, <1>8
<1>10. OneFileEach'
  BY <1>1 DEF OneFileEach
<1>11. EntriesOwned'
  <2>a. \A h \in Files : opener'[h] # NoProc =>
          /\ h # f /\ opener'[h] = opener[h] /\ private_data'[h] = private_data[h]
          /\ private_data[h] # s
    BY <1>1, <1>2, <1>7
  <2>1. ASSUME NEW h \in Files, opener'[h] # NoProc
        PROVE  /\ private_data'[h] \in Slots
               /\ proc_id'[private_data'[h]] = opener'[h]
               /\ \A k \in Files : opener'[k] # NoProc /\ k # h =>
                     private_data'[k] # private_data'[h]
               /\ \E j \in DOMAIN ign_list' : ign_list'[j] = private_data'[h]
    <3>1. /\ private_data[h] \in Slots
          /\ proc_id[private_data[h]] = opener[h]
          /\ \A k \in Files : opener[k] # NoProc /\ k # h =>
                private_data[k] # private_data[h]
      BY <2>1, <2>a DEF EntriesOwned
    <3>2. PICK j \in DOMAIN ign_list : ign_list[j] = private_data[h]
      BY <2>1, <2>a DEF EntriesOwned
    <3>3. j # i
      BY <1>3, <2>1, <2>a, <3>2
    <3>4. \E k \in DOMAIN ign_list' : ign_list'[k] = private_data[h]
      <4>1. CASE j < i
        <5>1. j \in 1 .. Len(ign_list) - 1 /\ j \in DOMAIN ign_list'
          BY <1>3, <1>8, <3>2, <4>1
        <5> QED BY <1>8, <3>2, <4>1, <5>1
      <4>2. CASE j > i
        <5>1. j - 1 \in 1 .. Len(ign_list) - 1 /\ j - 1 \in DOMAIN ign_list'
          BY <1>3, <1>8, <3>2, <4>2
        <5>2. ~(j - 1 < i) /\ (j - 1) + 1 = j
          BY <1>3, <3>2, <4>2
        <5>3. ign_list'[j - 1] = ign_list[(j - 1) + 1]
          BY <1>8, <5>1, <5>2
        <5> QED BY <3>2, <5>1, <5>2, <5>3
      <4> QED BY <1>3, <3>2, <3>3, <4>1, <4>2
    <3> QED BY <1>7, <2>1, <2>a, <3>1, <3>4
  <2>b. /\ \A k, l \in 1 .. Len(ign_list) : ign_list[k] = ign_list[l] => k = l
        /\ i \in 1 .. Len(ign_list)
        /\ DOMAIN ign_list' = 1 .. Len(ign_list) - 1
    <3>1. \A k, l \in DOMAIN ign_list : ign_list[k] = ign_list[l] => k = l
      BY DEF EntriesOwned
    <3>2. DOMAIN ign_list = 1 .. Len(ign_list)
      OBVIOUS
    <3>3. DOMAIN ign_list' = 1 .. Len(ign_list')
      BY <1>8
    <3>4. Len(ign_list') = Len(ign_list) - 1
      BY <1>8
    <3>5. DOMAIN ign_list' = 1 .. Len(ign_list) - 1
      BY <3>3, <3>4
    <3> QED BY <1>3, <3>1, <3>2, <3>5
  <2>2. ASSUME NEW j \in DOMAIN ign_list', NEW k \in DOMAIN ign_list',
               ign_list'[j] = ign_list'[k]
        PROVE  j = k
    <3>1. /\ ign_list'[j] = IF j < i THEN ign_list[j] ELSE ign_list[j + 1]
          /\ ign_list'[k] = IF k < i THEN ign_list[k] ELSE ign_list[k + 1]
      BY <1>8, <2>b
    <3>2. j \in 1 .. Len(ign_list) - 1 /\ k \in 1 .. Len(ign_list) - 1
      BY <2>b
    <3>3. /\ j \in 1 .. Len(ign_list) /\ j + 1 \in 1 .. Len(ign_list)
          /\ k \in 1 .. Len(ign_list) /\ k + 1 \in 1 .. Len(ign_list)
      BY <3>2
    <3>4. CASE j < i /\ k < i
      BY <2>2, <2>b, <3>1, <3>3, <3>4
    <3>5. CASE j < i /\ ~(k < i)
      <4>1. j = k + 1
        BY <2>2, <2>b, <3>1, <3>3, <3>5
      <4> QED BY <2>b, <3>2, <3>5, <4>1
    <3>6. CASE ~(j < i) /\ k < i
      <4>1. j + 1 = k
        BY <2>2, <2>b, <3>1, <3>3, <3>6
      <4> QED BY <2>b, <3>2, <3>6, <4>1
    <3>7. CASE ~(j < i) /\ ~(k < i)
      <4>1. j + 1 = k + 1
        BY <2>2, <2>b, <3>1, <3>3, <3>7
      <4> QED BY <3>2, <4>1
    <3> QED BY <3>4, <3>5, <3>6, <3>7
  <2>3. ASSUME NEW j \in DOMAIN ign_list'
        PROVE  \E h \in Files : opener'[h] # NoProc /\ ign_list'[j] = private_data'[h]
    <3>1. PICK k \in 1 .. Len(ign_list) : k # i /\ ign_list'[j] = ign_list[k]
      <4>1. CASE j < i
        <5>1. j \in 1 .. Len(ign_list) /\ ign_list'[j] = ign_list[j]
          BY <1>8, <2>b, <4>1
        <5> QED BY <4>1, <5>1
      <4>2. CASE ~(j < i)
        <5>1. j + 1 \in 1 .. Len(ign_list) /\ ign_list'[j] = ign_list[j + 1]
          BY <1>8, <2>b, <4>2
        <5> QED BY <2>b, <4>2, <5>1
      <4> QED BY <4>1, <4>2
    <3>2. PICK h \in Files : opener[h] # NoProc /\ ign_list[k] = private_data[h]
      BY DEF EntriesOwned
    <3>3. h # f
      BY <1>3, <2>b, <3>1, <3>2 DEF s
    <3> QED BY <1>1, <1>7, <3>1, <3>2, <3>3
  <2> QED BY <2>1, <2>2, <2>3 DEF EntriesOwned
<1> QED BY <1>9, <1>10, <1>11

(***************************************************************************)
(* If no process opens the ignore device a second time, then exactly the   *)
(* processes that have it open are hidden, for any number of processes and *)
(* files: dazukofs_remove_ign() always takes the entry of the file that is *)
(* closed, although it searches for the process.                           *)
(***************************************************************************)
THEOREM IgnoreCorrect ==
    ASSUME OpenTwice = FALSE
    PROVE  IgnSpec => [](HiddenIffOpen /\ EntriesOwned)
<1>1. IgnInit => IgnInv
  BY IgnAssumption DEF IgnInit, IgnInv, IgnTypeOK, EntriesOwned, OneFileEach
<1>2. IgnInv /\ [IgnNext]_ignVars => IgnInv'
  <2> SUFFICES ASSUME IgnInv, [IgnNext]_ignVars PROVE IgnInv'
    OBVIOUS
  <2>1. CASE UNCHANGED ignVars
    BY <2>1 DEF ignVars, IgnInv, IgnTypeOK, EntriesOwned, OneFileEach
  <2>2. CASE IgnNext
    BY <2>2, OpenInv, ReleaseInv DEF IgnNext
  <2> QED BY <2>1, <2>2
<1>3. IgnInv => HiddenIffOpen /\ EntriesOwned
  BY HiddenFromEntries DEF IgnInv
<1> QED BY <1>1, <1>2, <1>3, PTL DEF IgnSpec
=============================================================================
