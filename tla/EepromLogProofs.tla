---------------------------- MODULE EepromLogProofs ----------------------------
(* Theorems about EepromLog for every number of pages, length of the queue   *)
(* and number of logs and resets: the ring keeps the newest logs, all of     *)
(* them are printed, and none is lost, repeated or overtaken on its way to   *)
(* the memory.                                                               *)
EXTENDS EepromLog, SequenceTheorems, TLAPS

-----------------------------------------------------------------------------
(* The ring of pages.                                                       *)

Page == 0 .. Pages - 1

\* The remainder of a number less than one lap away.
LEMMA Remainders ==
  ASSUME NEW m \in Nat \ {0}, NEW x \in 0 .. m - 1
  PROVE  x % m = x /\ (x - m) % m = x /\ m % m = 0
<1>1. x % m = x
  BY Z3
<1>2. (x - m) % m = x
  BY Z3
<1>3. m % m = 0
  BY Z3
<1> QED
  BY <1>1, <1>2, <1>3

\* The page after page p.
After(p) == IF p = Pages - 1 THEN 0 ELSE p + 1

\* The page i places before page p.
Before(p, i) == IF i <= p THEN p - i ELSE p - i + Pages

LEMMA AfterIsPage == \A p \in Page : After(p) \in Page
BY PagesAssumption DEF After, Page

LEMMA BeforeIsPage == \A p \in Page : \A i \in 0 .. Pages : Before(p, i) \in Page
BY PagesAssumption DEF Before, Page

LEMMA SizeIsPositive == EEPROM_SIZE \in Nat \ {0} /\ EEPROM_SIZE = 8 * Pages
BY PagesAssumption DEF EEPROM_SIZE

\* The address eight bytes on is that of the next page.
LEMMA Advances == \A p \in Page : (8 * p + 8) % EEPROM_SIZE = 8 * After(p)
<1> SUFFICES ASSUME NEW p \in Page
             PROVE  (8 * p + 8) % EEPROM_SIZE = 8 * After(p)
  OBVIOUS
<1>1. CASE p = Pages - 1
  <2>1. 8 * p + 8 = EEPROM_SIZE
    BY <1>1, PagesAssumption, SizeIsPositive
  <2>2. EEPROM_SIZE % EEPROM_SIZE = 0
    BY Remainders, SizeIsPositive
  <2> QED
    BY <1>1, <2>1, <2>2 DEF After
<1>2. CASE p # Pages - 1
  <2>1. 8 * p + 8 \in 0 .. EEPROM_SIZE - 1
    BY <1>2, PagesAssumption, SizeIsPositive DEF Page
  <2>2. (8 * p + 8) % EEPROM_SIZE = 8 * p + 8
    BY <2>1, Remainders, SizeIsPositive
  <2> QED
    BY <1>2, <2>2, PagesAssumption DEF After, Page
<1> QED
  BY <1>1, <1>2

\* The address 8 * i bytes back is that of the page i places before.
LEMMA StepsBack ==
  \A p \in Page : \A i \in 0 .. Pages : (8 * p - 8 * i) % EEPROM_SIZE = 8 * Before(p, i)
<1> SUFFICES ASSUME NEW p \in Page, NEW i \in 0 .. Pages
             PROVE  (8 * p - 8 * i) % EEPROM_SIZE = 8 * Before(p, i)
  OBVIOUS
<1> DEFINE x == 8 * Before(p, i)
<1>1. x \in 0 .. EEPROM_SIZE - 1
  <2>1. Before(p, i) \in 0 .. Pages - 1
    BY BeforeIsPage DEF Page
  <2> QED
    BY <2>1, SizeIsPositive, PagesAssumption
<1>2. x % EEPROM_SIZE = x /\ (x - EEPROM_SIZE) % EEPROM_SIZE = x
  BY <1>1, Remainders, SizeIsPositive
<1>3. 8 * p - 8 * i = x \/ 8 * p - 8 * i = x - EEPROM_SIZE
  BY SizeIsPositive, PagesAssumption DEF Before, Page
<1> QED
  BY <1>2, <1>3

LEMMA HalfOfPage == \A p \in Page : FirstHalf(8 * p) = 2 * p /\ 2 * p \in Half /\ 2 * p + 1 \in Half
BY PagesAssumption DEF FirstHalf, Half, Page

\* One place further back from the next page is the same page, and in less than
\* a lap it is not the page itself.
LEMMA SamePage ==
  \A p \in Page : \A i \in 1 .. Pages - 1 :
    Before(After(p), i + 1) = Before(p, i) /\ Before(p, i) # p
BY PagesAssumption DEF Before, After, Page

LEMMA LastPage == \A p \in Page : Before(After(p), 1) = p
BY PagesAssumption DEF Before, After, Page

-----------------------------------------------------------------------------
(* Types.                                                                   *)

LEMMA PointerAdvances ==
  ASSUME TypeOK
  PROVE  \E p \in Page : write_pointer = 8 * p /\ NextPointer = 8 * After(p)
<1>1. PICK p \in Page : write_pointer = 8 * p
  BY DEF TypeOK, Page
<1>2. NextPointer = 8 * After(p)
  BY <1>1, Advances DEF NextPointer
<1> QED
  BY <1>1, <1>2

\* What stands in the memory after a log was written.
LEMMA PageWrittenType ==
  ASSUME TypeOK, NEW log \in Log
  PROVE  /\ PageWritten(log) \in [Half -> Content]
         /\ PageWritten(log)[FirstHalf(write_pointer)] = log
         /\ \A q \in Page : 2 * q # FirstHalf(write_pointer) =>
              PageWritten(log)[2 * q] = memory[2 * q]
<1>1. PICK p \in Page : write_pointer = 8 * p
  BY DEF TypeOK, Page
<1>2. FirstHalf(write_pointer) = 2 * p /\ 2 * p \in Half /\ 2 * p + 1 \in Half
  BY <1>1, HalfOfPage
<1>3. write_pointer % 8 = 0
  BY <1>1 DEF Page
<1>4. PageWritten(log) = [memory EXCEPT ![2 * p] = log, ![2 * p + 1] = Erased]
  BY <1>2, <1>3 DEF PageWritten
<1>5. memory \in [Half -> Content] /\ log \in Content /\ Erased \in Content
  BY DEF TypeOK, Content
<1>6. PageWritten(log) \in [Half -> Content]
  BY <1>4, <1>5
<1>7. 2 * p # 2 * p + 1
  BY DEF Page
<1>8. PageWritten(log)[2 * p] = log
  BY <1>2, <1>4, <1>5, <1>7
<1>9. \A q \in Page : 2 * q # 2 * p => PageWritten(log)[2 * q] = memory[2 * q]
  <2> SUFFICES ASSUME NEW q \in Page, 2 * q # 2 * p
               PROVE  PageWritten(log)[2 * q] = memory[2 * q]
    OBVIOUS
  <2>1. 2 * q # 2 * p + 1
    BY DEF Page
  <2>2. 2 * q \in Half
    BY HalfOfPage
  <2> QED
    BY <1>4, <1>5, <2>1, <2>2
<1> QED
  BY <1>2, <1>6, <1>8, <1>9

LEMMA BlocksBound == Blocks \in Nat /\ Blocks \in 0 .. Blocks /\ 0 \in 0 .. Blocks
BY PagesAssumption DEF Blocks

LEMMA NextBlock ==
  ASSUME TypeOK, reading < Blocks
  PROVE  reading + 1 \in 0 .. Blocks /\ Blocks \in 0 .. Blocks
BY BlocksBound DEF TypeOK

LEMMA InitType == Init => TypeOK
<1> SUFFICES ASSUME Init
             PROVE  TypeOK
  OBVIOUS
<1>1. memory \in [Half -> Content]
  BY DEF Init, Content
<1>2. write_pointer \in {8 * page : page \in 0 .. Pages - 1}
  BY PagesAssumption DEF Init
<1>3. logsQueue \in Seq(Log) /\ Len(logsQueue) <= QueueLength
  BY QueueLengthAssumption DEF Init
<1>4. taken \in Seq(Log) /\ Len(taken) <= 1 /\ saved \in Seq(Log)
  BY DEF Init
<1>5. lastLog \in 0 .. MaxLogs /\ boots \in 0 .. MaxBoots
  BY BoundsAssumption DEF Init
<1>6. Blocks \in 0 .. Blocks
  BY BlocksBound
<1> QED
  BY <1>1, <1>2, <1>3, <1>4, <1>5, <1>6 DEF Init, TypeOK

LEMMA ResetType ==
  ASSUME TypeOK, Reset
  PROVE  TypeOK'
<1>1. memory' \in [Half -> Content]
  <2>1. PICK torn \in [Unfinished -> {Erased, Garbage}], whole \in BOOLEAN :
          memory' = [half \in Half |->
                       IF ~whole /\ half \in Unfinished THEN torn[half] ELSE memory[half]]
    BY DEF Reset
  <2>2. \A half \in Unfinished : torn[half] \in Content
    BY DEF Content
  <2> QED
    BY <2>1, <2>2 DEF TypeOK
<1>2. write_pointer' \in {8 * page : page \in 0 .. Pages - 1}
  <2>1. write_pointer' = 8 * 0 /\ 0 \in 0 .. Pages - 1
    BY PagesAssumption DEF Reset, InitialPointer, FindLastLog
  <2> QED
    BY <2>1
<1>3. boots' \in 0 .. MaxBoots
  BY BoundsAssumption DEF Reset, TypeOK
<1>4. logsQueue' \in Seq(Log) /\ Len(logsQueue') <= QueueLength
  BY QueueLengthAssumption DEF Reset
<1>5. taken' \in Seq(Log) /\ Len(taken') <= 1 /\ saved' \in Seq(Log)
  BY DEF Reset
<1>6. programming' \in BOOLEAN /\ hung' \in BOOLEAN /\ lastLog' \in 0 .. MaxLogs
  BY DEF Reset, TypeOK
<1>7. reading' \in 0 .. Blocks /\ again' \in BOOLEAN /\ unprinted' \subseteq Log
  BY BlocksBound DEF Reset
<1> QED
  BY <1>1, <1>2, <1>3, <1>4, <1>5, <1>6, <1>7 DEF TypeOK

\* What the saving of a log changes.
LEMMA SaveLogWrites ==
  ASSUME TypeOK, SaveLog, ~(programming /\ ~TaskWaits)
  PROVE  \E log \in Log, p \in Page :
           /\ taken = <<log>> /\ taken' = <<>>
           /\ write_pointer = 8 * p /\ write_pointer' = 8 * After(p)
           /\ memory' = PageWritten(log) /\ saved' = saved \o <<log>>
           /\ programming' = TRUE /\ UNCHANGED hung
<1>1. PICK p \in Page : write_pointer = 8 * p /\ NextPointer = 8 * After(p)
  BY PointerAdvances
<1>2. taken \in Seq(Log) /\ taken # <<>> /\ Len(taken) <= 1
  BY DEF TypeOK, SaveLog
<1>3. Len(taken) = 1
  BY <1>2, EmptySeq, SMTT(30)
<1>4. Head(taken) \in Log /\ taken = <<Head(taken)>>
  BY <1>2, <1>3
<1>5. /\ memory' = PageWritten(Head(taken)) /\ write_pointer' = NextPointer
      /\ programming' = TRUE /\ saved' = saved \o taken /\ taken' = <<>> /\ UNCHANGED hung
  BY DEF SaveLog
<1> QED
  BY <1>1, <1>4, <1>5

LEMMA SaveLogType ==
  ASSUME TypeOK, SaveLog
  PROVE  TypeOK'
<1>1. CASE programming /\ ~TaskWaits
  BY <1>1 DEF SaveLog, TypeOK, printVars
<1>2. CASE ~(programming /\ ~TaskWaits)
  <2>1. PICK log \in Log, p \in Page :
          /\ taken = <<log>> /\ taken' = <<>>
          /\ write_pointer = 8 * p /\ write_pointer' = 8 * After(p)
          /\ memory' = PageWritten(log) /\ saved' = saved \o <<log>>
          /\ programming' = TRUE /\ UNCHANGED hung
    BY <1>2, SaveLogWrites
  <2>2. memory' \in [Half -> Content]
    BY <2>1, PageWrittenType
  <2>3. write_pointer' \in {8 * page : page \in 0 .. Pages - 1}
    BY <2>1, AfterIsPage DEF Page
  <2>4. saved' \in Seq(Log)
    BY <2>1, ConcatProperties DEF TypeOK
  <2>5. taken' \in Seq(Log) /\ Len(taken') <= 1
    BY <2>1
  <2>6. UNCHANGED <<logsQueue, lastLog, boots, reading, again, unprinted>>
    BY DEF SaveLog, printVars
  <2> QED
    BY <2>1, <2>2, <2>3, <2>4, <2>5, <2>6 DEF TypeOK
<1> QED
  BY <1>1, <1>2

\* The logs of the ring are saved ones, each its own number.
LEMMA NewestType ==
  ASSUME TypeOK
  PROVE  \A i \in Recent : /\ Newest(i) \in Log
                         /\ Len(saved) + 1 - i \in 1 .. Len(saved)
<1>1. Len(saved) \in Nat /\ saved \in [1 .. Len(saved) -> Log]
  BY LenProperties DEF TypeOK
<1>2. \A i \in Recent : Len(saved) + 1 - i \in 1 .. Len(saved)
  BY <1>1, PagesAssumption DEF Recent
<1> QED
  BY <1>1, <1>2 DEF Newest

LEMMA NextType == TypeOK /\ [Next]_vars => TypeOK'
<1> SUFFICES ASSUME TypeOK, [Next]_vars
             PROVE  TypeOK'
  OBVIOUS
<1>1. CASE LogsSave
  <2>1. lastLog' \in Log /\ lastLog' \in 0 .. MaxLogs
    BY <1>1, BoundsAssumption DEF LogsSave, TypeOK, Log
  <2>2. logsQueue' \in Seq(Log) /\ Len(logsQueue') <= QueueLength
    BY <1>1, <2>1, QueueLengthAssumption DEF LogsSave, TypeOK
  <2> QED
    BY <1>1, <2>1, <2>2 DEF LogsSave, TypeOK, printVars
<1>2. CASE Receive
  <2>1. Head(logsQueue) \in Log /\ Tail(logsQueue) \in Seq(Log) /\ Len(Tail(logsQueue)) <= QueueLength
    BY <1>2, QueueLengthAssumption DEF Receive, TypeOK
  <2>2. taken' \in Seq(Log) /\ Len(taken') <= 1
    BY <1>2, <2>1 DEF Receive
  <2> QED
    BY <1>2, <2>1, <2>2 DEF Receive, TypeOK, printVars
<1>3. CASE SaveLog
  BY <1>3, SaveLogType
<1>4. CASE PrintWhileProgramming
  BY <1>4 DEF PrintWhileProgramming, TypeOK, printVars
<1>5. CASE ProgrammingEnds
  BY <1>5 DEF ProgrammingEnds, TypeOK, printVars
<1>6. CASE Reset
  BY <1>6, ResetType
<1>7. CASE UNCHANGED vars
  BY <1>7 DEF vars, printVars, TypeOK
<1>8. CASE ButtonPressed
  <2>1. unprinted' \subseteq Log
    BY <1>8, NewestType DEF ButtonPressed
  <2> QED
    BY <1>8, <2>1, BlocksBound DEF ButtonPressed, TypeOK
<1>9. CASE ReadFirst
  <2>1. reading' \in 0 .. Blocks /\ again' \in BOOLEAN
    BY <1>9, NextBlock DEF ReadFirst, ReadingPage, TypeOK
  <2> QED
    BY <1>9, <2>1 DEF ReadFirst, TypeOK
<1>10. CASE ReadAgain
  <2>1. reading' \in 0 .. Blocks /\ again' \in BOOLEAN
    BY <1>10, NextBlock DEF ReadAgain, ReadingPage, TypeOK
  <2>2. unprinted' \subseteq Log
    BY <1>10 DEF ReadAgain, TypeOK
  <2> QED
    BY <1>10, <2>1, <2>2 DEF ReadAgain, TypeOK
<1> QED
  BY <1>1, <1>2, <1>3, <1>4, <1>5, <1>6, <1>7, <1>8, <1>9, <1>10 DEF Next

\* The variables keep their types; write_pointer stays at the start of a page
\* (eeprom.c:219), so a log is never written to a second half.
THEOREM EepromTypeCorrect == Spec => []TypeOK
<1>1. Init => TypeOK
  BY InitType
<1>2. TypeOK /\ [Next]_vars => TypeOK'
  BY NextType
<1> QED
  BY <1>1, <1>2, PTL DEF Spec

-----------------------------------------------------------------------------
(* The newest logs.                                                         *)

\* In terms of pages, what RecentKept says.
LEMMA RecentPages ==
  ASSUME TypeOK, NEW p \in Page, write_pointer = 8 * p
  PROVE  RecentKept <=> \A i \in Recent : memory[2 * Before(p, i)] = saved[Len(saved) + 1 - i]
<1>1. Recent \subseteq 0 .. Pages
  BY PagesAssumption, LenProperties DEF Recent, TypeOK
<1>2. \A i \in Recent : FirstHalf((write_pointer - 8 * i) % EEPROM_SIZE) = 2 * Before(p, i)
  BY <1>1, StepsBack, BeforeIsPage, HalfOfPage
<1> QED
  BY <1>2 DEF RecentKept, Newest

LEMMA SaveLogKeeps ==
  ASSUME TypeOK, RecentKept, SaveLog, ~(programming /\ ~TaskWaits)
  PROVE  RecentKept'
<1>1. PICK log \in Log, p \in Page :
        /\ write_pointer = 8 * p /\ write_pointer' = 8 * After(p)
        /\ memory' = PageWritten(log) /\ saved' = saved \o <<log>>
  BY SaveLogWrites
<1>2. TypeOK'
  BY SaveLogType
<1>3. After(p) \in Page /\ FirstHalf(write_pointer) = 2 * p
  BY <1>1, AfterIsPage, HalfOfPage
<1>4. RecentKept' <=> \A i \in Recent' : memory'[2 * Before(After(p), i)] = saved'[Len(saved') + 1 - i]
  <2>1. Recent' \subseteq 0 .. Pages
    BY <1>2, PagesAssumption, LenProperties, SMTT(30) DEF Recent, TypeOK
  <2>2. \A i \in Recent' :
          FirstHalf((8 * After(p) - 8 * i) % EEPROM_SIZE) = 2 * Before(After(p), i)
    BY <1>3, <2>1, StepsBack, BeforeIsPage, HalfOfPage
  <2>3. \A i \in Recent' :
          FirstHalf((write_pointer - 8 * i) % EEPROM_SIZE)' = 2 * Before(After(p), i)
    BY <1>1, <2>2 DEF FirstHalf, EEPROM_SIZE
  <2> QED
    BY <2>3 DEF RecentKept, Newest
<1>5. \A i \in Recent : memory[2 * Before(p, i)] = saved[Len(saved) + 1 - i]
  BY <1>1, RecentPages
<1>6. /\ Len(saved) \in Nat /\ Len(saved') = Len(saved) + 1
      /\ \A i \in 1 .. Len(saved) : saved'[i] = saved[i]
      /\ saved'[Len(saved) + 1] = log
  <2>1. saved \in Seq(Log) /\ <<log>> \in Seq(Log) /\ Len(<<log>>) = 1 /\ <<log>>[1] = log
    BY DEF TypeOK
  <2> QED
    BY <1>1, <2>1, ConcatProperties, LenProperties
<1>7. memory'[2 * p] = log /\ \A q \in Page : 2 * q # 2 * p => memory'[2 * q] = memory[2 * q]
  BY <1>1, <1>3, PageWrittenType
<1>8. ASSUME NEW i \in Recent'
      PROVE  memory'[2 * Before(After(p), i)] = saved'[Len(saved') + 1 - i]
  <2>1. i \in 1 .. Pages /\ i \in 1 .. Len(saved) + 1
    BY <1>6, PagesAssumption DEF Recent
  <2>2. CASE i = 1
    <3>1. Before(After(p), i) = p
      BY <2>2, LastPage
    <3> QED
      BY <1>6, <1>7, <2>2, <3>1
  <2>3. CASE i # 1
    <3>1. i - 1 \in Recent /\ i - 1 \in 1 .. Pages - 1 /\ i - 1 \in 1 .. Len(saved)
      BY <1>6, <2>1, <2>3, PagesAssumption DEF Recent
    <3>2. Before(After(p), i) = Before(p, i - 1) /\ Before(p, i - 1) # p
      <4>1. Before(After(p), (i - 1) + 1) = Before(p, i - 1) /\ Before(p, i - 1) # p
        BY <3>1, SamePage
      <4>2. (i - 1) + 1 = i
        BY <2>1
      <4> QED
        BY <4>1, <4>2
    <3>3. Before(p, i - 1) \in Page /\ 2 * Before(p, i - 1) # 2 * p
      <4>1. Before(p, i - 1) \in Page
        BY <3>1, BeforeIsPage, PagesAssumption
      <4> QED
        BY <3>2, <4>1 DEF Page
    <3>4. memory'[2 * Before(After(p), i)] = memory[2 * Before(p, i - 1)]
      BY <1>7, <3>2, <3>3
    <3>5. memory[2 * Before(p, i - 1)] = saved[Len(saved) + 1 - (i - 1)]
      BY <1>5, <3>1
    <3>6. saved'[Len(saved') + 1 - i] = saved[Len(saved) + 1 - (i - 1)]
      BY <1>6, <2>1, <2>3
    <3> QED
      BY <3>4, <3>5, <3>6
  <2> QED
    BY <2>2, <2>3
<1> QED
  BY <1>4, <1>8

\* The steps other than SaveLog and Reset touch neither the memory nor the pointer
\* nor the history.
Elsewhere ==
  \/ LogsSave \/ Receive \/ ProgrammingEnds \/ UNCHANGED vars
  \/ ButtonPressed \/ ReadFirst \/ ReadAgain \/ PrintWhileProgramming

LEMMA ElsewhereMeans == Elsewhere => UNCHANGED <<memory, write_pointer, saved>>
BY DEF Elsewhere, LogsSave, Receive, ProgrammingEnds, ButtonPressed, ReadFirst, ReadAgain,
       PrintWhileProgramming, vars

LEMMA NextKeeps == TypeOK /\ RecentKept /\ [Next]_vars => RecentKept'
<1> SUFFICES ASSUME TypeOK, RecentKept, [Next]_vars
             PROVE  RecentKept'
  OBVIOUS
<1>1. ASSUME UNCHANGED <<memory, write_pointer, saved>>
      PROVE  RecentKept'
  BY <1>1 DEF RecentKept, Recent, Newest
<1>2. CASE Elsewhere
  BY <1>1, <1>2, ElsewhereMeans
<1>3. CASE SaveLog
  <2>1. CASE programming /\ ~TaskWaits
    BY <1>1, <1>3, <2>1 DEF SaveLog
  <2>2. CASE ~(programming /\ ~TaskWaits)
    BY <1>3, <2>2, SaveLogKeeps
  <2> QED
    BY <2>1, <2>2
<1>4. CASE Reset
  <2>1. saved' = <<>> /\ Len(saved') = 0
    BY <1>4 DEF Reset
  <2>2. Recent' = {}
    BY <2>1, PagesAssumption DEF Recent
  <2> QED
    BY <2>2 DEF RecentKept
<1> QED
  BY <1>2, <1>3, <1>4 DEF Next, Elsewhere

\* The memory is a ring: the logs saved last since the boot, as many as there are
\* pages, stand behind write_pointer (eeprom.c:217-220).
THEOREM RingKeepsRecent == Spec => []RecentKept
<1>1. Init => TypeOK /\ RecentKept
  <2> SUFFICES ASSUME Init
               PROVE  TypeOK /\ RecentKept
    OBVIOUS
  <2>1. TypeOK
    BY InitType
  <2>2. saved = <<>> /\ Len(saved) = 0
    BY DEF Init
  <2>3. Recent = {}
    BY <2>2, PagesAssumption DEF Recent
  <2> QED
    BY <2>1, <2>3 DEF RecentKept
<1>2. TypeOK /\ RecentKept /\ [Next]_vars => (TypeOK /\ RecentKept)'
  BY NextType, NextKeeps
<1> QED
  BY <1>1, <1>2, PTL DEF Spec

-----------------------------------------------------------------------------
(* The way of a log.                                                        *)

OnTheWay == saved \o taken \o logsQueue

\* InOrder says that the n-th log on the way is the one that comes Len - n before
\* the last one queued.
Consecutive(s, last) == \A i \in 1 .. Len(s) : s[i] = last - Len(s) + i

LEMMA InOrderMeans ==
  ASSUME TypeOK
  PROVE  /\ OnTheWay \in Seq(Log)
         /\ InOrder <=> Consecutive(OnTheWay, lastLog)
<1>1. OnTheWay \in Seq(Log)
  <2>1. saved \in Seq(Log) /\ taken \in Seq(Log) /\ logsQueue \in Seq(Log)
    BY DEF TypeOK
  <2>2. saved \o taken \in Seq(Log)
    BY <2>1, ConcatProperties
  <2> QED
    BY <2>1, <2>2, ConcatProperties DEF OnTheWay
<1> DEFINE s == OnTheWay
<1>2. InOrder <=> s = [i \in 1 .. Len(s) |-> lastLog - Len(s) + i]
  BY DEF InOrder, OnTheWay
<1>3. s \in [1 .. Len(s) -> Log]
  BY <1>1, LenProperties
<1>4. s = [i \in 1 .. Len(s) |-> lastLog - Len(s) + i] <=> Consecutive(s, lastLog)
  BY <1>3 DEF Consecutive
<1> QED
  BY <1>1, <1>2, <1>4

\* A sequence of consecutive numbers goes on with the next one, and may lose its
\* last.
LEMMA GoesOn ==
  ASSUME NEW s \in Seq(Log), NEW last \in Nat, last + 1 \in Log, Consecutive(s, last)
  PROVE  Consecutive(s \o <<last + 1>>, last + 1)
<1>1. <<last + 1>> \in Seq(Log) /\ Len(<<last + 1>>) = 1 /\ <<last + 1>>[1] = last + 1
  OBVIOUS
<1>2. /\ Len(s) \in Nat /\ Len(s \o <<last + 1>>) = Len(s) + 1
      /\ \A i \in 1 .. Len(s) : (s \o <<last + 1>>)[i] = s[i]
      /\ (s \o <<last + 1>>)[Len(s) + 1] = last + 1
  BY <1>1, ConcatProperties, LenProperties
<1> QED
  BY <1>2, SMTT(30) DEF Consecutive

LEMMA HeadAndTail ==
  ASSUME NEW s \in Seq(Log), s # <<>>
  PROVE  <<Head(s)>> \in Seq(Log) /\ Tail(s) \in Seq(Log) /\ s = <<Head(s)>> \o Tail(s)
<1>1. Head(s) \in Log /\ Tail(s) \in Seq(Log)
  BY HeadTailProperties
<1>2. Len(s) \in Nat \ {0} /\ 1 \in 1 .. Len(s) /\ Len(s) \in 1 .. Len(s)
  BY EmptySeq
<1>3. SubSeq(s, 1, Len(s)) = <<s[1]>> \o SubSeq(s, 1 + 1, Len(s))
  BY <1>2, SubSeqRecursiveFirst
<1>4. SubSeq(s, 1, Len(s)) = s /\ Tail(s) = SubSeq(s, 2, Len(s)) /\ Head(s) = s[1]
  BY <1>2, SubSeqFull, TailIsSubSeq
<1> QED
  BY <1>1, <1>3, <1>4

LEMMA NextInOrder == TypeOK /\ InOrder /\ [Next]_vars => InOrder'
<1> SUFFICES ASSUME TypeOK, InOrder, [Next]_vars
             PROVE  InOrder'
  OBVIOUS
<1>1. saved \in Seq(Log) /\ taken \in Seq(Log) /\ logsQueue \in Seq(Log) /\ OnTheWay \in Seq(Log)
  BY InOrderMeans DEF TypeOK
<1>2. saved \o taken \in Seq(Log)
  BY <1>1, ConcatProperties
<1>3. ASSUME OnTheWay' = OnTheWay, lastLog' = lastLog
      PROVE  InOrder'
  BY <1>3 DEF InOrder, OnTheWay
<1>4. CASE LogsSave
  <2>1. lastLog \in Nat /\ lastLog' = lastLog + 1 /\ lastLog + 1 \in Log
    BY <1>4, BoundsAssumption DEF LogsSave, TypeOK, Log
  <2>2. logsQueue' = logsQueue \o <<lastLog + 1>>
    BY <1>1, <1>4, <2>1, AppendIsConcat DEF LogsSave
  <2>3. OnTheWay' = OnTheWay \o <<lastLog + 1>>
    <3>1. <<lastLog + 1>> \in Seq(Log)
      BY <2>1
    <3>2. (saved \o taken) \o (logsQueue \o <<lastLog + 1>>)
            = ((saved \o taken) \o logsQueue) \o <<lastLog + 1>>
      BY <1>1, <1>2, <3>1, ConcatAssociative
    <3> QED
      BY <1>4, <2>2, <3>2 DEF LogsSave, OnTheWay
  <2>4. Consecutive(OnTheWay', lastLog')
    BY <1>1, <2>1, <2>3, InOrderMeans, GoesOn
  <2>5. OnTheWay' \in [1 .. Len(OnTheWay') -> Log]
    <3>1. <<lastLog + 1>> \in Seq(Log)
      BY <2>1
    <3>2. OnTheWay' \in Seq(Log)
      BY <1>1, <2>3, <3>1, ConcatProperties
    <3> QED
      BY <3>2, LenProperties
  <2>6. OnTheWay' = [i \in 1 .. Len(OnTheWay') |-> lastLog' - Len(OnTheWay') + i]
    BY <2>4, <2>5 DEF Consecutive
  <2> QED
    BY <2>6 DEF InOrder, OnTheWay
<1>5. CASE Receive
  <2>1. /\ logsQueue # <<>> /\ taken = <<>>
        /\ taken' = <<Head(logsQueue)>> /\ logsQueue' = Tail(logsQueue)
        /\ UNCHANGED <<saved, lastLog>>
    BY <1>5 DEF Receive
  <2>2. /\ <<Head(logsQueue)>> \in Seq(Log) /\ Tail(logsQueue) \in Seq(Log)
        /\ logsQueue = <<Head(logsQueue)>> \o Tail(logsQueue)
    BY <1>1, <2>1, HeadAndTail
  <2>3. OnTheWay = saved \o (<<Head(logsQueue)>> \o Tail(logsQueue))
    BY <1>1, <2>1, <2>2, ConcatEmptySeq DEF OnTheWay
  <2>4. OnTheWay' = (saved \o <<Head(logsQueue)>>) \o Tail(logsQueue)
    BY <2>1 DEF OnTheWay
  <2> QED
    BY <1>1, <1>3, <2>1, <2>2, <2>3, <2>4, ConcatAssociative, SMTT(30)
<1>6. CASE SaveLog
  <2>1. CASE programming /\ ~TaskWaits
    <3>1. UNCHANGED <<saved, taken, logsQueue, lastLog>>
      BY <1>6, <2>1 DEF SaveLog
    <3> QED
      BY <1>3, <3>1 DEF OnTheWay
  <2>2. CASE ~(programming /\ ~TaskWaits)
    <3>1. saved' = saved \o taken /\ taken' = <<>> /\ UNCHANGED <<logsQueue, lastLog>>
      BY <1>6, <2>2 DEF SaveLog
    <3>2. saved' \o taken' = saved \o taken
      BY <1>2, <3>1, ConcatEmptySeq
    <3> QED
      BY <1>3, <3>1, <3>2 DEF OnTheWay
  <2> QED
    BY <2>1, <2>2
<1>7. CASE Reset
  <2>1. saved' = <<>> /\ taken' = <<>> /\ logsQueue' = <<>>
    BY <1>7 DEF Reset
  <2>2. OnTheWay' = <<>>
    BY <2>1, EmptySeq, ConcatEmptySeq DEF OnTheWay
  <2>3. Len(<<>>) = 0 /\ <<>> = [i \in 1 .. 0 |-> lastLog' - 0 + i]
    OBVIOUS
  <2> QED
    BY <2>2, <2>3 DEF InOrder, OnTheWay
<1>8. CASE \/ ButtonPressed \/ ReadFirst \/ ReadAgain \/ PrintWhileProgramming
           \/ ProgrammingEnds \/ UNCHANGED vars
  BY <1>3, <1>8 DEF ButtonPressed, ReadFirst, ReadAgain, PrintWhileProgramming,
                    ProgrammingEnds, vars, OnTheWay
<1> QED
  BY <1>4, <1>5, <1>6, <1>7, <1>8 DEF Next

\* The queue and the task neither lose, repeat nor reorder a log between logsSave
\* and the memory (logs.c:85, eeprom.c:174-182).
THEOREM LogsStayInOrder == Spec => []InOrder
<1>1. Init => TypeOK /\ InOrder
  <2> SUFFICES ASSUME Init
               PROVE  TypeOK /\ InOrder
    OBVIOUS
  <2>1. TypeOK
    BY InitType
  <2>2. OnTheWay = <<>>
    BY EmptySeq, ConcatEmptySeq DEF Init, OnTheWay
  <2>3. Len(OnTheWay) = 0
    BY <2>2
  <2>4. Consecutive(OnTheWay, lastLog)
    BY <2>3 DEF Consecutive
  <2> QED
    BY <2>1, <2>4, InOrderMeans
<1>2. TypeOK /\ InOrder /\ [Next]_vars => (TypeOK /\ InOrder)'
  BY NextType, NextInOrder
<1> QED
  BY <1>1, <1>2, PTL DEF Spec

-----------------------------------------------------------------------------
(* What is printed.                                                          *)

\* The pages written since the boot, from the first one on, or all of them: they
\* hold one log each and nothing behind it.
Written(q) == Len(saved) >= Pages \/ q < Len(saved)

Filled ==
  /\ Len(saved) < Pages => write_pointer = 8 * Len(saved)
  /\ \A q \in Page : Written(q) => memory[2 * q] \in Log /\ memory[2 * q + 1] = Erased

\* The second halves after a log was written.
LEMMA SecondHalves ==
  ASSUME TypeOK, NEW log \in Log, NEW p \in Page, write_pointer = 8 * p
  PROVE  /\ PageWritten(log)[2 * p + 1] = Erased
         /\ \A q \in Page : q # p => PageWritten(log)[2 * q + 1] = memory[2 * q + 1]
<1>1. FirstHalf(write_pointer) = 2 * p /\ 2 * p \in Half /\ 2 * p + 1 \in Half
  BY HalfOfPage
<1>2. write_pointer % 8 = 0
  BY DEF Page
<1>3. PageWritten(log) = [memory EXCEPT ![2 * p] = log, ![2 * p + 1] = Erased]
  BY <1>1, <1>2 DEF PageWritten
<1>4. memory \in [Half -> Content]
  BY DEF TypeOK
<1>5. ASSUME NEW q \in Page, q # p
      PROVE  PageWritten(log)[2 * q + 1] = memory[2 * q + 1]
  <2>1. 2 * q + 1 \in Half /\ 2 * q + 1 # 2 * p /\ 2 * q + 1 # 2 * p + 1
    BY <1>5, HalfOfPage DEF Page
  <2> QED
    BY <1>3, <1>4, <2>1
<1> QED
  BY <1>1, <1>3, <1>4, <1>5

\* A log that is saved goes to the next page, the first one that was not written if
\* there is one.
LEMMA SaveLogFills ==
  ASSUME TypeOK, Filled, SaveLog, ~(programming /\ ~TaskWaits)
  PROVE  Filled'
<1>1. PICK log \in Log, p \in Page :
        /\ write_pointer = 8 * p /\ write_pointer' = 8 * After(p)
        /\ memory' = PageWritten(log) /\ saved' = saved \o <<log>>
  BY SaveLogWrites
<1>2. Len(saved) \in Nat /\ Len(saved') = Len(saved) + 1
  <2>1. saved \in Seq(Log) /\ <<log>> \in Seq(Log) /\ Len(<<log>>) = 1
    BY DEF TypeOK
  <2> QED
    BY <1>1, <2>1, ConcatProperties, LenProperties
<1>3. Len(saved) < Pages => p = Len(saved)
  BY <1>1, <1>2 DEF Filled, Page
<1>4. Len(saved') < Pages => write_pointer' = 8 * Len(saved')
  BY <1>1, <1>2, <1>3, PagesAssumption DEF After
<1>5. memory'[2 * p] = log /\ memory'[2 * p + 1] = Erased
  BY <1>1, HalfOfPage, PageWrittenType, SecondHalves
<1>6. ASSUME NEW q \in Page, Written(q)'
      PROVE  memory'[2 * q] \in Log /\ memory'[2 * q + 1] = Erased
  <2>1. CASE q = p
    BY <1>5, <2>1
  <2>2. CASE q # p
    <3>1. Written(q)
      BY <1>2, <1>3, <1>6, <2>2, PagesAssumption DEF Written, Page
    <3>2. 2 * q # FirstHalf(write_pointer)
      BY <1>1, <2>2, HalfOfPage DEF Page
    <3>3. memory'[2 * q] = memory[2 * q] /\ memory'[2 * q + 1] = memory[2 * q + 1]
      BY <1>1, <2>2, <3>2, PageWrittenType, SecondHalves
    <3> QED
      BY <3>1, <3>3 DEF Filled
  <2> QED
    BY <2>1, <2>2
<1> QED
  BY <1>4, <1>6 DEF Filled

\* A reset forgets what was written; the other steps do not touch it.
LEMMA NextFills == TypeOK /\ Filled /\ [Next]_vars => Filled'
<1> SUFFICES ASSUME TypeOK, Filled, [Next]_vars
             PROVE  Filled'
  OBVIOUS
<1>1. ASSUME UNCHANGED <<memory, write_pointer, saved>>
      PROVE  Filled'
  BY <1>1 DEF Filled, Written
<1>2. CASE Elsewhere
  BY <1>1, <1>2, ElsewhereMeans
<1>3. CASE SaveLog
  <2>1. CASE programming /\ ~TaskWaits
    BY <1>1, <1>3, <2>1 DEF SaveLog
  <2>2. CASE ~(programming /\ ~TaskWaits)
    BY <1>3, <2>2, SaveLogFills
  <2> QED
    BY <2>1, <2>2
<1>4. CASE Reset
  <2>1. Len(saved') = 0 /\ write_pointer' = 0
    BY <1>4 DEF Reset, InitialPointer, FindLastLog
  <2> QED
    BY <2>1, PagesAssumption DEF Filled, Written, Page
<1> QED
  BY <1>2, <1>3, <1>4 DEF Next, Elsewhere

\* A log of this boot that a printing has still to come to is in a page at or behind
\* the one it reads next: with that, an end of the printing finds none.
StillAhead(p) ==
  \A i \in Recent : Newest(i) \in unprinted => reading <= Before(p, i)

Ahead ==
  /\ \A p \in Page : write_pointer = 8 * p => StillAhead(p)
  /\ \A log \in unprinted : \E n \in 1 .. Len(saved) : saved[n] = log

\* The page of a log in the ring was written since the boot.
LEMMA RecentWritten ==
  ASSUME TypeOK, Filled, NEW p \in Page, write_pointer = 8 * p, NEW i \in Recent
  PROVE  /\ Before(p, i) \in Page /\ Written(Before(p, i))
         /\ HasSync(2 * Before(p, i)) /\ ~HasSync(2 * Before(p, i) + 1)
<1> DEFINE n == Len(saved)
           q == Before(p, i)
<1>1. n \in Nat /\ Pages \in Nat \ {0}
  BY PagesAssumption, LenProperties DEF TypeOK
<1>2. i \in 1 .. n /\ i \in 1 .. Pages
  BY <1>1 DEF Recent
<1>3. q \in Page
  BY <1>2, BeforeIsPage
<1>4. n < Pages => p = n
  BY <1>1 DEF Filled, Page
<1>5. Written(q)
  BY <1>1, <1>2, <1>3, <1>4 DEF Before, Written, Page
<1>6. memory[2 * q] \in Log /\ memory[2 * q + 1] = Erased
  BY <1>3, <1>5 DEF Filled
<1>7. memory[2 * q] # Erased
  BY <1>6 DEF Log, Erased
<1> QED
  BY <1>3, <1>5, <1>6, <1>7 DEF HasSync

\* The first page without a log lies behind all that were written since the boot.
LEMMA WrittenBefore ==
  ASSUME TypeOK, Filled, NEW q \in Page, ~Written(q), NEW w \in Page, Written(w)
  PROVE  w < q
BY PagesAssumption, LenProperties DEF Written, Page, TypeOK

LEMMA BlockIsPage ==
  ASSUME TypeOK, reading < Pages
  PROVE  reading \in Page /\ Block = 2 * reading
<1>1. reading \in 0 .. Pages - 1
  BY PagesAssumption, BlocksBound DEF TypeOK
<1>2. reading % Pages = reading
  BY <1>1, PagesAssumption, Remainders
<1> QED
  BY <1>1, <1>2 DEF Block, Page

\* Reading: a page is skipped only when no log of this boot is in it, and left for
\* the next one only when its log has been printed.
LEMMA ReadingStaysAhead ==
  ASSUME TypeOK, RecentKept, Filled, Ahead, ReadFirst \/ ReadAgain
  PROVE  Ahead'
<1>1. PICK p \in Page : write_pointer = 8 * p
  BY DEF TypeOK, Page
<1>2. UNCHANGED <<memory, write_pointer, saved>> /\ unprinted' \subseteq unprinted
  BY DEF ReadFirst, ReadAgain
<1>3. \A log \in unprinted' : \E n \in 1 .. Len(saved') : saved'[n] = log
  BY <1>2 DEF Ahead
<1>4. \A i : Newest(i)' = Newest(i)
  BY <1>2 DEF Newest
<1>5. Recent' = Recent
  BY <1>2 DEF Recent
<1>6. reading \in Nat /\ Pages \in Nat
  BY PagesAssumption DEF TypeOK
<1>7. ASSUME NEW i \in Recent, Newest(i) \in unprinted'
      PROVE  reading' <= Before(p, i)
  <2> DEFINE q == Before(p, i)
  <2>1. reading <= q /\ q \in Page /\ HasSync(2 * q) /\ ~HasSync(2 * q + 1) /\ Written(q)
    BY <1>1, <1>2, <1>7, RecentWritten DEF Ahead, StillAhead
  <2>2. reading < Pages /\ q \in Nat
    BY <1>6, <2>1 DEF Page
  <2>3. reading \in Page /\ Block = 2 * reading
    BY <2>2, BlockIsPage
  <2>4. CASE q = reading
    <3>1. FirstOnly /\ ~Both
      BY <2>1, <2>3, <2>4 DEF FirstOnly, Both
    <3>2. memory[Block] = Newest(i)
      BY <1>1, <2>3, <2>4, RecentPages DEF Newest
    <3>3. CASE ReadFirst
      BY <2>1, <3>1, <3>3 DEF ReadFirst
    <3>4. CASE ReadAgain
      BY <1>7, <3>1, <3>2, <3>4 DEF ReadAgain
    <3> QED
      BY <3>3, <3>4
  <2>5. CASE q # reading
    <3>1. reading + 1 <= q
      BY <1>6, <2>1, <2>2, <2>5
    <3>2. FirstOnly \/ Both
      <4>1. Written(reading)
        <5>1. CASE ~Written(reading)
          <6>1. q < reading
            BY <2>1, <2>3, <5>1, WrittenBefore
          <6> QED
            BY <1>6, <2>1, <2>2, <6>1
        <5> QED
          BY <5>1
      <4>2. memory[2 * reading] \in Log
        BY <2>3, <4>1 DEF Filled
      <4>3. HasSync(Block)
        BY <2>3, <4>2 DEF HasSync, Log, Erased
      <4> QED
        BY <4>3 DEF FirstOnly, Both
    <3>3. ~Both
      <4>1. Written(reading)
        BY <2>1, <2>3, <2>5, WrittenBefore, <1>6, <2>2
      <4> QED
        BY <2>3, <4>1 DEF Filled, Both, HasSync
    <3>4. reading' = reading \/ reading' = reading + 1
      BY <3>2, <3>3 DEF ReadFirst, ReadAgain
    <3> QED
      BY <2>1, <3>1, <3>4
  <2> QED
    BY <2>4, <2>5
<1>8. StillAhead(p)'
  <2>1. \A i \in Recent' : Newest(i)' \in unprinted' => reading' <= Before(p, i)
    BY <1>4, <1>5, <1>7
  <2> QED
    BY <2>1 DEF StillAhead, Before
<1>9. ASSUME NEW r \in Page, write_pointer' = 8 * r
      PROVE  r = p
  BY <1>1, <1>2, <1>9 DEF Page
<1> QED
  BY <1>3, <1>8, <1>9 DEF Ahead

\* A log that is being saved is none of those saved before.
LEMMA SavedDiffer ==
  ASSUME TypeOK, InOrder, NEW log \in Log, taken = <<log>>
  PROVE  \A n \in 1 .. Len(saved) : saved[n] # log
<1>1. saved \in Seq(Log) /\ taken \in Seq(Log) /\ logsQueue \in Seq(Log)
  BY DEF TypeOK
<1> DEFINE front == saved \o taken
<1>2. /\ front \in Seq(Log) /\ Len(front) = Len(saved) + 1
      /\ \A n \in 1 .. Len(saved) : front[n] = saved[n]
      /\ front[Len(saved) + 1] = log
  BY <1>1, ConcatProperties, LenProperties
<1>3. \A n \in 1 .. Len(front) : OnTheWay[n] = front[n] /\ n \in 1 .. Len(OnTheWay)
  BY <1>1, <1>2, ConcatProperties, LenProperties DEF OnTheWay
<1>4. lastLog \in Nat /\ Len(OnTheWay) \in Nat /\ Len(saved) \in Nat
  BY <1>1, BoundsAssumption, InOrderMeans, LenProperties DEF TypeOK
<1>5. Consecutive(OnTheWay, lastLog)
  BY InOrderMeans
<1>6. \A n \in 1 .. Len(front) : front[n] = lastLog - Len(OnTheWay) + n
  BY <1>3, <1>5 DEF Consecutive
<1> HIDE DEF front
<1> QED
  BY <1>2, <1>4, <1>6

\* A log that is saved was not in the ring when the button was pressed, and moves
\* none that was.
LEMMA SavingStaysAhead ==
  ASSUME TypeOK, InOrder, Ahead, SaveLog, ~(programming /\ ~TaskWaits)
  PROVE  Ahead'
<1>1. PICK log \in Log, p \in Page :
        /\ taken = <<log>>
        /\ write_pointer = 8 * p /\ write_pointer' = 8 * After(p)
        /\ saved' = saved \o <<log>>
  BY SaveLogWrites
<1>2. UNCHANGED <<reading, unprinted>>
  BY DEF SaveLog, printVars
<1>3. /\ Len(saved) \in Nat /\ Len(saved') = Len(saved) + 1
      /\ \A n \in 1 .. Len(saved) : saved'[n] = saved[n]
      /\ saved'[Len(saved) + 1] = log
  <2>1. saved \in Seq(Log) /\ <<log>> \in Seq(Log) /\ Len(<<log>>) = 1 /\ <<log>>[1] = log
    BY DEF TypeOK
  <2> QED
    BY <1>1, <2>1, ConcatProperties, LenProperties
<1>4. log \notin unprinted
  <2>1. \A n \in 1 .. Len(saved) : saved[n] # log
    BY <1>1, SavedDiffer
  <2> QED
    BY <2>1 DEF Ahead
<1>5. \A l \in unprinted' : \E n \in 1 .. Len(saved') : saved'[n] = l
  <2> SUFFICES ASSUME NEW l \in unprinted
               PROVE  \E n \in 1 .. Len(saved') : saved'[n] = l
    BY <1>2
  <2>1. PICK n \in 1 .. Len(saved) : saved[n] = l
    BY DEF Ahead
  <2>2. n \in 1 .. Len(saved') /\ saved'[n] = l
    BY <1>3, <2>1
  <2> QED
    BY <2>2
<1>6. ASSUME NEW i \in Recent', Newest(i)' \in unprinted'
      PROVE  reading' <= Before(After(p), i)
  <2>1. i \in 1 .. Pages /\ i \in 1 .. Len(saved) + 1
    BY <1>3, PagesAssumption DEF Recent
  <2>2. i # 1
    <3>1. CASE i = 1
      <4>1. Newest(i)' = log
        BY <1>3, <3>1 DEF Newest
      <4> QED
        BY <1>2, <1>4, <1>6, <4>1
    <3> QED
      BY <3>1
  <2>3. i - 1 \in Recent /\ i - 1 \in 1 .. Pages - 1 /\ i - 1 \in 1 .. Len(saved)
    BY <1>3, <2>1, <2>2, PagesAssumption DEF Recent
  <2>4. Before(After(p), i) = Before(p, i - 1)
    <3>1. Before(After(p), (i - 1) + 1) = Before(p, i - 1)
      BY <2>3, SamePage
    <3>2. (i - 1) + 1 = i
      BY <2>1
    <3> QED
      BY <3>1, <3>2
  <2>5. Newest(i)' = Newest(i - 1)
    BY <1>3, <2>1, <2>2 DEF Newest
  <2>6. reading <= Before(p, i - 1)
    BY <1>1, <1>2, <1>6, <2>3, <2>5 DEF Ahead, StillAhead
  <2> QED
    BY <1>2, <2>4, <2>6
<1>7. StillAhead(After(p))'
  BY <1>6 DEF StillAhead, Before, After
<1>8. ASSUME NEW r \in Page, write_pointer' = 8 * r
      PROVE  r = After(p)
  <2>1. After(p) \in Page
    BY AfterIsPage
  <2> QED
    BY <1>1, <1>8, <2>1 DEF Page
<1> QED
  BY <1>5, <1>7, <1>8 DEF Ahead

\* A printing starts before the first page.
LEMMA StartsAhead ==
  ASSUME TypeOK, ButtonPressed
  PROVE  Ahead'
<1>1. /\ reading' = 0 /\ unprinted' = {Newest(i) : i \in Recent}
      /\ UNCHANGED <<write_pointer, saved>>
  BY DEF ButtonPressed
<1>2. \A p \in Page : \A i \in Recent : 0 <= Before(p, i)
  <2>1. \A i \in Recent : i \in 0 .. Pages
    BY PagesAssumption, LenProperties DEF Recent, TypeOK
  <2> QED
    BY <2>1, BeforeIsPage DEF Page
<1>3. Recent' = Recent
  BY <1>1 DEF Recent
<1>4. \A p \in Page : StillAhead(p)'
  BY <1>1, <1>2, <1>3 DEF StillAhead, Before
<1>5. \A log \in unprinted' : \E n \in 1 .. Len(saved') : saved'[n] = log
  BY <1>1, NewestType DEF Newest
<1> QED
  BY <1>4, <1>5 DEF Ahead

LEMMA NextAhead ==
  TypeOK /\ RecentKept /\ Filled /\ InOrder /\ Ahead /\ [Next]_vars => Ahead'
<1> SUFFICES ASSUME TypeOK, RecentKept, Filled, InOrder, Ahead, [Next]_vars
             PROVE  Ahead'
  OBVIOUS
<1>1. ASSUME UNCHANGED <<write_pointer, saved, reading, unprinted>>
      PROVE  Ahead'
  BY <1>1 DEF Ahead, StillAhead, Recent, Newest, Before
<1>2. CASE LogsSave \/ Receive \/ ProgrammingEnds \/ PrintWhileProgramming \/ UNCHANGED vars
  BY <1>1, <1>2 DEF LogsSave, Receive, ProgrammingEnds, PrintWhileProgramming, vars, printVars
<1>3. CASE SaveLog
  <2>1. CASE programming /\ ~TaskWaits
    BY <1>1, <1>3, <2>1 DEF SaveLog, printVars
  <2>2. CASE ~(programming /\ ~TaskWaits)
    BY <1>3, <2>2, SavingStaysAhead
  <2> QED
    BY <2>1, <2>2
<1>4. CASE Reset
  <2>1. unprinted' = {}
    BY <1>4 DEF Reset
  <2> QED
    BY <2>1 DEF Ahead, StillAhead
<1>5. CASE ButtonPressed
  BY <1>5, StartsAhead
<1>6. CASE ReadFirst \/ ReadAgain
  BY <1>6, ReadingStaysAhead
<1> QED
  BY <1>2, <1>3, <1>4, <1>5, <1>6 DEF Next

\* The end of a printing lies behind every page.
LEMMA AheadPrinted ==
  ASSUME TypeOK, Ahead
  PROVE  RecentPrinted
<1> SUFFICES ASSUME reading = Blocks, NEW i \in Recent, Newest(i) \in unprinted
             PROVE  FALSE
  BY DEF RecentPrinted
<1>1. PICK p \in Page : write_pointer = 8 * p
  BY DEF TypeOK, Page
<1>2. Blocks <= Before(p, i)
  BY <1>1 DEF Ahead, StillAhead
<1>3. Before(p, i) \in Page
  <2>1. i \in 0 .. Pages
    BY PagesAssumption, LenProperties DEF Recent, TypeOK
  <2> QED
    BY <2>1, BeforeIsPage
<1> QED
  BY <1>2, <1>3, PagesAssumption DEF Blocks, Page

\* When a printing has ended, every log that was in the ring when the button was
\* pressed and still is has been printed, whatever was saved meanwhile and whatever
\* resets have left in the other pages (logs.c:95-121).
THEOREM RecentIsPrinted == Spec => []RecentPrinted
<1>1. Init => TypeOK /\ Filled /\ Ahead
  <2> SUFFICES ASSUME Init
               PROVE  TypeOK /\ Filled /\ Ahead
    OBVIOUS
  <2>1. TypeOK
    BY InitType
  <2>2. Len(saved) = 0 /\ write_pointer = 0 /\ unprinted = {}
    BY DEF Init
  <2>3. Filled
    BY <2>2, PagesAssumption DEF Filled, Written, Page
  <2> QED
    BY <2>1, <2>2, <2>3 DEF Ahead, StillAhead
<1>2. TypeOK /\ Filled /\ [Next]_vars => (TypeOK /\ Filled)'
  BY NextType, NextFills
<1>3. TypeOK /\ RecentKept /\ Filled /\ InOrder /\ Ahead /\ [Next]_vars => Ahead'
  BY NextAhead
<1>4. TypeOK /\ Ahead => RecentPrinted
  BY AheadPrinted
<1> QED
  BY <1>1, <1>2, <1>3, <1>4, RingKeepsRecent, LogsStayInOrder, PTL DEF Spec
=============================================================================
