----------------------------- MODULE WizSpiProofs -----------------------------
(* Theorems about WizSpi, for every set of children, addresses and values:    *)
(* what the driver promises without a critical section.                       *)
EXTENDS WizSpi, SequenceTheorems, TLAPS

(***************************************************************************)
(* The inductive invariant.                                                *)
(***************************************************************************)
Inside == \A t \in Task : t \in inside <=> pc[t] # "idle"

\* A task has something to do from the start of its call to the last frame.
Busy ==
  \A t \in Task :
    /\ pc[t] \in {"open", "select", "transfer", "deselect"} => todo[t] # <<>>
    /\ pc[t] \in {"idle", "close"} => todo[t] = <<>>
    /\ pc[t] \notin {"idle", "close"} /\ ~buffered[t] => Tail(todo[t]) = <<>>
    /\ pc[t] = "transfer" => sent[t] < 4
    /\ pc[t] \notin {"transfer", "deselect"} => sent[t] = 0

\* What the chip has received is what a task has sent, if no other is mixed into it.
Sends(t) ==
  /\ selected
  /\ Len(received) = sent[t]
  /\ \A i \in 1 .. sent[t] : received[i] = Frame(Head(todo[t]))[i]

\* Two frames at a time are both mixed; with the last of them the mixing is over.
Frames ==
  /\ \A t \in mixed : InFrame(t)
  /\ \A t, u \in Task : t # u /\ InFrame(t) /\ InFrame(u) => t \in mixed
  /\ (\A t \in Task : ~InFrame(t)) => received = <<>>
  /\ \A t \in Task : pc[t] = "transfer" /\ t \notin mixed => Sends(t)

SpiInv == TypeOK /\ Inside /\ Busy /\ Frames

-----------------------------------------------------------------------------
(* The data.                                                               *)

LEMMA Tasks == NoTask \notin Task
BY ChildAssumption DEF Task, Listener, NoTask

LEMMA FrameBytes ==
  ASSUME NEW access \in Access
  PROVE  /\ Frame(access) \in [1 .. 4 -> Byte]
         /\ 256 * Frame(access)[2] + Frame(access)[3] = access.address
         /\ Frame(access)[1] = IF access.op = "write" THEN WriteOp ELSE ReadOp
         /\ Frame(access)[4] = access.data
<1>1. access.address \in Address /\ access.data \in Value
  BY DEF Access
<1>2. Address \subseteq Nat
  BY AddressAssumption
<1> DEFINE a == access.address
<1>3. (a \div 256) \in Byte /\ (a % 256) \in Byte /\ access.data \in Byte
  BY <1>1 DEF Byte
<1>4. WriteOp \in Byte /\ ReadOp \in Byte
  BY DEF Byte
<1>5. 256 * (a \div 256) + (a % 256) = a
  <2>0. a \in Nat
    BY <1>1, <1>2
  <2> HIDE DEF a
  <2>1. QED
    BY <2>0
<1>6. Frame(access) = <<IF access.op = "write" THEN WriteOp ELSE ReadOp,
                        a \div 256, a % 256, access.data>>
  BY DEF Frame
<1>7. QED
  BY <1>3, <1>4, <1>5, <1>6

LEMMA LastOne ==
  ASSUME NEW S, NEW s \in Seq(S), s # <<>>
  PROVE  Tail(s) \in Seq(S) /\ (Len(s) = 1 <=> Tail(s) = <<>>)
<1>1. Len(s) \in Nat \ {0}
  BY EmptySeq
<1>2. Tail(s) \in Seq(S) /\ Len(Tail(s)) = Len(s) - 1
  BY <1>1
<1>3. ASSUME NEW tail, tail = <<>> PROVE Len(tail) = 0
  BY <1>3, EmptySeq
<1>4. Tail(s) # <<>> => Len(Tail(s)) # 0
  BY <1>2, EmptySeq
<1>5. QED
  BY <1>1, <1>2, <1>3, <1>4, SMTT(30)

LEMMA BufferCalls ==
  ASSUME NEW call \in Buffer
  PROVE  call \in Seq(Access) /\ call # <<>> /\ (Len(call) = 1 => Tail(call) = <<>>)
<1>1. PICK n \in 1 .. MaxLength : call \in [1 .. n -> Access]
  BY DEF Buffer
<1>2. n \in Nat \ {0} /\ call \in Seq(Access) /\ Len(call) = n
  BY <1>1, MaxLengthAssumption
<1>3. call # <<>>
  BY <1>2, EmptySeq
<1>4. QED
  BY <1>2, <1>3, LastOne

-----------------------------------------------------------------------------
LEMMA SpiInvInit == Init => SpiInv
<1> SUFFICES ASSUME Init PROVE SpiInv
  OBVIOUS
<1>1. 0 \in Byte /\ NoTask \in Child \cup {NoTask}
  BY DEF Byte
<1>2. received \in Seq(Byte) /\ Len(received) <= 4 /\ todo \in [Task -> Seq(Access)]
  BY EmptySeq DEF Init
<1>3. TypeOK
  <2>1. inside \subseteq Task /\ selected \in BOOLEAN /\ buffered \in [Task -> BOOLEAN]
        /\ mixed \subseteq Task /\ masked \in Child \cup {NoTask}
    BY DEF Init
  <2>2. /\ pc \in [Task -> {"idle", "open", "select", "transfer", "deselect", "close"}]
        /\ sent \in [Task -> 0 .. 4]
    BY DEF Init
  <2>3. result \in [Task -> Byte \cup {Unknown}] /\ memory \in [Address -> Byte]
    BY <1>1 DEF Init
  <2>4. QED
    BY <1>2, <2>1, <2>2, <2>3 DEF TypeOK
<1>4. Inside /\ Busy /\ Frames
  BY DEF Init, Inside, Busy, Frames, InFrame
<1>5. QED
  BY <1>3, <1>4 DEF SpiInv

LEMMA SpiEnter ==
  ASSUME SpiInv, NEW t \in Task, Enter(t)
  PROVE  SpiInv'
<1>1. PICK call \in Buffer, isBuffer \in BOOLEAN :
        /\ isBuffer \/ Len(call) = 1
        /\ todo' = [todo EXCEPT ![t] = call]
        /\ buffered' = [buffered EXCEPT ![t] = isBuffer]
        /\ pc' = [pc EXCEPT ![t] = IF isBuffer THEN "open" ELSE "select"]
  BY DEF Enter
<1>2. pc[t] = "idle" /\ inside' = inside \cup {t}
  BY DEF Enter
<1>3. call \in Seq(Access) /\ call # <<>> /\ (~isBuffer => Tail(call) = <<>>)
  BY <1>1, BufferCalls
<1>4. UNCHANGED <<masked, sent, result, selected, received, memory, mixed>>
  BY DEF Enter, chipVars
<1>5. TypeOK'
  BY <1>1, <1>2, <1>3, <1>4 DEF SpiInv, TypeOK
<1>6. Inside'
  BY <1>1, <1>2 DEF SpiInv, TypeOK, Inside
<1>7. Busy'
  BY <1>1, <1>2, <1>3, <1>4 DEF SpiInv, TypeOK, Busy
<1>8. Frames'
  <2>1. \A u \in Task : (InFrame(u)' <=> InFrame(u)) /\ (pc'[u] = "transfer" <=> pc[u] = "transfer")
    BY <1>1, <1>2 DEF InFrame, SpiInv, TypeOK
  <2>2. \A u \in Task : pc[u] = "transfer" => todo'[u] = todo[u]
    BY <1>1, <1>2 DEF SpiInv, TypeOK
  <2>3. \A u \in Task : pc[u] = "transfer" /\ Sends(u) => Sends(u)'
    BY <1>4, <2>2 DEF Sends
  <2>4. mixed \subseteq Task
    BY DEF SpiInv, TypeOK
  <2>5. QED
    BY <1>4, <2>1, <2>3, <2>4 DEF Frames, SpiInv
<1>9. QED
  BY <1>5, <1>6, <1>7, <1>8 DEF SpiInv

LEMMA SpiOpen ==
  ASSUME SpiInv, NEW t \in Task, Open(t)
  PROVE  SpiInv'
<1>1. /\ pc[t] = "open" /\ pc' = [pc EXCEPT ![t] = "select"] /\ selected' = TRUE
      /\ UNCHANGED <<inside, masked, buffered, todo, sent, result, received, memory, mixed>>
  BY DEF Open, Goes
<1>2. TypeOK' /\ Inside' /\ Busy'
  BY <1>1 DEF SpiInv, TypeOK, Inside, Busy
<1>3. Frames'
  <2>1. \A u \in Task : (InFrame(u)' <=> InFrame(u)) /\ (pc'[u] = "transfer" <=> pc[u] = "transfer")
    BY <1>1 DEF InFrame, SpiInv, TypeOK
  <2>2. \A u \in Task : Sends(u) => Sends(u)'
    BY <1>1 DEF Sends
  <2>3. mixed \subseteq Task
    BY DEF SpiInv, TypeOK
  <2>4. QED
    BY <1>1, <2>1, <2>2, <2>3 DEF Frames, SpiInv
<1>4. QED
  BY <1>2, <1>3 DEF SpiInv

LEMMA SpiSelect ==
  ASSUME SpiInv, NEW t \in Task, Select(t)
  PROVE  SpiInv'
<1>1. /\ pc[t] = "select" /\ pc' = [pc EXCEPT ![t] = "transfer"] /\ selected' = TRUE
      /\ mixed' = IF OthersInFrame(t) = {} THEN mixed ELSE mixed \cup OthersInFrame(t) \cup {t}
      /\ UNCHANGED <<inside, masked, buffered, todo, sent, result, received, memory>>
  BY DEF Select, Goes
<1>2. sent[t] = 0 /\ ~InFrame(t)
  BY <1>1 DEF SpiInv, Busy, InFrame
<1>3. TypeOK' /\ Inside' /\ Busy'
  <2>1. mixed' \subseteq Task
    BY <1>1 DEF SpiInv, TypeOK, OthersInFrame
  <2>2. QED
    BY <1>1, <1>2, <2>1 DEF SpiInv, TypeOK, Inside, Busy
<1>4. Frames'
  <2>1. \A u \in Task \ {t} : (InFrame(u)' <=> InFrame(u)) /\ pc'[u] = pc[u]
    BY <1>1 DEF InFrame, SpiInv, TypeOK
  <2>2. pc'[t] = "transfer" /\ InFrame(t)' /\ mixed \subseteq Task
    BY <1>1 DEF InFrame, SpiInv, TypeOK
  <2>3. \A u \in Task : Sends(u) => Sends(u)'
    BY <1>1 DEF Sends
  <2>4. CASE OthersInFrame(t) = {}
    <3>1. \A u \in Task : ~InFrame(u)
      BY <1>2, <2>4 DEF OthersInFrame
    <3>2. received = <<>> /\ mixed = {} /\ mixed' = {}
      BY <1>1, <2>2, <2>4, <3>1 DEF Frames, SpiInv
    <3>3. Sends(t)'
      BY <1>1, <1>2, <3>2, EmptySeq DEF Sends
    <3>4. \A u \in Task \ {t} : ~InFrame(u)' /\ pc'[u] # "transfer"
      BY <2>1, <3>1 DEF InFrame
    <3>5. QED
      BY <2>2, <3>2, <3>3, <3>4 DEF Frames
  <2>5. CASE OthersInFrame(t) # {}
    <3>1. \A u \in Task : InFrame(u)' => u \in mixed'
      BY <1>1, <2>1, <2>5 DEF OthersInFrame
    <3>2. \A u \in mixed' : InFrame(u)'
      BY <1>1, <2>1, <2>2, <2>5 DEF OthersInFrame, Frames, SpiInv
    <3>3. \A u \in Task : pc'[u] = "transfer" => InFrame(u)'
      BY DEF InFrame
    <3>4. QED
      BY <2>2, <3>1, <3>2, <3>3 DEF Frames
  <2>6. QED
    BY <2>4, <2>5
<1>5. QED
  BY <1>3, <1>4 DEF SpiInv

LEMMA SpiTransfer ==
  ASSUME SpiInv, NEW t \in Task, Transfer(t)
  PROVE  SpiInv'
<1> DEFINE access == Head(todo[t])
           byte == Frame(access)[sent[t] + 1]
<1>1. pc[t] = "transfer" /\ access \in Access /\ sent[t] \in 0 .. 3
  BY DEF Transfer, Goes, SpiInv, TypeOK, Busy
<1>2. byte \in Byte
  BY <1>1, FrameBytes
<1>3. /\ pc' = [pc EXCEPT ![t] = IF sent[t] = 3 THEN "deselect" ELSE "transfer"]
      /\ sent' = [sent EXCEPT ![t] = sent[t] + 1]
      /\ UNCHANGED <<inside, masked, buffered, todo, selected, mixed>>
  BY DEF Transfer, Goes
<1>4. PICK lost \in {FALSE, MayBeLost(t)} :
        /\ IF lost THEN UNCHANGED <<received, memory>> ELSE ChipTakes(byte)
        /\ result' = IF sent[t] = 3 /\ access.op = "read"
                       THEN [result EXCEPT ![t] = IF lost THEN Unknown ELSE ChipAnswers]
                       ELSE result
  BY DEF Transfer
<1>5. received \in Seq(Byte) /\ Len(received) \in Nat /\ Len(received) <= 4 /\ memory \in [Address -> Byte]
  BY DEF SpiInv, TypeOK
<1>6. TypeOK'
  <2>1. received' \in Seq(Byte) /\ Len(received') <= 4
    BY <1>2, <1>4, <1>5 DEF ChipTakes, Listening
  <2>2. memory' \in [Address -> Byte]
    BY <1>2, <1>4, <1>5 DEF ChipTakes
  <2>3. ChipAnswers \in Byte \cup {Unknown}
    BY <1>5 DEF ChipAnswers
  <2>4. result' \in [Task -> Byte \cup {Unknown}]
    BY <1>4, <2>3 DEF SpiInv, TypeOK
  <2>5. sent' \in [Task -> 0 .. 4]
    BY <1>1, <1>3 DEF SpiInv, TypeOK
  <2>6. QED
    BY <1>3, <2>1, <2>2, <2>4, <2>5 DEF SpiInv, TypeOK
<1>7. Inside' /\ Busy'
  BY <1>1, <1>3 DEF SpiInv, TypeOK, Inside, Busy
<1>8. Frames'
  <2>1. \A u \in Task \ {t} : (InFrame(u)' <=> InFrame(u)) /\ pc'[u] = pc[u] /\ sent'[u] = sent[u]
    BY <1>3 DEF InFrame, SpiInv, TypeOK
  <2>2. InFrame(t) /\ InFrame(t)'
    BY <1>1, <1>3 DEF InFrame, SpiInv, TypeOK
  <2>3. \A u \in Task : u # t /\ pc[u] = "transfer" => u \in mixed /\ t \in mixed
    BY <2>2 DEF Frames, SpiInv, InFrame
  <2>4. ASSUME pc'[t] = "transfer", t \notin mixed PROVE Sends(t)'
    <3>1. sent[t] # 3 /\ Sends(t)
      BY <1>1, <1>3, <2>4 DEF Frames, SpiInv, TypeOK
    <3>2. ~MayBeLost(t)
      BY <2>3, <2>4 DEF MayBeLost
    <3>3. received' = Append(received, byte)
      <4>1. ChipTakes(byte)
        BY <1>4, <3>2
      <4>2. Listening
        BY <1>1, <3>1 DEF Listening, Sends
      <4>3. QED
        BY <4>1, <4>2 DEF ChipTakes
    <3>4. /\ Len(received') = sent[t] + 1 /\ received'[sent[t] + 1] = byte
          /\ \A i \in 1 .. sent[t] : received'[i] = received[i]
      BY <1>1, <1>2, <1>5, <3>1, <3>3 DEF Sends
    <3>5. sent'[t] = sent[t] + 1
      BY <1>3 DEF SpiInv, TypeOK
    <3>6. \A i \in 1 .. sent'[t] : received'[i] = Frame(access)[i]
      BY <1>1, <3>1, <3>4, <3>5 DEF Sends
    <3>7. QED
      BY <1>3, <3>1, <3>4, <3>5, <3>6 DEF Sends
  <2>5. \A u \in Task : pc'[u] = "transfer" /\ u \notin mixed' => Sends(u)'
    BY <1>3, <2>1, <2>3, <2>4
  <2>6. /\ \A u \in mixed' : InFrame(u)'
        /\ \A u, v \in Task : u # v /\ InFrame(u)' /\ InFrame(v)' => u \in mixed'
    <3>1. \A u \in Task : InFrame(u)' <=> InFrame(u)
      BY <2>1, <2>2
    <3>2. mixed' = mixed /\ mixed \subseteq Task
      BY <1>3 DEF SpiInv, TypeOK
    <3>3. QED
      BY <3>1, <3>2 DEF Frames, SpiInv
  <2>7. QED
    BY <2>2, <2>5, <2>6 DEF Frames
<1>9. QED
  BY <1>6, <1>7, <1>8 DEF SpiInv

LEMMA SpiDeselect ==
  ASSUME SpiInv, NEW t \in Task, Deselect(t)
  PROVE  SpiInv'
<1>1. /\ pc[t] = "deselect"
      /\ pc' = [pc EXCEPT ![t] = IF ~buffered[t] THEN "idle"
                                 ELSE IF Len(todo[t]) = 1 THEN "close" ELSE "select"]
      /\ selected' = FALSE /\ received' = <<>>
      /\ todo' = [todo EXCEPT ![t] = Tail(todo[t])]
      /\ sent' = [sent EXCEPT ![t] = 0]
      /\ mixed' = mixed \ {t}
      /\ UNCHANGED <<masked, memory>>
  BY DEF Deselect, Goes, Ends, Released
<1>2. todo[t] \in Seq(Access) /\ todo[t] # <<>>
  BY <1>1 DEF SpiInv, TypeOK, Busy
<1>3. Tail(todo[t]) \in Seq(Access) /\ (Len(todo[t]) = 1 <=> Tail(todo[t]) = <<>>)
  BY <1>2, LastOne
<1>4. /\ IF buffered[t] THEN UNCHANGED <<inside, buffered, result>> ELSE Exit(t)
      /\ ~buffered[t] => Tail(todo[t]) = <<>>
  BY <1>1 DEF Deselect, SpiInv, Busy
<1>5. TypeOK'
  <2>1. received' \in Seq(Byte) /\ Len(received') <= 4
    BY <1>1, EmptySeq
  <2>2. inside' \subseteq Task /\ buffered' \in [Task -> BOOLEAN]
        /\ result' \in [Task -> Byte \cup {Unknown}]
    BY <1>4 DEF Exit, SpiInv, TypeOK
  <2>3. /\ pc' \in [Task -> {"idle", "open", "select", "transfer", "deselect", "close"}]
        /\ sent' \in [Task -> 0 .. 4]
    BY <1>1 DEF SpiInv, TypeOK
  <2>4. todo' \in [Task -> Seq(Access)]
    BY <1>1, <1>3 DEF SpiInv, TypeOK
  <2>5. /\ mixed' \subseteq Task /\ masked' \in Child \cup {NoTask}
        /\ selected' \in BOOLEAN /\ memory' \in [Address -> Byte]
    BY <1>1 DEF SpiInv, TypeOK
  <2>6. QED
    BY <2>1, <2>2, <2>3, <2>4, <2>5 DEF TypeOK
<1>6. Inside'
  BY <1>1, <1>4 DEF Exit, SpiInv, TypeOK, Inside
<1>7. Busy'
  <2>1. \A u \in Task \ {t} : pc'[u] = pc[u] /\ todo'[u] = todo[u] /\ sent'[u] = sent[u]
                              /\ buffered'[u] = buffered[u]
    BY <1>1, <1>4 DEF Exit, SpiInv, TypeOK
  <2>2. /\ pc'[t] = IF ~buffered[t] THEN "idle"
                    ELSE IF Len(todo[t]) = 1 THEN "close" ELSE "select"
        /\ todo'[t] = Tail(todo[t]) /\ sent'[t] = 0
        /\ buffered[t] => buffered'[t]
    BY <1>1, <1>4 DEF SpiInv, TypeOK
  <2>3. QED
    BY <1>3, <1>4, <2>1, <2>2 DEF Busy, SpiInv
<1>8. Frames'
  <2>1. \A u \in Task \ {t} : (InFrame(u)' <=> InFrame(u)) /\ pc'[u] = pc[u]
    BY <1>1 DEF InFrame, SpiInv, TypeOK
  <2>2. InFrame(t) /\ ~InFrame(t)' /\ pc'[t] # "transfer"
    BY <1>1 DEF InFrame, SpiInv, TypeOK
  <2>3. \A u \in Task : InFrame(u)' => u \in mixed'
    BY <1>1, <2>1, <2>2 DEF Frames, SpiInv
  <2>4. \A u \in Task : pc'[u] = "transfer" => InFrame(u)'
    BY DEF InFrame
  <2>5. \A u \in mixed' : InFrame(u)'
    BY <1>1, <2>1 DEF Frames, SpiInv, TypeOK
  <2>6. QED
    BY <1>1, <2>3, <2>4, <2>5 DEF Frames
<1>9. QED
  BY <1>5, <1>6, <1>7, <1>8 DEF SpiInv

LEMMA SpiClose ==
  ASSUME SpiInv, NEW t \in Task, Close(t)
  PROVE  SpiInv'
<1>1. /\ pc[t] = "close" /\ pc' = [pc EXCEPT ![t] = "idle"]
      /\ selected' = FALSE /\ received' = <<>>
      /\ mixed' = mixed \cup OthersInFrame(t)
      /\ UNCHANGED <<masked, todo, sent, memory>>
  BY DEF Close, Goes, Released
<1>2. /\ inside' = inside \ {t}
      /\ buffered' = [buffered EXCEPT ![t] = FALSE]
      /\ result' = [result EXCEPT ![t] = Unknown]
  BY DEF Close, Exit
<1>3. TypeOK'
  <2>1. received' \in Seq(Byte) /\ Len(received') <= 4
    BY <1>1, EmptySeq
  <2>2. mixed' \subseteq Task
    BY <1>1 DEF OthersInFrame, SpiInv, TypeOK
  <2>3. QED
    BY <1>1, <1>2, <2>1, <2>2 DEF SpiInv, TypeOK
<1>4. Inside' /\ Busy'
  BY <1>1, <1>2 DEF SpiInv, TypeOK, Inside, Busy
<1>5. Frames'
  <2>1. \A u \in Task \ {t} : (InFrame(u)' <=> InFrame(u)) /\ pc'[u] = pc[u]
    BY <1>1 DEF InFrame, SpiInv, TypeOK
  <2>2. ~InFrame(t) /\ ~InFrame(t)'
    BY <1>1 DEF InFrame, SpiInv, TypeOK
  <2>3. \A u \in Task : InFrame(u)' => u \in mixed'
    BY <1>1, <2>1, <2>2 DEF OthersInFrame
  <2>4. \A u \in Task : pc'[u] = "transfer" => InFrame(u)'
    BY DEF InFrame
  <2>5. \A u \in mixed' : InFrame(u)'
    BY <1>1, <2>1, <2>2 DEF Frames, SpiInv, TypeOK, OthersInFrame
  <2>6. QED
    BY <1>1, <2>3, <2>4, <2>5 DEF Frames
<1>6. QED
  BY <1>3, <1>4, <1>5 DEF SpiInv

LEMMA SpiUnmoved ==
  ASSUME SpiInv, masked' \in Child \cup {NoTask},
         UNCHANGED <<inside, pc, buffered, todo, sent, result, chipVars, mixed>>
  PROVE  SpiInv'
BY DEF chipVars, SpiInv, TypeOK, Inside, Busy, Frames, InFrame, Sends

LEMMA SpiInvNext == SpiInv /\ [Next]_vars => SpiInv'
<1> SUFFICES ASSUME SpiInv, [Next]_vars PROVE SpiInv'
  OBVIOUS
<1>1. CASE \E t \in Task :
             Enter(t) \/ Open(t) \/ Select(t) \/ Transfer(t) \/ Deselect(t) \/ Close(t)
  BY <1>1, SpiEnter, SpiOpen, SpiSelect, SpiTransfer, SpiDeselect, SpiClose
<1>2. CASE \E c \in Child : DisableIrq(c) \/ EnableIrq(c)
  BY <1>2, SpiUnmoved DEF DisableIrq, EnableIrq
<1>3. CASE UNCHANGED vars
  BY <1>3, SpiUnmoved DEF vars, taskVars, SpiInv, TypeOK
<1>4. QED
  BY <1>1, <1>2, <1>3 DEF Next

LEMMA SpiInvCorrect == Spec => []SpiInv
BY SpiInvInit, SpiInvNext, PTL DEF Spec

\* The types are kept, whatever the frames of the tasks do to each other.
THEOREM SpiTypeCorrect == Spec => []TypeOK
BY SpiInvCorrect, PTL DEF SpiInv

\* A frame that has met no other arrives whole (w5100.c:47-76), after whatever has
\* been mixed before it.
THEOREM FramesStayIntact == Spec => []FramesIntact
<1>1. SpiInv => FramesIntact
  <2> SUFFICES ASSUME SpiInv, NEW t \in Task, pc[t] = "transfer", t \notin mixed
               PROVE  selected /\ received = SubSeq(Frame(Head(todo[t])), 1, sent[t])
    BY DEF FramesIntact
  <2>1. Head(todo[t]) \in Access /\ sent[t] \in 0 .. 3 /\ Sends(t)
    BY DEF SpiInv, TypeOK, Busy, Frames
  <2>2. Frame(Head(todo[t])) \in Seq(Byte) /\ Len(Frame(Head(todo[t]))) = 4
    <3>1. Frame(Head(todo[t])) \in [1 .. 4 -> Byte]
      BY <2>1, FrameBytes
    <3>2. ASSUME NEW n \in Nat, NEW frame \in [1 .. n -> Byte]
          PROVE  frame \in Seq(Byte) /\ Len(frame) = n
      OBVIOUS
    <3>3. 4 \in Nat
      OBVIOUS
    <3>4. QED
      BY <3>1, <3>2, <3>3
  <2>3. /\ SubSeq(Frame(Head(todo[t])), 1, sent[t]) \in Seq(Byte)
        /\ Len(SubSeq(Frame(Head(todo[t])), 1, sent[t])) = sent[t]
        /\ \A i \in 1 .. sent[t] :
             SubSeq(Frame(Head(todo[t])), 1, sent[t])[i] = Frame(Head(todo[t]))[i]
    BY <2>1, <2>2
  <2>4. /\ selected /\ received \in Seq(Byte) /\ Len(received) = sent[t]
        /\ \A i \in 1 .. sent[t] : received[i] = Frame(Head(todo[t]))[i]
    BY <2>1 DEF SpiInv, TypeOK, Sends
  <2>5. QED
    BY <2>1, <2>3, <2>4
<1>2. QED
  BY <1>1, SpiInvCorrect, PTL

\* A frame of the listener, or of a date that is being sent with the interrupts
\* off, is mixed with others only if it was begun inside another one
\* (server.c:276-278 and the priorities of the tasks).
THEOREM ListenerNotCutInto == Spec => NobodyCutsIn
<1> DEFINE NotCut == \A t \in Task :
             (t = Listener \/ t = masked) /\ InFrame(t) /\ t \notin mixed => t \notin mixed'
<1>1. [Next]_vars => [NotCut]_vars
  <2> SUFFICES ASSUME Next, NEW t \in Task, t = Listener \/ t = masked, InFrame(t), t \notin mixed
               PROVE  t \notin mixed'
    OBVIOUS
  <2>1. pc[t] \in {"transfer", "deselect"} /\ t # NoTask
    BY Tasks DEF InFrame
  <2>2. ASSUME NEW u \in Task, MayRun(u) PROVE u = t
    BY <2>1, <2>2 DEF MayRun
  <2>3. CASE \E u \in Task : Enter(u) \/ Open(u) \/ Transfer(u) \/ Deselect(u)
    BY <2>3 DEF Enter, Open, Transfer, Deselect
  <2>4. CASE \E u \in Task : Select(u)
    BY <2>1, <2>2, <2>4 DEF Select, Goes
  <2>5. CASE \E u \in Task : Close(u)
    BY <2>1, <2>2, <2>5 DEF Close, Goes
  <2>6. CASE \E c \in Child : DisableIrq(c) \/ EnableIrq(c)
    BY <2>6 DEF DisableIrq, EnableIrq
  <2>7. QED
    BY <2>3, <2>4, <2>5, <2>6 DEF Next
<1>2. QED
  BY <1>1, PTL DEF Spec, NobodyCutsIn

-----------------------------------------------------------------------------
(***************************************************************************)
(* The driver implements the registers: entering a call requests its       *)
(* accesses, the last byte of a frame is the access, leaving it returns.   *)
(***************************************************************************)
AllPending == [t \in Task |-> Pending(t)]

\* Where the calls of two tasks overlap, all that are in a call are overlapped.
LEMMA Together ==
  ASSUME NEW t \in inside, inside # {t}
  PROVE  Overlapped = inside
BY DEF Overlapped

LEMMA TogetherNext ==
  ASSUME NEW t \in inside', inside' # {t}
  PROVE  Overlapped' = inside'
BY DEF Overlapped

\* A task that is alone finishes what has been mixed with its present access.
LEMMA Alone ==
  ASSUME NEW t, inside = {t}
  PROVE  Overlapped = IF pc[t] = "transfer" /\ t \in mixed THEN {t} ELSE {}
BY DEF Overlapped

LEMMA AloneNext ==
  ASSUME NEW t, inside' = {t}
  PROVE  Overlapped' = IF pc'[t] = "transfer" /\ t \in mixed' THEN {t} ELSE {}
BY DEF Overlapped

LEMMA RegistersInit == Init => Registers!Init
<1>1. Init => Overlapped = {} /\ inside = {} /\ memory = [a \in Address |-> 0]
              /\ result = [t \in Task |-> Unknown]
  BY DEF Init, Overlapped
<1>2. Init => [t \in Task |-> Pending(t)] = [t \in Task |-> <<>>]
  BY DEF Init, Pending
<1>3. QED
  BY <1>1, <1>2 DEF Registers!Init

LEMMA RegistersEnter ==
  ASSUME SpiInv, NEW t \in Task, Enter(t)
  PROVE  Registers!Request(t)
<1>1. PICK call \in Buffer, isBuffer \in BOOLEAN :
        /\ todo' = [todo EXCEPT ![t] = call]
        /\ pc' = [pc EXCEPT ![t] = IF isBuffer THEN "open" ELSE "select"]
  BY DEF Enter
<1>2. /\ pc[t] = "idle" /\ todo[t] = <<>> /\ t \notin inside /\ inside' = inside \cup {t}
      /\ UNCHANGED <<memory, result>>
  BY DEF Enter, chipVars, SpiInv, Busy, Inside
<1>3. AllPending' = [AllPending EXCEPT ![t] = call]
  BY <1>1, <1>2 DEF AllPending, Pending, SpiInv, TypeOK
<1>4. Overlapped' = IF inside = {} THEN {} ELSE inside'
  <2>1. CASE inside = {}
    <3>1. inside' = {t} /\ pc'[t] # "transfer"
      BY <1>1, <1>2, <2>1 DEF SpiInv, TypeOK
    <3>2. QED
      BY <2>1, <3>1, AloneNext
  <2>2. CASE inside # {}
    <3>1. t \in inside' /\ inside' # {t}
      BY <1>2, <2>2
    <3>2. QED
      BY <2>2, <3>1, TogetherNext
  <2>3. QED
    BY <2>1, <2>2
<1>5. QED
  BY <1>2, <1>3, <1>4 DEF Registers!Request, AllPending

\* What a step shows that is no access: nothing.
Nothing == UNCHANGED <<memory, inside, AllPending, Overlapped, result>>

LEMMA RegistersOpen ==
  ASSUME SpiInv, NEW t \in Task, Open(t)
  PROVE  Nothing
<1>1. /\ pc[t] = "open" /\ pc' = [pc EXCEPT ![t] = "select"]
      /\ UNCHANGED <<inside, todo, memory, result, mixed>>
  BY DEF Open, Goes
<1>2. \A u \in Task : (pc'[u] = "transfer" <=> pc[u] = "transfer") /\ Pending(u)' = Pending(u)
  BY <1>1 DEF Pending, SpiInv, TypeOK
<1>3. Overlapped' = Overlapped
  BY <1>1, <1>2 DEF Overlapped, SpiInv, TypeOK
<1>4. QED
  BY <1>1, <1>2, <1>3 DEF Nothing, AllPending

LEMMA RegistersSelect ==
  ASSUME SpiInv, NEW t \in Task, Select(t)
  PROVE  Nothing
<1>1. /\ pc[t] = "select" /\ pc' = [pc EXCEPT ![t] = "transfer"]
      /\ mixed' = IF OthersInFrame(t) = {} THEN mixed ELSE mixed \cup OthersInFrame(t) \cup {t}
      /\ UNCHANGED <<inside, todo, memory, result>>
  BY DEF Select, Goes
<1>2. \A u \in Task : Pending(u)' = Pending(u)
  BY <1>1 DEF Pending, SpiInv, TypeOK
<1>3. t \in inside /\ t \notin mixed
  BY <1>1 DEF SpiInv, Inside, Frames, InFrame
<1>4. Overlapped' = Overlapped
  <2>1. CASE inside = {t}
    <3>1. mixed' = mixed
      BY <1>1, <2>1 DEF OthersInFrame, InFrame, SpiInv, Inside
    <3>2. QED
      BY <1>1, <1>3, <2>1, <3>1, Alone, AloneNext
  <2>2. CASE inside # {t}
    BY <1>1, <1>3, <2>2, Together, TogetherNext
  <2>3. QED
    BY <2>1, <2>2
<1>5. QED
  BY <1>1, <1>2, <1>4 DEF Nothing, AllPending

LEMMA RegistersTransfer ==
  ASSUME SpiInv, NEW t \in Task, Transfer(t)
  PROVE  \/ Registers!Write(t) \/ Registers!Read(t) \/ Registers!Miss(t)
         \/ Registers!Disturb \/ Nothing
<1> DEFINE access == Head(todo[t])
           byte == Frame(access)[sent[t] + 1]
<1>1. /\ pc[t] = "transfer" /\ todo[t] # <<>> /\ access \in Access /\ sent[t] \in 0 .. 3
      /\ t \in inside /\ byte \in Byte
  <2>1. /\ pc[t] = "transfer" /\ todo[t] # <<>> /\ access \in Access /\ sent[t] \in 0 .. 3
        /\ t \in inside
    BY DEF Transfer, Goes, SpiInv, TypeOK, Busy, Inside
  <2>2. QED
    BY <2>1, FrameBytes
<1>2. /\ pc' = [pc EXCEPT ![t] = IF sent[t] = 3 THEN "deselect" ELSE "transfer"]
      /\ UNCHANGED <<inside, todo, mixed>>
  BY DEF Transfer, Goes
<1>3. PICK lost \in {FALSE, MayBeLost(t)} :
        /\ IF lost THEN UNCHANGED <<received, memory>> ELSE ChipTakes(byte)
        /\ result' = IF sent[t] = 3 /\ access.op = "read"
                       THEN [result EXCEPT ![t] = IF lost THEN Unknown ELSE ChipAnswers]
                       ELSE result
  BY DEF Transfer
<1>4. Registers!Damaged
  BY <1>1, <1>3 DEF Registers!Damaged, ChipTakes
<1>5. CASE sent[t] # 3
  <2>1. pc' = pc /\ result' = result
    BY <1>1, <1>2, <1>3, <1>5 DEF SpiInv, TypeOK
  <2>2. UNCHANGED <<inside, AllPending, Overlapped, result>>
    BY <1>2, <2>1 DEF AllPending, Pending, Overlapped
  <2>3. CASE t \in mixed
    <3>1. t \in Overlapped
      BY <1>1, <2>3 DEF Overlapped
    <3>2. QED
      BY <1>4, <2>2, <3>1 DEF Registers!Disturb, AllPending
  <2>4. CASE t \notin mixed
    <3>1. ~LastByte
      BY <1>1, <1>5, <2>4 DEF LastByte, Frames, Sends, SpiInv
    <3>2. memory' = memory
      BY <1>3, <3>1 DEF ChipTakes
    <3>3. QED
      BY <2>2, <3>2 DEF Nothing
  <2>5. QED
    BY <2>3, <2>4
<1>6. CASE sent[t] = 3
  <2>1. pc' = [pc EXCEPT ![t] = "deselect"]
    BY <1>2, <1>6
  <2>2. /\ AllPending[t] = todo[t]
        /\ AllPending' = [AllPending EXCEPT ![t] = Tail(AllPending[t])]
    <3>1. \A u \in Task \ {t} : Pending(u)' = Pending(u)
      BY <1>2, <2>1 DEF Pending, SpiInv, TypeOK
    <3>2. Pending(t) = todo[t] /\ Pending(t)' = Tail(todo[t])
      BY <1>1, <1>2, <2>1 DEF Pending, SpiInv, TypeOK
    <3>3. QED
      BY <3>1, <3>2 DEF AllPending
  <2>3. /\ access.op = "write" => Registers!Gets(t, "write")
        /\ access.op = "read" => Registers!Gets(t, "read")
        /\ access.op \in {"write", "read"}
    BY <1>1, <1>2, <2>2 DEF Registers!Gets, AllPending, Access
  <2>4. CASE t \in Overlapped
    <3>1. Overlapped' = IF inside = {t} THEN {} ELSE Overlapped
      <4>1. pc'[t] = "deselect"
        BY <2>1 DEF SpiInv, TypeOK
      <4>2. CASE inside = {t}
        BY <1>2, <4>1, <4>2, AloneNext
      <4>3. CASE inside # {t}
        BY <1>1, <1>2, <4>3, Together, TogetherNext
      <4>4. QED
        BY <4>2, <4>3
    <3>2. CASE access.op = "write"
      <4>1. UNCHANGED result
        BY <1>3, <3>2
      <4>2. QED
        BY <1>4, <2>3, <2>4, <3>1, <3>2, <4>1 DEF Registers!Miss
    <3>3. CASE access.op = "read"
      <4>1. ChipAnswers \in Byte \cup {Unknown}
        BY DEF ChipAnswers, SpiInv, TypeOK
      <4>2. \E answer \in Byte \cup {Unknown} : result' = [result EXCEPT ![t] = answer]
        BY <1>3, <1>6, <3>3, <4>1
      <4>3. QED
        BY <1>4, <2>3, <2>4, <3>1, <3>3, <4>2 DEF Registers!Miss
    <3>4. QED
      BY <2>3, <3>2, <3>3
  <2>5. CASE t \notin Overlapped
    <3>1. inside = {t} /\ t \notin mixed
      BY <1>1, <2>5 DEF Overlapped
    <3>2. ~lost
      BY <1>3, <3>1 DEF MayBeLost, SpiInv, Inside
    <3>3. Overlapped' = Overlapped
      BY <1>2, <3>1, Alone, AloneNext
    <3>4. /\ selected /\ Len(received) = 3
          /\ \A i \in 1 .. 3 : received[i] = Frame(access)[i]
      BY <1>1, <1>6, <3>1 DEF Frames, Sends, SpiInv
    <3>5. LastByte /\ Addressed = access.address /\ Addressed \in Address
      <4>1. received[2] = Frame(access)[2] /\ received[3] = Frame(access)[3]
        BY <3>4
      <4>2. access.address \in Address
        BY <1>1 DEF Access
      <4>3. QED
        BY <1>1, <3>4, <4>1, <4>2, FrameBytes DEF LastByte, Addressed
    <3>6. received[1] = IF access.op = "write" THEN WriteOp ELSE ReadOp
      BY <1>1, <3>4, FrameBytes
    <3>7. CASE access.op = "write"
      <4>1. received[1] = WriteOp /\ byte = access.data
        BY <1>1, <1>6, <3>6, <3>7, FrameBytes
      <4>2. memory' = [memory EXCEPT ![access.address] = access.data] /\ UNCHANGED result
        BY <1>3, <3>2, <3>5, <3>7, <4>1 DEF ChipTakes
      <4>3. QED
        BY <2>2, <2>3, <2>5, <3>3, <3>7, <4>2 DEF Registers!Write, AllPending
    <3>8. CASE access.op = "read"
      <4>1. received[1] = ReadOp /\ ReadOp # WriteOp
        BY <3>6, <3>8 DEF ReadOp, WriteOp
      <4>2. UNCHANGED memory
        BY <1>3, <3>2, <4>1 DEF ChipTakes
      <4>3. result' = [result EXCEPT ![t] = memory[access.address]]
        BY <1>3, <1>6, <3>2, <3>5, <3>8, <4>1 DEF ChipAnswers
      <4>4. QED
        BY <2>2, <2>3, <2>5, <3>3, <3>8, <4>2, <4>3 DEF Registers!Read, AllPending
    <3>9. QED
      BY <2>3, <3>7, <3>8
  <2>6. QED
    BY <2>4, <2>5
<1>7. QED
  BY <1>5, <1>6

LEMMA RegistersReturn ==
  ASSUME SpiInv, NEW t \in Task, t \in inside, Exit(t), memory' = memory,
         Pending(t) = <<>>, \A u \in Task : Pending(u)' = Pending(u)
  PROVE  Registers!Return(t)
<1>1. Overlapped' \in SUBSET (Overlapped \ {t})
  BY DEF Exit, Overlapped
<1>2. AllPending[t] = <<>> /\ AllPending' = AllPending
  BY DEF AllPending
<1>3. QED
  BY <1>1, <1>2 DEF Registers!Return, AllPending, Exit

LEMMA RegistersDeselect ==
  ASSUME SpiInv, NEW t \in Task, Deselect(t)
  PROVE  Registers!Return(t) \/ Nothing
<1>1. /\ pc[t] = "deselect"
      /\ pc' = [pc EXCEPT ![t] = IF ~buffered[t] THEN "idle"
                                 ELSE IF Len(todo[t]) = 1 THEN "close" ELSE "select"]
      /\ todo' = [todo EXCEPT ![t] = Tail(todo[t])]
      /\ mixed' = mixed \ {t}
      /\ IF buffered[t] THEN UNCHANGED <<inside, buffered, result>> ELSE Exit(t)
      /\ memory' = memory
  BY DEF Deselect, Goes
<1>2. \A u \in Task : Pending(u)' = Pending(u)
  <2>1. \A u \in Task \ {t} : pc'[u] = pc[u] /\ todo'[u] = todo[u]
    BY <1>1 DEF SpiInv, TypeOK
  <2>2. pc'[t] # "deselect" /\ todo'[t] = Tail(todo[t])
    BY <1>1 DEF SpiInv, TypeOK
  <2>3. QED
    BY <1>1, <2>1, <2>2 DEF Pending
<1>3. t \in inside
  BY <1>1 DEF SpiInv, Inside
<1>4. CASE ~buffered[t]
  <2>1. Pending(t) = <<>>
    BY <1>1, <1>4 DEF Pending, SpiInv, Busy
  <2>2. QED
    BY <1>1, <1>2, <1>3, <1>4, <2>1, RegistersReturn
<1>5. CASE buffered[t]
  <2>1. Overlapped' = Overlapped
    <3>1. CASE inside = {t}
      BY <1>1, <1>5, <3>1, Alone, AloneNext
    <3>2. CASE inside # {t}
      BY <1>1, <1>3, <1>5, <3>2, Together, TogetherNext
    <3>3. QED
      BY <3>1, <3>2
  <2>2. QED
    BY <1>1, <1>2, <1>5, <2>1 DEF Nothing, AllPending
<1>6. QED
  BY <1>4, <1>5

LEMMA RegistersClose ==
  ASSUME SpiInv, NEW t \in Task, Close(t)
  PROVE  Registers!Return(t)
<1>1. /\ pc[t] = "close" /\ pc' = [pc EXCEPT ![t] = "idle"] /\ todo' = todo
      /\ Exit(t) /\ memory' = memory
  BY DEF Close, Goes
<1>2. \A u \in Task : Pending(u)' = Pending(u)
  BY <1>1 DEF Pending, SpiInv, TypeOK
<1>3. t \in inside /\ Pending(t) = <<>>
  BY <1>1 DEF Pending, SpiInv, Busy, Inside
<1>4. QED
  BY <1>1, <1>2, <1>3, RegistersReturn

\* w5100.c:47-222 without a critical section: an access that no other task's call
\* overlaps happens once, in one step, on the register it names, and an overlap is
\* over with the accesses that overlapped.
THEOREM DriverImplementsRegisters == Spec => RegistersSpec
<1>1. SpiInv /\ [Next]_vars => [Registers!Next]_(Registers!registerVars)
  <2> SUFFICES ASSUME SpiInv, [Next]_vars
               PROVE  Registers!Next \/ Nothing
    BY DEF Registers!registerVars, Nothing, AllPending
  <2>1. CASE \E t \in Task :
               Enter(t) \/ Open(t) \/ Select(t) \/ Transfer(t) \/ Deselect(t) \/ Close(t)
    BY <2>1, RegistersEnter, RegistersOpen, RegistersSelect, RegistersTransfer,
       RegistersDeselect, RegistersClose DEF Registers!Next
  <2>2. CASE \E c \in Child : DisableIrq(c) \/ EnableIrq(c)
    BY <2>2 DEF DisableIrq, EnableIrq, chipVars, Nothing, AllPending, Pending, Overlapped
  <2>3. CASE UNCHANGED vars
    BY <2>3 DEF vars, taskVars, chipVars, Nothing, AllPending, Pending, Overlapped
  <2>4. QED
    BY <2>1, <2>2, <2>3 DEF Next
<1>2. QED
  BY <1>1, RegistersInit, SpiInvCorrect, PTL DEF Spec, RegistersSpec, Registers!Spec
=============================================================================
