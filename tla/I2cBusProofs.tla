------------------------------ MODULE I2cBusProofs ------------------------------
(* For any number of children: transfers have the bus for themselves, and the  *)
(* date is sent with the interrupts off.  What is inductive is who may be in   *)
(* the middle of something: with the interrupts off, only the running task.    *)
(* And what is read from a running clock is wrong by less than an hour: there  *)
(* the induction says of every register read so far at which moment it was.    *)
EXTENDS I2cBus, TLAPS

Inside == {"start", "stop", "send"}

Shape ==
  /\ irq \in BOOLEAN /\ running \in Task /\ bus \in Task \cup {None}
  /\ pc \in [Task -> {"idle", "next", "start", "stop", "send"}]

OneInside == \A t \in Task : pc[t] \in Inside => ~irq /\ running = t

BusOwned ==
  /\ \A t \in Task : pc[t] \in {"start", "stop"} => bus = t
  /\ bus # None => pc[bus] \in {"start", "stop"}

IInv == Shape /\ OneInside /\ BusOwned

\* Before the scheduler starts nobody is inside.
LEMMA InitIInv == Init => IInv
BY TaskAssumption DEF Init, IInv, Shape, OneInside, BusOwned, Inside, Task

\* Who goes from one place to another has the processor; the others stay where
\* they are, and none of them is inside.
LEMMA GoesAlone ==
  ASSUME IInv, NEW t \in Task, NEW from, NEW to \in {"idle", "next", "start", "stop", "send"}, Goes(t, from, to)
  PROVE  /\ running = t /\ pc[t] = from
         /\ pc' = [pc EXCEPT ![t] = to]
         /\ pc'[t] = to
         /\ pc' \in [Task -> {"idle", "next", "start", "stop", "send"}]
         /\ \A u \in Task \ {t} : pc'[u] = pc[u] /\ pc[u] \notin Inside
BY DEF Goes, IInv, Shape, OneInside

\* Steps that leave the bus alone and end outside: all that counts is whether
\* the task was inside, which none of them was in a transfer.
LEMMA Outside ==
  ASSUME IInv, NEW t \in Task, NEW from \in {"idle", "next", "send"}, NEW to \in {"idle", "next"},
         Goes(t, from, to), irq' \in BOOLEAN, UNCHANGED <<running, bus>>
  PROVE  IInv'
<1>1. /\ running = t /\ pc[t] = from /\ pc'[t] = to
      /\ pc' \in [Task -> {"idle", "next", "start", "stop", "send"}]
      /\ \A u \in Task \ {t} : pc'[u] = pc[u] /\ pc[u] \notin Inside
  BY GoesAlone
<1>2. Shape'
  BY <1>1 DEF IInv, Shape
<1>3. OneInside'
  BY <1>1 DEF OneInside, Inside
<1>4. bus = None
  BY <1>1, TaskAssumption DEF IInv, Shape, BusOwned, Inside
<1>5. BusOwned'
  BY <1>1, <1>4 DEF BusOwned, Inside
<1> QED
  BY <1>2, <1>3, <1>5 DEF IInv

\* One step per action.
LEMMA NextIInv == IInv /\ [Next]_vars => IInv'
<1> SUFFICES ASSUME IInv, [Next]_vars
             PROVE  IInv'
  OBVIOUS
<1> USE DEF IInv
<1>0. CASE UNCHANGED vars
  BY <1>0 DEF vars, Shape, OneInside, BusOwned
<1>1. CASE Tick
  BY <1>1 DEF Tick, Shape, OneInside, BusOwned
<1>2. ASSUME NEW t \in Task, Switch(t)
      PROVE  IInv'
  BY <1>2 DEF Switch, Shape, OneInside, BusOwned, Inside
<1>3. ASSUME NEW t \in Task, Start(t)
      PROVE  IInv'
  <2>1. /\ running = t /\ pc[t] = "next" /\ pc'[t] = "start"
        /\ pc' \in [Task -> {"idle", "next", "start", "stop", "send"}]
        /\ \A u \in Task \ {t} : pc'[u] = pc[u] /\ pc[u] \notin Inside
    BY <1>3, GoesAlone DEF Start
  <2>2. irq' = FALSE /\ bus' = t /\ running' = t
    BY <1>3, <2>1 DEF Start
  <2> QED
    BY <2>1, <2>2 DEF Shape, OneInside, BusOwned, Inside
<1>4. ASSUME NEW t \in Task, Data(t)
      PROVE  IInv'
  <2>1. /\ running = t /\ pc[t] = "start" /\ pc'[t] = "stop"
        /\ pc' \in [Task -> {"idle", "next", "start", "stop", "send"}]
        /\ \A u \in Task \ {t} : pc'[u] = pc[u] /\ pc[u] \notin Inside
    BY <1>4, GoesAlone DEF Data
  <2>2. UNCHANGED <<irq, bus, running>>
    BY <1>4 DEF Data
  <2> QED
    BY <2>1, <2>2 DEF Shape, OneInside, BusOwned, Inside
<1>5. ASSUME NEW t \in Task, Stop(t)
      PROVE  IInv'
  <2>1. /\ running = t /\ pc[t] = "stop" /\ pc'[t] = "next"
        /\ pc' \in [Task -> {"idle", "next", "start", "stop", "send"}]
        /\ \A u \in Task \ {t} : pc'[u] = pc[u] /\ pc[u] \notin Inside
    BY <1>5, GoesAlone DEF Stop
  <2>2. irq' = TRUE /\ bus' = None /\ running' = running
    BY <1>5 DEF Stop
  <2> QED
    BY <2>1, <2>2, TaskAssumption DEF Shape, OneInside, BusOwned, Inside
<1>6. ASSUME NEW c \in Reader, AskDate(c) \/ AskStamp(c)
      PROVE  IInv'
  BY <1>6, Outside DEF AskDate, AskStamp, Begins, Task, Shape
<1>7. ASSUME NEW c \in Reader, DateRead(c)
      PROVE  IInv'
  <2>1. /\ running = c /\ pc[c] = "next" /\ pc'[c] = "send"
        /\ pc' \in [Task -> {"idle", "next", "start", "stop", "send"}]
        /\ \A u \in Task \ {c} : pc'[u] = pc[u] /\ pc[u] \notin Inside
    BY <1>7, GoesAlone DEF DateRead, Task
  <2>2. irq' = FALSE /\ UNCHANGED <<bus, running>>
    BY <1>7 DEF DateRead
  <2>3. bus = None
    BY <2>1, TaskAssumption DEF Shape, BusOwned, Inside
  <2> QED
    BY <2>1, <2>2, <2>3 DEF Shape, OneInside, BusOwned, Inside
<1>8. ASSUME NEW c \in Reader, DateSent(c) \/ StampRead(c)
      PROVE  IInv'
  BY <1>8, Outside DEF DateSent, StampRead, Finishes, Task, Shape
<1>9. CASE SaveLog \/ PrintSaved \/ LogSaved \/ LogsPrinted
  BY <1>9, Outside DEF SaveLog, PrintSaved, LogSaved, LogsPrinted, Begins, Finishes, Task, Shape
<1> QED
  BY <1>0, <1>1, <1>2, <1>3, <1>4, <1>5, <1>6, <1>7, <1>8, <1>9 DEF Next, Reader

\* IInv holds in every reachable state.
LEMMA AlwaysIInv == Spec => []IInv
BY InitIInv, NextIInv, PTL DEF Spec

\* Every transfer has the bus for itself from START to STOP (i2c.c:60-191),
\* whatever the callers do with the interrupts around it.
THEOREM BusIsExclusive == Spec => []TransfersWhole
<1>1. IInv => TransfersWhole
  BY DEF IInv, BusOwned, TransfersWhole
<1> QED
  BY AlwaysIInv, <1>1, PTL

\* The date goes out with the interrupts off and the bus free (server.c:272-283).
THEOREM DateSentMasked == Spec => []SendMasked
<1>1. IInv => SendMasked
  <2> SUFFICES ASSUME IInv, NEW c \in Reader, pc[c] = "send"
               PROVE  ~irq /\ running = c /\ bus = None
    BY DEF SendMasked
  <2>1. ~irq /\ running = c
    BY DEF IInv, OneInside, Inside, Task
  <2>2. ASSUME bus # None
        PROVE  FALSE
    <3>1. bus \in Task /\ pc[bus] \in {"start", "stop"}
      BY <2>2 DEF IInv, Shape, BusOwned
    <3>2. running = bus
      BY <3>1 DEF IInv, OneInside, Inside
    <3> QED
      BY <2>1, <3>1, <3>2
  <2> QED
    BY <2>1, <2>2
<1> QED
  BY AlwaysIInv, <1>1, PTL

--------------------------------------------------------------------------------
(* The rest of the module: a date or a stamp that is read register by register. *)

\* Quotient and remainder.
LEMMA Division ==
  ASSUME NEW m \in Nat \ {0}, NEW a \in Int
  PROVE  a \div m \in Int /\ a % m \in 0 .. m - 1 /\ a = m * (a \div m) + (a % m)
BY Z3

LEMMA UniqueQuotient ==
  ASSUME NEW m \in Nat \ {0}, NEW q \in Int, NEW r \in 0 .. m - 1, NEW a \in Int, a = m * q + r
  PROVE  a \div m = q /\ a % m = r
BY Z3

LEMMA DivisionOfNat ==
  ASSUME NEW m \in Nat \ {0}, NEW a \in Nat
  PROVE  a \div m \in Nat /\ a % m \in 0 .. m - 1 /\ a = m * (a \div m) + (a % m) /\ a % m <= a
BY Z3

LEMMA DivisionMonotonic ==
  ASSUME NEW m \in Nat \ {0}, NEW a \in Nat, NEW b \in Nat, a <= b
  PROVE  a \div m <= b \div m
BY Z3

\* Remainders of a sum: whole multiples do not count, and one more is one more.
LEMMA RemainderShift ==
  ASSUME NEW m \in Nat \ {0}, NEW a \in Int, NEW q \in Int, NEW b \in Int, b = m * q + a
  PROVE  b % m = a % m
<1>1. a \div m \in Int /\ a % m \in 0 .. m - 1 /\ a = m * (a \div m) + (a % m)
  BY Division
<1>2. b = m * (q + (a \div m)) + (a % m) /\ q + (a \div m) \in Int
  BY <1>1, Z3
<1> QED
  BY <1>1, <1>2, UniqueQuotient, ZenonT(30)

LEMMA RemainderNext ==
  ASSUME NEW m \in Nat \ {0}, NEW a \in Nat
  PROVE  (a + 1) % m = ((a % m) + 1) % m
<1> DEFINE b == a + 1  c == (a % m) + 1  q == a \div m
<1>1. b \in Int /\ c \in Int /\ q \in Int /\ b = m * q + c
  BY DivisionOfNat
<1>2. b % m = c % m
  <2> HIDE DEF b, c, q
  <2> QED
    BY <1>1, RemainderShift
<1> QED
  BY <1>2

\* The digits of a number to the bases m and n.
LEMMA Parts ==
  ASSUME NEW m \in Nat \ {0}, NEW n \in Nat \ {0}, NEW a \in Nat
  PROVE  /\ (a % (m * n)) % m = a % m
         /\ (a % (m * n)) \div m = (a \div m) % n
         /\ a \div (m * n) = (a \div m) \div n
<1> DEFINE p == m * n   q == a \div m  r == a % m  qq == q \div n  rr == q % n  s == m * rr + r
<1>1. q \in Nat /\ r \in 0 .. m - 1 /\ a = m * q + r
  BY DivisionOfNat
<1>2. qq \in Nat /\ rr \in 0 .. n - 1 /\ q = n * qq + rr
  BY <1>1, DivisionOfNat
<1>3. p \in Nat \ {0}
  BY Z3
<1>4. s \in 0 .. p - 1
  <2> HIDE DEF q, r, qq, rr
  <2>1. m * rr <= m * (n - 1) /\ m * rr \in Nat
    BY <1>1, <1>2, Z3
  <2> QED
    BY <1>1, <1>2, <2>1, Z3
<1>5. a = p * qq + s
  <2> HIDE DEF q, r, qq, rr
  <2> QED
    BY <1>1, <1>2, Z3
<1>6. a \div p = qq /\ a % p = s
  <2> HIDE DEF p, q, r, qq, rr, s
  <2> QED
    BY <1>2, <1>3, <1>4, <1>5, UniqueQuotient
<1>7. s \div m = rr /\ s % m = r
  <2>1. s = m * rr + r /\ s \in Int
    BY <1>1, <1>2
  <2> HIDE DEF q, r, qq, rr, s
  <2> QED
    BY <1>1, <1>2, <2>1, UniqueQuotient
<1> HIDE DEF p
<1>8. (a % p) % m = r /\ (a % p) \div m = rr /\ a \div p = qq
  BY <1>6, <1>7, Zenon
<1> QED
  BY <1>3, <1>8, Zenon DEF p, q, r, qq, rr

\* The same, one fact each.
LEMMA ProductRemainder ==
  ASSUME NEW m \in Nat \ {0}, NEW n \in Nat \ {0}, NEW a \in Nat
  PROVE  (a % (m * n)) % m = a % m
BY Parts

LEMMA ProductRemainderQuotient ==
  ASSUME NEW m \in Nat \ {0}, NEW n \in Nat \ {0}, NEW a \in Nat
  PROVE  (a % (m * n)) \div m = (a \div m) % n
BY Parts

LEMMA ProductQuotient ==
  ASSUME NEW m \in Nat \ {0}, NEW n \in Nat \ {0}, NEW a \in Nat
  PROVE  a \div (m * n) = (a \div m) \div n
BY Parts

\* A register is written and read in BCD: what is read is what was written.
LEMMA DecimalOfBcd == \A n \in 0 .. 99 : Decimal(Bcd(n)) = n
BY Z3 DEF Decimal, Bcd

\* Where a reading of seconds, minutes and hours, the first n of them done, may
\* come from: "now" counts on from midnight and never wraps, and each register was
\* read at a moment of the last "ticks".
DateSeen(d, n, ticks, time) ==
  \E now, t1, t2, t3 \in Nat :
    /\ now % Day = time
    /\ now - ticks <= t1 /\ t1 <= t2 /\ t2 <= t3 /\ t3 <= now
    /\ n >= 1 => d["sec"] = t1 % Seconds
    /\ n >= 2 => d["min"] = (t2 \div Seconds) % Minutes
    /\ n >= 3 => d["hour"] = (t3 \div (Seconds * Minutes)) % Hours

\* The same for hours and minutes.
StampSeen(d, n, ticks, time) ==
  \E now, t1, t2 \in Nat :
    /\ now % Day = time
    /\ now - ticks <= t1 /\ t1 <= t2 /\ t2 <= now
    /\ d["sec"] = 0
    /\ n >= 1 => d["hour"] = (t1 \div (Seconds * Minutes)) % Hours
    /\ n >= 2 => d["min"] = (t2 \div Seconds) % Minutes

LEMMA TimeIsPositive ==
  /\ Seconds \in 1 .. 99 /\ Minutes \in 1 .. 99 /\ Hours \in 1 .. 99
  /\ Seconds * Minutes \in Nat \ {0} /\ Day \in Nat \ {0} /\ Day = (Seconds * Minutes) * Hours
<1>1. Seconds \in 1 .. 99 /\ Minutes \in 1 .. 99 /\ Hours \in 1 .. 99
  BY TimeAssumption
<1>2. Seconds * Minutes \in Nat \ {0}
  BY <1>1, Z3
<1> DEFINE p == Seconds * Minutes
<1>3. p * Hours \in Nat \ {0}
  <2> HIDE DEF p
  <2> QED
    BY <1>1, <1>2, Z3 DEF p
<1> QED
  BY <1>1, <1>2, <1>3 DEF Day

\* A tick of the clock makes the reading older by one.
LEMMA DateTicks ==
  ASSUME NEW d, NEW n \in Nat, NEW ticks \in Nat, NEW time \in 0 .. Day - 1,
         DateSeen(d, n, ticks, time)
  PROVE  DateSeen(d, n, ticks + 1, (time + 1) % Day)
<1>1. PICK now \in Nat, t1 \in Nat, t2 \in Nat, t3 \in Nat :
        /\ now % Day = time
        /\ now - ticks <= t1 /\ t1 <= t2 /\ t2 <= t3 /\ t3 <= now
        /\ n >= 1 => d["sec"] = t1 % Seconds
        /\ n >= 2 => d["min"] = (t2 \div Seconds) % Minutes
        /\ n >= 3 => d["hour"] = (t3 \div (Seconds * Minutes)) % Hours
  BY DEF DateSeen
<1>2. (now + 1) % Day = (time + 1) % Day
  BY <1>1, TimeIsPositive, RemainderNext
<1>3. now + 1 \in Nat /\ (now + 1) - (ticks + 1) <= t1 /\ t3 <= now + 1
  BY <1>1
<1> QED
  BY <1>1, <1>2, <1>3, Zenon DEF DateSeen

LEMMA StampTicks ==
  ASSUME NEW d, NEW n \in Nat, NEW ticks \in Nat, NEW time \in 0 .. Day - 1,
         StampSeen(d, n, ticks, time)
  PROVE  StampSeen(d, n, ticks + 1, (time + 1) % Day)
<1>1. PICK now \in Nat, t1 \in Nat, t2 \in Nat :
        /\ now % Day = time
        /\ now - ticks <= t1 /\ t1 <= t2 /\ t2 <= now
        /\ d["sec"] = 0
        /\ n >= 1 => d["hour"] = (t1 \div (Seconds * Minutes)) % Hours
        /\ n >= 2 => d["min"] = (t2 \div Seconds) % Minutes
  BY DEF StampSeen
<1>2. (now + 1) % Day = (time + 1) % Day
  BY <1>1, TimeIsPositive, RemainderNext
<1>3. now + 1 \in Nat /\ (now + 1) - (ticks + 1) <= t1 /\ t2 <= now + 1
  BY <1>1
<1> QED
  BY <1>1, <1>2, <1>3, Zenon DEF StampSeen

\* What the registers show.
Shown(f, time) ==
  CASE f = "sec" -> time % Seconds
    [] f = "min" -> (time \div Seconds) % Minutes
    [] f = "hour" -> time \div (Seconds * Minutes)

\* The registers show parts of the unwrapped time.
LEMMA ShownParts ==
  ASSUME NEW now \in Nat, NEW time, now % Day = time
  PROVE  /\ Shown("sec", time) = now % Seconds
         /\ Shown("min", time) = (now \div Seconds) % Minutes
         /\ Shown("hour", time) = (now \div (Seconds * Minutes)) % Hours
<1> DEFINE p == Seconds * Minutes
<1>1. /\ p \in Nat \ {0} /\ Hours \in Nat \ {0} /\ Day = p * Hours
      /\ Seconds \in Nat \ {0} /\ Minutes \in Nat \ {0} /\ p = Seconds * Minutes
  BY TimeIsPositive
<1> HIDE DEF p
<1>2. (now % (p * Hours)) % p = now % p /\ (now % (p * Hours)) \div p = (now \div p) % Hours
  BY <1>1, ProductRemainder, ProductRemainderQuotient, ZenonT(30)
<1>3. ASSUME NEW t \in Nat
      PROVE  (t % p) % Seconds = t % Seconds /\ (t % p) \div Seconds = (t \div Seconds) % Minutes
  <2>1. /\ (t % (Seconds * Minutes)) % Seconds = t % Seconds
        /\ (t % (Seconds * Minutes)) \div Seconds = (t \div Seconds) % Minutes
    BY <1>1, ProductRemainder, ProductRemainderQuotient, ZenonT(30)
  <2> QED
    BY <1>1, <2>1
<1>4. time \in Nat
  BY TimeIsPositive, DivisionOfNat
<1> QED
  BY <1>1, <1>2, <1>3, <1>4 DEF Shown, p

\* Seconds, minutes, hours are read one after the other.
LEMMA DateGoesOn ==
  ASSUME NEW d \in [Field -> Nat], NEW n \in 0 .. 2, NEW ticks \in Nat, NEW time \in 0 .. Day - 1,
         DateSeen(d, n, ticks, time), NEW f \in Field, f = <<"sec", "min", "hour">>[n + 1]
  PROVE  DateSeen([d EXCEPT ![f] = Shown(f, time)], n + 1, ticks, time)
<1>1. PICK now \in Nat, t1 \in Nat, t2 \in Nat, t3 \in Nat :
        /\ now % Day = time
        /\ now - ticks <= t1 /\ t1 <= t2 /\ t2 <= t3 /\ t3 <= now
        /\ n >= 1 => d["sec"] = t1 % Seconds
        /\ n >= 2 => d["min"] = (t2 \div Seconds) % Minutes
        /\ n >= 3 => d["hour"] = (t3 \div (Seconds * Minutes)) % Hours
  BY DEF DateSeen
<1>2. /\ Shown("sec", time) = now % Seconds
      /\ Shown("min", time) = (now \div Seconds) % Minutes
      /\ Shown("hour", time) = (now \div (Seconds * Minutes)) % Hours
  BY <1>1, ShownParts
<1> DEFINE e == [d EXCEPT ![f] = Shown(f, time)]
<1>3. CASE n = 0
  <2>1. f = "sec" /\ e["sec"] = now % Seconds
    BY <1>2, <1>3 DEF Field
  <2>2. now - ticks <= now
    OBVIOUS
  <2>3. n + 1 = 1 /\ ~(1 >= 2) /\ ~(1 >= 3) /\ now <= now
    BY <1>3
  <2> HIDE DEF e
  <2> QED
    BY <1>1, <2>1, <2>2, <2>3, ZenonT(30) DEF DateSeen, e
<1>4. CASE n = 1
  <2>1. f = "min" /\ e["min"] = (now \div Seconds) % Minutes /\ e["sec"] = t1 % Seconds
    BY <1>1, <1>2, <1>4 DEF Field
  <2>2. n + 1 = 2 /\ ~(2 >= 3) /\ now <= now /\ t1 <= now
    BY <1>1, <1>4
  <2> HIDE DEF e
  <2> QED
    BY <1>1, <2>1, <2>2, Zenon DEF DateSeen, e
<1>5. CASE n = 2
  <2>1. /\ f = "hour" /\ e["hour"] = (now \div (Seconds * Minutes)) % Hours
        /\ e["sec"] = t1 % Seconds /\ e["min"] = (t2 \div Seconds) % Minutes
    BY <1>1, <1>2, <1>5 DEF Field
  <2>2. now <= now /\ t2 <= now
    BY <1>1
  <2> HIDE DEF e
  <2> QED
    BY <1>1, <2>1, <2>2, SMTT(30) DEF DateSeen, e
<1> QED
  BY <1>3, <1>4, <1>5

LEMMA StampGoesOn ==
  ASSUME NEW d \in [Field -> Nat], NEW n \in 0 .. 1, NEW ticks \in Nat, NEW time \in 0 .. Day - 1,
         StampSeen(d, n, ticks, time), NEW f \in Field, f = <<"hour", "min">>[n + 1]
  PROVE  StampSeen([d EXCEPT ![f] = Shown(f, time)], n + 1, ticks, time)
<1>1. PICK now \in Nat, t1 \in Nat, t2 \in Nat :
        /\ now % Day = time
        /\ now - ticks <= t1 /\ t1 <= t2 /\ t2 <= now
        /\ d["sec"] = 0
        /\ n >= 1 => d["hour"] = (t1 \div (Seconds * Minutes)) % Hours
        /\ n >= 2 => d["min"] = (t2 \div Seconds) % Minutes
  BY DEF StampSeen
<1>2. /\ Shown("min", time) = (now \div Seconds) % Minutes
      /\ Shown("hour", time) = (now \div (Seconds * Minutes)) % Hours
  BY <1>1, ShownParts
<1> DEFINE e == [d EXCEPT ![f] = Shown(f, time)]
<1>3. CASE n = 0
  <2>1. f = "hour" /\ e["hour"] = (now \div (Seconds * Minutes)) % Hours /\ e["sec"] = 0
    BY <1>1, <1>2, <1>3 DEF Field
  <2>2. n + 1 = 1 /\ ~(1 >= 2) /\ now <= now /\ now - ticks <= now
    BY <1>3
  <2> HIDE DEF e
  <2> QED
    BY <1>1, <2>1, <2>2, Zenon DEF StampSeen, e
<1>4. CASE n = 1
  <2>1. /\ f = "min" /\ e["min"] = (now \div Seconds) % Minutes
        /\ e["sec"] = 0 /\ e["hour"] = (t1 \div (Seconds * Minutes)) % Hours
    BY <1>1, <1>2, <1>4 DEF Field
  <2>2. t1 <= now /\ now <= now
    BY <1>1
  <2> HIDE DEF e
  <2> QED
    BY <1>1, <2>1, <2>2, Zenon DEF StampSeen, e
<1> QED
  BY <1>3, <1>4


\* A whole number of days makes no difference.
LEMMA DaysApart ==
  ASSUME NEW x \in Int, NEW y \in Nat, NEW k \in Int, y = Day * k + x
  PROVE  x % Day \in Nat /\ x % Day <= y
<1>1. Day \in Nat \ {0} /\ y \in Int
  BY TimeIsPositive
<1>2. y % Day = x % Day
  BY <1>1, RemainderShift, Zenon
<1>3. y % Day \in 0 .. Day - 1 /\ y % Day <= y
  BY <1>1, DivisionOfNat, Zenon
<1> QED
  BY <1>1, <1>2, <1>3

\* Minutes and hours of a moment, the hours not wrapped.
LEMMA Moment ==
  ASSUME NEW t \in Nat
  PROVE  /\ t \div Seconds \in Nat /\ t \div (Seconds * Minutes) \in Nat
         /\ t % Seconds \in 0 .. Seconds - 1 /\ t = Seconds * (t \div Seconds) + (t % Seconds)
         /\ (t \div Seconds) % Minutes \in 0 .. Minutes - 1
         /\ t \div Seconds = Minutes * (t \div (Seconds * Minutes)) + ((t \div Seconds) % Minutes)
         /\ (Seconds * Minutes) * (t \div (Seconds * Minutes)) <= t
         /\ t < (Seconds * Minutes) * (t \div (Seconds * Minutes)) + Seconds * Minutes
<1>1. Seconds \in Nat \ {0} /\ Minutes \in Nat \ {0}
  BY TimeIsPositive
<1> DEFINE q == t \div Seconds
<1>2. q \in Nat /\ t % Seconds \in 0 .. Seconds - 1 /\ t = Seconds * q + (t % Seconds)
  BY <1>1, DivisionOfNat
<1>3. q \div Minutes \in Nat /\ q % Minutes \in 0 .. Minutes - 1 /\ q = Minutes * (q \div Minutes) + (q % Minutes)
  BY <1>1, <1>2, DivisionOfNat
<1>4. t \div (Seconds * Minutes) = q \div Minutes
  BY <1>1, ProductQuotient, Zenon
<1> DEFINE p == Seconds * Minutes
<1>5. p * (t \div p) <= t /\ t < p * (t \div p) + p
  <2>1. p \in Nat \ {0}
    BY TimeIsPositive
  <2> HIDE DEF p
  <2>2. p * (t \div p) \in Int
    BY <2>1, Z3
  <2> QED
    BY <2>1, <2>2, DivisionOfNat
<1> QED
  BY <1>2, <1>3, <1>4, <1>5

\* How far the hour that is shown is from one that is not wrapped.
LEMMA WholeDays ==
  ASSUME NEW d \in [Field -> Nat], NEW h \in Nat, d["hour"] = h % Hours
  PROVE  \E k \in Nat : d["sec"] + Seconds * (d["min"] + Minutes * h) = TimeOf(d) + Day * k
<1> DEFINE s == d["sec"]  m == d["min"]  g == d["hour"]  k == h \div Hours
<1>1. s \in Nat /\ m \in Nat /\ g \in Nat /\ k \in Nat /\ h = Hours * k + g
  BY TimeIsPositive, DivisionOfNat DEF Field
<1>2. Seconds \in Nat /\ Minutes \in Nat /\ Hours \in Nat
  BY TimeIsPositive
<1>3. s + Seconds * (m + Minutes * h) = (s + Seconds * (m + Minutes * g)) + ((Seconds * Minutes) * Hours) * k
  <2> HIDE DEF s, m, g, k
  <2> QED
    BY <1>1, <1>2, Z3
<1> QED
  BY <1>1, <1>3, TimeIsPositive, Zenon DEF TimeOf

\* Seconds are read first and hours last, so a complete date is at or ahead of the
\* beginning of its reading, by less than the reading took and an hour.
LEMMA DateBound ==
  ASSUME NEW d \in [Field -> Nat], NEW n \in Nat, n >= 3, NEW ticks \in Nat, NEW time \in 0 .. Day - 1,
         DateSeen(d, n, ticks, time)
  PROVE  (TimeOf(d) - (time - ticks)) % Day < ticks + Seconds * Minutes
<1>1. PICK now \in Nat, t1 \in Nat, t2 \in Nat, t3 \in Nat :
        /\ now % Day = time
        /\ now - ticks <= t1 /\ t1 <= t2 /\ t2 <= t3 /\ t3 <= now
        /\ d["sec"] = t1 % Seconds
        /\ d["min"] = (t2 \div Seconds) % Minutes
        /\ d["hour"] = (t3 \div (Seconds * Minutes)) % Hours
  BY DEF DateSeen
<1> DEFINE h == t3 \div (Seconds * Minutes)
           u == d["sec"] + Seconds * (d["min"] + Minutes * h)
<1>2. h \in Nat
  BY Moment
<1>3. PICK k \in Nat : u = TimeOf(d) + Day * k
  BY <1>1, <1>2, WholeDays
<1>4. now \div Day \in Nat /\ now = Day * (now \div Day) + time
  BY <1>1, TimeIsPositive, DivisionOfNat
<1> DEFINE s == d["sec"]  m == d["min"]  q1 == t1 \div Seconds  q2 == t2 \div Seconds
           g == t2 \div (Seconds * Minutes)
<1>5. /\ s \in 0 .. Seconds - 1 /\ q1 \in Nat /\ t1 = Seconds * q1 + s
      /\ m \in 0 .. Minutes - 1 /\ g \in Nat /\ q2 \in Nat /\ q2 = Minutes * g + m
  BY <1>1, Moment
<1>6. q1 <= q2 /\ g <= h
  <2>1. Seconds \in Nat \ {0} /\ Seconds * Minutes \in Nat \ {0}
    BY TimeIsPositive
  <2> QED
    BY <1>1, <2>1, DivisionMonotonic, Zenon
<1>7. (Seconds * Minutes) * h <= t3
  BY Moment
<1>8. Seconds \in Nat /\ Minutes \in Nat
  BY TimeIsPositive
<1>9. t1 <= u /\ u < t3 + Seconds * Minutes
  <2> HIDE DEF s, m, q1, q2, g, h
  <2>1. Minutes * g <= Minutes * h
    BY <1>2, <1>5, <1>6, <1>8, Z3
  <2>2. q1 <= m + Minutes * h
    BY <1>5, <1>6, <2>1, <1>2, <1>8, Z3
  <2>3. Seconds * q1 <= Seconds * (m + Minutes * h)
    <3> DEFINE v == m + Minutes * h
    <3>1. v \in Nat /\ q1 \in Nat /\ q1 <= v
      BY <1>2, <1>5, <1>8, <2>2, Z3
    <3>2. Seconds * q1 <= Seconds * v
      <4> HIDE DEF v
      <4> QED
        BY <1>8, <3>1, Z3
    <3> QED
      BY <3>2
  <2>4. Seconds * (m + Minutes * h) = Seconds * m + (Seconds * Minutes) * h
    BY <1>2, <1>5, <1>8, Z3
  <2>5. Seconds * m <= Seconds * Minutes - Seconds
    <3>1. Seconds * m <= Seconds * (Minutes - 1)
      BY <1>5, <1>8, Z3
    <3> QED
      BY <1>5, <1>8, <3>1, Z3
  <2> QED
    BY <1>1, <1>2, <1>5, <1>7, <1>8, <2>3, <2>4, <2>5, Z3 DEF s, m
<1> DEFINE x == TimeOf(d) - (time - ticks)  y == u - (now - ticks)  j == k - (now \div Day)
<1>10. x \in Int /\ j \in Int /\ y \in Nat /\ y < ticks + Seconds * Minutes /\ y = Day * j + x
  <2>1. TimeOf(d) \in Int /\ u \in Int
    <3>1. s \in Nat /\ m \in Nat /\ d["hour"] \in Nat
      BY DEF Field
    <3> QED
      BY <1>2, <1>8, <3>1, TimeIsPositive, Z3 DEF TimeOf
  <2>2. j \in Int /\ x \in Int
    BY <1>3, <1>4, <2>1
  <2>3. y = Day * j + x
    <3>1. y = (TimeOf(d) + Day * k) - (now - ticks) /\ now = Day * (now \div Day) + time
      BY <1>3, <1>4
    <3>2. Day \in Nat /\ k \in Nat /\ now \div Day \in Nat
      BY <1>3, <1>4, TimeIsPositive
    <3> HIDE DEF y
    <3> QED
      BY <2>1, <3>1, <3>2, Z3
  <2>4. y \in Nat /\ y < ticks + Seconds * Minutes
    <3> HIDE DEF u
    <3> QED
      BY <1>1, <1>9, <2>1, TimeIsPositive
  <2> QED
    BY <2>2, <2>3, <2>4
<1> QED
  <2> HIDE DEF x, y, j
  <2>1. x % Day \in Nat /\ x % Day <= y
    BY <1>10, DaysApart
  <2> QED
    BY <1>10, <2>1, TimeIsPositive DEF x

\* Hours are read first, so a stamp is at or behind the clock, by less than that.
LEMMA StampBound ==
  ASSUME NEW d \in [Field -> Nat], NEW n \in Nat, n >= 2, NEW ticks \in Nat, NEW time \in 0 .. Day - 1,
         StampSeen(d, n, ticks, time)
  PROVE  (time - TimeOf(d)) % Day < ticks + Seconds * Minutes
<1>1. PICK now \in Nat, t1 \in Nat, t2 \in Nat :
        /\ now % Day = time
        /\ now - ticks <= t1 /\ t1 <= t2 /\ t2 <= now
        /\ d["sec"] = 0
        /\ d["hour"] = (t1 \div (Seconds * Minutes)) % Hours
        /\ d["min"] = (t2 \div Seconds) % Minutes
  BY DEF StampSeen
<1> DEFINE h == t1 \div (Seconds * Minutes)
           u == d["sec"] + Seconds * (d["min"] + Minutes * h)
<1>2. h \in Nat
  BY Moment
<1>3. PICK k \in Nat : u = TimeOf(d) + Day * k
  BY <1>1, <1>2, WholeDays
<1>4. now \div Day \in Nat /\ now = Day * (now \div Day) + time
  BY <1>1, TimeIsPositive, DivisionOfNat
<1> DEFINE m == d["min"]  q2 == t2 \div Seconds  g == t2 \div (Seconds * Minutes)
<1>5. /\ m \in 0 .. Minutes - 1 /\ g \in Nat /\ q2 \in Nat /\ q2 = Minutes * g + m
      /\ t2 % Seconds \in Nat /\ t2 = Seconds * q2 + (t2 % Seconds)
  BY <1>1, Moment
<1>6. h <= g
  <2>1. Seconds * Minutes \in Nat \ {0}
    BY TimeIsPositive
  <2> QED
    BY <1>1, <2>1, DivisionMonotonic, Zenon
<1>7. t1 < (Seconds * Minutes) * h + Seconds * Minutes
  BY Moment
<1>8. Seconds \in Nat /\ Minutes \in Nat
  BY TimeIsPositive
<1>9. u <= t2 /\ t1 < u + Seconds * Minutes
  <2> HIDE DEF m, q2, g, h
  <2>1. Minutes * h <= Minutes * g
    BY <1>2, <1>5, <1>6, <1>8, Z3
  <2> DEFINE v == m + Minutes * h
  <2>2. v \in Nat /\ v <= q2
    BY <1>5, <1>6, <2>1, <1>2, <1>8, Z3
  <2>3. Seconds * v <= Seconds * q2
    <3> HIDE DEF v
    <3> QED
      BY <1>5, <1>8, <2>2, Z3
  <2>4. Seconds * v = Seconds * m + (Seconds * Minutes) * h /\ Seconds * m \in Nat
    BY <1>2, <1>5, <1>8, Z3
  <2>5. u = Seconds * v
    <3>1. Seconds * v \in Int
      BY <1>2, <1>5, <1>8, Z3
    <3> QED
      BY <1>1, <3>1 DEF m
  <2>6. Seconds * q2 \in Nat /\ (Seconds * Minutes) * h \in Nat /\ Seconds * Minutes \in Nat
    BY <1>2, <1>5, <1>8, Z3
  <2> HIDE DEF u, v
  <2> QED
    BY <1>1, <1>5, <1>7, <2>3, <2>4, <2>5, <2>6
<1> DEFINE x == time - TimeOf(d)  y == now - u  j == (now \div Day) - k
<1>10. x \in Int /\ j \in Int /\ y \in Nat /\ y < ticks + Seconds * Minutes /\ y = Day * j + x
  <2>1. TimeOf(d) \in Int /\ u \in Int
    <3>1. m \in Nat /\ d["hour"] \in Nat
      BY DEF Field
    <3> QED
      BY <1>1, <1>2, <1>8, <3>1, TimeIsPositive, Z3 DEF TimeOf
  <2>2. j \in Int /\ x \in Int
    BY <1>3, <1>4, <2>1
  <2>3. y = Day * j + x
    <3>1. y = now - (TimeOf(d) + Day * k) /\ now = Day * (now \div Day) + time
      BY <1>3, <1>4
    <3>2. Day \in Nat /\ k \in Nat /\ now \div Day \in Nat
      BY <1>3, <1>4, TimeIsPositive
    <3> HIDE DEF y
    <3> QED
      BY <2>1, <3>1, <3>2, Z3
  <2>4. y \in Nat /\ y < ticks + Seconds * Minutes
    <3> HIDE DEF u
    <3> QED
      BY <1>1, <1>9, <2>1, TimeIsPositive
  <2> QED
    BY <2>2, <2>3, <2>4
<1> QED
  <2> HIDE DEF x, y, j
  <2>1. x % Day \in Nat /\ x % Day <= y
    BY <1>10, DaysApart
  <2> QED
    BY <1>10, <2>1, TimeIsPositive DEF x

-----------------------------------------------------------------------------

Place == {"idle", "next", "start", "stop", "send"}

\* A transfer is about the first of the items that are left.
Pending == \A t \in Task : pc[t] \in {"start", "stop"} => todo[t] # <<>>

LEMMA TimesPositive ==
  Seconds > 0 /\ Minutes > 0 /\ Hours > 0 /\ MaxTicks \in Nat
BY TimeAssumption

\* Types, and that a transfer under way is one that is still to be done.
LEMMA InitType == Init => TypeOK /\ Pending
<1> SUFFICES ASSUME Init
             PROVE  TypeOK /\ Pending
  OBVIOUS
<1>1. clock \in 0 .. Day - 1
  BY TimeIsPositive DEF Init
<1>2. date \in [Reader -> [Field -> Nat]] /\ \A c \in Reader : \A f \in Field : date[c][f] = 0
  BY DEF Init, Midnight
<1>3. \A c \in Reader : date[c]["sec"] < Seconds /\ date[c]["min"] < Minutes /\ date[c]["hour"] < Hours
  BY <1>2, TimesPositive DEF Field
<1>4. elapsed \in [Reader -> 0 .. MaxTicks]
  BY TimesPositive DEF Init
<1>5. todo \in [Task -> Seq(Item)]
  BY DEF Init
<1> QED
  BY <1>1, <1>2, <1>3, <1>4, <1>5 DEF Init, TypeOK, Pending

\* What a read of a register of the clock brings.
LEMMA RegisterShows ==
  ASSUME TypeOK, NEW f \in Field
  PROVE  /\ Decimal(RtcRegister(f)) = Shown(f, clock) /\ Shown(f, clock) \in Nat
         /\ f = "sec" => Shown(f, clock) < Seconds
         /\ f = "min" => Shown(f, clock) < Minutes
         /\ f = "hour" => Shown(f, clock) < Hours
<1>1. clock \in Nat /\ clock % Day = clock
  <2>1. Day \in Nat \ {0} /\ clock \in 0 .. Day - 1
    BY TimeIsPositive DEF TypeOK
  <2> HIDE DEF Day
  <2> QED
    BY <2>1, Z3
<1>2. /\ Shown("sec", clock) = clock % Seconds
      /\ Shown("min", clock) = (clock \div Seconds) % Minutes
      /\ Shown("hour", clock) = (clock \div (Seconds * Minutes)) % Hours
  BY <1>1, ShownParts
<1>3. /\ clock % Seconds \in 0 .. Seconds - 1
      /\ (clock \div Seconds) % Minutes \in 0 .. Minutes - 1
      /\ (clock \div (Seconds * Minutes)) % Hours \in 0 .. Hours - 1
  <2>1. clock \div (Seconds * Minutes) \in Nat /\ clock \div Seconds \in Nat
    BY <1>1, Moment
  <2>2. Hours \in Nat \ {0} /\ Seconds \in Nat \ {0}
    BY TimeIsPositive
  <2> QED
    BY <1>1, <2>1, <2>2, DivisionOfNat, Moment, Zenon
<1>4. /\ Shown("sec", clock) \in 0 .. Seconds - 1
      /\ Shown("min", clock) \in 0 .. Minutes - 1
      /\ Shown("hour", clock) \in 0 .. Hours - 1
  BY <1>2, <1>3, Zenon
<1>5. Shown(f, clock) \in 0 .. 99
  BY <1>4, TimeIsPositive DEF Field
<1>6. RtcRegister(f) = Bcd(Shown(f, clock))
  BY DEF RtcRegister, Shown, Field
<1>7. Decimal(RtcRegister(f)) = Shown(f, clock)
  BY <1>5, <1>6, DecimalOfBcd, Zenon
<1>8. Shown("sec", clock) < Seconds /\ Shown("min", clock) < Minutes /\ Shown("hour", clock) < Hours
  <2> DEFINE x == Shown("sec", clock)  y == Shown("min", clock)  z == Shown("hour", clock)
  <2>1. x \in 0 .. Seconds - 1 /\ y \in 0 .. Minutes - 1 /\ z \in 0 .. Hours - 1
    BY <1>4
  <2> HIDE DEF x, y, z
  <2>2. x < Seconds /\ y < Minutes /\ z < Hours
    BY <2>1, TimeIsPositive
  <2> QED
    BY <2>2 DEF x, y, z
<1>9. Shown(f, clock) \in Nat
  BY <1>5
<1> QED
  BY <1>7, <1>8, <1>9, Zenon DEF Field

\* A read of the clock, and of anything else.
LEMMA DataReads ==
  ASSUME TypeOK, Pending, NEW t \in Task, Data(t)
  PROVE  /\ running = t /\ pc[t] = "start" /\ pc' = [pc EXCEPT ![t] = "stop"]
         /\ Len(todo[t]) \in Nat \ {0} /\ Head(todo[t]) = todo[t][1]
         /\ date' = IF todo[t][1] \in Field /\ t \in Reader
                    THEN [date EXCEPT ![t] = [@ EXCEPT ![todo[t][1]] = Shown(todo[t][1], clock)]]
                    ELSE date
<1>1. running = t /\ pc[t] = "start" /\ pc' = [pc EXCEPT ![t] = "stop"]
  BY DEF Data, Goes
<1>2. todo[t] \in Seq(Item) /\ todo[t] # <<>>
  BY <1>1 DEF TypeOK, Pending
<1>3. Len(todo[t]) \in Nat \ {0} /\ Head(todo[t]) = todo[t][1]
  BY <1>2
<1> DEFINE f == todo[t][1]
<1>4. date' = IF f \in Field THEN [date EXCEPT ![t][f] = Decimal(RtcRegister(f))] ELSE date
  BY <1>3 DEF Data
<1>5. CASE f \in Field /\ t \in Reader
  <2>1. Decimal(RtcRegister(f)) = Shown(f, clock)
    BY <1>5, RegisterShows
  <2> HIDE DEF f
  <2>2. date' = [date EXCEPT ![t] = [@ EXCEPT ![f] = Shown(f, clock)]]
    BY <1>4, <1>5, <2>1
  <2> QED
    BY <1>1, <1>3, <1>5, <2>2 DEF f
<1>6. CASE f \in Field /\ t \notin Reader
  <2>1. date = [c \in Reader |-> date[c]]
    BY DEF TypeOK
  <2>2. date' = date
    BY <1>4, <1>6, <2>1
  <2> QED
    BY <1>1, <1>3, <1>6, <2>2
<1>7. CASE f \notin Field
  BY <1>1, <1>3, <1>4, <1>7
<1> QED
  BY <1>5, <1>6, <1>7

\* Only who goes moves.
LEMMA GoesType ==
  ASSUME TypeOK, NEW t \in Task, NEW from, NEW to \in Place, Goes(t, from, to)
  PROVE  /\ pc' \in [Task -> Place] /\ pc'[t] = to /\ pc[t] = from
         /\ \A u \in Task \ {t} : pc'[u] = pc[u]
BY DEF TypeOK, Goes, Place

LEMMA BeginsType ==
  ASSUME TypeOK, Pending, NEW t \in Task, NEW what \in {"date", "stamp", "save", "print"},
         NEW items \in Seq(Item), Begins(t, what, items), irq' \in BOOLEAN
  PROVE  TypeOK' /\ Pending'
<1>1. /\ pc' \in [Task -> Place] /\ pc'[t] = "next"
      /\ \A u \in Task \ {t} : pc'[u] = pc[u]
  BY GoesType DEF Begins, Place
<1>2. job' \in [Task -> {"date", "stamp", "save", "print"}] /\ todo' \in [Task -> Seq(Item)]
  BY DEF TypeOK, Begins
<1>3. \A u \in Task \ {t} : todo'[u] = todo[u]
  BY DEF TypeOK, Begins
<1>4. UNCHANGED <<running, bus, clock, date, elapsed>>
  BY DEF Begins
<1>5. TypeOK'
  BY <1>1, <1>2, <1>4 DEF TypeOK, Place
<1>6. Pending'
  BY <1>1, <1>3 DEF Pending
<1> QED
  BY <1>5, <1>6

\* The end of a job of a child.
LEMMA GoneType ==
  ASSUME TypeOK, NEW c \in Reader, Gone(c)
  PROVE  /\ date' \in [Reader -> [Field -> Nat]] /\ elapsed' \in [Reader -> 0 .. MaxTicks]
         /\ \A u \in Reader : date'[u]["sec"] < Seconds /\ date'[u]["min"] < Minutes /\ date'[u]["hour"] < Hours
         /\ date'[c] = Midnight /\ elapsed'[c] = 0
         /\ \A u \in Reader \ {c} : date'[u] = date[u] /\ elapsed'[u] = elapsed[u]
<1>1. Midnight \in [Field -> Nat] /\ \A f \in Field : Midnight[f] = 0
  BY DEF Midnight
<1>2. "sec" \in Field /\ "min" \in Field /\ "hour" \in Field
  BY DEF Field
<1> QED
  BY <1>1, <1>2, TimesPositive DEF TypeOK, Gone

LEMMA FinishType ==
  ASSUME TypeOK, Pending, NEW t \in Task, NEW from, Goes(t, from, "idle"), Finishes(t), irq' \in BOOLEAN,
         date' \in [Reader -> [Field -> Nat]], elapsed' \in [Reader -> 0 .. MaxTicks],
         \A u \in Reader : date'[u]["sec"] < Seconds /\ date'[u]["min"] < Minutes /\ date'[u]["hour"] < Hours
  PROVE  TypeOK' /\ Pending'
<1>1. /\ pc' \in [Task -> Place] /\ pc'[t] = "idle"
      /\ \A u \in Task \ {t} : pc'[u] = pc[u]
  BY GoesType DEF Place
<1>2. UNCHANGED <<running, bus, clock, job, todo>>
  BY DEF Finishes
<1> QED
  BY <1>1, <1>2 DEF TypeOK, Pending, Place

\* Every step keeps the types.
LEMMA NextType == TypeOK /\ Pending /\ [Next]_vars => TypeOK' /\ Pending'
<1> SUFFICES ASSUME TypeOK, Pending, [Next]_vars
             PROVE  TypeOK' /\ Pending'
  OBVIOUS
<1>0. CASE UNCHANGED vars
  BY <1>0 DEF vars, TypeOK, Pending
<1>1. CASE Tick
  <2>1. clock' \in 0 .. Day - 1
    <3>1. Day \in Nat \ {0} /\ clock + 1 \in Nat /\ clock' = (clock + 1) % Day
      BY <1>1, TimeIsPositive DEF Tick, TypeOK
    <3> QED
      BY <3>1, DivisionOfNat, Zenon
  <2>2. elapsed' \in [Reader -> 0 .. MaxTicks]
    BY <1>1, TimesPositive DEF Tick, TypeOK
  <2> QED
    BY <1>1, <2>1, <2>2 DEF Tick, TypeOK, Pending
<1>2. ASSUME NEW t \in Task, Switch(t)
      PROVE  TypeOK' /\ Pending'
  BY <1>2 DEF Switch, TypeOK, Pending
<1>3. ASSUME NEW t \in Task, Start(t)
      PROVE  TypeOK' /\ Pending'
  <2>1. pc' \in [Task -> Place] /\ \A u \in Task \ {t} : pc'[u] = pc[u]
    BY <1>3, GoesType DEF Start, Place
  <2> QED
    BY <1>3, <2>1 DEF Start, TypeOK, Pending, Place
<1>4. ASSUME NEW t \in Task, Data(t)
      PROVE  TypeOK' /\ Pending'
  <2>1. pc' \in [Task -> Place] /\ pc[t] = "start" /\ \A u \in Task \ {t} : pc'[u] = pc[u]
    BY <1>4, GoesType DEF Data, Place
  <2>2. UNCHANGED <<irq, running, bus, clock, job, todo, elapsed>>
    BY <1>4 DEF Data
  <2>3. /\ date' \in [Reader -> [Field -> Nat]]
        /\ \A u \in Reader : date'[u]["sec"] < Seconds /\ date'[u]["min"] < Minutes /\ date'[u]["hour"] < Hours
    <3>1. CASE todo[t][1] \in Field /\ t \in Reader
      <4> DEFINE f == todo[t][1]  v == Shown(f, clock)
      <4>1. /\ f \in Field /\ v \in Nat
            /\ f = "sec" => v < Seconds
            /\ f = "min" => v < Minutes
            /\ f = "hour" => v < Hours
        BY <3>1, RegisterShows
      <4>2. date' = [date EXCEPT ![t] = [@ EXCEPT ![f] = v]]
        BY <1>4, <3>1, DataReads
      <4> HIDE DEF f, v
      <4>3. date' \in [Reader -> [Field -> Nat]]
        BY <3>1, <4>1, <4>2 DEF TypeOK
      <4>4. ASSUME NEW u \in Reader, NEW g \in Field
            PROVE  date'[u][g] = IF u = t /\ g = f THEN v ELSE date[u][g]
        BY <3>1, <4>1, <4>2 DEF TypeOK
      <4> QED
        BY <4>1, <4>3, <4>4 DEF TypeOK, Field
    <3>2. CASE ~(todo[t][1] \in Field /\ t \in Reader)
      BY <1>4, <3>2, DataReads DEF TypeOK
    <3> QED
      BY <3>1, <3>2
  <2> QED
    BY <2>1, <2>2, <2>3 DEF TypeOK, Pending, Place
<1>5. ASSUME NEW t \in Task, Stop(t)
      PROVE  TypeOK' /\ Pending'
  <2>1. pc' \in [Task -> Place] /\ pc[t] = "stop" /\ pc'[t] = "next" /\ \A u \in Task \ {t} : pc'[u] = pc[u]
    BY <1>5, GoesType DEF Stop, Place
  <2>2. todo' \in [Task -> Seq(Item)] /\ \A u \in Task \ {t} : todo'[u] = todo[u]
    <3>1. todo[t] \in Seq(Item) /\ todo[t] # <<>>
      BY <2>1 DEF TypeOK, Pending
    <3>2. Tail(todo[t]) \in Seq(Item)
      BY <3>1
    <3>3. todo' = [todo EXCEPT ![t] = Tail(todo[t])]
      BY <1>5 DEF Stop
    <3> QED
      BY <3>2, <3>3 DEF TypeOK
  <2>3. irq' = TRUE /\ bus' = None /\ UNCHANGED <<running, clock, job, date, elapsed>>
    BY <1>5 DEF Stop
  <2> QED
    BY <2>1, <2>2, <2>3 DEF TypeOK, Pending, Place
<1>6. ASSUME NEW c \in Reader, AskDate(c) \/ AskStamp(c)
      PROVE  TypeOK' /\ Pending'
  <2>1. DateRegisters \in Seq(Item) /\ StampRegisters \in Seq(Item)
    BY DEF DateRegisters, StampRegisters, Item, Field
  <2>2. irq' \in BOOLEAN /\ c \in Task
    BY <1>6 DEF AskDate, AskStamp, TypeOK, Task
  <2> QED
    BY <1>6, <2>1, <2>2, BeginsType DEF AskDate, AskStamp
<1>7. ASSUME NEW c \in Reader, DateRead(c)
      PROVE  TypeOK' /\ Pending'
  <2>1. pc' \in [Task -> Place] /\ pc'[c] = "send" /\ \A u \in Task \ {c} : pc'[u] = pc[u]
    BY <1>7, GoesType DEF DateRead, Place, Task
  <2> QED
    BY <1>7, <2>1 DEF DateRead, TypeOK, Pending, Place
<1>8. ASSUME NEW c \in Reader, DateSent(c) \/ StampRead(c)
      PROVE  TypeOK' /\ Pending'
  <2>1. /\ date' \in [Reader -> [Field -> Nat]] /\ elapsed' \in [Reader -> 0 .. MaxTicks]
        /\ \A u \in Reader : date'[u]["sec"] < Seconds /\ date'[u]["min"] < Minutes /\ date'[u]["hour"] < Hours
    BY <1>8, GoneType DEF DateSent, StampRead
  <2>2. irq' \in BOOLEAN /\ c \in Task
    BY <1>8 DEF DateSent, StampRead, TypeOK, Task
  <2> QED
    BY <1>8, <2>1, <2>2, FinishType DEF DateSent, StampRead
<1>9. CASE SaveLog
  <2>1. PICK n \in 1 .. 2 : Begins(Eeprom, "save", [i \in 1 .. n |-> "page"]) /\ irq' = FALSE
    BY <1>9 DEF SaveLog
  <2>2. [i \in 1 .. n |-> "page"] \in Seq(Item)
    BY DEF Item
  <2> QED
    BY <2>1, <2>2, BeginsType DEF Task
<1>10. CASE PrintSaved
  <2>1. <<"page", "page">> \in Seq(Item)
    BY DEF Item
  <2> QED
    BY <1>10, <2>1, BeginsType DEF PrintSaved, Task
<1>11. CASE LogSaved \/ LogsPrinted
  <2>1. /\ date' \in [Reader -> [Field -> Nat]] /\ elapsed' \in [Reader -> 0 .. MaxTicks]
        /\ \A u \in Reader : date'[u]["sec"] < Seconds /\ date'[u]["min"] < Minutes /\ date'[u]["hour"] < Hours
    BY <1>11 DEF LogSaved, LogsPrinted, TypeOK
  <2> QED
    BY <1>11, <2>1, FinishType DEF LogSaved, LogsPrinted, Task
<1> QED
  BY <1>0, <1>1, <1>2, <1>3, <1>4, <1>5, <1>6, <1>7, <1>8, <1>9, <1>10, <1>11 DEF Next, Reader

-----------------------------------------------------------------------------

\* What is left to be read is the end of the list of registers.
Left(left, all) ==
  Len(left) <= Len(all) /\ \A i \in 1 .. Len(left) : left[i] = all[Len(all) - Len(left) + i]

\* The number of registers read; the one on the bus counts before it is struck off.
Got(left, place, all) == Len(all) - Len(left) + (IF place = "stop" THEN 1 ELSE 0)

Reading(place, what, left, d, ticks, time) ==
  /\ place = "idle" => d = Midnight /\ ticks = 0
  /\ place = "send" => what = "date" /\ left = <<>>
  /\ place # "idle" /\ what = "date" =>
       Left(left, DateRegisters) /\ DateSeen(d, Got(left, place, DateRegisters), ticks, time)
  /\ place # "idle" /\ what = "stamp" =>
       Left(left, StampRegisters) /\ StampSeen(d, Got(left, place, StampRegisters), ticks, time)

Readings == \A c \in Reader : Reading(pc[c], job[c], todo[c], date[c], elapsed[c], clock)

\* A job begins with nothing read and the clock as it is.
LEMMA ReadingBegins ==
  ASSUME NEW time \in 0 .. Day - 1,
         NEW what, NEW left, (what = "date" /\ left = DateRegisters) \/ (what = "stamp" /\ left = StampRegisters)
  PROVE  Reading("next", what, left, Midnight, 0, time)
<1>1. time \in Nat /\ time % Day = time
  <2>1. Day \in Nat \ {0}
    BY TimeIsPositive
  <2> HIDE DEF Day
  <2> QED
    BY <2>1, Z3
<1>2. DateSeen(Midnight, 0, 0, time)
  <2>1. ~(0 >= 1) /\ ~(0 >= 2) /\ ~(0 >= 3) /\ time - 0 <= time /\ time <= time
    BY <1>1
  <2> QED
    BY <1>1, <2>1, Zenon DEF DateSeen
<1>3. StampSeen(Midnight, 0, 0, time)
  <2>1. ~(0 >= 1) /\ ~(0 >= 2) /\ time - 0 <= time /\ time <= time /\ Midnight["sec"] = 0
    BY <1>1 DEF Midnight, Field
  <2> QED
    BY <1>1, <2>1, Zenon DEF StampSeen
<1>4. Left(DateRegisters, DateRegisters) /\ Got(DateRegisters, "next", DateRegisters) = 0
  BY DEF Left, Got, DateRegisters
<1>5. Left(StampRegisters, StampRegisters) /\ Got(StampRegisters, "next", StampRegisters) = 0
  BY DEF Left, Got, StampRegisters
<1> QED
  BY <1>2, <1>3, <1>4, <1>5 DEF Reading

LEMMA ReadingTicks ==
  ASSUME NEW place \in Place \ {"idle"}, NEW what, NEW left \in Seq(Item), NEW d, NEW ticks \in Nat,
         NEW time \in 0 .. Day - 1, Reading(place, what, left, d, ticks, time)
  PROVE  Reading(place, what, left, d, ticks + 1, (time + 1) % Day)
<1>1. CASE what = "date"
  <2>1. Got(left, place, DateRegisters) \in Nat
    BY <1>1 DEF Reading, Left, Got, DateRegisters
  <2>2. DateSeen(d, Got(left, place, DateRegisters), ticks + 1, (time + 1) % Day)
    BY <1>1, <2>1, DateTicks DEF Reading
  <2> QED
    BY <1>1, <2>2, Zenon DEF Reading
<1>2. CASE what = "stamp"
  <2>1. Got(left, place, StampRegisters) \in Nat
    BY <1>2 DEF Reading, Left, Got, StampRegisters
  <2>2. StampSeen(d, Got(left, place, StampRegisters), ticks + 1, (time + 1) % Day)
    BY <1>2, <2>1, StampTicks DEF Reading
  <2> QED
    BY <1>2, <2>2, Zenon DEF Reading
<1>3. CASE what \notin {"date", "stamp"}
  BY <1>3 DEF Reading
<1> QED
  BY <1>1, <1>2, <1>3

LEMMA ReadingStarts ==
  ASSUME NEW what, NEW left, NEW d, NEW ticks, NEW time, Reading("next", what, left, d, ticks, time)
  PROVE  Reading("start", what, left, d, ticks, time)
BY DEF Reading, Got

LEMMA ReadingStops ==
  ASSUME NEW what, NEW left \in Seq(Item), left # <<>>, NEW d, NEW ticks, NEW time,
         Reading("stop", what, left, d, ticks, time)
  PROVE  Reading("next", what, Tail(left), d, ticks, time)
<1>1. /\ Len(left) \in Nat \ {0} /\ Len(Tail(left)) = Len(left) - 1
      /\ \A i \in 1 .. Len(left) - 1 : Tail(left)[i] = left[i + 1]
  OBVIOUS
<1>2. ASSUME NEW all \in {DateRegisters, StampRegisters}, Left(left, all)
      PROVE  Left(Tail(left), all) /\ Got(Tail(left), "next", all) = Got(left, "stop", all)
  <2>1. Len(all) \in Nat
    BY DEF DateRegisters, StampRegisters
  <2>2. Got(Tail(left), "next", all) = Got(left, "stop", all)
    BY <1>1, <2>1 DEF Got
  <2>3. ASSUME NEW i \in 1 .. Len(Tail(left))
        PROVE  Tail(left)[i] = all[Len(all) - Len(Tail(left)) + i]
    <3>1. i + 1 \in 1 .. Len(left) /\ Len(all) - Len(left) + (i + 1) = Len(all) - Len(Tail(left)) + i
      BY <1>1, <2>1
    <3>2. Tail(left)[i] = left[i + 1]
      BY <1>1
    <3>3. left[i + 1] = all[Len(all) - Len(left) + (i + 1)]
      BY <1>2, <3>1 DEF Left
    <3> QED
      BY <3>1, <3>2, <3>3
  <2> QED
    BY <1>1, <1>2, <2>1, <2>2, <2>3 DEF Left
<1> QED
  BY <1>2, Zenon DEF Reading

LEMMA DateComplete ==
  ASSUME NEW d, NEW n \in Nat, n >= 3, NEW ticks, NEW time, DateSeen(d, n, ticks, time)
  PROVE  DateSeen(d, n + 1, ticks, time)
<1>1. n >= 1 /\ n >= 2
  OBVIOUS
<1> QED
  BY <1>1, Zenon DEF DateSeen

\* The register on the bus is the next of the list.
LEMMA ReadingReads ==
  ASSUME NEW what, NEW left \in Seq(Item), left # <<>>, NEW d \in [Field -> Nat], NEW ticks \in Nat,
         NEW time \in 0 .. Day - 1, Reading("start", what, left, d, ticks, time)
  PROVE  Reading("stop", what, left,
                 IF left[1] \in Field THEN [d EXCEPT ![left[1]] = Shown(left[1], time)] ELSE d, ticks, time)
<1> DEFINE f == left[1]  e == IF f \in Field THEN [d EXCEPT ![f] = Shown(f, time)] ELSE d
<1>1. Len(left) \in Nat \ {0} /\ 1 \in 1 .. Len(left)
  OBVIOUS
<1>2. CASE what = "date"
  <2> DEFINE n == Got(left, "start", DateRegisters)
  <2>1. /\ Left(left, DateRegisters) /\ DateSeen(d, n, ticks, time)
        /\ n = 6 - Len(left) /\ n \in 0 .. 5 /\ Got(left, "stop", DateRegisters) = n + 1
    <3>1. Left(left, DateRegisters) /\ DateSeen(d, n, ticks, time)
      BY <1>2, Zenon DEF Reading
    <3>2. Len(DateRegisters) = 6
      BY DEF DateRegisters
    <3>3. Len(left) <= 6
      BY <3>1, <3>2 DEF Left
    <3>4. n = 6 - Len(left) /\ Got(left, "stop", DateRegisters) = n + 1
      BY <1>1, <3>2 DEF Got
    <3> HIDE DEF n
    <3>5. n \in 0 .. 5
      <4> DEFINE k == Len(left)
      <4>1. k \in Nat \ {0} /\ k <= 6 /\ n = 6 - k
        BY <1>1, <3>3, <3>4
      <4> HIDE DEF k
      <4> QED
        BY <4>1
    <3> QED
      BY <3>1, <3>4, <3>5, Zenon
  <2>2. f = DateRegisters[n + 1]
    BY <1>1, <2>1 DEF Left, DateRegisters
  <2>3. CASE n \in 0 .. 2
    <3>1. f \in Field /\ f = <<"sec", "min", "hour">>[n + 1]
      BY <2>2, <2>3 DEF DateRegisters, Field
    <3> HIDE DEF f, n
    <3>2. DateSeen([d EXCEPT ![f] = Shown(f, time)], n + 1, ticks, time)
      BY <2>1, <2>3, <3>1, DateGoesOn
    <3> QED
      BY <1>2, <2>1, <3>1, <3>2 DEF Reading, f
  <2>4. CASE n \in 3 .. 5
    <3>1. f \notin Field
      BY <2>2, <2>4 DEF DateRegisters, Field
    <3> HIDE DEF f, n
    <3>2. DateSeen(d, n + 1, ticks, time)
      BY <2>1, <2>4, DateComplete
    <3> QED
      BY <1>2, <2>1, <3>1, <3>2 DEF Reading, f
  <2> QED
    BY <2>1, <2>3, <2>4
<1>3. CASE what = "stamp"
  <2> DEFINE n == Got(left, "start", StampRegisters)
  <2>1. /\ Left(left, StampRegisters) /\ StampSeen(d, n, ticks, time)
        /\ n = 2 - Len(left) /\ n \in 0 .. 1 /\ Got(left, "stop", StampRegisters) = n + 1
    BY <1>1, <1>3 DEF Reading, Left, Got, StampRegisters
  <2>2. f \in Field /\ f = <<"hour", "min">>[n + 1]
    BY <1>1, <2>1 DEF Left, StampRegisters, Field
  <2> HIDE DEF f, n
  <2>3. StampSeen([d EXCEPT ![f] = Shown(f, time)], n + 1, ticks, time)
    BY <2>1, <2>2, StampGoesOn
  <2> QED
    BY <1>3, <2>1, <2>2, <2>3 DEF Reading, f
<1>4. CASE what \notin {"date", "stamp"}
  BY <1>4 DEF Reading
<1> QED
  BY <1>2, <1>3, <1>4

LEMMA InitReadings == Init => Readings
BY DEF Init, Readings, Reading, Task

\* A step of another task, or one that has nothing to do with the reading.
LEMMA ReadingStays ==
  ASSUME Readings, NEW c \in Reader, UNCHANGED <<pc[c], job[c], todo[c], date[c], elapsed[c], clock>>
  PROVE  Reading(pc[c], job[c], todo[c], date[c], elapsed[c], clock)'
BY DEF Readings

\* Steps of a task leave the other children alone.
LEMMA OthersRead ==
  ASSUME TypeOK, Readings, NEW t \in Task, NEW c \in Reader \ {t}, NEW from, NEW to \in Place, Goes(t, from, to),
         UNCHANGED clock, todo'[c] = todo[c], job'[c] = job[c], date'[c] = date[c], elapsed'[c] = elapsed[c]
  PROVE  Reading(pc[c], job[c], todo[c], date[c], elapsed[c], clock)'
<1>1. pc'[c] = pc[c]
  BY GoesType DEF Task
<1> QED
  BY <1>1, ReadingStays

\* The job of any task begins; a child's is a reading from the start.
LEMMA BeginsReading ==
  ASSUME TypeOK, Readings, NEW t \in Task, NEW what, NEW items, Begins(t, what, items),
         t \in Reader => (what = "date" /\ items = DateRegisters) \/ (what = "stamp" /\ items = StampRegisters)
  PROVE  Readings'
<1> SUFFICES ASSUME NEW c \in Reader
             PROVE  Reading(pc[c], job[c], todo[c], date[c], elapsed[c], clock)'
  BY DEF Readings
<1>1. /\ Goes(t, "idle", "next") /\ UNCHANGED <<running, bus, clock, date, elapsed>>
      /\ job' = [job EXCEPT ![t] = what] /\ todo' = [todo EXCEPT ![t] = items]
  BY DEF Begins
<1>2. CASE c = t
  <2>1. pc[c] = "idle" /\ pc'[c] = "next" /\ job'[c] = what /\ todo'[c] = items
    BY <1>1, <1>2, GoesType DEF TypeOK, Place
  <2>2. date'[c] = Midnight /\ elapsed'[c] = 0 /\ clock' = clock
    BY <1>1, <2>1 DEF Readings, Reading
  <2>3. clock \in 0 .. Day - 1
    BY DEF TypeOK
  <2>4. Reading("next", what, items, Midnight, 0, clock)
    BY <1>2, <2>3, ReadingBegins
  <2> QED
    BY <2>1, <2>2, <2>4
<1>3. CASE c # t
  <2>1. c \in Reader \ {t} /\ "next" \in Place /\ job'[c] = job[c] /\ todo'[c] = todo[c]
    BY <1>1, <1>3 DEF TypeOK, Place, Task
  <2> QED
    BY <1>1, <2>1, OthersRead
<1> QED
  BY <1>2, <1>3

\* The job of a child is over.
LEMMA EndsReading ==
  ASSUME TypeOK, Readings, NEW t \in Reader, NEW from, Goes(t, from, "idle"), Finishes(t), Gone(t)
  PROVE  Readings'
<1> SUFFICES ASSUME NEW c \in Reader
             PROVE  Reading(pc[c], job[c], todo[c], date[c], elapsed[c], clock)'
  BY DEF Readings
<1>1. /\ date'[t] = Midnight /\ elapsed'[t] = 0
      /\ \A u \in Reader \ {t} : date'[u] = date[u] /\ elapsed'[u] = elapsed[u]
  BY GoneType
<1>2. CASE c = t
  <2>1. pc'[c] = "idle"
    BY <1>2, GoesType DEF Task, Place
  <2> QED
    BY <1>1, <1>2, <2>1 DEF Reading
<1>3. CASE c # t
  BY <1>1, <1>3, OthersRead DEF Task, Place, Finishes
<1> QED
  BY <1>2, <1>3

\* Every step keeps what was read explained by moments of the clock.
LEMMA NextReadings == TypeOK /\ Pending /\ Readings /\ [Next]_vars => Readings'
<1> SUFFICES ASSUME TypeOK, Pending, Readings, [Next]_vars
             PROVE  Readings'
  OBVIOUS
<1> USE DEF Place
<1>0. CASE UNCHANGED vars
  BY <1>0, ReadingStays DEF vars, Readings
<1>1. CASE Tick
  <2> SUFFICES ASSUME NEW c \in Reader
               PROVE  Reading(pc[c], job[c], todo[c], date[c], elapsed[c], clock)'
    BY DEF Readings
  <2>1. /\ UNCHANGED <<pc, job, todo, date>> /\ clock' = (clock + 1) % Day
        /\ elapsed'[c] = IF pc[c] = "idle" THEN 0 ELSE elapsed[c] + 1
    BY <1>1 DEF Tick
  <2>2. Reading(pc[c], job[c], todo[c], date[c], elapsed[c], clock)
    BY DEF Readings
  <2>3. CASE pc[c] = "idle"
    BY <2>1, <2>2, <2>3 DEF Reading
  <2>4. CASE pc[c] # "idle"
    <3>1. pc[c] \in Place \ {"idle"} /\ todo[c] \in Seq(Item) /\ elapsed[c] \in Nat /\ clock \in 0 .. Day - 1
      BY <2>4, TimesPositive DEF TypeOK, Task
    <3>2. Reading(pc[c], job[c], todo[c], date[c], elapsed[c] + 1, (clock + 1) % Day)
      BY <2>2, <3>1, ReadingTicks
    <3> QED
      BY <2>1, <2>4, <3>2
  <2> QED
    BY <2>3, <2>4
<1>2. ASSUME NEW t \in Task, Switch(t)
      PROVE  Readings'
  BY <1>2, ReadingStays DEF Switch, Readings
<1>3. ASSUME NEW t \in Task, Start(t)
      PROVE  Readings'
  <2> SUFFICES ASSUME NEW c \in Reader
               PROVE  Reading(pc[c], job[c], todo[c], date[c], elapsed[c], clock)'
    BY DEF Readings
  <2>1. Goes(t, "next", "start") /\ UNCHANGED <<clock, job, todo, date, elapsed>>
    BY <1>3 DEF Start
  <2>2. CASE c = t
    <3>1. pc[c] = "next" /\ pc'[c] = "start"
      BY <2>1, <2>2, GoesType
    <3>2. Reading("start", job[c], todo[c], date[c], elapsed[c], clock)
      BY <3>1, ReadingStarts DEF Readings
    <3> QED
      BY <2>1, <3>1, <3>2
  <2>3. CASE c # t
    BY <2>1, <2>3, OthersRead
  <2> QED
    BY <2>2, <2>3
<1>4. ASSUME NEW t \in Task, Data(t)
      PROVE  Readings'
  <2> SUFFICES ASSUME NEW c \in Reader
               PROVE  Reading(pc[c], job[c], todo[c], date[c], elapsed[c], clock)'
    BY DEF Readings
  <2>1. /\ Goes(t, "start", "stop") /\ UNCHANGED <<clock, job, todo, elapsed>>
        /\ date' = IF todo[t][1] \in Field /\ t \in Reader
                   THEN [date EXCEPT ![t] = [@ EXCEPT ![todo[t][1]] = Shown(todo[t][1], clock)]]
                   ELSE date
    BY <1>4, DataReads DEF Data
  <2>2. CASE c = t
    <3>1. pc[c] = "start" /\ pc'[c] = "stop"
      BY <2>1, <2>2, GoesType
    <3>2. /\ todo[c] \in Seq(Item) /\ todo[c] # <<>> /\ date[c] \in [Field -> Nat]
          /\ elapsed[c] \in Nat /\ clock \in 0 .. Day - 1
      BY <3>1, TimesPositive DEF TypeOK, Pending, Task
    <3>3. Reading("start", job[c], todo[c], date[c], elapsed[c], clock)
      BY <3>1 DEF Readings
    <3>4. date'[c] = IF todo[c][1] \in Field THEN [date[c] EXCEPT ![todo[c][1]] = Shown(todo[c][1], clock)]
                     ELSE date[c]
      BY <2>1, <2>2 DEF TypeOK
    <3>5. Reading("stop", job[c], todo[c],
                  IF todo[c][1] \in Field THEN [date[c] EXCEPT ![todo[c][1]] = Shown(todo[c][1], clock)]
                  ELSE date[c], elapsed[c], clock)
      <4> DEFINE left == todo[c]  d == date[c]  ticks == elapsed[c]
      <4>1. /\ left \in Seq(Item) /\ left # <<>> /\ d \in [Field -> Nat] /\ ticks \in Nat
            /\ clock \in 0 .. Day - 1 /\ Reading("start", job[c], left, d, ticks, clock)
        BY <3>2, <3>3
      <4> HIDE DEF left, d, ticks
      <4>2. Reading("stop", job[c], left,
                    IF left[1] \in Field THEN [d EXCEPT ![left[1]] = Shown(left[1], clock)] ELSE d, ticks, clock)
        BY <4>1, ReadingReads
      <4> QED
        BY <4>2 DEF left, d, ticks
    <3>6. Reading("stop", job[c], todo[c], date'[c], elapsed[c], clock)
      BY <3>4, <3>5
    <3> QED
      BY <2>1, <3>1, <3>6
  <2>3. CASE c # t
    <3>1. date'[c] = date[c]
      BY <2>1, <2>3 DEF TypeOK
    <3> QED
      BY <2>1, <2>3, <3>1, OthersRead
  <2> QED
    BY <2>2, <2>3
<1>5. ASSUME NEW t \in Task, Stop(t)
      PROVE  Readings'
  <2> SUFFICES ASSUME NEW c \in Reader
               PROVE  Reading(pc[c], job[c], todo[c], date[c], elapsed[c], clock)'
    BY DEF Readings
  <2>1. /\ Goes(t, "stop", "next") /\ UNCHANGED <<clock, job, date, elapsed>>
        /\ todo' = [todo EXCEPT ![t] = Tail(todo[t])]
    BY <1>5 DEF Stop
  <2>2. CASE c = t
    <3>1. pc[c] = "stop" /\ pc'[c] = "next"
      BY <2>1, <2>2, GoesType
    <3>2. todo[c] \in Seq(Item) /\ todo[c] # <<>> /\ todo'[c] = Tail(todo[c])
      BY <2>1, <2>2, <3>1 DEF TypeOK, Pending, Task
    <3>3. Reading("stop", job[c], todo[c], date[c], elapsed[c], clock)
      BY <3>1 DEF Readings
    <3>4. Reading("next", job[c], todo'[c], date[c], elapsed[c], clock)
      BY <3>2, <3>3, ReadingStops
    <3> QED
      BY <2>1, <3>1, <3>4
  <2>3. CASE c # t
    BY <2>1, <2>3, OthersRead DEF TypeOK
  <2> QED
    BY <2>2, <2>3
<1>6. ASSUME NEW c \in Reader, AskDate(c) \/ AskStamp(c)
      PROVE  Readings'
  <2>1. CASE AskDate(c)
    <3>1. Begins(c, "date", DateRegisters) /\ c \in Task
      BY <2>1 DEF AskDate, Task
    <3>2. c \in Reader => ("date" = "date" /\ DateRegisters = DateRegisters) \/ ("date" = "stamp" /\ DateRegisters = StampRegisters)
      OBVIOUS
    <3> QED
      BY <3>1, <3>2, BeginsReading, Zenon
  <2>2. CASE AskStamp(c)
    <3>1. Begins(c, "stamp", StampRegisters) /\ c \in Task
      BY <2>2 DEF AskStamp, Task
    <3>2. c \in Reader => ("stamp" = "date" /\ StampRegisters = DateRegisters) \/ ("stamp" = "stamp" /\ StampRegisters = StampRegisters)
      OBVIOUS
    <3> QED
      BY <3>1, <3>2, BeginsReading, Zenon
  <2> QED
    BY <1>6, <2>1, <2>2
<1>7. ASSUME NEW t \in Reader, DateRead(t)
      PROVE  Readings'
  <2> SUFFICES ASSUME NEW c \in Reader
               PROVE  Reading(pc[c], job[c], todo[c], date[c], elapsed[c], clock)'
    BY DEF Readings
  <2>1. Goes(t, "next", "send") /\ Ready(t, "date") /\ UNCHANGED <<clock, job, todo, date, elapsed>>
    BY <1>7 DEF DateRead
  <2>2. CASE c = t
    <3>1. pc[c] = "next" /\ pc'[c] = "send" /\ job[c] = "date" /\ todo[c] = <<>>
      BY <2>1, <2>2, GoesType DEF Task, Ready
    <3>2. Reading("next", job[c], todo[c], date[c], elapsed[c], clock)
      BY <3>1 DEF Readings
    <3>3. Reading("send", job[c], todo[c], date[c], elapsed[c], clock)
      BY <3>1, <3>2 DEF Reading, Got
    <3> QED
      BY <2>1, <3>1, <3>3
  <2>3. CASE c # t
    BY <2>1, <2>3, OthersRead DEF Task
  <2> QED
    BY <2>2, <2>3
<1>8. ASSUME NEW c \in Reader, DateSent(c) \/ StampRead(c)
      PROVE  Readings'
  BY <1>8, EndsReading DEF DateSent, StampRead
<1>9. CASE SaveLog \/ PrintSaved
  BY <1>9, TaskAssumption, BeginsReading DEF SaveLog, PrintSaved, Task
<1>10. CASE LogSaved \/ LogsPrinted
  <2>1. PICK t \in Task \ Reader : Goes(t, "next", "idle") /\ Finishes(t) /\ UNCHANGED <<date, elapsed>>
    BY <1>10, TaskAssumption DEF LogSaved, LogsPrinted, Task
  <2> QED
    BY <2>1, OthersRead DEF Finishes, Readings
<1> QED
  BY <1>0, <1>1, <1>2, <1>3, <1>4, <1>5, <1>6, <1>7, <1>8, <1>9, <1>10 DEF Next, Reader

\* The date that is about to be sent is complete, and so is a time stamp.
LEMMA ReadingsBound ==
  ASSUME TypeOK, Readings
  PROVE  ClockErrorBounded
<1>1. ASSUME NEW c \in Reader, pc[c] = "send"
      PROVE  (TimeOf(date[c]) - (clock - elapsed[c])) % Day < elapsed[c] + Seconds * Minutes
  <2>1. Reading("send", job[c], todo[c], date[c], elapsed[c], clock)
    BY <1>1 DEF Readings
  <2>2. job[c] = "date" /\ todo[c] = <<>>
    BY <2>1 DEF Reading
  <2>3. DateSeen(date[c], 6, elapsed[c], clock)
    <3>1. Got(<<>>, "send", DateRegisters) = 6
      BY DEF Got, DateRegisters
    <3> QED
      BY <2>1, <2>2, <3>1 DEF Reading
  <2>4. date[c] \in [Field -> Nat] /\ elapsed[c] \in Nat /\ clock \in 0 .. Day - 1
    BY TimesPositive DEF TypeOK
  <2> QED
    BY <2>3, <2>4, DateBound
<1>2. ASSUME NEW c \in Reader, pc[c] = "next", Ready(c, "stamp")
      PROVE  (clock - TimeOf(date[c])) % Day < elapsed[c] + Seconds * Minutes
  <2>1. Reading("next", "stamp", <<>>, date[c], elapsed[c], clock)
    BY <1>2 DEF Readings, Ready
  <2>2. StampSeen(date[c], 2, elapsed[c], clock)
    <3>1. Got(<<>>, "next", StampRegisters) = 2
      BY DEF Got, StampRegisters
    <3> QED
      BY <2>1, <3>1 DEF Reading
  <2>3. date[c] \in [Field -> Nat] /\ elapsed[c] \in Nat /\ clock \in 0 .. Day - 1
    BY TimesPositive DEF TypeOK
  <2> QED
    BY <2>2, <2>3, StampBound
<1> QED
  BY <1>1, <1>2 DEF ClockErrorBounded, DateNotPast, StampNotAhead

\* Both hold from the start to the end.
LEMMA AlwaysReadings == Spec => [](TypeOK /\ Readings)
<1>1. Init => TypeOK /\ Pending /\ Readings
  BY InitType, InitReadings
<1>2. TypeOK /\ Pending /\ Readings /\ [Next]_vars => (TypeOK /\ Pending /\ Readings)'
  BY NextType, NextReadings
<1> QED
  BY <1>1, <1>2, PTL DEF Spec

\* The variables keep their types: above all, the counts of what is still to be read
\* and the fields of the date are what the three modules that share the bus expect.
THEOREM BusTypeCorrect == Spec => []TypeOK
BY AlwaysReadings, PTL

\* What is read register by register from a running clock is wrong by less than
\* an hour, whatever the interrupts and other tasks do between the transfers: a
\* date is only ahead (rtc.c:30-46), a time stamp only behind (logs.c:82-83).
THEOREM ClockErrorIsBounded == Spec => []ClockErrorBounded
BY AlwaysReadings, ReadingsBound, PTL

=============================================================================
