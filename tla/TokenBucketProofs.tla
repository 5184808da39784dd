------------------------- MODULE TokenBucketProofs -------------------------
(* TLAPS proofs about TokenBucket, for any limits, expiry and latency. *)
EXTENDS TokenBucket, TLAPS

-----------------------------------------------------------------------------
(* The inductive invariant *)

\* The scripts on their way carry times in order, none before the last write
\* of the bucket, none in the future and none too old.
LineOrdered ==
  /\ \A i \in 1..Len(line) :
       ts <= line[i] /\ line[i] <= clock /\ clock <= line[i] + LATENCY
  /\ \A i, j \in 1..Len(line) : i <= j => line[i] <= line[j]

Times ==
  /\ since <= clock
  /\ ts <= clock
  /\ written = -1 => tokens = CAP /\ ts = 0 /\ admitted = 0
  /\ written # -1 => ts <= written /\ written <= clock

\* What was admitted and what is left were there, or were refilled, since the
\* earliest time a script of the window can carry.
Earliest == since - LATENCY

Budget ==
  IF ts >= Earliest
    THEN TOKEN * admitted + tokens <= CAP + RPM * (ts - Earliest)
    ELSE admitted = 0

\* What is left is the burst and the refill since the bucket was last full, less
\* what was taken since: nothing was cut off in between.
Balance == full <= ts /\ tokens = CAP - TOKEN * spent + RPM * (ts - full)

IInv == TypeOK /\ LineOrdered /\ Times /\ Budget /\ Balance

-----------------------------------------------------------------------------
LEMMA MulMono ==
  ASSUME NEW a \in Int, NEW b \in Int, a <= b
  PROVE  RPM * a <= RPM * b /\ RPM * a \in Int
  BY LimitAssumption

LEMMA MulInt ==
  ASSUME NEW a \in Int
  PROVE  RPM * a \in Int
  BY LimitAssumption

LEMMA MulAdd ==
  ASSUME NEW a \in Int, NEW b \in Int
  PROVE  RPM * (a + b) = RPM * a + RPM * b
  BY LimitAssumption

LEMMA CapType == CAP \in Nat /\ CAP >= TOKEN /\ TOKEN = 60
  BY LimitAssumption DEF CAP, TOKEN

LEMMA InitIInv == Init => IInv
<1> SUFFICES ASSUME Init PROVE IInv
  OBVIOUS
<1> USE DEF Init
<1>1. TypeOK
  BY CapType DEF TypeOK
<1>2. LineOrdered /\ Times
  BY DEF LineOrdered, Times
<1>3. Budget
  <2>1. Earliest \in Int /\ ts - Earliest >= 0
    BY TimeAssumption DEF Earliest
  <2>2. RPM * 0 <= RPM * (ts - Earliest) /\ RPM * (ts - Earliest) \in Int
    BY <2>1, MulMono
  <2>3. TOKEN * admitted + tokens = CAP
    BY CapType
  <2> QED BY <2>1, <2>2, <2>3, CapType, LimitAssumption DEF Budget
<1>4. Balance
  BY CapType, LimitAssumption DEF Balance
<1> QED BY <1>1, <1>2, <1>3, <1>4 DEF IInv

\* The script adds no more than the time since the last write is worth, and a
\* bucket that expired had the time to fill up.
LEMMA FilledInBudget ==
  ASSUME IInv, line # <<>>
  PROVE  LET now == Head(line)
         IN  /\ now \in Nat /\ ts <= now /\ now <= clock /\ Earliest <= now
             /\ Filled(now) \in 0..CAP
             /\ TOKEN * admitted + Filled(now) <= CAP + RPM * (now - Earliest)
<1> DEFINE now == Head(line)
<1>1. /\ now \in Nat /\ ts <= now /\ now <= clock /\ clock <= now + LATENCY
      /\ clock \in Nat /\ ts \in Nat /\ since \in Nat /\ LATENCY \in Nat /\ TTL \in Nat
      /\ tokens \in 0..CAP /\ admitted \in Nat /\ written \in Nat \cup {-1}
      /\ Earliest \in Int /\ Earliest <= now
      /\ CAP \in Nat /\ RPM \in Nat
  BY CapType, TimeAssumption, LimitAssumption
  DEF IInv, TypeOK, LineOrdered, Times, Earliest
<1>2. RPM * (now - Earliest) >= 0 /\ RPM * (now - Earliest) \in Int
  <2>1. RPM * 0 <= RPM * (now - Earliest)
    BY <1>1, MulMono
  <2> QED BY <1>1, <2>1, MulMono
<1>3. RPM * (now - Earliest) = RPM * (now - ts) + RPM * (ts - Earliest)
  BY <1>1, MulAdd
<1>4. RPM * (now - ts) >= 0 /\ RPM * (now - ts) \in Int /\ RPM * (ts - Earliest) \in Int
  <2>1. RPM * 0 <= RPM * (now - ts)
    BY <1>1, MulMono
  <2> QED BY <1>1, <2>1, MulMono
<1>5. CASE Expired
  <2>1. Filled(now) = CAP
    BY <1>5 DEF Filled
  <2>2. TOKEN * admitted <= RPM * (now - Earliest)
    <3>1. CASE admitted = 0
      BY <1>2, <3>1, CapType
    <3>2. CASE admitted # 0
      <4>1. ts >= Earliest /\ written # -1 /\ ts <= written
        BY <3>2 DEF IInv, Times, Budget
      <4>2. TOKEN * admitted <= CAP + RPM * (ts - Earliest)
        BY <1>1, <1>4, <4>1, CapType DEF IInv, Budget
      <4>3. now - ts >= TTL - LATENCY
        BY <1>1, <1>5, <4>1 DEF Expired
      <4>4. RPM * (TTL - LATENCY) <= RPM * (now - ts) /\ RPM * (TTL - LATENCY) \in Int
        BY <1>1, <4>3, MulMono
      <4>5. CAP <= RPM * (now - ts)
        BY <1>1, <1>4, <4>4, RefillAssumption
      <4> DEFINE x == TOKEN * admitted
                 u == RPM * (now - ts)
                 v == RPM * (ts - Earliest)
                 w == RPM * (now - Earliest)
      <4>6. /\ x \in Int /\ u \in Int /\ v \in Int /\ CAP \in Int
            /\ x <= CAP + v /\ CAP <= u /\ w = u + v
        BY <1>1, <1>3, <1>4, <4>2, <4>5, CapType
      <4> HIDE DEF x, u, v, w
      <4>7. x <= w
        BY <4>6
      <4> QED BY <4>7 DEF x, w
    <3> QED BY <3>1, <3>2
  <2> QED BY <1>1, <1>2, <2>1, <2>2, CapType
<1>6. CASE ~Expired
  <2>1. Filled(now) = Min2(CAP, tokens + (now - ts) * RPM)
    BY <1>1, <1>6 DEF Filled, Max2
  <2>2. (now - ts) * RPM = RPM * (now - ts)
    BY <1>1
  <2>3. /\ Filled(now) \in 0..CAP
        /\ Filled(now) <= tokens + RPM * (now - ts)
    BY <1>1, <1>4, <2>1, <2>2 DEF Min2
  <2>4. CASE ts >= Earliest
    <3>1. TOKEN * admitted + tokens <= CAP + RPM * (ts - Earliest)
      BY <2>4 DEF IInv, Budget
    <3>2. TOKEN * admitted \in Nat
      BY <1>1, CapType
    <3> DEFINE x == TOKEN * admitted
               u == RPM * (now - ts)
               v == RPM * (ts - Earliest)
               w == RPM * (now - Earliest)
               f == Filled(now)
    <3>3. /\ x \in Nat /\ u \in Int /\ v \in Int /\ f \in Int /\ CAP \in Int
          /\ tokens \in Int
          /\ x + tokens <= CAP + v /\ f <= tokens + u /\ w = u + v
      BY <1>1, <1>3, <1>4, <2>3, <3>1, <3>2
    <3> HIDE DEF x, u, v, w, f
    <3>4. x + f <= CAP + w
      BY <3>3
    <3> QED BY <1>1, <2>3, <3>4 DEF x, w, f
  <2>5. CASE ts < Earliest
    <3>1. admitted = 0
      BY <1>1, <2>5 DEF IInv, Budget
    <3> QED BY <1>1, <1>2, <2>3, <3>1, CapType
  <2> QED BY <1>1, <2>3, <2>4, <2>5
<1> QED BY <1>1, <1>5, <1>6 DEF Filled

\* A script that does not find the bucket full finds what the account says.
LEMMA FilledAsBooked ==
  ASSUME IInv, line # <<>>, Filled(Head(line)) # CAP
  PROVE  Filled(Head(line)) = CAP - TOKEN * spent + RPM * (Head(line) - full)
<1> DEFINE now == Head(line)
<1>1. /\ now \in Nat /\ ts \in Nat /\ full \in Nat /\ spent \in Nat
      /\ ts <= now /\ full <= ts /\ tokens \in 0..CAP
      /\ CAP \in Nat /\ TOKEN = 60
      /\ tokens = CAP - TOKEN * spent + RPM * (ts - full)
  BY FilledInBudget, CapType DEF IInv, TypeOK, Balance
<1>2. /\ RPM * (now - full) = RPM * (now - ts) + RPM * (ts - full)
      /\ RPM * (now - ts) \in Int /\ RPM * (ts - full) \in Int
      /\ (now - ts) * RPM = RPM * (now - ts)
  <2>1. now - ts \in Int /\ ts - full \in Int /\ (now - ts) + (ts - full) = now - full
    BY <1>1
  <2>2. RPM * ((now - ts) + (ts - full)) = RPM * (now - ts) + RPM * (ts - full)
    BY <2>1, MulAdd
  <2> QED BY <2>1, <2>2, LimitAssumption
<1>3. Filled(now) = Min2(CAP, tokens + (now - ts) * RPM)
  BY <1>1 DEF Filled, Max2
<1>4. Filled(now) = tokens + RPM * (now - ts)
  BY <1>1, <1>2, <1>3 DEF Min2
<1> DEFINE a == RPM * (now - ts)
           b == RPM * (ts - full)
           c == RPM * (now - full)
<1>5. /\ Filled(now) = tokens + a /\ tokens = CAP - TOKEN * spent + b /\ c = a + b
      /\ a \in Int /\ b \in Int /\ CAP \in Int /\ TOKEN * spent \in Int
  BY <1>1, <1>2, <1>4
<1> HIDE DEF a, b, c
<1>6. Filled(now) = CAP - TOKEN * spent + c
  BY <1>5
<1> QED BY <1>6 DEF c

\* Taking n tokens and booking them keeps the account.
LEMMA BookKeepsBalance ==
  ASSUME IInv, line # <<>>, NEW n \in {0, 1},
         Write(Head(line), Filled(Head(line)) - TOKEN * n), Book(Head(line), n)
  PROVE  Balance' /\ full' \in Nat /\ spent' \in Nat
<1> DEFINE now == Head(line)
<1>1. /\ now \in Nat /\ ts \in Nat /\ full \in Nat /\ spent \in Nat /\ n \in Nat
      /\ full <= now /\ CAP \in Nat /\ TOKEN = 60 /\ Filled(now) \in Nat
      /\ ts' = now /\ tokens' = Filled(now) - TOKEN * n
  <2>1. now \in Nat /\ ts <= now /\ Filled(now) \in 0..CAP /\ CAP \in Nat
    BY FilledInBudget, CapType
  <2>2. ts \in Nat /\ full \in Nat /\ spent \in Nat /\ full <= ts
    BY DEF IInv, TypeOK, Balance
  <2>3. ts' = now /\ tokens' = Filled(now) - TOKEN * n
    BY DEF Write
  <2>4. full <= now /\ Filled(now) \in Nat
    BY <2>1, <2>2
  <2> QED BY <2>1, <2>2, <2>3, <2>4, CapType
<1>2. CASE Filled(now) = CAP
  <2>1. full' = now /\ spent' = n
    BY <1>2 DEF Book
  <2>2. RPM * (now - now) = 0
    BY <1>1, LimitAssumption
  <2> QED BY <1>1, <1>2, <2>1, <2>2 DEF Balance
<1>3. CASE Filled(now) # CAP
  <2>1. full' = full /\ spent' = spent + n
    BY <1>3 DEF Book
  <2>2. Filled(now) = CAP - TOKEN * spent + RPM * (now - full)
    BY <1>3, FilledAsBooked
  <2>3. RPM * (now - full) \in Int
    <3>1. now - full \in Int
      BY <1>1
    <3> QED BY <3>1, MulInt
  <2>4. tokens' = CAP - TOKEN * spent' + RPM * (now - full)
    <3> DEFINE c == RPM * (now - full)
    <3> HIDE DEF c
    <3>1. c \in Int /\ tokens' = CAP - TOKEN * spent + c - TOKEN * n
      BY <1>1, <2>2, <2>3 DEF c
    <3>2. tokens' = CAP - TOKEN * spent' + c
      BY <1>1, <2>1, <3>1
    <3> QED BY <3>2 DEF c
  <2> QED BY <1>1, <2>1, <2>4 DEF Balance
<1> QED BY <1>2, <1>3

\* Sending a script keeps the line in order.
LEMMA LineAppend ==
  ASSUME IInv, line' = Append(line, clock), UNCHANGED <<clock, ts>>
  PROVE  LineOrdered'
  BY TimeAssumption DEF IInv, TypeOK, LineOrdered, Times

\* Answering one does too: what follows it carries no earlier time.
LEMMA LineTail ==
  ASSUME IInv, line # <<>>, line' = Tail(line), UNCHANGED clock,
         ts' = ts \/ ts' = Head(line)
  PROVE  LineOrdered' /\ line' \in Seq(Nat)
<1>1. /\ line' \in Seq(Nat)
      /\ Len(line') = Len(line) - 1 /\ Len(line) \in Nat \ {0}
      /\ \A i \in 1..Len(line') : line'[i] = line[i + 1]
      /\ Head(line) = line[1]
  BY DEF IInv, TypeOK
<1>2. \A i \in 1..Len(line') : i + 1 \in 1..Len(line) /\ 1 <= i + 1 /\ 1 \in 1..Len(line)
  BY <1>1
<1> QED BY <1>1, <1>2 DEF IInv, LineOrdered

\* A run of the script, whatever the middleware makes of its answer.
LEMMA ScriptIInv ==
  ASSUME IInv, Answered, UNCHANGED <<clock, since>>,
         \/ /\ Allow(Head(line)) /\ Book(Head(line), 1)
            /\ admitted' \in {admitted, admitted + 1}
         \/ /\ Deny(Head(line)) /\ Book(Head(line), 0)
            /\ admitted' = admitted,
         failedOpen' \in Nat
  PROVE  IInv'
<1> DEFINE now == Head(line)
           cost == TOKEN * admitted' + tokens'
<1>1. line # <<>> /\ line' = Tail(line) /\ ts' = now /\ written' = clock
  BY DEF Answered, Allow, Deny, Write
<1>2. /\ now \in Nat /\ ts <= now /\ now <= clock /\ Earliest <= now
      /\ Filled(now) \in 0..CAP
      /\ TOKEN * admitted + Filled(now) <= CAP + RPM * (now - Earliest)
  BY <1>1, FilledInBudget
<1>3. admitted \in Nat /\ clock \in Nat /\ since \in Nat /\ Earliest \in Int
  BY TimeAssumption DEF IInv, TypeOK, Earliest
<1>4. LineOrdered' /\ line' \in Seq(Nat)
  BY <1>1, LineTail
<1>5. /\ tokens' \in 0..CAP /\ admitted' \in Nat
      /\ TOKEN * admitted' + tokens' <= TOKEN * admitted + Filled(now)
  BY <1>2, <1>3, CapType DEF Allow, Deny, Write
<1>9. Balance' /\ full' \in Nat /\ spent' \in Nat
  <2>1. Filled(now) - TOKEN * 0 = Filled(now) /\ Filled(now) - TOKEN * 1 = Filled(now) - TOKEN
    BY <1>2, CapType
  <2>2. CASE Allow(now) /\ Book(now, 1)
    BY <1>1, <2>1, <2>2, BookKeepsBalance DEF Allow
  <2>3. CASE Deny(now) /\ Book(now, 0)
    BY <1>1, <2>1, <2>3, BookKeepsBalance DEF Deny
  <2> QED BY <2>2, <2>3
<1>6. TypeOK'
  BY <1>1, <1>2, <1>3, <1>4, <1>5, <1>9 DEF TypeOK
<1>7. Times'
  BY <1>1, <1>2, <1>3 DEF IInv, Times
<1>8. Budget'
  <2>1. Earliest' = Earliest
    BY DEF Earliest
  <2>2. RPM * (now - Earliest) \in Int /\ CAP \in Nat
    BY <1>2, <1>3, MulMono, CapType
  <2>3. TOKEN * admitted' + tokens' \in Nat /\ TOKEN * admitted + Filled(now) \in Nat
    <3>1. \A n \in Nat : TOKEN * n \in Nat
      BY CapType
    <3> QED BY <1>2, <1>3, <1>5, <3>1
  <2>4. TOKEN * admitted' + tokens' <= CAP + RPM * (now - Earliest)
    <3> DEFINE x == TOKEN * admitted' + tokens'
               y == TOKEN * admitted + Filled(now)
               z == RPM * (now - Earliest)
    <3>1. x \in Nat /\ y \in Nat /\ z \in Int /\ CAP \in Nat /\ x <= y /\ y <= CAP + z
      BY <1>2, <1>5, <2>2, <2>3
    <3> HIDE DEF x, y, z
    <3>2. x <= CAP + z
      BY <3>1
    <3> QED BY <3>2 DEF x, z
  <2> QED BY <1>1, <1>2, <2>1, <2>4 DEF Budget
<1> QED BY <1>4, <1>6, <1>7, <1>8, <1>9 DEF IInv

LEMMA NextIInv == IInv /\ [Next]_vars => IInv'
<1> SUFFICES ASSUME IInv, [Next]_vars PROVE IInv'
  OBVIOUS
<1>1. CASE Tick
  <2>1. TypeOK' /\ Times'
    BY <1>1 DEF Tick, IInv, TypeOK, Times, bucket, account
  <2>2. LineOrdered'
    <3>1. line # <<>> => \A i \in 1..Len(line) : Head(line) <= line[i]
      BY DEF IInv, TypeOK, LineOrdered
    <3> QED BY <1>1, <3>1, TimeAssumption DEF Tick, IInv, TypeOK, LineOrdered, bucket
  <2>3. Budget'
    BY <1>1 DEF Tick, IInv, Budget, Earliest, bucket
  <2>4. Balance'
    BY <1>1 DEF Tick, IInv, Balance, bucket, account
  <2> QED BY <2>1, <2>2, <2>3, <2>4 DEF IInv
<1>2. CASE Send
  <2>1. TypeOK' /\ Times'
    BY <1>2 DEF Send, IInv, TypeOK, Times, bucket, account
  <2>2. LineOrdered'
    BY <1>2, LineAppend DEF Send, bucket
  <2>3. Budget'
    BY <1>2 DEF Send, IInv, Budget, Earliest, bucket
  <2>4. Balance'
    BY <1>2 DEF Send, IInv, Balance, bucket, account
  <2> QED BY <2>1, <2>2, <2>3, <2>4 DEF IInv
<1>3. CASE Admit
  BY <1>3, ScriptIInv DEF Admit, IInv, TypeOK
<1>4. CASE Reject
  BY <1>4, ScriptIInv DEF Reject, IInv, TypeOK
<1>5. CASE FailOpen
  <2>1. failedOpen' \in Nat
    BY <1>5 DEF FailOpen, IInv, TypeOK
  <2>2. CASE UNCHANGED <<bucket, account>>
    <3>1. LineOrdered' /\ line' \in Seq(Nat)
      BY <1>5, <2>2, LineTail DEF FailOpen, Answered, bucket
    <3> QED
      BY <1>5, <2>1, <2>2, <3>1
      DEF FailOpen, IInv, TypeOK, Times, Budget, Earliest, Balance, bucket, account
  <2>3. Answered /\ UNCHANGED <<clock, since>> /\ admitted' = admitted
    BY <1>5 DEF FailOpen
  <2>4. CASE Allow(Head(line)) /\ Book(Head(line), 1)
    BY <2>1, <2>3, <2>4, ScriptIInv
  <2>5. CASE Deny(Head(line)) /\ Book(Head(line), 0)
    BY <2>1, <2>3, <2>5, ScriptIInv
  <2> QED BY <1>5, <2>2, <2>4, <2>5 DEF FailOpen
<1>6. CASE StartWindow
  <2>1. TypeOK' /\ LineOrdered' /\ Times'
    BY <1>6 DEF StartWindow, IInv, TypeOK, LineOrdered, Times, bucket, account
  <2>2. Budget'
    <3>1. /\ ts' \in Nat /\ Earliest' \in Int /\ admitted' = 0
          /\ tokens' \in 0..CAP /\ CAP \in Nat
      BY <1>6, CapType, TimeAssumption
      DEF StartWindow, IInv, TypeOK, Earliest, bucket
    <3>2. ts' >= Earliest' => RPM * 0 <= RPM * (ts' - Earliest')
      BY <3>1, MulMono
    <3>3. RPM * 0 = 0 /\ RPM * (ts' - Earliest') \in Int /\ TOKEN * 0 = 0
      BY <3>1, MulMono, LimitAssumption, CapType
    <3> QED BY <3>1, <3>2, <3>3 DEF Budget
  <2>3. Balance'
    BY <1>6 DEF StartWindow, IInv, Balance, bucket, account
  <2> QED BY <2>1, <2>2, <2>3 DEF IInv
<1>7. CASE UNCHANGED vars
  BY <1>7
  DEF vars, IInv, TypeOK, LineOrdered, Times, Budget, Earliest, Balance, bucket,
      account
<1> QED BY <1>1, <1>2, <1>3, <1>4, <1>5, <1>6, <1>7 DEF Next

THEOREM IInvAlways == Spec => []IInv
<1> QED BY InitIInv, NextIInv, PTL DEF Spec

-----------------------------------------------------------------------------
(* Theorems *)

\* The bucket never holds less than nothing nor more than the burst.
THEOREM TypeCorrect == Spec => []TypeOK
<1>1. IInv => TypeOK
  BY DEF IInv
<1> QED BY <1>1, IInvAlways, PTL

\* In any window of time a bucket admits at most its burst and its refill.
THEOREM AdmissionIsBounded == Spec => []WindowBounded
<1>1. ASSUME IInv PROVE WindowBounded
  <2> DEFINE width == clock - since + LATENCY
  <2>1. /\ ts \in Nat /\ clock \in Nat /\ since \in Nat /\ admitted \in Nat
        /\ ts <= clock /\ since <= clock /\ tokens \in Nat /\ LATENCY \in Nat
        /\ CAP \in Nat
    BY <1>1, CapType, TimeAssumption DEF IInv, TypeOK, Times
  <2>2. RPM * 0 <= RPM * width /\ RPM * width \in Int /\ RPM * 0 = 0
    BY <2>1, MulMono, LimitAssumption
  <2>3. CASE ts >= Earliest
    <3>1. RPM * (ts - Earliest) <= RPM * width /\ RPM * (ts - Earliest) \in Int
      BY <2>1, MulMono DEF Earliest
    <3>2. TOKEN * admitted + tokens <= CAP + RPM * (ts - Earliest)
      BY <1>1, <2>3 DEF IInv, Budget
    <3>3. TOKEN * admitted \in Nat
      BY <2>1, CapType
    <3> HIDE DEF width
    <3>4. TOKEN * admitted <= CAP + RPM * width
      BY <2>1, <2>2, <3>1, <3>2, <3>3
    <3> QED BY <3>4 DEF WindowBounded, width
  <2>4. CASE ~(ts >= Earliest)
    <3>1. TOKEN * admitted = 0
      BY <1>1, <2>4, CapType DEF IInv, Budget
    <3>2. 0 <= CAP + RPM * width
      BY <2>1, <2>2
    <3> QED BY <3>1, <3>2 DEF WindowBounded
  <2> QED BY <2>3, <2>4
<1> QED BY <1>1, IInvAlways, PTL

\* A refusal leaves the level of the bucket, now and at any later time, as it was.
THEOREM RefusalsAreFree == Spec => RejectIsFree
<1>1. ASSUME IInv, Reject PROVE Level' = Level
  <2> DEFINE now == Head(line)
  <2>1. /\ line # <<>> /\ Filled(now) < TOKEN /\ clock' = clock
        /\ tokens' = Filled(now) /\ ts' = now /\ written' = clock
    BY <1>1 DEF Reject, Answered, Deny, Write
  <2>2. /\ now \in Nat /\ ts <= now /\ now <= clock /\ Filled(now) \in 0..CAP
        /\ clock \in Nat /\ ts \in Nat /\ tokens \in Nat
        /\ CAP \in Nat /\ CAP >= 60 /\ TOKEN = 60
    BY <1>1, <2>1, FilledInBudget, CapType DEF IInv, TypeOK
  <2>3. ~Expired
    BY <2>1, <2>2 DEF Filled
  <2>4. TTL > 0
    <3>1. SUFFICES ASSUME TTL = 0 PROVE FALSE
      BY TimeAssumption
    <3>2. TTL - LATENCY = 0
      BY <3>1, TimeAssumption, RefillAssumption
    <3>3. RPM * 0 = 0
      BY LimitAssumption
    <3>4. 0 >= CAP
      BY <3>2, <3>3, RefillAssumption
    <3> QED BY <3>4, <2>2
  <2>5. ~Expired'
    BY <2>1, <2>2, <2>4, TimeAssumption DEF Expired
  <2>6. /\ (clock - ts) * RPM = RPM * (now - ts) + RPM * (clock - now)
        /\ (now - ts) * RPM = RPM * (now - ts) /\ RPM * (now - ts) \in Int
        /\ (clock - now) * RPM = RPM * (clock - now) /\ RPM * (clock - now) \in Int
    BY <2>2, MulAdd, MulMono, LimitAssumption
  <2>7. Filled(now) = tokens + RPM * (now - ts)
    BY <2>1, <2>2, <2>3, <2>6 DEF Filled, Min2, Max2
  <2>8. tokens' + (clock' - ts') * RPM = tokens + (clock - ts) * RPM
    BY <2>1, <2>2, <2>6, <2>7
  <2> QED BY <2>3, <2>5, <2>8 DEF Level
<1>2. IInv /\ [Next]_vars => [Reject => Level' = Level]_vars
  BY <1>1
<1> QED BY <1>2, IInvAlways, PTL DEF Spec, RejectIsFree

\* A request that is refused would, with it, exceed the burst and the refill of
\* the time since the bucket was last full.
THEOREM RefusalsAreEarned == Spec => RefusalIsEarned
<1>1. ASSUME IInv, Reject
      PROVE  TOKEN * (spent + 1) > CAP + RPM * (Head(line) - full)
  <2> DEFINE now == Head(line)
             c == RPM * (now - full)
  <2>1. line # <<>> /\ Filled(now) < TOKEN
    BY <1>1 DEF Reject, Answered, Deny
  <2>2. /\ now \in Nat /\ full \in Nat /\ spent \in Nat /\ Filled(now) \in Nat
        /\ CAP \in Nat /\ CAP >= TOKEN /\ TOKEN = 60 /\ c \in Int
    <3>1. now \in Nat /\ Filled(now) \in 0..CAP
      BY <1>1, <2>1, FilledInBudget
    <3>2. full \in Nat /\ spent \in Nat
      BY <1>1 DEF IInv, TypeOK
    <3>3. c \in Int
      <4>1. now - full \in Int
        BY <3>1, <3>2
      <4> QED BY <4>1, MulInt
    <3> QED BY <3>1, <3>2, <3>3, CapType
  <2>3. Filled(now) = CAP - TOKEN * spent + c
    BY <1>1, <2>1, <2>2, FilledAsBooked
  <2> HIDE DEF c
  <2>4. TOKEN * (spent + 1) > CAP + c
    BY <2>1, <2>2, <2>3
  <2> QED BY <2>4 DEF c
<1>2. IInv /\ [Next]_vars
        => [Reject => TOKEN * (spent + 1) > CAP + RPM * (Head(line) - full)]_vars
  BY <1>1
<1> QED BY <1>2, IInvAlways, PTL DEF Spec, RefusalIsEarned
=============================================================================
