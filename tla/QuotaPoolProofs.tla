-------------------------- MODULE QuotaPoolProofs ---------------------------
(***************************************************************************)
(* Proofs about QuotaPool, for any number of handlers and connections, any *)
(* paths, quotas and purchases.                                            *)
(***************************************************************************)
EXTENDS QuotaPool, QuotaConsumeProofs, SequenceTheorems

\* Where the connections of a handler are, seen from where it stands.
Places ==
  \A h \in Handler :
    /\ Tx(h) \in Waiting => pc[h] = "monthly" /\ Tx(h) \notin held /\ h \notin expired
    /\ Tx(h) \in held => pc[h] \in Deciding /\ h \notin expired
    /\ Look(h) \in held \cup Waiting => pc[h] = "config"
    /\ Look(h) \in held => Look(h) \notin Waiting
    /\ h \in expired => pc[h] \in Deciding

WaitOnce == \A i, j \in DOMAIN queue : queue[i] = queue[j] => i = j

\* Transactions that hold a connection and are about to charge.
Charging(l) == {u \in held : u[2] = "tx" /\ pc[u[1]] = l}

PaidWithin ==
  used > 0 \/ Charging("chargePaid") # {} =>
    used + Cardinality(Charging("chargePaid")) <= purchased + POOL - 1

\* Transactions that hold a connection and have come to the row of the day.  The
\* last of them to get there needed one more connection for its lookup.
OfTheDay == {"readDaily", "chargeDaily", "createDaily"}
Past == {u \in held : u[2] = "tx" /\ pc[u[1]] \in OfTheDay}

OneIsLeft == Cardinality(Past) <= POOL - 1

DailyWithin ==
  daily # NoRow =>
    /\ POOL > 1
    /\ daily + Cardinality(Charging("chargeDaily")) <= MaxLimit + POOL - 2

Connections == PoolTypeOK /\ NothingLeaks /\ Places /\ WaitOnce

PInv == Connections /\ OneIsLeft /\ PaidWithin /\ DailyWithin

-----------------------------------------------------------------------------
(* Uses and the queue *)

LEMMA Uses ==
  /\ \A h \in Handler : Tx(h) \in Use /\ Look(h) \in Use
  /\ \A h, g \in Handler : /\ Tx(h) # Look(g)
                           /\ Tx(h) = Tx(g) => h = g
                           /\ Look(h) = Look(g) => h = g
  /\ \A u \in Use : u[1] \in Handler /\ (u = Tx(u[1]) \/ u = Look(u[1]))
  /\ \A h \in Handler : Tx(h)[1] = h /\ Tx(h)[2] = "tx" /\ Look(h)[2] = "lookup"
  BY DEF Use, Tx, Look

LEMMA QueueAppend ==
  ASSUME queue \in Seq(Use), WaitOnce, NEW u \in Use, u \notin Waiting,
         queue' = Append(queue, u)
  PROVE  queue' \in Seq(Use) /\ WaitOnce' /\ Waiting' = Waiting \cup {u}
<1>1. /\ queue' \in Seq(Use) /\ Len(queue') = Len(queue) + 1
      /\ \A i \in 1..Len(queue) : queue'[i] = queue[i]
      /\ queue'[Len(queue) + 1] = u
  OBVIOUS
<1>2. DOMAIN queue = 1..Len(queue) /\ DOMAIN queue' = 1..(Len(queue) + 1)
  BY <1>1
<1>3. Waiting' = Waiting \cup {u}
  BY <1>1, <1>2 DEF Waiting
<1>4. WaitOnce'
  BY <1>1, <1>2 DEF WaitOnce, Waiting
<1> QED
  BY <1>1, <1>3, <1>4

LEMMA QueueTail ==
  ASSUME queue \in Seq(Use), WaitOnce, queue # <<>>, queue' = Tail(queue)
  PROVE  /\ queue' \in Seq(Use) /\ WaitOnce'
         /\ Head(queue) \in Waiting /\ Head(queue) \in Use
         /\ Waiting' = Waiting \ {Head(queue)}
<1>1. /\ queue' \in Seq(Use) /\ Len(queue') = Len(queue) - 1
      /\ \A i \in 1..(Len(queue) - 1) : queue'[i] = queue[i + 1]
      /\ Head(queue) = queue[1] /\ Head(queue) \in Use
      /\ Len(queue) \in Nat \ {0}
  OBVIOUS
<1>2. DOMAIN queue = 1..Len(queue) /\ DOMAIN queue' = 1..(Len(queue) - 1)
  BY <1>1
<1>3. \A i \in 1..Len(queue) : i = 1 \/ i - 1 \in 1..(Len(queue) - 1)
  BY <1>1
<1>4. Waiting' = Waiting \ {Head(queue)}
  <2>1. ASSUME NEW i \in 1..(Len(queue) - 1)
        PROVE  queue'[i] \in Waiting \ {Head(queue)}
    <3>1. i + 1 \in 1..Len(queue) /\ i + 1 # 1 /\ 1 \in 1..Len(queue)
      BY <1>1
    <3> QED
      BY <1>1, <1>2, <3>1 DEF Waiting, WaitOnce
  <2>2. ASSUME NEW u \in Waiting, u # Head(queue)
        PROVE  \E i \in 1..(Len(queue) - 1) : queue'[i] = u
    <3>1. PICK i \in 1..Len(queue) : queue[i] = u
      BY <1>2, <2>2 DEF Waiting
    <3>2. i - 1 \in 1..(Len(queue) - 1) /\ (i - 1) + 1 = i
      BY <1>1, <1>3, <2>2, <3>1
    <3> QED
      BY <1>1, <3>1, <3>2
  <2> QED
    BY <1>2, <2>1, <2>2 DEF Waiting
<1>5. WaitOnce'
  BY <1>1, <1>2 DEF WaitOnce
<1>6. Head(queue) \in Waiting
  <2>1. 1 \in DOMAIN queue
    BY <1>1, <1>2
  <2> QED
    BY <1>1, <2>1 DEF Waiting
<1> QED
  BY <1>1, <1>4, <1>5, <1>6

LEMMA QueueLeave ==
  ASSUME queue \in Seq(Use), WaitOnce, NEW h \in Handler, LeaveQueue(h)
  PROVE  /\ queue' \in Seq(Use) /\ WaitOnce'
         /\ Tx(h) \in Waiting
         /\ Waiting' = Waiting \ {Tx(h)}
<1>1. PICK k \in DOMAIN queue : queue[k] = Tx(h) /\ queue' = RemoveAt(queue, k)
  BY DEF LeaveQueue
<1> DEFINE n == Len(queue)
<1>2. DOMAIN queue = 1..n /\ n \in Nat /\ k \in 1..n
  BY <1>1
<1>3. /\ SubSeq(queue, 1, k - 1) \in Seq(Use)
      /\ Len(SubSeq(queue, 1, k - 1)) = k - 1
      /\ \A i \in 1..(k - 1) : SubSeq(queue, 1, k - 1)[i] = queue[i]
  BY <1>2, SubSeqProperties
<1>4. /\ SubSeq(queue, k + 1, n) \in Seq(Use)
      /\ Len(SubSeq(queue, k + 1, n)) = n - k
      /\ \A i \in 1..(n - k) : SubSeq(queue, k + 1, n)[i] = queue[k + i]
  BY <1>2, SubSeqProperties
<1>5. /\ queue' \in Seq(Use) /\ Len(queue') = n - 1
      /\ \A i \in 1..(k - 1) : queue'[i] = queue[i]
      /\ \A i \in k..(n - 1) : queue'[i] = queue[i + 1]
  <2> DEFINE a == SubSeq(queue, 1, k - 1)
             b == SubSeq(queue, k + 1, n)
  <2>1. queue' = a \o b
    BY <1>1 DEF RemoveAt
  <2>2. /\ a \in Seq(Use) /\ Len(a) = k - 1
        /\ b \in Seq(Use) /\ Len(b) = n - k
    BY <1>3, <1>4
  <2>3. /\ a \o b \in Seq(Use) /\ Len(a \o b) = (k - 1) + (n - k)
        /\ \A i \in 1..((k - 1) + (n - k)) :
             (a \o b)[i] = IF i <= k - 1 THEN a[i] ELSE b[i - (k - 1)]
    <3> HIDE DEF a, b
    <3>1. /\ a \o b \in Seq(Use) /\ Len(a \o b) = Len(a) + Len(b)
          /\ \A i \in 1..(Len(a) + Len(b)) :
               (a \o b)[i] = IF i <= Len(a) THEN a[i] ELSE b[i - Len(a)]
      BY <2>2, ConcatProperties
    <3> QED
      BY <2>2, <3>1
  <2>4. ASSUME NEW i \in 1..(k - 1)
        PROVE  queue'[i] = queue[i]
    <3>1. i \in 1..((k - 1) + (n - k)) /\ i <= k - 1
      BY <1>2
    <3> QED
      BY <1>3, <2>1, <2>3, <3>1
  <2>5. ASSUME NEW i \in k..(n - 1)
        PROVE  queue'[i] = queue[i + 1]
    <3>1. /\ i \in 1..((k - 1) + (n - k)) /\ ~(i <= k - 1)
          /\ i - (k - 1) \in 1..(n - k) /\ k + (i - (k - 1)) = i + 1
      BY <1>2
    <3>2. queue'[i] = b[i - (k - 1)]
      BY <2>1, <2>3, <3>1
    <3> QED
      BY <1>4, <3>1, <3>2
  <2>6. (k - 1) + (n - k) = n - 1
    BY <1>2
  <2> QED
    BY <2>1, <2>3, <2>4, <2>5, <2>6
<1>6. DOMAIN queue' = 1..(n - 1)
  BY <1>5
<1>7. Waiting' = Waiting \ {Tx(h)}
  <2>1. ASSUME NEW i \in 1..(n - 1)
        PROVE  \E j \in 1..n : j # k /\ queue'[i] = queue[j]
    <3>1. CASE i < k
      BY <1>2, <1>5, <3>1
    <3>2. CASE i >= k
      BY <1>2, <1>5, <3>2
    <3> QED
      BY <1>2, <3>1, <3>2
  <2>2. ASSUME NEW j \in 1..n, j # k
        PROVE  \E i \in 1..(n - 1) : queue'[i] = queue[j]
    <3>1. CASE j < k
      BY <1>2, <1>5, <3>1
    <3>2. CASE j > k
      <4>1. j - 1 \in k..(n - 1) /\ (j - 1) + 1 = j
        BY <1>2, <3>2
      <4> QED
        BY <1>2, <1>5, <4>1
    <3> QED
      BY <1>2, <2>2, <3>1, <3>2
  <2>3. ASSUME NEW i \in DOMAIN queue'
        PROVE  queue'[i] \in Waiting \ {Tx(h)}
    BY <1>1, <1>2, <1>6, <2>1 DEF Waiting, WaitOnce
  <2>4. ASSUME NEW u \in Waiting, u # Tx(h)
        PROVE  \E i \in DOMAIN queue' : queue'[i] = u
    BY <1>1, <1>2, <1>6, <2>2, <2>4 DEF Waiting
  <2> QED
    BY <2>3, <2>4 DEF Waiting
<1>8. WaitOnce'
  <2> DEFINE src(i) == IF i < k THEN i ELSE i + 1
  <2>1. ASSUME NEW i \in 1..(n - 1)
        PROVE  src(i) \in 1..n /\ queue'[i] = queue[src(i)]
    <3>1. i \in 1..n /\ i + 1 \in 1..n
      BY <1>2
    <3>2. i < k => i \in 1..(k - 1)
      BY <1>2
    <3>3. ~(i < k) => i \in k..(n - 1)
      BY <1>2
    <3> QED
      BY <1>5, <3>1, <3>2, <3>3
  <2>2. \A i, j \in 1..(n - 1) : src(i) = src(j) => i = j
    BY <1>2
  <2> HIDE DEF src
  <2> QED
    BY <1>2, <1>6, <2>1, <2>2 DEF WaitOnce
<1> QED
  BY <1>1, <1>5, <1>7, <1>8 DEF Waiting

-----------------------------------------------------------------------------
(* Connections in use *)

LEMMA UseFinite == ASSUME NEW S, S \subseteq Use PROVE IsFiniteSet(S)
<1>1. IsFiniteSet({"tx", "lookup"})
  <2>1. IsFiniteSet({} \cup {"tx"})
    BY FS_EmptySet, FS_AddElement
  <2>2. IsFiniteSet(({} \cup {"tx"}) \cup {"lookup"})
    BY <2>1, FS_AddElement
  <2>3. ({} \cup {"tx"}) \cup {"lookup"} = {"tx", "lookup"}
    OBVIOUS
  <2> QED
    BY <2>2, <2>3
<1>2. IsFiniteSet(Use)
  BY <1>1, HandlerAssumption, FS_Product DEF Use
<1> QED
  BY <1>2, FS_Subset

LEMMA HeldShrinks ==
  ASSUME held \subseteq Use, Cardinality(held) <= POOL, held' \subseteq held
  PROVE  Cardinality(held') <= POOL
<1>1. /\ Cardinality(held') <= Cardinality(held)
      /\ Cardinality(held) \in Nat /\ Cardinality(held') \in Nat
  BY UseFinite, FS_Subset, FS_CardinalityType
<1> QED
  BY <1>1, PoolAssumption

LEMMA HeldGrows ==
  ASSUME held \subseteq Use, Cardinality(held) < POOL, NEW u, held' = held \cup {u}
  PROVE  Cardinality(held') <= POOL
<1>1. IsFiniteSet(held) /\ Cardinality(held) \in Nat
  BY UseFinite, FS_CardinalityType
<1>2. Cardinality(held \cup {u}) =
        IF u \in held THEN Cardinality(held) ELSE Cardinality(held) + 1
  BY <1>1, FS_AddElement
<1> QED
  BY <1>1, <1>2, PoolAssumption

LEMMA PlacesSuffice ==
  ASSUME PoolTypeOK', Places', Cardinality(held') <= POOL
  PROVE  NothingLeaks'
<1>1. held' \cup Waiting' \subseteq Use
  BY DEF PoolTypeOK, Waiting
<1>2. ASSUME NEW u \in held' \cup Waiting'
      PROVE  pc'[u[1]] \in Deciding
  <2>1. PICK h \in Handler : u[1] = h /\ (u = Tx(h) \/ u = Look(h))
    BY <1>1, <1>2, Uses
  <2>2. Tx(h) \in held' \cup Waiting' => pc'[h] \in Deciding
    BY DEF Places, Deciding
  <2>3. Look(h) \in held' \cup Waiting' => pc'[h] \in Deciding
    BY DEF Places, Deciding
  <2> QED
    BY <1>2, <2>1, <2>2, <2>3
<1> QED
  BY <1>2 DEF NothingLeaks

\* The handlers apart from h keep their places if only its uses change.
LEMMA OthersStay ==
  ASSUME PoolTypeOK, Places, NEW h \in Handler,
         \A g \in Handler \ {h} :
           /\ pc'[g] = pc[g]
           /\ g \in expired' => g \in expired
           /\ \A u \in {Tx(g), Look(g)} : /\ u \in held' <=> u \in held
                                          /\ u \in Waiting' <=> u \in Waiting,
         /\ Tx(h) \in Waiting' =>
              pc'[h] = "monthly" /\ Tx(h) \notin held' /\ h \notin expired'
         /\ Tx(h) \in held' => pc'[h] \in Deciding /\ h \notin expired'
         /\ Look(h) \in held' \cup Waiting' => pc'[h] = "config"
         /\ Look(h) \in held' => Look(h) \notin Waiting'
         /\ h \in expired' => pc'[h] \in Deciding
  PROVE  Places'
  BY DEF Places

LEMMA LeaveKeeps ==
  ASSUME Connections, TypeOK', NEW h \in Handler, Leave(h), UNCHANGED queue,
         pc' = [pc EXCEPT ![h] = "done"],
         Tx(h) \notin Waiting, Look(h) \notin Waiting
  PROVE  Connections'
<1> USE DEF Connections
<1>1. /\ held' = held \ {Tx(h), Look(h)} /\ Waiting' = Waiting
      /\ expired' = expired \ {h}
  BY DEF Leave, Waiting
<1>2. PoolTypeOK'
  BY DEF PoolTypeOK, Leave
<1>3. Places'
  BY <1>1, Uses, OthersStay DEF PoolTypeOK, TypeOK
<1>4. WaitOnce'
  BY DEF WaitOnce
<1>5. NothingLeaks'
  BY <1>1, <1>2, <1>3, HeldShrinks, PlacesSuffice DEF NothingLeaks, PoolTypeOK
<1> QED
  BY <1>2, <1>3, <1>4, <1>5

\* A handler that stays on its transaction.
LEMMA StayKeeps ==
  ASSUME Connections, TypeOK', NEW h \in Handler, NEW m \in Deciding,
         pc' = [pc EXCEPT ![h] = m], pc[h] \in Deciding,
         held' \subseteq held, held \ held' \subseteq {Look(h)},
         lookup' \in [Handler -> {"none", "exact", "pattern", "tier", "config"}],
         UNCHANGED expired,
         Tx(h) \notin Waiting, Look(h) \notin Waiting, Look(h) \notin held',
         \/ UNCHANGED queue
         \/ queue' = Append(queue, Look(h)) /\ m = "config"
  PROVE  Connections'
<1> USE DEF Connections
<1>1. /\ queue' \in Seq(Use) /\ WaitOnce' /\ Waiting \subseteq Waiting'
      /\ Waiting' \subseteq Waiting \cup {Look(h)}
      /\ Look(h) \in Waiting' => m = "config"
  <2>1. CASE UNCHANGED queue
    BY <2>1 DEF WaitOnce, Waiting, PoolTypeOK
  <2>2. CASE queue' = Append(queue, Look(h)) /\ m = "config"
    <3>1. queue \in Seq(Use) /\ WaitOnce /\ Look(h) \in Use
      BY Uses DEF PoolTypeOK
    <3> QED
      BY <2>2, <3>1, QueueAppend
  <2> QED
    BY <2>1, <2>2
<1>2. PoolTypeOK'
  BY <1>1 DEF PoolTypeOK
<1>3. \A g \in Handler \ {h} :
        /\ pc'[g] = pc[g]
        /\ \A u \in {Tx(g), Look(g)} : /\ u \in held' <=> u \in held
                                       /\ u \in Waiting' <=> u \in Waiting
  BY <1>1, Uses DEF PoolTypeOK, TypeOK
<1>4. pc'[h] = m
  BY DEF PoolTypeOK, TypeOK
<1>5. Places'
  <2>1. /\ Tx(h) \notin Waiting'
        /\ Tx(h) \in held' => h \notin expired'
    BY <1>1, Uses DEF Places
  <2> QED
    BY <1>1, <1>3, <1>4, <2>1, OthersStay
<1>6. NothingLeaks'
  BY <1>2, <1>5, HeldShrinks, PlacesSuffice DEF NothingLeaks, PoolTypeOK
<1> QED
  BY <1>1, <1>2, <1>5, <1>6

-----------------------------------------------------------------------------
(* Refinement *)

LEMMA StepRefines == [PoolNext]_pvars => [Next]_vars
<1> SUFFICES ASSUME [PoolNext]_pvars PROVE [Next]_vars
  OBVIOUS
<1>1. CASE UNCHANGED pvars
  BY <1>1 DEF pvars
<1>2. CASE Grant
  BY <1>2 DEF Grant
<1>3. ASSUME NEW h \in Handler, Work(h)
      PROVE  [Next]_vars
  <2>1. CASE Continue(h)
    BY <2>1 DEF Continue, Next, Consume
  <2>2. CASE Finish(h)
    BY <2>2 DEF Finish, Next, Consume
  <2>3. CASE StatementOfExpired(h)
    BY <2>3 DEF StatementOfExpired, Next
  <2>4. CASE LookupMore(h)
    BY <2>4 DEF LookupMore
  <2>5. CASE LookupLast(h)
    BY <2>5 DEF LookupLast, Next, Consume
  <2>6. CASE LookupFails(h)
    BY <2>6 DEF LookupFails, Next
  <2> QED
    BY <1>3, <2>1, <2>2, <2>3, <2>4, <2>5, <2>6 DEF Work
<1>4. ASSUME NEW h \in Handler, Timeout(h) \/ GiveUp(h)
      PROVE  [Next]_vars
  BY <1>4 DEF Timeout, GiveUp, Next
<1>5. ASSUME NEW h \in Handler, NEW p \in Path, BeginTx(h, p)
      PROVE  [Next]_vars
  BY <1>5 DEF BeginTx, Next
<1>6. ASSUME NEW c \in Amounts, Purchase(c)
      PROVE  [Next]_vars
  BY <1>6 DEF Next
<1> QED
  BY <1>1, <1>2, <1>3, <1>4, <1>5, <1>6 DEF PoolNext

\* Whatever the pool makes the handlers wait for, consumeCredit does only what
\* QuotaConsume allows, so what holds of QuotaConsume holds on the pool.
THEOREM PoolRefines == PoolSpec => RefinesQuotaConsume
<1>1. PoolInit => Init
  BY DEF PoolInit
<1> QED
  BY <1>1, StepRefines, PTL DEF PoolSpec, RefinesQuotaConsume, Spec

-----------------------------------------------------------------------------
(* The connections, action by action *)

LEMMA InitConnections == PoolInit => Connections
<1> SUFFICES ASSUME PoolInit PROVE Connections
  OBVIOUS
<1>1. TypeOK
  BY InitIInv DEF PoolInit, IInv
<1>2. Waiting = {} /\ queue \in Seq(Use) /\ DOMAIN queue = {}
  BY DEF PoolInit, Waiting
<1>3. Cardinality(held) = 0
  BY FS_EmptySet DEF PoolInit
<1> QED
  BY <1>1, <1>2, <1>3, PoolAssumption
  DEF PoolInit, Connections, PoolTypeOK, NothingLeaks, Places, WaitOnce

LEMMA GrantKeeps == Connections /\ Grant => Connections'
<1> SUFFICES ASSUME Connections, Grant PROVE Connections'
  OBVIOUS
<1> USE DEF Connections
<1> DEFINE u == Head(queue)
<1>1. /\ queue' \in Seq(Use) /\ WaitOnce' /\ u \in Waiting /\ u \in Use
      /\ Waiting' = Waiting \ {u} /\ held' = held \cup {u}
  BY QueueTail DEF Grant, PoolTypeOK
<1>2. UNCHANGED <<pc, expired, lookup>> /\ TypeOK'
  BY DEF Grant, vars, row, PoolTypeOK, TypeOK
<1>3. PoolTypeOK'
  BY <1>1, <1>2 DEF PoolTypeOK
<1> HIDE DEF u
<1>4. Places'
  <2>1. PICK h \in Handler : u = Tx(h) \/ u = Look(h)
    BY <1>1, Uses
  <2>2. \A g \in Handler \ {h} :
          \A x \in {Tx(g), Look(g)} : /\ x \in held' <=> x \in held
                                      /\ x \in Waiting' <=> x \in Waiting
    BY <1>1, <2>1, Uses
  <2>3. CASE u = Tx(h)
    BY <1>1, <1>2, <2>2, <2>3, Uses, OthersStay DEF Places, Deciding
  <2>4. CASE u = Look(h)
    BY <1>1, <1>2, <2>2, <2>4, Uses, OthersStay DEF Places, Deciding
  <2> QED
    BY <2>1, <2>3, <2>4
<1>5. Cardinality(held') <= POOL
  BY <1>1, HeldGrows DEF Grant, PoolTypeOK
<1> QED
  BY <1>1, <1>3, <1>4, <1>5, PlacesSuffice

LEMMA BeginKeeps ==
  ASSUME Connections, TypeOK', NEW h \in Handler, NEW p \in Path, BeginTx(h, p)
  PROVE  Connections'
<1> USE DEF Connections
<1>1. /\ pc[h] \notin Deciding
      /\ pc' = [pc EXCEPT ![h] = "monthly"]
  BY DEF BeginTx, Begin, Deciding
<1>2. Tx(h) \notin held \cup Waiting /\ Look(h) \notin held \cup Waiting
  BY <1>1, Uses DEF NothingLeaks
<1>3. h \notin expired
  BY <1>1 DEF Places
<1>4. queue' \in Seq(Use) /\ WaitOnce' /\ Waiting' = Waiting \cup {Tx(h)}
  BY <1>2, Uses, QueueAppend DEF BeginTx, PoolTypeOK
<1>5. PoolTypeOK'
  BY <1>4 DEF PoolTypeOK, BeginTx
<1>6. Places'
  <2>1. \A g \in Handler \ {h} :
          /\ pc'[g] = pc[g]
          /\ \A x \in {Tx(g), Look(g)} : /\ x \in held' <=> x \in held
                                         /\ x \in Waiting' <=> x \in Waiting
    BY <1>1, <1>4, Uses DEF BeginTx, PoolTypeOK, TypeOK
  <2>2. pc'[h] = "monthly" /\ h \notin expired' /\ UNCHANGED expired
    BY <1>1, <1>3 DEF BeginTx, PoolTypeOK, TypeOK
  <2>3. Tx(h) \notin held' /\ Look(h) \notin held' \cup Waiting'
    BY <1>2, <1>4, Uses DEF BeginTx
  <2> QED
    BY <2>1, <2>2, <2>3, OthersStay
<1>7. Cardinality(held') <= POOL
  BY DEF BeginTx, NothingLeaks
<1> QED
  BY <1>4, <1>5, <1>6, <1>7, PlacesSuffice

LEMMA GiveUpKeeps ==
  ASSUME Connections, TypeOK', NEW h \in Handler, GiveUp(h)
  PROVE  Connections'
<1> USE DEF Connections
<1>1. /\ queue' \in Seq(Use) /\ WaitOnce'
      /\ Tx(h) \in Waiting /\ Waiting' = Waiting \ {Tx(h)}
  BY QueueLeave DEF GiveUp, PoolTypeOK
<1>2. pc' = [pc EXCEPT ![h] = "done"]
  BY DEF GiveUp, Abort, Return
<1>3. pc[h] = "monthly" /\ Tx(h) \notin held /\ h \notin expired
  BY <1>1 DEF Places
<1>4. Look(h) \notin held \cup Waiting
  BY <1>3 DEF Places
<1>5. PoolTypeOK'
  BY <1>1 DEF PoolTypeOK, GiveUp
<1>6. Places'
  <2>1. \A g \in Handler \ {h} :
          /\ pc'[g] = pc[g]
          /\ \A x \in {Tx(g), Look(g)} : /\ x \in held' <=> x \in held
                                         /\ x \in Waiting' <=> x \in Waiting
    BY <1>1, <1>2, Uses DEF GiveUp, PoolTypeOK, TypeOK
  <2>2. /\ Tx(h) \notin held' \cup Waiting' /\ Look(h) \notin held' \cup Waiting'
        /\ h \notin expired' /\ UNCHANGED expired
    BY <1>1, <1>3, <1>4 DEF GiveUp
  <2> QED
    BY <2>1, <2>2, OthersStay
<1>7. Cardinality(held') <= POOL
  BY DEF GiveUp, NothingLeaks
<1> QED
  BY <1>1, <1>5, <1>6, <1>7, PlacesSuffice

LEMMA TimeoutKeeps ==
  ASSUME Connections, NEW h \in Handler, Timeout(h)
  PROVE  Connections'
<1> USE DEF Connections
<1>1. /\ Tx(h) \in held /\ held' = held \ {Tx(h)} /\ expired' = expired \cup {h}
      /\ UNCHANGED <<pc, queue, lookup>> /\ TypeOK' /\ Waiting' = Waiting
  BY DEF Timeout, vars, row, PoolTypeOK, TypeOK, Waiting
<1>2. PoolTypeOK' /\ WaitOnce'
  BY <1>1 DEF PoolTypeOK, WaitOnce
<1>3. pc[h] \in Deciding /\ Tx(h) \notin Waiting
  BY <1>1 DEF Places
<1>4. Places'
  <2>1. \A g \in Handler \ {h} :
          /\ pc'[g] = pc[g]
          /\ g \in expired' => g \in expired
          /\ \A x \in {Tx(g), Look(g)} : /\ x \in held' <=> x \in held
                                         /\ x \in Waiting' <=> x \in Waiting
    BY <1>1, Uses
  <2>2. /\ Tx(h) \notin held' \cup Waiting' /\ pc'[h] \in Deciding
        /\ Look(h) \in held' \cup Waiting' => pc'[h] = "config"
        /\ Look(h) \in held' => Look(h) \notin Waiting'
    BY <1>1, <1>3 DEF Places
  <2> QED
    BY <2>1, <2>2, OthersStay
<1>5. Cardinality(held') <= POOL
  BY <1>1, HeldShrinks DEF NothingLeaks, PoolTypeOK
<1> QED
  BY <1>2, <1>4, <1>5, PlacesSuffice

\* A transaction between two statements has no lookup.
LEMMA BetweenStatements ==
  ASSUME Connections, NEW h \in Handler, pc[h] # "config",
         Tx(h) \in held \/ h \in expired
  PROVE  Tx(h) \notin Waiting /\ Look(h) \notin held \cup Waiting
  BY DEF Connections, Places

LEMMA ContinueKeeps ==
  ASSUME Connections, TypeOK', NEW h \in Handler, Continue(h)
  PROVE  Connections'
<1> DEFINE m == pc'[h]
<1>1. /\ pc[h] \in {"monthly", "readDaily"}
      /\ m \in Deciding
      /\ pc' = [pc EXCEPT ![h] = m]
  <2> USE DEF Connections, PoolTypeOK, TypeOK, Goto, Deciding
  <2>1. CASE ReadMonthly(h)
    BY <2>1 DEF ReadMonthly
  <2>2. CASE ReadDaily(h) /\ pc'[h] # "done"
    BY <2>2 DEF ReadDaily, Return
  <2> QED
    BY <2>1, <2>2 DEF Continue
<1>2. Tx(h) \notin Waiting /\ Look(h) \notin held \cup Waiting
  BY <1>1, BetweenStatements DEF Continue, Open
<1>3. UNCHANGED <<held, expired>>
  BY DEF Continue
<1>4. \/ UNCHANGED <<queue, lookup>>
      \/ /\ queue' = Append(queue, Look(h)) /\ m = "config"
         /\ lookup' = [lookup EXCEPT ![h] = "exact"]
  BY DEF Continue, AskFor
<1>5. lookup' \in [Handler -> {"none", "exact", "pattern", "tier", "config"}]
  BY <1>4 DEF Connections, PoolTypeOK
<1>6. pc[h] \in Deciding
  BY <1>1 DEF Deciding
<1> HIDE DEF m
<1> QED
  BY <1>1, <1>2, <1>3, <1>4, <1>5, <1>6, StayKeeps

LEMMA FinishKeeps ==
  ASSUME Connections, TypeOK', NEW h \in Handler,
         Finish(h) \/ StatementOfExpired(h)
  PROVE  Connections'
<1>1. pc' = [pc EXCEPT ![h] = "done"]
  <2>1. CASE ReadDaily(h) /\ pc'[h] = "done"
    BY <2>1 DEF ReadDaily, Goto, Return, Connections, PoolTypeOK, TypeOK
  <2>2. CASE ChargePaid(h) \/ ChargeDaily(h) \/ CreateDaily(h) \/ CreateCollides(h)
    BY <2>2 DEF ChargePaid, ChargeDaily, CreateDaily, CreateCollides, Return
  <2>3. CASE Abort(h) \/ CommitLost(h)
    BY <2>3 DEF Abort, CommitLost, Return
  <2> QED
    BY <2>1, <2>2, <2>3 DEF Finish, StatementOfExpired
<1>2. pc[h] # "config" /\ (Tx(h) \in held \/ h \in expired)
  BY DEF Finish, StatementOfExpired, Open
<1>3. Leave(h) /\ UNCHANGED queue
  BY DEF Finish, StatementOfExpired
<1> QED
  BY <1>1, <1>2, <1>3, BetweenStatements, LeaveKeeps

LEMMA LookupKeeps ==
  ASSUME Connections, TypeOK', NEW h \in Handler,
         LookupMore(h) \/ LookupLast(h) \/ LookupFails(h)
  PROVE  Connections'
<1>1. /\ Look(h) \in held /\ pc[h] = "config"
      /\ Tx(h) \notin Waiting /\ Look(h) \notin Waiting
  BY DEF LookupMore, LookupLast, LookupFails, Connections, Places
<1>2. pc \in [Handler -> Deciding \cup {"idle", "done"}]
  BY DEF Connections, PoolTypeOK, TypeOK
<1>3. CASE LookupMore(h)
  <2>1. PICK l \in After(lookup[h]) : AskFor(h, l)
    BY <1>3 DEF LookupMore
  <2>2. l \in {"pattern", "tier", "config"}
    BY <2>1 DEF After
  <2>3. lookup' \in [Handler -> {"none", "exact", "pattern", "tier", "config"}]
    BY <2>1, <2>2 DEF AskFor, Connections, PoolTypeOK
  <2>4. pc' = [pc EXCEPT ![h] = "config"]
    BY <1>1, <1>2, <1>3 DEF LookupMore, vars
  <2>5. /\ held' = held \ {Look(h)} /\ UNCHANGED expired
        /\ queue' = Append(queue, Look(h))
    BY <1>3, <2>1 DEF LookupMore, AskFor
  <2>6. "config" \in Deciding
    BY DEF Deciding
  <2> QED
    BY <1>1, <2>3, <2>4, <2>5, <2>6, StayKeeps
<1>4. CASE LookupLast(h)
  <2>1. CASE pc'[h] = "done"
    <3>1. pc' = [pc EXCEPT ![h] = "done"]
      BY <1>2, <1>4, <2>1 DEF LookupLast, Config, Goto, Return
    <3>2. Leave(h) /\ UNCHANGED queue
      BY <1>4, <2>1 DEF LookupLast
    <3> QED
      BY <1>1, <3>1, <3>2, LeaveKeeps
  <2>2. CASE pc'[h] # "done"
    <3>1. pc' = [pc EXCEPT ![h] = "readDaily"]
      BY <1>2, <1>4, <2>2 DEF LookupLast, Config, Goto, Return
    <3>2. /\ held' = held \ {Look(h)} /\ UNCHANGED <<expired, queue>>
          /\ lookup' = [lookup EXCEPT ![h] = "none"]
      BY <1>4, <2>2 DEF LookupLast
    <3>3. lookup' \in [Handler -> {"none", "exact", "pattern", "tier", "config"}]
      BY <3>2 DEF Connections, PoolTypeOK
    <3>4. "readDaily" \in Deciding /\ "config" \in Deciding
      BY DEF Deciding
    <3> QED
      BY <1>1, <3>1, <3>2, <3>3, <3>4, StayKeeps
  <2> QED
    BY <2>1, <2>2
<1>5. CASE LookupFails(h)
  BY <1>1, <1>5, LeaveKeeps DEF LookupFails, Abort, Return
<1> QED
  BY <1>3, <1>4, <1>5

LEMMA NextConnections ==
  ASSUME Connections, TypeOK', [PoolNext]_pvars
  PROVE  Connections'
<1>1. CASE UNCHANGED pvars
  <2>1. UNCHANGED <<vars, held, queue, expired, lookup>> /\ Waiting' = Waiting
    BY <1>1 DEF pvars, pool, Waiting
  <2>2. UNCHANGED pc
    BY <2>1 DEF vars
  <2> QED
    BY <2>1, <2>2 DEF Connections, PoolTypeOK, NothingLeaks, Places, WaitOnce
<1>2. CASE Grant
  BY <1>2, GrantKeeps
<1>3. ASSUME NEW h \in Handler, Work(h) \/ Timeout(h) \/ GiveUp(h)
      PROVE  Connections'
  BY <1>3, ContinueKeeps, FinishKeeps, LookupKeeps, TimeoutKeeps, GiveUpKeeps
  DEF Work
<1>4. ASSUME NEW h \in Handler, NEW p \in Path, BeginTx(h, p)
      PROVE  Connections'
  BY <1>4, BeginKeeps
<1>5. ASSUME NEW c \in Amounts, Purchase(c), UNCHANGED pool
      PROVE  Connections'
  <2>1. UNCHANGED <<pc, held, queue, expired, lookup>> /\ Waiting' = Waiting
    BY <1>5 DEF Purchase, pool, Waiting
  <2> QED
    BY <2>1 DEF Connections, PoolTypeOK, NothingLeaks, Places, WaitOnce
<1> QED
  BY <1>1, <1>2, <1>3, <1>4, <1>5 DEF PoolNext

-----------------------------------------------------------------------------
(* The transactions about to charge *)

LEMMA ChargingFinite ==
  ASSUME PoolTypeOK, NEW l
  PROVE  /\ Charging(l) \subseteq held /\ IsFiniteSet(Charging(l))
         /\ Cardinality(Charging(l)) \in Nat
         /\ Cardinality(Charging(l)) <= Cardinality(held)
         /\ Cardinality(held) \in Nat
<1>1. Charging(l) \subseteq held /\ IsFiniteSet(held)
  BY UseFinite DEF Charging, PoolTypeOK
<1> QED
  BY <1>1, FS_Subset, FS_CardinalityType

LEMMA ChargingShrinks ==
  ASSUME PoolTypeOK, NEW l, Charging(l)' \subseteq Charging(l)
  PROVE  /\ Cardinality(Charging(l)') \in Nat
         /\ Cardinality(Charging(l)') <= Cardinality(Charging(l))
         /\ Charging(l) = {} => Charging(l)' = {}
  BY ChargingFinite, FS_Subset, FS_CardinalityType

LEMMA ChargingLoses ==
  ASSUME PoolTypeOK, NEW l, NEW u, u \in Charging(l),
         Charging(l)' \subseteq Charging(l) \ {u}
  PROVE  /\ Cardinality(Charging(l)') \in Nat
         /\ Cardinality(Charging(l)') <= Cardinality(Charging(l)) - 1
<1>1. IsFiniteSet(Charging(l) \ {u})
      /\ Cardinality(Charging(l) \ {u}) = Cardinality(Charging(l)) - 1
  BY ChargingFinite, FS_RemoveElement
<1> QED
  BY <1>1, FS_Subset, FS_CardinalityType

\* A handler that goes elsewhere joins none of those about to charge.
LEMMA Leaves ==
  ASSUME PoolTypeOK, NEW h \in Handler, NEW l, NEW m, l # m,
         pc' = [pc EXCEPT ![h] = m], held' \subseteq held
  PROVE  Charging(l)' \subseteq Charging(l) \ {Tx(h)}
<1>1. ASSUME NEW u \in Charging(l)'
      PROVE  u \in Charging(l) /\ u # Tx(h)
  <2>1. u \in held /\ u \in Use /\ u[1] \in Handler /\ u[2] = "tx" /\ pc'[u[1]] = l
    BY <1>1, Uses DEF Charging, PoolTypeOK
  <2>2. u[1] # h
    BY <2>1 DEF PoolTypeOK, TypeOK
  <2> QED
    BY <2>1, <2>2, Uses DEF Charging, PoolTypeOK, TypeOK
<1> QED
  BY <1>1

\* What a step does to the credits and to those about to charge.
Shrinks(l) == Charging(l)' \subseteq Charging(l)

Quiet ==
  /\ used' = used /\ daily' = daily
  /\ purchased' \in Nat /\ purchased' >= purchased
  /\ Shrinks("chargePaid") /\ Shrinks("chargeDaily")

EntersPaid ==
  /\ purchased - used >= COST
  /\ UNCHANGED row
  /\ Shrinks("chargeDaily")

EntersDaily ==
  /\ daily # NoRow /\ daily + COST <= MaxLimit
  /\ UNCHANGED row
  /\ Shrinks("chargePaid")

Charges(h) ==
  \/ /\ Tx(h) \in Charging("chargePaid")
     /\ Charging("chargePaid")' \subseteq Charging("chargePaid") \ {Tx(h)}
     /\ Shrinks("chargeDaily")
     /\ used' = used + COST /\ UNCHANGED <<purchased, daily>>
  \/ /\ Tx(h) \in Charging("chargeDaily")
     /\ Charging("chargeDaily")' \subseteq Charging("chargeDaily") \ {Tx(h)}
     /\ Shrinks("chargePaid")
     /\ daily' = daily + COST /\ UNCHANGED <<purchased, used>>
  \/ /\ pc[h] = "createDaily" /\ daily = NoRow /\ Tx(h) \in Past
     /\ Shrinks("chargePaid") /\ Shrinks("chargeDaily")
     /\ daily' = COST /\ UNCHANGED <<purchased, used>>

LEMMA FinishShape ==
  ASSUME PoolTypeOK, NEW h \in Handler, Finish(h)
  PROVE  Quiet \/ Charges(h)
<1>1. held' \subseteq held /\ Tx(h) \in held /\ purchased \in Nat
  BY DEF Finish, Leave, Open, PoolTypeOK, TypeOK
<1>2. pc' = [pc EXCEPT ![h] = "done"]
  <2>1. CASE ReadDaily(h) /\ pc'[h] = "done"
    BY <2>1 DEF ReadDaily, Goto, Return, PoolTypeOK, TypeOK
  <2>2. CASE ChargePaid(h) \/ ChargeDaily(h) \/ CreateDaily(h) \/ CreateCollides(h)
    BY <2>2 DEF ChargePaid, ChargeDaily, CreateDaily, CreateCollides, Return
  <2>3. CASE Abort(h) \/ CommitLost(h)
    BY <2>3 DEF Abort, CommitLost, Return
  <2> QED
    BY <2>1, <2>2, <2>3 DEF Finish
<1>3. /\ Charging("chargePaid")' \subseteq Charging("chargePaid") \ {Tx(h)}
      /\ Charging("chargeDaily")' \subseteq Charging("chargeDaily") \ {Tx(h)}
  BY <1>1, <1>2, Leaves
<1>4. Shrinks("chargePaid") /\ Shrinks("chargeDaily")
  BY <1>3 DEF Shrinks
<1>5. \A l : pc[h] = l => Tx(h) \in Charging(l)
  BY <1>1, Uses DEF Charging
<1>6. CASE ChargePaid(h) \/ (CommitLost(h) /\ pc[h] = "chargePaid")
  BY <1>3, <1>4, <1>5, <1>6 DEF ChargePaid, CommitLost, Charges
<1>7. CASE ChargeDaily(h) \/ (CommitLost(h) /\ pc[h] = "chargeDaily")
  BY <1>3, <1>4, <1>5, <1>7 DEF ChargeDaily, CommitLost, Charges
<1>8. CASE CreateDaily(h) \/ (CommitLost(h) /\ pc[h] = "createDaily")
  <2>1. Tx(h) \in Past
    BY <1>1, <1>8, Uses DEF CreateDaily, CommitLost, Past, OfTheDay
  <2> QED
    BY <1>4, <1>8, <2>1 DEF CreateDaily, CommitLost, Charges
<1>9. CASE CreateCollides(h) \/ ReadDaily(h) \/ Abort(h)
  BY <1>1, <1>4, <1>9 DEF CreateCollides, ReadDaily, Abort, Quiet, row
<1> QED
  BY <1>6, <1>7, <1>8, <1>9 DEF Finish, CommitLost

\* A step that moves one handler to where nothing is charged.
LEMMA MoveIsQuiet ==
  ASSUME PoolTypeOK, NEW h \in Handler, NEW m, m \notin {"chargePaid", "chargeDaily"},
         pc' = [pc EXCEPT ![h] = m], held' \subseteq held, UNCHANGED row
  PROVE  Quiet
<1>1. Shrinks("chargePaid") /\ Shrinks("chargeDaily")
  BY Leaves DEF Shrinks
<1> QED
  BY <1>1 DEF Quiet, row, PoolTypeOK, TypeOK

LEMMA ContinueShape ==
  ASSUME PoolTypeOK, NEW h \in Handler, Continue(h)
  PROVE  Quiet \/ EntersPaid \/ EntersDaily
<1>1. held' \subseteq held /\ purchased \in Nat
  BY DEF Continue, PoolTypeOK, TypeOK
<1>2. UNCHANGED row
  BY DEF Continue, ReadMonthly, ReadDaily
<1>3. ASSUME NEW m, pc' = [pc EXCEPT ![h] = m]
      PROVE  /\ m # "chargePaid" => Shrinks("chargePaid")
             /\ m # "chargeDaily" => Shrinks("chargeDaily")
  BY <1>1, <1>3, Leaves DEF Shrinks
<1>4. CASE ReadMonthly(h)
  <2>1. CASE purchased - used >= COST
    BY <1>2, <1>3, <1>4, <2>1 DEF ReadMonthly, Goto, EntersPaid
  <2>2. CASE ~(purchased - used >= COST)
    <3>1. pc' = [pc EXCEPT ![h] = "config"]
      BY <1>4, <2>2 DEF ReadMonthly, Goto
    <3> QED
      BY <1>1, <1>2, <3>1, MoveIsQuiet
  <2> QED
    BY <2>1, <2>2
<1>5. CASE ReadDaily(h) /\ pc'[h] # "done"
  <2>1. CASE daily # NoRow /\ daily + COST <= LimitOf[path[h]] /\ Goto(h, "chargeDaily")
    <3>1. /\ daily \in Nat /\ LimitOf[path[h]] \in Nat /\ MaxLimit \in Nat
          /\ LimitOf[path[h]] <= MaxLimit
      BY <2>1, LimitAssumption DEF PoolTypeOK, TypeOK
    <3>2. daily + COST <= MaxLimit
      BY <2>1, <3>1 DEF COST
    <3>3. Shrinks("chargePaid")
      BY <1>3, <2>1 DEF Goto
    <3> QED
      BY <1>2, <2>1, <3>2, <3>3 DEF EntersDaily
  <2>2. CASE Goto(h, "createDaily")
    BY <1>1, <1>2, <2>2, MoveIsQuiet DEF Goto
  <2>3. CASE Return(h, "denied")
    BY <1>5, <2>3 DEF Return, PoolTypeOK, TypeOK
  <2> QED
    BY <1>5, <2>1, <2>2, <2>3 DEF ReadDaily
<1> QED
  BY <1>4, <1>5 DEF Continue

LEMMA StandsIsQuiet ==
  ASSUME PoolTypeOK, held' \subseteq held, UNCHANGED <<row, pc>>
  PROVE  Quiet
  BY DEF Quiet, row, PoolTypeOK, TypeOK, Shrinks, Charging

LEMMA StepShape ==
  ASSUME Connections, [PoolNext]_pvars
  PROVE  Quiet \/ EntersPaid \/ EntersDaily \/ \E h \in Handler : Charges(h)
<1>0. PoolTypeOK /\ purchased \in Nat
  BY DEF Connections, PoolTypeOK, TypeOK
<1>1. CASE UNCHANGED pvars
  BY <1>0, <1>1, StandsIsQuiet DEF pvars, vars, pool
<1>2. CASE Grant
  <2>1. /\ Head(queue) \in Waiting /\ Head(queue) \in Use
        /\ held' = held \cup {Head(queue)} /\ UNCHANGED <<row, pc>>
    BY <1>2, QueueTail DEF Grant, vars, Connections, PoolTypeOK
  <2>2. \A l \in {"chargePaid", "chargeDaily"} : Head(queue) \notin Charging(l)'
    BY <2>1, Uses DEF Charging, Connections, Places
  <2>3. Shrinks("chargePaid") /\ Shrinks("chargeDaily")
    BY <2>1, <2>2 DEF Shrinks, Charging
  <2> QED
    BY <1>0, <2>1, <2>3 DEF Quiet, row
<1>3. ASSUME NEW h \in Handler, Work(h)
      PROVE  Quiet \/ EntersPaid \/ EntersDaily \/ Charges(h)
  <2>1. CASE Continue(h)
    BY <1>0, <2>1, ContinueShape
  <2>2. CASE Finish(h)
    BY <1>0, <2>2, FinishShape
  <2>3. CASE StatementOfExpired(h) \/ LookupFails(h)
    BY <1>0, <2>3, MoveIsQuiet DEF StatementOfExpired, LookupFails, Abort, Return, Leave
  <2>4. CASE LookupMore(h)
    BY <1>0, <2>4, StandsIsQuiet DEF LookupMore, vars
  <2>5. CASE LookupLast(h)
    <3>1. held' \subseteq held /\ UNCHANGED row
      BY <2>5 DEF LookupLast, Leave, Config
    <3>2. PICK m \in {"done", "readDaily"} : pc' = [pc EXCEPT ![h] = m]
      BY <2>5 DEF LookupLast, Config, Goto, Return
    <3> QED
      BY <1>0, <3>1, <3>2, MoveIsQuiet
  <2> QED
    BY <1>3, <2>1, <2>2, <2>3, <2>4, <2>5 DEF Work
<1>4. ASSUME NEW h \in Handler, Timeout(h)
      PROVE  Quiet
  BY <1>0, <1>4, StandsIsQuiet DEF Timeout, vars
<1>5. ASSUME NEW h \in Handler, GiveUp(h)
      PROVE  Quiet
  BY <1>0, <1>5, MoveIsQuiet DEF GiveUp, Abort, Return
<1>6. ASSUME NEW h \in Handler, NEW p \in Path, BeginTx(h, p)
      PROVE  Quiet
  BY <1>0, <1>6, MoveIsQuiet DEF BeginTx, Begin
<1>7. ASSUME NEW c \in Amounts, Purchase(c), UNCHANGED pool
      PROVE  Quiet
  <2>1. /\ c \in Nat /\ purchased' = purchased + c
        /\ used' = used /\ daily' = daily /\ UNCHANGED <<held, pc>>
    BY <1>7, AmountsAssumption DEF Purchase, pool
  <2>2. Shrinks("chargePaid") /\ Shrinks("chargeDaily")
    BY <2>1 DEF Shrinks, Charging
  <2> QED
    BY <1>0, <2>1, <2>2 DEF Quiet
<1> QED
  BY <1>1, <1>2, <1>3, <1>4, <1>5, <1>6, <1>7 DEF PoolNext

-----------------------------------------------------------------------------
(* One connection is left for the lookups *)

LEMMA PastFinite ==
  ASSUME PoolTypeOK
  PROVE  /\ IsFiniteSet(held) /\ IsFiniteSet(Past) /\ Past \subseteq held
         /\ Cardinality(Past) \in Nat /\ Cardinality(held) \in Nat
<1>1. Past \subseteq held /\ held \subseteq Use
  BY DEF Past, PoolTypeOK
<1> QED
  BY <1>1, UseFinite, FS_Subset, FS_CardinalityType

LEMMA PastShrinks ==
  ASSUME PoolTypeOK, OneIsLeft, Past' \subseteq Past
  PROVE  OneIsLeft'
<1>1. Cardinality(Past') <= Cardinality(Past) /\ Cardinality(Past') \in Nat
  BY PastFinite, FS_Subset, FS_CardinalityType
<1> QED
  BY <1>1, PastFinite, PoolAssumption DEF OneIsLeft

\* A handler that goes to m does not come to the row of the day by that.
LEMMA MoveKeepsPast ==
  ASSUME PoolTypeOK, OneIsLeft, NEW h \in Handler, NEW m,
         m \notin OfTheDay \/ pc[h] \in OfTheDay,
         pc' = [pc EXCEPT ![h] = m], held' \subseteq held
  PROVE  OneIsLeft'
<1>1. ASSUME NEW u \in Past'
      PROVE  u \in Past
  <2>1. u \in held /\ u[1] \in Handler /\ u[2] = "tx" /\ pc'[u[1]] \in OfTheDay
    BY <1>1, Uses DEF Past, PoolTypeOK
  <2>2. pc[u[1]] \in OfTheDay
    BY <2>1 DEF PoolTypeOK, TypeOK
  <2> QED
    BY <2>1, <2>2 DEF Past
<1> QED
  BY <1>1, PastShrinks

LEMMA StandsKeepsPast ==
  ASSUME PoolTypeOK, OneIsLeft, held' \subseteq held, UNCHANGED pc
  PROVE  OneIsLeft'
  BY PastShrinks DEF Past

LEMMA NextOneIsLeft ==
  ASSUME Connections, Connections', OneIsLeft, [PoolNext]_pvars
  PROVE  OneIsLeft'
<1>0. PoolTypeOK /\ pc \in [Handler -> Deciding \cup {"idle", "done"}]
  BY DEF Connections, PoolTypeOK, TypeOK
<1>1. CASE UNCHANGED pvars
  BY <1>0, <1>1, StandsKeepsPast DEF pvars, vars, pool
<1>2. CASE Grant
  <2>1. /\ Head(queue) \in Waiting /\ Head(queue) \in Use
        /\ held' = held \cup {Head(queue)} /\ UNCHANGED pc
    BY <1>2, QueueTail DEF Grant, vars, Connections, PoolTypeOK
  <2>2. Head(queue) \notin Past'
    BY <2>1, Uses DEF Past, OfTheDay, Connections, Places
  <2>3. Past' \subseteq Past
    BY <2>1, <2>2 DEF Past
  <2> QED
    BY <1>0, <2>3, PastShrinks
<1>3. ASSUME NEW h \in Handler, Work(h)
      PROVE  OneIsLeft'
  <2>1. CASE Continue(h)
    <3>1. /\ pc' = [pc EXCEPT ![h] = pc'[h]] /\ held' \subseteq held
          /\ pc'[h] \notin OfTheDay \/ pc[h] \in OfTheDay
      BY <1>0, <2>1 DEF Continue, ReadMonthly, ReadDaily, Goto, Return, OfTheDay
    <3> QED
      BY <1>0, <3>1, MoveKeepsPast
  <2>2. CASE Finish(h) \/ StatementOfExpired(h) \/ LookupFails(h)
    <3>1. pc' = [pc EXCEPT ![h] = "done"]
      BY <1>0, <2>2 DEF Finish, StatementOfExpired, LookupFails, Abort, CommitLost,
         ChargePaid, ChargeDaily, CreateDaily, CreateCollides, ReadDaily, Goto, Return
    <3>2. held' \subseteq held
      BY <2>2 DEF Finish, StatementOfExpired, LookupFails, Leave
    <3>3. "done" \notin OfTheDay
      BY DEF OfTheDay
    <3> QED
      BY <1>0, <3>1, <3>2, <3>3, MoveKeepsPast
  <2>3. CASE LookupMore(h)
    BY <1>0, <2>3, StandsKeepsPast DEF LookupMore, vars
  <2>4. CASE LookupLast(h) /\ pc'[h] = "done"
    <3>1. pc' = [pc EXCEPT ![h] = "done"] /\ held' \subseteq held
      BY <1>0, <2>4 DEF LookupLast, Config, Goto, Return, Leave
    <3>2. "done" \notin OfTheDay
      BY DEF OfTheDay
    <3> QED
      BY <1>0, <3>1, <3>2, MoveKeepsPast
  <2>5. CASE LookupLast(h) /\ pc'[h] # "done"
    <3>1. Look(h) \in held /\ held' = held \ {Look(h)}
      BY <2>5 DEF LookupLast
    <3>2. Cardinality(held') = Cardinality(held) - 1 /\ IsFiniteSet(held')
      BY <1>0, <3>1, PastFinite, FS_RemoveElement
    <3>3. Past' \subseteq held'
      BY DEF Past
    <3>4. Cardinality(Past') <= Cardinality(held') /\ Cardinality(Past') \in Nat
      BY <3>2, <3>3, FS_Subset, FS_CardinalityType
    <3>5. Cardinality(held) <= POOL /\ Cardinality(held) \in Nat
      BY <1>0, PastFinite DEF Connections, NothingLeaks
    <3> QED
      BY <3>2, <3>4, <3>5, PoolAssumption DEF OneIsLeft
  <2> QED
    BY <1>3, <2>1, <2>2, <2>3, <2>4, <2>5 DEF Work
<1>4. ASSUME NEW h \in Handler, Timeout(h)
      PROVE  OneIsLeft'
  BY <1>0, <1>4, StandsKeepsPast DEF Timeout, vars
<1>5. ASSUME NEW h \in Handler, GiveUp(h)
      PROVE  OneIsLeft'
  BY <1>0, <1>5, MoveKeepsPast DEF GiveUp, Abort, Return, OfTheDay
<1>6. ASSUME NEW h \in Handler, NEW p \in Path, BeginTx(h, p)
      PROVE  OneIsLeft'
  BY <1>0, <1>6, MoveKeepsPast DEF BeginTx, Begin, OfTheDay
<1>7. ASSUME NEW c \in Amounts, Purchase(c), UNCHANGED pool
      PROVE  OneIsLeft'
  BY <1>0, <1>7, StandsKeepsPast DEF Purchase, pool
<1> QED
  BY <1>1, <1>2, <1>3, <1>4, <1>5, <1>6, <1>7 DEF PoolNext

-----------------------------------------------------------------------------
(* The bounds *)

\* A handler goes for a charge only while a credit is left, and no more
\* transactions than connections are about to.
LEMMA NextPaidWithin ==
  ASSUME Connections, Connections', IInv, IInv', PaidWithin, [PoolNext]_pvars
  PROVE  PaidWithin'
<1> DEFINE c == "chargePaid"
           n == Cardinality(Charging(c))
           k == Cardinality(Charging(c)')
<1>1. /\ used \in Nat /\ used' \in Nat /\ purchased \in Nat /\ purchased' \in Nat
      /\ POOL \in Nat \ {0}
  BY PoolAssumption DEF IInv, TypeOK
<1>2. n \in Nat /\ (Charging(c) # {} => n >= 1)
  BY ChargingFinite, FS_EmptySet DEF Connections
<1>3. PoolTypeOK
  BY DEF Connections
<1>4. CASE Quiet
  <2>1. k \in Nat /\ k <= n /\ (Charging(c) = {} => Charging(c)' = {})
    BY <1>3, <1>4, ChargingShrinks DEF Quiet, Shrinks
  <2> HIDE DEF k, n
  <2>2. used' = used /\ purchased' >= purchased
    BY <1>4 DEF Quiet
  <2> QED
    BY <1>1, <1>2, <2>1, <2>2 DEF PaidWithin, k, n
<1>5. CASE EntersPaid
  <2>1. /\ Charging(c)' \subseteq held' /\ held' \subseteq Use
        /\ Cardinality(held') <= POOL
    BY DEF Charging, Connections, PoolTypeOK, NothingLeaks
  <2>2. k \in Nat /\ k <= POOL
    <3>1. IsFiniteSet(held') /\ Cardinality(held') \in Nat
      BY <2>1, UseFinite, FS_CardinalityType
    <3>2. k \in Nat /\ k <= Cardinality(held')
      BY <2>1, <3>1, FS_Subset, FS_CardinalityType
    <3> QED
      BY <1>1, <2>1, <3>1, <3>2
  <2>3. used' = used /\ purchased' = purchased /\ purchased - used >= 1
    BY <1>5 DEF EntersPaid, row, COST
  <2> HIDE DEF k
  <2> QED
    BY <1>1, <2>2, <2>3 DEF PaidWithin, k
<1>6. CASE EntersDaily
  <2>1. k \in Nat /\ k <= n /\ (Charging(c) = {} => Charging(c)' = {})
    BY <1>3, <1>6, ChargingShrinks DEF EntersDaily, Shrinks
  <2> HIDE DEF k, n
  <2>2. used' = used /\ purchased' = purchased
    BY <1>6 DEF EntersDaily, row
  <2> QED
    BY <1>1, <1>2, <2>1, <2>2 DEF PaidWithin, k, n
<1>7. ASSUME NEW h \in Handler, Charges(h)
      PROVE  PaidWithin'
  <2>1. CASE Tx(h) \in Charging(c) /\ Charging(c)' \subseteq Charging(c) \ {Tx(h)}
             /\ used' = used + COST /\ UNCHANGED <<purchased, daily>>
    <3>1. k \in Nat /\ k <= n - 1 /\ Charging(c) # {}
      BY <1>3, <2>1, ChargingLoses
    <3> HIDE DEF k, n
    <3>2. used' = used + 1 /\ purchased' = purchased
      BY <2>1 DEF COST
    <3> QED
      BY <1>1, <1>2, <3>1, <3>2 DEF PaidWithin, k, n
  <2>2. CASE Shrinks(c) /\ UNCHANGED <<purchased, used>>
    <3>1. k \in Nat /\ k <= n /\ (Charging(c) = {} => Charging(c)' = {})
      BY <1>3, <2>2, ChargingShrinks DEF Shrinks
    <3> HIDE DEF k, n
    <3>2. used' = used /\ purchased' = purchased
      BY <2>2
    <3> QED
      BY <1>1, <1>2, <3>1, <3>2 DEF PaidWithin, k, n
  <2> QED
    BY <1>7, <2>1, <2>2 DEF Charges
<1> QED
  BY <1>4, <1>5, <1>6, <1>7, StepShape

\* About to charge the row of the day means that there is one, and only a path
\* with a quota comes to insert it.
LEMMA NextDailyWithin ==
  ASSUME Connections, Connections', IInv, IInv', OneIsLeft, OneIsLeft',
         DailyWithin, [PoolNext]_pvars
  PROVE  DailyWithin'
<1> DEFINE c == "chargeDaily"
           n == Cardinality(Charging(c))
           k == Cardinality(Charging(c)')
<1>1. /\ daily \in Nat \cup {NoRow} /\ daily' \in Nat \cup {NoRow}
      /\ POOL \in Nat \ {0} /\ MaxLimit \in Nat /\ NoRow \notin Nat
  BY PoolAssumption, LimitAssumption, NoRowAssumption DEF IInv, TypeOK
<1>2. PoolTypeOK
  BY DEF Connections
<1>3. n \in Nat
  BY <1>2, ChargingFinite
<1>4. Shrinks(c) => k \in Nat /\ k <= n
  BY <1>2, ChargingShrinks DEF Shrinks
<1>5. daily = NoRow => n = 0
  <2> SUFFICES ASSUME daily = NoRow PROVE Charging(c) = {}
    BY FS_EmptySet
  <2>1. \A h \in Handler : pc[h] # c
    BY CountPositive DEF IInv, DailyBound
  <2> QED
    BY <1>2, <2>1, Uses DEF Charging, PoolTypeOK
<1>6. CASE Shrinks(c) /\ daily' = daily
  <2> HIDE DEF k, n
  <2> QED
    BY <1>1, <1>3, <1>4, <1>6 DEF DailyWithin, k, n
<1>7. CASE EntersDaily
  <2>1. Charging(c)' \subseteq Past' /\ Past' \subseteq Use
    BY DEF Charging, Past, OfTheDay, Connections, PoolTypeOK
  <2>2. k \in Nat /\ k <= POOL - 1
    <3>1. IsFiniteSet(Past') /\ Cardinality(Past') \in Nat
      BY <2>1, UseFinite, FS_CardinalityType
    <3>2. k \in Nat /\ k <= Cardinality(Past')
      BY <2>1, <3>1, FS_Subset, FS_CardinalityType
    <3> QED
      BY <1>1, <3>1, <3>2 DEF OneIsLeft
  <2>3. daily' = daily /\ daily \in Nat /\ daily + 1 <= MaxLimit /\ POOL > 1
    BY <1>1, <1>7 DEF EntersDaily, row, COST, DailyWithin
  <2> HIDE DEF k
  <2> QED
    BY <1>1, <2>2, <2>3 DEF DailyWithin, k
<1>8. ASSUME NEW h \in Handler, Charges(h)
      PROVE  DailyWithin'
  <2>1. CASE Tx(h) \in Charging(c) /\ Charging(c)' \subseteq Charging(c) \ {Tx(h)}
             /\ daily' = daily + COST
    <3>1. k \in Nat /\ k <= n - 1 /\ Charging(c) # {}
      BY <1>2, <2>1, ChargingLoses
    <3>2. daily \in Nat
      BY <1>1, <1>3, <1>5, <3>1
    <3> HIDE DEF k, n
    <3>3. daily' = daily + 1
      BY <2>1 DEF COST
    <3>4. POOL > 1 /\ daily + n <= MaxLimit + POOL - 2
      BY <1>1, <3>2 DEF DailyWithin, n
    <3> QED
      BY <1>1, <1>3, <3>1, <3>2, <3>3, <3>4 DEF DailyWithin, k
  <2>2. CASE Shrinks(c) /\ daily' = daily
    BY <1>6, <2>2
  <2>3. CASE /\ pc[h] = "createDaily" /\ daily = NoRow /\ Tx(h) \in Past
             /\ Shrinks(c) /\ daily' = COST
    <3>1. LimitOf[path[h]] \in Nat /\ LimitOf[path[h]] > 0 /\ LimitOf[path[h]] <= MaxLimit
      BY <2>3, LimitAssumption DEF IInv, Metered, TypeOK
    <3>2. POOL > 1
      <4>1. Cardinality(Past) # 0 /\ Cardinality(Past) \in Nat
        BY <1>2, <2>3, PastFinite, FS_EmptySet
      <4> QED
        BY <1>1, <4>1 DEF OneIsLeft
    <3> HIDE DEF k, n
    <3>3. k = 0 /\ daily' = 1
      BY <1>3, <1>4, <1>5, <2>3 DEF COST
    <3> QED
      BY <1>1, <3>1, <3>2, <3>3 DEF DailyWithin, k
  <2> QED
    BY <1>8, <2>1, <2>2, <2>3 DEF Charges
<1> QED
  BY <1>6, <1>7, <1>8, StepShape DEF Quiet, EntersPaid, row

-----------------------------------------------------------------------------
(* The theorems *)

LEMMA InitPInv == PoolInit => PInv
<1> SUFFICES ASSUME PoolInit PROVE PInv
  OBVIOUS
<1>1. \A l : Charging(l) = {}
  BY DEF PoolInit, Charging
<1>2. used = 0 /\ daily = NoRow
  BY DEF PoolInit, Init
<1>3. OneIsLeft
  <2>1. Past = {}
    BY DEF PoolInit, Past
  <2> QED
    BY <2>1, FS_EmptySet, PoolAssumption DEF OneIsLeft
<1> QED
  BY <1>1, <1>2, <1>3, InitConnections DEF PInv, PaidWithin, DailyWithin

LEMMA NextPInv == PInv /\ IInv /\ IInv' /\ [PoolNext]_pvars => PInv'
<1> SUFFICES ASSUME PInv, IInv, IInv', [PoolNext]_pvars PROVE PInv'
  OBVIOUS
<1>1. Connections'
  BY NextConnections DEF PInv, IInv
<1> QED
  BY <1>1, NextOneIsLeft, NextPaidWithin, NextDailyWithin DEF PInv

LEMMA PInvBounds == PInv => PaidOverdrawWithinPool /\ DailyOverdrawWithinPool
<1> SUFFICES ASSUME PInv PROVE PaidOverdrawWithinPool /\ DailyOverdrawWithinPool
  OBVIOUS
<1> USE DEF PInv, Connections
<1>1. /\ used \in Nat /\ purchased \in Nat /\ daily \in Nat \cup {NoRow}
      /\ POOL \in Nat /\ MaxLimit \in Nat
  BY PoolAssumption, LimitAssumption DEF PoolTypeOK, TypeOK
<1>2. /\ Cardinality(Charging("chargePaid")) \in Nat
      /\ Cardinality(Charging("chargeDaily")) \in Nat
  BY ChargingFinite
<1>3. PaidOverdrawWithinPool
  BY <1>1, <1>2 DEF PaidOverdrawWithinPool, PaidWithin
<1>4. DailyOverdrawWithinPool
  BY <1>1, <1>2 DEF DailyOverdrawWithinPool, DailyWithin
<1> QED
  BY <1>3, <1>4

\* What QuotaConsume keeps is kept on the pool, because a step on the pool is a
\* step of QuotaConsume or none; and with it the connections stay in their places.
THEOREM PoolInvariance == PoolSpec => [](PInv /\ IInv)
<1>1. PoolInit => PInv /\ IInv
  BY InitPInv, InitIInv DEF PoolInit
<1>2. (PInv /\ IInv) /\ [PoolNext]_pvars => (PInv /\ IInv)'
  <2>1. IInv /\ [Next]_vars => IInv'
    BY NextPlain, NextPaidBound, NextDailyBound DEF IInv
  <2> QED
    BY <2>1, NextPInv, StepRefines
<1> QED
  BY <1>1, <1>2, PTL DEF PoolSpec

\* The state of the pool keeps its type.
THEOREM PoolTypeCorrect == PoolSpec => []PoolTypeOK
<1>1. PInv => PoolTypeOK
  BY DEF PInv, Connections
<1> QED
  BY <1>1, PoolInvariance, PTL

\* For a pool of any size: never more connections than it has, and none is kept
\* or waited for by a handler that has answered, whether its transaction was
\* committed, refused, failed or timed out.
THEOREM ConnectionsReturn == PoolSpec => []NothingLeaks
<1>1. PInv => NothingLeaks
  BY DEF PInv, Connections
<1> QED
  BY <1>1, PoolInvariance, PTL

\* For any number of handlers, paid credits are overdrawn by at most the
\* connections of the pool less one.
THEOREM PaidOverdrawOnPool == PoolSpec => []PaidOverdrawWithinPool
  BY PoolInvariance, PInvBounds, PTL

\* For any number of handlers, the row of the day passes the largest limit by at
\* most the connections of the pool less two, and a pool of one connection never
\* inserts it.
THEOREM DailyOverdrawOnPool == PoolSpec => []DailyOverdrawWithinPool
  BY PoolInvariance, PInvBounds, PTL

-----------------------------------------------------------------------------
(* The refinement of CreditLedger, with the margins of the pool *)

\* A step of the ledger of QuotaConsume that ends within the bounds of the pool is
\* one of the ledger of the pool.
LEMMA LedgerWithinPool ==
  ASSUME IInv, IInv', [Next]_vars, PaidOverdrawWithinPool', DailyOverdrawWithinPool'
  PROVE  [PoolLedger!Next]_(PoolLedger!vars)
<1>1. /\ used \in Nat /\ purchased \in Nat /\ MaxLimit \in Nat /\ POOL \in Nat
      /\ daily \in Nat \cup {NoRow} /\ daily' \in Nat \cup {NoRow} /\ NoRow \notin Nat
  BY PoolAssumption, LimitAssumption, NoRowAssumption DEF IInv, TypeOK
<1>2. [Ledger!Next]_(Ledger!vars)
  BY NextLedger
<1>3. CASE UNCHANGED Ledger!vars
  BY <1>3 DEF Ledger!vars, PoolLedger!vars
<1>4. CASE Ledger!Buy
  BY <1>4 DEF Ledger!Buy, PoolLedger!Buy, PoolLedger!Next
<1>5. CASE Ledger!TakePaid
  <2>1. used + 1 <= purchased + (POOL - 1)
    BY <1>1, <1>5 DEF Ledger!TakePaid, PaidOverdrawWithinPool
  <2> QED BY <1>5, <2>1 DEF Ledger!TakePaid, PoolLedger!TakePaid, PoolLedger!Next
<1>6. CASE Ledger!TakeDaily
  <2>1. Today + 1 <= MaxLimit + (POOL - 2)
    <3>1. Today' = Today + 1 /\ Today \in Nat
      BY <1>1, <1>6 DEF Ledger!TakeDaily, Today
    <3>2. daily' # NoRow /\ Today' = daily'
      BY <1>1, <3>1 DEF Today
    <3> QED BY <1>1, <3>1, <3>2 DEF DailyOverdrawWithinPool
  <2> QED BY <1>6, <2>1 DEF Ledger!TakeDaily, PoolLedger!TakeDaily, PoolLedger!Next
<1> QED BY <1>2, <1>3, <1>4, <1>5, <1>6 DEF Ledger!Next

\* For any number of handlers, what is given away beyond what was bought is set by
\* the connections of the pool alone.
THEOREM PoolKeepsLedger == PoolSpec => KeepsPoolLedger
<1>1. PoolInit => PoolLedger!Init
  BY DEF PoolInit, Init, Today, PoolLedger!Init
<1>2. /\ PInv /\ IInv /\ (PInv /\ IInv)' /\ [PoolNext]_pvars
      => [PoolLedger!Next]_(PoolLedger!vars)
  <2> SUFFICES ASSUME PInv, IInv, PInv', IInv', [PoolNext]_pvars
               PROVE  [PoolLedger!Next]_(PoolLedger!vars)
    OBVIOUS
  <2>1. PaidOverdrawWithinPool' /\ DailyOverdrawWithinPool'
    BY PInvBounds, PTL
  <2> QED BY <2>1, StepRefines, LedgerWithinPool
<1> QED
  BY <1>1, <1>2, PoolInvariance, PTL
  DEF PoolSpec, KeepsPoolLedger, PoolLedger!Spec
=============================================================================
