-------------------------- MODULE PushLimitsProofs -------------------------
(***************************************************************************)
(* Theorems about PushLimits for every number of endpoints and handlers,   *)
(* every limit and every window length.                                    *)
(***************************************************************************)
EXTENDS PushLimits, FiniteSetTheorems, TLAPS

\* The window of a time is a time.
LEMMA WindowIsTime ==
  ASSUME NEW t \in Time, NEW w \in Nat \ {0}
  PROVE  WindowStart(t, w) \in Time
<1>1. t \in Nat /\ t <= MaxNow
  BY LimitsAssumption DEF Time
<1>2. t % w \in 0..(w - 1)
  BY <1>1
<1>3. t % w <= t
  BY <1>1
<1> QED BY <1>1, <1>2, <1>3, LimitsAssumption DEF WindowStart, Time

\* The part of the state that counts, and what the counts are worth.
Counting == /\ rows \in [Bucket -> RowOf(Time)]
            /\ events \in [Bucket -> [Time -> Nat]]
            /\ CountsHappened

Handling == /\ push \in [Request -> Handler]
            /\ \A r \in Request : push[r].stage # "idle" => push[r].endpoint \in Endpoint
            /\ now \in Time

LInv == Counting /\ Handling

\* A batch of increments in windows of the time keeps every count true: a row
\* and the history of its window grow together, and a row that changes its
\* window starts again at one.
LEMMA IncrementCounts ==
  ASSUME Counting, NEW S \in SUBSET Bucket, NEW counts \in [S -> Time], Increment(counts)
  PROVE  Counting'
<1>1. ASSUME NEW b \in Bucket
      PROVE  /\ rows'[b] \in RowOf(Time) /\ events'[b] \in [Time -> Nat]
             /\ rows'[b].start \in Time => rows'[b].count <= events'[b][rows'[b].start]
  <2>1. rows[b] \in RowOf(Time) /\ events[b] \in [Time -> Nat]
        /\ (rows[b].start \in Time => rows[b].count <= events[b][rows[b].start])
    BY DEF Counting, CountsHappened
  <2>2. CASE b \notin S
    BY <2>1, <2>2 DEF Increment
  <2>3. CASE b \in S
    <3> DEFINE w == counts[b]
    <3>1. w \in Time
      BY <2>3
    <3>2. rows'[b] = Upsert(rows[b], w) /\ events'[b] = [events[b] EXCEPT ![w] = @ + 1]
      BY <2>3 DEF Increment
    <3>3. events'[b] \in [Time -> Nat] /\ events'[b][w] = events[b][w] + 1 /\ events[b][w] \in Nat
      BY <2>1, <3>1, <3>2
    <3>4. rows'[b] \in RowOf(Time) /\ rows'[b].start = w
      BY <2>1, <3>1, <3>2 DEF Upsert, RowOf
    <3>5. rows'[b].count <= events[b][w] + 1
      BY <2>1, <3>1, <3>2, <3>3 DEF Upsert, RowOf
    <3> QED BY <3>3, <3>4, <3>5
  <2> QED BY <2>2, <2>3
<1>2. rows' = [b \in Bucket |-> rows'[b]] /\ events' = [b \in Bucket |-> events'[b]]
  BY DEF Increment
<1> QED BY <1>1, <1>2 DEF Counting, CountsHappened

\* Steps that touch no counter.
LEMMA CountersKept ==
  ASSUME Counting, UNCHANGED <<rows, events>>
  PROVE  Counting'
  BY DEF Counting, CountsHappened

\* A handler's record after it moves.
LEMMA HandlerMoves ==
  ASSUME Handling, NEW r \in Request, NEW q \in Handler,
         q.stage # "idle" => q.endpoint \in Endpoint,
         push' = [push EXCEPT ![r] = q], UNCHANGED now
  PROVE  Handling'
  BY DEF Handling

LEMMA HandlerEnds ==
  ASSUME Handling, NEW r \in Request, End(r), UNCHANGED now
  PROVE  Handling'
<1>1. Idle \in Handler /\ Idle.stage = "idle"
  BY LimitsAssumption DEF Idle, Handler, Stages, Time
<1> QED BY <1>1, HandlerMoves DEF End

LEMMA HandlerGoes ==
  ASSUME Handling, NEW r \in Request, push[r].stage # "idle", NEW stage \in Stages,
         Goto(r, stage), UNCHANGED now
  PROVE  Handling'
<1> DEFINE q == [push[r] EXCEPT !.stage = stage]
<1>1. q \in Handler /\ q.endpoint \in Endpoint
  BY DEF Handling, Handler
<1>2. push' = [push EXCEPT ![r] = q]
  BY DEF Goto
<1> QED BY <1>1, <1>2, HandlerMoves

\* The windows a handler counts in.
LEMMA HandlerWindows ==
  ASSUME Handling, NEW r \in Request, push[r].stage # "idle"
  PROVE  /\ MinuteOf(r) \in Time /\ BreakerWindowOf(r) \in Time
         /\ push[r].endpoint \in Endpoint
<1>1. push[r].start \in Time /\ push[r].endpoint \in Endpoint
  BY DEF Handling, Handler
<1> QED BY <1>1, WindowIsTime, LimitsAssumption DEF MinuteOf, BreakerWindowOf

\* The decision moves the handler only.
LEMMA DecisionHandles ==
  ASSUME Handling, NEW r \in Request, push[r].stage # "idle",
         NEW count, NEW device, NEW active, Decide(r, count, device, active), UNCHANGED now
  PROVE  Handling'
<1> DEFINE over == count > FairShare(active)
<1>1. CASE End(r)
  BY <1>1, HandlerEnds
<1>2. CASE push' = [push EXCEPT ![r].stage = "count", ![r].over = over]
  <2> DEFINE q == [push[r] EXCEPT !.stage = "count", !.over = over]
  <2>1. over \in BOOLEAN
    OBVIOUS
  <2> HIDE DEF over
  <2>2. q \in Handler /\ q.endpoint \in Endpoint
    BY <2>1 DEF Handling, Handler, Stages
  <2>3. push' = [push EXCEPT ![r] = q]
    BY <1>2 DEF over, Handling
  <2> HIDE DEF q
  <2> QED BY <2>2, <2>3, HandlerMoves
<1> QED BY <1>1, <1>2 DEF Decide

-----------------------------------------------------------------------------
(* Every step preserves the invariant *)

LEMMA KeepsStart ==
  ASSUME LInv, NEW r \in Request, Start(r)
  PROVE  LInv'
<1>1. PICK e \in Endpoint :
        push' = [push EXCEPT ![r] = [Idle EXCEPT !.stage = "admit", !.endpoint = e,
                                                 !.start = now]]
  BY DEF Start
<1> DEFINE q == [Idle EXCEPT !.stage = "admit", !.endpoint = e, !.start = now]
<1>2. q \in Handler /\ q.endpoint \in Endpoint
  BY DEF LInv, Handling, Idle, Handler, Stages
<1> QED BY <1>1, <1>2, HandlerMoves, CountersKept DEF LInv, Start

LEMMA KeepsAdmit ==
  ASSUME LInv, NEW r \in Request, Admit(r)
  PROVE  LInv'
<1> DEFINE e == push[r].endpoint
           w == MinuteOf(r)
           count == Upsert(rows[e], w).count
           device == Peek(rows["device"], w)
           active == Peek(rows["active"], w)
           q == [push[r] EXCEPT !.stage = "first", !.count = count, !.device = device]
<1>1. w \in Time /\ e \in Endpoint /\ {e} \in SUBSET Bucket /\ push[r].stage # "idle"
  BY HandlerWindows DEF LInv, Admit, Bucket
<1>2. Counting'
  BY <1>1, IncrementCounts DEF LInv, Admit
<1>3. UNCHANGED now
  BY DEF Admit
<1>4. CASE End(r)
  BY <1>2, <1>3, <1>4, HandlerEnds DEF LInv
<1>5. CASE push' = [push EXCEPT ![r].stage = "first", ![r].count = count, ![r].device = device]
  <2>1. rows[e] \in RowOf(Time) /\ rows["device"] \in RowOf(Time)
    BY <1>1 DEF LInv, Counting, Bucket
  <2>2. count \in Nat /\ device \in Nat
    BY <2>1 DEF Upsert, Peek, RowOf
  <2> HIDE DEF count, device
  <2>3. q \in Handler /\ q.endpoint \in Endpoint
    BY <1>1, <2>2 DEF LInv, Handling, Handler, Stages
  <2>4. push' = [push EXCEPT ![r] = q]
    BY <1>5 DEF LInv, Handling
  <2> HIDE DEF q
  <2> QED BY <1>2, <1>3, <2>3, <2>4, HandlerMoves DEF LInv
<1>6. CASE Decide(r, count, device, active)
  BY <1>1, <1>2, <1>3, <1>6, DecisionHandles DEF LInv
<1> QED BY <1>4, <1>5, <1>6 DEF Admit

LEMMA KeepsAdmitFirst ==
  ASSUME LInv, NEW r \in Request, AdmitFirst(r)
  PROVE  LInv'
<1>1. MinuteOf(r) \in Time /\ push[r].stage # "idle"
  BY HandlerWindows DEF LInv, AdmitFirst
<1>2. Counting'
  BY <1>1, IncrementCounts DEF LInv, AdmitFirst, Bucket
<1> QED BY <1>1, <1>2, DecisionHandles DEF LInv, AdmitFirst

LEMMA KeepsCountDelivery ==
  ASSUME LInv, NEW r \in Request, CountDelivery(r)
  PROVE  LInv'
<1>1. MinuteOf(r) \in Time /\ BreakerWindowOf(r) \in Time /\ push[r].stage # "idle"
  BY HandlerWindows DEF LInv, CountDelivery
<1>2. Counting'
  <2> DEFINE counts == [b \in DeliveryBuckets |->
                          IF b = "device" THEN MinuteOf(r) ELSE BreakerWindowOf(r)]
  <2>1. counts \in [DeliveryBuckets -> Time] /\ DeliveryBuckets \in SUBSET Bucket
    BY <1>1 DEF DeliveryBuckets, Bucket
  <2>2. Increment(counts)
    BY DEF CountDelivery
  <2> HIDE DEF counts
  <2> QED BY <2>1, <2>2, IncrementCounts DEF LInv
<1> QED BY <1>1, <1>2, HandlerGoes DEF LInv, CountDelivery, Stages

LEMMA KeepsRejected ==
  ASSUME LInv, NEW r \in Request, Rejected(r)
  PROVE  LInv'
  BY CountersKept, HandlerGoes DEF LInv, Rejected, Stages

LEMMA KeepsBreaker ==
  ASSUME LInv, NEW r \in Request, Breaker(r)
  PROVE  LInv'
<1>1. BreakerWindowOf(r) \in Time
  BY HandlerWindows DEF LInv, Breaker
<1>2. Counting'
  BY <1>1, IncrementCounts DEF LInv, Breaker, Bucket
<1> QED BY <1>2, HandlerEnds DEF LInv, Breaker

LEMMA KeepsFail ==
  ASSUME LInv, NEW r \in Request, Fail(r)
  PROVE  LInv'
  BY CountersKept, HandlerEnds DEF LInv, Fail

LEMMA KeepsPurge ==
  ASSUME LInv, Purge
  PROVE  LInv'
<1>1. Counting'
  <2>1. PICK time \in 0..now : rows' = [b \in Bucket |-> Kept(rows[b], time - PurgeAge)]
    BY DEF Purge
  <2>2. ASSUME NEW b \in Bucket
        PROVE  /\ rows'[b] \in RowOf(Time)
               /\ rows'[b].start \in Time => rows'[b] = rows[b]
    BY <2>1, <2>2 DEF Kept, Absent, RowOf, Time, LInv, Counting
  <2> QED BY <2>1, <2>2 DEF Purge, LInv, Counting, CountsHappened
<1> QED BY <1>1 DEF Purge, LInv, Handling

LEMMA KeepsTick ==
  ASSUME LInv, Tick
  PROVE  LInv'
  BY CountersKept, LimitsAssumption DEF LInv, Tick, Handling, Time

LEMMA InitLInv == Init => LInv
<1> SUFFICES ASSUME Init PROVE LInv
  OBVIOUS
<1>1. Counting
  BY DEF Init, Counting, CountsHappened, Absent, RowOf, Time
<1>2. Handling
  BY LimitsAssumption DEF Init, Handling, Idle, Handler, Stages, Time
<1> QED BY <1>1, <1>2 DEF LInv

LEMMA NextLInv == LInv /\ [Next]_vars => LInv'
<1> SUFFICES ASSUME LInv, [Next]_vars PROVE LInv'
  OBVIOUS
<1>1. CASE Next
  BY <1>1, KeepsStart, KeepsAdmit, KeepsAdmitFirst, KeepsCountDelivery, KeepsRejected,
     KeepsBreaker, KeepsFail, KeepsPurge, KeepsTick DEF Next
<1>2. CASE UNCHANGED vars
  BY <1>2, CountersKept DEF vars, LInv, Handling
<1> QED BY <1>1, <1>2

\* rate-limit.ts: in every order of handlers, purges and windows, also when a
\* handler outlives its window, no row counts more events than happened in
\* its window, so no refusal is owed to another window's events.
THEOREM CountsAreTrue == Spec => []CountsHappened
<1>1. LInv => CountsHappened
  BY DEF LInv, Counting
<1> QED BY <1>1, InitLInv, NextLInv, PTL DEF Spec

-----------------------------------------------------------------------------
(* The limits, for handlers that count in the window they started in       *)
(* (Prompt).  Without it PushLimits_late_endpoint shows them broken.       *)

Length(b) == IF b \in {"deliveries", "invalidations"} THEN BreakerWindow ELSE Minute

\* The window that bucket b is counted in now.
Current(b) == WindowStart(now, Length(b))

\* The current window's count is exact, and no event has a later window.
Exact ==
  \A b \in Bucket :
    /\ rows[b].start <= Current(b)
    /\ Peek(rows[b], Current(b)) = events[b][Current(b)]
    /\ \A w \in Time : w > Current(b) => events[b][w] = 0

Histories == /\ sent \in [Endpoint \cup {"device"} -> [Time -> Nat]]
             /\ overshare \in [Time -> Nat] /\ invalidated \in [Time -> Nat]

\* Pushes of an endpoint that were counted and not refused, and not yet sent.
Admitted(e, w) == {r \in Request : /\ push[r].stage \in {"first", "count"}
                                   /\ push[r].endpoint = e /\ MinuteOf(r) = w}

\* Every push that goes out was counted, at or below the limit.
Admitting ==
  \A e \in Endpoint, w \in Time :
    /\ sent[e][w] + Cardinality(Admitted(e, w)) <= events[e][w]
    /\ sent[e][w] + Cardinality(Admitted(e, w)) <= EndpointPerMinute

\* Endpoints that sent in the window, and first pushes about to count theirs.
Sending(w) == {e \in Endpoint : events[e][w] > 0}
First(w)   == {r \in Request : push[r].stage = "first" /\ MinuteOf(r) = w}

\* An endpoint counts as active at most once in a window.
ActiveOnce ==
  \A w \in Time : events["active"][w] + Cardinality(First(w)) <= Cardinality(Sending(w))

\* Deliveries that may still turn into an invalidation.
Delivered(w) == {r \in Request : /\ push[r].stage \in {"send", "breaker"}
                                 /\ BreakerWindowOf(r) = w}

\* Every invalidation was counted, and was a delivery first.
Invalidating ==
  \A w \in Time :
    /\ invalidated[w] <= events["invalidations"][w]
    /\ invalidated[w] + Cardinality(Delivered(w)) <= events["deliveries"][w]

\* Handlers that may send beyond their share after the device's budget is spent.
Beyond(w) == {r \in Request : /\ MinuteOf(r) = w
                              /\ \/ push[r].stage = "first" /\ push[r].device < DevicePerMinute
                                 \/ push[r].stage = "count" /\ push[r].over}

\* The push that spends the budget is not among them.
Ceiling ==
  \A w \in Time :
    /\ events["device"][w] = Sent(w)
    /\ Sent(w) < DevicePerMinute => overshare[w] = 0
    /\ Sent(w) >= DevicePerMinute =>
         overshare[w] + Cardinality(Beyond(w)) <= Cardinality(Request) - 1

-----------------------------------------------------------------------------
(* Windows *)

\* A window holds its time.
LEMMA WindowHolds ==
  ASSUME NEW t \in Nat, NEW k \in Nat \ {0}
  PROVE  WindowStart(t, k) \in Nat /\ WindowStart(t, k) <= t /\ t < WindowStart(t, k) + k
<1>1. t % k \in 0..(k - 1) /\ t % k <= t
  OBVIOUS
<1> QED BY <1>1 DEF WindowStart

\* A later time is in the same window or in a later one.
LEMMA WindowMoves ==
  ASSUME NEW t \in Nat, NEW k \in Nat \ {0}
  PROVE  WindowStart(t, k) <= WindowStart(t + 1, k)
<1> DEFINE q == t \div k
           p == (t + 1) \div k
<1>1. /\ t = k * q + (t % k) /\ t % k \in 0..(k - 1) /\ q \in Nat
      /\ t + 1 = k * p + ((t + 1) % k) /\ (t + 1) % k \in 0..(k - 1) /\ p \in Nat
  OBVIOUS
<1>2. WindowStart(t, k) = k * q /\ WindowStart(t + 1, k) = k * p
  BY <1>1 DEF WindowStart
<1> HIDE DEF q, p
<1>3. k * q <= t /\ t + 1 < k * p + k
  BY <1>1
<1>4. q <= p
  <2>1. ASSUME p < q PROVE FALSE
    <3>1. q - p - 1 \in Nat
      BY <1>1, <2>1
    <3>2. k * (q - p - 1) >= 0
      BY <3>1
    <3>3. k * (q - p - 1) = k * q - k * p - k
      BY <1>1
    <3> QED BY <1>1, <1>3, <3>2, <3>3
  <2> QED BY <1>1, <2>1
<1>5. k * (p - q) >= 0 /\ k * (p - q) = k * p - k * q
  BY <1>1, <1>4
<1> QED BY <1>1, <1>2, <1>5

\* Sharing the budget among more endpoints leaves none a larger share.
LEMMA ShareShrinks ==
  ASSUME NEW a \in Nat, NEW b \in Nat, a <= b
  PROVE  FairShare(b) <= FairShare(a) /\ FairShare(a) \in Nat /\ FairShare(b) \in Nat
<1> DEFINE x == IF a > 1 THEN a ELSE 1
           y == IF b > 1 THEN b ELSE 1
           p == DevicePerMinute \div x
           q == DevicePerMinute \div y
<1>1. x \in Nat \ {0} /\ y \in Nat \ {0} /\ x <= y /\ DevicePerMinute \in Nat
  BY LimitsAssumption
<1>2. FairShare(a) = p /\ FairShare(b) = q
  BY DEF FairShare
<1> HIDE DEF x, y
<1>3. /\ p \in Nat /\ q \in Nat /\ y * q <= DevicePerMinute
      /\ DevicePerMinute < x * p + x
  BY <1>1
<1> HIDE DEF p, q
<1>4. q <= p
  <2>1. ASSUME p < q PROVE FALSE
    <3>1. q - p - 1 \in Nat /\ y - x \in Nat
      BY <1>1, <1>3, <2>1
    <3>2. x * (q - p - 1) >= 0 /\ (y - x) * q >= 0
      BY <1>1, <1>3, <3>1
    <3>3. x * (q - p - 1) = x * q - x * p - x /\ (y - x) * q = y * q - x * q
      BY <1>1, <1>3
    <3> QED BY <1>1, <1>3, <3>2, <3>3
  <2> QED BY <1>3, <2>1
<1> QED BY <1>2, <1>3, <1>4

\* The current windows are times.
LEMMA CurrentIsTime ==
  ASSUME now \in Time, NEW b \in Bucket
  PROVE  Current(b) \in Time /\ Current(b) <= now /\ now < Current(b) + PurgeAge
<1>1. /\ now \in Nat /\ MaxNow \in Nat /\ PurgeAge \in Nat
      /\ Length(b) \in Nat \ {0} /\ Length(b) <= PurgeAge
  BY LimitsAssumption, PurgeAssumption DEF Length, Time
<1>2. /\ Current(b) \in Nat /\ Current(b) <= now /\ now < Current(b) + Length(b)
  BY <1>1, WindowHolds DEF Current
<1>3. now <= MaxNow
  BY DEF Time
<1> QED BY <1>1, <1>2, <1>3 DEF Time

\* A prompt handler counts in the current windows.
LEMMA PromptIsCurrent ==
  ASSUME Prompt, NEW r \in Request, InTime(r)
  PROVE  /\ \A b \in Bucket \ {"deliveries", "invalidations"} : MinuteOf(r) = Current(b)
         /\ BreakerWindowOf(r) = Current("deliveries")
         /\ BreakerWindowOf(r) = Current("invalidations")
  BY DEF InTime, Current, Length

\* What a batch in the current windows reads and leaves.
LEMMA ExactIncrement ==
  ASSUME LInv, Exact, NEW counts, DOMAIN counts \subseteq Bucket,
         \A b \in DOMAIN counts : counts[b] = Current(b),
         Increment(counts), UNCHANGED now
  PROVE  /\ Exact'
         /\ \A b \in DOMAIN counts : Upsert(rows[b], counts[b]).count = events[b][counts[b]] + 1
         /\ \A b \in Bucket, w \in Time :
              events'[b][w] = IF b \in DOMAIN counts /\ w = counts[b]
                              THEN events[b][w] + 1 ELSE events[b][w]
<1>1. \A b \in Bucket : Current(b)' = Current(b)
  BY DEF Current
<1>2. ASSUME NEW b \in Bucket
      PROVE  /\ rows'[b].start <= Current(b)
             /\ Peek(rows'[b], Current(b)) = events'[b][Current(b)]
             /\ \A w \in Time : w > Current(b) => events'[b][w] = 0
             /\ b \in DOMAIN counts => Upsert(rows[b], counts[b]).count = events[b][counts[b]] + 1
             /\ \A w \in Time : events'[b][w] = IF b \in DOMAIN counts /\ w = counts[b]
                                                THEN events[b][w] + 1 ELSE events[b][w]
  <2>1. /\ rows[b] \in RowOf(Time) /\ events[b] \in [Time -> Nat]
        /\ rows[b].start <= Current(b)
        /\ Peek(rows[b], Current(b)) = events[b][Current(b)]
        /\ \A w \in Time : w > Current(b) => events[b][w] = 0
    BY DEF LInv, Counting, Exact
  <2>2. Current(b) \in Time /\ Current(b) \in Nat
    BY CurrentIsTime DEF LInv, Handling, Time
  <2>3. CASE b \notin DOMAIN counts
    <3>1. rows'[b] = rows[b] /\ events'[b] = events[b]
      BY <2>3 DEF Increment
    <3> QED BY <2>1, <2>3, <3>1
  <2>4. CASE b \in DOMAIN counts
    <3>1. /\ rows'[b] = Upsert(rows[b], Current(b)) /\ counts[b] = Current(b)
          /\ events'[b] = [events[b] EXCEPT ![Current(b)] = @ + 1]
      BY <2>4 DEF Increment
    <3>2. /\ rows'[b].start = Current(b) /\ rows'[b].count = events[b][Current(b)] + 1
          /\ Upsert(rows[b], Current(b)).count = events[b][Current(b)] + 1
      BY <2>1, <2>2, <3>1 DEF Upsert, Peek, RowOf
    <3>3. \A w \in Time : events'[b][w] = IF w = Current(b) THEN events[b][w] + 1
                                                            ELSE events[b][w]
      BY <2>1, <2>2, <3>1
    <3>4. \A w \in Time : w > Current(b) => events'[b][w] = 0
      BY <2>1, <2>2, <3>3 DEF Time
    <3>5. Peek(rows'[b], Current(b)) = events'[b][Current(b)] /\ rows'[b].start <= Current(b)
      BY <2>2, <3>2, <3>3 DEF Peek
    <3> QED BY <2>4, <3>1, <3>2, <3>3, <3>4, <3>5
  <2> QED BY <2>3, <2>4
<1>3. Exact'
  BY <1>1, <1>2 DEF Exact
<1> QED BY <1>2, <1>3

LEMMA ExactSame ==
  ASSUME Exact, UNCHANGED <<rows, events, now>>
  PROVE  Exact'
  BY DEF Exact, Current

\* Only windows that are over are purged.
LEMMA ExactPurge ==
  ASSUME LInv, Exact, Purge
  PROVE  Exact'
<1>1. PICK time \in 0..now : rows' = [b \in Bucket |-> Kept(rows[b], time - PurgeAge)]
  BY DEF Purge
<1>2. \A b \in Bucket : Current(b)' = Current(b)
  BY DEF Current, Purge
<1>3. ASSUME NEW b \in Bucket
      PROVE  /\ rows'[b].start <= Current(b)
             /\ Peek(rows'[b], Current(b)) = Peek(rows[b], Current(b))
  <2>1. /\ rows[b] \in RowOf(Time) /\ rows[b].start <= Current(b)
        /\ rows'[b] = Kept(rows[b], time - PurgeAge)
    BY <1>1 DEF LInv, Counting, Exact
  <2>2. /\ Current(b) \in Nat /\ now < Current(b) + PurgeAge /\ now \in Nat
        /\ PurgeAge \in Nat /\ time \in Nat /\ time <= now
    BY CurrentIsTime, LimitsAssumption DEF LInv, Handling, Time
  <2>3. CASE rows[b].start < time - PurgeAge
    <3>1. rows'[b] = Absent /\ rows[b].start # Current(b)
      BY <2>1, <2>2, <2>3 DEF Kept, RowOf, Time
    <3> QED BY <2>2, <3>1 DEF Absent, Peek
  <2>4. CASE ~(rows[b].start < time - PurgeAge)
    BY <2>1, <2>4 DEF Kept
  <2> QED BY <2>3, <2>4
<1> QED BY <1>2, <1>3 DEF Exact, Purge

\* A window that begins has no events yet, and no row.
LEMMA ExactTick ==
  ASSUME LInv, Exact, Tick
  PROVE  Exact'
<1>1. ASSUME NEW b \in Bucket
      PROVE  /\ rows'[b].start <= Current(b)'
             /\ Peek(rows'[b], Current(b)') = events'[b][Current(b)']
             /\ \A w \in Time : w > Current(b)' => events'[b][w] = 0
  <2>1. /\ rows[b] \in RowOf(Time) /\ rows[b].start <= Current(b)
        /\ Peek(rows[b], Current(b)) = events[b][Current(b)]
        /\ \A w \in Time : w > Current(b) => events[b][w] = 0
        /\ rows' = rows /\ events' = events
    BY DEF LInv, Counting, Exact, Tick
  <2>2. now \in Time /\ now' \in Time /\ now' = now + 1 /\ now \in Nat
    BY LimitsAssumption DEF LInv, Handling, Tick, Time
  <2>3. Current(b) <= Current(b)' /\ Current(b) \in Nat /\ Current(b)' \in Nat
    <3>1. Length(b) \in Nat \ {0}
      BY LimitsAssumption DEF Length
    <3> QED BY <2>2, <3>1, WindowMoves, WindowHolds DEF Current
  <2>4. Current(b)' \in Time
    <3>1. Length(b) \in Nat \ {0} /\ now' \in Nat
      BY <2>2, LimitsAssumption DEF Length
    <3>2. Current(b)' = WindowStart(now', Length(b))
      BY DEF Current
    <3> QED BY <2>2, <3>1, <3>2, WindowIsTime
  <2>5. CASE Current(b)' = Current(b)
    BY <2>1, <2>5
  <2>6. CASE Current(b)' > Current(b)
    <3>1. rows[b].start # Current(b)' /\ events[b][Current(b)'] = 0
      BY <2>1, <2>3, <2>4, <2>6 DEF RowOf, Time
    <3>2. \A w \in Time : w > Current(b)' => events[b][w] = 0
      BY <2>1, <2>3, <2>6 DEF Time
    <3>3. rows[b].start <= Current(b)'
      BY <2>1, <2>3, <2>6 DEF RowOf, Time
    <3> QED BY <2>1, <3>1, <3>2, <3>3 DEF Peek
  <2> QED BY <2>3, <2>5, <2>6
<1> QED BY <1>1 DEF Exact

-----------------------------------------------------------------------------
(* Counting handlers and endpoints *)

LEMMA CardShrinks ==
  ASSUME NEW S, IsFiniteSet(S), NEW T, T \subseteq S
  PROVE  Cardinality(T) <= Cardinality(S) /\ Cardinality(T) \in Nat /\ Cardinality(S) \in Nat
  BY FS_Subset, FS_CardinalityType

LEMMA CardLoses ==
  ASSUME NEW S, IsFiniteSet(S), NEW x \in S, NEW T, T \subseteq S \ {x}
  PROVE  /\ Cardinality(T) + 1 <= Cardinality(S)
         /\ Cardinality(T) \in Nat /\ Cardinality(S) \in Nat
<1>1. IsFiniteSet(S \ {x}) /\ Cardinality(S \ {x}) = Cardinality(S) - 1
  BY FS_RemoveElement
<1>2. Cardinality(T) <= Cardinality(S \ {x}) /\ Cardinality(T) \in Nat
  BY <1>1, CardShrinks
<1>3. Cardinality(S) \in Nat
  BY FS_CardinalityType
<1> QED BY <1>1, <1>2, <1>3

LEMMA CardGains ==
  ASSUME NEW S, IsFiniteSet(S), NEW x, NEW T, T \subseteq S \cup {x}
  PROVE  /\ Cardinality(T) <= Cardinality(S) + 1
         /\ Cardinality(T) \in Nat /\ Cardinality(S) \in Nat
<1>1. /\ IsFiniteSet(S \cup {x}) /\ Cardinality(S) \in Nat
      /\ Cardinality(S \cup {x}) <= Cardinality(S) + 1
  <2>1. Cardinality(S) \in Nat
    BY FS_CardinalityType
  <2>2. /\ IsFiniteSet(S \cup {x})
        /\ Cardinality(S \cup {x}) = IF x \in S THEN Cardinality(S) ELSE Cardinality(S) + 1
    BY FS_AddElement
  <2> QED BY <2>1, <2>2
<1>2. Cardinality(T) <= Cardinality(S \cup {x}) /\ Cardinality(T) \in Nat
                                                /\ Cardinality(S \cup {x}) \in Nat
  BY <1>1, CardShrinks
<1> QED BY <1>1, <1>2

LEMMA HandlersFinite ==
  /\ \A e, w : IsFiniteSet(Admitted(e, w)) /\ IsFiniteSet(First(w))
  /\ \A w : IsFiniteSet(Delivered(w)) /\ IsFiniteSet(Beyond(w)) /\ IsFiniteSet(Sending(w))
<1>1. \A S : S \subseteq Request \/ S \subseteq Endpoint => IsFiniteSet(S)
  BY FS_Subset, FiniteAssumption
<1> QED BY <1>1 DEF Admitted, First, Delivered, Beyond, Sending

\* Only handler r moves.
Moves(r) == \A q \in Request \ {r} : push'[q] = push[q]

\* A handler joins a set only by moving into it.
LEMMA HandlersJoin ==
  ASSUME NEW r \in Request, Moves(r), NEW e, NEW w
  PROVE  /\ Admitted(e, w)' \subseteq Admitted(e, w) \cup {r}
         /\ First(w)' \subseteq First(w) \cup {r}
         /\ Delivered(w)' \subseteq Delivered(w) \cup {r}
         /\ Beyond(w)' \subseteq Beyond(w) \cup {r}
<1>1. \A q \in Request \ {r} : push'[q] = push[q] /\ MinuteOf(q)' = MinuteOf(q)
                               /\ BreakerWindowOf(q)' = BreakerWindowOf(q)
  BY DEF Moves, MinuteOf, BreakerWindowOf
<1> QED BY <1>1 DEF Admitted, First, Delivered, Beyond

\* What the steps of one handler change in the sets.
LEMMA HandlersCount ==
  ASSUME NEW r \in Request, Moves(r), NEW e, NEW w
  PROVE  /\ {Cardinality(Admitted(e, w)), Cardinality(Admitted(e, w)'),
             Cardinality(First(w)), Cardinality(First(w)'),
             Cardinality(Delivered(w)), Cardinality(Delivered(w)'),
             Cardinality(Beyond(w)), Cardinality(Beyond(w)')} \subseteq Nat
         /\ Cardinality(Admitted(e, w)') <= Cardinality(Admitted(e, w)) + 1
         /\ r \notin Admitted(e, w)' => Cardinality(Admitted(e, w)') <= Cardinality(Admitted(e, w))
         /\ r \in Admitted(e, w) => Cardinality(Admitted(e, w)') <= Cardinality(Admitted(e, w))
         /\ r \in Admitted(e, w) /\ r \notin Admitted(e, w)'
              => Cardinality(Admitted(e, w)') + 1 <= Cardinality(Admitted(e, w))
         /\ Cardinality(First(w)') <= Cardinality(First(w)) + 1
         /\ r \notin First(w)' => Cardinality(First(w)') <= Cardinality(First(w))
         /\ r \in First(w) /\ r \notin First(w)'
              => Cardinality(First(w)') + 1 <= Cardinality(First(w))
         /\ Cardinality(Delivered(w)') <= Cardinality(Delivered(w)) + 1
         /\ r \notin Delivered(w)' => Cardinality(Delivered(w)') <= Cardinality(Delivered(w))
         /\ r \in Delivered(w) => Cardinality(Delivered(w)') <= Cardinality(Delivered(w))
         /\ r \in Delivered(w) /\ r \notin Delivered(w)'
              => Cardinality(Delivered(w)') + 1 <= Cardinality(Delivered(w))
         /\ r \notin Beyond(w)' => Cardinality(Beyond(w)') <= Cardinality(Beyond(w))
         /\ r \in Beyond(w) => Cardinality(Beyond(w)') <= Cardinality(Beyond(w))
         /\ r \in Beyond(w) /\ r \notin Beyond(w)'
              => Cardinality(Beyond(w)') + 1 <= Cardinality(Beyond(w))
<1>1. ASSUME NEW S, IsFiniteSet(S), NEW T, T \subseteq S \cup {r}
      PROVE  /\ Cardinality(S) \in Nat /\ Cardinality(T) \in Nat
             /\ Cardinality(T) <= Cardinality(S) + 1
             /\ r \notin T => Cardinality(T) <= Cardinality(S)
             /\ r \in S => Cardinality(T) <= Cardinality(S)
             /\ r \in S /\ r \notin T => Cardinality(T) + 1 <= Cardinality(S)
  <2>1. Cardinality(S) \in Nat /\ Cardinality(T) \in Nat /\ Cardinality(T) <= Cardinality(S) + 1
    BY <1>1, CardGains
  <2>2. r \notin T \/ r \in S => Cardinality(T) <= Cardinality(S)
    <3>1. r \notin T \/ r \in S => T \subseteq S
      BY <1>1
    <3> QED BY <1>1, <3>1, CardShrinks
  <2>3. r \in S /\ r \notin T => Cardinality(T) + 1 <= Cardinality(S)
    <3>1. r \in S /\ r \notin T => T \subseteq S \ {r}
      BY <1>1
    <3> QED BY <1>1, <3>1, CardLoses
  <2> QED BY <2>1, <2>2, <2>3
<1> QED BY <1>1, HandlersFinite, HandlersJoin

\* A step after which the endpoints that sent still did.
LEMMA SendersCount ==
  ASSUME NEW w \in Time, \A e \in Endpoint : events[e][w] > 0 => events'[e][w] > 0
  PROVE  /\ {Cardinality(Sending(w)), Cardinality(Sending(w)')} \subseteq Nat
         /\ Cardinality(Sending(w)) <= Cardinality(Sending(w)')
         /\ \A e \in Endpoint : events'[e][w] > 0 /\ ~(events[e][w] > 0)
              => Cardinality(Sending(w)) + 1 <= Cardinality(Sending(w)')
<1>1. /\ IsFiniteSet(Sending(w)') /\ Sending(w) \subseteq Sending(w)'
  <2>1. Sending(w)' \subseteq Endpoint
    BY DEF Sending
  <2> QED BY <2>1, FS_Subset, FiniteAssumption DEF Sending
<1>2. /\ {Cardinality(Sending(w)), Cardinality(Sending(w)')} \subseteq Nat
      /\ Cardinality(Sending(w)) <= Cardinality(Sending(w)')
  BY <1>1, CardShrinks
<1>3. ASSUME NEW e \in Endpoint, events'[e][w] > 0, ~(events[e][w] > 0)
      PROVE  Cardinality(Sending(w)) + 1 <= Cardinality(Sending(w)')
  <2>1. e \in Sending(w)' /\ Sending(w) \subseteq Sending(w)' \ {e}
    BY <1>1, <1>3 DEF Sending
  <2> QED BY <1>1, <2>1, CardLoses
<1> QED BY <1>2, <1>3

-----------------------------------------------------------------------------
(* Every step preserves the limits *)

Limits == Histories /\ Admitting /\ ActiveOnce /\ Invalidating /\ BreakerHolds /\ Ceiling

\* A step of a handler that is not admitted and delivers nothing.
Calm(q) == \/ push'[q] = push[q]
           \/ push'[q].stage \in {"idle", "admit"}
           \/ push[q].stage = "send" /\ push'[q] = [push[q] EXCEPT !.stage = "breaker"]

\* Counts grow, those of the device and its active endpoints stay.
Grows == /\ \A b \in Bucket, w \in Time : /\ {events[b][w], events'[b][w]} \subseteq Nat
                                          /\ events[b][w] <= events'[b][w]
         /\ events'["active"] = events["active"] /\ events'["device"] = events["device"]

LEMMA CalmCounts ==
  ASSUME Handling, \A q \in Request : Calm(q), NEW e, NEW w
  PROVE  /\ {Cardinality(Admitted(e, w)), Cardinality(Admitted(e, w)'),
             Cardinality(First(w)), Cardinality(First(w)'),
             Cardinality(Delivered(w)), Cardinality(Delivered(w)'),
             Cardinality(Beyond(w)), Cardinality(Beyond(w)')} \subseteq Nat
         /\ Cardinality(Admitted(e, w)') <= Cardinality(Admitted(e, w))
         /\ Cardinality(First(w)') <= Cardinality(First(w))
         /\ Cardinality(Delivered(w)') <= Cardinality(Delivered(w))
         /\ Cardinality(Beyond(w)') <= Cardinality(Beyond(w))
<1>1. ASSUME NEW q \in Request
      PROVE  /\ push'[q].stage \in {"first", "count"} => push'[q] = push[q]
             /\ push'[q].stage \in {"send", "breaker"} =>
                  push[q].stage \in {"send", "breaker"} /\ push'[q].start = push[q].start
  <2>1. push[q] \in Handler /\ Calm(q)
    BY DEF Handling
  <2> QED BY <2>1 DEF Calm, Handler
<1>2. /\ Admitted(e, w)' \subseteq Admitted(e, w) /\ First(w)' \subseteq First(w)
      /\ Delivered(w)' \subseteq Delivered(w) /\ Beyond(w)' \subseteq Beyond(w)
  BY <1>1 DEF Admitted, First, Delivered, Beyond, MinuteOf, BreakerWindowOf
<1> QED BY <1>2, HandlersFinite, CardShrinks

\* A step that invalidates nothing and makes no delivery invalidate.
LEMMA InvalidatingKept ==
  ASSUME Limits, UNCHANGED invalidated,
         \A w \in Time :
           /\ {events["deliveries"][w], events'["deliveries"][w]} \subseteq Nat
           /\ {events["invalidations"][w], events'["invalidations"][w]} \subseteq Nat
           /\ events["deliveries"][w] <= events'["deliveries"][w]
           /\ events["invalidations"][w] <= events'["invalidations"][w]
           /\ {Cardinality(Delivered(w)), Cardinality(Delivered(w)')} \subseteq Nat
           /\ Cardinality(Delivered(w)') <= Cardinality(Delivered(w))
  PROVE  Invalidating' /\ BreakerHolds'
<1>1. ASSUME NEW w \in Time
      PROVE  /\ invalidated'[w] <= events'["invalidations"][w]
             /\ invalidated'[w] + Cardinality(Delivered(w)') <= events'["deliveries"][w]
             /\ invalidated'[w] <= BreakerMax
             /\ \/ invalidated'[w] < BreakerMin
                \/ invalidated'[w] * RatioInverse <= events'["deliveries"][w]
  <2>1. /\ invalidated[w] <= events["invalidations"][w]
        /\ invalidated[w] + Cardinality(Delivered(w)) <= events["deliveries"][w]
        /\ invalidated[w] <= BreakerMax
        /\ \/ invalidated[w] < BreakerMin
           \/ invalidated[w] * RatioInverse <= events["deliveries"][w]
        /\ invalidated'[w] = invalidated[w] /\ invalidated[w] \in Nat
    BY DEF Limits, Invalidating, BreakerHolds, Histories
  <2>2. invalidated[w] * RatioInverse \in Nat
    BY <2>1, LimitsAssumption
  <2> QED BY <2>1, <2>2
<1> QED BY <1>1 DEF Invalidating, BreakerHolds

\* A step that sends nothing and, once the budget is spent, lets no handler
\* exceed its share.
LEMMA CeilingKept ==
  ASSUME Limits, UNCHANGED <<sent, overshare>>,
         \A w \in Time :
           /\ events'["device"][w] = events["device"][w]
           /\ {Cardinality(Beyond(w)), Cardinality(Beyond(w)')} \subseteq Nat
           /\ Sent(w) >= DevicePerMinute =>
                Cardinality(Beyond(w)') <= Cardinality(Beyond(w))
  PROVE  Ceiling'
<1>1. ASSUME NEW w \in Time
      PROVE  /\ events'["device"][w] = Sent(w)'
             /\ Sent(w)' < DevicePerMinute => overshare'[w] = 0
             /\ Sent(w)' >= DevicePerMinute =>
                  overshare'[w] + Cardinality(Beyond(w)') <= Cardinality(Request) - 1
  <2>1. /\ events["device"][w] = Sent(w) /\ Sent(w)' = Sent(w)
        /\ overshare'[w] = overshare[w] /\ overshare[w] \in Nat
        /\ Sent(w) < DevicePerMinute => overshare[w] = 0
        /\ Sent(w) >= DevicePerMinute =>
                  overshare[w] + Cardinality(Beyond(w)) <= Cardinality(Request) - 1
    BY DEF Limits, Ceiling, Sent, Histories
  <2>2. Cardinality(Request) \in Nat
    BY FiniteAssumption, FS_CardinalityType
  <2> QED BY <2>1, <2>2
<1> QED BY <1>1 DEF Ceiling

LEMMA CalmAdmits ==
  ASSUME LInv, Limits, \A q \in Request : Calm(q), Grows, UNCHANGED <<sent, overshare>>
  PROVE  Admitting' /\ ActiveOnce' /\ Ceiling'
<1>1. ASSUME NEW e \in Endpoint, NEW w \in Time
      PROVE  /\ sent'[e][w] + Cardinality(Admitted(e, w)') <= events'[e][w]
             /\ sent'[e][w] + Cardinality(Admitted(e, w)') <= EndpointPerMinute
  <2>1. /\ sent[e][w] + Cardinality(Admitted(e, w)) <= events[e][w]
        /\ sent[e][w] + Cardinality(Admitted(e, w)) <= EndpointPerMinute
        /\ sent'[e][w] = sent[e][w] /\ sent[e][w] \in Nat
    BY DEF Limits, Admitting, Histories
  <2>2. {events[e][w], events'[e][w]} \subseteq Nat /\ events[e][w] <= events'[e][w]
    BY DEF Grows, Bucket
  <2>3. /\ {Cardinality(Admitted(e, w)), Cardinality(Admitted(e, w)')} \subseteq Nat
        /\ Cardinality(Admitted(e, w)') <= Cardinality(Admitted(e, w))
    BY CalmCounts DEF LInv
  <2> QED BY <2>1, <2>2, <2>3, LimitsAssumption
<1>2. ASSUME NEW w \in Time
      PROVE  events'["active"][w] + Cardinality(First(w)') <= Cardinality(Sending(w)')
  <2>1. /\ events["active"][w] + Cardinality(First(w)) <= Cardinality(Sending(w))
        /\ events["active"][w] \in Nat /\ events'["active"][w] = events["active"][w]
    BY DEF Limits, ActiveOnce, Grows, Bucket
  <2>2. /\ {Cardinality(First(w)), Cardinality(First(w)')} \subseteq Nat
        /\ Cardinality(First(w)') <= Cardinality(First(w))
    BY CalmCounts DEF LInv
  <2>3. \A e \in Endpoint : events[e][w] > 0 => events'[e][w] > 0
    BY DEF Grows, Bucket
  <2>4. /\ {Cardinality(Sending(w)), Cardinality(Sending(w)')} \subseteq Nat
        /\ Cardinality(Sending(w)) <= Cardinality(Sending(w)')
    BY <2>3, SendersCount
  <2> QED BY <2>1, <2>2, <2>4
<1>3. Admitting' /\ ActiveOnce'
  BY <1>1, <1>2 DEF Admitting, ActiveOnce
<1>4. Ceiling'
  BY CalmCounts, CeilingKept DEF LInv, Grows
<1> QED BY <1>3, <1>4

LEMMA CalmKeeps ==
  ASSUME LInv, Limits, \A q \in Request : Calm(q), Grows,
         UNCHANGED <<sent, overshare, invalidated>>
  PROVE  Limits'
<1>1. Histories'
  BY DEF Limits, Histories
<1>2. Invalidating' /\ BreakerHolds'
  <2>1. \A w \in Time :
          /\ {events["deliveries"][w], events'["deliveries"][w]} \subseteq Nat
          /\ {events["invalidations"][w], events'["invalidations"][w]} \subseteq Nat
          /\ events["deliveries"][w] <= events'["deliveries"][w]
          /\ events["invalidations"][w] <= events'["invalidations"][w]
    BY DEF Grows, Bucket
  <2> QED BY <2>1, CalmCounts, InvalidatingKept DEF LInv
<1> QED BY <1>1, <1>2, CalmAdmits DEF Limits

PInv == LInv /\ Exact /\ Limits /\ FairShareKept

\* The steps that count nothing: what PInv says of the counts stays.
LEMMA UncountedKeeps ==
  ASSUME PInv, \A q \in Request : Calm(q), UNCHANGED <<events, history>>
  PROVE  Limits' /\ FairShareKept'
<1>1. Grows
  BY DEF PInv, LInv, Counting, Grows
<1>2. Limits'
  BY <1>1, CalmKeeps DEF PInv, history
<1> QED BY <1>2 DEF PInv, FairShareKept, history

LEMMA EndsCalmly ==
  ASSUME NEW r \in Request, Handling, End(r)
  PROVE  \A q \in Request : Calm(q)
  BY DEF End, Calm, Idle, Handling

LEMMA StartKeeps ==
  ASSUME PInv, NEW r \in Request, Start(r)
  PROVE  Exact' /\ Limits' /\ FairShareKept'
<1>1. \A q \in Request : Calm(q)
  BY DEF Start, Calm, PInv, LInv, Handling
<1> QED BY <1>1, UncountedKeeps, ExactSame DEF Start, PInv

LEMMA RejectedKeeps ==
  ASSUME PInv, NEW r \in Request, Rejected(r)
  PROVE  Exact' /\ Limits' /\ FairShareKept'
<1>1. \A q \in Request : Calm(q)
  BY DEF Rejected, Goto, Calm, PInv, LInv, Handling
<1> QED BY <1>1, UncountedKeeps, ExactSame DEF Rejected, PInv

LEMMA FailKeeps ==
  ASSUME PInv, NEW r \in Request, Fail(r)
  PROVE  Exact' /\ Limits' /\ FairShareKept'
<1>1. \A q \in Request : Calm(q)
  BY EndsCalmly DEF Fail, PInv, LInv
<1> QED BY <1>1, UncountedKeeps, ExactSame DEF Fail, PInv

LEMMA PurgeKeeps ==
  ASSUME PInv, Purge
  PROVE  Exact' /\ Limits' /\ FairShareKept'
  BY UncountedKeeps, ExactPurge DEF Purge, PInv, Calm

LEMMA TickKeeps ==
  ASSUME PInv, Tick
  PROVE  Exact' /\ Limits' /\ FairShareKept'
  BY UncountedKeeps, ExactTick DEF Tick, PInv, Calm

\* A refusal within the limit is owed to a count beyond the fair share, and
\* there are at least as many endpoints that sent as active ones were counted.
LEMMA RefusalIsFair ==
  ASSUME FairShareKept, NEW r \in Request, NEW w \in Time, w = MinuteOf(r),
         NEW count \in Nat, NEW device, NEW active \in Nat,
         active <= Cardinality(Sending(w)'), Cardinality(Sending(w)') \in Nat,
         Decide(r, count, device, active)
  PROVE  FairShareKept'
<1>1. CASE unfair' = (unfair \/ count <= FairShare(Cardinality(Senders(MinuteOf(r)))))
           /\ count > FairShare(active)
  <2>1. Senders(MinuteOf(r)) = Sending(w)'
    BY DEF Senders, Sending
  <2>2. FairShare(Cardinality(Sending(w)')) <= FairShare(active)
        /\ FairShare(active) \in Nat /\ FairShare(Cardinality(Sending(w)')) \in Nat
    BY ShareShrinks
  <2>3. ~(count <= FairShare(Cardinality(Sending(w)')))
    BY <1>1, <2>2
  <2> QED BY <1>1, <2>1, <2>3 DEF FairShareKept
<1>2. CASE UNCHANGED unfair
  BY <1>2 DEF FairShareKept
<1> QED BY <1>1, <1>2 DEF Decide, history

-----------------------------------------------------------------------------
(* Admission *)

\* What the first batch of admit reads and leaves.
LEMMA AdmitCounts ==
  ASSUME PInv, Prompt, NEW r \in Request, Admit(r),
         NEW e \in Endpoint, e = push[r].endpoint, NEW w \in Time, w = MinuteOf(r)
  PROVE  /\ Exact'
         /\ Upsert(rows[e], w).count = events[e][w] + 1
         /\ Peek(rows["device"], w) = events["device"][w]
         /\ Peek(rows["active"], w) = events["active"][w]
         /\ \A b \in Bucket, v \in Time :
              /\ {events[b][v], events'[b][v]} \subseteq Nat
              /\ events'[b][v] = IF b = e /\ v = w THEN events[b][v] + 1 ELSE events[b][v]
<1> DEFINE counts == [b \in {e} |-> w]
<1>1. /\ {e} \in SUBSET Bucket /\ {"device", "active"} \subseteq Bucket
      /\ e \in Bucket \ {"deliveries", "invalidations"}
      /\ {"device", "active"} \subseteq Bucket \ {"deliveries", "invalidations"}
  BY BucketAssumption DEF Bucket
<1>2. w = Current(e) /\ w = Current("device") /\ w = Current("active")
  BY <1>1, PromptIsCurrent DEF Admit
<1>3. Increment(counts) /\ UNCHANGED now
  BY DEF Admit
<1>4. /\ DOMAIN counts = {e} /\ DOMAIN counts \subseteq Bucket /\ counts[e] = w
      /\ \A b \in DOMAIN counts : counts[b] = Current(b)
  BY <1>1, <1>2
<1> HIDE DEF counts
<1>5. /\ Exact'
      /\ \A b \in DOMAIN counts : Upsert(rows[b], counts[b]).count = events[b][counts[b]] + 1
      /\ \A b \in Bucket, v \in Time :
           events'[b][v] = IF b \in DOMAIN counts /\ v = counts[b]
                           THEN events[b][v] + 1 ELSE events[b][v]
  BY <1>3, <1>4, ExactIncrement, Zenon DEF PInv
<1>6. Peek(rows["device"], w) = events["device"][w] /\ Peek(rows["active"], w) = events["active"][w]
  BY <1>1, <1>2 DEF PInv, Exact
<1>7. \A b \in Bucket, v \in Time : {events[b][v], events'[b][v]} \subseteq Nat
  BY <1>5 DEF PInv, LInv, Counting
<1> QED BY <1>4, <1>5, <1>6, <1>7

\* A push that is counted, within the limit of its endpoint, and goes on.
LEMMA AdmittedKeeps ==
  ASSUME PInv, NEW r \in Request, Moves(r), push[r].stage = "admit",
         push'[r].stage \in {"first", "count"}, push'[r].start = push[r].start,
         NEW e \in Endpoint, e = push'[r].endpoint, NEW w \in Time, w = MinuteOf(r),
         \A b \in Bucket, v \in Time :
           /\ {events[b][v], events'[b][v]} \subseteq Nat
           /\ events'[b][v] = IF b = e /\ v = w THEN events[b][v] + 1 ELSE events[b][v],
         events[e][w] + 1 <= EndpointPerMinute,
         push'[r].stage = "first" => events[e][w] = 0,
         r \in Beyond(w)' => Sent(w) < DevicePerMinute,
         UNCHANGED history
  PROVE  Limits'
<1>1. MinuteOf(r)' = w /\ BreakerWindowOf(r)' = BreakerWindowOf(r)
  BY DEF MinuteOf, BreakerWindowOf
<1>2. \A b \in {"device", "active", "deliveries", "invalidations"}, v \in Time :
        {events[b][v], events'[b][v]} \subseteq Nat /\ events'[b][v] = events[b][v]
  BY BucketAssumption DEF Bucket
<1>3. ASSUME NEW f \in Endpoint, NEW v \in Time
      PROVE  /\ sent'[f][v] + Cardinality(Admitted(f, v)') <= events'[f][v]
             /\ sent'[f][v] + Cardinality(Admitted(f, v)') <= EndpointPerMinute
  <2>1. /\ sent[f][v] + Cardinality(Admitted(f, v)) <= events[f][v]
        /\ sent[f][v] + Cardinality(Admitted(f, v)) <= EndpointPerMinute
        /\ sent'[f][v] = sent[f][v] /\ sent[f][v] \in Nat
    BY DEF PInv, Limits, Admitting, Histories, history
  <2>2. {Cardinality(Admitted(f, v)), Cardinality(Admitted(f, v)')} \subseteq Nat
    BY HandlersCount
  <2>3. CASE f = e /\ v = w
    <3>1. events[e][w] \in Nat /\ events'[e][w] = events[e][w] + 1
      BY DEF Bucket
    <3>2. Cardinality(Admitted(f, v)') <= Cardinality(Admitted(f, v)) + 1
      BY HandlersCount
    <3> QED BY <2>1, <2>2, <2>3, <3>1, <3>2, LimitsAssumption
  <2>4. CASE ~(f = e /\ v = w)
    <3>1. r \notin Admitted(f, v)'
      BY <1>1, <2>4 DEF Admitted
    <3>2. Cardinality(Admitted(f, v)') <= Cardinality(Admitted(f, v))
      BY <3>1, HandlersCount
    <3>3. events[f][v] \in Nat /\ events'[f][v] = events[f][v]
      BY <2>4 DEF Bucket
    <3> QED BY <2>1, <2>2, <3>2, <3>3, LimitsAssumption
  <2> QED BY <2>3, <2>4
<1>4. ASSUME NEW v \in Time
      PROVE  events'["active"][v] + Cardinality(First(v)') <= Cardinality(Sending(v)')
  <2>1. /\ events["active"][v] + Cardinality(First(v)) <= Cardinality(Sending(v))
        /\ events["active"][v] \in Nat /\ events'["active"][v] = events["active"][v]
    BY <1>2 DEF PInv, Limits, ActiveOnce
  <2>2. {Cardinality(First(v)), Cardinality(First(v)')} \subseteq Nat
    BY HandlersCount
  <2>3. \A f \in Endpoint : events[f][v] > 0 => events'[f][v] > 0
    BY DEF Bucket
  <2>4. /\ {Cardinality(Sending(v)), Cardinality(Sending(v)')} \subseteq Nat
        /\ Cardinality(Sending(v)) <= Cardinality(Sending(v)')
    BY <2>3, SendersCount
  <2>5. CASE r \in First(v)'
    <3>1. push'[r].stage = "first" /\ v = w
      BY <1>1, <2>5 DEF First
    <3>2. ~(events[e][v] > 0) /\ events'[e][v] > 0
      BY <3>1 DEF Bucket
    <3>3. Cardinality(Sending(v)) + 1 <= Cardinality(Sending(v)')
      BY <2>3, <3>2, SendersCount
    <3>4. Cardinality(First(v)') <= Cardinality(First(v)) + 1
      BY HandlersCount
    <3> QED BY <2>1, <2>2, <2>4, <3>3, <3>4
  <2>6. CASE r \notin First(v)'
    <3>1. Cardinality(First(v)') <= Cardinality(First(v))
      BY <2>6, HandlersCount
    <3> QED BY <2>1, <2>2, <2>4, <3>1
  <2> QED BY <2>5, <2>6
<1>5. Invalidating' /\ BreakerHolds'
  <2>1. ASSUME NEW v \in Time
        PROVE  /\ {Cardinality(Delivered(v)), Cardinality(Delivered(v)')} \subseteq Nat
               /\ Cardinality(Delivered(v)') <= Cardinality(Delivered(v))
    <3>1. r \notin Delivered(v)'
      BY DEF Delivered
    <3> QED BY <3>1, HandlersCount
  <2> QED BY <1>2, <2>1, InvalidatingKept DEF PInv, history
<1>6. Ceiling'
  <2>1. ASSUME NEW v \in Time
        PROVE  /\ {Cardinality(Beyond(v)), Cardinality(Beyond(v)')} \subseteq Nat
               /\ Sent(v) >= DevicePerMinute =>
                    Cardinality(Beyond(v)') <= Cardinality(Beyond(v))
    <3>1. r \in Beyond(v)' => v = w
      BY <1>1 DEF Beyond
    <3>2. Sent(w) \in Nat
      BY DEF PInv, Limits, Histories, Sent
    <3>3. Sent(v) >= DevicePerMinute => r \notin Beyond(v)'
      BY <3>1, <3>2, LimitsAssumption
    <3> QED BY <3>3, HandlersCount
  <2> QED BY <1>2, <2>1, CeilingKept DEF PInv, history
<1>7. Admitting' /\ ActiveOnce'
  BY <1>3, <1>4 DEF Admitting, ActiveOnce
<1>8. Histories'
  BY DEF PInv, Limits, Histories, history
<1> QED BY <1>5, <1>6, <1>7, <1>8 DEF Limits

LEMMA AdmitKeeps ==
  ASSUME PInv, Prompt, NEW r \in Request, Admit(r)
  PROVE  Exact' /\ Limits' /\ FairShareKept'
<1>1. PICK e \in Endpoint, w \in Time : e = push[r].endpoint /\ w = MinuteOf(r)
  BY HandlerWindows DEF PInv, LInv, Admit
<1> DEFINE count == Upsert(rows[e], w).count
           device == Peek(rows["device"], w)
           active == Peek(rows["active"], w)
<1>2. /\ Exact'
      /\ count = events[e][w] + 1
      /\ device = events["device"][w] /\ active = events["active"][w]
      /\ \A b \in Bucket, v \in Time :
           /\ {events[b][v], events'[b][v]} \subseteq Nat
           /\ events'[b][v] = IF b = e /\ v = w THEN events[b][v] + 1 ELSE events[b][v]
  BY <1>1, AdmitCounts
<1>3. /\ push[r] \in Handler /\ push \in [Request -> Handler] /\ push[r].stage = "admit"
      /\ {events[e][w], events["device"][w], events["active"][w]} \subseteq Nat
      /\ events["device"][w] = Sent(w)
  BY <1>2 DEF PInv, LInv, Handling, Admit, Bucket, Limits, Ceiling
<1>4. \/ End(r) /\ UNCHANGED history
      \/ /\ ~OverLimit(count) /\ FirstOfWindow(count) /\ UNCHANGED history
         /\ push' = [push EXCEPT ![r].stage = "first",
                                 ![r].count = count, ![r].device = device]
      \/ ~OverLimit(count) /\ Decide(r, count, device, active)
  BY <1>1, Zenon DEF Admit
<1> HIDE DEF count, device, active
<1>5. End(r) /\ UNCHANGED <<sent, overshare, invalidated>> => Limits'
  <2>1. Grows
    <3>1. \A b \in Bucket, v \in Time :
            {events[b][v], events'[b][v]} \subseteq Nat /\ events[b][v] <= events'[b][v]
      BY <1>2
    <3>2. Increment([b \in {e} |-> w]) /\ {"active", "device"} \subseteq Bucket \ {e}
      BY <1>1, BucketAssumption DEF Admit, Bucket
    <3>3. events'["active"] = events["active"] /\ events'["device"] = events["device"]
      BY <3>2 DEF Increment
    <3> QED BY <3>1, <3>3 DEF Grows
  <2> QED BY <2>1, EndsCalmly, CalmKeeps DEF PInv, LInv
<1>6. CASE End(r) /\ UNCHANGED history
  BY <1>2, <1>5, <1>6 DEF FairShareKept, PInv, history
<1>7. CASE /\ ~OverLimit(count) /\ FirstOfWindow(count) /\ UNCHANGED history
           /\ push' = [push EXCEPT ![r].stage = "first",
                                   ![r].count = count, ![r].device = device]
  <2>1. /\ push'[r].stage = "first" /\ push'[r].start = push[r].start
        /\ push'[r].endpoint = e /\ push'[r].device = device /\ Moves(r)
    BY <1>1, <1>3, <1>7 DEF Handler, Moves
  <2>2. events[e][w] = 0 /\ events[e][w] + 1 <= EndpointPerMinute
    BY <1>2, <1>3, <1>7, LimitsAssumption DEF OverLimit, FirstOfWindow
  <2>3. r \in Beyond(w)' => Sent(w) < DevicePerMinute
    BY <1>2, <1>3, <2>1 DEF Beyond
  <2>4. Limits'
    BY <1>1, <1>2, <1>3, <1>7, <2>1, <2>2, <2>3, AdmittedKeeps
  <2> QED BY <1>2, <1>7, <2>4 DEF FairShareKept, PInv, history
<1>8. CASE ~OverLimit(count) /\ Decide(r, count, device, active)
  <2> DEFINE over == count > FairShare(active)
  <2>1. CASE End(r) /\ UNCHANGED <<sent, overshare, invalidated>>
    <3>1. \A f \in Endpoint : events[f][w] > 0 => events'[f][w] > 0
      BY <1>2 DEF Bucket
    <3>2. /\ {Cardinality(Sending(w)), Cardinality(Sending(w)')} \subseteq Nat
          /\ Cardinality(Sending(w)) <= Cardinality(Sending(w)')
      BY <3>1, SendersCount
    <3>3. events["active"][w] + Cardinality(First(w)) <= Cardinality(Sending(w))
          /\ Cardinality(First(w)) \in Nat
      BY HandlersFinite, FS_CardinalityType DEF PInv, Limits, ActiveOnce
    <3>4. active \in Nat /\ count \in Nat /\ active <= Cardinality(Sending(w)')
      BY <1>2, <1>3, <3>2, <3>3
    <3>5. FairShareKept'
      BY <1>1, <1>8, <3>2, <3>4, RefusalIsFair DEF PInv
    <3> QED BY <1>2, <1>5, <2>1, <3>5
  <2>2. CASE /\ push' = [push EXCEPT ![r].stage = "count", ![r].over = over]
             /\ ~(device >= DevicePerMinute /\ over) /\ UNCHANGED history
    <3>1. /\ push'[r].stage = "count" /\ push'[r].start = push[r].start
          /\ push'[r].endpoint = e /\ push'[r].over = over /\ Moves(r)
      BY <1>1, <1>3, <2>2 DEF Handler, Moves
    <3>2. events[e][w] + 1 <= EndpointPerMinute
      BY <1>2, <1>3, <1>8, LimitsAssumption DEF OverLimit
    <3>3. r \in Beyond(w)' => Sent(w) < DevicePerMinute
      <4>1. r \in Beyond(w)' => over
        BY <3>1 DEF Beyond
      <4> HIDE DEF over
      <4>2. device \in Nat /\ DevicePerMinute \in Nat /\ device = Sent(w)
        BY <1>2, <1>3, LimitsAssumption
      <4>3. device >= DevicePerMinute \/ Sent(w) < DevicePerMinute
        BY <4>2
      <4> QED BY <2>2, <4>1, <4>3, Zenon
    <3>4. Limits'
      BY <1>1, <1>2, <1>3, <2>2, <3>1, <3>2, <3>3, AdmittedKeeps
    <3> QED BY <1>2, <2>2, <3>4 DEF FairShareKept, PInv, history
  <2> QED BY <1>8, <2>1, <2>2 DEF Decide
<1> QED BY <1>4, <1>6, <1>7, <1>8

\* What the second batch of admit reads and leaves.
LEMMA FirstCounts ==
  ASSUME PInv, Prompt, NEW r \in Request, AdmitFirst(r), NEW w \in Time, w = MinuteOf(r)
  PROVE  /\ Exact'
         /\ Upsert(rows["active"], w).count = events["active"][w] + 1
         /\ \A b \in Bucket, v \in Time :
              /\ {events[b][v], events'[b][v]} \subseteq Nat
              /\ events'[b][v] = IF b = "active" /\ v = w THEN events[b][v] + 1
                                                          ELSE events[b][v]
<1> DEFINE S == {"active"}
           counts == [b \in S |-> w]
<1>1. S \in SUBSET Bucket /\ "active" \in Bucket \ {"deliveries", "invalidations"}
  BY DEF Bucket
<1>2. w = Current("active")
  BY <1>1, PromptIsCurrent DEF AdmitFirst
<1>3. Increment(counts) /\ UNCHANGED now
  BY DEF AdmitFirst
<1>4. /\ DOMAIN counts = S /\ DOMAIN counts \subseteq Bucket
      /\ "active" \in S /\ counts["active"] = w
      /\ \A b \in DOMAIN counts : counts[b] = Current(b)
  BY <1>1, <1>2
<1>5. \A b : b \in S <=> b = "active"
  OBVIOUS
<1> HIDE DEF counts, S
<1>6. /\ Exact'
      /\ \A b \in DOMAIN counts : Upsert(rows[b], counts[b]).count = events[b][counts[b]] + 1
      /\ \A b \in Bucket, v \in Time :
           events'[b][v] = IF b \in DOMAIN counts /\ v = counts[b]
                           THEN events[b][v] + 1 ELSE events[b][v]
  BY <1>3, <1>4, ExactIncrement, Zenon DEF PInv
<1>7. \A b \in Bucket, v \in Time :
        events'[b][v] = IF b = "active" /\ v = w THEN events[b][v] + 1 ELSE events[b][v]
  BY <1>4, <1>5, <1>6
<1>8. \A b \in Bucket, v \in Time : {events[b][v], events'[b][v]} \subseteq Nat
  <2>1. \A b \in Bucket, v \in Time : events[b][v] \in Nat
    BY DEF PInv, LInv, Counting
  <2> QED BY <1>7, <2>1
<1> QED BY <1>4, <1>6, <1>7, <1>8

\* The endpoint of the first push becomes active, and the push goes on or is refused.
LEMMA FirstKeeps ==
  ASSUME PInv, NEW r \in Request, Moves(r), push[r].stage = "first",
         \/ push'[r].stage = "idle"
         \/ /\ push'[r].stage = "count"
            /\ push'[r].start = push[r].start /\ push'[r].endpoint = push[r].endpoint
            /\ push'[r].over => push[r].device < DevicePerMinute,
         NEW w \in Time, w = MinuteOf(r),
         \A b \in Bucket, v \in Time :
           /\ {events[b][v], events'[b][v]} \subseteq Nat
           /\ events'[b][v] = IF b = "active" /\ v = w THEN events[b][v] + 1 ELSE events[b][v],
         UNCHANGED <<sent, overshare, invalidated>>
  PROVE  Limits'
<1>1. push'[r].stage = "count" => MinuteOf(r)' = w
  BY DEF MinuteOf
<1>2. \A b \in {"device", "deliveries", "invalidations"}, v \in Time :
        {events[b][v], events'[b][v]} \subseteq Nat /\ events'[b][v] = events[b][v]
  BY DEF Bucket
<1>3. \A f \in Endpoint, v \in Time : events[f][v] \in Nat /\ events'[f][v] = events[f][v]
  BY BucketAssumption DEF Bucket
<1>4. ASSUME NEW f \in Endpoint, NEW v \in Time
      PROVE  /\ sent'[f][v] + Cardinality(Admitted(f, v)') <= events'[f][v]
             /\ sent'[f][v] + Cardinality(Admitted(f, v)') <= EndpointPerMinute
  <2>1. /\ sent[f][v] + Cardinality(Admitted(f, v)) <= events[f][v]
        /\ sent[f][v] + Cardinality(Admitted(f, v)) <= EndpointPerMinute
        /\ sent'[f][v] = sent[f][v] /\ sent[f][v] \in Nat
    BY DEF PInv, Limits, Admitting, Histories
  <2>2. r \in Admitted(f, v)' => r \in Admitted(f, v)
    BY <1>1 DEF Admitted
  <2>3. /\ {Cardinality(Admitted(f, v)), Cardinality(Admitted(f, v)')} \subseteq Nat
        /\ Cardinality(Admitted(f, v)') <= Cardinality(Admitted(f, v))
    BY <2>2, HandlersCount
  <2> QED BY <1>3, <2>1, <2>3, LimitsAssumption
<1>5. ASSUME NEW v \in Time
      PROVE  events'["active"][v] + Cardinality(First(v)') <= Cardinality(Sending(v)')
  <2>1. /\ events["active"][v] + Cardinality(First(v)) <= Cardinality(Sending(v))
        /\ events["active"][v] \in Nat
        /\ events'["active"][v] = IF v = w THEN events["active"][v] + 1 ELSE events["active"][v]
    BY DEF PInv, Limits, ActiveOnce, Bucket
  <2>2. /\ {Cardinality(Sending(v)), Cardinality(Sending(v)')} \subseteq Nat
        /\ Cardinality(Sending(v)) <= Cardinality(Sending(v)')
    BY <1>3, SendersCount
  <2>3. r \notin First(v)' /\ (v = w => r \in First(v))
    BY DEF First
  <2>4. /\ {Cardinality(First(v)), Cardinality(First(v)')} \subseteq Nat
        /\ Cardinality(First(v)') <= Cardinality(First(v))
        /\ v = w => Cardinality(First(v)') + 1 <= Cardinality(First(v))
    BY <2>3, HandlersCount
  <2> QED BY <2>1, <2>2, <2>4
<1>6. Invalidating' /\ BreakerHolds'
  <2>1. ASSUME NEW v \in Time
        PROVE  /\ {Cardinality(Delivered(v)), Cardinality(Delivered(v)')} \subseteq Nat
               /\ Cardinality(Delivered(v)') <= Cardinality(Delivered(v))
    <3>1. r \notin Delivered(v)'
      BY DEF Delivered
    <3> QED BY <3>1, HandlersCount
  <2> QED BY <1>2, <2>1, InvalidatingKept DEF PInv
<1>7. Ceiling'
  <2>1. ASSUME NEW v \in Time
        PROVE  /\ {Cardinality(Beyond(v)), Cardinality(Beyond(v)')} \subseteq Nat
               /\ Cardinality(Beyond(v)') <= Cardinality(Beyond(v))
    <3>1. r \in Beyond(v)' => r \in Beyond(v)
      BY <1>1 DEF Beyond
    <3> QED BY <3>1, HandlersCount
  <2> QED BY <1>2, <2>1, CeilingKept DEF PInv
<1>8. Admitting' /\ ActiveOnce'
  BY <1>4, <1>5 DEF Admitting, ActiveOnce
<1>9. Histories'
  BY DEF PInv, Limits, Histories
<1> QED BY <1>6, <1>7, <1>8, <1>9 DEF Limits

LEMMA AdmitFirstKeeps ==
  ASSUME PInv, Prompt, NEW r \in Request, AdmitFirst(r)
  PROVE  Exact' /\ Limits' /\ FairShareKept'
<1>1. PICK w \in Time : w = MinuteOf(r)
  BY HandlerWindows DEF PInv, LInv, AdmitFirst
<1> DEFINE count == push[r].count
           device == push[r].device
           active == Upsert(rows["active"], w).count
           over == count > FairShare(active)
<1>2. /\ Exact' /\ active = events["active"][w] + 1
      /\ \A b \in Bucket, v \in Time :
           /\ {events[b][v], events'[b][v]} \subseteq Nat
           /\ events'[b][v] = IF b = "active" /\ v = w THEN events[b][v] + 1 ELSE events[b][v]
  BY <1>1, FirstCounts
<1>3. /\ push[r] \in Handler /\ push \in [Request -> Handler] /\ push[r].stage = "first"
      /\ count \in Nat /\ device \in Nat /\ events["active"][w] \in Nat
  BY <1>2 DEF PInv, LInv, Handling, AdmitFirst, Bucket, Handler
<1>4. Decide(r, count, device, active)
  BY <1>1 DEF AdmitFirst
<1> HIDE DEF active
<1>5. active \in Nat
  BY <1>2, <1>3
<1>6. \/ End(r) /\ UNCHANGED <<sent, overshare, invalidated>>
      \/ /\ push' = [push EXCEPT ![r].stage = "count", ![r].over = over]
         /\ ~(device >= DevicePerMinute /\ over) /\ UNCHANGED history
  BY <1>4, Zenon DEF Decide
<1>7. CASE End(r) /\ UNCHANGED <<sent, overshare, invalidated>>
  <2>1. push'[r].stage = "idle" /\ Moves(r)
    BY <1>3, <1>7 DEF End, Idle, Moves
  <2>2. Limits'
    BY <1>1, <1>2, <1>3, <1>7, <2>1, FirstKeeps
  <2>3. \A f \in Endpoint : events[f][w] > 0 => events'[f][w] > 0
    BY <1>2, BucketAssumption DEF Bucket
  <2>4. /\ {Cardinality(Sending(w)), Cardinality(Sending(w)')} \subseteq Nat
        /\ Cardinality(Sending(w)) <= Cardinality(Sending(w)')
    BY <2>3, SendersCount
  <2>5. /\ events["active"][w] + Cardinality(First(w)) <= Cardinality(Sending(w))
        /\ Cardinality(First(w)) \in Nat /\ Cardinality(First(w)) >= 1
    <3>1. r \in First(w) /\ {} \subseteq First(w) \ {r} /\ IsFiniteSet(First(w))
      BY <1>1, <1>3, HandlersFinite DEF First
    <3>2. Cardinality({}) + 1 <= Cardinality(First(w)) /\ Cardinality(First(w)) \in Nat
      BY <3>1, CardLoses
    <3> QED BY <3>2, FS_EmptySet DEF PInv, Limits, ActiveOnce
  <2>6. active <= Cardinality(Sending(w)')
    BY <1>2, <1>3, <2>4, <2>5
  <2>7. FairShareKept'
    BY <1>1, <1>3, <1>4, <1>5, <2>4, <2>6, RefusalIsFair DEF PInv
  <2> QED BY <1>2, <2>2, <2>7
<1>8. CASE /\ push' = [push EXCEPT ![r].stage = "count", ![r].over = over]
           /\ ~(device >= DevicePerMinute /\ over) /\ UNCHANGED history
  <2>1. /\ push'[r].stage = "count" /\ push'[r].start = push[r].start
        /\ push'[r].endpoint = push[r].endpoint /\ push'[r].over = over /\ Moves(r)
    BY <1>3, <1>8 DEF Handler, Moves
  <2> HIDE DEF over
  <2>2. device >= DevicePerMinute \/ device < DevicePerMinute
    BY <1>3, LimitsAssumption
  <2>3. push'[r].over => push[r].device < DevicePerMinute
    BY <1>8, <2>1, <2>2, Zenon
  <2>4. Limits'
    BY <1>1, <1>2, <1>3, <1>8, <2>1, <2>3, FirstKeeps DEF history
  <2> QED BY <1>2, <1>8, <2>4 DEF FairShareKept, PInv, history
<1> QED BY <1>6, <1>7, <1>8

-----------------------------------------------------------------------------
(* Delivery *)

\* What the batch of an admitted push leaves.
LEMMA DeliveryCounts ==
  ASSUME PInv, Prompt, NEW r \in Request, CountDelivery(r),
         NEW w \in Time, w = MinuteOf(r), NEW u \in Time, u = BreakerWindowOf(r)
  PROVE  /\ Exact'
         /\ \A b \in Bucket, v \in Time :
              /\ {events[b][v], events'[b][v]} \subseteq Nat
              /\ events'[b][v] = IF (b = "device" /\ v = w) \/ (b = "deliveries" /\ v = u)
                                 THEN events[b][v] + 1 ELSE events[b][v]
<1> DEFINE S == DeliveryBuckets
           counts == [b \in S |-> IF b = "device" THEN w ELSE u]
<1>1. S \in SUBSET Bucket /\ "device" \in Bucket \ {"deliveries", "invalidations"}
  BY DEF Bucket, DeliveryBuckets
<1>2. \A b : b \in S <=> b = "device" \/ b = "deliveries"
  BY DEF DeliveryBuckets
<1>3. w = Current("device") /\ u = Current("deliveries")
  BY <1>1, PromptIsCurrent DEF CountDelivery
<1>4. Increment(counts) /\ UNCHANGED now
  BY DEF CountDelivery
<1>5. counts["device"] = w /\ counts["deliveries"] = u
  BY <1>2
<1>6. /\ DOMAIN counts = S /\ DOMAIN counts \subseteq Bucket
      /\ \A b \in DOMAIN counts : counts[b] = Current(b)
  BY <1>1, <1>2, <1>3
<1> HIDE DEF counts, S
<1>7. /\ Exact'
      /\ \A b \in DOMAIN counts : Upsert(rows[b], counts[b]).count = events[b][counts[b]] + 1
      /\ \A b \in Bucket, v \in Time :
           events'[b][v] = IF b \in DOMAIN counts /\ v = counts[b]
                           THEN events[b][v] + 1 ELSE events[b][v]
  <2>1. LInv /\ Exact /\ Increment(counts) /\ UNCHANGED now
    BY <1>4 DEF PInv
  <2> QED BY ONLY <1>6, <2>1, ExactIncrement
<1>8. ASSUME NEW b \in Bucket, NEW v \in Time
      PROVE  events'[b][v] = IF (b = "device" /\ v = w) \/ (b = "deliveries" /\ v = u)
                             THEN events[b][v] + 1 ELSE events[b][v]
  BY <1>2, <1>5, <1>6, <1>7
<1>9. \A b \in Bucket, v \in Time : {events[b][v], events'[b][v]} \subseteq Nat
  <2>1. \A b \in Bucket, v \in Time : events[b][v] \in Nat
    BY DEF PInv, LInv, Counting
  <2> QED BY <1>8, <2>1
<1> QED BY <1>7, <1>8, <1>9

\* The push that was admitted goes out: its place among the admitted becomes a
\* push sent, and the budget it exceeds was spent by others.
LEMMA CountDeliveryKeeps ==
  ASSUME PInv, Prompt, NEW r \in Request, CountDelivery(r)
  PROVE  Exact' /\ Limits' /\ FairShareKept'
<1>1. PICK e \in Endpoint, w \in Time, u \in Time :
        e = push[r].endpoint /\ w = MinuteOf(r) /\ u = BreakerWindowOf(r)
  BY HandlerWindows DEF PInv, LInv, CountDelivery
<1>2. /\ Exact'
      /\ \A b \in Bucket, v \in Time :
           /\ {events[b][v], events'[b][v]} \subseteq Nat
           /\ events'[b][v] = IF (b = "device" /\ v = w) \/ (b = "deliveries" /\ v = u)
                              THEN events[b][v] + 1 ELSE events[b][v]
  BY <1>1, DeliveryCounts
<1>3. /\ push[r] \in Handler /\ push \in [Request -> Handler] /\ push[r].stage = "count"
      /\ sent \in [Endpoint \cup {"device"} -> [Time -> Nat]]
      /\ overshare \in [Time -> Nat] /\ "device" \notin Endpoint
  BY BucketAssumption DEF PInv, LInv, Handling, CountDelivery, Limits, Histories
<1>4. /\ push'[r].stage = "send" /\ push'[r].start = push[r].start /\ Moves(r)
      /\ MinuteOf(r)' = w /\ BreakerWindowOf(r)' = u
  BY <1>1, <1>3 DEF CountDelivery, Goto, Handler, Moves, MinuteOf, BreakerWindowOf
<1>5. /\ sent' = [sent EXCEPT ![e][w] = @ + 1, !["device"][w] = @ + 1]
      /\ overshare' = [overshare EXCEPT ![w] =
                         IF push[r].over /\ Sent(w) >= DevicePerMinute THEN @ + 1 ELSE @]
      /\ invalidated' = invalidated /\ unfair' = unfair
  BY <1>1 DEF CountDelivery
<1>6. /\ sent' \in [Endpoint \cup {"device"} -> [Time -> Nat]]
      /\ \A f \in Endpoint, v \in Time :
           sent'[f][v] = IF f = e /\ v = w THEN sent[f][v] + 1 ELSE sent[f][v]
      /\ \A v \in Time : Sent(v)' = IF v = w THEN Sent(v) + 1 ELSE Sent(v)
  <2> DEFINE D == Endpoint \cup {"device"}
             once == [sent EXCEPT ![e] = [sent[e] EXCEPT ![w] = @ + 1]]
  <2>1. /\ once \in [D -> [Time -> Nat]] /\ once["device"] = sent["device"]
        /\ \A f \in D, v \in Time :
             once[f][v] = IF f = e /\ v = w THEN sent[f][v] + 1 ELSE sent[f][v]
    BY <1>3
  <2>2. sent' = [once EXCEPT !["device"] = [once["device"] EXCEPT ![w] = @ + 1]]
    BY <1>3, <1>5
  <2> HIDE DEF once
  <2>3. /\ sent' \in [D -> [Time -> Nat]]
        /\ \A f \in D, v \in Time :
             sent'[f][v] = IF f = "device" /\ v = w THEN once[f][v] + 1 ELSE once[f][v]
    BY <2>1, <2>2
  <2> QED BY <1>3, <2>1, <2>3 DEF Sent
<1>7. /\ overshare' \in [Time -> Nat]
      /\ \A v \in Time : v # w => overshare'[v] = overshare[v]
      /\ push[r].over /\ Sent(w) >= DevicePerMinute => overshare'[w] = overshare[w] + 1
      /\ ~(push[r].over /\ Sent(w) >= DevicePerMinute) => overshare'[w] = overshare[w]
  <2> DEFINE c == push[r].over /\ Sent(w) >= DevicePerMinute
  <2>1. overshare' = [overshare EXCEPT ![w] = IF c THEN overshare[w] + 1 ELSE overshare[w]]
    BY <1>5, Zenon
  <2> HIDE DEF c
  <2>2. /\ overshare' \in [Time -> Nat]
        /\ \A v \in Time : v # w => overshare'[v] = overshare[v]
        /\ c => overshare'[w] = overshare[w] + 1
        /\ ~c => overshare'[w] = overshare[w]
    BY <1>3, <2>1
  <2> QED BY <2>2, Zenon DEF c
<1>8. Histories'
  BY <1>5, <1>6, <1>7 DEF PInv, Limits, Histories
<1>9. ASSUME NEW f \in Endpoint, NEW v \in Time
      PROVE  /\ sent'[f][v] + Cardinality(Admitted(f, v)') <= events'[f][v]
             /\ sent'[f][v] + Cardinality(Admitted(f, v)') <= EndpointPerMinute
  <2>1. /\ sent[f][v] + Cardinality(Admitted(f, v)) <= events[f][v]
        /\ sent[f][v] + Cardinality(Admitted(f, v)) <= EndpointPerMinute
        /\ sent[f][v] \in Nat
    BY <1>3 DEF PInv, Limits, Admitting
  <2>2. events[f][v] \in Nat /\ events'[f][v] = events[f][v]
    <3>1. f \in Bucket /\ f # "device" /\ f # "deliveries"
      BY BucketAssumption DEF Bucket
    <3> QED BY <1>2, <3>1
  <2>3. r \notin Admitted(f, v)' /\ (f = e /\ v = w => r \in Admitted(f, v))
    BY <1>1, <1>3, <1>4 DEF Admitted
  <2>4. /\ {Cardinality(Admitted(f, v)), Cardinality(Admitted(f, v)')} \subseteq Nat
        /\ Cardinality(Admitted(f, v)') <= Cardinality(Admitted(f, v))
        /\ f = e /\ v = w => Cardinality(Admitted(f, v)') + 1 <= Cardinality(Admitted(f, v))
    BY <1>4, <2>3, HandlersCount
  <2>5. sent'[f][v] = IF f = e /\ v = w THEN sent[f][v] + 1 ELSE sent[f][v]
    BY <1>6
  <2> QED BY <2>1, <2>2, <2>4, <2>5, LimitsAssumption
<1>10. ASSUME NEW v \in Time
       PROVE  events'["active"][v] + Cardinality(First(v)') <= Cardinality(Sending(v)')
  <2>1. /\ events["active"][v] + Cardinality(First(v)) <= Cardinality(Sending(v))
        /\ events["active"][v] \in Nat /\ events'["active"][v] = events["active"][v]
    BY <1>2 DEF PInv, Limits, ActiveOnce, Bucket
  <2>2. \A f \in Endpoint : events[f][v] > 0 => events'[f][v] > 0
    BY <1>2, BucketAssumption DEF Bucket
  <2>3. /\ {Cardinality(Sending(v)), Cardinality(Sending(v)')} \subseteq Nat
        /\ Cardinality(Sending(v)) <= Cardinality(Sending(v)')
    BY <2>2, SendersCount
  <2>4. r \notin First(v)'
    BY <1>4 DEF First
  <2>5. /\ {Cardinality(First(v)), Cardinality(First(v)')} \subseteq Nat
        /\ Cardinality(First(v)') <= Cardinality(First(v))
    BY <1>4, <2>4, HandlersCount
  <2> QED BY <2>1, <2>3, <2>5
<1>11. ASSUME NEW v \in Time
       PROVE  /\ invalidated'[v] <= events'["invalidations"][v]
              /\ invalidated'[v] + Cardinality(Delivered(v)') <= events'["deliveries"][v]
              /\ invalidated'[v] <= BreakerMax
              /\ \/ invalidated'[v] < BreakerMin
                 \/ invalidated'[v] * RatioInverse <= events'["deliveries"][v]
  <2>1. /\ invalidated[v] <= events["invalidations"][v]
        /\ invalidated[v] + Cardinality(Delivered(v)) <= events["deliveries"][v]
        /\ invalidated[v] <= BreakerMax
        /\ \/ invalidated[v] < BreakerMin
           \/ invalidated[v] * RatioInverse <= events["deliveries"][v]
        /\ invalidated'[v] = invalidated[v] /\ invalidated[v] \in Nat
    BY <1>5 DEF PInv, Limits, Invalidating, BreakerHolds, Histories
  <2>2. /\ {events["deliveries"][v], events["invalidations"][v]} \subseteq Nat
        /\ events'["invalidations"][v] = events["invalidations"][v]
        /\ events'["deliveries"][v] = IF v = u THEN events["deliveries"][v] + 1
                                               ELSE events["deliveries"][v]
    BY <1>2 DEF Bucket
  <2>3. v # u => r \notin Delivered(v)'
    BY <1>4 DEF Delivered
  <2>4. /\ {Cardinality(Delivered(v)), Cardinality(Delivered(v)')} \subseteq Nat
        /\ Cardinality(Delivered(v)') <= Cardinality(Delivered(v)) + 1
        /\ v # u => Cardinality(Delivered(v)') <= Cardinality(Delivered(v))
    BY <1>4, <2>3, HandlersCount
  <2>5. invalidated[v] * RatioInverse \in Nat
    BY <2>1, LimitsAssumption
  <2> QED BY <2>1, <2>2, <2>4, <2>5
<1>12. ASSUME NEW v \in Time
       PROVE  /\ events'["device"][v] = Sent(v)'
              /\ Sent(v)' < DevicePerMinute => overshare'[v] = 0
              /\ Sent(v)' >= DevicePerMinute =>
                   overshare'[v] + Cardinality(Beyond(v)') <= Cardinality(Request) - 1
  <2>1. /\ events["device"][v] = Sent(v) /\ Sent(v) \in Nat /\ overshare[v] \in Nat
        /\ Sent(v) < DevicePerMinute => overshare[v] = 0
        /\ Sent(v) >= DevicePerMinute =>
             overshare[v] + Cardinality(Beyond(v)) <= Cardinality(Request) - 1
    <3>1. Sent(v) \in Nat /\ overshare[v] \in Nat
      BY <1>3 DEF Sent
    <3> QED BY <3>1 DEF PInv, Limits, Ceiling
  <2>2. events'["device"][v] = IF v = w THEN events["device"][v] + 1 ELSE events["device"][v]
    BY <1>2 DEF Bucket
  <2>3. Sent(v)' = IF v = w THEN Sent(v) + 1 ELSE Sent(v)
    BY <1>6
  <2>4. r \notin Beyond(v)' /\ (v = w /\ push[r].over => r \in Beyond(v))
    BY <1>1, <1>3, <1>4 DEF Beyond
  <2>5. /\ {Cardinality(Beyond(v)), Cardinality(Beyond(v)')} \subseteq Nat
        /\ Cardinality(Beyond(v)') <= Cardinality(Beyond(v))
        /\ v = w /\ push[r].over => Cardinality(Beyond(v)') + 1 <= Cardinality(Beyond(v))
    BY <1>4, <2>4, HandlersCount
  <2>6. Cardinality(Beyond(v)') + 1 <= Cardinality(Request) /\ Cardinality(Request) \in Nat
    <3>1. Beyond(v)' \subseteq Request \ {r}
      BY <2>4 DEF Beyond
    <3> QED BY <3>1, CardLoses, FiniteAssumption
  <2>7. CASE v # w
    <3>1. overshare'[v] = overshare[v] /\ Sent(v)' = Sent(v)
          /\ events'["device"][v] = events["device"][v]
      BY <1>7, <2>2, <2>3, <2>7
    <3> QED BY <2>1, <2>5, <2>6, <3>1, LimitsAssumption
  <2>8. CASE v = w /\ Sent(w) < DevicePerMinute
    <3>1. overshare'[v] = 0
      BY <1>7, <2>1, <2>8, LimitsAssumption
    <3> QED BY <2>1, <2>2, <2>3, <2>5, <2>6, <2>8, <3>1
  <2>9. CASE v = w /\ Sent(w) >= DevicePerMinute /\ push[r].over
    <3>1. overshare'[v] = overshare[v] + 1
      BY <1>7, <2>9
    <3>2. Cardinality(Beyond(v)') + 1 <= Cardinality(Beyond(v))
      BY <2>5, <2>9
    <3> QED BY <2>1, <2>2, <2>3, <2>5, <2>6, <2>9, <3>1, <3>2, LimitsAssumption
  <2>10. CASE v = w /\ Sent(w) >= DevicePerMinute /\ ~push[r].over
    <3>1. overshare'[v] = overshare[v]
      BY <1>7, <2>10
    <3> QED BY <2>1, <2>2, <2>3, <2>5, <2>6, <2>10, <3>1, LimitsAssumption
  <2>11. Sent(w) < DevicePerMinute \/ Sent(w) >= DevicePerMinute
    BY <1>3, LimitsAssumption DEF Sent
  <2> QED BY <2>7, <2>8, <2>9, <2>10, <2>11, Zenon
<1>13. Admitting' /\ ActiveOnce'
  BY <1>9, <1>10 DEF Admitting, ActiveOnce
<1>14. Invalidating' /\ BreakerHolds'
  BY <1>11 DEF Invalidating, BreakerHolds
<1>15. Ceiling'
  BY <1>12 DEF Ceiling
<1>16. FairShareKept'
  BY <1>5 DEF PInv, FairShareKept
<1> QED BY <1>2, <1>8, <1>13, <1>14, <1>15, <1>16 DEF Limits

\* What the breaker's batch reads and leaves.
LEMMA BreakerCounts ==
  ASSUME PInv, Prompt, NEW r \in Request, Breaker(r), NEW w \in Time, w = BreakerWindowOf(r)
  PROVE  /\ Exact'
         /\ Upsert(rows["invalidations"], w).count = events["invalidations"][w] + 1
         /\ Peek(rows["deliveries"], w) = events["deliveries"][w]
         /\ \A b \in Bucket, v \in Time :
              /\ {events[b][v], events'[b][v]} \subseteq Nat
              /\ events'[b][v] = IF b = "invalidations" /\ v = w THEN events[b][v] + 1
                                                                 ELSE events[b][v]
<1> DEFINE S == {"invalidations"}
           counts == [b \in S |-> w]
<1>1. S \in SUBSET Bucket /\ "deliveries" \in Bucket
  BY DEF Bucket
<1>2. w = Current("invalidations") /\ w = Current("deliveries")
  BY <1>1, PromptIsCurrent DEF Breaker
<1>3. Increment(counts) /\ UNCHANGED now
  BY DEF Breaker
<1>4. /\ DOMAIN counts = S /\ DOMAIN counts \subseteq Bucket
      /\ "invalidations" \in S /\ counts["invalidations"] = w
      /\ \A b \in DOMAIN counts : counts[b] = Current(b)
  BY <1>1, <1>2
<1>5. \A b : b \in S <=> b = "invalidations"
  OBVIOUS
<1> HIDE DEF counts, S
<1>6. /\ Exact'
      /\ \A b \in DOMAIN counts : Upsert(rows[b], counts[b]).count = events[b][counts[b]] + 1
      /\ \A b \in Bucket, v \in Time :
           events'[b][v] = IF b \in DOMAIN counts /\ v = counts[b]
                           THEN events[b][v] + 1 ELSE events[b][v]
  BY <1>3, <1>4, ExactIncrement, Zenon DEF PInv
<1>7. \A b \in Bucket, v \in Time :
        events'[b][v] = IF b = "invalidations" /\ v = w THEN events[b][v] + 1 ELSE events[b][v]
  BY <1>4, <1>5, <1>6
<1>8. \A b \in Bucket, v \in Time : {events[b][v], events'[b][v]} \subseteq Nat
  <2>1. \A b \in Bucket, v \in Time : events[b][v] \in Nat
    BY DEF PInv, LInv, Counting
  <2> QED BY <1>7, <2>1
<1>9. Peek(rows["deliveries"], w) = events["deliveries"][w]
  BY <1>1, <1>2 DEF PInv, Exact
<1> QED BY <1>4, <1>6, <1>7, <1>8, <1>9

\* A closed breaker: this rejection was counted and was a delivery first, so
\* the ratio that the breaker read bounds the invalidations.
LEMMA BreakerKeeps ==
  ASSUME PInv, Prompt, NEW r \in Request, Breaker(r)
  PROVE  Exact' /\ Limits' /\ FairShareKept'
<1>1. PICK w \in Time : w = BreakerWindowOf(r)
  BY HandlerWindows DEF PInv, LInv, Breaker
<1> DEFINE count == Upsert(rows["invalidations"], w).count
           deliveries == Peek(rows["deliveries"], w)
<1>2. /\ Exact' /\ count = events["invalidations"][w] + 1
      /\ deliveries = events["deliveries"][w]
      /\ \A b \in Bucket, v \in Time :
           /\ {events[b][v], events'[b][v]} \subseteq Nat
           /\ events'[b][v] = IF b = "invalidations" /\ v = w THEN events[b][v] + 1
                                                              ELSE events[b][v]
  BY <1>1, BreakerCounts
<1>3. /\ invalidated' = [invalidated EXCEPT ![w] = IF Open(count, deliveries) THEN @ ELSE @ + 1]
      /\ UNCHANGED <<sent, overshare, unfair>> /\ push[r].stage = "breaker"
  BY <1>1 DEF Breaker
<1>4. End(r) /\ \A q \in Request : Calm(q)
  BY EndsCalmly DEF PInv, LInv, Breaker
<1>5. Grows
  <2>1. \A b \in {"active", "device"} : b \in Bucket /\ b \notin {"invalidations"}
    BY DEF Bucket
  <2>2. Increment([b \in {"invalidations"} |-> w])
    BY <1>1 DEF Breaker
  <2>3. events'["active"] = events["active"] /\ events'["device"] = events["device"]
    BY <2>1, <2>2 DEF Increment
  <2> QED BY <1>2, <2>3 DEF Grows
<1> HIDE DEF count, deliveries
<1>6. FairShareKept'
  BY <1>3 DEF PInv, FairShareKept
<1>7. CASE Open(count, deliveries)
  <2>1. invalidated' = invalidated
    BY <1>3, <1>7 DEF PInv, Limits, Histories
  <2>2. Limits'
    BY <1>3, <1>4, <1>5, <2>1, CalmKeeps DEF PInv
  <2> QED BY <1>2, <1>6, <2>2
<1>8. CASE ~Open(count, deliveries)
  <2>1. /\ invalidated \in [Time -> Nat]
        /\ invalidated' = [invalidated EXCEPT ![w] = @ + 1]
    BY <1>3, <1>8 DEF PInv, Limits, Histories
  <2>2. Histories'
    BY <1>3, <2>1 DEF PInv, Limits, Histories
  <2>3. ASSUME NEW v \in Time
        PROVE  /\ invalidated'[v] <= events'["invalidations"][v]
               /\ invalidated'[v] + Cardinality(Delivered(v)') <= events'["deliveries"][v]
               /\ invalidated'[v] <= BreakerMax
               /\ \/ invalidated'[v] < BreakerMin
                  \/ invalidated'[v] * RatioInverse <= events'["deliveries"][v]
    <3>1. /\ invalidated[v] <= events["invalidations"][v]
          /\ invalidated[v] + Cardinality(Delivered(v)) <= events["deliveries"][v]
          /\ invalidated[v] <= BreakerMax
          /\ \/ invalidated[v] < BreakerMin
             \/ invalidated[v] * RatioInverse <= events["deliveries"][v]
          /\ invalidated[v] \in Nat
      BY <2>1 DEF PInv, Limits, Invalidating, BreakerHolds
    <3>2. /\ {events["deliveries"][v], events["invalidations"][v]} \subseteq Nat
          /\ events'["deliveries"][v] = events["deliveries"][v]
          /\ events'["invalidations"][v] = IF v = w THEN events["invalidations"][v] + 1
                                                    ELSE events["invalidations"][v]
      BY <1>2 DEF Bucket
    <3>3. Moves(r) /\ push'[r].stage = "idle"
      BY <1>4 DEF End, Moves, Idle, PInv, LInv, Handling
    <3>4. r \notin Delivered(v)' /\ (v = w => r \in Delivered(v))
      BY <1>1, <1>3, <3>3 DEF Delivered
    <3>5. /\ {Cardinality(Delivered(v)), Cardinality(Delivered(v)')} \subseteq Nat
          /\ Cardinality(Delivered(v)') <= Cardinality(Delivered(v))
          /\ v = w => Cardinality(Delivered(v)') + 1 <= Cardinality(Delivered(v))
      BY <3>3, <3>4, HandlersCount
    <3>6. CASE v # w
      <4>1. invalidated'[v] = invalidated[v]
        BY <2>1, <3>6
      <4> QED BY <3>1, <3>2, <3>5, <3>6, <4>1
    <3>7. CASE v = w
      <4>1. invalidated'[v] = invalidated[v] + 1
        BY <2>1, <3>7
      <4> DEFINE i == invalidated[v] + 1
                 c == events["invalidations"][v] + 1
                 d == events["deliveries"][v]
      <4>2. i \in Nat /\ c \in Nat /\ d \in Nat /\ i <= c /\ i <= d
        BY <3>1, <3>2, <3>5, <3>7
      <4>3. ~(c > BreakerMax) /\ ~(d >= BreakerMin /\ c * RatioInverse > d)
        BY <1>2, <1>8, <3>7 DEF Open
      <4> HIDE DEF c, d, i
      <4>4. i * RatioInverse <= c * RatioInverse
        <5>1. /\ (c - i) * RatioInverse >= 0
              /\ (c - i) * RatioInverse = c * RatioInverse - i * RatioInverse
              /\ c * RatioInverse \in Nat /\ i * RatioInverse \in Nat
          BY <4>2, LimitsAssumption
        <5> QED BY <5>1
      <4>5. /\ i <= BreakerMax
            /\ i < BreakerMin \/ i * RatioInverse <= d
        <5>1. c * RatioInverse \in Nat /\ i * RatioInverse \in Nat
          BY <4>2, LimitsAssumption
        <5> QED BY <4>2, <4>3, <4>4, <5>1, LimitsAssumption
      <4>6. /\ invalidated[v] + 1 <= events'["invalidations"][v]
            /\ invalidated[v] + 1 + Cardinality(Delivered(v)') <= events'["deliveries"][v]
        BY <3>1, <3>2, <3>5, <3>7
      <4> QED BY <3>2, <4>1, <4>5, <4>6 DEF i, d
    <3> QED BY <3>6, <3>7
  <2>4. Invalidating' /\ BreakerHolds'
    BY <2>3 DEF Invalidating, BreakerHolds
  <2>5. Admitting' /\ ActiveOnce' /\ Ceiling'
    BY <1>3, <1>4, <1>5, CalmAdmits DEF PInv
  <2> QED BY <1>2, <1>6, <2>2, <2>4, <2>5 DEF Limits
<1> QED BY <1>7, <1>8

-----------------------------------------------------------------------------
(* The limits hold *)

LEMMA InitPInv == Init => PInv
<1> SUFFICES ASSUME Init PROVE PInv
  OBVIOUS
<1>1. LInv
  BY InitLInv
<1>2. Exact
  <2>1. ASSUME NEW b \in Bucket
        PROVE  /\ rows[b].start <= Current(b)
               /\ Peek(rows[b], Current(b)) = events[b][Current(b)]
               /\ \A w \in Time : w > Current(b) => events[b][w] = 0
    <3>1. Current(b) \in Time /\ Current(b) \in Nat
      BY <1>1, CurrentIsTime DEF LInv, Handling, Time
    <3>2. rows[b] = Absent /\ \A w \in Time : events[b][w] = 0
      BY DEF Init
    <3> QED BY <3>1, <3>2 DEF Absent, Peek
  <2> QED BY <2>1 DEF Exact
<1>3. \A e, w : Admitted(e, w) = {} /\ First(w) = {} /\ Delivered(w) = {} /\ Beyond(w) = {}
  BY DEF Init, Idle, Admitted, First, Delivered, Beyond
<1>4. \A e, w : /\ Cardinality(Admitted(e, w)) = 0 /\ Cardinality(First(w)) = 0
                /\ Cardinality(Delivered(w)) = 0 /\ Cardinality(Beyond(w)) = 0
  BY <1>3, FS_EmptySet
<1>5. /\ \A b \in Bucket, w \in Time : events[b][w] = 0
      /\ \A e \in Endpoint, w \in Time : sent[e][w] = 0
      /\ \A w \in Time : Sent(w) = 0 /\ overshare[w] = 0 /\ invalidated[w] = 0
  BY DEF Init, Sent
<1>6. \A w : Cardinality(Sending(w)) \in Nat
  BY HandlersFinite, FS_CardinalityType
<1>7. Cardinality(Request) \in Nat /\ Cardinality(Request) >= 1
  BY FiniteAssumption, FS_CardinalityType, FS_EmptySet
<1>8. Histories
  BY DEF Init, Histories
<1>9. Admitting /\ ActiveOnce
  BY <1>4, <1>5, <1>6, LimitsAssumption DEF Admitting, ActiveOnce, Bucket
<1>10. Invalidating /\ BreakerHolds
  BY <1>4, <1>5, LimitsAssumption DEF Invalidating, BreakerHolds, Bucket
<1>11. Ceiling
  BY <1>4, <1>5, <1>7, LimitsAssumption DEF Ceiling, Bucket
<1>12. FairShareKept
  BY DEF Init, FairShareKept
<1> QED BY <1>1, <1>2, <1>8, <1>9, <1>10, <1>11, <1>12 DEF PInv, Limits

LEMMA NextPInv ==
  ASSUME Prompt, PInv, [Next]_vars
  PROVE  PInv'
<1>1. LInv'
  BY NextLInv DEF PInv
<1>2. Exact' /\ Limits' /\ FairShareKept'
  <2>1. CASE Next
    BY <2>1, StartKeeps, AdmitKeeps, AdmitFirstKeeps, CountDeliveryKeeps, RejectedKeeps,
       BreakerKeeps, FailKeeps, PurgeKeeps, TickKeeps, Zenon DEF Next
  <2>2. CASE UNCHANGED vars
    BY <2>2, UncountedKeeps, ExactSame DEF vars, history, Calm, PInv
  <2> QED BY <2>1, <2>2
<1> QED BY <1>1, <1>2 DEF PInv

LEMMA LimitsImply ==
  ASSUME PInv
  PROVE  EndpointLimit /\ FairShareKept /\ BreakerHolds /\ CeilingOvershoot
<1>1. ASSUME NEW e \in Endpoint, NEW w \in Time
      PROVE  sent[e][w] <= EndpointPerMinute
  <2>1. /\ sent[e][w] + Cardinality(Admitted(e, w)) <= EndpointPerMinute
        /\ sent[e][w] \in Nat
    BY DEF PInv, Limits, Admitting, Histories
  <2>2. Cardinality(Admitted(e, w)) \in Nat
    BY HandlersFinite, FS_CardinalityType
  <2> QED BY <2>1, <2>2, LimitsAssumption
<1>2. ASSUME NEW w \in Time
      PROVE  overshare[w] <= Cardinality(Request) - 1
  <2>1. /\ Sent(w) \in Nat /\ overshare[w] \in Nat
        /\ Sent(w) < DevicePerMinute => overshare[w] = 0
        /\ Sent(w) >= DevicePerMinute =>
             overshare[w] + Cardinality(Beyond(w)) <= Cardinality(Request) - 1
    BY DEF PInv, Limits, Ceiling, Histories, Sent
  <2>2. Cardinality(Beyond(w)) \in Nat
    BY HandlersFinite, FS_CardinalityType
  <2>3. Cardinality(Request) \in Nat /\ Cardinality(Request) >= 1
    BY FiniteAssumption, FS_CardinalityType, FS_EmptySet
  <2> QED BY <2>1, <2>2, <2>3, LimitsAssumption
<1> QED BY <1>1, <1>2 DEF EndpointLimit, CeilingOvershoot, PInv, Limits

\* relay/README.md, "More than 60 messages per endpoint per minute": of an
\* endpoint no window sends more than the limit, however many handlers count
\* at once and whatever they do after the count.
THEOREM EndpointsAreLimited == ASSUME Prompt PROVE Spec => []EndpointLimit
<1>1. PInv => EndpointLimit
  BY LimitsImply
<1>2. PInv /\ [Next]_vars => PInv'
  BY NextPInv
<1> QED BY <1>1, <1>2, InitPInv, PTL DEF Spec

\* admit: a push within its endpoint's limit and fair share is never refused,
\* even when the active endpoints are counted after other handlers sent.
THEOREM FairShareIsKept == ASSUME Prompt PROVE Spec => []FairShareKept
<1>1. PInv => FairShareKept
  BY LimitsImply
<1>2. PInv /\ [Next]_vars => PInv'
  BY NextPInv
<1> QED BY <1>1, <1>2, InitPInv, PTL DEF Spec

\* breakerOpen: the rejections that a window lets through stay within the
\* absolute limit, and within their share of the deliveries counted so far.
THEOREM InvalidationsAreLimited == ASSUME Prompt PROVE Spec => []BreakerHolds
<1>1. PInv => BreakerHolds
  BY LimitsImply
<1>2. PInv /\ [Next]_vars => PInv'
  BY NextPInv
<1> QED BY <1>1, <1>2, InitPInv, PTL DEF Spec

\* admit peeks the device's count and adds to it later: what goes beyond the
\* device's budget is at most one push of each other handler.
THEOREM CeilingIsBounded == ASSUME Prompt PROVE Spec => []CeilingOvershoot
<1>1. PInv => CeilingOvershoot
  BY LimitsImply
<1>2. PInv /\ [Next]_vars => PInv'
  BY NextPInv
<1> QED BY <1>1, <1>2, InitPInv, PTL DEF Spec
=============================================================================
