---------------------------- MODULE PushLimits -----------------------------
(***************************************************************************)
(* What limits the pushes to one device and the invalidations of one       *)
(* platform: admit and breakerOpen (relay/src/push.ts) over the counters   *)
(* of RateWindow.                                                          *)
(*                                                                         *)
(* A handler reads the time once, before it verifies VAPID and reads the   *)
(* body, and passes it to every counter statement.  Other handlers, and    *)
(* the end of a window, come in between.  Prompt restricts the model to    *)
(* handlers whose counter statements run in the window they started in.    *)
(*                                                                         *)
(* Abstracted: the device row (PushRelay), so whether a rejection is       *)
(* guarded by the breaker is an arbitrary choice.                          *)
(***************************************************************************)
EXTENDS RateWindow, FiniteSets

CONSTANTS Endpoint,          \* the device's endpoints
          None,              \* no endpoint
          Request,           \* slots for handlers that run at once
          Minute,            \* length of the push windows
          BreakerWindow,     \* limits.breakerWindowSeconds
          PurgeAge,          \* purge keeps windows at most this old
          EndpointPerMinute, DevicePerMinute,
          BreakerMax,        \* limits.breakerMaxInvalidations
          BreakerMin,        \* limits.breakerMinDeliveries
          RatioInverse,      \* 1 / limits.breakerMaxRatio
          Prompt,            \* no counter statement outlives its window
          MaxNow, MaxStarts  \* bounds on the clock and on the pushes

ASSUME LimitsAssumption ==
  /\ {EndpointPerMinute, DevicePerMinute, BreakerMax, BreakerMin} \subseteq Nat
  /\ {RatioInverse, PurgeAge, MaxNow, MaxStarts} \subseteq Nat
  /\ {Minute, BreakerWindow} \subseteq Nat \ {0}
  /\ Prompt \in BOOLEAN
\* scheduled keeps two hours of windows, more than any window lasts.
ASSUME PurgeAssumption == PurgeAge >= Minute /\ PurgeAge >= BreakerWindow
ASSUME FiniteAssumption ==
  IsFiniteSet(Endpoint) /\ IsFiniteSet(Request) /\ Request # {}
ASSUME BucketAssumption ==
  Endpoint \cap {None, "device", "active", "deliveries", "invalidations"} = {}

VARIABLES rows,        \* rate_windows
          push,        \* the handlers
          now,
          started,     \* how many pushes have started
          events,      \* history: increments of a bucket in a window
          sent,        \* history: pushes sent to an endpoint, and to the device, in a window
          overshare,   \* history: those beyond the fair share and the ceiling, per window
          invalidated, \* history: guarded invalidations, per breaker window
          unfair       \* history: a push was refused within limit and fair share

vars == <<rows, push, now, started, events, sent, overshare, invalidated, unfair>>
history == <<sent, overshare, invalidated, unfair>>

Time   == 0..MaxNow
Bucket == Endpoint \cup {"device", "active", "deliveries", "invalidations"}
Stages == {"idle", "admit", "first", "count", "send", "breaker"}

Handler == [stage : Stages, endpoint : Endpoint \cup {None}, start : Time,
            count : Nat,     \* the endpoint's count
            device : Nat,    \* the device's count that admit peeked
            over : BOOLEAN]  \* admitted beyond its fair share

Idle == [stage |-> "idle", endpoint |-> None, start |-> 0, count |-> 0,
         device |-> 0, over |-> FALSE]

MinuteOf(r) == WindowStart(push[r].start, Minute)
BreakerWindowOf(r) == WindowStart(push[r].start, BreakerWindow)

\* The windows r counts in are still the current ones.
InTime(r) == Prompt => /\ WindowStart(now, Minute) = MinuteOf(r)
                       /\ WindowStart(now, BreakerWindow) = BreakerWindowOf(r)

\* One batch: each bucket of counts is incremented in its window.
Increment(counts) ==
  /\ rows' = [b \in Bucket |-> IF b \in DOMAIN counts THEN Upsert(rows[b], counts[b])
                                                     ELSE rows[b]]
  /\ events' = [b \in Bucket |->
       IF b \in DOMAIN counts THEN [events[b] EXCEPT ![counts[b]] = @ + 1] ELSE events[b]]

Goto(r, stage) == push' = [push EXCEPT ![r].stage = stage]
End(r)         == push' = [push EXCEPT ![r] = Idle]

-----------------------------------------------------------------------------

Start(r) ==
  /\ push[r].stage = "idle" /\ started < MaxStarts
  /\ started' = started + 1
  /\ \E e \in Endpoint :
       push' = [push EXCEPT ![r] = [Idle EXCEPT !.stage = "admit", !.endpoint = e,
                                                !.start = now]]
  /\ UNCHANGED <<rows, events, now, history>>

FairShare(active) == DevicePerMinute \div (IF active > 1 THEN active ELSE 1)

\* Endpoints counted in the window so far, by the history.
Senders(w) == {e \in Endpoint : events'[e][w] > 0}

\* The last line of admit, with the counts the batches returned.
Decide(r, count, device, active) ==
  LET over == count > FairShare(active) IN
  IF device >= DevicePerMinute /\ over
  THEN /\ End(r)
       /\ unfair' = (unfair \/ count <= FairShare(Cardinality(Senders(MinuteOf(r)))))
       /\ UNCHANGED <<sent, overshare, invalidated>>
  ELSE /\ push' = [push EXCEPT ![r].stage = "count", ![r].over = over]
       /\ UNCHANGED history

\* Mutant: the limit is compared with the count before this push.
OverLimitBefore(count) == count - 1 > EndpointPerMinute

OverLimit(count) == count > EndpointPerMinute

\* Mutant: every push makes its endpoint active once more.
AlwaysFirst(count) == TRUE

FirstOfWindow(count) == count = 1

\* admit, first batch: count the push of the endpoint, peek the device.
Admit(r) ==
  /\ push[r].stage = "admit" /\ InTime(r)
  /\ LET e == push[r].endpoint
         w == MinuteOf(r)
         count == Upsert(rows[e], w).count
         device == Peek(rows["device"], w)
         active == Peek(rows["active"], w) IN
     /\ Increment([b \in {e} |-> w])
     /\ IF OverLimit(count)
        THEN End(r) /\ UNCHANGED history
        ELSE IF FirstOfWindow(count)
        THEN /\ push' = [push EXCEPT ![r].stage = "first",
                                     ![r].count = count, ![r].device = device]
             /\ UNCHANGED history
        ELSE Decide(r, count, device, active)
  /\ UNCHANGED <<now, started>>

\* admit, second batch: the endpoint's first push of the window.
AdmitFirst(r) ==
  /\ push[r].stage = "first" /\ InTime(r)
  /\ Increment([b \in {"active"} |-> MinuteOf(r)])
  /\ Decide(r, push[r].count, push[r].device, Upsert(rows["active"], MinuteOf(r)).count)
  /\ UNCHANGED <<now, started>>

\* What the device was sent in a window, by all its endpoints.
Sent(w) == sent["device"][w]

\* Mutant: deliveries are counted, the device's pushes are not.
CountedBuckets == {"deliveries"}

DeliveryBuckets == {"device", "deliveries"}

\* An admitted push counts against the device and as a delivery, and is sent.
CountDelivery(r) ==
  /\ push[r].stage = "count" /\ InTime(r)
  /\ Increment([b \in DeliveryBuckets |->
                  IF b = "device" THEN MinuteOf(r) ELSE BreakerWindowOf(r)])
  /\ Goto(r, "send")
  /\ sent' = [sent EXCEPT ![push[r].endpoint][MinuteOf(r)] = @ + 1,
                         !["device"][MinuteOf(r)] = @ + 1]
  /\ overshare' = [overshare EXCEPT ![MinuteOf(r)] =
                     IF push[r].over /\ Sent(MinuteOf(r)) >= DevicePerMinute THEN @ + 1 ELSE @]
  /\ UNCHANGED <<now, started, invalidated, unfair>>

\* The platform rejects the token of a device that was delivered to before.
\* (Every other outcome ends the handler: Fail.)
Rejected(r) ==
  /\ push[r].stage = "send"
  /\ Goto(r, "breaker")
  /\ UNCHANGED <<rows, events, now, started, history>>

\* Mutant: only the absolute count opens the breaker.
OpenByCount(invalidations, deliveries) == invalidations > BreakerMax

Open(invalidations, deliveries) ==
  \/ invalidations > BreakerMax
  \/ deliveries >= BreakerMin /\ invalidations * RatioInverse > deliveries

\* breakerOpen: an open breaker answers 502, a closed one lets the relay invalidate.
Breaker(r) ==
  /\ push[r].stage = "breaker" /\ InTime(r)
  /\ LET w == BreakerWindowOf(r)
         count == Upsert(rows["invalidations"], w).count
         deliveries == Peek(rows["deliveries"], w) IN
     /\ Increment([b \in {"invalidations"} |-> w])
     /\ invalidated' = [invalidated EXCEPT ![w] = IF Open(count, deliveries) THEN @ ELSE @ + 1]
  /\ End(r)
  /\ UNCHANGED <<now, started, sent, overshare, unfair>>

\* The handler ends: the message was delivered, the request or the platform
\* failed, or a call threw.
Fail(r) ==
  /\ push[r].stage # "idle"
  /\ End(r)
  /\ UNCHANGED <<rows, events, now, started, history>>

\* scheduled: windows that started more than PurgeAge ago are deleted.
Purge == /\ \E time \in 0..now :
              rows' = [b \in Bucket |-> Kept(rows[b], time - PurgeAge)]
         /\ UNCHANGED <<push, events, now, started, history>>

Tick == /\ now < MaxNow
        /\ now' = now + 1
        /\ UNCHANGED <<rows, push, started, events, history>>

Init == /\ rows = [b \in Bucket |-> Absent]
        /\ push = [r \in Request |-> Idle]
        /\ now = 0 /\ started = 0
        /\ events = [b \in Bucket |-> [w \in Time |-> 0]]
        /\ sent = [e \in Endpoint \cup {"device"} |-> [w \in Time |-> 0]]
        /\ overshare = [w \in Time |-> 0]
        /\ invalidated = [w \in Time |-> 0]
        /\ unfair = FALSE

Next == \/ \E r \in Request :
             \/ Start(r)         \/ Admit(r)    \/ AdmitFirst(r)
             \/ CountDelivery(r) \/ Rejected(r) \/ Breaker(r) \/ Fail(r)
        \/ Purge \/ Tick

Spec == Init /\ [][Next]_vars

-----------------------------------------------------------------------------
(* Properties *)

\* rate-limit.ts, UPSERT: whatever the order of the statements, purges and
\* windows, a row never counts an event that did not happen in its window; so
\* a 429 or a 502 is never owed to another window's events.
CountsHappened ==
  \A b \in Bucket : rows[b].start \in Time => rows[b].count <= events[b][rows[b].start]

\* relay/README.md, "More than 60 messages per endpoint per minute": no more
\* than the limit are sent for an endpoint in one window.
EndpointLimit ==
  \A e \in Endpoint, w \in Time : sent[e][w] <= EndpointPerMinute

\* admit, "a few busy apps ... cannot starve an app that sends little": no
\* push is refused while its endpoint is within both its own limit and the
\* device's budget divided by the endpoints that sent in the window.
FairShareKept == ~unfair

\* admit peeks at the device's count and adds to it later: once the device was
\* sent its budget, at most one more push beyond its endpoint's fair share goes
\* out for each other handler that was already running.
CeilingOvershoot ==
  \A w \in Time : overshare[w] <= Cardinality(Request) - 1

\* breakerOpen: in a window at most BreakerMax rejections invalidate, and,
\* from BreakerMin rejections on, no more than their share of the deliveries.
BreakerHolds ==
  \A w \in Time :
    /\ invalidated[w] <= BreakerMax
    /\ \/ invalidated[w] < BreakerMin
       \/ invalidated[w] * RatioInverse <= events["deliveries"][w]
=============================================================================
