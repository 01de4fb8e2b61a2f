----------------------------- MODULE PushRelay -----------------------------
(***************************************************************************)
(* The push relay's device and push handlers over its D1 tables            *)
(* (relay/src/devices.ts, push.ts, store.ts).                              *)
(*                                                                         *)
(* The relay is a Cloudflare Worker: any number of handlers run at once    *)
(* and every `await` on D1 or on APNs/FCM is a point where others run.  A  *)
(* handler is therefore a request record whose stage advances one awaited  *)
(* call at a time; what it read before an await stays in the record and    *)
(* may be stale when it is used.  One D1 statement, and one `db.batch`, is *)
(* atomic: batch is a transaction.                                         *)
(*                                                                         *)
(* Abstracted: a Token stands for a (platform, token) pair; secrets,       *)
(* VAPID and body checks (they change no state); the rate counters, which  *)
(* RateWindow models, except that the open breaker is an arbitrary choice. *)
(***************************************************************************)
EXTENDS Integers, FiniteSets

CONSTANTS Device,            \* device ids randomId(16) can issue
          Token,             \* APNs/FCM tokens
          Subscription,      \* subscription ids randomId(16) can issue
          Request,           \* slots for handlers that run at once
          None,              \* no row, no owner, no argument
          KeepInvalid,       \* limits.invalidRowsPerToken
          SubscriptionLimit, \* limits.subscriptionsPerDevice
          InvalidRetention,  \* limits.invalidRetentionSeconds
          InactiveAfter,     \* limits.inactiveDeviceSeconds
          Day,               \* the DAY between two recorded deliveries
          MaxNow             \* bound on the clock, for model checking

ASSUME LimitAssumption ==
         /\ {KeepInvalid, SubscriptionLimit, InvalidRetention} \subseteq Nat
         /\ {InactiveAfter, Day, MaxNow} \subseteq Nat
         /\ Day > 0
ASSUME FiniteAssumption ==
         IsFiniteSet(Subscription) /\ IsFiniteSet(Request) /\ Request # {}

VARIABLES devices,     \* the devices table: a row per id, or None
          issued,      \* ids randomId has already produced
          owner,       \* the subscriptions table: the holding device, or None
          req,         \* the handlers
          now,         \* context.now()
          sawInvalid,  \* history: the push's device was invalid or gone while it ran
          lastDelivery, \* history: start of the device's latest answered delivery
          lag          \* history: how old a time was when it set seen_at back

vars == <<devices, issued, owner, req, now, sawInvalid, lastDelivery, lag>>

-----------------------------------------------------------------------------
(* Rows and requests *)

Never == -1                                  \* a NULL time
Time  == 0..MaxNow
Row   == [token : Token, invalidatedAt : Time \cup {Never}, seenAt : Time,
          deliveredAt : Time \cup {Never}]

ASSUME NoneAssumption ==
         None \notin Device \cup Token \cup Subscription \cup Row

\* What a handler still uses of a row it read before an await.
Snapshot == [token : Token, invalidatedAt : Time \cup {Never},
             deliveredAt : Time \cup {Never}]

Ops    == {"none", "register", "update", "deleteDevice", "createSub",
           "deleteSub", "push"}
Stages == {"idle", "touch", "commit", "prune", "count", "insert", "found", "send",
           "delivered", "invalid", "recheck", "done"}
Status == {0, 201, 204, 401, 404, 409, 410, 429, 500, 502, 503}

RequestRecord ==
  [op : Ops, stage : Stages, device : Device \cup {None},
   arg : Token \cup Subscription \cup {None}, row : Snapshot \cup {None},
   start : Time, status : Status]

Idle == [op |-> "none", stage |-> "idle", device |-> None, arg |-> None,
         row |-> None, start |-> 0, status |-> 0]

Read(d) == IF devices[d] = None THEN None
           ELSE [token |-> devices[d].token,
                 invalidatedAt |-> devices[d].invalidatedAt,
                 deliveredAt |-> devices[d].deliveredAt]

Exists(d)  == devices[d] # None
Active(d)  == Exists(d) /\ devices[d].invalidatedAt = Never
Invalid(d) == Exists(d) /\ devices[d].invalidatedAt # Never

\* Mutant: the statement is missing from the batch.
SupersedeNothing(t, d, time) == devices

\* The rows after SUPERSEDE: every other active device holding t is invalid.
Supersede(t, d, time) ==
  [e \in Device |-> IF Active(e) /\ devices[e].token = t /\ e # d
                    THEN [devices[e] EXCEPT !.invalidatedAt = time]
                    ELSE devices[e]]

InvalidRows(t) == {d \in Device : Invalid(d) /\ devices[d].token = t}

\* Mutant: subscriptions outlive their device.
WithoutCascade(gone) ==
  /\ devices' = [d \in Device |-> IF d \in gone THEN None ELSE devices[d]]
  /\ UNCHANGED owner

\* The tables without the devices in gone, and without their subscriptions.
Without(gone) ==
  /\ devices' = [d \in Device |-> IF d \in gone THEN None ELSE devices[d]]
  /\ owner' = [s \in Subscription |-> IF owner[s] \in gone THEN None ELSE owner[s]]

HeldBy(d) == {s \in Subscription : owner[s] = d}

Goto(r, stage)    == req' = [req EXCEPT ![r].stage = stage]
Answer(r, status) == req' = [req EXCEPT ![r] = [Idle EXCEPT !.stage = "done",
                                                    !.status = status]]
At(r, op, stage)  == req[r].op = op /\ req[r].stage = stage
Free(r)           == req[r].stage \in {"idle", "done"}

-----------------------------------------------------------------------------
(* Device API *)

\* createDevice: supersede and insert in one transaction.  The row carries
\* the time the handler read when it started (start).
RegisterStart(r) ==
  /\ Free(r)
  /\ \E t \in Token :
       req' = [req EXCEPT ![r] = [Idle EXCEPT !.op = "register", !.stage = "commit",
                                              !.arg = t, !.start = now]]
  /\ UNCHANGED <<devices, issued, owner, now>>

CreateDevice(r) ==
  /\ At(r, "register", "commit")
  /\ \E d \in Device \ issued :
       /\ devices' = [Supersede(req[r].arg, d, req[r].start) EXCEPT
                        ![d] = [token |-> req[r].arg, invalidatedAt |-> Never,
                                seenAt |-> req[r].start, deliveredAt |-> Never]]
       /\ issued' = issued \cup {d}
       /\ req' = [req EXCEPT ![r].stage = "prune", ![r].device = d]
  /\ UNCHANGED <<owner, now>>

\* authenticate: read the row, refuse an unknown device, then touch it.  The
\* time of the touch is read now or later (start), before its statement runs.
Authenticate(r) ==
  /\ Free(r)
  /\ \E d \in Device \cap issued :
       IF ~Exists(d) THEN Answer(r, 401)
       ELSE \E call \in ({"update"} \X Token) \cup ({"deleteSub"} \X Subscription)
                          \cup ({"deleteDevice", "createSub"} \X {None}) :
              req' = [req EXCEPT ![r] =
                [Idle EXCEPT !.op = call[1], !.stage = "touch", !.device = d, !.arg = call[2],
                             !.start = now,
                             !.row = IF call[1] = "createSub" THEN Read(d) ELSE None]]
  /\ UNCHANGED <<devices, issued, owner, now>>

\* touchDevice, with a time read since the row was: it may be older than what
\* seen_at holds.  updateDevice reads the time again before its batch, and
\* createSubscription refuses a device its first read saw invalid.
TouchDevice(r) ==
  /\ req[r].stage = "touch"
  /\ LET d == req[r].device IN
     \E time \in req[r].start..now :
       devices' = IF Exists(d) THEN [devices EXCEPT ![d].seenAt = time] ELSE devices
  /\ IF req[r].op = "createSub"
     THEN IF req[r].row.invalidatedAt # Never THEN Answer(r, 409)
          ELSE req' = [req EXCEPT ![r].stage = "count", ![r].start = 0]
     ELSE req' = [req EXCEPT ![r].stage = "commit",
                             ![r].start = IF req[r].op = "update" THEN now ELSE 0]
  /\ UNCHANGED <<issued, owner, now>>

\* updateDeviceToken: supersede the token's other holder, then write the row
\* if there still is one, in one transaction.  Its time was read before the
\* transaction began.
UpdateDeviceToken(r) ==
  /\ At(r, "update", "commit")
  /\ \E time \in req[r].start..now :
       LET d == req[r].device
           moved == Supersede(req[r].arg, d, time) IN
       devices' = IF Exists(d)
                  THEN [moved EXCEPT ![d].token = req[r].arg,
                                     ![d].invalidatedAt = Never, ![d].seenAt = time]
                  ELSE moved
  /\ Goto(r, "prune")
  /\ UNCHANGED <<issued, owner, now>>

\* pruneInvalidRowsForToken: keep the newest KeepInvalid invalid rows of the
\* token.  Rows invalidated at the same time are ordered by creation and
\* rowid in the code and arbitrarily here.
Prune(r) ==
  /\ req[r].stage = "prune"
  /\ \E kept \in SUBSET InvalidRows(req[r].arg) :
       LET old == InvalidRows(req[r].arg) \ kept IN
       /\ Cardinality(kept) <= KeepInvalid
       /\ old # {} => Cardinality(kept) = KeepInvalid
       /\ \A d \in kept, e \in old :
            devices[d].invalidatedAt >= devices[e].invalidatedAt
       /\ Without(old)
  /\ Answer(r, IF req[r].op = "register" THEN 201 ELSE 204)
  /\ UNCHANGED <<issued, now>>

DeleteDevice(r) ==
  /\ At(r, "deleteDevice", "commit")
  /\ Without({req[r].device})
  /\ Answer(r, 204)
  /\ UNCHANGED <<issued, now>>

\* Mutant: one too many.
OverFull(d) == Cardinality(HeldBy(d)) > SubscriptionLimit

Full(d) == Cardinality(HeldBy(d)) >= SubscriptionLimit

CountSubscriptions(r) ==
  /\ req[r].stage = "count"
  /\ IF Full(req[r].device)
     THEN Answer(r, 409)
     ELSE Goto(r, "insert")
  /\ UNCHANGED <<devices, issued, owner, now>>

\* The insert fails (500) when the device row is gone: D1 enforces the
\* foreign key.
CreateSubscription(r) ==
  /\ req[r].stage = "insert"
  /\ IF Exists(req[r].device)
     THEN \E s \in Subscription \ issued :
            /\ owner' = [owner EXCEPT ![s] = req[r].device]
            /\ issued' = issued \cup {s}
            /\ Answer(r, 201)
     ELSE Answer(r, 500) /\ UNCHANGED <<owner, issued>>
  /\ UNCHANGED <<devices, now>>

DeleteSubscription(r) ==
  /\ At(r, "deleteSub", "commit")
  /\ IF owner[req[r].arg] = req[r].device
     THEN owner' = [owner EXCEPT ![req[r].arg] = None] /\ Answer(r, 204)
     ELSE Answer(r, 404) /\ UNCHANGED owner
  /\ UNCHANGED <<devices, issued, now>>

-----------------------------------------------------------------------------
(* The push resource *)

\* findByEndpoint: 404 for an unknown endpoint, else the handler keeps the
\* device row it read.
FindEndpoint(r) ==
  /\ Free(r)
  /\ \E s \in Subscription \cap issued :
       LET d == owner[s] IN
       IF d = None THEN Answer(r, 404)
       ELSE req' = [req EXCEPT ![r] =
              [Idle EXCEPT !.op = "push", !.stage = "found", !.device = d,
                           !.row = Read(d)]]
  /\ UNCHANGED <<devices, issued, owner, now>>

\* The handler reads the time, verifies VAPID and refuses (410) a row that
\* was invalid when it was read.
Verify(r) ==
  /\ req[r].stage = "found"
  /\ IF req[r].row.invalidatedAt # Never
     THEN Answer(r, 410)
     ELSE req' = [req EXCEPT ![r].stage = "send", ![r].start = now]
  /\ UNCHANGED <<devices, issued, owner, now>>

Guarded(r, evidence) ==
  evidence = "rejected" /\ req[r].row.deliveredAt # Never

\* The platform answers the send for row.token: accepted, the token expired
\* or rejected, or a failure that touches nothing (429, 502, 503).  A guarded
\* rejection first asks the breaker; an open breaker answers 502.
PlatformAnswer(r) ==
  /\ req[r].stage = "send"
  /\ \/ Goto(r, "delivered")
     \/ \E evidence \in {"expired", "rejected"} :
          \/ Goto(r, "invalid")
          \/ Guarded(r, evidence) /\ Answer(r, 502)
     \/ \E status \in {429, 502, 503} : Answer(r, status)
  /\ UNCHANGED <<devices, issued, owner, now>>

\* Mutant: seen_at is overwritten without MAX.
Last(seen, time) == time

Later(seen, time) == IF seen >= time THEN seen ELSE time

\* recordDelivery, at most once a day by the row the handler read.
RecordDelivery(r) ==
  /\ req[r].stage = "delivered"
  /\ LET d == req[r].device
         last == req[r].row.deliveredAt
         time == req[r].start
         due == last = Never \/ time - last >= Day IN
     devices' = IF due /\ Exists(d)
                THEN [devices EXCEPT ![d].deliveredAt = time,
                        ![d].seenAt = Later(@, time)]
                ELSE devices
  /\ Answer(r, 201)
  /\ UNCHANGED <<issued, owner, now>>

\* Mutant: WHERE device_id = ? AND invalidated_at IS NULL, without the token.
StillActive(r) == Active(req[r].device)

StillHolds(r) == /\ Active(req[r].device)
                 /\ devices[req[r].device].token = req[r].row.token

\* invalidateDevice: only an active row that still holds the rejected token.
InvalidateDevice(r) ==
  /\ req[r].stage = "invalid"
  /\ IF StillHolds(r)
     THEN /\ devices' = [devices EXCEPT ![req[r].device].invalidatedAt = req[r].start]
          /\ Answer(r, 410)
     ELSE Goto(r, "recheck") /\ UNCHANGED devices
  /\ UNCHANGED <<issued, owner, now>>

\* Mutant: an update that changed no row is taken for an invalid row.
RecheckNothing(r) ==
  /\ req[r].stage = "recheck"
  /\ Answer(r, 410)
  /\ UNCHANGED <<devices, issued, owner, now>>

\* Nothing changed: gone only if the row is invalid with the same token.
RecheckDevice(r) ==
  /\ req[r].stage = "recheck"
  /\ LET d == req[r].device IN
     IF Invalid(d) /\ devices[d].token = req[r].row.token
     THEN Answer(r, 410)
     ELSE Answer(r, 503)
  /\ UNCHANGED <<devices, issued, owner, now>>

-----------------------------------------------------------------------------
(* The scheduled purge, failures and time *)

Expired(d, time) ==
  /\ Exists(d)
  /\ \/ Invalid(d) /\ devices[d].invalidatedAt < time - InvalidRetention
     \/ devices[d].seenAt < time - InactiveAfter

\* scheduled reads the time before its batch runs.
Purge == /\ \E time \in 0..now : Without({d \in Device : Expired(d, time)})
         /\ UNCHANGED <<issued, req, now>>

\* A D1 or network call throws: createRelay's fetch answers 500 and whatever
\* the handler had already committed stays.
Fail(r) == /\ ~Free(r)
           /\ Answer(r, 500)
           /\ UNCHANGED <<devices, issued, owner, now>>

Tick == /\ now < MaxNow
        /\ now' = now + 1
        /\ UNCHANGED <<devices, issued, owner, req>>

Handler(r) ==
  \/ RegisterStart(r)       \/ CreateDevice(r)       \/ Authenticate(r)
  \/ TouchDevice(r)         \/ UpdateDeviceToken(r)  \/ Prune(r)
  \/ DeleteDevice(r)        \/ CountSubscriptions(r) \/ CreateSubscription(r)
  \/ DeleteSubscription(r)  \/ FindEndpoint(r)       \/ Verify(r)
  \/ PlatformAnswer(r)      \/ RecordDelivery(r)     \/ InvalidateDevice(r)
  \/ RecheckDevice(r)       \/ Fail(r)

\* The history variables follow every step: they record and never constrain.
\* A push sees its device invalid or gone before the step or after it.
Gone(rows, d) == rows[d] = None \/ rows[d].invalidatedAt # Never

LatestDelivery(d) ==
  LET later == {r \in Request : /\ req[r].stage = "delivered" /\ req'[r].status = 201
                                /\ req[r].device = d
                                /\ req[r].start > lastDelivery[d]}
  IN IF later = {} THEN lastDelivery[d] ELSE req[CHOOSE r \in later : TRUE].start

\* A touch or a move that writes seen_at back writes a time this much old.
SetBack(d) ==
  /\ Exists(d) /\ devices'[d] # None /\ devices'[d].seenAt < devices[d].seenAt
  /\ \E r \in Request : /\ req[r].stage \in {"touch", "commit"}
                         /\ req[r].device = d /\ req'[r] # req[r]

LongestLag(d) ==
  IF SetBack(d) /\ now - devices'[d].seenAt > lag[d]
  THEN now - devices'[d].seenAt ELSE lag[d]

History ==
  /\ sawInvalid' = [r \in Request |->
       IF req[r].op = "push"
       THEN sawInvalid[r] \/ Gone(devices', req[r].device)
       ELSE IF req'[r].op = "push" THEN Gone(devices', req'[r].device)
       ELSE sawInvalid[r]]
  /\ lastDelivery' = [d \in Device |-> LatestDelivery(d)]
  /\ lag' = [d \in Device |-> LongestLag(d)]

Init == /\ devices = [d \in Device |-> None]
        /\ issued = {}
        /\ owner = [s \in Subscription |-> None]
        /\ req = [r \in Request |-> Idle]
        /\ now = 0
        /\ sawInvalid = [r \in Request |-> FALSE]
        /\ lastDelivery = [d \in Device |-> Never]
        /\ lag = [d \in Device |-> 0]

Next == /\ (\E r \in Request : Handler(r)) \/ Purge \/ Tick
        /\ History

Spec == Init /\ [][Next]_vars

-----------------------------------------------------------------------------
(* Properties *)

TablesOK == /\ devices \in [Device -> Row \cup {None}]
            /\ issued \subseteq Device \cup Subscription
            /\ owner \in [Subscription -> Device \cup {None}]
            /\ now \in Time
            /\ \A s \in Subscription : owner[s] # None => Exists(owner[s])

\* The fields a stage uses hold what the await before it left there.
StageFits(q) ==
  /\ q.op \in {"register", "update"} => q.arg \in Token
  /\ q.op = "deleteSub" => q.arg \in Subscription
  /\ q.op \notin {"none", "register"} => q.device \in Device
  /\ q.op \in {"createSub", "push"} => q.row \in Snapshot
  /\ q.stage \in {"commit", "prune"} => q.op \notin {"none", "push"}
  /\ q.stage = "prune" => q.op \in {"register", "update"}
  /\ q.stage = "touch" => q.op \notin {"none", "register", "push"}
  /\ q.stage \in {"count", "insert"} => q.op = "createSub"
  /\ q.stage \in {"found", "send", "delivered", "invalid", "recheck"} => q.op = "push"

HandlersOK == /\ req \in [Request -> RequestRecord]
              /\ \A r \in Request : StageFits(req[r])

HistoryOK == /\ sawInvalid \in [Request -> BOOLEAN]
             /\ lastDelivery \in [Device -> Time \cup {Never}]
             /\ lag \in [Device -> Time]

\* Every variable has its type, a subscription's device has a row (the
\* foreign key of migrations/0001_initial.sql), and a handler at a stage (devices.ts,
\* push.ts) holds the row, the id and the argument that stage uses.
TypeOK == TablesOK /\ HandlersOK /\ HistoryOK

\* relay/README.md, "One active device per token": however registrations,
\* token moves, deletions and purges interleave, two active rows never hold
\* the same token.  The model has no unique index: the SUPERSEDE statements
\* alone keep it, so the index never turns a request into a 500.
OneActivePerToken ==
  \A d, e \in Device :
    Active(d) /\ Active(e) /\ devices[d].token = devices[e].token => d = e

\* An application server deletes a subscription that answers 404 or 410, so
\* a push answers 410 only if its device was invalid or deleted at some
\* moment while the push ran; a token replaced in flight is never 410.
GoneIsTrue ==
  \A r \in Request : req[r].status = 410 => sawInvalid[r]

\* store.ts, invalidateDevice and SUPERSEDE: an active row becomes invalid
\* only in a step of a push whose own token, the one the platform refused,
\* the row still holds, or of a request that moves this token to another row.
InvalidationHasCause ==
  [][\A d \in Device : Active(d) /\ devices'[d] # None
        /\ devices'[d].invalidatedAt # Never =>
       \E r \in Request :
         /\ req'[r] # req[r]
         /\ \/ /\ req[r].stage = "invalid"
               /\ req[r].device = d /\ req[r].row.token = devices[d].token
            \/ /\ req[r].stage = "commit" /\ req'[r].stage = "prune"
               /\ req'[r].device # d /\ req[r].arg = devices[d].token]_vars

\* push.ts and recordDelivery: deliveries are written at most daily, and a
\* slow push may write an old time after a newer one; touchDevice and
\* updateDeviceToken overwrite seen_at with a time they read before an await.
\* Still a row's seen_at, which the purge reads, is behind an answered delivery
\* by less than a Day plus the age of the oldest time that set it back.
DeliveryKeepsSeen ==
  \A d \in Device : Exists(d) => lastDelivery[d] - devices[d].seenAt < Day + lag[d]

\* A device holds at most SubscriptionLimit subscriptions, and one more for
\* each other handler that counted before this one inserted.
SubscriptionOvershoot ==
  \A d \in Device :
    Cardinality(HeldBy(d)) <= SubscriptionLimit - 1 + Cardinality(Request)

-----------------------------------------------------------------------------
(* What the tables promise: a register of who holds each token *)

Holds == {<<d, devices[d].token>> : d \in {e \in Device : Active(e)}}

Registry == INSTANCE TokenRegistry WITH holds <- Holds

\* The rows implement TokenRegistry: every handler step hands one token to
\* one device, which gives up the token it had, or only makes holders lose
\* theirs, or changes no holder.
ImplementsRegistry == Registry!Spec
=============================================================================
