---------------------------- MODULE PushManager ----------------------------
(***************************************************************************)
(* The phone's notification switch (src/push-manager.ts): it keeps the     *)
(* relay device, one relay subscription, one native key pair and one       *)
(* instance pusher per account in step, over calls that may fail or whose  *)
(* answer may be lost.                                                     *)
(*                                                                         *)
(* Operations run one at a time (`serial`), so there is a single `job`;    *)
(* between two of its awaits the relay, the instances, the platform and    *)
(* the person act, and the app may be killed.  Each relay or instance      *)
(* call is one step here: PushRelay models what happens inside the relay.  *)
(*                                                                         *)
(* Abstracted: secrets, endpoints and labels; the phone's one relay origin *)
(* and platform; a check or enable that fails before its first change      *)
(* (no session, no configuration, no permission, no token).                *)
(***************************************************************************)
EXTENDS Integers, Sequences, FiniteSets, SequencesExt

CONSTANTS Account,      \* (instance, account) identities signed in on the phone
          None,         \* no record, no subscription
          KeepPending,  \* MAX_PENDING_REMOVALS
          MaxDevices,   \* bound: device ids the relay issues
          MaxSubs,      \* bound: subscription ids the relay issues
          MaxTokens,    \* bound: tokens the platform issues
          MaxKeys,      \* bound: VAPID keys an instance has in turn
          MaxEvents     \* bound: user operations, faults and outside changes

VARIABLES
  \* the relay
  rows,        \* devices table: device -> state and token
  home,        \* subscriptions table: subscription -> its device, or 0
  \* the platform and the instances
  token,       \* the token the platform delivers to
  keys,        \* each account's instance key (web_push_public_key)
  pushers,     \* each account's pushers, by subscription
  \* the phone
  saved,       \* accounts with a credential slot
  leaving,     \* accounts whose sign-out cleanup waits for its turn
  closing,     \* accounts whose slot is about to be deleted
  device,      \* RELAY_DEVICE_STORAGE_KEY
  records,     \* PushState.instances
  pending,     \* PushState.pendingRemovals
  prompted,    \* PushState.prompted: accounts asked once, or turned on
  touched,     \* deviceTouchedAt is less than seven days old
  native,      \* the native plugin's key pairs
  job,         \* the operation that runs
  \* history and bounds
  signed,      \* the key each subscription accepts pushes of
  made,        \* relay: number of subscription ids issued
  registered,  \* relay: number of device ids issued
  recorded,    \* subscriptions that have been a record
  forgotten,   \* what a failed read or a full list made the phone forget
  byPerson,    \* subscriptions whose pusher the person removed
  events       \* user operations, faults and outside changes so far

relay  == <<rows, home, signed, made, registered>>
world  == <<token, keys>>
people == <<saved, leaving, closing>>
phone  == <<device, records, pending, prompted, touched, native>>
past   == <<recorded, forgotten, byPerson>>
vars   == <<relay, world, pushers, people, phone, job, past, events>>

-----------------------------------------------------------------------------
(* Values *)

Device == 1..MaxDevices
Sub    == 1..MaxSubs
Record == [sub : Sub, key : 1..MaxKeys, stale : BOOLEAN]

ASSUME ManagerAssumption ==
  /\ {KeepPending, MaxDevices, MaxSubs, MaxEvents} \subseteq Nat
  /\ {MaxTokens, MaxKeys} \subseteq Nat \ {0}
  /\ None \notin Record

Ops    == {"none", "enable", "disable", "check", "reconcile", "refresh", "signout"}
Stages == {"idle", "probe", "put", "register", "mark", "create", "keys", "pusher",
           "unkeys", "undo", "commit", "rmPusher", "rmRelay", "rmKeys", "rmState",
           "gone", "orphans", "orphanRelay", "retry"}

\* One operation's locals: its account, the record it found, the one it makes,
\* the key and token it read; retried and renews say where it is in subscribe;
\* gone are the records of accounts that are gone, and unread says that the
\* read it goes by, of its record or of the pending removals, failed.
Job == [op : Ops, at : Stages, a : Account \cup {None}, rec : Record \cup {None},
        next : Record \cup {None}, key : 0..MaxKeys, tok : 0..MaxTokens,
        retried : BOOLEAN, renews : BOOLEAN, missing : BOOLEAN, session : BOOLEAN,
        pend : BOOLEAN, calm : BOOLEAN, unread : BOOLEAN, gone : SUBSET Record,
        queue : Seq(Sub), left : Seq(Sub)]

Idle == [op |-> "none", at |-> "idle", a |-> None, rec |-> None, next |-> None,
         key |-> 0, tok |-> 0, retried |-> FALSE, renews |-> FALSE,
         missing |-> FALSE, session |-> FALSE, pend |-> FALSE, calm |-> TRUE,
         unread |-> FALSE, gone |-> {}, queue |-> <<>>, left |-> <<>>]

NoRow == [state |-> "none", token |-> 0]
NoDevice == [id |-> 0, token |-> 0]

Recorded == {records[a].sub : a \in {b \in Account : records[b] # None}}

Fault == events < MaxEvents /\ events' = events + 1
Sure  == UNCHANGED events

At(stage) == job.at = stage
Goto(stage) == job' = [job EXCEPT !.at = stage]
End == job' = Idle

-----------------------------------------------------------------------------
(* The relay, as one call sees it *)

Row    == IF device.id = 0 THEN NoRow ELSE rows[device.id]
Known  == Row.state # "none"

\* A row takes a token; an active row that held it is superseded.
Settled(d, t) ==
  [e \in Device |->
     IF e = d THEN [state |-> "active", token |-> t]
     ELSE IF rows[e] = [state |-> "active", token |-> t]
          THEN [rows[e] EXCEPT !.state = "invalid"]
          ELSE rows[e]]

\* The device's subscription is gone after a DELETE, whatever the answer.
Removed(s) == IF home[s] = device.id /\ Known THEN [home EXCEPT ![s] = 0] ELSE home

-----------------------------------------------------------------------------
Init ==
  /\ rows = [d \in Device |-> NoRow] /\ home = [s \in Sub |-> 0]
  /\ signed = [s \in Sub |-> 0] /\ made = 0 /\ registered = 0
  /\ token = 1 /\ keys = [a \in Account |-> 1]
  /\ pushers = [a \in Account |-> {}]
  /\ saved = Account /\ leaving = {} /\ closing = {}
  /\ device = NoDevice /\ records = [a \in Account |-> None]
  /\ pending = <<>> /\ prompted = {} /\ touched = FALSE /\ native = {}
  /\ job = Idle
  /\ recorded = {} /\ forgotten = {} /\ byPerson = {} /\ events = 0

-----------------------------------------------------------------------------
(* Where an operation goes next *)

\* ensureDevice's first look: what it has to ask the relay, if anything.
Ensured(j) == [j EXCEPT !.at = CASE device.id = 0 -> "register"
                                 [] device.token = j.tok /\ touched ->
                                      IF j.renews THEN "create" ELSE "idle"
                                 [] OTHER -> "put"]

\* subscribe: its device first, with the token read now.
Subscribing(j) == Ensured([j EXCEPT !.renews = TRUE, !.tok = token])

\* removeSubscription: the pusher only with a session.
Removing(j, r, session) ==
  [j EXCEPT !.at = IF session THEN "rmPusher" ELSE "rmRelay",
            !.rec = r, !.session = session, !.pend = FALSE]

\* A job whose stage is "idle" is over.
Run(j) == job' = IF j.at = "idle" THEN Idle ELSE j

\* The device is ensured: subscribe goes on, the others are done.
DeviceReady == Run([job EXCEPT !.at = IF job.renews THEN "create" ELSE "idle"])

\* What a check whose pusher is in place renews for.
RenewalDueByKey(r, a) == r.stale \/ keys[a] # r.key
RenewalDue(r, a) == r.stale \/ r.sub \notin native \/ keys[a] # r.key

-----------------------------------------------------------------------------
(* Operations begin *)

Begin(op, a) == [Idle EXCEPT !.op = op, !.a = a]

\* The switch, or the answer to the one-time question, which costs no event.
\* Where its read of the state fails, it knows of no record to replace.
Enable(a) ==
  /\ At("idle") /\ a \in saved \ leaving
  /\ \/ /\ IF a \in prompted THEN Fault ELSE Sure
        /\ Run(Subscribing([Begin("enable", a) EXCEPT !.key = keys[a], !.rec = records[a]]))
     \/ /\ records[a] # None /\ Fault
        /\ Run(Subscribing([Begin("enable", a) EXCEPT !.key = keys[a], !.unread = TRUE]))
  /\ UNCHANGED <<relay, world, pushers, people, phone, past>>

\* The person declines the one-time question; it is asked of an account whose
\* notifications are on only where a read of the state failed.  Either is an event.
MarkPrompted(a) ==
  /\ At("idle") /\ a \in saved \ prompted /\ Fault
  /\ prompted' = prompted \cup {a}
  /\ UNCHANGED <<relay, world, pushers, people, device, records, pending, touched, native, job, past>>

Disable(a) ==
  /\ At("idle") /\ a \in saved \ leaving /\ records[a] # None /\ Fault
  /\ Run(Removing(Begin("disable", a), records[a], TRUE))
  /\ UNCHANGED <<relay, world, pushers, people, phone, past>>

\* A missing pusher is looked into before anything else.
Check(a) ==
  /\ At("idle") /\ a \in saved \ leaving /\ records[a] # None /\ Sure
  /\ LET r == records[a]
         missing == ~r.stale /\ r.sub \notin pushers[a]
         j == [Begin("check", a) EXCEPT !.key = keys[a], !.rec = r, !.missing = missing]
     IN  Run(IF missing
               THEN IF device.id = 0 THEN Subscribing(j)
                    ELSE [j EXCEPT !.at = "probe", !.tok = token]
             ELSE IF RenewalDue(r, a) THEN Subscribing(j)
             ELSE Ensured([j EXCEPT !.tok = token]))
  /\ UNCHANGED <<relay, world, pushers, people, phone, past>>

Refresh ==
  /\ At("idle") /\ device.id # 0 /\ Recorded # {} /\ Sure
  /\ Run(Ensured([Begin("refresh", None) EXCEPT !.tok = token]))
  /\ UNCHANGED <<relay, world, pushers, people, phone, past>>

\* accountRemoving, with the session as it was stored: the slot may go first.
\* Where its read of the state fails, there is nothing to remove.
AccountRemoving(a) ==
  /\ At("idle") /\ a \in leaving
  /\ leaving' = leaving \ {a}
  /\ \/ /\ Sure
        /\ IF records[a] = None THEN job' = job
           ELSE Run(Removing(Begin("signout", a), records[a], TRUE))
     \/ records[a] # None /\ Fault /\ job' = job
  /\ UNCHANGED <<relay, world, pushers, saved, closing, phone, past>>

Reconcile ==
  /\ At("idle")
  /\ \/ /\ Sure
        /\ Run([Begin("reconcile", None) EXCEPT !.at = "gone",
                  !.gone = {records[a] : a \in Account \ saved} \ {None}])
     \/ Fault /\ Run([Begin("reconcile", None) EXCEPT !.at = "gone", !.calm = FALSE])
  /\ UNCHANGED <<relay, world, pushers, people, phone, past>>

-----------------------------------------------------------------------------
(* The relay device *)

\* PUT /v1/devices/{id}: 204 and the saves, 401 for an unknown device, or an
\* error, whether or not the relay took the token.
PutDevice ==
  /\ At("put")
  /\ \/ /\ Known /\ Sure
        /\ rows' = Settled(device.id, job.tok)
        /\ device' = [device EXCEPT !.token = job.tok]
        /\ touched' = (touched \/ ~job.retried)
        /\ DeviceReady
     \/ /\ ~Known /\ Sure
        /\ IF job.retried THEN End ELSE Goto("register")
        /\ UNCHANGED <<rows, device, touched>>
     \/ /\ Fault /\ End
        /\ \/ UNCHANGED rows
           \/ Known /\ rows' = Settled(device.id, job.tok)
        /\ UNCHANGED <<device, touched>>
  /\ UNCHANGED <<home, signed, made, registered, world, pushers, people, records, pending, native, prompted, past>>

\* A probe without an answer is "unknown": the check changes nothing.
ProbeForgets == Run(Subscribing(job))
ProbeFailed == End

\* probeDevice: the same PUT, asked to learn why the pusher is gone.
Probe ==
  /\ At("probe")
  /\ \/ /\ Known /\ Sure
        /\ rows' = Settled(device.id, job.tok)
        /\ device' = [device EXCEPT !.token = job.tok] /\ touched' = TRUE
        /\ Run(Removing(job, job.rec, FALSE))
     \/ /\ ~Known /\ Sure
        /\ Run(Subscribing(job))
        /\ UNCHANGED <<rows, device, touched>>
     \/ /\ Fault /\ ProbeFailed
        /\ \/ UNCHANGED rows
           \/ Known /\ rows' = Settled(device.id, job.tok)
        /\ UNCHANGED <<device, touched>>
  /\ UNCHANGED <<home, signed, made, registered, world, pushers, people, records, pending, native, prompted, past>>

\* POST /v1/devices and the save of the new secret.
RegisterDevice ==
  /\ At("register") /\ registered < MaxDevices
  /\ \/ /\ Sure /\ device' = [id |-> registered + 1, token |-> job.tok] /\ Goto("mark")
     \/ Fault /\ End /\ UNCHANGED device
  /\ registered' = registered + 1
  /\ rows' = Settled(registered + 1, job.tok)
  /\ UNCHANGED <<home, signed, made, world, pushers, people, records, pending, touched, native, prompted, past>>

RegisterFails ==
  /\ At("register") /\ Fault /\ End
  /\ UNCHANGED <<relay, world, pushers, people, phone, past>>

\* Every record's subscription was on the old device.
MarkStale ==
  /\ At("mark") /\ Sure
  /\ records' = [a \in Account |-> IF records[a] = None THEN None
                                   ELSE [records[a] EXCEPT !.stale = TRUE]]
  /\ pending' = <<>> /\ touched' = TRUE
  /\ DeviceReady
  /\ UNCHANGED <<relay, world, pushers, people, device, native, prompted, past>>

-----------------------------------------------------------------------------
(* subscribe *)

Created ==
  /\ home' = [home EXCEPT ![made + 1] = device.id]
  /\ signed' = [signed EXCEPT ![made + 1] = job.key]
  /\ made' = made + 1

\* POST subscriptions: created, 401, 409 device_token_invalid, or an error.
CreateSubscription ==
  /\ At("create")
  /\ \/ /\ Row.state = "active" /\ made < MaxSubs /\ Sure /\ Created
        /\ job' = [job EXCEPT !.at = "keys",
                     !.next = [sub |-> made + 1, key |-> job.key, stale |-> FALSE]]
     \/ /\ Row.state # "active" /\ Sure /\ UNCHANGED <<home, signed, made>>
        /\ IF job.retried THEN End
           ELSE job' = [job EXCEPT !.retried = TRUE, !.at = IF Known THEN "put" ELSE "register"]
     \/ /\ Fault /\ End
        /\ \/ UNCHANGED <<home, signed, made>>
           \/ Row.state = "active" /\ made < MaxSubs /\ Created
  /\ UNCHANGED <<rows, registered, world, pushers, people, phone, past>>

CreateKeys ==
  /\ At("keys")
  /\ \/ Sure /\ native' = native \cup {job.next.sub} /\ Goto("pusher")
     \/ Fault /\ UNCHANGED native /\ Goto("undo")
  /\ UNCHANGED <<relay, world, pushers, people, device, records, pending, touched, prompted, past>>

\* POST notification-pushers; then the old subscription goes, if there is one.
RegisterPusher ==
  /\ At("pusher")
  /\ LET with == [pushers EXCEPT ![job.a] = @ \cup {job.next.sub}]
     IN  \/ /\ Sure /\ pushers' = with
            /\ IF job.rec = None THEN Goto("commit") ELSE Run(Removing(job, job.rec, TRUE))
         \/ Fault /\ pushers' \in {pushers, with} /\ Goto("unkeys")
  /\ UNCHANGED <<relay, world, people, phone, past>>

\* The failed registration's keys and relay subscription, each best effort.
UndoKeys ==
  /\ At("unkeys") /\ Goto("undo")
  /\ \/ Sure /\ native' = native \ {job.next.sub}
     \/ Fault /\ UNCHANGED native
  /\ UNCHANGED <<relay, world, pushers, people, device, records, pending, touched, prompted, past>>

UndoRelay ==
  /\ At("undo") /\ End
  /\ \/ Sure /\ home' = Removed(job.next.sub)
     \/ Fault /\ UNCHANGED home
  /\ UNCHANGED <<rows, signed, made, registered, world, pushers, people, phone, past>>

\* The account's record is replaced, also one that was not read.
Commit ==
  /\ At("commit") /\ Sure /\ End
  /\ records' = [records EXCEPT ![job.a] = job.next]
  /\ recorded' = recorded \cup {job.next.sub}
  /\ forgotten' = IF job.unread /\ records[job.a] # None
                    THEN forgotten \cup {records[job.a].sub} ELSE forgotten
  /\ prompted' = IF job.op = "enable" THEN prompted \cup {job.a} ELSE prompted
  /\ UNCHANGED <<relay, world, pushers, people, device, pending, touched, native, byPerson>>

-----------------------------------------------------------------------------
(* removeSubscription: pusher, relay subscription, keys, then the state *)

RemovePusher ==
  /\ At("rmPusher") /\ Goto("rmRelay")
  /\ \/ Sure /\ pushers' = [pushers EXCEPT ![job.a] = @ \ {job.rec.sub}]
     \/ Fault /\ UNCHANGED pushers
  /\ UNCHANGED <<relay, world, people, phone, past>>

\* 204, 404 and 401 leave nothing to do later; any other error does.
UnreachedForgotten == [job EXCEPT !.at = "rmKeys", !.calm = FALSE]
Unreached == [job EXCEPT !.at = "rmKeys", !.pend = TRUE, !.calm = FALSE]

RemoveRelay ==
  /\ At("rmRelay")
  /\ \/ /\ Sure /\ Goto("rmKeys")
        /\ home' = IF job.rec.stale \/ device.id = 0 THEN home ELSE Removed(job.rec.sub)
     \/ /\ ~job.rec.stale /\ device.id # 0 /\ Fault
        /\ home' \in {home, Removed(job.rec.sub)}
        /\ job' = Unreached
  /\ UNCHANGED <<rows, signed, made, registered, world, pushers, people, phone, past>>

RemoveKeys ==
  /\ At("rmKeys")
  /\ \/ Sure /\ native' = native \ {job.rec.sub} /\ Goto("rmState")
     \/ Fault /\ UNCHANGED native /\ job' = [job EXCEPT !.at = "rmState", !.calm = FALSE]
  /\ UNCHANGED <<relay, world, pushers, people, device, records, pending, touched, prompted, past>>

\* The newest removals are kept when there are too many.
Kept(queue) == SubSeq(queue, 1 + Max({0, Len(queue) - KeepPending}), Len(queue))
Oldest(queue) == SubSeq(queue, 1, Max({0, Len(queue) - KeepPending}))

RemoveState ==
  /\ At("rmState") /\ Sure
  /\ records' = [a \in Account |-> IF records[a] # None /\ records[a].sub = job.rec.sub
                                     THEN None ELSE records[a]]
  /\ LET queue == Append(pending, job.rec.sub)
     IN  /\ pending' = IF job.pend THEN Kept(queue) ELSE pending
         /\ forgotten' = IF job.pend THEN forgotten \cup ToSet(Oldest(queue)) ELSE forgotten
  /\ Run([job EXCEPT !.at = CASE job.op = "reconcile" -> "gone"
                              [] job.next # None -> "commit"
                              [] OTHER -> "idle"])
  /\ UNCHANGED <<relay, world, pushers, people, device, touched, native, prompted, recorded, byPerson>>

-----------------------------------------------------------------------------
(* reconcile, once per launch *)

\* Records of accounts that are gone, then the keys nothing refers to: none
\* where they cannot be listed, all of them where the state cannot be read.
DropGone ==
  /\ At("gone")
  /\ \/ /\ Sure
        /\ \E r \in job.gone :
             job' = [Removing(job, r, FALSE) EXCEPT !.gone = @ \ {r}]
     \/ /\ job.gone = {}
        /\ \/ Sure /\ job' = [job EXCEPT !.at = "orphans", !.rec = None,
                                !.queue = SetToSeq(native \ Recorded)]
           \/ Fault /\ \E keyed \in {{}, native} :
                job' = [job EXCEPT !.at = "orphans", !.rec = None,
                          !.queue = SetToSeq(keyed), !.calm = FALSE]
  /\ UNCHANGED <<relay, world, pushers, people, phone, past>>

DropOrphan ==
  /\ At("orphans") /\ job.queue # <<>>
  /\ LET next == [job EXCEPT !.at = IF device.id = 0 THEN "orphans" ELSE "orphanRelay",
                             !.queue = IF device.id = 0 THEN Tail(@) ELSE @]
     IN  \/ Sure /\ native' = native \ {Head(job.queue)} /\ job' = next
         \/ Fault /\ UNCHANGED native /\ job' = [next EXCEPT !.calm = FALSE]
  /\ UNCHANGED <<relay, world, pushers, people, device, records, pending, touched, prompted, past>>

DropOrphanRelay ==
  /\ At("orphanRelay")
  /\ LET next == [job EXCEPT !.at = "orphans", !.queue = Tail(@)]
     IN  \/ Sure /\ home' = Removed(Head(job.queue)) /\ job' = next
         \/ Fault /\ UNCHANGED home /\ job' = [next EXCEPT !.calm = FALSE]
  /\ UNCHANGED <<rows, signed, made, registered, world, pushers, people, phone, past>>

StartRetries ==
  /\ At("orphans") /\ job.queue = <<>>
  /\ \/ Sure /\ job' = [job EXCEPT !.at = "retry", !.queue = pending]
     \/ Fault /\ job' = [job EXCEPT !.at = "retry", !.unread = TRUE, !.calm = FALSE]
  /\ UNCHANGED <<relay, world, pushers, people, phone, past>>

\* A removal is done unless the relay could not be reached again.
Done(j) == [j EXCEPT !.queue = Tail(@)]
Again(j) == [j EXCEPT !.queue = Tail(@), !.left = Append(@, Head(j.queue)), !.calm = FALSE]

Retry ==
  /\ At("retry") /\ job.queue # <<>>
  /\ \/ /\ Sure /\ job' = Done(job)
        /\ home' = IF device.id = 0 THEN home ELSE Removed(Head(job.queue))
     \/ /\ device.id # 0 /\ Fault /\ job' = Again(job)
        /\ home' \in {home, Removed(Head(job.queue))}
  /\ UNCHANGED <<rows, signed, made, registered, world, pushers, people, phone, past>>

\* What stays in pendingRemovals.
LeftWithOld == pending
Left == job.left

\* It replaces the pending removals, also those that were not read.
WriteLeft ==
  /\ At("retry") /\ job.queue = <<>> /\ Sure /\ End
  /\ pending' = Left
  /\ forgotten' = IF job.unread THEN forgotten \cup ToSet(pending) ELSE forgotten
  /\ UNCHANGED <<relay, world, pushers, people, device, records, touched, native, prompted, recorded, byPerson>>

-----------------------------------------------------------------------------
(* The app and the person *)

\* The app is killed, or a write of the state fails and the operation throws.
Crash ==
  /\ (~At("idle") \/ leaving \cup closing # {}) /\ Fault /\ End
  /\ \/ leaving' = {} /\ closing' = {}
     \/ ~At("idle") /\ UNCHANGED <<leaving, closing>>
  /\ UNCHANGED <<relay, world, pushers, saved, phone, past>>

\* loadState takes a state it cannot read or parse for an empty one, and a change
\* of the state saves what it read.  So the state is lost with a failed read just
\* before a change, or once what is stored no longer parses.
StateUnread ==
  /\ Fault
  /\ records' = [a \in Account |-> None] /\ pending' = <<>>
  /\ prompted' = {} /\ touched' = FALSE
  /\ forgotten' = forgotten \cup Recorded \cup ToSet(pending)
  /\ job' = IF At("idle") THEN job ELSE [job EXCEPT !.calm = FALSE]
  /\ UNCHANGED <<relay, world, pushers, people, device, native, recorded, byPerson>>

\* loadDevice finds no device once what is stored no longer parses; it throws
\* where the secure store fails, as in Crash.
DeviceUnread ==
  /\ At("idle") /\ device # NoDevice /\ device' = NoDevice /\ Fault
  /\ UNCHANGED <<relay, world, pushers, people, records, pending, touched, native, prompted, job, past>>

\* Signing out queues the cleanup; the slot goes when it ends or after 4 s.
SignOut(a) ==
  /\ a \in saved \ (leaving \cup closing) /\ Fault
  /\ leaving' = leaving \cup {a} /\ closing' = closing \cup {a}
  /\ UNCHANGED <<relay, world, pushers, saved, phone, job, past>>

DropSlot(a) ==
  /\ a \in closing /\ Sure
  /\ closing' = closing \ {a} /\ saved' = saved \ {a}
  /\ UNCHANGED <<relay, world, pushers, leaving, phone, job, past>>

SignIn(a) ==
  /\ a \notin saved /\ Fault /\ saved' = saved \cup {a}
  /\ UNCHANGED <<relay, world, pushers, leaving, closing, phone, job, past>>

PersonRemoves(a) ==
  /\ \E s \in pushers[a] :
       /\ pushers' = [pushers EXCEPT ![a] = @ \ {s}]
       /\ byPerson' = byPerson \cup {s}
  /\ Fault
  /\ UNCHANGED <<relay, world, people, phone, job, recorded, forgotten>>

-----------------------------------------------------------------------------
(* The relay, the platform and the instances *)

\* Seven days pass (or the time of the last touch cannot be read), or the system
\* drops the plugin's keys.
TimePasses ==
  /\ touched /\ touched' = FALSE /\ Sure
  /\ UNCHANGED <<relay, world, pushers, people, device, records, pending, native, prompted, job, past>>

KeysLost ==
  /\ native # {} /\ native' = {} /\ Fault
  /\ UNCHANGED <<relay, world, pushers, people, device, records, pending, touched, prompted, job, past>>

PurgeRowsOnly ==
  /\ \E d \in Device : rows[d] # NoRow /\ rows' = [rows EXCEPT ![d] = NoRow]
  /\ Fault
  /\ UNCHANGED <<home, signed, made, registered, world, pushers, people, phone, job, past>>

\* The cron deletes a device idle or invalid for long, with its subscriptions.
Purge ==
  /\ \E d \in Device :
       /\ \/ rows[d].state = "invalid"
          \/ rows[d].state = "active" /\ ~(d = device.id /\ touched)
       /\ rows' = [rows EXCEPT ![d] = NoRow]
       /\ home' = [s \in Sub |-> IF home[s] = d THEN 0 ELSE home[s]]
  /\ Fault
  /\ UNCHANGED <<signed, made, registered, world, pushers, people, phone, job, past>>

TokenRotates ==
  /\ token < MaxTokens /\ token' = token + 1 /\ Fault
  /\ UNCHANGED <<relay, keys, pushers, people, phone, job, past>>

KeyRotates(a) ==
  /\ keys[a] < MaxKeys /\ keys' = [keys EXCEPT ![a] = @ + 1] /\ Fault
  /\ UNCHANGED <<relay, token, pushers, people, phone, job, past>>

\* An instance pushes to one of its pushers.  The relay answers 404 for no
\* subscription, refuses another key (no change here), and answers 410 for an
\* invalid device or a token the platform rejects; 404 and 410 drop the pusher.
Push(a) ==
  /\ \E s \in pushers[a] :
       /\ pushers' = [pushers EXCEPT ![a] = @ \ {s}]
       /\ \/ home[s] = 0 /\ UNCHANGED rows
          \/ /\ home[s] # 0 /\ signed[s] = keys[a]
             /\ rows[home[s]] # [state |-> "active", token |-> token]
             /\ rows' = [rows EXCEPT ![home[s]].state = "invalid"]
  /\ Sure
  /\ UNCHANGED <<home, signed, made, registered, world, people, phone, job, past>>

JobStep ==
  \/ PutDevice \/ Probe \/ RegisterDevice \/ RegisterFails \/ MarkStale
  \/ CreateSubscription \/ CreateKeys \/ RegisterPusher \/ UndoKeys \/ UndoRelay \/ Commit
  \/ RemovePusher \/ RemoveRelay \/ RemoveKeys \/ RemoveState
  \/ DropGone \/ DropOrphan \/ DropOrphanRelay \/ StartRetries \/ Retry \/ WriteLeft

Next ==
  \/ JobStep \/ Refresh \/ Reconcile \/ Crash \/ StateUnread \/ DeviceUnread
  \/ TimePasses \/ KeysLost \/ Purge \/ TokenRotates
  \/ \E a \in Account : \/ Enable(a) \/ MarkPrompted(a) \/ Disable(a) \/ Check(a) \/ AccountRemoving(a)
                        \/ SignOut(a) \/ DropSlot(a) \/ SignIn(a) \/ PersonRemoves(a)
                        \/ KeyRotates(a) \/ Push(a)

Spec == Init /\ [][Next]_vars

\* Awaited calls end and time passes; the person comes back to each account, or
\* its cleanup gets its turn, and launches the app again; the instances have
\* something to say.  The slot of an account that is left need not go.
FairSpec ==
  /\ Spec /\ WF_vars(JobStep) /\ WF_vars(TimePasses) /\ SF_vars(Reconcile)
  /\ \A a \in Account : SF_vars(Check(a) \/ AccountRemoving(a))
  /\ WF_vars(\E a \in Account : Push(a))

-----------------------------------------------------------------------------
(* Properties *)

\* Every variable has its type; no subscription is on a purged device, and an
\* operation that is over leaves no locals.
TypeOK ==
  /\ rows \in [Device -> [state : {"none", "active", "invalid"}, token : 0..MaxTokens]]
  /\ home \in [Sub -> 0..MaxDevices] /\ signed \in [Sub -> 0..MaxKeys]
  /\ \A s \in Sub : home[s] # 0 => rows[home[s]] # NoRow
  /\ made \in 0..MaxSubs /\ registered \in 0..MaxDevices
  /\ token \in 1..MaxTokens /\ keys \in [Account -> 1..MaxKeys]
  /\ pushers \in [Account -> SUBSET Sub]
  /\ saved \subseteq Account /\ leaving \subseteq Account /\ closing \subseteq saved
  /\ device \in [id : 0..MaxDevices, token : 0..MaxTokens]
  /\ records \in [Account -> Record \cup {None}]
  /\ pending \in Seq(Sub) /\ Len(pending) <= KeepPending
  /\ prompted \subseteq Account /\ touched \in BOOLEAN /\ native \subseteq Sub
  /\ job \in Job /\ (job.at = "idle" => job = Idle)
  /\ recorded \subseteq 1..made /\ forgotten \subseteq Sub
  /\ byPerson \subseteq 1..made /\ events \in 0..MaxEvents

\* A subscription that has been in use and is no longer recorded is gone from the
\* phone's relay device or waits in pendingRemovals, whatever failed or was lost
\* in between: "A relay that cannot be reached gets the deletion later".  It may
\* have been forgotten only by a change of the state that could not read it, or
\* as the oldest of more removals than the list keeps.
RemovalsRemembered ==
  \A s \in recorded \ (Recorded \cup forgotten) :
    device.id # 0 /\ home[s] = device.id => s \in ToSet(pending)

\* A check renews a subscription whose pusher is missing only when the relay no
\* longer has it on the phone's device: it "never quietly registers again" what
\* the person removed in the account settings.
AsksBeforeRenewing ==
  job.op = "check" /\ job.missing /\ job.renews =>
    device.id = 0 \/ home[job.rec.sub] # device.id

\* The check answers "removed", and drops the record, only for a pusher the
\* person removed: "A pusher gone from the instance while this device's relay
\* subscription stands means the person removed this device".
RemovedByPerson ==
  job.op = "check" /\ job.at \in {"rmRelay", "rmKeys", "rmState"} /\ ~job.session =>
    job.rec.sub \in byPerson

\* A reconcile whose calls and reads all succeed ends with keys of recorded
\* subscriptions only, nothing pending, and no abandoned subscription on the
\* phone's device but those forgotten before.
ReconcileCleans ==
  [][WriteLeft /\ job.calm =>
       /\ native' \subseteq Recorded' /\ pending' = <<>>
       /\ \A s \in recorded' \ (Recorded' \cup forgotten') : device'.id # 0 => home'[s] # device'.id]_vars

Delivers(a) ==
  LET r == records[a]
  IN  /\ r.sub \in pushers[a] \cap native
      /\ signed[r.sub] = keys[a]
      /\ home[r.sub] = device.id
      /\ Row = [state |-> "active", token |-> token]

\* Once failures and changes stop, every switch ends either off or with
\* deliverable notifications, and nothing is left behind on the phone: also where
\* the phone had forgotten what it had turned on.
Converges ==
  <>[](/\ \A a \in Account : records[a] = None \/ (a \in saved /\ Delivers(a))
       /\ native \subseteq Recorded /\ pending = <<>>)
=============================================================================
