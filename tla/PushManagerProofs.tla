------------------------- MODULE PushManagerProofs -------------------------
(***************************************************************************)
(* Theorems about PushManager for every number of accounts, devices,       *)
(* subscriptions, tokens and keys, and every number of faults.             *)
(***************************************************************************)
EXTENDS PushManager, SequenceTheorems, FiniteSetTheorems, TLAPS

Renewers == {"enable", "check"}
Removals == {"rmPusher", "rmRelay", "rmKeys", "rmState"}

\* The parts of the state, each with what its values mean to one another.
RelayOK ==
  /\ rows \in [Device -> [state : {"none", "active", "invalid"}, token : 0..MaxTokens]]
  /\ home \in [Sub -> 0..MaxDevices] /\ signed \in [Sub -> 0..MaxKeys]
  /\ made \in 0..MaxSubs /\ registered \in 0..MaxDevices
  /\ \A s \in Sub : /\ home[s] <= registered
                    /\ home[s] # 0 => rows[home[s]].state # "none"

DeviceOK == /\ device \in [id : 0..MaxDevices, token : 0..MaxTokens]
            /\ device.id <= registered

\* A record's subscription has been a record, and no two accounts share one.
RecordsOK ==
  /\ records \in [Account -> Record \cup {None}] /\ recorded \subseteq 1..made
  /\ forgotten \subseteq Sub
  /\ \A a \in Account : records[a] # None => records[a].sub \in recorded
  /\ \A a, b \in Account :
       records[a] # None /\ records[b] # None /\ a # b => records[a].sub # records[b].sub

PendingOK == pending \in Seq(Sub) /\ Len(pending) <= KeepPending

PushersOK == pushers \in [Account -> SUBSET (1..made)] /\ byPerson \subseteq 1..made

RestOK ==
  /\ token \in 1..MaxTokens /\ keys \in [Account -> 1..MaxKeys]
  /\ saved \subseteq Account /\ leaving \subseteq Account /\ closing \subseteq saved
  /\ prompted \subseteq Account /\ touched \in BOOLEAN /\ native \subseteq Sub
  /\ events \in 0..MaxEvents

\* What a job j holds at its stage.
Stepping(j) ==
  /\ j \in Job
  /\ j.op \in Renewers => j.a \in Account /\ j.key \in 1..MaxKeys
  /\ j.renews \/ j.next # None => j.op \in Renewers
  /\ j.at \in {"probe", "create", "keys", "pusher", "unkeys", "undo", "commit"}
       => j.op \in Renewers
  /\ j.at \in {"keys", "pusher", "unkeys", "undo", "commit"} => j.next # None
  /\ j.at \in Removals \cup {"probe"} => j.rec # None
  /\ j.at = "rmPusher" => j.a \in Account
  /\ j.op = "check" => j.rec # None
  /\ j.op # "reconcile" => j.gone = {}
  /\ j.at \in {"gone", "orphans", "orphanRelay", "retry"} => j.op = "reconcile"
  /\ j.at # "retry" => j.left = <<>>
  /\ j.at = "orphanRelay" => j.queue # <<>>

\* Its subscriptions: the one it found has been a record, the one it makes has not.
Naming(j) ==
  /\ j.rec # None => j.rec.sub \in recorded
  /\ j.next # None => j.next.sub \in (1..made) \ recorded /\ ~j.next.stale
  /\ \A r \in j.gone : r.sub \in recorded

\* The records it will replace, where it could read the state.
Replacing(j) ==
  /\ j.op \in Renewers =>
       IF j.rec = None THEN j.unread \/ records[j.a] = None
       ELSE records[j.a] # None => records[j.a].sub = j.rec.sub
  /\ j.at = "commit" => j.unread \/ records[j.a] = None

\* The removals it tries again fit the list.
Retries(j) == j.at = "retry" => Len(j.queue) + Len(j.left) <= KeepPending

Fits(j) == Stepping(j) /\ Naming(j) /\ Replacing(j) /\ Retries(j)

\* A job that is over holds nothing.
Over == job.at = "idle" => job = Idle

WInv == /\ RelayOK /\ DeviceOK /\ RecordsOK /\ PendingOK /\ PushersOK /\ RestOK
        /\ Fits(job) /\ Over

\* Subscription s is not on the phone's relay device.
Off(s) == device.id = 0 \/ home[s] # device.id

\* What is off the device stays off: a new device has no subscription, and
\* only new subscriptions are created.
Stays == \A s \in 1..made : Off(s) => Off(s)'

\* What a job j took over: a record it found stale is off the device, and it renews a
\* missing pusher's subscription only when that is off the device.
Holding(j) ==
  /\ j.rec # None /\ j.rec.stale => Off(j.rec.sub)
  /\ \A r \in j.gone : r.stale => Off(r.sub)
  /\ j.op = "check" /\ j.missing /\ j.renews => Off(j.rec.sub)

\* A stale record is one of an earlier device.
Stale == \A a \in Account : records[a] # None /\ records[a].stale => Off(records[a].sub)

\* A device that has just been registered has no subscription.
Marking == job.at = "mark" => \A s \in 1..made : Off(s)

\* After its relay call a removal is done, or will be tried later.
Reached == job.at \in {"rmKeys", "rmState"} => job.pend \/ Off(job.rec.sub)

\* While the removals that were read are tried again, each is done, still to come,
\* or left.
Retrying ==
  job.at = "retry" /\ ~job.unread =>
    \A s \in recorded \cap ToSet(pending) :
      Off(s) \/ s \in ToSet(job.queue) \cup ToSet(job.left)

\* What a reconcile without a failed call has left to do.
Cleaning ==
  job.calm =>
    /\ job.at = "orphans" => native \subseteq Recorded \cup ToSet(job.queue)
    /\ job.at = "orphanRelay" => native \subseteq Recorded \cup ToSet(Tail(job.queue))
    /\ job.at = "retry" => native \subseteq Recorded /\ job.left = <<>>

\* A removal that has not reached the relay yet is not pending.
Fresh(j) == j.at \in {"rmPusher", "rmRelay"} => ~j.pend

SInv == /\ Fresh(job) /\ Holding(job) /\ Stale /\ Marking /\ Reached /\ Retrying
        /\ RemovalsRemembered /\ Cleaning

-----------------------------------------------------------------------------
(* Lemmas about the parts *)

LEMMA WInvTyped == ASSUME WInv PROVE TypeOK
<1>1. \A s \in Sub : home[s] # 0 => rows[home[s]] # NoRow
  BY DEF WInv, RelayOK, NoRow
<1>2. /\ pushers \in [Account -> SUBSET Sub]
      /\ recorded \subseteq 1..made /\ byPerson \subseteq 1..made
  <2>1. 1..made \subseteq Sub
    BY ManagerAssumption DEF WInv, RelayOK, Sub
  <2> QED BY <2>1 DEF WInv, PushersOK, RecordsOK
<1>3. job \in Job /\ (job.at = "idle" => job = Idle)
  BY DEF WInv, Fits, Stepping, Over
<1> QED BY <1>1, <1>2, <1>3 DEF WInv, TypeOK, RelayOK, DeviceOK, RecordsOK, PendingOK, RestOK

\* A part that a step leaves alone.
LEMMA Frame ==
  ASSUME WInv
  PROVE  /\ UNCHANGED relay => RelayOK'
         /\ UNCHANGED <<device, registered>> => DeviceOK'
         /\ UNCHANGED <<records, recorded, forgotten, made>> => RecordsOK'
         /\ UNCHANGED pending => PendingOK'
         /\ UNCHANGED <<pushers, byPerson, made>> => PushersOK'
         /\ UNCHANGED <<home, device>> => Stays
<1>1. UNCHANGED relay => RelayOK'
  BY DEF WInv, RelayOK, relay
<1>2. UNCHANGED <<device, registered>> => DeviceOK'
  BY DEF WInv, DeviceOK
<1>3. UNCHANGED <<records, recorded, forgotten, made>> => RecordsOK'
  BY DEF WInv, RecordsOK
<1>4. UNCHANGED pending => PendingOK'
  BY DEF WInv, PendingOK
<1>5. UNCHANGED <<pushers, byPerson, made>> => PushersOK'
  BY DEF WInv, PushersOK
<1>6. UNCHANGED <<home, device>> => Stays
  BY DEF Stays, Off
<1> QED BY <1>1, <1>2, <1>3, <1>4, <1>5, <1>6

LEMMA IdleFits == Fits(Idle)
<1>1. Idle \in Job
  BY ManagerAssumption, EmptySeq DEF Idle, Job, Ops, Stages
<1> QED BY <1>1 DEF Idle, Fits, Stepping, Naming, Replacing, Retries, Renewers, Removals

\* The job ends, whatever else the step does.
LEMMA EndFits == ASSUME End PROVE Fits(job)' /\ Over'
<1>1. Idle \in Job
  BY ManagerAssumption, EmptySeq DEF Idle, Job, Ops, Stages
<1>2. job' = Idle
  BY DEF End
<1>3. Fits(job)'
  BY <1>1, <1>2 DEF Idle, Fits, Stepping, Naming, Replacing, Retries, Renewers, Removals
<1> QED BY <1>2, <1>3 DEF Over

\* A job that fits, in a step that leaves the records and the removals alone.
LEMMA FitsAgain ==
  ASSUME NEW j, Fits(j), UNCHANGED <<records, recorded, forgotten, made, pending>>
  PROVE  /\ job' = j /\ (j.at = "idle" => j = Idle) => Fits(job)' /\ Over'
         /\ Run(j) => Fits(job)' /\ Over'
<1>1. ASSUME job' = j PROVE Fits(job)'
  BY <1>1 DEF Fits, Stepping, Naming, Replacing, Retries
<1>2. ASSUME Run(j) PROVE Fits(job)' /\ Over'
  <2>1. CASE j.at = "idle"
    BY <1>2, <2>1, EndFits DEF Run, End, Over
  <2>2. CASE j.at # "idle"
    BY <1>1, <1>2, <2>2 DEF Run, Over
  <2> QED BY <2>1, <2>2
<1> QED BY <1>1, <1>2 DEF Over

\* A job goes on to stage x: what x needs, it holds.
May(j, x) ==
  /\ x \in Stages \ {"retry", "orphanRelay"} /\ j.at # "retry"
  /\ x \in {"probe", "create", "keys", "pusher", "unkeys", "undo", "commit"} => j.op \in Renewers
  /\ x \in {"keys", "pusher", "unkeys", "undo", "commit"} => j.next # None
  /\ x \in Removals => j.at \in Removals
  /\ x \in Removals \cup {"probe"} => j.rec # None
  /\ x = "rmPusher" => j.a \in Account
  /\ x = "commit" => j.unread \/ records[j.a] = None
  /\ x \in {"gone", "orphans"} => j.op = "reconcile"

LEMMA GoesFits ==
  ASSUME NEW j, Fits(j), NEW x, May(j, x)
  PROVE  Fits([j EXCEPT !.at = x])
<1> DEFINE k == [j EXCEPT !.at = x]
<1>1. k \in Job
  BY DEF Fits, Stepping, May, Job
<1>2. /\ k.at = x /\ k.op = j.op /\ k.a = j.a /\ k.key = j.key /\ k.rec = j.rec
      /\ k.next = j.next /\ k.renews = j.renews /\ k.left = j.left /\ k.queue = j.queue
      /\ k.gone = j.gone /\ k.unread = j.unread
  BY DEF Fits, Stepping, Job
<1> HIDE DEF k
<1>3. Stepping(k)
  BY <1>1, <1>2 DEF Fits, Stepping, May
<1>4. Naming(k) /\ Retries(k)
  BY <1>2 DEF Fits, Naming, Retries, May
<1>5. Replacing(k)
  BY <1>2 DEF Fits, Replacing, May
<1> QED BY <1>3, <1>4, <1>5 DEF Fits, k

LEMMA GoFits ==
  ASSUME Fits(job), NEW x, May(job, x), x # "idle", Goto(x),
         UNCHANGED <<records, recorded, forgotten, made, pending>>
  PROVE  Fits(job)' /\ Over'
<1> DEFINE k == [job EXCEPT !.at = x]
<1>1. Fits(k)
  BY GoesFits
<1>2. job' = k /\ k.at # "idle"
  BY DEF Goto, Fits, Stepping, Job
<1> HIDE DEF k
<1> QED BY <1>1, <1>2, FitsAgain

\* A job that ensures its device.
LEMMA EnsuredFits ==
  ASSUME NEW j, Fits(j), j.at # "retry"
  PROVE  Fits(Ensured(j))
<1> DEFINE x == CASE device.id = 0 -> "register"
                  [] device.token = j.tok /\ touched -> IF j.renews THEN "create" ELSE "idle"
                  [] OTHER -> "put"
<1>1. x \in {"register", "put", "idle"} \/ (x = "create" /\ j.renews)
  OBVIOUS
<1>2. Ensured(j) = [j EXCEPT !.at = x]
  BY DEF Ensured
<1> HIDE DEF x
<1>3. May(j, x)
  BY <1>1 DEF May, Stages, Removals, Fits, Stepping
<1> QED BY <1>2, <1>3, GoesFits

LEMMA SubscribingFits ==
  ASSUME NEW j, Fits(j), j.at # "retry", j.op \in Renewers, token \in 1..MaxTokens
  PROVE  Fits(Subscribing(j))
<1> DEFINE k == [j EXCEPT !.renews = TRUE, !.tok = token]
<1>0. token \in 0..MaxTokens /\ j \in Job
  BY DEF Fits, Stepping
<1>1. k \in Job
  BY ONLY <1>0 DEF Job
<1>2. /\ k.at = j.at /\ k.op = j.op /\ k.a = j.a /\ k.key = j.key /\ k.rec = j.rec
      /\ k.next = j.next /\ k.left = j.left /\ k.queue = j.queue
      /\ k.gone = j.gone /\ k.unread = j.unread
  BY DEF Fits, Stepping, Job
<1> HIDE DEF k
<1>3. Stepping(k)
  BY <1>1, <1>2 DEF Fits, Stepping
<1>4. Naming(k) /\ Retries(k)
  BY <1>2 DEF Fits, Naming, Retries
<1>5. Replacing(k)
  BY <1>2 DEF Fits, Replacing
<1>6. Fits(k)
  BY <1>3, <1>4, <1>5 DEF Fits
<1> QED BY <1>2, <1>6, EnsuredFits DEF Subscribing, k

\* A job that removes the subscription of record r.
LEMMA RemovingFits ==
  ASSUME NEW j, Fits(j), j.at # "retry", NEW r \in Record, r.sub \in recorded,
         NEW session \in BOOLEAN, session => j.a \in Account,
         j.op \in Renewers => (records[j.a] # None => records[j.a].sub = r.sub)
  PROVE  Fits(Removing(j, r, session)) /\ Removing(j, r, session).at # "idle"
<1> DEFINE x == IF session THEN "rmPusher" ELSE "rmRelay"
           k == [j EXCEPT !.at = x, !.rec = r, !.session = session, !.pend = FALSE]
<1>1. x \in Removals /\ x # "idle" /\ (x = "rmPusher" => j.a \in Account)
  BY DEF Removals
<1>2. k \in Job
  BY DEF Fits, Stepping, Job, Stages
<1> HIDE DEF x
<1>3. /\ k.at = x /\ k.op = j.op /\ k.a = j.a /\ k.key = j.key /\ k.rec = r
      /\ k.next = j.next /\ k.renews = j.renews /\ k.left = j.left /\ k.queue = j.queue
      /\ k.gone = j.gone /\ k.unread = j.unread
  BY DEF Fits, Stepping, Job
<1>4. Removing(j, r, session) = k
  BY DEF Removing, x
<1> HIDE DEF k
<1>5. r # None
  BY ManagerAssumption
<1>6. Stepping(k)
  BY <1>1, <1>2, <1>3, <1>5 DEF Fits, Stepping, Removals
<1>7. Naming(k) /\ Retries(k)
  BY <1>1, <1>3 DEF Fits, Naming, Retries, Removals
<1>8. Replacing(k)
  BY <1>1, <1>3, <1>5 DEF Fits, Replacing, Removals
<1> QED BY <1>1, <1>3, <1>4, <1>6, <1>7, <1>8 DEF Fits

\* The events are counted up to their bound.
LEMMA Counts == ASSUME WInv, Fault \/ Sure PROVE events' \in 0..MaxEvents
BY ManagerAssumption DEF WInv, RestOK, Fault, Sure

\* What a step that leaves the platform and the accounts alone keeps.
LEMMA RestKept ==
  ASSUME WInv, Fault \/ Sure, UNCHANGED <<token, keys, saved, leaving, closing>>,
         prompted' \subseteq Account, touched' \in BOOLEAN, native' \subseteq Sub
  PROVE  RestOK'
<1>1. events' \in 0..MaxEvents
  BY Counts
<1> QED BY <1>1 DEF WInv, RestOK

\* A job that has just begun.
LEMMA BegunFits ==
  ASSUME WInv, NEW j \in Job, j.at = "idle", j.next = None, ~j.renews,
         j.gone = {}, j.left = <<>>,
         j.rec # None => j.rec.sub \in recorded,
         j.op \in Renewers => /\ j.a \in Account /\ j.key \in 1..MaxKeys
                              /\ \/ j.rec = records[j.a]
                                 \/ j.rec = None /\ j.unread,
         j.op = "check" => j.rec # None
  PROVE  Fits(j)
<1>1. Stepping(j)
  BY DEF Stepping, Removals
<1>2. Naming(j) /\ Retries(j)
  BY DEF Naming, Retries
<1>3. Replacing(j)
  BY DEF Replacing
<1> QED BY <1>1, <1>2, <1>3 DEF Fits

LEMMA BeginIs ==
  ASSUME WInv, NEW op \in Ops, NEW a \in Account \cup {None}
  PROVE  LET j == Begin(op, a)
         IN  /\ j \in Job /\ j.op = op /\ j.at = "idle" /\ j.a = a /\ j.rec = None
             /\ j.next = None /\ j.key = 0 /\ j.tok = 0 /\ ~j.renews /\ j.gone = {}
             /\ j.left = <<>> /\ j.queue = <<>>
<1> DEFINE j == Begin(op, a)
<1>1. Idle \in Job
  BY ManagerAssumption, EmptySeq DEF Idle, Job, Ops, Stages
<1>2. j \in Job
  BY <1>1 DEF Begin, Job
<1> QED BY <1>2 DEF Begin, Idle

\* An operation on account a that may subscribe.
Renewing(op, a, missing) ==
  [Begin(op, a) EXCEPT !.key = keys[a], !.rec = records[a], !.missing = missing]

LEMMA RenewerFits ==
  ASSUME WInv, NEW op \in Renewers, NEW a \in Account, NEW missing \in BOOLEAN,
         op = "check" => records[a] # None
  PROVE  /\ Fits(Renewing(op, a, missing))
         /\ Renewing(op, a, missing).at = "idle"
         /\ Renewing(op, a, missing).op = op
<1> DEFINE b == Begin(op, a)
           k == [b EXCEPT !.key = keys[a], !.rec = records[a], !.missing = missing]
<1>1. op \in Ops
  BY DEF Renewers, Ops
<1>2. /\ b \in Job /\ b.op = op /\ b.at = "idle" /\ b.a = a /\ b.next = None
      /\ ~b.renews /\ b.gone = {} /\ b.left = <<>>
  BY <1>1, BeginIs
<1> HIDE DEF b
<1>3. /\ keys[a] \in 1..MaxKeys /\ keys[a] \in 0..MaxKeys
      /\ records[a] \in Record \cup {None}
      /\ records[a] # None => records[a].sub \in recorded
  BY DEF WInv, RestOK, RecordsOK
<1>5. /\ k \in Job /\ k.op = op /\ k.at = "idle" /\ k.a = a /\ k.next = None /\ ~k.renews
      /\ k.gone = {} /\ k.left = <<>> /\ k.key = keys[a] /\ k.rec = records[a]
  <2>1. k \in Job
    BY ONLY <1>2, <1>3, missing \in BOOLEAN DEF Job
  <2> QED BY ONLY <2>1, <1>2 DEF Job
<1> HIDE DEF k
<1>6. Fits(k)
  BY <1>3, <1>5, BegunFits
<1> QED BY <1>5, <1>6 DEF k, b, Renewing

-----------------------------------------------------------------------------
(* Operations begin *)

LEMMA Quiet ==
  ASSUME WInv, Fault \/ Sure,
         UNCHANGED <<relay, world, pushers, people, phone, past>>,
         Fits(job)' /\ Over'
  PROVE  WInv' /\ Stays
<1>1. RelayOK' /\ DeviceOK' /\ RecordsOK' /\ PendingOK' /\ PushersOK' /\ Stays
  BY Frame DEF relay, world, people, phone, past
<1>2. prompted' \subseteq Account /\ touched' \in BOOLEAN /\ native' \subseteq Sub
  BY DEF WInv, RestOK, phone
<1>3. RestOK'
  BY <1>2, RestKept DEF world, people
<1> QED BY <1>1, <1>3 DEF WInv

\* An enable that could not read the state.
LEMMA UnseenFits ==
  ASSUME WInv, NEW a \in Account
  PROVE  LET i == [Begin("enable", a) EXCEPT !.key = keys[a], !.unread = TRUE]
         IN  Fits(i) /\ i.at = "idle" /\ i.op = "enable" /\ i.rec = None /\ i.gone = {}
<1> DEFINE b == Begin("enable", a)
           i == [b EXCEPT !.key = keys[a], !.unread = TRUE]
<1>1. /\ b \in Job /\ b.op = "enable" /\ b.at = "idle" /\ b.a = a /\ b.rec = None
      /\ b.next = None /\ ~b.renews /\ b.gone = {} /\ b.left = <<>>
  BY BeginIs DEF Ops
<1> HIDE DEF b
<1>2. keys[a] \in 1..MaxKeys /\ keys[a] \in 0..MaxKeys
  BY DEF WInv, RestOK
<1>3. /\ i \in Job /\ i.op = "enable" /\ i.at = "idle" /\ i.a = a /\ i.next = None /\ ~i.renews
      /\ i.gone = {} /\ i.left = <<>> /\ i.key = keys[a] /\ i.rec = None /\ i.unread
  BY ONLY <1>1, <1>2 DEF Job
<1> HIDE DEF i
<1>4. Fits(i)
  BY <1>2, <1>3, BegunFits
<1> QED BY <1>3, <1>4 DEF i, b

LEMMA EnableKeeps == ASSUME WInv, NEW a \in Account, Enable(a) PROVE WInv' /\ Stays
<1> DEFINE j == Renewing("enable", a, FALSE)
           i == [Begin("enable", a) EXCEPT !.key = keys[a], !.unread = TRUE]
<1>1. /\ Fault \/ Sure
      /\ \/ Run(Subscribing([Begin("enable", a) EXCEPT !.key = keys[a], !.rec = records[a]]))
         \/ Run(Subscribing(i))
      /\ UNCHANGED <<relay, world, pushers, people, phone, past>>
  BY DEF Enable
<1>2. [Begin("enable", a) EXCEPT !.key = keys[a], !.rec = records[a]] = j
  <2> DEFINE b == Begin("enable", a)
  <2>1. b \in Job /\ b.missing = FALSE
    <3>1. b \in Job
      BY BeginIs DEF Ops
    <3> QED BY <3>1 DEF Begin, Idle
  <2> HIDE DEF b
  <2>2. [b EXCEPT !.key = keys[a], !.rec = records[a]]
          = [b EXCEPT !.key = keys[a], !.rec = records[a], !.missing = FALSE]
    BY ONLY <2>1 DEF Job
  <2> QED BY <2>2 DEF Renewing, b
<1>3. Fits(j) /\ j.at = "idle" /\ j.op = "enable"
  <2> "enable" \in Renewers /\ FALSE \in BOOLEAN
    BY DEF Renewers
  <2> QED BY RenewerFits
<1>4. Fits(i) /\ i.at = "idle" /\ i.op = "enable"
  BY UnseenFits
<1> HIDE DEF i, j
<1>5. Fits(Subscribing(i)) /\ Fits(Subscribing(j))
  BY <1>3, <1>4, SubscribingFits DEF WInv, RestOK, Renewers
<1>6. UNCHANGED <<records, recorded, forgotten, made, pending>>
  BY <1>1 DEF relay, phone, past
<1>7. Fits(job)' /\ Over'
  BY <1>1, <1>2, <1>5, <1>6, FitsAgain
<1> QED BY <1>1, <1>7, Quiet

LEMMA RefreshKeeps == ASSUME WInv, Refresh PROVE WInv' /\ Stays
<1> DEFINE b == Begin("refresh", None)
           j == [b EXCEPT !.tok = token]
<1>1. /\ Fault \/ Sure
      /\ Run(Ensured(j))
      /\ UNCHANGED <<relay, world, pushers, people, phone, past>>
  BY DEF Refresh
<1>2. /\ b \in Job /\ b.op = "refresh" /\ b.at = "idle" /\ b.rec = None /\ b.next = None
      /\ ~b.renews /\ b.gone = {} /\ b.left = <<>>
  BY BeginIs DEF Ops
<1> HIDE DEF b
<1>3. token \in 0..MaxTokens
  BY DEF WInv, RestOK
<1>4. /\ j \in Job /\ j.op = "refresh" /\ j.at = "idle" /\ j.rec = None /\ j.next = None
      /\ ~j.renews /\ j.gone = {} /\ j.left = <<>>
  BY ONLY <1>2, <1>3 DEF Job
<1> HIDE DEF j
<1>5. Fits(j)
  BY <1>4, BegunFits DEF Renewers
<1>6. Fits(Ensured(j))
  BY <1>4, <1>5, EnsuredFits
<1>7. UNCHANGED <<records, recorded, forgotten, made, pending>>
  BY <1>1 DEF relay, phone, past
<1>8. Fits(job)' /\ Over'
  BY <1>1, <1>6, <1>7, FitsAgain
<1> QED BY <1>1, <1>8, Quiet

\* The removal of account a's record, by an operation of its own.
LEMMA RemovalFits ==
  ASSUME WInv, NEW op \in {"disable", "signout"}, NEW a \in Account, records[a] # None
  PROVE  Fits(Removing(Begin(op, a), records[a], TRUE))
<1> DEFINE b == Begin(op, a)
<1>1. /\ b \in Job /\ b.op = op /\ b.at = "idle" /\ b.a = a /\ b.rec = None /\ b.next = None
      /\ ~b.renews /\ b.gone = {} /\ b.left = <<>>
  BY BeginIs DEF Ops
<1> HIDE DEF b
<1>2. records[a] \in Record /\ records[a].sub \in recorded
  BY DEF WInv, RecordsOK
<1>3. Fits(b)
  BY <1>1, BegunFits DEF Renewers
<1>4. b.op \notin Renewers /\ b.at # "retry"
  BY <1>1 DEF Renewers
<1>5. Fits(Removing(b, records[a], TRUE))
  BY <1>1, <1>2, <1>3, <1>4, RemovingFits
<1> QED BY <1>5 DEF b

LEMMA DisableKeeps == ASSUME WInv, NEW a \in Account, Disable(a) PROVE WInv' /\ Stays
<1>1. /\ Fault \/ Sure
      /\ Run(Removing(Begin("disable", a), records[a], TRUE))
      /\ UNCHANGED <<relay, world, pushers, people, phone, past>> /\ records[a] # None
  BY DEF Disable
<1>2. UNCHANGED <<records, recorded, forgotten, made, pending>>
  BY <1>1 DEF relay, phone, past
<1>3. Fits(job)' /\ Over'
  BY <1>1, <1>2, RemovalFits, FitsAgain
<1> QED BY <1>1, <1>3, Quiet

LEMMA CheckKeeps == ASSUME WInv, NEW a \in Account, Check(a) PROVE WInv' /\ Stays
<1> DEFINE r == records[a]
           missing == ~r.stale /\ r.sub \notin pushers[a]
           j == Renewing("check", a, missing)
           probe == [j EXCEPT !.at = "probe", !.tok = token]
           ask == [j EXCEPT !.tok = token]
<1>1. /\ Fault \/ Sure
      /\ Run(Subscribing(j)) \/ Run(probe) \/ Run(Ensured(ask))
      /\ UNCHANGED <<relay, world, pushers, people, phone, past>> /\ records[a] # None
  BY Zenon DEF Check, Renewing
<1>2. missing \in BOOLEAN /\ token \in 0..MaxTokens /\ "check" \in Renewers
  BY DEF WInv, RestOK, RecordsOK, Record, Renewers
<1>3. Fits(j) /\ j.at = "idle" /\ j.op = "check"
  <2>1. records[a] # None /\ a \in Account
    BY <1>1
  <2> HIDE DEF missing
  <2> QED BY <1>2, <2>1, RenewerFits
<1> HIDE DEF j, missing
<1>4. j \in Job
  BY <1>3 DEF Fits, Stepping
<1>5. Fits(Subscribing(j))
  BY <1>2, <1>3, SubscribingFits DEF WInv, RestOK
<1>6. /\ ask \in Job /\ ask.op = j.op /\ ask.at = j.at /\ ask.a = j.a /\ ask.key = j.key
      /\ ask.rec = j.rec /\ ask.next = j.next /\ ask.renews = j.renews
      /\ ask.gone = j.gone /\ ask.unread = j.unread /\ ask.left = j.left /\ ask.queue = j.queue
  BY ONLY <1>2, <1>4 DEF Job
<1>7. probe = [ask EXCEPT !.at = "probe"]
  BY ONLY <1>2, <1>4 DEF Job
<1> HIDE DEF ask, probe
<1>8. Fits(ask)
  <2>1. Stepping(ask)
    BY <1>3, <1>6 DEF Fits, Stepping
  <2>2. Naming(ask) /\ Retries(ask)
    BY <1>3, <1>6 DEF Fits, Naming, Retries
  <2>3. Replacing(ask)
    BY <1>3, <1>6 DEF Fits, Replacing
  <2> QED BY <2>1, <2>2, <2>3 DEF Fits
<1>9. Fits(Ensured(ask))
  BY <1>3, <1>6, <1>8, EnsuredFits
<1>10. Fits(probe)
  <2>1. May(ask, "probe")
    BY <1>2, <1>3, <1>6 DEF May, Stages, Removals, Fits, Stepping
  <2> QED BY <1>7, <1>8, <2>1, GoesFits
<1>11. UNCHANGED <<records, recorded, forgotten, made, pending>>
  BY <1>1 DEF relay, phone, past
<1>12. Fits(job)' /\ Over'
  BY <1>1, <1>5, <1>9, <1>10, <1>11, FitsAgain
<1> QED BY <1>1, <1>12, Quiet

\* A reconcile with the records of the accounts that are gone.
LEMMA ReconcileFits ==
  ASSUME WInv, NEW gone \in SUBSET Record, \A r \in gone : r.sub \in recorded,
         NEW calm \in BOOLEAN
  PROVE  LET j == [Begin("reconcile", None) EXCEPT !.at = "gone", !.gone = gone, !.calm = calm]
         IN  /\ Fits(j) /\ j.op = "reconcile" /\ j.at = "gone" /\ j.rec = None
             /\ j.gone = gone /\ ~j.missing
<1> DEFINE b == Begin("reconcile", None)
           j == [b EXCEPT !.at = "gone", !.gone = gone, !.calm = calm]
<1>1. /\ b \in Job /\ b.op = "reconcile" /\ b.at = "idle" /\ b.rec = None /\ b.next = None
      /\ ~b.renews /\ b.gone = {} /\ b.left = <<>> /\ ~b.missing
  <2>1. ~b.missing
    BY DEF Begin, Idle
  <2> QED BY <2>1, BeginIs DEF Ops
<1> HIDE DEF b
<1>2. /\ j \in Job /\ j.op = "reconcile" /\ j.at = "gone" /\ j.rec = None /\ j.next = None
      /\ ~j.renews /\ j.gone = gone /\ j.left = <<>> /\ ~j.missing
  BY ONLY <1>1, gone \in SUBSET Record, calm \in BOOLEAN DEF Job, Stages
<1> HIDE DEF j
<1>3. Stepping(j) /\ Naming(j) /\ Retries(j)
  BY <1>2 DEF Stepping, Naming, Retries, Renewers, Removals
<1>4. Replacing(j)
  BY <1>2 DEF Replacing, Renewers, Removals
<1>5. Fits(j)
  BY <1>3, <1>4 DEF Fits
<1> QED BY <1>2, <1>5 DEF j, b

\* How a reconcile begins.
LEMMA ReconcileBegins ==
  ASSUME WInv, Reconcile
  PROVE  \E gone \in SUBSET Record, calm \in BOOLEAN :
           /\ \A r \in gone : \E a \in Account : r = records[a] /\ r # None
           /\ Run([Begin("reconcile", None) EXCEPT !.at = "gone", !.gone = gone, !.calm = calm])
<1> DEFINE b == Begin("reconcile", None)
           g == {records[a] : a \in Account \ saved} \ {None}
           j(gone, calm) == [b EXCEPT !.at = "gone", !.gone = gone, !.calm = calm]
<1>1. b \in Job /\ b.calm = TRUE /\ b.gone = {}
  <2>1. b.calm = TRUE
    BY DEF Begin, Idle
  <2> QED BY <2>1, BeginIs DEF Ops
<1>2. Run([b EXCEPT !.at = "gone", !.gone = g]) \/ Run([b EXCEPT !.at = "gone", !.calm = FALSE])
  BY DEF Reconcile
<1> HIDE DEF b
<1>3. g \in SUBSET Record /\ \A r \in g : \E a \in Account : r = records[a] /\ r # None
  BY DEF WInv, RecordsOK
<1> HIDE DEF g
<1>4. [b EXCEPT !.at = "gone", !.gone = g] = j(g, TRUE)
  BY ONLY <1>1 DEF Job
<1>5. [b EXCEPT !.at = "gone", !.calm = FALSE] = j({}, FALSE)
  BY ONLY <1>1 DEF Job
<1>6. Run(j(g, TRUE)) \/ Run(j({}, FALSE))
  BY <1>2, <1>4, <1>5
<1>7. CASE Run(j(g, TRUE))
  <2> g \in SUBSET Record
    BY <1>3
  <2> WITNESS g \in SUBSET Record, TRUE \in BOOLEAN
  <2> QED BY <1>3, <1>7 DEF b
<1>8. CASE Run(j({}, FALSE))
  <2> WITNESS {} \in SUBSET Record, FALSE \in BOOLEAN
  <2> QED BY <1>8 DEF b
<1> QED BY <1>6, <1>7, <1>8

LEMMA ReconcileKeeps == ASSUME WInv, Reconcile PROVE WInv' /\ Stays
<1>1. PICK gone \in SUBSET Record, calm \in BOOLEAN :
        /\ \A r \in gone : \E a \in Account : r = records[a] /\ r # None
        /\ Run([Begin("reconcile", None) EXCEPT !.at = "gone", !.gone = gone, !.calm = calm])
  BY ReconcileBegins
<1> DEFINE j == [Begin("reconcile", None) EXCEPT !.at = "gone", !.gone = gone, !.calm = calm]
<1>2. \A r \in gone : r.sub \in recorded
  BY <1>1 DEF WInv, RecordsOK
<1>3. Fits(j)
  BY <1>2, ReconcileFits
<1>4. Run(j)
  BY <1>1
<1> HIDE DEF j
<1>5. (Fault \/ Sure) /\ UNCHANGED <<relay, world, pushers, people, phone, past>>
  BY DEF Reconcile
<1>6. UNCHANGED <<records, recorded, forgotten, made, pending>>
  BY <1>5 DEF relay, phone, past
<1>7. Fits(job)' /\ Over'
  BY <1>3, <1>4, <1>6, FitsAgain
<1> QED BY <1>5, <1>7, Quiet

\* A job that differs in nothing its stage depends on.
LEMMA SameFits ==
  ASSUME NEW j, Fits(j), NEW k \in Job,
         k.at = j.at, k.op = j.op, k.a = j.a, k.key = j.key, k.rec = j.rec, k.next = j.next,
         k.renews = j.renews, k.gone = j.gone, k.unread = j.unread, k.left = j.left, k.queue = j.queue
  PROVE  Fits(k)
<1>1. Stepping(k)
  BY DEF Fits, Stepping
<1>2. Naming(k) /\ Retries(k)
  BY DEF Fits, Naming, Retries
<1>3. Replacing(k)
  BY DEF Fits, Replacing
<1> QED BY <1>1, <1>2, <1>3 DEF Fits

\* A job that fits, in a step that may mark records stale or drop none.
LEMMA FitsLater ==
  ASSUME NEW j, Fits(j), j.at # "retry", UNCHANGED <<recorded, made>>,
         \A a \in Account : /\ (records'[a] = None) <=> (records[a] = None)
                            /\ records[a] # None => records'[a].sub = records[a].sub
  PROVE  Run(j) => Fits(job)' /\ Over'
<1>1. ASSUME Run(j), j.at = "idle" PROVE Fits(job)' /\ Over'
  BY <1>1, EndFits DEF Run, End
<1>2. ASSUME Run(j), j.at # "idle" PROVE Fits(job)' /\ Over'
  <2>1. job' = j
    BY <1>2 DEF Run
  <2>2. Stepping(job)' /\ Naming(job)' /\ Retries(job)'
    BY <2>1 DEF Fits, Stepping, Naming, Retries
  <2>3. Replacing(job)'
    <3>1. j.op \in Renewers => j.a \in Account
      BY DEF Fits, Stepping
    <3>2. j.at = "commit" => j.a \in Account
      BY DEF Fits, Stepping
    <3> QED BY <2>1, <3>1, <3>2 DEF Fits, Replacing
  <2> QED BY <1>2, <2>1, <2>2, <2>3 DEF Fits, Over
<1> QED BY <1>1, <1>2

LEMMA AccountRemovingKeeps ==
  ASSUME WInv, NEW a \in Account, AccountRemoving(a) PROVE WInv' /\ Stays
<1>1. /\ Fault \/ Sure
      /\ leaving' = leaving \ {a}
      /\ \/ job' = job
         \/ records[a] # None /\ Run(Removing(Begin("signout", a), records[a], TRUE))
      /\ UNCHANGED <<relay, world, pushers, saved, closing, phone, past>>
  BY DEF AccountRemoving
<1>2. UNCHANGED <<records, recorded, forgotten, made, pending>>
  BY <1>1 DEF relay, phone, past
<1>3. Fits(job)' /\ Over'
  <2>1. CASE job' = job
    BY <1>2, <2>1, FitsAgain DEF WInv, Over
  <2>2. CASE records[a] # None /\ Run(Removing(Begin("signout", a), records[a], TRUE))
    BY <1>2, <2>2, RemovalFits, FitsAgain
  <2> QED BY <1>1, <2>1, <2>2
<1>4. RelayOK' /\ DeviceOK' /\ RecordsOK' /\ PendingOK' /\ PushersOK' /\ Stays
  BY <1>1, Frame DEF relay, world, people, phone, past
<1>5. RestOK'
  BY <1>1, Counts DEF WInv, RestOK, phone, world
<1> QED BY <1>3, <1>4, <1>5 DEF WInv

-----------------------------------------------------------------------------
(* The relay device *)

\* A row takes a token; no device loses its row.
LEMMA Settles ==
  ASSUME WInv, NEW d \in Device, NEW t \in 0..MaxTokens
  PROVE  /\ Settled(d, t) \in
              [Device -> [state : {"none", "active", "invalid"}, token : 0..MaxTokens]]
         /\ \A e \in Device : /\ Settled(d, t)[e].state = "none" => rows[e].state = "none"
                              /\ e = d => Settled(d, t)[e].state = "active"
<1>1. rows \in [Device -> [state : {"none", "active", "invalid"}, token : 0..MaxTokens]]
  BY DEF WInv, RelayOK
<1>2. ASSUME NEW e \in Device
      PROVE  /\ Settled(d, t)[e] \in [state : {"none", "active", "invalid"}, token : 0..MaxTokens]
             /\ Settled(d, t)[e].state = "none" => rows[e].state = "none"
             /\ e = d => Settled(d, t)[e].state = "active"
  BY <1>1 DEF Settled
<1> QED BY <1>2 DEF Settled

LEMMA SettlesRelay ==
  ASSUME WInv, NEW d \in Device, NEW t \in 0..MaxTokens, rows' = Settled(d, t),
         UNCHANGED <<home, signed, made>>, registered' \in registered..MaxDevices
  PROVE  RelayOK'
<1>1. /\ rows' \in [Device -> [state : {"none", "active", "invalid"}, token : 0..MaxTokens]]
      /\ \A e \in Device : rows'[e].state = "none" => rows[e].state = "none"
  BY Settles
<1>2. registered \in 0..MaxDevices /\ registered' \in 0..MaxDevices /\ registered <= registered'
  BY ManagerAssumption DEF WInv, RelayOK
<1>3. \A s \in Sub : home[s] \in 0..MaxDevices /\ (home[s] # 0 => home[s] \in Device)
  BY ManagerAssumption DEF WInv, RelayOK, Device
<1> QED BY <1>1, <1>2, <1>3 DEF WInv, RelayOK

LEMMA Holds == ASSUME UNCHANGED home, device'.id = device.id PROVE Stays
BY DEF Stays, Off

\* The phone's device, when the relay knows it.
LEMMA KnownDevice == ASSUME WInv, Known PROVE device.id \in Device
BY ManagerAssumption DEF WInv, DeviceOK, Known, Row, NoRow, Device

LEMMA ReadyJobFits ==
  ASSUME Fits(job), job.at # "retry"
  PROVE  Fits([job EXCEPT !.at = IF job.renews THEN "create" ELSE "idle"])
<1> DEFINE x == IF job.renews THEN "create" ELSE "idle"
<1>1. x = "idle" \/ (x = "create" /\ job.renews)
  OBVIOUS
<1> HIDE DEF x
<1>2. May(job, x)
  BY <1>1 DEF May, Stages, Removals, Fits, Stepping
<1>3. Fits([job EXCEPT !.at = x])
  BY <1>2, GoesFits
<1> QED BY <1>3 DEF x

LEMMA ReadyFits ==
  ASSUME Fits(job), job.at # "retry", DeviceReady, UNCHANGED <<records, recorded, forgotten, made, pending>>
  PROVE  Fits(job)' /\ Over'
BY ReadyJobFits, FitsAgain DEF DeviceReady

\* The job asks the relay for a device, whatever it did before.
LEMMA GoRegister ==
  ASSUME Fits(job), job.at # "retry", Goto("register"),
         UNCHANGED <<records, recorded, forgotten, made, pending>>
  PROVE  Fits(job)' /\ Over'
<1>1. May(job, "register")
  BY DEF May, Stages, Removals, Fits, Stepping
<1> QED BY <1>1, GoFits

\* The relay may take the token of a device it knows.
LEMMA PutRelay ==
  ASSUME WInv, UNCHANGED rows \/ (Known /\ rows' = Settled(device.id, job.tok)),
         UNCHANGED <<home, signed, made, registered>>
  PROVE  RelayOK'
<1>1. CASE UNCHANGED rows
  BY <1>1, Frame DEF relay
<1>2. CASE Known /\ rows' = Settled(device.id, job.tok)
  <2>1. device.id \in Device /\ job.tok \in 0..MaxTokens
    BY <1>2, KnownDevice DEF WInv, Fits, Stepping, Job
  <2>2. registered' \in registered..MaxDevices
    BY ManagerAssumption DEF WInv, RelayOK
  <2> QED BY <1>2, <2>1, <2>2, SettlesRelay
<1> QED BY <1>1, <1>2

\* The phone writes the token it asked with.
LEMMA TokenWritten ==
  ASSUME WInv, UNCHANGED device \/ device' = [device EXCEPT !.token = job.tok],
         UNCHANGED registered
  PROVE  DeviceOK' /\ device'.id = device.id
<1>1. job.tok \in 0..MaxTokens
  BY DEF WInv, Fits, Stepping, Job
<1> QED BY <1>1 DEF WInv, DeviceOK

LEMMA DeviceStep ==
  ASSUME WInv, Fault \/ Sure, RelayOK', DeviceOK', Fits(job)' /\ Over', touched' \in BOOLEAN,
         UNCHANGED <<made, world, pushers, people, records, pending, native, prompted, past>>
  PROVE  WInv'
<1>1. RecordsOK' /\ PendingOK' /\ PushersOK'
  BY Frame DEF past
<1>2. prompted' \subseteq Account /\ native' \subseteq Sub
  BY DEF WInv, RestOK
<1>3. RestOK'
  BY <1>2, RestKept DEF world, people
<1> QED BY <1>1, <1>3 DEF WInv

LEMMA PutDeviceKeeps == ASSUME WInv, PutDevice PROVE WInv' /\ Stays
<1> DEFINE put == Known /\ rows' = Settled(device.id, job.tok)
<1>1. /\ Fault \/ Sure
      /\ UNCHANGED rows \/ put
      /\ UNCHANGED device \/ device' = [device EXCEPT !.token = job.tok]
      /\ touched' = (touched \/ ~job.retried) \/ UNCHANGED touched
      /\ DeviceReady \/ End \/ Goto("register")
      /\ job.at = "put"
      /\ UNCHANGED <<home, signed, made, registered>>
      /\ UNCHANGED <<world, pushers, people, records, pending, native, prompted, past>>
  BY Zenon DEF PutDevice, At
<1> HIDE DEF put
<1>2. RelayOK'
  BY <1>1, PutRelay DEF put
<1>3. DeviceOK' /\ device'.id = device.id
  BY <1>1, TokenWritten
<1>4. touched' \in BOOLEAN
  BY <1>1 DEF WInv, RestOK
<1>5. Fits(job)' /\ Over'
  <2>1. UNCHANGED <<records, recorded, forgotten, made, pending>> /\ Fits(job) /\ job.at # "retry"
    BY <1>1 DEF past, WInv
  <2>2. CASE DeviceReady
    BY <2>1, <2>2, ReadyFits
  <2>3. CASE End
    BY <2>3, EndFits
  <2>4. CASE Goto("register")
    BY <2>1, <2>4, GoRegister
  <2> QED BY <1>1, <2>2, <2>3, <2>4
<1>6. Stays
  BY <1>1, <1>3, Holds
<1>7. WInv'
  BY <1>1, <1>2, <1>3, <1>4, <1>5, DeviceStep
<1> QED BY <1>6, <1>7

LEMMA ProbeKeeps == ASSUME WInv, Probe PROVE WInv' /\ Stays
<1> DEFINE put == Known /\ rows' = Settled(device.id, job.tok)
<1>1. /\ Fault \/ Sure
      /\ UNCHANGED rows \/ put
      /\ UNCHANGED device \/ device' = [device EXCEPT !.token = job.tok]
      /\ touched' = TRUE \/ UNCHANGED touched
      /\ Run(Removing(job, job.rec, FALSE)) \/ Run(Subscribing(job)) \/ End
      /\ job.at = "probe"
      /\ UNCHANGED <<home, signed, made, registered>>
      /\ UNCHANGED <<world, pushers, people, records, pending, native, prompted, past>>
  BY Zenon DEF Probe, At, ProbeFailed
<1> HIDE DEF put
<1>2. RelayOK'
  BY <1>1, PutRelay DEF put
<1>3. DeviceOK' /\ device'.id = device.id
  BY <1>1, TokenWritten
<1>4. touched' \in BOOLEAN
  BY <1>1 DEF WInv, RestOK
<1>5. /\ Fits(job) /\ job.at # "retry" /\ job.op \in Renewers /\ job.rec # None
      /\ job.rec \in Record /\ job.rec.sub \in recorded /\ token \in 1..MaxTokens
  BY <1>1 DEF WInv, RestOK, Fits, Stepping, Naming, Job
<1>6. Fits(job)' /\ Over'
  <2>1. UNCHANGED <<records, recorded, forgotten, made, pending>>
    BY <1>1 DEF past
  <2>2. CASE Run(Removing(job, job.rec, FALSE))
    <3>1. records[job.a] # None => records[job.a].sub = job.rec.sub
      BY <1>5 DEF Fits, Replacing, Renewers
    <3>3. Fits(Removing(job, job.rec, FALSE))
      BY <1>5, <3>1, RemovingFits
    <3> QED BY <2>1, <2>2, <3>3, FitsAgain
  <2>3. CASE Run(Subscribing(job))
    <3>1. Fits(Subscribing(job))
      BY <1>5, SubscribingFits
    <3> QED BY <2>1, <2>3, <3>1, FitsAgain
  <2>4. CASE End
    BY <2>4, EndFits
  <2> QED BY <1>1, <2>2, <2>3, <2>4
<1>7. Stays
  BY <1>1, <1>3, Holds
<1>8. WInv'
  BY <1>1, <1>2, <1>3, <1>4, <1>6, DeviceStep
<1> QED BY <1>7, <1>8

LEMMA RegisterDeviceKeeps == ASSUME WInv, RegisterDevice PROVE WInv' /\ Stays
<1>1. /\ Fault \/ Sure
      /\ registered < MaxDevices /\ registered' = registered + 1
      /\ rows' = Settled(registered + 1, job.tok)
      /\ \/ device' = [id |-> registered + 1, token |-> job.tok] /\ Goto("mark")
         \/ UNCHANGED device /\ End
      /\ job.at = "register"
      /\ UNCHANGED <<home, signed, made>>
      /\ UNCHANGED <<world, pushers, people, records, pending, touched, native, prompted, past>>
  BY Zenon DEF RegisterDevice, At
<1>2. /\ registered \in 0..MaxDevices /\ registered + 1 \in Device
      /\ registered' \in registered..MaxDevices /\ job.tok \in 0..MaxTokens
  BY <1>1, ManagerAssumption DEF WInv, RelayOK, Fits, Stepping, Job, Device
<1>3. RelayOK'
  BY <1>1, <1>2, SettlesRelay
<1>4. DeviceOK'
  BY <1>1, <1>2, ManagerAssumption DEF WInv, DeviceOK, Device
<1>5. Fits(job)' /\ Over'
  <2>1. CASE Goto("mark")
    <3>1. May(job, "mark") /\ UNCHANGED <<records, recorded, forgotten, made, pending>> /\ Fits(job)
      BY <1>1 DEF WInv, May, Stages, Removals, past
    <3> QED BY <2>1, <3>1, GoFits
  <2> QED BY <1>1, <2>1, EndFits
<1>6. Stays
  <2>1. \A s \in 1..made : s \in Sub /\ home[s] <= registered /\ home[s] \in 0..MaxDevices
    BY ManagerAssumption DEF WInv, RelayOK, Sub
  <2>2. CASE device' = [id |-> registered + 1, token |-> job.tok]
    <3>1. \A s \in 1..made : home'[s] # registered + 1
      BY <1>1, <1>2, <2>1
    <3> QED BY <2>2, <3>1 DEF Stays, Off
  <2>3. CASE UNCHANGED device
    BY <1>1, <2>3, Holds
  <2> QED BY <1>1, <2>2, <2>3
<1>7. touched' \in BOOLEAN
  BY <1>1 DEF WInv, RestOK
<1>8. WInv'
  BY <1>1, <1>3, <1>4, <1>5, <1>7, DeviceStep
<1> QED BY <1>6, <1>8

LEMMA RegisterFailsKeeps == ASSUME WInv, RegisterFails PROVE WInv' /\ Stays
<1>1. Fault /\ End /\ UNCHANGED <<relay, world, pushers, people, phone, past>>
  BY DEF RegisterFails
<1> QED BY <1>1, EndFits, Quiet

LEMMA MarkStaleKeeps == ASSUME WInv, MarkStale PROVE WInv' /\ Stays
<1> DEFINE x == IF job.renews THEN "create" ELSE "idle"
           j == [job EXCEPT !.at = x]
<1>1. /\ Fault \/ Sure
      /\ records' = [a \in Account |-> IF records[a] = None THEN None
                                       ELSE [records[a] EXCEPT !.stale = TRUE]]
      /\ pending' = <<>> /\ touched' = TRUE
      /\ Run(j)
      /\ job.at = "mark"
      /\ UNCHANGED <<relay, world, pushers, people, device, native, prompted, past>>
  BY Zenon DEF MarkStale, At, DeviceReady
<1>2. RelayOK' /\ DeviceOK' /\ PushersOK' /\ Stays
  BY <1>1, Frame DEF relay, past
<1>3. /\ records \in [Account -> Record \cup {None}]
      /\ UNCHANGED <<recorded, forgotten, made>>
  BY <1>1 DEF WInv, RecordsOK, relay, past
<1>4. \A a \in Account : /\ (records'[a] = None) <=> (records[a] = None)
                         /\ records'[a] \in Record \cup {None}
                         /\ records[a] # None => records'[a].sub = records[a].sub
  <2>1. ASSUME NEW a \in Account, records[a] # None
        PROVE  /\ records'[a] = [records[a] EXCEPT !.stale = TRUE]
               /\ records[a] \in Record
    BY <1>1, <1>3, <2>1
  <2>2. ASSUME NEW a \in Account, records[a] # None
        PROVE  records'[a] \in Record /\ records'[a].sub = records[a].sub
    BY <2>1, <2>2 DEF Record
  <2> QED BY <1>1, <2>2, ManagerAssumption
<1>5. RecordsOK'
  BY <1>1, <1>3, <1>4 DEF WInv, RecordsOK
<1>6. PendingOK'
  BY <1>1, ManagerAssumption, EmptySeq DEF PendingOK
<1>7. Fits(job)' /\ Over'
  <2>1. Fits(j)
    BY <1>1, ReadyJobFits DEF WInv
  <2>2. j.at # "retry"
    BY DEF WInv, Fits, Stepping, Job
  <2> HIDE DEF j
  <2> QED BY <1>1, <1>3, <1>4, <2>1, <2>2, FitsLater
<1>8. RestOK'
  BY <1>1, RestKept DEF WInv, RestOK, world, people
<1> QED BY <1>2, <1>5, <1>6, <1>7, <1>8 DEF WInv

-----------------------------------------------------------------------------
(* subscribe *)

\* What a step of subscribe or of a removal leaves alone.
LEMMA CallStep ==
  ASSUME WInv, Fault \/ Sure, RelayOK', PushersOK', Fits(job)' /\ Over', native' \subseteq Sub,
         UNCHANGED <<registered, made, world, people, device, records, pending, touched,
                     prompted, past>>
  PROVE  WInv'
<1>1. DeviceOK' /\ RecordsOK' /\ PendingOK'
  BY Frame DEF past
<1>2. prompted' \subseteq Account /\ touched' \in BOOLEAN
  BY DEF WInv, RestOK
<1>3. RestOK'
  BY <1>2, RestKept DEF world, people
<1> QED BY <1>1, <1>3 DEF WInv

\* A subscription deleted, or one whose deletion fails.
LEMMA RemovedRelay ==
  ASSUME WInv, NEW s, home' \in {home, Removed(s)}, UNCHANGED <<rows, signed, made, registered>>,
         device' = device
  PROVE  RelayOK' /\ Stays
<1>1. /\ home' \in [Sub -> 0..MaxDevices]
      /\ \A t \in Sub : home'[t] = home[t] \/ home'[t] = 0
  BY ManagerAssumption DEF WInv, RelayOK, Removed
<1>2. RelayOK'
  <2>1. registered \in 0..MaxDevices
    BY DEF WInv, RelayOK
  <2> QED BY <1>1, <2>1 DEF WInv, RelayOK
<1>3. Stays
  <2>1. \A t \in 1..made : t \in Sub
    BY ManagerAssumption DEF WInv, RelayOK, Sub
  <2> QED BY <1>1, <2>1 DEF Stays, Off
<1> QED BY <1>2, <1>3

LEMMA CreateKeysKeeps == ASSUME WInv, CreateKeys PROVE WInv' /\ Stays
<1>1. /\ Fault \/ Sure
      /\ job.at = "keys"
      /\ \/ native' = native \cup {job.next.sub} /\ Goto("pusher")
         \/ UNCHANGED native /\ Goto("undo")
      /\ UNCHANGED <<relay, world, pushers, people, device, records, pending, touched,
                     prompted, past>>
  BY Zenon DEF CreateKeys, At
<1>2. Fits(job) /\ job.next # None /\ job.op \in Renewers /\ job.next \in Record
  BY <1>1 DEF WInv, Fits, Stepping, Job
<1>3. Fits(job)' /\ Over'
  <2>1. UNCHANGED <<records, recorded, forgotten, made, pending>>
    BY <1>1 DEF relay, past
  <2>2. May(job, "pusher") /\ May(job, "undo")
    BY <1>1, <1>2 DEF May, Stages, Removals
  <2> QED BY <1>1, <1>2, <2>1, <2>2, GoFits
<1>4. native' \subseteq Sub
  BY <1>1, <1>2 DEF WInv, RestOK, Record
<1>5. RelayOK' /\ PushersOK' /\ Stays
  BY <1>1, Frame DEF relay, past
<1>6. WInv'
  BY <1>1, <1>3, <1>4, <1>5, CallStep DEF relay
<1> QED BY <1>5, <1>6

LEMMA UndoKeysKeeps == ASSUME WInv, UndoKeys PROVE WInv' /\ Stays
<1>1. /\ Fault \/ Sure
      /\ job.at = "unkeys" /\ Goto("undo")
      /\ native' \subseteq native
      /\ UNCHANGED <<relay, world, pushers, people, device, records, pending, touched,
                     prompted, past>>
  BY DEF UndoKeys, At
<1>2. Fits(job) /\ job.next # None /\ job.op \in Renewers
  BY <1>1 DEF WInv, Fits, Stepping
<1>3. Fits(job)' /\ Over'
  <2>1. UNCHANGED <<records, recorded, forgotten, made, pending>>
    BY <1>1 DEF relay, past
  <2>2. May(job, "undo")
    BY <1>1, <1>2 DEF May, Stages, Removals
  <2> QED BY <1>1, <1>2, <2>1, <2>2, GoFits
<1>4. native' \subseteq Sub
  BY <1>1 DEF WInv, RestOK
<1>5. RelayOK' /\ PushersOK' /\ Stays
  BY <1>1, Frame DEF relay, past
<1>6. WInv'
  BY <1>1, <1>3, <1>4, <1>5, CallStep DEF relay
<1> QED BY <1>5, <1>6

LEMMA UndoRelayKeeps == ASSUME WInv, UndoRelay PROVE WInv' /\ Stays
<1>1. /\ Fault \/ Sure
      /\ End /\ home' \in {home, Removed(job.next.sub)}
      /\ UNCHANGED <<rows, signed, made, registered, world, pushers, people, phone, past>>
  BY DEF UndoRelay
<1>2. RelayOK' /\ Stays
  BY <1>1, RemovedRelay DEF phone
<1>3. PushersOK'
  BY <1>1, Frame DEF past
<1>4. native' \subseteq Sub
  BY <1>1 DEF WInv, RestOK, phone
<1>5. WInv'
  BY <1>1, <1>2, <1>3, <1>4, EndFits, CallStep DEF phone
<1> QED BY <1>2, <1>5

\* A subscription created on an active device.
LEMMA CreatedRelay ==
  ASSUME WInv, Created, made < MaxSubs, Row.state = "active", job.key \in 0..MaxKeys,
         UNCHANGED <<rows, registered, device>>
  PROVE  RelayOK' /\ Stays
<1>1. made' = made + 1 /\ made' \in Sub /\ made' \in 0..MaxSubs
  BY ManagerAssumption DEF WInv, RelayOK, Created, Sub
<1>2. /\ device.id \in Device /\ device.id <= registered
      /\ rows[device.id].state = "active"
  BY ManagerAssumption DEF WInv, DeviceOK, Row, NoRow, Device
<1>3. /\ home' \in [Sub -> 0..MaxDevices] /\ signed' \in [Sub -> 0..MaxKeys]
      /\ home'[made'] = device.id
      /\ \A s \in Sub \ {made'} : home'[s] = home[s]
  BY <1>1, <1>2, ManagerAssumption DEF WInv, RelayOK, Created, Device
<1>4. \A s \in Sub : home'[s] <= registered /\ (home'[s] # 0 => rows[home'[s]].state # "none")
  BY <1>2, <1>3 DEF WInv, RelayOK
<1>5. RelayOK'
  BY <1>1, <1>3, <1>4 DEF WInv, RelayOK
<1>6. Stays
  <2>1. \A s \in 1..made : s \in Sub \ {made'}
    BY <1>1, ManagerAssumption DEF WInv, RelayOK, Sub
  <2> QED BY <1>3, <2>1 DEF Stays, Off
<1> QED BY <1>5, <1>6

\* The parts that follow the number of subscriptions issued.
LEMMA MadeMore ==
  ASSUME WInv, made' \in {made, made + 1},
         UNCHANGED <<world, pushers, people, phone, past, registered>>, Fault \/ Sure
  PROVE  DeviceOK' /\ RecordsOK' /\ PendingOK' /\ PushersOK' /\ RestOK'
<1>1. DeviceOK' /\ PendingOK'
  BY Frame DEF phone
<1>2. 1..made \subseteq 1..made'
  BY DEF WInv, RelayOK
<1>3. RecordsOK' /\ PushersOK'
  BY <1>2 DEF WInv, RecordsOK, PushersOK, phone, past
<1>4. RestOK'
  BY RestKept DEF WInv, RestOK, world, people, phone
<1> QED BY <1>1, <1>3, <1>4

LEMMA CreateSubscriptionKeeps == ASSUME WInv, CreateSubscription PROVE WInv' /\ Stays
<1> DEFINE n == [sub |-> made + 1, key |-> job.key, stale |-> FALSE]
           x == IF Known THEN "put" ELSE "register"
           b == [job EXCEPT !.retried = TRUE]
<1>1. /\ Fault \/ Sure
      /\ \/ Row.state = "active" /\ made < MaxSubs /\ Created
         \/ UNCHANGED <<home, signed, made>>
      /\ \/ Row.state = "active" /\ made < MaxSubs /\ Created
              /\ job' = [job EXCEPT !.at = "keys", !.next = n]
         \/ UNCHANGED made /\ job' = [job EXCEPT !.retried = TRUE, !.at = x]
         \/ End
      /\ job.at = "create"
      /\ UNCHANGED <<rows, registered, world, pushers, people, phone, past>>
  BY Zenon DEF CreateSubscription, At
<1>2. Fits(job) /\ job \in Job /\ job.op \in Renewers /\ job.a \in Account /\ job.key \in 1..MaxKeys
  BY <1>1 DEF WInv, Fits, Stepping
<1>3. RelayOK' /\ Stays
  <2>1. CASE Row.state = "active" /\ made < MaxSubs /\ Created
    BY <1>1, <1>2, <2>1, CreatedRelay DEF phone
  <2>2. CASE UNCHANGED <<home, signed, made>>
    BY <1>1, <2>2, Frame DEF relay, phone
  <2> QED BY <1>1, <2>1, <2>2
<1>4. made' \in {made, made + 1}
  BY <1>1 DEF Created
<1>5. DeviceOK' /\ RecordsOK' /\ PendingOK' /\ PushersOK' /\ RestOK'
  BY <1>1, <1>4, MadeMore
<1>6. ASSUME Created, made < MaxSubs, job' = [job EXCEPT !.at = "keys", !.next = n]
      PROVE  Fits(job)' /\ Over'
  <2>1. /\ made + 1 \in Sub /\ made' = made + 1 /\ made + 1 \in 1..made'
        /\ made + 1 \notin recorded /\ UNCHANGED <<records, recorded>>
    <3>1. made \in 0..MaxSubs /\ recorded \subseteq 1..made
      BY DEF WInv, RelayOK, RecordsOK
    <3> QED BY <1>1, <1>6, <3>1, ManagerAssumption DEF Created, Sub, phone, past
  <2>2. n \in Record /\ n # None /\ n.sub = made + 1 /\ n.stale = FALSE
    <3>1. n \in Record
      BY ONLY <1>2, <2>1 DEF Record
    <3> QED BY <3>1, ManagerAssumption
  <2> HIDE DEF n
  <2>3. job' \in Job
    BY ONLY <1>2, <1>6, <2>2, "keys" \in Stages DEF Job, Stages
  <2>4. /\ job'.at = "keys" /\ job'.next = n /\ job'.op = job.op /\ job'.a = job.a
        /\ job'.key = job.key /\ job'.rec = job.rec /\ job'.renews = job.renews
        /\ job'.gone = job.gone /\ job'.unread = job.unread /\ job'.left = job.left /\ job'.queue = job.queue
    BY ONLY <1>2, <1>6 DEF Job
  <2>5. Stepping(job)'
    BY <1>1, <1>2, <2>2, <2>3, <2>4 DEF Fits, Stepping, Removals
  <2>6. Naming(job)' /\ Retries(job)'
    BY <1>2, <2>1, <2>2, <2>4 DEF Fits, Naming, Retries
  <2>7. Replacing(job)'
    BY <1>2, <2>1, <2>4 DEF Fits, Replacing, Removals
  <2> QED BY <2>4, <2>5, <2>6, <2>7 DEF Fits, Over
<1>7. ASSUME UNCHANGED made, job' = [job EXCEPT !.retried = TRUE, !.at = x]
      PROVE  Fits(job)' /\ Over'
  <2>1. x \in {"put", "register"}
    OBVIOUS
  <2> HIDE DEF x
  <2>2. /\ b \in Job /\ b.at = job.at /\ b.op = job.op /\ b.a = job.a /\ b.key = job.key
        /\ b.rec = job.rec /\ b.next = job.next /\ b.renews = job.renews
        /\ b.gone = job.gone /\ b.unread = job.unread /\ b.left = job.left /\ b.queue = job.queue
    BY ONLY <1>2 DEF Job
  <2>3. job' = [b EXCEPT !.at = x]
    BY ONLY <1>2, <1>7 DEF Job
  <2> HIDE DEF b
  <2>4. Fits(b)
    BY <1>2, <2>2, SameFits
  <2>5. May(b, x)
    BY <1>1, <2>1, <2>2 DEF May, Stages, Removals
  <2>6. Fits([b EXCEPT !.at = x])
    BY <2>4, <2>5, GoesFits
  <2>7. [b EXCEPT !.at = x].at # "idle"
    BY ONLY <2>1, <2>2 DEF Job
  <2>8. UNCHANGED <<records, recorded, forgotten, made, pending>>
    BY <1>1, <1>7 DEF phone, past
  <2> QED BY <2>3, <2>6, <2>7, <2>8, FitsAgain
<1>8. Fits(job)' /\ Over'
  BY <1>1, <1>6, <1>7, EndFits
<1> QED BY <1>3, <1>5, <1>8 DEF WInv

LEMMA RegisterPusherKeeps == ASSUME WInv, RegisterPusher PROVE WInv' /\ Stays
<1> DEFINE with == [pushers EXCEPT ![job.a] = @ \cup {job.next.sub}]
<1>1. /\ Fault \/ Sure
      /\ pushers' \in {pushers, with}
      /\ \/ job.rec = None /\ Goto("commit")
         \/ job.rec # None /\ Run(Removing(job, job.rec, TRUE))
         \/ Goto("unkeys")
      /\ job.at = "pusher"
      /\ UNCHANGED <<relay, world, people, phone, past>>
  BY Zenon DEF RegisterPusher, At
<1>2. /\ Fits(job) /\ job \in Job /\ job.op \in Renewers /\ job.next # None
      /\ job.a \in Account /\ job.next.sub \in 1..made /\ job.gone = {}
  BY <1>1 DEF WInv, Fits, Stepping, Naming, Renewers
<1>3. UNCHANGED <<records, recorded, forgotten, made, pending>>
  BY <1>1 DEF relay, phone, past
<1>4. Fits(job)' /\ Over'
  <2>1. CASE job.rec = None /\ Goto("commit")
    <3>1. job.unread \/ records[job.a] = None
      BY <1>2, <2>1 DEF Fits, Replacing
    <3>2. May(job, "commit")
      BY <1>1, <1>2, <3>1 DEF May, Stages, Removals
    <3> QED BY <1>2, <1>3, <2>1, <3>2, GoFits
  <2>2. CASE job.rec # None /\ Run(Removing(job, job.rec, TRUE))
    <3>1. /\ job.rec \in Record /\ job.rec.sub \in recorded
          /\ records[job.a] # None => records[job.a].sub = job.rec.sub
      BY <1>2, <2>2 DEF Fits, Naming, Replacing, Job
    <3>2. Fits(Removing(job, job.rec, TRUE))
      BY <1>1, <1>2, <3>1, RemovingFits
    <3> QED BY <1>3, <2>2, <3>2, FitsAgain
  <2>3. CASE Goto("unkeys")
    <3>1. May(job, "unkeys")
      BY <1>1, <1>2 DEF May, Stages, Removals
    <3> QED BY <1>2, <1>3, <2>3, <3>1, GoFits
  <2> QED BY <1>1, <2>1, <2>2, <2>3
<1>5. PushersOK'
  BY <1>1, <1>2, <1>3 DEF WInv, PushersOK, past
<1>6. RelayOK' /\ Stays
  BY <1>1, Frame DEF phone, relay
<1>7. native' \subseteq Sub
  BY <1>1 DEF WInv, RestOK, phone
<1>8. WInv'
  BY <1>1, <1>4, <1>5, <1>6, <1>7, CallStep DEF phone, relay
<1> QED BY <1>6, <1>8

LEMMA CommitKeeps == ASSUME WInv, Commit PROVE WInv' /\ Stays
<1>1. /\ Fault \/ Sure
      /\ End
      /\ records' = [records EXCEPT ![job.a] = job.next]
      /\ recorded' = recorded \cup {job.next.sub}
      /\ \/ forgotten' = forgotten
         \/ records[job.a] # None /\ forgotten' = forgotten \cup {records[job.a].sub}
      /\ prompted' \in {prompted, prompted \cup {job.a}}
      /\ job.at = "commit"
      /\ UNCHANGED <<relay, world, pushers, people, device, pending, touched, native, byPerson>>
  BY Zenon DEF Commit, At
<1>2. /\ job.a \in Account /\ job.next \in Record /\ job.next # None
      /\ job.next.sub \in 1..made /\ job.next.sub \notin recorded
  BY <1>1 DEF WInv, Fits, Stepping, Naming, Job
<1>3. RelayOK' /\ DeviceOK' /\ PendingOK' /\ PushersOK' /\ Stays
  BY <1>1, Frame DEF relay
<1>4. RecordsOK'
  <2>1. forgotten' \subseteq Sub
    <3>1. records[job.a] # None => records[job.a].sub \in Sub
      BY <1>2 DEF WInv, RecordsOK, Record
    <3> QED BY <1>1, <3>1 DEF WInv, RecordsOK
  <2>2. made' = made
    BY <1>1 DEF relay
  <2> QED BY <1>1, <1>2, <2>1, <2>2 DEF WInv, RecordsOK
<1>5. prompted' \subseteq Account
  BY <1>1, <1>2 DEF WInv, RestOK
<1>6. RestOK'
  BY <1>1, <1>5, RestKept DEF WInv, RestOK, world, people
<1> QED BY <1>1, <1>3, <1>4, <1>6, EndFits DEF WInv

-----------------------------------------------------------------------------
(* removeSubscription *)

\* A job that moves on, and changes nothing else its stage depends on.
LEMMA MovesFits ==
  ASSUME NEW j, Fits(j), NEW k \in Job, May(j, k.at),
         k.op = j.op, k.a = j.a, k.key = j.key, k.rec = j.rec, k.next = j.next,
         k.renews = j.renews, k.gone = j.gone, k.unread = j.unread, k.left = j.left, k.queue = j.queue
  PROVE  Fits(k)
<1>1. Stepping(k)
  BY DEF Fits, Stepping, May
<1>2. Naming(k) /\ Retries(k)
  BY DEF Fits, Naming, Retries, May
<1>3. Replacing(k)
  BY DEF Fits, Replacing, May
<1> QED BY <1>1, <1>2, <1>3 DEF Fits

\* A removal goes on to its next stage, whatever its call did.
LEMMA RemovalMoves ==
  ASSUME Fits(job), job.at \in Removals, NEW x \in {"rmRelay", "rmKeys", "rmState"},
         \/ job' = [job EXCEPT !.at = x]
         \/ job' = [job EXCEPT !.at = x, !.calm = FALSE]
         \/ job' = [job EXCEPT !.at = x, !.pend = TRUE, !.calm = FALSE],
         UNCHANGED <<records, recorded, forgotten, made, pending>>
  PROVE  Fits(job)' /\ Over'
<1>1. job \in Job /\ job.rec # None
  BY DEF Fits, Stepping
<1>2. x \in Stages /\ x # "idle"
  BY DEF Stages
<1> DEFINE ways == \/ job' = [job EXCEPT !.at = x]
                   \/ job' = [job EXCEPT !.at = x, !.calm = FALSE]
                   \/ job' = [job EXCEPT !.at = x, !.pend = TRUE, !.calm = FALSE]
<1>3. ways
  OBVIOUS
<1>4. job' \in Job
  <2>1. CASE job' = [job EXCEPT !.at = x]
    BY ONLY <1>1, <1>2, <2>1 DEF Job
  <2>2. CASE job' = [job EXCEPT !.at = x, !.calm = FALSE]
    BY ONLY <1>1, <1>2, <2>2 DEF Job
  <2>3. CASE job' = [job EXCEPT !.at = x, !.pend = TRUE, !.calm = FALSE]
    BY ONLY <1>1, <1>2, <2>3 DEF Job
  <2> QED BY <1>3, <2>1, <2>2, <2>3
<1>5. PICK k \in Job : k = job'
  BY <1>4
<1>6. /\ k.at = x /\ k.op = job.op /\ k.a = job.a /\ k.key = job.key /\ k.rec = job.rec
      /\ k.next = job.next /\ k.renews = job.renews /\ k.gone = job.gone /\ k.unread = job.unread
      /\ k.left = job.left /\ k.queue = job.queue
  BY ONLY <1>1, <1>3, <1>5 DEF Job
<1> HIDE DEF ways
<1>7. May(job, x)
  BY <1>1 DEF May, Stages, Removals
<1>8. Fits(k)
  BY <1>6, <1>7, MovesFits
<1> QED BY <1>2, <1>5, <1>6, <1>8, FitsAgain

LEMMA RemovePusherKeeps == ASSUME WInv, RemovePusher PROVE WInv' /\ Stays
<1>1. /\ Fault \/ Sure
      /\ job.at = "rmPusher" /\ job' = [job EXCEPT !.at = "rmRelay"]
      /\ \/ pushers' = [pushers EXCEPT ![job.a] = @ \ {job.rec.sub}]
         \/ UNCHANGED pushers
      /\ UNCHANGED <<relay, world, people, phone, past>>
  BY Zenon DEF RemovePusher, At, Goto
<1>2. Fits(job) /\ job.a \in Account /\ job.at \in Removals
  BY <1>1 DEF WInv, Fits, Stepping, Removals
<1>3. UNCHANGED <<records, recorded, forgotten, made, pending>>
  BY <1>1 DEF relay, phone, past
<1>4. Fits(job)' /\ Over'
  BY <1>1, <1>2, <1>3, RemovalMoves
<1>5. PushersOK'
  BY <1>1, <1>2, <1>3 DEF WInv, PushersOK, past
<1>6. RelayOK' /\ Stays
  BY <1>1, Frame DEF phone, relay
<1>7. native' \subseteq Sub
  BY <1>1 DEF WInv, RestOK, phone
<1>8. WInv'
  BY <1>1, <1>4, <1>5, <1>6, <1>7, CallStep DEF phone, relay
<1> QED BY <1>6, <1>8

LEMMA RemoveRelayKeeps == ASSUME WInv, RemoveRelay PROVE WInv' /\ Stays
<1>1. /\ Fault \/ Sure
      /\ job.at = "rmRelay"
      /\ \/ job' = [job EXCEPT !.at = "rmKeys"]
         \/ job' = [job EXCEPT !.at = "rmKeys", !.pend = TRUE, !.calm = FALSE]
      /\ home' \in {home, Removed(job.rec.sub)}
      /\ UNCHANGED <<rows, signed, made, registered, world, pushers, people, phone, past>>
  BY DEF RemoveRelay, At, Goto, Unreached
<1>2. Fits(job) /\ job.at \in Removals
  BY <1>1 DEF WInv, Removals
<1>3. UNCHANGED <<records, recorded, forgotten, made, pending>>
  BY <1>1 DEF phone, past
<1>4. Fits(job)' /\ Over'
  BY <1>1, <1>2, <1>3, RemovalMoves
<1>5. RelayOK' /\ Stays
  BY <1>1, RemovedRelay DEF phone
<1>6. PushersOK'
  BY <1>1, Frame DEF past
<1>7. native' \subseteq Sub
  BY <1>1 DEF WInv, RestOK, phone
<1>8. WInv'
  BY <1>1, <1>4, <1>5, <1>6, <1>7, CallStep DEF phone
<1> QED BY <1>5, <1>8

LEMMA RemoveKeysKeeps == ASSUME WInv, RemoveKeys PROVE WInv' /\ Stays
<1>1. /\ Fault \/ Sure
      /\ job.at = "rmKeys"
      /\ \/ native' = native \ {job.rec.sub} /\ job' = [job EXCEPT !.at = "rmState"]
         \/ UNCHANGED native /\ job' = [job EXCEPT !.at = "rmState", !.calm = FALSE]
      /\ UNCHANGED <<relay, world, pushers, people, device, records, pending, touched,
                     prompted, past>>
  BY Zenon DEF RemoveKeys, At, Goto
<1>2. Fits(job) /\ job.at \in Removals
  BY <1>1 DEF WInv, Removals
<1>3. UNCHANGED <<records, recorded, forgotten, made, pending>>
  BY <1>1 DEF relay, past
<1>4. Fits(job)' /\ Over'
  BY <1>1, <1>2, <1>3, RemovalMoves
<1>5. RelayOK' /\ PushersOK' /\ Stays
  BY <1>1, Frame DEF relay, past
<1>6. native' \subseteq Sub
  BY <1>1 DEF WInv, RestOK
<1>7. WInv'
  BY <1>1, <1>4, <1>5, <1>6, CallStep DEF relay
<1> QED BY <1>5, <1>7

\* The larger of zero and n.
LEMMA MaxOfTwo ==
  ASSUME NEW n \in Int
  PROVE  Max({0, n}) \in Nat /\ Max({0, n}) = IF n > 0 THEN n ELSE 0
<1>1. PICK m \in {0, n} : \A y \in {0, n} : m >= y
  OBVIOUS
<1>2. Max({0, n}) \in {0, n} /\ \A y \in {0, n} : Max({0, n}) >= y
  BY <1>1 DEF Max
<1> QED BY <1>2

\* What is kept is no longer than allowed; what fits is kept whole.
LEMMA KeptIs ==
  ASSUME NEW q \in Seq(Sub)
  PROVE  /\ Kept(q) \in Seq(Sub) /\ Len(Kept(q)) <= KeepPending
         /\ Len(q) <= KeepPending => Kept(q) = q
<1> DEFINE n == Len(q) - KeepPending
           m == Max({0, n})
<1>1. Len(q) \in Nat /\ KeepPending \in Nat /\ n \in Int
  BY LenProperties, ManagerAssumption
<1>2. m \in Nat /\ m = IF n > 0 THEN n ELSE 0
  BY <1>1, MaxOfTwo
<1> HIDE DEF m
<1>3. 1 + m \in 1..(Len(q) + 1)
  BY <1>1, <1>2
<1>4. /\ SubSeq(q, 1 + m, Len(q)) \in Seq(Sub)
      /\ Len(SubSeq(q, 1 + m, Len(q))) = IF 1 + m <= Len(q) THEN Len(q) - (1 + m) + 1 ELSE 0
      /\ \A i \in 1..(Len(q) - (1 + m) + 1) : SubSeq(q, 1 + m, Len(q))[i] = q[1 + m + i - 1]
  BY <1>1, <1>3, SubSeqProperties
<1>5. Len(SubSeq(q, 1 + m, Len(q))) <= KeepPending
  BY <1>1, <1>2, <1>4
<1>6. ASSUME Len(q) <= KeepPending PROVE SubSeq(q, 1 + m, Len(q)) = q
  <2>1. m = 0
    BY <1>1, <1>2, <1>6
  <2>2. Len(SubSeq(q, 1 + m, Len(q))) = Len(q)
    BY <1>1, <1>4, <2>1
  <2>3. \A i \in 1..Len(q) : SubSeq(q, 1 + m, Len(q))[i] = q[i]
    BY <1>1, <1>4, <2>1
  <2> QED BY <1>4, <2>2, <2>3, SeqEqual
<1> QED BY <1>4, <1>5, <1>6 DEF Kept, m

\* What is not kept is among the oldest.
LEMMA OldestIs ==
  ASSUME NEW q \in Seq(Sub)
  PROVE  /\ ToSet(Oldest(q)) \subseteq Sub
         /\ ToSet(q) \subseteq ToSet(Oldest(q)) \cup ToSet(Kept(q))
<1> DEFINE n == Len(q) - KeepPending
           m == Max({0, n})
           o == SubSeq(q, 1, m)
           r == SubSeq(q, 1 + m, Len(q))
<1>1. Len(q) \in Nat /\ KeepPending \in Nat /\ n \in Int
  BY LenProperties, ManagerAssumption
<1>2. m \in Nat /\ m = IF n > 0 THEN n ELSE 0
  BY <1>1, MaxOfTwo
<1>3. m \in 0..Len(q)
  BY <1>1, <1>2
<1> HIDE DEF m, n
<1>4. /\ o \in Seq(Sub) /\ Len(o) = m
      /\ \A i \in 1..m : o[i] = q[i]
  <2>1. 1 \in 1..(Len(q) + 1)
    BY <1>1
  <2>2. /\ SubSeq(q, 1, m) \in Seq(Sub)
        /\ Len(SubSeq(q, 1, m)) = IF 1 <= m THEN m - 1 + 1 ELSE 0
        /\ \A i \in 1..(m - 1 + 1) : SubSeq(q, 1, m)[i] = q[1 + i - 1]
    BY <1>3, <2>1, SubSeqProperties
  <2>3. \A i \in 1..m : SubSeq(q, 1, m)[i] = q[i]
    BY <1>2, <2>2
  <2> QED BY <1>2, <2>2, <2>3
<1>5. /\ r \in Seq(Sub) /\ Len(r) = Len(q) - m
      /\ \A i \in 1..(Len(q) - m) : r[i] = q[m + i]
  <2>1. 1 + m \in 1..(Len(q) + 1) /\ Len(q) \in 0..Len(q)
    BY <1>1, <1>3
  <2>2. /\ SubSeq(q, 1 + m, Len(q)) \in Seq(Sub)
        /\ Len(SubSeq(q, 1 + m, Len(q)))
             = IF 1 + m <= Len(q) THEN Len(q) - (1 + m) + 1 ELSE 0
        /\ \A i \in 1..(Len(q) - (1 + m) + 1) : SubSeq(q, 1 + m, Len(q))[i] = q[1 + m + i - 1]
    BY <2>1, SubSeqProperties
  <2>3. \A i \in 1..(Len(q) - m) : SubSeq(q, 1 + m, Len(q))[i] = q[m + i]
    BY <1>1, <1>3, <2>2
  <2> QED BY <1>1, <1>3, <2>2, <2>3
<1> HIDE DEF o, r
<1>6. ToSet(o) \subseteq Sub
  BY <1>4 DEF ToSet
<1>7. ASSUME NEW x \in ToSet(q) PROVE x \in ToSet(o) \cup ToSet(r)
  <2>1. PICK i \in 1..Len(q) : x = q[i]
    BY <1>1, <1>7 DEF ToSet
  <2>2. CASE i <= m
    <3>1. i \in 1..m
      BY <1>1, <1>3, <2>1, <2>2
    <3> QED BY <1>4, <2>1, <3>1 DEF ToSet
  <2>3. CASE i > m
    <3>1. i - m \in 1..(Len(q) - m) /\ m + (i - m) = i
      BY <1>1, <1>3, <2>1, <2>3
    <3>2. r[i - m] = x
      BY <1>5, <2>1, <3>1
    <3> QED BY <1>5, <3>1, <3>2 DEF ToSet
  <2> QED BY <1>1, <1>3, <2>1, <2>2, <2>3
<1> QED BY <1>6, <1>7 DEF Oldest, Kept, o, r, m, n

LEMMA RemoveStateKeeps == ASSUME WInv, RemoveState PROVE WInv' /\ Stays
<1> DEFINE x == CASE job.op = "reconcile" -> "gone"
                  [] job.next # None -> "commit"
                  [] OTHER -> "idle"
           k == [job EXCEPT !.at = x]
<1>1. /\ Fault \/ Sure
      /\ job.at = "rmState"
      /\ records' = [a \in Account |-> IF records[a] # None /\ records[a].sub = job.rec.sub
                                         THEN None ELSE records[a]]
      /\ \/ /\ pending' = Kept(Append(pending, job.rec.sub))
            /\ forgotten' = forgotten \cup ToSet(Oldest(Append(pending, job.rec.sub)))
         \/ UNCHANGED <<pending, forgotten>>
      /\ Run(k)
      /\ UNCHANGED <<relay, world, pushers, people, device, touched, native, prompted,
                     recorded, byPerson>>
  BY Zenon DEF RemoveState, At
<1>2. /\ Fits(job) /\ job \in Job /\ job.rec # None /\ job.rec \in Record
      /\ job.rec.sub \in Sub
  BY <1>1 DEF WInv, Fits, Stepping, Removals, Job, Record
<1>3. /\ x \in {"gone", "commit", "idle"}
      /\ x = "gone" => job.op = "reconcile"
      /\ x = "commit" => job.next # None /\ job.op \in Renewers
  BY <1>2 DEF Fits, Stepping
<1> HIDE DEF x
<1>4. /\ k \in Job /\ k.at = x /\ k.op = job.op /\ k.a = job.a /\ k.key = job.key
      /\ k.rec = job.rec /\ k.next = job.next /\ k.renews = job.renews
      /\ k.gone = job.gone /\ k.unread = job.unread /\ k.left = job.left /\ k.queue = job.queue
  <2>1. x \in Stages
    BY <1>3 DEF Stages
  <2> QED BY ONLY <1>2, <2>1 DEF Job
<1> HIDE DEF k
<1>5. RelayOK' /\ DeviceOK' /\ PushersOK' /\ Stays
  BY <1>1, Frame DEF relay, past
<1>11. Append(pending, job.rec.sub) \in Seq(Sub)
  BY <1>2, AppendProperties DEF WInv, PendingOK
<1>6. RecordsOK'
  <2>0. forgotten' \subseteq Sub
    BY <1>1, <1>11, OldestIs DEF WInv, RecordsOK
  <2>1. UNCHANGED <<recorded, made>>
    BY <1>1 DEF relay
  <2>2. records \in [Account -> Record \cup {None}]
    BY DEF WInv, RecordsOK
  <2>3. /\ records' \in [Account -> Record \cup {None}]
        /\ \A a \in Account : records'[a] # None => records'[a] = records[a]
    BY <1>1, <2>2
  <2> QED BY <2>0, <2>1, <2>3 DEF WInv, RecordsOK
<1>7. PendingOK'
  <2>1. CASE pending' = Kept(Append(pending, job.rec.sub))
    BY <1>11, <2>1, KeptIs DEF PendingOK
  <2>2. CASE UNCHANGED pending
    BY <2>2, Frame
  <2> QED BY <1>1, <2>1, <2>2
<1>8. ASSUME job' = k PROVE Fits(job)'
  <2>1. job.at # "retry" /\ UNCHANGED <<recorded, made>>
    BY <1>1 DEF relay, past
  <2>2. Stepping(k)
    BY <1>1, <1>2, <1>3, <1>4 DEF Fits, Stepping, Removals, Renewers
  <2>3. Stepping(job)'
    BY <1>8, <2>2 DEF Stepping
  <2>4. Naming(job)' /\ Retries(job)'
    BY <1>2, <1>3, <1>4, <1>8, <2>1 DEF Fits, Naming, Retries
  <2>5. \A a \in Account : records'[a] =
          IF records[a] # None /\ records[a].sub = job.rec.sub THEN None ELSE records[a]
    BY <1>1
  <2>6. job.op \in Renewers =>
          /\ job.a \in Account
          /\ records[job.a] # None => records[job.a].sub = job.rec.sub
    BY <1>2 DEF Fits, Stepping, Replacing
  <2>8. job.op \in Renewers => records'[job.a] = None
    BY <2>5, <2>6
  <2>10. Replacing(job)'
    BY <1>2, <1>3, <1>4, <1>8, <2>8 DEF Replacing, Removals
  <2> QED BY <2>3, <2>4, <2>10 DEF Fits
<1>9. Fits(job)' /\ Over'
  <2>1. CASE k.at = "idle"
    BY <1>1, <2>1, EndFits DEF Run, End
  <2>2. CASE k.at # "idle"
    BY <1>1, <1>8, <2>2 DEF Run, Over
  <2> QED BY <2>1, <2>2
<1>10. RestOK'
  BY <1>1, RestKept DEF WInv, RestOK, world, people
<1> QED BY <1>5, <1>6, <1>7, <1>9, <1>10 DEF WInv

-----------------------------------------------------------------------------
(* reconcile *)

\* A finite set, as a sequence of its members.
LEMMA SeqOfSet ==
  ASSUME NEW S, IsFiniteSet(S)
  PROVE  SetToSeq(S) \in Seq(S) /\ ToSet(SetToSeq(S)) = S
<1> DEFINE n == Cardinality(S)
<1>1. n \in Nat /\ ExistsBijection(1..n, S)
  BY FS_CardinalityType
<1>2. PICK f \in Bijection(1..n, S) : TRUE
  BY <1>1 DEF ExistsBijection
<1>3. f \in [1..n -> S] /\ IsInjective(f)
  BY <1>2 DEF Bijection, Injection, IsInjective
<1>4. SetToSeq(S) \in [1..n -> S] /\ IsInjective(SetToSeq(S))
  BY <1>3 DEF SetToSeq
<1> DEFINE g == SetToSeq(S)
<1>5. g \in Seq(S) /\ Len(g) = n
  BY <1>1, <1>4
<1> HIDE DEF g, n
<1>6. g \in Injection(1..n, S) /\ IsFiniteSet(1..n) /\ Cardinality(1..n) = n
  <2>1. g \in Injection(1..n, S)
    BY <1>4 DEF g, Injection, IsInjective
  <2> QED BY <1>1, <2>1, FS_Interval
<1>7. g \in Surjection(1..n, S)
  BY <1>6, FS_Injection DEF n
<1>8. ToSet(g) = S
  BY <1>5, <1>7 DEF ToSet, Surjection
<1> QED BY <1>5, <1>8 DEF g

LEMMA NativeFinite == ASSUME WInv PROVE IsFiniteSet(native)
<1>0. MaxSubs \in Nat
  BY ManagerAssumption DEF ManagerAssumption
<1>1. Sub = 1..MaxSubs /\ IsFiniteSet(1..MaxSubs)
  BY ONLY <1>0, FS_Interval DEF Sub
<1> QED BY <1>1, FS_Subset DEF WInv, RestOK

\* The removal of the record of an account that is gone.
LEMMA GoneFits ==
  ASSUME WInv, job.at = "gone", NEW r \in job.gone
  PROVE  LET k == [Removing(job, r, FALSE) EXCEPT !.gone = @ \ {r}]
         IN  Fits(k) /\ k.at # "idle"
<1> DEFINE b == [job EXCEPT !.gone = @ \ {r}]
<1>1. Fits(job) /\ job \in Job /\ job.op = "reconcile" /\ job.gone \subseteq Record
  BY DEF WInv, Fits, Stepping, Job
<1>2. r \in Record /\ r.sub \in recorded
  BY <1>1 DEF Fits, Naming
<1>5. /\ b \in Job /\ b.gone = job.gone \ {r} /\ b.unread = job.unread /\ b.at = job.at
      /\ b.op = job.op /\ b.a = job.a /\ b.key = job.key /\ b.rec = job.rec
      /\ b.next = job.next /\ b.renews = job.renews /\ b.left = job.left /\ b.queue = job.queue
  BY ONLY <1>1 DEF Job
<1>6. [Removing(job, r, FALSE) EXCEPT !.gone = @ \ {r}] = Removing(b, r, FALSE)
  BY ONLY <1>1 DEF Job, Removing
<1> HIDE DEF b
<1>7. Stepping(b)
  BY <1>1, <1>5 DEF Fits, Stepping
<1>8. Naming(b) /\ Retries(b)
  BY <1>1, <1>5 DEF Fits, Naming, Retries
<1>9. Replacing(b)
  BY <1>1, <1>5 DEF Fits, Replacing, Renewers
<1>10. Fits(b)
  BY <1>7, <1>8, <1>9 DEF Fits
<1>11. b.op \notin Renewers /\ b.at # "retry"
  BY <1>1, <1>5 DEF Renewers
<1>12. Fits(Removing(b, r, FALSE)) /\ Removing(b, r, FALSE).at # "idle"
  BY <1>2, <1>10, <1>11, RemovingFits
<1> QED BY <1>6, <1>12

\* The orphans a reconcile looks at next: those that nothing refers to, none where
\* they could not be listed, or all keys where the state could not be read.
LEMMA OrphanQueue ==
  ASSUME WInv,
         \/ job' = [job EXCEPT !.at = "orphans", !.rec = None,
                               !.queue = SetToSeq(native \ Recorded)]
         \/ \E keyed \in {{}, native} :
              job' = [job EXCEPT !.at = "orphans", !.rec = None,
                                 !.queue = SetToSeq(keyed), !.calm = FALSE]
  PROVE  \E q \in Seq(Sub), calm \in BOOLEAN :
           /\ job' = [job EXCEPT !.at = "orphans", !.rec = None, !.queue = q, !.calm = calm]
           /\ calm => ToSet(q) = native \ Recorded
<1>1. job \in Job
  BY DEF WInv, Fits, Stepping
<1>2. \A S \in SUBSET native : SetToSeq(S) \in Seq(Sub) /\ ToSet(SetToSeq(S)) = S
  <2> TAKE S \in SUBSET native
  <2>1. IsFiniteSet(S) /\ S \subseteq Sub
    BY NativeFinite, FS_Subset DEF WInv, RestOK
  <2>2. SetToSeq(S) \in Seq(S) /\ ToSet(SetToSeq(S)) = S
    BY <2>1, SeqOfSet
  <2> QED BY <2>1, <2>2
<1>3. CASE job' = [job EXCEPT !.at = "orphans", !.rec = None,
                              !.queue = SetToSeq(native \ Recorded)]
  <2> DEFINE q == SetToSeq(native \ Recorded)
  <2>1. q \in Seq(Sub) /\ ToSet(q) = native \ Recorded /\ job.calm \in BOOLEAN
    BY <1>1, <1>2 DEF Job
  <2> HIDE DEF q
  <2>2. job' = [job EXCEPT !.at = "orphans", !.rec = None, !.queue = q]
    BY <1>3 DEF q
  <2>3. job' = [job EXCEPT !.at = "orphans", !.rec = None, !.queue = q, !.calm = job.calm]
    BY ONLY <1>1, <2>2 DEF Job
  <2> QED BY <2>1, <2>3
<1>4. ASSUME NEW keyed \in {{}, native},
             job' = [job EXCEPT !.at = "orphans", !.rec = None,
                                !.queue = SetToSeq(keyed), !.calm = FALSE]
      PROVE  \E q \in Seq(Sub), calm \in BOOLEAN :
               /\ job' = [job EXCEPT !.at = "orphans", !.rec = None, !.queue = q, !.calm = calm]
               /\ calm => ToSet(q) = native \ Recorded
  <2> DEFINE q == SetToSeq(keyed)
  <2>1. q \in Seq(Sub)
    BY <1>2
  <2> HIDE DEF q
  <2>2. job' = [job EXCEPT !.at = "orphans", !.rec = None, !.queue = q, !.calm = FALSE]
    BY <1>4 DEF q
  <2> QED BY <2>1, <2>2
<1> QED BY <1>3, <1>4

LEMMA OrphansFit ==
  ASSUME WInv, job.at = "gone", NEW q \in Seq(Sub), NEW calm \in BOOLEAN,
         job' = [job EXCEPT !.at = "orphans", !.rec = None, !.queue = q, !.calm = calm],
         UNCHANGED <<records, recorded, forgotten, made, pending>>
  PROVE  Fits(job)' /\ Over'
<1> DEFINE k == [job EXCEPT !.at = "orphans", !.rec = None, !.queue = q, !.calm = calm]
<1>1. Fits(job) /\ job \in Job /\ job.op = "reconcile"
  BY DEF WInv, Fits, Stepping
<1>2. k \in Job
  BY ONLY <1>1, q \in Seq(Sub), calm \in BOOLEAN DEF Job, Stages
<1>3. /\ k.at = "orphans" /\ k.rec = None /\ k.op = job.op /\ k.a = job.a /\ k.key = job.key
      /\ k.next = job.next /\ k.renews = job.renews /\ k.gone = job.gone
      /\ k.unread = job.unread /\ k.left = job.left
  BY ONLY <1>1 DEF Job
<1> HIDE DEF k
<1>4. Stepping(k)
  BY <1>1, <1>2, <1>3 DEF Fits, Stepping, Removals
<1>5. Naming(k) /\ Retries(k)
  BY <1>1, <1>3 DEF Fits, Naming, Retries
<1>6. Replacing(k)
  BY <1>1, <1>3 DEF Fits, Replacing, Renewers
<1>7. Fits(k)
  BY <1>4, <1>5, <1>6 DEF Fits
<1>8. job' = k
  BY DEF k
<1> QED BY <1>3, <1>7, <1>8, FitsAgain

\* What DropGone does to the job.
LEMMA DropGoneIs ==
  ASSUME WInv, DropGone
  PROVE  /\ Fault \/ Sure
         /\ job.at = "gone"
         /\ \/ \E r \in job.gone : job' = [Removing(job, r, FALSE) EXCEPT !.gone = @ \ {r}]
            \/ \E q \in Seq(Sub), calm \in BOOLEAN :
                 /\ job' = [job EXCEPT !.at = "orphans", !.rec = None, !.queue = q, !.calm = calm]
                 /\ calm => ToSet(q) = native \ Recorded
         /\ UNCHANGED <<relay, world, pushers, people, phone, past>>
<1>1. /\ Fault \/ Sure
      /\ job.at = "gone"
      /\ \/ \E r \in job.gone : job' = [Removing(job, r, FALSE) EXCEPT !.gone = @ \ {r}]
         \/ job' = [job EXCEPT !.at = "orphans", !.rec = None,
                               !.queue = SetToSeq(native \ Recorded)]
         \/ \E keyed \in {{}, native} :
              job' = [job EXCEPT !.at = "orphans", !.rec = None,
                                 !.queue = SetToSeq(keyed), !.calm = FALSE]
      /\ UNCHANGED <<relay, world, pushers, people, phone, past>>
  BY Zenon DEF DropGone, At
<1> QED BY <1>1, OrphanQueue

LEMMA DropGoneKeeps == ASSUME WInv, DropGone PROVE WInv' /\ Stays
<1>1. /\ Fault \/ Sure
      /\ job.at = "gone"
      /\ \/ \E r \in job.gone : job' = [Removing(job, r, FALSE) EXCEPT !.gone = @ \ {r}]
         \/ \E q \in Seq(Sub), calm \in BOOLEAN :
              job' = [job EXCEPT !.at = "orphans", !.rec = None, !.queue = q, !.calm = calm]
      /\ UNCHANGED <<relay, world, pushers, people, phone, past>>
  BY DropGoneIs
<1>2. UNCHANGED <<records, recorded, forgotten, made, pending>>
  BY <1>1 DEF relay, phone, past
<1>3. Fits(job)' /\ Over'
  <2>1. ASSUME NEW r \in job.gone, job' = [Removing(job, r, FALSE) EXCEPT !.gone = @ \ {r}]
        PROVE  Fits(job)' /\ Over'
    <3> DEFINE k == [Removing(job, r, FALSE) EXCEPT !.gone = @ \ {r}]
    <3>1. Fits(k) /\ k.at # "idle"
      BY <1>1, GoneFits
    <3>2. job' = k
      BY <2>1
    <3> HIDE DEF k
    <3> QED BY <1>2, <3>1, <3>2, FitsAgain
  <2> QED BY <1>1, <1>2, <2>1, OrphansFit
<1> QED BY <1>1, <1>3, Quiet

\* A job of reconcile that goes on among its orphans.
LEMMA OrphanMoves ==
  ASSUME Fits(job), job.op = "reconcile", job.at \in {"orphans", "orphanRelay"},
         NEW k \in Job, job' = k, k.at \in {"orphans", "orphanRelay"},
         k.at = "orphanRelay" => k.queue # <<>>,
         k.op = job.op, k.a = job.a, k.rec = job.rec, k.next = job.next,
         k.renews = job.renews, k.gone = job.gone, k.unread = job.unread, k.left = job.left,
         UNCHANGED <<records, recorded, forgotten, made, pending>>
  PROVE  Fits(job)' /\ Over'
<1>1. Stepping(k)
  BY DEF Fits, Stepping, Removals, Renewers
<1>2. Naming(k) /\ Retries(k)
  BY DEF Fits, Naming, Retries
<1>3. Replacing(k)
  BY DEF Fits, Replacing, Renewers, Removals
<1>4. Fits(k) /\ k.at # "idle"
  BY <1>1, <1>2, <1>3 DEF Fits
<1> QED BY <1>4, FitsAgain

LEMMA DropOrphanKeeps == ASSUME WInv, DropOrphan PROVE WInv' /\ Stays
<1> DEFINE x == IF device.id = 0 THEN "orphans" ELSE "orphanRelay"
           q == IF device.id = 0 THEN Tail(job.queue) ELSE job.queue
           next == [job EXCEPT !.at = IF device.id = 0 THEN "orphans" ELSE "orphanRelay",
                               !.queue = IF device.id = 0 THEN Tail(@) ELSE @]
           ways == \/ job' = [job EXCEPT !.at = x, !.queue = q]
                   \/ job' = [job EXCEPT !.at = x, !.queue = q, !.calm = FALSE]
<1>1. /\ Fault \/ Sure
      /\ job.at = "orphans" /\ job.queue # <<>>
      /\ native' \in {native, native \ {Head(job.queue)}}
      /\ job' = next \/ job' = [next EXCEPT !.calm = FALSE]
      /\ UNCHANGED <<relay, world, pushers, people, device, records, pending, touched,
                     prompted, past>>
  BY DEF DropOrphan, At
<1>2. Fits(job) /\ job \in Job /\ job.op = "reconcile"
  BY <1>1 DEF WInv, Fits, Stepping
<1>3. job.queue \in Seq(Sub)
  BY <1>2 DEF Job
<1>4. /\ x \in Stages /\ x \in {"orphans", "orphanRelay"} /\ q \in Seq(Sub)
      /\ x = "orphanRelay" => q # <<>>
  BY <1>1, <1>3, HeadTailProperties DEF Stages
<1>5. ways
  <2>1. next = [job EXCEPT !.at = x, !.queue = q]
    OBVIOUS
  <2> HIDE DEF next, x, q
  <2>2. [[job EXCEPT !.at = x, !.queue = q] EXCEPT !.calm = FALSE]
          = [job EXCEPT !.at = x, !.queue = q, !.calm = FALSE]
    BY ONLY <1>2 DEF Job
  <2> QED BY <1>1, <2>1, <2>2
<1> HIDE DEF x, q, next
<1>6. job' \in Job
  <2>1. CASE job' = [job EXCEPT !.at = x, !.queue = q]
    BY ONLY <1>2, <1>4, <2>1 DEF Job
  <2>2. CASE job' = [job EXCEPT !.at = x, !.queue = q, !.calm = FALSE]
    BY ONLY <1>2, <1>4, <2>2 DEF Job
  <2> QED BY <1>5, <2>1, <2>2
<1>7. PICK k \in Job : k = job'
  BY <1>6
<1>8. /\ k.at = x /\ k.queue = q /\ k.op = job.op /\ k.a = job.a /\ k.rec = job.rec
      /\ k.next = job.next /\ k.renews = job.renews /\ k.gone = job.gone /\ k.unread = job.unread
      /\ k.left = job.left
  BY ONLY <1>2, <1>5, <1>7 DEF Job
<1> HIDE DEF ways
<1>9. Fits(job)' /\ Over'
  <2>1. UNCHANGED <<records, recorded, forgotten, made, pending>>
    BY <1>1 DEF relay, past
  <2>2. job.at \in {"orphans", "orphanRelay"} /\ k.at \in {"orphans", "orphanRelay"}
        /\ (k.at = "orphanRelay" => k.queue # <<>>) /\ job' = k
    BY <1>1, <1>4, <1>7, <1>8
  <2> QED BY <1>2, <1>8, <2>1, <2>2, OrphanMoves
<1>10. native' \subseteq Sub
  BY <1>1 DEF WInv, RestOK
<1>11. RelayOK' /\ PushersOK' /\ Stays
  BY <1>1, Frame DEF relay, past
<1>12. WInv'
  BY <1>1, <1>9, <1>10, <1>11, CallStep DEF relay
<1> QED BY <1>11, <1>12

LEMMA DropOrphanRelayKeeps == ASSUME WInv, DropOrphanRelay PROVE WInv' /\ Stays
<1> DEFINE next == [job EXCEPT !.at = "orphans", !.queue = Tail(@)]
           q == Tail(job.queue)
           ways == \/ job' = [job EXCEPT !.at = "orphans", !.queue = q]
                   \/ job' = [job EXCEPT !.at = "orphans", !.queue = q, !.calm = FALSE]
<1>1. /\ Fault \/ Sure
      /\ job.at = "orphanRelay"
      /\ home' \in {home, Removed(Head(job.queue))}
      /\ job' = next \/ job' = [next EXCEPT !.calm = FALSE]
      /\ UNCHANGED <<rows, signed, made, registered, world, pushers, people, phone, past>>
  BY DEF DropOrphanRelay, At
<1>2. Fits(job) /\ job \in Job /\ job.op = "reconcile" /\ job.queue # <<>>
  BY <1>1 DEF WInv, Fits, Stepping
<1>3. q \in Seq(Sub)
  BY <1>2, HeadTailProperties DEF Job
<1>4. ways
  <2>1. next = [job EXCEPT !.at = "orphans", !.queue = q]
    OBVIOUS
  <2> HIDE DEF next, q
  <2>2. [[job EXCEPT !.at = "orphans", !.queue = q] EXCEPT !.calm = FALSE]
          = [job EXCEPT !.at = "orphans", !.queue = q, !.calm = FALSE]
    BY ONLY <1>2 DEF Job
  <2> QED BY <1>1, <2>1, <2>2
<1> HIDE DEF q, next
<1>5. job' \in Job
  <2>1. CASE job' = [job EXCEPT !.at = "orphans", !.queue = q]
    BY ONLY <1>2, <1>3, <2>1 DEF Job, Stages
  <2>2. CASE job' = [job EXCEPT !.at = "orphans", !.queue = q, !.calm = FALSE]
    BY ONLY <1>2, <1>3, <2>2 DEF Job, Stages
  <2> QED BY <1>4, <2>1, <2>2
<1>6. PICK k \in Job : k = job'
  BY <1>5
<1>7. /\ k.at = "orphans" /\ k.op = job.op /\ k.a = job.a /\ k.rec = job.rec
      /\ k.next = job.next /\ k.renews = job.renews /\ k.gone = job.gone /\ k.unread = job.unread
      /\ k.left = job.left
  BY ONLY <1>2, <1>4, <1>6 DEF Job
<1> HIDE DEF ways
<1>8. Fits(job)' /\ Over'
  <2>1. UNCHANGED <<records, recorded, forgotten, made, pending>>
    BY <1>1 DEF phone, past
  <2>2. /\ job.at \in {"orphans", "orphanRelay"} /\ k.at \in {"orphans", "orphanRelay"}
        /\ k.at # "orphanRelay" /\ job' = k
    BY <1>1, <1>6, <1>7
  <2> QED BY <1>2, <1>7, <2>1, <2>2, OrphanMoves
<1>9. RelayOK' /\ Stays
  BY <1>1, RemovedRelay DEF phone
<1>10. PushersOK'
  BY <1>1, Frame DEF past
<1>11. native' \subseteq Sub
  BY <1>1 DEF WInv, RestOK, phone
<1>12. WInv'
  BY <1>1, <1>8, <1>9, <1>10, <1>11, CallStep DEF phone
<1> QED BY <1>9, <1>12

\* A job of reconcile that tries removals again.
LEMMA RetryMoves ==
  ASSUME Fits(job), job.op = "reconcile", job.at \in {"orphans", "retry"},
         NEW k \in Job, job' = k, k.at = "retry",
         k.op = job.op, k.a = job.a, k.rec = job.rec, k.next = job.next,
         k.renews = job.renews, k.gone = job.gone,
         Len(k.queue) + Len(k.left) <= KeepPending,
         UNCHANGED <<records, recorded, forgotten, made, pending>>
  PROVE  Fits(job)' /\ Over'
<1>1. Stepping(k)
  BY DEF Fits, Stepping, Removals, Renewers
<1>2. Naming(k) /\ Retries(k)
  BY DEF Fits, Naming, Retries
<1>3. Replacing(k)
  BY DEF Fits, Replacing, Renewers, Removals
<1>4. Fits(k) /\ k.at # "idle"
  BY <1>1, <1>2, <1>3 DEF Fits
<1> QED BY <1>4, FitsAgain

\* What StartRetries does to the job.
LEMMA StartRetriesIs ==
  ASSUME WInv, StartRetries
  PROVE  /\ Fault \/ Sure
         /\ job.at = "orphans" /\ job \in Job /\ job' \in Job
         /\ job'.at = "retry" /\ job'.op = job.op /\ job'.a = job.a
         /\ job'.rec = job.rec /\ job'.next = job.next /\ job'.renews = job.renews
         /\ job'.missing = job.missing /\ job'.pend = job.pend /\ job'.gone = job.gone
         /\ job'.left = <<>>
         /\ \/ job'.queue = pending /\ job'.calm = job.calm
            \/ job'.queue = <<>> /\ job'.unread /\ ~job'.calm
         /\ UNCHANGED <<relay, world, pushers, people, phone, past>>
<1>1. /\ Fault \/ Sure
      /\ job.at = "orphans" /\ job.queue = <<>>
      /\ \/ job' = [job EXCEPT !.at = "retry", !.queue = pending]
         \/ job' = [job EXCEPT !.at = "retry", !.unread = TRUE, !.calm = FALSE]
      /\ UNCHANGED <<relay, world, pushers, people, phone, past>>
  BY DEF StartRetries, At
<1>2. job \in Job /\ job.left = <<>>
  BY <1>1 DEF WInv, Fits, Stepping
<1>3. pending \in Seq(Sub)
  BY DEF WInv, PendingOK
<1>4. CASE job' = [job EXCEPT !.at = "retry", !.queue = pending]
  <2>1. job' \in Job
    BY ONLY <1>2, <1>3, <1>4 DEF Job, Stages
  <2>2. /\ job'.at = "retry" /\ job'.queue = pending /\ job'.op = job.op /\ job'.a = job.a
        /\ job'.rec = job.rec /\ job'.next = job.next /\ job'.renews = job.renews
        /\ job'.missing = job.missing /\ job'.pend = job.pend /\ job'.gone = job.gone
        /\ job'.left = job.left /\ job'.calm = job.calm
    BY ONLY <1>2, <1>4 DEF Job
  <2> QED BY <1>1, <1>2, <2>1, <2>2
<1>5. CASE job' = [job EXCEPT !.at = "retry", !.unread = TRUE, !.calm = FALSE]
  <2>1. job' \in Job
    BY ONLY <1>2, <1>5 DEF Job, Stages
  <2>2. /\ job'.at = "retry" /\ job'.queue = job.queue /\ job'.op = job.op /\ job'.a = job.a
        /\ job'.rec = job.rec /\ job'.next = job.next /\ job'.renews = job.renews
        /\ job'.missing = job.missing /\ job'.pend = job.pend /\ job'.gone = job.gone
        /\ job'.left = job.left /\ job'.unread = TRUE /\ job'.calm = FALSE
    BY ONLY <1>2, <1>5 DEF Job
  <2> QED BY <1>1, <1>2, <2>1, <2>2
<1> QED BY <1>1, <1>4, <1>5

LEMMA StartRetriesKeeps == ASSUME WInv, StartRetries PROVE WInv' /\ Stays
<1>1. Fits(job) /\ job.op = "reconcile"
  BY StartRetriesIs DEF WInv, Fits, Stepping
<1>2. PICK k \in Job : k = job'
  BY StartRetriesIs
<1>3. Len(k.queue) + Len(k.left) <= KeepPending
  <2>1. k.left = <<>> /\ (k.queue = pending \/ k.queue = <<>>)
    BY <1>2, StartRetriesIs
  <2>2. Len(pending) \in Nat /\ Len(pending) <= KeepPending /\ KeepPending \in Nat
    BY LenProperties, ManagerAssumption DEF WInv, PendingOK
  <2> QED BY <2>1, <2>2, EmptySeq
<1>4. UNCHANGED <<records, recorded, forgotten, made, pending>>
  BY StartRetriesIs DEF relay, phone, past
<1>5. Fits(job)' /\ Over'
  BY <1>1, <1>2, <1>3, <1>4, StartRetriesIs, RetryMoves
<1> QED BY <1>5, StartRetriesIs, Quiet

LEMMA OneFewer ==
  ASSUME NEW q \in Nat, NEW l \in Nat, NEW p \in Nat, q + l <= p,
         NEW r, r = q - 1, NEW m, m = l \/ m = l + 1
  PROVE  r + m <= p
OBVIOUS

LEMMA RetryKeeps == ASSUME WInv, Retry PROVE WInv' /\ Stays
<1> DEFINE q == Tail(job.queue)
           l == Append(job.left, Head(job.queue))
           ways == \/ job' = [job EXCEPT !.queue = q]
                   \/ job' = [job EXCEPT !.queue = q, !.left = l, !.calm = FALSE]
<1>1. /\ Fault \/ Sure
      /\ job.at = "retry" /\ job.queue # <<>>
      /\ home' \in {home, Removed(Head(job.queue))}
      /\ ways
      /\ UNCHANGED <<rows, signed, made, registered, world, pushers, people, phone, past>>
  BY DEF Retry, At, Done, Again
<1>2. Fits(job) /\ job \in Job /\ job.op = "reconcile"
  BY <1>1 DEF WInv, Fits, Stepping
<1>3. /\ job.queue \in Seq(Sub) /\ job.left \in Seq(Sub)
      /\ Len(job.queue) + Len(job.left) <= KeepPending 
  BY <1>1, <1>2 DEF Fits, Retries, Job
<1>4. /\ q \in Seq(Sub) /\ Len(q) = Len(job.queue) - 1 /\ Head(job.queue) \in Sub
      /\ Len(job.queue) \in Nat /\ KeepPending \in Nat /\ Len(job.left) \in Nat
  BY <1>1, <1>3, HeadTailProperties, LenProperties, ManagerAssumption
<1>5. l \in Seq(Sub) /\ Len(l) = Len(job.left) + 1
  BY <1>3, <1>4, AppendProperties
<1> HIDE DEF q, l
<1>6. job' \in Job
  <2>1. CASE job' = [job EXCEPT !.queue = q]
    BY ONLY <1>2, <1>4, <2>1 DEF Job
  <2>2. CASE job' = [job EXCEPT !.queue = q, !.left = l, !.calm = FALSE]
    BY ONLY <1>2, <1>4, <1>5, <2>2 DEF Job
  <2> QED BY <1>1, <2>1, <2>2
<1>7. PICK k \in Job : k = job'
  BY <1>6
<1>8. /\ k.at = job.at /\ k.op = job.op /\ k.a = job.a
      /\ k.rec = job.rec /\ k.next = job.next /\ k.renews = job.renews
      /\ k.gone = job.gone /\ k.unread = job.unread /\ k.queue = q /\ k.left \in {job.left, l}
  BY ONLY <1>1, <1>2, <1>7 DEF Job
<1> HIDE DEF ways
<1>9. Len(k.queue) + Len(k.left) <= KeepPending
  <2>1. Len(k.queue) = Len(job.queue) - 1
    BY <1>4, <1>8
  <2>2. Len(k.left) = Len(job.left) \/ Len(k.left) = Len(job.left) + 1
    BY <1>5, <1>8
  <2>3. /\ Len(job.queue) + Len(job.left) <= KeepPending
        /\ Len(job.queue) \in Nat /\ KeepPending \in Nat /\ Len(job.left) \in Nat
    BY <1>3, <1>4
  <2> QED BY ONLY <2>1, <2>2, <2>3, OneFewer
<1>10. UNCHANGED <<records, recorded, forgotten, made, pending>>
  BY <1>1 DEF phone, past
<1>11. Fits(job)' /\ Over'
  BY <1>1, <1>2, <1>7, <1>8, <1>9, <1>10, RetryMoves
<1>12. RelayOK' /\ Stays
  BY <1>1, RemovedRelay DEF phone
<1>13. PushersOK'
  BY <1>1, Frame DEF past
<1>14. native' \subseteq Sub
  BY <1>1 DEF WInv, RestOK, phone
<1>15. WInv'
  BY <1>1, <1>11, <1>12, <1>13, <1>14, CallStep DEF phone
<1> QED BY <1>12, <1>15

LEMMA WriteLeftKeeps == ASSUME WInv, WriteLeft PROVE WInv' /\ Stays
<1>1. /\ Fault \/ Sure
      /\ End
      /\ job.at = "retry" /\ job.queue = <<>> /\ pending' = job.left
      /\ forgotten' \in {forgotten, forgotten \cup ToSet(pending)}
      /\ UNCHANGED <<relay, world, pushers, people, device, records, touched, native,
                     prompted, recorded, byPerson>>
  BY DEF WriteLeft, At, Left
<1>2. PendingOK'
  <2>1. /\ job.left \in Seq(Sub) /\ job.queue \in Seq(Sub)
        /\ Len(job.queue) + Len(job.left) <= KeepPending
    BY <1>1 DEF WInv, Fits, Stepping, Retries, Job
  <2>2. Len(job.left) \in Nat /\ Len(job.queue) = 0
    BY <1>1, <2>1, LenProperties, EmptySeq
  <2> QED BY <1>1, <2>1, <2>2, ManagerAssumption DEF PendingOK
<1>3. RelayOK' /\ DeviceOK' /\ PushersOK' /\ Stays
  BY <1>1, Frame DEF relay
<1>4. RecordsOK'
  <2>1. ToSet(pending) \subseteq Sub
    BY DEF ToSet, WInv, PendingOK
  <2>2. made' = made
    BY <1>1 DEF relay
  <2> QED BY <1>1, <2>1, <2>2 DEF WInv, RecordsOK
<1>5. RestOK'
  BY <1>1, RestKept DEF WInv, RestOK, world, people
<1> QED BY <1>1, <1>2, <1>3, <1>4, <1>5, EndFits DEF WInv

-----------------------------------------------------------------------------
(* The app, the person, the relay, the platform and the instances *)

LEMMA CrashKeeps == ASSUME WInv, Crash PROVE WInv' /\ Stays
<1>1. /\ Fault \/ Sure
      /\ End
      /\ (leaving' = {} /\ closing' = {}) \/ UNCHANGED <<leaving, closing>>
      /\ UNCHANGED <<relay, world, pushers, saved, phone, past>>
  BY DEF Crash
<1>2. RelayOK' /\ DeviceOK' /\ RecordsOK' /\ PendingOK' /\ PushersOK' /\ Stays
  BY <1>1, Frame DEF relay, phone, past
<1>3. RestOK'
  BY <1>1, Counts DEF WInv, RestOK, world, phone
<1> QED BY <1>1, <1>2, <1>3, EndFits DEF WInv

\* A step outside the operations: the job and the records stay as they are.
LEMMA Aside ==
  ASSUME WInv, UNCHANGED <<records, recorded, forgotten, made, pending, job>>
  PROVE  Fits(job)' /\ Over'
BY FitsAgain DEF WInv, Over

\* Nothing is read of the state: the job keeps what it knows.
LEMMA StateUnreadKeeps == ASSUME WInv, StateUnread PROVE WInv' /\ Stays
<1>1. /\ Fault \/ Sure
      /\ \A a \in Account : records'[a] = None
      /\ records' \in [Account -> Record \cup {None}]
      /\ pending' = <<>> /\ prompted' = {} /\ touched' = FALSE
      /\ forgotten' = forgotten \cup Recorded \cup ToSet(pending)
      /\ job' = IF job.at = "idle" THEN job ELSE [job EXCEPT !.calm = FALSE]
      /\ UNCHANGED <<relay, world, pushers, people, device, native, recorded, byPerson>>
  BY DEF StateUnread, At
<1>2. RelayOK' /\ DeviceOK' /\ PushersOK' /\ Stays
  BY <1>1, Frame DEF relay
<1>3. RecordsOK'
  <2>1. ToSet(pending) \subseteq Sub
    BY DEF ToSet, WInv, PendingOK
  <2>2. Recorded \subseteq Sub
    BY DEF WInv, RecordsOK, Recorded, Record
  <2>3. made' = made
    BY <1>1 DEF relay
  <2> QED BY <1>1, <2>1, <2>2, <2>3 DEF WInv, RecordsOK
<1>4. PendingOK'
  BY <1>1, ManagerAssumption, EmptySeq DEF PendingOK
<1>5. RestOK'
  BY <1>1, RestKept DEF WInv, RestOK, world, people
<1>6. Fits(job)' /\ Over'
  <2>1. Fits(job) /\ job \in Job /\ Over
    BY DEF WInv, Fits, Stepping
  <2>2. PICK k \in Job :
          /\ k = job'
          /\ k.at = job.at /\ k.op = job.op /\ k.a = job.a /\ k.key = job.key /\ k.rec = job.rec
          /\ k.next = job.next /\ k.renews = job.renews /\ k.gone = job.gone
          /\ k.unread = job.unread /\ k.left = job.left /\ k.queue = job.queue
    <3>1. CASE job' = job
      BY <2>1, <3>1
    <3>2. CASE job' = [job EXCEPT !.calm = FALSE]
      <4> DEFINE k == [job EXCEPT !.calm = FALSE]
      <4>1. job \in Job
        BY <2>1
      <4>2. /\ k \in Job
            /\ k.at = job.at /\ k.op = job.op /\ k.a = job.a /\ k.key = job.key
            /\ k.rec = job.rec /\ k.next = job.next /\ k.renews = job.renews
            /\ k.gone = job.gone /\ k.unread = job.unread /\ k.left = job.left
            /\ k.queue = job.queue
        BY ONLY <4>1 DEF Job
      <4>3. k = job'
        BY <3>2
      <4> HIDE DEF k
      <4> QED BY <4>2, <4>3
    <3> QED BY <1>1, <3>1, <3>2
  <2>3. Fits(k)
    BY <2>1, <2>2, SameFits
  <2>4. made' = made /\ recorded' = recorded
    BY <1>1 DEF relay
  <2>5. Stepping(k) /\ Naming(k)' /\ Retries(k)
    BY <2>3, <2>4 DEF Fits, Naming
  <2>6. k.op \in Renewers \/ k.at = "commit" => k.a \in Account
    BY <2>3 DEF Fits, Stepping
  <2>7. Replacing(k)'
    BY <1>1, <2>6 DEF Replacing
  <2>8. Over'
    BY <1>1, <2>1, <2>2 DEF Over
  <2> QED BY <2>2, <2>5, <2>7, <2>8 DEF Fits, Stepping, Naming, Replacing, Retries
<1> QED BY <1>1, <1>2, <1>3, <1>4, <1>5, <1>6 DEF WInv

LEMMA DeviceUnreadKeeps == ASSUME WInv, DeviceUnread PROVE WInv' /\ Stays
<1>1. /\ Fault /\ device' = NoDevice
      /\ UNCHANGED <<relay, world, pushers, people, records, pending, touched, native, prompted,
                     job, past>>
  BY DEF DeviceUnread
<1>2. RelayOK' /\ RecordsOK' /\ PendingOK' /\ PushersOK'
  BY <1>1, Frame DEF relay, past
<1>3. DeviceOK' /\ Stays
  BY <1>1, ManagerAssumption DEF WInv, RelayOK, DeviceOK, NoDevice, Stays, Off, relay
<1>4. RestOK'
  BY <1>1, RestKept DEF WInv, RestOK, world, people
<1>5. Fits(job)' /\ Over'
  BY <1>1, Aside DEF relay, past
<1> QED BY <1>2, <1>3, <1>4, <1>5 DEF WInv

\* A step of the person or of the app between operations.
LEMMA PeopleStep ==
  ASSUME WInv, Fault \/ Sure,
         saved' \subseteq Account, leaving' \subseteq Account, closing' \subseteq saved',
         prompted' \subseteq Account, touched' \in BOOLEAN, native' \subseteq Sub,
         token' \in 1..MaxTokens, keys' \in [Account -> 1..MaxKeys],
         UNCHANGED <<relay, pushers, device, records, pending, job, past>>
  PROVE  WInv' /\ Stays
<1>1. RelayOK' /\ DeviceOK' /\ RecordsOK' /\ PendingOK' /\ PushersOK' /\ Stays
  BY Frame DEF relay, past
<1>2. Fits(job)' /\ Over'
  BY Aside DEF relay, past
<1>3. RestOK'
  BY Counts DEF RestOK
<1> QED BY <1>1, <1>2, <1>3 DEF WInv

LEMMA PersonKeeps ==
  ASSUME WInv, NEW a \in Account,
         MarkPrompted(a) \/ SignOut(a) \/ DropSlot(a) \/ SignIn(a) \/ KeyRotates(a)
  PROVE  WInv' /\ Stays
<1>1. RestOK
  BY DEF WInv
<1>2. CASE MarkPrompted(a)
  BY <1>1, <1>2, PeopleStep DEF MarkPrompted, RestOK, relay, world, people, phone, past
<1>3. CASE SignOut(a)
  BY <1>1, <1>3, PeopleStep DEF SignOut, RestOK, relay, world, people, phone, past
<1>4. CASE DropSlot(a)
  BY <1>1, <1>4, PeopleStep DEF DropSlot, RestOK, relay, world, people, phone, past
<1>5. CASE SignIn(a)
  BY <1>1, <1>5, PeopleStep DEF SignIn, RestOK, relay, world, people, phone, past
<1>6. CASE KeyRotates(a)
  <2>1. keys' \in [Account -> 1..MaxKeys]
    BY <1>1, <1>6, ManagerAssumption DEF KeyRotates, RestOK
  <2> QED BY <1>1, <1>6, <2>1, PeopleStep DEF KeyRotates, RestOK, relay, world, people, phone, past
<1> QED BY <1>2, <1>3, <1>4, <1>5, <1>6

LEMMA WorldKeeps ==
  ASSUME WInv, TimePasses \/ KeysLost \/ TokenRotates PROVE WInv' /\ Stays
<1>1. RestOK
  BY DEF WInv
<1>2. CASE TimePasses
  BY <1>1, <1>2, PeopleStep DEF TimePasses, RestOK, relay, world, people, phone, past
<1>3. CASE KeysLost
  BY <1>1, <1>3, PeopleStep DEF KeysLost, RestOK, relay, world, people, phone, past
<1>4. CASE TokenRotates
  <2>1. token' \in 1..MaxTokens
    BY <1>1, <1>4, ManagerAssumption DEF TokenRotates, RestOK
  <2> QED BY <1>1, <1>4, <2>1, PeopleStep
        DEF TokenRotates, RestOK, relay, world, people, phone, past
<1> QED BY <1>2, <1>3, <1>4

\* A step of the relay or an instance: the phone does not change.
LEMMA OutsideStep ==
  ASSUME WInv, Fault \/ Sure, RelayOK', PushersOK', UNCHANGED <<recorded, forgotten>>,
         UNCHANGED <<made, registered, world, people, phone, job>>
  PROVE  WInv'
<1>1. DeviceOK' /\ RecordsOK' /\ PendingOK'
  BY Frame DEF phone
<1>2. Fits(job)' /\ Over'
  BY Aside DEF phone
<1>3. RestOK'
  BY RestKept DEF WInv, RestOK, world, people, phone
<1> QED BY <1>1, <1>2, <1>3 DEF WInv

LEMMA PersonRemovesKeeps ==
  ASSUME WInv, NEW a \in Account, PersonRemoves(a) PROVE WInv' /\ Stays
<1>1. PICK s \in pushers[a] : /\ pushers' = [pushers EXCEPT ![a] = @ \ {s}]
                              /\ byPerson' = byPerson \cup {s}
  BY DEF PersonRemoves
<1>2. Fault /\ UNCHANGED <<relay, world, people, phone, job, recorded, forgotten>>
  BY DEF PersonRemoves
<1>3. PushersOK'
  BY <1>1, <1>2 DEF WInv, PushersOK, relay
<1>4. RelayOK' /\ Stays
  BY <1>2, Frame DEF relay, phone
<1>5. WInv'
  BY <1>2, <1>3, <1>4, OutsideStep DEF relay
<1> QED BY <1>4, <1>5

LEMMA PurgeKeeps == ASSUME WInv, Purge PROVE WInv' /\ Stays
<1>1. PICK d \in Device :
        /\ rows' = [rows EXCEPT ![d] = NoRow]
        /\ home' = [s \in Sub |-> IF home[s] = d THEN 0 ELSE home[s]]
  BY DEF Purge
<1>2. Fault /\ UNCHANGED <<signed, made, registered, world, pushers, people, phone, job, past>>
  BY DEF Purge
<1>3. NoRow \in [state : {"none", "active", "invalid"}, token : 0..MaxTokens]
  BY ManagerAssumption DEF NoRow
<1>4. RelayOK'
  <2>1. registered \in 0..MaxDevices /\ MaxDevices \in Nat
    BY ManagerAssumption DEF WInv, RelayOK
  <2>2. /\ rows' \in [Device -> [state : {"none", "active", "invalid"}, token : 0..MaxTokens]]
        /\ \A e \in Device \ {d} : rows'[e] = rows[e]
    BY <1>1, <1>3 DEF WInv, RelayOK
  <2>3. /\ home' \in [Sub -> 0..MaxDevices]
        /\ \A s \in Sub : home'[s] = IF home[s] = d THEN 0 ELSE home[s]
    BY <1>1, <2>1 DEF WInv, RelayOK
  <2>4. \A s \in Sub : home[s] \in 0..MaxDevices /\ (home[s] # 0 => home[s] \in Device)
    BY <2>1 DEF WInv, RelayOK, Device
  <2> QED BY <1>2, <2>1, <2>2, <2>3, <2>4 DEF WInv, RelayOK
<1>5. Stays
  <2>1. \A s \in 1..made : s \in Sub
    BY ManagerAssumption DEF WInv, RelayOK, Sub
  <2>2. UNCHANGED device
    BY <1>2 DEF phone
  <2> QED BY <1>1, <2>1, <2>2 DEF Stays, Off
<1>6. PushersOK'
  BY <1>2, Frame DEF past
<1>7. WInv'
  BY <1>2, <1>4, <1>6, OutsideStep DEF past
<1> QED BY <1>5, <1>7

LEMMA PushKeeps == ASSUME WInv, NEW a \in Account, Push(a) PROVE WInv' /\ Stays
<1>1. PICK s \in pushers[a] :
        /\ pushers' = [pushers EXCEPT ![a] = @ \ {s}]
        /\ \/ UNCHANGED rows
           \/ home[s] # 0 /\ rows' = [rows EXCEPT ![home[s]].state = "invalid"]
  BY Zenon DEF Push
<1>2. Sure /\ UNCHANGED <<home, signed, made, registered, world, people, phone, job, past>>
  BY DEF Push
<1>3. PushersOK'
  BY <1>1, <1>2 DEF WInv, PushersOK, past
<1>4. RelayOK'
  <2>1. s \in Sub /\ home[s] \in 0..MaxDevices
    BY ManagerAssumption DEF WInv, RelayOK, PushersOK, Sub
  <2>2. /\ rows' \in [Device -> [state : {"none", "active", "invalid"}, token : 0..MaxTokens]]
        /\ \A e \in Device : rows[e].state # "none" => rows'[e].state # "none"
    BY <1>1, <2>1 DEF WInv, RelayOK
  <2>3. \A t \in Sub : home[t] \in 0..MaxDevices /\ (home[t] # 0 => home[t] \in Device)
    BY ManagerAssumption DEF WInv, RelayOK, Device
  <2> QED BY <1>2, <2>2, <2>3 DEF WInv, RelayOK
<1>5. Stays
  BY <1>2, Holds DEF phone
<1>6. WInv'
  BY <1>2, <1>3, <1>4, OutsideStep DEF past
<1> QED BY <1>5, <1>6

-----------------------------------------------------------------------------
(* Every step *)

LEMMA InitWInv == ASSUME Init PROVE WInv
<1>1. NoRow \in [state : {"none", "active", "invalid"}, token : 0..MaxTokens]
  BY ManagerAssumption DEF NoRow
<1>2. RelayOK
  <2>1. \A s \in Sub : home[s] = 0
    BY DEF Init
  <2>2. made = 0 /\ registered = 0 /\ 0 \in 0..MaxSubs /\ 0 \in 0..MaxDevices
    BY ManagerAssumption DEF Init
  <2>3. rows \in [Device -> [state : {"none", "active", "invalid"}, token : 0..MaxTokens]]
    BY <1>1 DEF Init
  <2>4. home \in [Sub -> 0..MaxDevices] /\ signed \in [Sub -> 0..MaxKeys]
    BY ManagerAssumption DEF Init
  <2> QED BY <2>1, <2>2, <2>3, <2>4 DEF RelayOK
<1>3. DeviceOK
  BY ManagerAssumption DEF Init, DeviceOK, NoDevice
<1>4. RecordsOK /\ PushersOK
  BY DEF Init, RecordsOK, PushersOK
<1>5. PendingOK
  BY ManagerAssumption, EmptySeq DEF Init, PendingOK
<1>6. RestOK
  <2>1. token \in 1..MaxTokens /\ keys \in [Account -> 1..MaxKeys] /\ events \in 0..MaxEvents
    BY ManagerAssumption DEF Init
  <2>2. /\ saved \subseteq Account /\ leaving \subseteq Account /\ closing \subseteq saved
        /\ prompted \subseteq Account /\ native \subseteq Sub
    BY DEF Init
  <2>3. touched \in BOOLEAN
    BY DEF Init
  <2> QED BY <2>1, <2>2, <2>3 DEF RestOK
<1>7. Fits(job) /\ Over
  BY IdleFits DEF Init, Over
<1> QED BY <1>2, <1>3, <1>4, <1>5, <1>6, <1>7 DEF WInv

LEMMA StutterKeeps == ASSUME WInv, UNCHANGED vars PROVE WInv' /\ Stays
<1>1. RestOK
  BY DEF WInv
<1> QED BY <1>1, PeopleStep, Frame, Aside DEF vars, RestOK, WInv, relay, world, people, phone, past

LEMMA JobStepKeeps == ASSUME WInv, JobStep PROVE WInv' /\ Stays
BY PutDeviceKeeps, ProbeKeeps, RegisterDeviceKeeps, RegisterFailsKeeps, MarkStaleKeeps,
   CreateSubscriptionKeeps, CreateKeysKeeps, RegisterPusherKeeps, UndoKeysKeeps,
   UndoRelayKeeps, CommitKeeps, RemovePusherKeeps, RemoveRelayKeeps, RemoveKeysKeeps,
   RemoveStateKeeps, DropGoneKeeps, DropOrphanKeeps, DropOrphanRelayKeeps,
   StartRetriesKeeps, RetryKeeps, WriteLeftKeeps DEF JobStep

LEMMA AccountStepKeeps ==
  ASSUME WInv, NEW a \in Account,
         \/ Enable(a) \/ MarkPrompted(a) \/ Disable(a) \/ Check(a) \/ AccountRemoving(a)
         \/ SignOut(a) \/ DropSlot(a) \/ SignIn(a) \/ PersonRemoves(a)
         \/ KeyRotates(a) \/ Push(a)
  PROVE  WInv' /\ Stays
BY EnableKeeps, DisableKeeps, CheckKeeps, AccountRemovingKeeps, PersonKeeps,
   PersonRemovesKeeps, PushKeeps

LEMMA StepKeeps == ASSUME WInv, [Next]_vars PROVE WInv' /\ Stays
<1>1. CASE Next
  BY <1>1, JobStepKeeps, RefreshKeeps, ReconcileKeeps, CrashKeeps, StateUnreadKeeps,
     DeviceUnreadKeeps, WorldKeeps, PurgeKeeps, AccountStepKeeps DEF Next
<1> QED BY <1>1, StutterKeeps

\* Every variable has its type, in every state the phone, the relay and the
\* instances reach together.
THEOREM TypeCorrect == Spec => []TypeOK
<1>1. Init => WInv
  BY InitWInv
<1>2. WInv /\ [Next]_vars => WInv'
  BY StepKeeps
<1>3. WInv => TypeOK
  BY WInvTyped
<1> QED BY <1>1, <1>2, <1>3, PTL DEF Spec

-----------------------------------------------------------------------------
(* What the switch remembers *)

\* The stages at which a job holds something for later.
Special == {"mark", "rmKeys", "rmState", "orphans", "orphanRelay", "retry"}

\* A job that holds nothing for later.
Plain(j) == j.at \notin Special /\ Fresh(j)

\* The subscriptions that have been recorded are subscriptions issued.
LEMMA Issued ==
  ASSUME WInv
  PROVE  /\ \A s \in recorded : s \in 1..made
         /\ \A a \in Account : records[a] # None => records[a].sub \in 1..made
BY DEF WInv, RecordsOK

\* Off the device, for good.
LEMMA StaysOff == ASSUME Stays, NEW s \in 1..made, Off(s) PROVE Off(s)'
BY DEF Stays

\* The stale records it has yet to drop stay off the device.
LEMMA GoneOff ==
  ASSUME Stays, WInv, NEW j, Naming(j), Holding(j)
  PROVE  \A r \in j.gone : r.stale => Off(r.sub)'
<1> TAKE r \in j.gone
<1>1. r.sub \in 1..made
  BY Issued DEF Naming
<1>2. PICK s \in 1..made : s = r.sub
  BY <1>1
<1>3. r.stale => Off(s)
  BY <1>2 DEF Holding
<1>4. r.stale => Off(s)'
  BY <1>3, StaysOff
<1> QED BY <1>2, <1>4

LEMMA HoldingStays ==
  ASSUME Stays, WInv, NEW j, Fits(j), Holding(j), job' = j
  PROVE  Holding(job)'
<1>1. j.rec # None => j.rec.sub \in 1..made
  BY Issued DEF Fits, Naming
<1>2. j.op = "check" => j.rec # None
  BY DEF Fits, Stepping
<1>3. j.rec # None /\ Off(j.rec.sub) => Off(j.rec.sub)'
  BY <1>1, StaysOff
<1>4. /\ job'.rec = j.rec /\ job'.op = j.op /\ job'.missing = j.missing
      /\ job'.renews = j.renews /\ job'.gone = j.gone
  OBVIOUS
<1>5. \A r \in j.gone : r.stale => Off(r.sub)'
  <2>1. Naming(j)
    BY DEF Fits
  <2> QED BY <2>1, GoneOff
<1> QED BY <1>2, <1>3, <1>4, <1>5 DEF Holding

LEMMA IdleHolds == Holding(Idle)
BY DEF Holding, Idle

LEMMA StaleStays ==
  ASSUME WInv, Stays, Stale, UNCHANGED records
  PROVE  Stale'
<1>1. \A a \in Account : records[a] # None /\ records[a].stale => Off(records[a].sub)'
  BY Issued, StaysOff DEF Stale
<1> QED BY <1>1 DEF Stale

\* An abandoned subscription is off the device, pending, or forgotten.
LEMMA RememberingIs ==
  RemovalsRemembered <=>
    \A s \in recorded \ (Recorded \cup forgotten) : Off(s) \/ s \in ToSet(pending)
BY DEF RemovalsRemembered, Off

LEMMA RememberingStays ==
  ASSUME WInv, Stays, RemovalsRemembered, UNCHANGED <<records, recorded, forgotten, pending>>
  PROVE  RemovalsRemembered'
<1>1. Recorded' = Recorded
  BY DEF Recorded
<1>2. ASSUME NEW s \in recorded \ (Recorded \cup forgotten)
      PROVE  Off(s)' \/ s \in ToSet(pending)
  BY <1>2, RememberingIs, Issued, StaysOff
<1>3. ASSUME NEW s \in recorded' \ (Recorded' \cup forgotten'),
             device'.id # 0 /\ home'[s] = device'.id
      PROVE  s \in ToSet(pending')
  <2>1. s \in recorded \ (Recorded \cup forgotten)
    BY <1>1, <1>3
  <2> QED BY <1>2, <1>3, <2>1 DEF Off
<1> QED BY <1>3 DEF RemovalsRemembered

\* A step outside the operations.
LEMMA AsideSafe ==
  ASSUME WInv, SInv, Stays, Fault \/ Sure, native' \subseteq native,
         UNCHANGED <<records, recorded, forgotten, made, pending, job>>
  PROVE  SInv'
<1>1. Holding(job)'
  BY HoldingStays DEF SInv, WInv
<1>2. Stale' /\ RemovalsRemembered'
  BY StaleStays, RememberingStays DEF SInv
<1>3. Marking'
  BY StaysOff DEF SInv, Marking
<1>4. Reached'
  <2>1. job.at \in {"rmKeys", "rmState"} => job.rec.sub \in 1..made
    BY Issued DEF WInv, Fits, Stepping, Naming, Removals
  <2>2. job.at \in {"rmKeys", "rmState"} => job.pend \/ Off(job.rec.sub)'
    BY <2>1, StaysOff DEF SInv, Reached
  <2> QED BY <2>2 DEF Reached
<1>6. Cleaning'
  <2>1. Recorded' = Recorded
    BY DEF Recorded
  <2> QED BY <2>1 DEF SInv, Cleaning
<1>7. Retrying'
  BY Issued, StaysOff DEF SInv, Retrying
<1>8. Fresh(job)'
  BY DEF SInv, Fresh
<1> QED BY <1>1, <1>2, <1>3, <1>4, <1>6, <1>7, <1>8 DEF SInv

\* A step of an operation at whose next stage nothing is held for later.
LEMMA NextSafe ==
  ASSUME WInv, SInv, Stays, Fault \/ Sure, UNCHANGED <<records, recorded, forgotten, pending>>,
         Holding(job)', Plain(job)'
  PROVE  SInv'
<1>1. Stale' /\ RemovalsRemembered'
  BY StaleStays, RememberingStays DEF SInv
<1>2. Marking' /\ Reached' /\ Retrying' /\ Cleaning'
  BY DEF Fresh, Plain, Special, Marking, Reached, Retrying, Cleaning
<1> QED BY <1>1, <1>2 DEF SInv, Plain

LEMMA PlainSafe ==
  ASSUME WInv, SInv, Stays, Fault \/ Sure, UNCHANGED <<records, recorded, forgotten, pending>>,
         NEW j, Fits(j), Holding(j), Plain(j), job' = j
  PROVE  SInv'
<1>1. Holding(job)'
  BY HoldingStays
<1> QED BY <1>1, NextSafe

\* The operation goes on as it is.
LEMMA SameHolds ==
  ASSUME WInv, SInv, Stays,
         job'.rec = job.rec, job'.op = job.op, job'.missing = job.missing,
         job'.renews = job.renews, job'.gone = job.gone
  PROVE  Holding(job)'
<1>1. job.rec # None => job.rec.sub \in 1..made
  BY Issued DEF WInv, Fits, Naming
<1>2. job.op = "check" => job.rec # None
  BY DEF WInv, Fits, Stepping
<1>3. job.rec # None /\ Off(job.rec.sub) => Off(job.rec.sub)'
  BY <1>1, StaysOff
<1>4. Holding(job) /\ Naming(job)
  BY DEF SInv, WInv, Fits
<1>5. \A r \in job.gone : r.stale => Off(r.sub)'
  BY <1>4, GoneOff
<1> QED BY <1>2, <1>3, <1>4, <1>5 DEF Holding

LEMMA SameSafe ==
  ASSUME WInv, SInv, Stays, Fault \/ Sure, UNCHANGED <<records, recorded, forgotten, pending>>,
         job'.rec = job.rec, job'.op = job.op, job'.missing = job.missing,
         job'.renews = job.renews, job'.gone = job.gone, Plain(job)'
  PROVE  SInv'
BY SameHolds, NextSafe

LEMMA EndSafe ==
  ASSUME WInv, SInv, Stays, Fault \/ Sure, UNCHANGED <<records, recorded, forgotten, pending>>, End
  PROVE  SInv'
<1>1. Idle.at = "idle" /\ job' = Idle
  BY DEF Idle, End
<1>2. Fits(Idle) /\ Holding(Idle) /\ Plain(Idle)
  BY <1>1, IdleFits, IdleHolds DEF Fresh, Plain, Special
<1> HIDE DEF Idle
<1> QED BY <1>1, <1>2, PlainSafe

LEMMA RunSafe ==
  ASSUME WInv, SInv, Stays, Fault \/ Sure, UNCHANGED <<records, recorded, forgotten, pending>>,
         NEW j, Fits(j), Holding(j), Plain(j), Run(j)
  PROVE  SInv'
<1>1. CASE j.at = "idle"
  BY <1>1, EndSafe DEF Run, End
<1>2. CASE j.at # "idle"
  BY <1>2, PlainSafe DEF Run
<1> QED BY <1>1, <1>2

\* The steps outside the operations.
LEMMA OutsideSafe ==
  ASSUME WInv, SInv, NEW a \in Account,
         \/ MarkPrompted(a) \/ SignOut(a) \/ DropSlot(a) \/ SignIn(a) \/ PersonRemoves(a)
         \/ KeyRotates(a) \/ Push(a) \/ TimePasses \/ KeysLost \/ Purge \/ TokenRotates
  PROVE  SInv'
<1>1. Stays
  BY PersonKeeps, PersonRemovesKeeps, PushKeeps, WorldKeeps, PurgeKeeps
<1>2. /\ Fault \/ Sure
      /\ native' \subseteq native
      /\ UNCHANGED <<records, recorded, forgotten, made, pending, job>>
  <2>1. CASE MarkPrompted(a)
    BY <2>1 DEF MarkPrompted, relay, past
  <2>2. CASE SignOut(a)
    BY <2>2 DEF SignOut, relay, phone, past
  <2>3. CASE DropSlot(a)
    BY <2>3 DEF DropSlot, relay, phone, past
  <2>4. CASE SignIn(a)
    BY <2>4 DEF SignIn, relay, phone, past
  <2>5. CASE PersonRemoves(a)
    BY <2>5 DEF PersonRemoves, relay, phone
  <2>6. CASE KeyRotates(a)
    BY <2>6 DEF KeyRotates, relay, phone, past
  <2>7. CASE Push(a)
    BY <2>7, Zenon DEF Push, phone, past
  <2>8. CASE TimePasses
    BY <2>8 DEF TimePasses, relay, past
  <2>9. CASE KeysLost
    BY <2>9 DEF KeysLost, relay, past
  <2>10. CASE Purge
    BY <2>10 DEF Purge, phone, past
  <2>11. CASE TokenRotates
    BY <2>11 DEF TokenRotates, relay, phone, past
  <2> QED BY <2>1, <2>2, <2>3, <2>4, <2>5, <2>6, <2>7, <2>8, <2>9, <2>10, <2>11
<1> QED BY <1>1, <1>2, AsideSafe

LEMMA StutterSafe == ASSUME WInv, SInv, UNCHANGED vars PROVE SInv'
<1>1. Fault \/ Sure
  BY DEF vars, Sure
<1>2. native' \subseteq native /\ UNCHANGED <<records, recorded, forgotten, made, pending, job>>
  BY DEF vars, relay, phone, past
<1> QED BY <1>1, <1>2, StutterKeeps, AsideSafe

\* Where a job that ensures its device, subscribes or removes stands.
LEMMA EnsuredHolds ==
  ASSUME NEW j, Fits(j), Holding(j)
  PROVE  Holding(Ensured(j)) /\ Plain(Ensured(j))
<1> DEFINE x == CASE device.id = 0 -> "register"
                  [] device.token = j.tok /\ touched -> IF j.renews THEN "create" ELSE "idle"
                  [] OTHER -> "put"
           k == [j EXCEPT !.at = x]
<1>1. x \in {"register", "put", "idle", "create"}
  OBVIOUS
<1>2. Ensured(j) = k
  BY DEF Ensured
<1> HIDE DEF x
<1>3. j \in Job
  BY DEF Fits, Stepping
<1>4. /\ k.at = x /\ k.rec = j.rec /\ k.op = j.op /\ k.missing = j.missing
      /\ k.renews = j.renews /\ k.gone = j.gone
  BY ONLY <1>3 DEF Job
<1> HIDE DEF k
<1>5. Holding(k)
  BY <1>4 DEF Holding
<1> QED BY <1>1, <1>2, <1>4, <1>5 DEF Fresh, Plain, Special

LEMMA SubscribingHolds ==
  ASSUME NEW j, Fits(j), j.at # "retry", j.op \in Renewers, token \in 1..MaxTokens,
         Holding(j), j.op = "check" /\ j.missing => Off(j.rec.sub)
  PROVE  Holding(Subscribing(j)) /\ Plain(Subscribing(j))
<1> DEFINE k == [j EXCEPT !.renews = TRUE, !.tok = token]
<1>1. j \in Job /\ token \in 0..MaxTokens
  BY DEF Fits, Stepping
<1>2. k \in Job
  BY ONLY <1>1 DEF Job
<1>3. /\ k.at = j.at /\ k.op = j.op /\ k.a = j.a /\ k.key = j.key /\ k.rec = j.rec
      /\ k.next = j.next /\ k.left = j.left /\ k.queue = j.queue
      /\ k.gone = j.gone /\ k.unread = j.unread
  BY ONLY <1>1 DEF Job
<1>4. k.missing = j.missing
  BY ONLY <1>1 DEF Job
<1> HIDE DEF k
<1>5. Stepping(k)
  BY <1>2, <1>3 DEF Fits, Stepping
<1>6. Naming(k) /\ Retries(k)
  BY <1>3 DEF Fits, Naming, Retries
<1>7. Replacing(k)
  BY <1>3 DEF Fits, Replacing
<1>8. Fits(k)
  BY <1>5, <1>6, <1>7 DEF Fits
<1>9. Holding(k)
  BY <1>3, <1>4 DEF Holding
<1> QED BY <1>8, <1>9, EnsuredHolds DEF Subscribing, k

LEMMA RemovingHolds ==
  ASSUME NEW j, Fits(j), NEW r \in Record, NEW session \in BOOLEAN, r.stale => Off(r.sub),
         \A g \in j.gone : g.stale => Off(g.sub),
         j.op = "check" /\ j.missing /\ j.renews => Off(r.sub)
  PROVE  Holding(Removing(j, r, session)) /\ Plain(Removing(j, r, session))
<1> DEFINE x == IF session THEN "rmPusher" ELSE "rmRelay"
           k == [j EXCEPT !.at = x, !.rec = r, !.session = session, !.pend = FALSE]
<1>1. j \in Job /\ x \in {"rmPusher", "rmRelay"}
  BY DEF Fits, Stepping
<1> HIDE DEF x
<1>2. /\ k.at = x /\ k.rec = r /\ k.op = j.op /\ k.missing = j.missing
      /\ k.renews = j.renews /\ k.gone = j.gone
  BY ONLY <1>1 DEF Job
<1>3. ~k.pend
  BY ONLY <1>1 DEF Job
<1>4. Removing(j, r, session) = k
  BY DEF Removing, x
<1> HIDE DEF k
<1>5. Holding(k)
  BY <1>2 DEF Holding
<1> QED BY <1>1, <1>2, <1>4, <1>5, <1>3 DEF Fresh, Plain, Special

\* A record taken over is stale only when its subscription is off the device.
LEMMA TakenOver ==
  ASSUME SInv, NEW a \in Account, records[a] # None
  PROVE  records[a].stale => Off(records[a].sub)
BY DEF SInv, Stale

\* A device the relay does not know has no subscription.
LEMMA UnknownIsOff == ASSUME WInv, ~Known, NEW s \in Sub PROVE Off(s)
BY DEF WInv, RelayOK, Known, Row, NoRow, Off

LEMMA DisableSafe == ASSUME WInv, SInv, NEW a \in Account, Disable(a) PROVE SInv'
<1> DEFINE b == Begin("disable", a)
           j == Removing(b, records[a], TRUE)
<1>1. /\ Fault \/ Sure
      /\ Run(j)
      /\ UNCHANGED <<relay, world, pushers, people, phone, past>> /\ records[a] # None
  BY DEF Disable
<1>2. Fits(b) /\ b.op = "disable" /\ b.gone = {}
  <2>1. /\ b \in Job /\ b.op = "disable" /\ b.at = "idle" /\ b.a = a /\ b.rec = None
        /\ b.next = None /\ ~b.renews /\ b.gone = {} /\ b.left = <<>>
    BY BeginIs DEF Ops
  <2> HIDE DEF b
  <2> QED BY <2>1, BegunFits DEF Renewers
<1>3. Fits(j)
  BY <1>1, RemovalFits
<1> HIDE DEF b
<1>4. records[a] \in Record
  BY <1>1 DEF WInv, RecordsOK
<1>5. Holding(j) /\ Plain(j)
  BY <1>1, <1>2, <1>4, TakenOver, RemovingHolds
<1>6. UNCHANGED <<records, recorded, forgotten, pending>>
  BY <1>1 DEF phone, past
<1> HIDE DEF j
<1> QED BY <1>1, <1>3, <1>5, <1>6, DisableKeeps, RunSafe

\* An account's operation, as it begins.
LEMMA RenewingIs ==
  ASSUME WInv, NEW op \in Renewers, NEW a \in Account, NEW missing \in BOOLEAN
  PROVE  LET k == Renewing(op, a, missing)
         IN  k.op = op /\ k.at = "idle" /\ k.rec = records[a] /\ ~k.renews
             /\ (k.missing <=> missing) /\ k.gone = {}
<1> DEFINE b == Begin(op, a)
           k == [b EXCEPT !.key = keys[a], !.rec = records[a], !.missing = missing]
<1>1. op \in Ops
  BY DEF Renewers, Ops
<1>2. b \in Job /\ b.op = op /\ b.at = "idle" /\ ~b.renews /\ b.gone = {}
  BY <1>1, BeginIs
<1> HIDE DEF b
<1>3. k.op = op /\ k.at = "idle" /\ k.rec = records[a] /\ ~k.renews /\ k.gone = {}
  BY ONLY <1>2 DEF Job
<1>4. k.missing = missing
  BY ONLY <1>2 DEF Job
<1> QED BY <1>3, <1>4 DEF Renewing, b

LEMMA EnableSafe == ASSUME WInv, SInv, NEW a \in Account, Enable(a) PROVE SInv'
<1> DEFINE j == Renewing("enable", a, FALSE)
           i == [Begin("enable", a) EXCEPT !.key = keys[a], !.unread = TRUE]
<1>1. /\ Fault \/ Sure
      /\ \/ Run(Subscribing([Begin("enable", a) EXCEPT !.key = keys[a], !.rec = records[a]]))
         \/ Run(Subscribing(i))
      /\ UNCHANGED <<relay, world, pushers, people, phone, past>>
  BY DEF Enable
<1>2. [Begin("enable", a) EXCEPT !.key = keys[a], !.rec = records[a]] = j
  <2> DEFINE b == Begin("enable", a)
  <2>1. b \in Job /\ b.missing = FALSE
    <3>1. b \in Job
      BY BeginIs DEF Ops
    <3> QED BY <3>1 DEF Begin, Idle
  <2> HIDE DEF b
  <2>2. [b EXCEPT !.key = keys[a], !.rec = records[a]]
          = [b EXCEPT !.key = keys[a], !.rec = records[a], !.missing = FALSE]
    BY ONLY <2>1 DEF Job
  <2> QED BY <2>2 DEF Renewing, b
<1>3. Fits(j) /\ j.at = "idle" /\ j.op = "enable" /\ j.rec = records[a] /\ j.gone = {}
  <2> "enable" \in Renewers /\ FALSE \in BOOLEAN
    BY DEF Renewers
  <2> QED BY RenewerFits, RenewingIs
<1>4. Fits(i) /\ i.at = "idle" /\ i.op = "enable" /\ i.rec = None /\ i.gone = {}
  BY UnseenFits
<1> HIDE DEF i, j
<1>5. token \in 1..MaxTokens /\ "enable" \in Renewers
  BY DEF Renewers, WInv, RestOK
<1>6. Holding(i) /\ Holding(j)
  BY <1>3, <1>4, TakenOver DEF Holding
<1>7. Fits(Subscribing(j)) /\ Holding(Subscribing(j)) /\ Plain(Subscribing(j))
  BY <1>3, <1>5, <1>6, SubscribingFits, SubscribingHolds
<1>8. Fits(Subscribing(i)) /\ Holding(Subscribing(i)) /\ Plain(Subscribing(i))
  BY <1>4, <1>5, <1>6, SubscribingFits, SubscribingHolds
<1>9. UNCHANGED <<records, recorded, forgotten, pending>>
  BY <1>1 DEF phone, past
<1> QED BY <1>1, <1>2, <1>7, <1>8, <1>9, EnableKeeps, RunSafe

LEMMA CheckSafe == ASSUME WInv, SInv, NEW a \in Account, Check(a) PROVE SInv'
<1> DEFINE r == records[a]
           missing == ~r.stale /\ r.sub \notin pushers[a]
           j == Renewing("check", a, missing)
           probe == [j EXCEPT !.at = "probe", !.tok = token]
           ask == [j EXCEPT !.tok = token]
<1>1. /\ Fault \/ Sure
      /\ \/ Run(Subscribing(j)) /\ (missing => device.id = 0)
         \/ Run(probe)
         \/ Run(Ensured(ask))
      /\ UNCHANGED <<relay, world, pushers, people, phone, past>> /\ records[a] # None
  BY Zenon DEF Check, Renewing
<1>2. missing \in BOOLEAN /\ token \in 0..MaxTokens /\ "check" \in Renewers
      /\ token \in 1..MaxTokens
  BY DEF WInv, RestOK, RecordsOK, Record, Renewers
<1>3. /\ Fits(j) /\ j.at = "idle" /\ j.op = "check" /\ j.rec = r /\ ~j.renews
      /\ j.gone = {}
      /\ j.missing <=> missing
  <2>1. records[a] # None /\ a \in Account
    BY <1>1
  <2> HIDE DEF missing
  <2>2. Fits(j)
    BY <1>2, <2>1, RenewerFits
  <2> QED BY <1>2, <2>1, <2>2, RenewingIs
<1> HIDE DEF j, missing, r
<1>4. j \in Job
  BY <1>3 DEF Fits, Stepping
<1>5. Holding(j)
  BY <1>1, <1>3, TakenOver DEF Holding, r
<1>6. /\ ask \in Job /\ ask.op = j.op /\ ask.at = j.at /\ ask.a = j.a /\ ask.key = j.key
      /\ ask.rec = j.rec /\ ask.next = j.next /\ ask.renews = j.renews
      /\ ask.gone = j.gone /\ ask.unread = j.unread /\ ask.left = j.left /\ ask.queue = j.queue
  BY ONLY <1>2, <1>4 DEF Job
<1>7. ask.missing = j.missing
  BY ONLY <1>4 DEF Job
<1>8. probe = [ask EXCEPT !.at = "probe"]
  BY ONLY <1>2, <1>4 DEF Job
<1> HIDE DEF ask, probe
<1>9. Fits(ask)
  BY <1>3, <1>6, SameFits
<1>10. Holding(ask)
  BY <1>5, <1>6, <1>7 DEF Holding
<1>11. Fits(probe) /\ Holding(probe) /\ Plain(probe)
  <2>1. May(ask, "probe")
    BY <1>1, <1>2, <1>3, <1>6 DEF May, Stages, Removals, r
  <2>2. Fits(probe)
    BY <1>8, <1>9, <2>1, GoesFits
  <2>3. /\ probe.at = "probe" /\ probe.rec = ask.rec /\ probe.op = ask.op
        /\ probe.renews = ask.renews /\ probe.gone = ask.gone
    BY ONLY <1>6, <1>8 DEF Job
  <2>4. probe.missing = ask.missing
    BY ONLY <1>6, <1>8 DEF Job
  <2>5. Holding(probe)
    BY <1>10, <2>3, <2>4 DEF Holding
  <2> QED BY <2>2, <2>3, <2>5 DEF Fresh, Plain, Special
<1>12. UNCHANGED <<records, recorded, forgotten, pending>> /\ Stays
  BY <1>1, CheckKeeps DEF phone, past
<1>13. CASE Run(Subscribing(j)) /\ (missing => device.id = 0)
  <2>1. j.op = "check" /\ j.missing => Off(j.rec.sub)
    BY <1>3, <1>13 DEF Off
  <2>2. Fits(Subscribing(j)) /\ Holding(Subscribing(j)) /\ Plain(Subscribing(j))
    <3>1. j.at # "retry" /\ j.op \in Renewers
      BY <1>2, <1>3
    <3> QED BY <1>2, <1>3, <1>5, <2>1, <3>1, SubscribingFits, SubscribingHolds
  <2> QED BY <1>1, <1>12, <1>13, <2>2, RunSafe
<1>14. CASE Run(probe)
  BY <1>1, <1>11, <1>12, <1>14, RunSafe
<1>15. CASE Run(Ensured(ask))
  <2>1. Fits(Ensured(ask)) /\ Holding(Ensured(ask)) /\ Plain(Ensured(ask))
    BY <1>3, <1>6, <1>9, <1>10, EnsuredFits, EnsuredHolds
  <2> QED BY <1>1, <1>12, <1>15, <2>1, RunSafe
<1> QED BY <1>1, <1>13, <1>14, <1>15

LEMMA RefreshSafe == ASSUME WInv, SInv, Refresh PROVE SInv'
<1> DEFINE b == Begin("refresh", None)
           j == [b EXCEPT !.tok = token]
<1>1. /\ Fault \/ Sure
      /\ Run(Ensured(j))
      /\ UNCHANGED <<relay, world, pushers, people, phone, past>>
  BY DEF Refresh
<1>2. /\ b \in Job /\ b.op = "refresh" /\ b.at = "idle" /\ b.rec = None /\ b.next = None
      /\ ~b.renews /\ b.gone = {} /\ b.left = <<>>
  BY BeginIs DEF Ops
<1> HIDE DEF b
<1>3. token \in 0..MaxTokens
  BY DEF WInv, RestOK
<1>4. /\ j \in Job /\ j.op = "refresh" /\ j.at = "idle" /\ j.rec = None /\ j.next = None
      /\ ~j.renews /\ j.gone = {} /\ j.left = <<>>
  BY ONLY <1>2, <1>3 DEF Job
<1> HIDE DEF j
<1>5. Fits(j) /\ Holding(j)
  BY <1>4, BegunFits DEF Renewers, Holding
<1>6. Fits(Ensured(j)) /\ Holding(Ensured(j)) /\ Plain(Ensured(j))
  BY <1>4, <1>5, EnsuredFits, EnsuredHolds
<1>7. UNCHANGED <<records, recorded, forgotten, pending>>
  BY <1>1 DEF phone, past
<1> QED BY <1>1, <1>6, <1>7, RefreshKeeps, RunSafe

LEMMA AccountRemovingSafe == ASSUME WInv, SInv, NEW a \in Account, AccountRemoving(a) PROVE SInv'
<1> DEFINE b == Begin("signout", a)
           j == Removing(b, records[a], TRUE)
<1>1. /\ Fault \/ Sure
      /\ \/ job' = job
         \/ records[a] # None /\ Run(j)
      /\ UNCHANGED <<relay, world, pushers, saved, closing, phone, past>>
  BY DEF AccountRemoving
<1>2. UNCHANGED <<records, recorded, forgotten, made, pending>> /\ native' \subseteq native /\ Stays
  BY <1>1, AccountRemovingKeeps DEF relay, phone, past
<1>3. CASE job' = job
  BY <1>1, <1>2, <1>3, AsideSafe
<1>4. CASE records[a] # None /\ Run(j)
  <2>1. Fits(b) /\ b.op = "signout" /\ b.gone = {}
    <3>1. /\ b \in Job /\ b.op = "signout" /\ b.at = "idle" /\ b.a = a /\ b.rec = None
          /\ b.next = None /\ ~b.renews /\ b.gone = {} /\ b.left = <<>>
      BY BeginIs DEF Ops
    <3> HIDE DEF b
    <3> QED BY <3>1, BegunFits DEF Renewers
  <2>2. Fits(j)
    BY <1>4, RemovalFits
  <2> HIDE DEF b
  <2>3. records[a] \in Record
    BY <1>4 DEF WInv, RecordsOK
  <2>4. Holding(j) /\ Plain(j)
    BY <1>4, <2>1, <2>3, TakenOver, RemovingHolds
  <2> HIDE DEF j
  <2> QED BY <1>1, <1>2, <1>4, <2>2, <2>4, RunSafe
<1> QED BY <1>1, <1>3, <1>4

LEMMA ReconcileSafe == ASSUME WInv, SInv, Reconcile PROVE SInv'
<1>1. PICK gone \in SUBSET Record, calm \in BOOLEAN :
        /\ \A r \in gone : \E a \in Account : r = records[a] /\ r # None
        /\ Run([Begin("reconcile", None) EXCEPT !.at = "gone", !.gone = gone, !.calm = calm])
  BY ReconcileBegins
<1> DEFINE j == [Begin("reconcile", None) EXCEPT !.at = "gone", !.gone = gone, !.calm = calm]
<1>2. \A r \in gone : r.sub \in recorded /\ (r.stale => Off(r.sub))
  BY <1>1 DEF WInv, RecordsOK, SInv, Stale
<1>3. /\ Fits(j) /\ j.op = "reconcile" /\ j.at = "gone" /\ j.rec = None
      /\ j.gone = gone /\ ~j.missing
  BY <1>2, ReconcileFits
<1>4. Run(j)
  BY <1>1
<1> HIDE DEF j
<1>5. Holding(j) /\ Plain(j)
  BY <1>2, <1>3 DEF Holding, Fresh, Plain, Special
<1>6. /\ Fault \/ Sure
      /\ UNCHANGED <<records, recorded, forgotten, pending>>
  BY DEF Reconcile, phone, past
<1> QED BY <1>3, <1>4, <1>5, <1>6, ReconcileKeeps, RunSafe

\* A step that only moves the operation on, or ends it.
LEMMA GoSafe ==
  ASSUME WInv, SInv, Stays, Fault \/ Sure, UNCHANGED <<records, recorded, forgotten, pending>>,
         End \/ \E x \in Stages \ (Special \cup Removals) : Goto(x)
  PROVE  SInv'
<1>1. CASE End
  BY <1>1, EndSafe
<1>2. ASSUME NEW x \in Stages \ (Special \cup Removals), Goto(x) PROVE SInv'
  <2>1. job \in Job /\ job' = [job EXCEPT !.at = x]
    BY <1>2 DEF WInv, Fits, Stepping, Goto
  <2>2. job'.rec = job.rec /\ job'.op = job.op /\ job'.at = x /\ job'.gone = job.gone
    BY ONLY <2>1 DEF Job
  <2>3. job'.missing = job.missing
    BY ONLY <2>1 DEF Job
  <2>4. job'.renews = job.renews
    BY ONLY <2>1 DEF Job
  <2> QED BY <2>2, <2>3, <2>4, SameSafe DEF Fresh, Plain, Removals
<1> QED BY <1>1, <1>2

\* The device is ready: subscribe goes on, or the operation ends.
LEMMA ReadySafe ==
  ASSUME WInv, SInv, Stays, Fault \/ Sure, UNCHANGED <<records, recorded, forgotten, pending>>, DeviceReady
  PROVE  SInv'
<1> DEFINE x == IF job.renews THEN "create" ELSE "idle"
<1>1. x \in Stages \ (Special \cup Removals)
  BY DEF Stages, Special, Removals
<1>2. End \/ Goto(x)
  BY DEF DeviceReady, Run, End, Goto
<1> QED BY <1>1, <1>2, GoSafe

LEMMA PutDeviceSafe == ASSUME WInv, SInv, PutDevice PROVE SInv'
<1>1. /\ Fault \/ Sure
      /\ DeviceReady \/ End \/ Goto("register")
      /\ UNCHANGED <<records, recorded, forgotten, pending>>
  BY Zenon DEF PutDevice, past
<1>2. "register" \in Stages \ (Special \cup Removals)
  BY DEF Stages, Special, Removals
<1> QED BY <1>1, <1>2, PutDeviceKeeps, ReadySafe, GoSafe

LEMMA RegisterFailsSafe == ASSUME WInv, SInv, RegisterFails PROVE SInv'
<1>1. Fault /\ End /\ UNCHANGED <<records, recorded, forgotten, pending>>
  BY DEF RegisterFails, phone, past
<1> QED BY <1>1, RegisterFailsKeeps, EndSafe

LEMMA CrashSafe == ASSUME WInv, SInv, Crash PROVE SInv'
<1>1. Fault /\ End /\ UNCHANGED <<records, recorded, forgotten, pending>>
  BY DEF Crash, phone, past
<1> QED BY <1>1, CrashKeeps, EndSafe

LEMMA ProbeSafe == ASSUME WInv, SInv, Probe PROVE SInv'
<1>1. /\ Fault \/ Sure
      /\ \/ Run(Removing(job, job.rec, FALSE))
         \/ ~Known /\ Run(Subscribing(job))
         \/ End
      /\ job.at = "probe"
      /\ UNCHANGED <<records, recorded, forgotten, pending>>
  BY Zenon DEF Probe, At, ProbeFailed, past
<1>2. /\ Fits(job) /\ job.at # "retry" /\ job.op \in Renewers /\ job.rec # None
      /\ job.rec \in Record /\ job.rec.sub \in recorded /\ token \in 1..MaxTokens
  BY <1>1 DEF WInv, RestOK, Fits, Stepping, Naming, Job
<1>3. Holding(job) /\ Stays
  BY ProbeKeeps DEF SInv
<1>4. CASE Run(Removing(job, job.rec, FALSE))
  <2>1. Fits(Removing(job, job.rec, FALSE))
    <3>1. records[job.a] # None => records[job.a].sub = job.rec.sub
      BY <1>2 DEF Fits, Replacing, Renewers
    <3> QED BY <1>2, <3>1, RemovingFits
  <2>2. /\ Holding(Removing(job, job.rec, FALSE))
        /\ Plain(Removing(job, job.rec, FALSE))
    <3>1. /\ job.rec.stale => Off(job.rec.sub)
          /\ job.op = "check" /\ job.missing /\ job.renews => Off(job.rec.sub)
          /\ \A g \in job.gone : g.stale => Off(g.sub)
      BY <1>2, <1>3 DEF Holding
    <3> QED BY <1>2, <3>1, RemovingHolds
  <2> QED BY <1>1, <1>3, <1>4, <2>1, <2>2, RunSafe
<1>5. CASE ~Known /\ Run(Subscribing(job))
  <2>1. Off(job.rec.sub)
    BY <1>2, <1>5, UnknownIsOff DEF Record
  <2>2. Fits(Subscribing(job)) /\ Holding(Subscribing(job)) /\ Plain(Subscribing(job))
    BY <1>2, <1>3, <2>1, SubscribingFits, SubscribingHolds
  <2> QED BY <1>1, <1>3, <1>5, <2>2, RunSafe
<1> QED BY <1>1, <1>3, <1>4, <1>5, EndSafe

LEMMA RegisterDeviceSafe == ASSUME WInv, SInv, RegisterDevice PROVE SInv'
<1>1. /\ Fault \/ Sure
      /\ \/ device' = [id |-> registered + 1, token |-> job.tok] /\ Goto("mark")
         \/ End
      /\ registered < MaxDevices
      /\ UNCHANGED <<home, made, records, recorded, forgotten, pending>>
  BY Zenon DEF RegisterDevice, past
<1>2. Stays
  BY RegisterDeviceKeeps
<1>3. CASE End
  BY <1>1, <1>2, <1>3, EndSafe
<1>4. CASE device' = [id |-> registered + 1, token |-> job.tok] /\ Goto("mark")
  <2>1. job \in Job /\ job' = [job EXCEPT !.at = "mark"]
    BY <1>4 DEF WInv, Fits, Stepping, Goto
  <2>2. job'.rec = job.rec /\ job'.op = job.op /\ job'.at = "mark" /\ job'.gone = job.gone
    BY ONLY <2>1 DEF Job
  <2>3. job'.missing = job.missing
    BY ONLY <2>1 DEF Job
  <2>4. job'.renews = job.renews
    BY ONLY <2>1 DEF Job
  <2>5. Holding(job)'
    BY <1>2, <2>2, <2>3, <2>4, SameHolds
  <2>6. Stale' /\ RemovalsRemembered'
    BY <1>1, <1>2, StaleStays, RememberingStays DEF SInv
  <2>7. Marking'
    <3>1. \A s \in 1..made : s \in Sub /\ home[s] <= registered /\ home[s] \in 0..MaxDevices
      BY ManagerAssumption DEF WInv, RelayOK, Sub
    <3>2. registered \in Nat
      BY DEF WInv, RelayOK
    <3>3. device'.id = registered + 1
      BY <1>4
    <3>4. \A s \in 1..made : home'[s] # device'.id
      BY <1>1, <3>1, <3>2, <3>3
    <3> QED BY <1>1, <3>4 DEF Marking, Off
  <2>8. Reached' /\ Retrying' /\ Cleaning'
    BY <2>2 DEF Reached, Retrying, Cleaning
  <2>9. Fresh(job)'
    BY <2>2 DEF Fresh
  <2> QED BY <2>5, <2>6, <2>7, <2>8, <2>9 DEF SInv
<1> QED BY <1>1, <1>3, <1>4

LEMMA MarkStaleSafe == ASSUME WInv, SInv, MarkStale PROVE SInv'
<1> DEFINE x == IF job.renews THEN "create" ELSE "idle"
           k == [job EXCEPT !.at = x]
<1>1. /\ Fault \/ Sure
      /\ records' = [a \in Account |-> IF records[a] = None THEN None
                                       ELSE [records[a] EXCEPT !.stale = TRUE]]
      /\ pending' = <<>>
      /\ Run(k)
      /\ job.at = "mark"
      /\ UNCHANGED <<relay, device, recorded>>
  BY Zenon DEF MarkStale, At, DeviceReady, past
<1>2. Stays /\ WInv'
  BY MarkStaleKeeps
<1>3. \A s \in 1..made : Off(s)'
  BY <1>1, <1>2, StaysOff DEF SInv, Marking
<1>4. \A s \in recorded' : s \in 1..made
  BY <1>1, Issued
<1>5. Stale'
  <2>1. \A a \in Account : records'[a] # None => records'[a].sub \in recorded'
    BY <1>2 DEF WInv, RecordsOK
  <2> QED BY <1>3, <1>4, <2>1 DEF Stale
<1>6. RemovalsRemembered'
  BY <1>3, <1>4 DEF RemovalsRemembered, Off
<1>7. Holding(job)' /\ Plain(job)'
  <2>1. Fits(k) /\ job \in Job
    BY <1>1, ReadyJobFits DEF WInv, Fits, Stepping
  <2>2. x \notin Special \cup Removals
    BY DEF Special, Removals
  <2> HIDE DEF x
  <2>3. k.at = x /\ k.rec = job.rec /\ k.op = job.op /\ k.gone = job.gone
    BY ONLY <2>1 DEF Job
  <2>4. k.missing = job.missing
    BY ONLY <2>1 DEF Job
  <2>5. k.renews = job.renews
    BY ONLY <2>1 DEF Job
  <2> HIDE DEF k
  <2>6. CASE k.at = "idle"
    <3>1. job' = Idle
      BY <1>1, <2>6 DEF Run
    <3> QED BY <3>1 DEF Holding, Idle, Fresh, Plain, Special
  <2>7. CASE k.at # "idle"
    <3>1. job' = k
      BY <1>1, <2>7 DEF Run
    <3> QED BY <1>2, <2>2, <2>3, <2>4, <2>5, <3>1, SameHolds DEF Plain, Fresh, Removals
  <2> QED BY <2>6, <2>7
<1>8. Marking' /\ Reached' /\ Retrying' /\ Cleaning'
  BY <1>7 DEF Fresh, Plain, Special, Marking, Reached, Retrying, Cleaning
<1> QED BY <1>5, <1>6, <1>7, <1>8 DEF SInv, Plain

LEMMA CreateSubscriptionSafe == ASSUME WInv, SInv, CreateSubscription PROVE SInv'
<1> DEFINE n == [sub |-> made + 1, key |-> job.key, stale |-> FALSE]
           x == IF Known THEN "put" ELSE "register"
           ways == \/ job' = [job EXCEPT !.at = "keys", !.next = n]
                   \/ job' = [job EXCEPT !.retried = TRUE, !.at = x]
<1>1. /\ Fault \/ Sure
      /\ ways \/ End
      /\ UNCHANGED <<records, recorded, forgotten, pending>>
  BY Zenon DEF CreateSubscription, phone, past
<1>2. job \in Job
  BY DEF WInv, Fits, Stepping
<1>3. Stays
  BY CreateSubscriptionKeeps
<1>4. x \in {"put", "register"}
  OBVIOUS
<1> HIDE DEF n, x
<1>5. CASE ways
  <2>1. /\ job'.rec = job.rec /\ job'.op = job.op /\ job'.at \in {"keys", x}
        /\ job'.gone = job.gone
    BY ONLY <1>2, <1>5 DEF Job
  <2>2. job'.missing = job.missing
    BY ONLY <1>2, <1>5 DEF Job
  <2>3. job'.renews = job.renews
    BY ONLY <1>2, <1>5 DEF Job
  <2>4. Plain(job)'
    BY <1>4, <2>1 DEF Plain, Fresh, Special
  <2> QED BY <1>1, <1>3, <2>1, <2>2, <2>3, <2>4, SameSafe
<1> HIDE DEF ways
<1> QED BY <1>1, <1>3, <1>5, EndSafe

LEMMA CreateKeysSafe == ASSUME WInv, SInv, CreateKeys PROVE SInv'
<1>1. /\ Fault \/ Sure
      /\ Goto("pusher") \/ Goto("undo")
      /\ UNCHANGED <<records, recorded, forgotten, pending>>
  BY Zenon DEF CreateKeys, past
<1>2. {"pusher", "undo"} \subseteq Stages \ (Special \cup Removals)
  BY DEF Stages, Special, Removals
<1> QED BY <1>1, <1>2, CreateKeysKeeps, GoSafe

LEMMA RegisterPusherSafe == ASSUME WInv, SInv, RegisterPusher PROVE SInv'
<1> DEFINE j == Removing(job, job.rec, TRUE)
<1>1. /\ Fault \/ Sure
      /\ \/ Goto("commit") \/ Goto("unkeys")
         \/ job.rec # None /\ Run(j)
      /\ job.at = "pusher"
      /\ UNCHANGED <<records, recorded, forgotten, pending>>
  BY Zenon DEF RegisterPusher, At, phone, past
<1>2. Stays
  BY RegisterPusherKeeps
<1>3. CASE Goto("commit") \/ Goto("unkeys")
  <2>1. {"commit", "unkeys"} \subseteq Stages \ (Special \cup Removals)
    BY DEF Stages, Special, Removals
  <2> QED BY <1>1, <1>2, <1>3, <2>1, GoSafe
<1>4. CASE job.rec # None /\ Run(j)
  <2>1. /\ Fits(job) /\ job.op \in Renewers /\ job.a \in Account /\ job.gone = {}
        /\ job.rec \in Record /\ job.rec.sub \in recorded
        /\ records[job.a] # None => records[job.a].sub = job.rec.sub
    BY <1>1, <1>4 DEF WInv, Fits, Stepping, Naming, Replacing, Renewers, Job
  <2>2. Fits(j)
    BY <1>1, <2>1, RemovingFits
  <2>3. /\ job.rec.stale => Off(job.rec.sub)
        /\ job.op = "check" /\ job.missing /\ job.renews => Off(job.rec.sub)
        /\ \A g \in job.gone : g.stale => Off(g.sub)
    BY <1>4 DEF SInv, Holding
  <2>4. Holding(j) /\ Plain(j)
    BY <2>1, <2>3, RemovingHolds
  <2> HIDE DEF j
  <2> QED BY <1>1, <1>2, <1>4, <2>2, <2>4, RunSafe
<1> QED BY <1>1, <1>3, <1>4

LEMMA UndoSafe == ASSUME WInv, SInv, UndoKeys \/ UndoRelay PROVE SInv'
<1>1. Stays
  BY UndoKeysKeeps, UndoRelayKeeps
<1>2. CASE UndoKeys
  <2>1. Fault \/ Sure
    BY <1>2 DEF UndoKeys
  <2>2. Goto("undo") /\ UNCHANGED <<records, recorded, forgotten, pending>>
    BY <1>2 DEF UndoKeys, past
  <2>3. "undo" \in Stages \ (Special \cup Removals)
    BY DEF Stages, Special, Removals
  <2> QED BY <1>1, <2>1, <2>2, <2>3, GoSafe
<1>3. CASE UndoRelay
  <2>1. (Fault \/ Sure) /\ End /\ UNCHANGED <<records, recorded, forgotten, pending>>
    BY <1>3 DEF UndoRelay, phone, past
  <2> QED BY <1>1, <2>1, EndSafe
<1> QED BY <1>2, <1>3

LEMMA CommitSafe == ASSUME WInv, SInv, Commit PROVE SInv'
<1>1. /\ Fault \/ Sure
      /\ End
      /\ records' = [records EXCEPT ![job.a] = job.next]
      /\ recorded' = recorded \cup {job.next.sub}
      /\ forgotten' = IF job.unread /\ records[job.a] # None
                        THEN forgotten \cup {records[job.a].sub} ELSE forgotten
      /\ job.at = "commit"
      /\ UNCHANGED <<relay, device, pending>>
  BY Zenon DEF Commit, At
<1>2. Stays
  BY CommitKeeps
<1>3. /\ job.a \in Account /\ job.next # None /\ ~job.next.stale
      /\ job.unread \/ records[job.a] = None
      /\ records \in [Account -> Record \cup {None}]
  BY <1>1 DEF WInv, RecordsOK, Fits, Stepping, Naming, Replacing
<1>4. job' = Idle
  BY <1>1 DEF End
<1>5. /\ Holding(job)' /\ Fresh(job)' /\ Marking' /\ Reached' /\ Retrying' /\ Cleaning'
  BY <1>4 DEF Idle, Holding, Fresh, Marking, Reached, Retrying, Cleaning
<1>6. Stale'
  <2>1. ASSUME NEW a \in Account, records'[a] # None, records'[a].stale
        PROVE  Off(records[a].sub)'
    <3>1. records'[a] = records[a]
      BY <1>1, <1>3, <2>1
    <3>2. PICK s \in 1..made : s = records[a].sub
      BY <2>1, <3>1, Issued
    <3>3. Off(s)'
      BY <1>2, <2>1, <3>1, <3>2, StaysOff DEF SInv, Stale
    <3> QED BY <3>1, <3>2, <3>3
  <2> QED BY <2>1 DEF Stale
<1>7. RemovalsRemembered'
  <2>1. \A a \in Account : records'[a] = IF a = job.a THEN job.next ELSE records[a]
    BY <1>1, <1>3
  <2>2. Recorded \subseteq Recorded' \cup forgotten'
    <3>1. ASSUME NEW a \in Account, records[a] # None
          PROVE  records[a].sub \in Recorded' \cup forgotten'
      <4>1. CASE a = job.a
        BY <1>1, <1>3, <3>1, <4>1
      <4>2. CASE a # job.a
        <5>1. records'[a] = records[a]
          BY <2>1, <4>2
        <5> QED BY <3>1, <5>1 DEF Recorded
      <4> QED BY <4>1, <4>2
    <3> QED BY <3>1 DEF Recorded
  <2>3. job.next.sub \in Recorded'
    <3>1. records'[job.a] = job.next
      BY <1>3, <2>1
    <3> QED BY <1>3, <3>1 DEF Recorded
  <2>4. ASSUME NEW s \in recorded' \ (Recorded' \cup forgotten')
        PROVE  Off(s)' \/ s \in ToSet(pending')
    <3>1. s \in recorded \ (Recorded \cup forgotten)
      BY <1>1, <2>2, <2>3, <2>4
    <3>2. Off(s) \/ s \in ToSet(pending)
      BY <3>1, RememberingIs DEF SInv
    <3> QED BY <1>1, <1>2, <3>1, <3>2, Issued, StaysOff
  <2> QED BY <2>4 DEF RemovalsRemembered, Off
<1> QED BY <1>5, <1>6, <1>7 DEF SInv

-----------------------------------------------------------------------------
(* Removals remember what they could not do *)

LEMMA RemovePusherSafe == ASSUME WInv, SInv, RemovePusher PROVE SInv'
<1>1. /\ Fault \/ Sure
      /\ job.at = "rmPusher" /\ job' = [job EXCEPT !.at = "rmRelay"]
      /\ UNCHANGED <<records, recorded, forgotten, pending>>
  BY Zenon DEF RemovePusher, At, Goto, phone, past
<1>2. job \in Job /\ ~job.pend
  BY <1>1 DEF WInv, Fits, Stepping, SInv, Fresh
<1>3. job'.rec = job.rec /\ job'.op = job.op /\ job'.at = "rmRelay" /\ job'.gone = job.gone
  BY <1>1, <1>2 DEF Job
<1>4. job'.missing = job.missing
  BY <1>1, <1>2 DEF Job
<1>5. job'.renews = job.renews
  BY <1>1, <1>2 DEF Job
<1>6. ~job'.pend
  BY <1>1, <1>2 DEF Job
<1>7. Plain(job)'
  BY <1>3, <1>6 DEF Plain, Fresh, Special
<1> QED BY <1>1, <1>3, <1>4, <1>5, <1>7, RemovePusherKeeps, SameSafe

\* A step of a removal after its relay call.
LEMMA RemovalSafe ==
  ASSUME WInv, SInv, Stays, Fault \/ Sure, UNCHANGED <<records, recorded, forgotten, pending>>,
         job'.rec = job.rec, job'.op = job.op, job'.missing = job.missing,
         job'.renews = job.renews, job'.gone = job.gone, job'.at \in {"rmKeys", "rmState"},
         job'.pend \/ Off(job.rec.sub)'
  PROVE  SInv'
<1>1. Holding(job)' /\ Stale' /\ RemovalsRemembered'
  BY SameHolds, StaleStays, RememberingStays DEF SInv
<1>2. Fresh(job)' /\ Marking' /\ Reached' /\ Retrying' /\ Cleaning'
  BY DEF Fresh, Marking, Reached, Retrying, Cleaning
<1> QED BY <1>1, <1>2 DEF SInv

LEMMA RemoveRelaySafe == ASSUME WInv, SInv, RemoveRelay PROVE SInv'
<1> DEFINE plain == job' = [job EXCEPT !.at = "rmKeys"]
           pend == job' = [job EXCEPT !.at = "rmKeys", !.pend = TRUE, !.calm = FALSE]
<1>1. /\ Fault \/ Sure
      /\ \/ /\ plain
            /\ home' = IF job.rec.stale \/ device.id = 0 THEN home ELSE Removed(job.rec.sub)
         \/ pend /\ Fault
      /\ job.at = "rmRelay"
      /\ UNCHANGED <<rows, device, records, recorded, forgotten, pending>>
  BY Zenon DEF RemoveRelay, At, Goto, Unreached, phone, past
<1>2. Stays
  BY RemoveRelayKeeps
<1>3. /\ job \in Job /\ ~job.pend /\ job.rec # None /\ job.rec \in Record
      /\ job.rec.sub \in 1..made /\ job.rec.sub \in Sub
  BY <1>1, Issued DEF WInv, Fits, Stepping, Naming, SInv, Fresh, Job, Record, Removals
<1>4. PICK s \in 1..made : s = job.rec.sub /\ s \in Sub
  BY <1>3
<1>5. job'.rec = job.rec /\ job'.op = job.op /\ job'.at = "rmKeys" /\ job'.gone = job.gone
  BY ONLY <1>1, <1>3 DEF Job
<1>6. job'.missing = job.missing
  BY ONLY <1>1, <1>3 DEF Job
<1>7. job'.renews = job.renews
  BY ONLY <1>1, <1>3 DEF Job
<1>8. CASE plain /\ home' = IF job.rec.stale \/ device.id = 0 THEN home
                                                         ELSE Removed(job.rec.sub)
  <2>2. Off(s)'
    <3>1. CASE job.rec.stale
      BY <1>2, <1>3, <1>4, <3>1, StaysOff DEF SInv, Holding
    <3>2. CASE device.id = 0
      BY <1>1, <3>2 DEF Off
    <3>3. CASE ~job.rec.stale /\ device.id # 0
      <4>1. home' = Removed(s) /\ home \in [Sub -> 0..MaxDevices]
        BY <1>8, <1>4, <3>3 DEF WInv, RelayOK
      <4>2. CASE home[s] = device.id /\ Known
        BY <1>1, <1>4, <3>3, <4>1, <4>2 DEF Off, Removed
      <4>3. CASE home[s] # device.id
        BY <1>1, <1>4, <4>1, <4>3 DEF Off, Removed
      <4>4. CASE ~Known
        BY <1>2, <1>4, <4>4, UnknownIsOff, StaysOff
      <4> QED BY <4>2, <4>3, <4>4
    <3> QED BY <3>1, <3>2, <3>3
  <2> HIDE DEF plain
  <2>3. Off(job.rec.sub)'
    BY <1>5, <1>4, <2>2
  <2> QED BY <1>1, <1>2, <1>5, <1>6, <1>7, <2>3, RemovalSafe
<1>9. CASE pend /\ Fault
  <2>1. job'.pend
    BY ONLY <1>3, <1>9 DEF Job
  <2> HIDE DEF pend
  <2> QED BY <1>1, <1>2, <1>5, <1>6, <1>7, <1>9, <2>1, RemovalSafe
<1> QED BY <1>1, <1>8, <1>9

LEMMA RemoveKeysSafe == ASSUME WInv, SInv, RemoveKeys PROVE SInv'
<1> DEFINE ways == \/ job' = [job EXCEPT !.at = "rmState"]
                   \/ job' = [job EXCEPT !.at = "rmState", !.calm = FALSE]
<1>1. /\ Fault \/ Sure
      /\ ways
      /\ job.at = "rmKeys"
      /\ UNCHANGED <<records, recorded, forgotten, pending>>
  BY Zenon DEF RemoveKeys, At, Goto, past
<1>2. Stays
  BY RemoveKeysKeeps
<1>3. job \in Job /\ job.rec # None /\ job.rec.sub \in 1..made
  BY <1>1, Issued DEF WInv, Fits, Stepping, Naming, Removals
<1>4. job'.rec = job.rec /\ job'.op = job.op /\ job'.at = "rmState" /\ job'.gone = job.gone
  BY ONLY <1>1, <1>3 DEF Job
<1>5. job'.missing = job.missing
  BY ONLY <1>1, <1>3 DEF Job
<1>6. job'.renews = job.renews
  BY ONLY <1>1, <1>3 DEF Job
<1>7. job'.pend = job.pend
  BY ONLY <1>1, <1>3 DEF Job
<1> HIDE DEF ways
<1>8. job'.pend \/ Off(job.rec.sub)'
  <2>1. PICK s \in 1..made : s = job.rec.sub
    BY <1>3
  <2>2. job.pend \/ Off(s)'
    BY <1>1, <1>2, <2>1, StaysOff DEF SInv, Reached
  <2> QED BY <1>4, <1>7, <2>1, <2>2
<1> QED BY <1>1, <1>2, <1>4, <1>5, <1>6, <1>8, RemovalSafe

\* The members of a sequence.
LEMMA Members ==
  ASSUME NEW q \in Seq(Sub)
  PROVE  /\ q = <<>> => ToSet(q) = {}
         /\ q # <<>> => ToSet(q) = {Head(q)} \cup ToSet(Tail(q))
         /\ \A x \in Sub : ToSet(Append(q, x)) = ToSet(q) \cup {x}
<1>1. Len(q) \in Nat /\ q \in [1..Len(q) -> Sub]
  BY LenProperties
<1>2. ToSet(q) = {q[i] : i \in 1..Len(q)}
  BY <1>1 DEF ToSet
<1>3. q = <<>> => ToSet(q) = {}
  BY <1>2
<1>4. ASSUME q # <<>> PROVE ToSet(q) = {Head(q)} \cup ToSet(Tail(q))
  <2>1. /\ Tail(q) \in Seq(Sub) /\ Len(Tail(q)) = Len(q) - 1 /\ Head(q) = q[1] /\ Len(q) >= 1
        /\ \A i \in 1..Len(Tail(q)) : Tail(q)[i] = q[i + 1]
    BY <1>1, <1>4, HeadTailProperties
  <2>2. ToSet(Tail(q)) = {Tail(q)[i] : i \in 1..Len(Tail(q))}
    BY <2>1, LenProperties DEF ToSet
  <2>3. ASSUME NEW i \in 1..Len(q) PROVE q[i] \in {Head(q)} \cup ToSet(Tail(q))
    <3>1. CASE i = 1
      BY <2>1, <3>1
    <3>2. CASE i # 1
      <4>1. i - 1 \in 1..Len(Tail(q)) /\ Tail(q)[i - 1] = q[i]
        BY <1>1, <2>1, <3>2
      <4> QED BY <2>2, <4>1
    <3> QED BY <3>1, <3>2
  <2>4. ASSUME NEW i \in 1..Len(Tail(q)) PROVE Tail(q)[i] \in ToSet(q)
    <3>1. i + 1 \in 1..Len(q) /\ Tail(q)[i] = q[i + 1]
      BY <1>1, <2>1
    <3> QED BY <1>2, <3>1
  <2>5. Head(q) \in ToSet(q)
    <3>1. 1 \in 1..Len(q)
      BY <1>1, <2>1
    <3> QED BY <1>2, <2>1, <3>1
  <2> QED BY <1>2, <2>2, <2>3, <2>4, <2>5
<1>5. ASSUME NEW x \in Sub PROVE ToSet(Append(q, x)) = ToSet(q) \cup {x}
  <2>1. /\ Append(q, x) \in Seq(Sub) /\ Len(Append(q, x)) = Len(q) + 1
        /\ \A i \in 1..Len(q) : Append(q, x)[i] = q[i]
        /\ Append(q, x)[Len(q) + 1] = x
    BY AppendProperties
  <2>2. ToSet(Append(q, x)) = {Append(q, x)[i] : i \in 1..(Len(q) + 1)}
    BY <2>1, LenProperties DEF ToSet
  <2>3. ASSUME NEW i \in 1..(Len(q) + 1) PROVE Append(q, x)[i] \in ToSet(q) \cup {x}
    <3>1. CASE i = Len(q) + 1
      BY <2>1, <3>1
    <3>2. CASE i # Len(q) + 1
      <4>1. i \in 1..Len(q)
        BY <1>1, <3>2
      <4> QED BY <1>2, <2>1, <4>1
    <3> QED BY <3>1, <3>2
  <2>4. ASSUME NEW i \in 1..Len(q) PROVE q[i] \in ToSet(Append(q, x))
    <3>1. i \in 1..(Len(q) + 1) /\ Append(q, x)[i] = q[i]
      BY <1>1, <2>1
    <3> QED BY <2>2, <3>1
  <2>5. x \in ToSet(Append(q, x))
    <3>1. Len(q) + 1 \in 1..(Len(q) + 1)
      BY <1>1
    <3> QED BY <2>1, <2>2, <3>1
  <2> QED BY <1>2, <2>2, <2>3, <2>4, <2>5
<1> QED BY <1>3, <1>4, <1>5

LEMMA RemoveStateSafe == ASSUME WInv, SInv, RemoveState PROVE SInv'
<1> DEFINE x == CASE job.op = "reconcile" -> "gone"
                  [] job.next # None -> "commit"
                  [] OTHER -> "idle"
           k == [job EXCEPT !.at = x]
<1>1. /\ Fault \/ Sure
      /\ job.at = "rmState"
      /\ records' = [a \in Account |-> IF records[a] # None /\ records[a].sub = job.rec.sub
                                         THEN None ELSE records[a]]
      /\ pending' = IF job.pend THEN Kept(Append(pending, job.rec.sub)) ELSE pending
      /\ forgotten' = IF job.pend
                        THEN forgotten \cup ToSet(Oldest(Append(pending, job.rec.sub)))
                        ELSE forgotten
      /\ Run(k)
      /\ recorded' = recorded
  BY Zenon DEF RemoveState, At, past
<1>2. Stays
  BY RemoveStateKeeps
<1>3. /\ job \in Job /\ job.rec # None /\ job.rec.sub \in 1..made /\ job.rec.sub \in Sub
      /\ pending \in Seq(Sub) /\ job.pend \in BOOLEAN
  BY <1>1, Issued DEF WInv, Fits, Stepping, Naming, Removals, Job, Record, PendingOK
<1>4. x \in {"gone", "commit", "idle"}
  OBVIOUS
<1> HIDE DEF x
<1>5. PICK s \in 1..made : s = job.rec.sub /\ s \in Sub
  BY <1>3
<1>6. \A a \in Account : records'[a] =
        IF records[a] # None /\ records[a].sub = s THEN None ELSE records[a]
  BY <1>1, <1>5
<1>7. /\ Append(pending, s) \in Seq(Sub) /\ Len(Append(pending, s)) = Len(pending) + 1
      /\ ToSet(Append(pending, s)) = ToSet(pending) \cup {s}
      /\ Len(pending) \in Nat
  BY <1>3, <1>5, AppendProperties, LenProperties, Members
<1>8. Holding(job)' /\ Plain(job)'
  <2>1. k.at = x /\ k.rec = job.rec /\ k.op = job.op /\ k.gone = job.gone
    BY ONLY <1>3 DEF Job
  <2>2. k.missing = job.missing
    BY ONLY <1>3 DEF Job
  <2>3. k.renews = job.renews
    BY ONLY <1>3 DEF Job
  <2> HIDE DEF k
  <2>4. CASE k.at = "idle"
    <3>1. job' = Idle
      BY <1>1, <2>4 DEF Run
    <3> QED BY <3>1 DEF Holding, Idle, Fresh, Plain, Special
  <2>5. CASE k.at # "idle"
    <3>1. job' = k
      BY <1>1, <2>5 DEF Run
    <3>2. Holding(job)'
      BY <1>2, <2>1, <2>2, <2>3, <3>1, SameHolds
    <3> QED BY <1>4, <2>1, <3>1, <3>2 DEF Fresh, Plain, Special
  <2> QED BY <2>4, <2>5
<1>9. Stale'
  <2>1. ASSUME NEW a \in Account, records'[a] # None, records'[a].stale
        PROVE  Off(records[a].sub)'
    <3>1. records'[a] = records[a]
      BY <1>6, <2>1
    <3>2. PICK t \in 1..made : t = records[a].sub
      BY <2>1, <3>1, Issued
    <3>3. Off(t)'
      BY <1>2, <2>1, <3>1, <3>2, StaysOff DEF SInv, Stale
    <3> QED BY <3>1, <3>2, <3>3
  <2> QED BY <2>1 DEF Stale
<1>10. RemovalsRemembered'
  <2> SUFFICES ASSUME NEW t \in recorded' \ (Recorded' \cup forgotten')
               PROVE  Off(t)' \/ t \in ToSet(pending')
    BY DEF RemovalsRemembered, Off
  <2>1. t \in recorded /\ t \in 1..made /\ t \notin forgotten
    BY <1>1, Issued
  <2>2. /\ t \in ToSet(pending) => t \in ToSet(pending')
        /\ job.pend /\ t = s => t \in ToSet(pending')
    <3>1. CASE job.pend
      <4>1. /\ pending' = Kept(Append(pending, s))
            /\ forgotten' = forgotten \cup ToSet(Oldest(Append(pending, s)))
        BY <1>1, <1>5, <3>1
      <4> QED BY <1>7, <4>1, OldestIs
    <3>2. CASE ~job.pend
      BY <1>1, <3>2
    <3> QED BY <1>3, <3>1, <3>2
  <2>3. CASE t = s
    <3>1. job.pend \/ Off(s)
      BY <1>1, <1>5 DEF SInv, Reached
    <3> QED BY <1>2, <2>2, <2>3, <3>1, StaysOff
  <2>4. CASE t # s
    <3>1. t \notin Recorded
      <4>1. \A a \in Account : records[a] # None /\ records[a].sub = t => records'[a] = records[a]
        BY <1>6, <2>4
      <4> QED BY <4>1 DEF Recorded
    <3>2. Off(t) \/ t \in ToSet(pending)
      BY <2>1, <3>1, RememberingIs DEF SInv
    <3> QED BY <1>2, <2>1, <2>2, <3>2, StaysOff
  <2> QED BY <2>3, <2>4
<1>11. Marking' /\ Reached' /\ Retrying' /\ Cleaning'
  BY <1>8 DEF Plain, Special, Marking, Reached, Retrying, Cleaning
<1> QED BY <1>8, <1>9, <1>10, <1>11 DEF SInv, Plain

-----------------------------------------------------------------------------
(* reconcile ends clean *)

\* A step of reconcile after the accounts that are gone.
LEMMA ReconcileStepSafe ==
  ASSUME WInv, SInv, Stays, Fault \/ Sure, UNCHANGED <<records, recorded, forgotten, pending>>,
         job'.op = "reconcile", job'.rec \in {None, job.rec}, job'.gone = job.gone,
         job'.at \in {"orphans", "orphanRelay", "retry"}, Retrying', Cleaning'
  PROVE  SInv'
<1>1. Holding(job)'
  <2> Naming(job) /\ Holding(job)
    BY DEF SInv, WInv, Fits
  <2>0. \A r \in job.gone : r.stale => Off(r.sub)'
    BY GoneOff
  <2>1. CASE job'.rec = None
    BY <2>0, <2>1 DEF Holding
  <2>2. CASE job'.rec = job.rec /\ job.rec # None
    <3>1. PICK s \in 1..made : s = job.rec.sub
      BY <2>2, Issued DEF WInv, Fits, Naming
    <3>2. job.rec.stale => Off(s)'
      BY <2>2, <3>1, StaysOff DEF SInv, Holding
    <3> QED BY <2>0, <2>2, <3>1, <3>2 DEF Holding
  <2> QED BY <2>1, <2>2
<1>2. Stale' /\ RemovalsRemembered'
  BY StaleStays, RememberingStays DEF SInv
<1>3. Fresh(job)' /\ Marking' /\ Reached'
  BY DEF Fresh, Marking, Reached
<1> QED BY <1>1, <1>2, <1>3 DEF SInv

LEMMA DropGoneSafe == ASSUME WInv, SInv, DropGone PROVE SInv'
<1>1. /\ Fault \/ Sure
      /\ job.at = "gone"
      /\ \/ \E r \in job.gone : job' = [Removing(job, r, FALSE) EXCEPT !.gone = @ \ {r}]
         \/ \E q \in Seq(Sub), calm \in BOOLEAN :
              /\ job' = [job EXCEPT !.at = "orphans", !.rec = None, !.queue = q, !.calm = calm]
              /\ calm => ToSet(q) = native \ Recorded
      /\ UNCHANGED <<relay, world, pushers, people, phone, past>>
  BY DropGoneIs
<1>2. Stays /\ UNCHANGED <<native, records, recorded, forgotten, pending>>
  BY <1>1, DropGoneKeeps DEF phone, past
<1>3. job \in Job /\ job.op = "reconcile" /\ Holding(job) /\ job.gone \subseteq Record
  BY <1>1 DEF WInv, Fits, Stepping, SInv, Job
<1>4. ASSUME NEW r \in job.gone, job' = [Removing(job, r, FALSE) EXCEPT !.gone = @ \ {r}]
      PROVE  SInv'
  <2> DEFINE k == [Removing(job, r, FALSE) EXCEPT !.gone = @ \ {r}]
  <2>1. Fits(k)
    BY <1>1, GoneFits
  <2>2. /\ k.rec = r /\ k.op = "reconcile" /\ k.at = "rmRelay" /\ k.gone = job.gone \ {r}
        /\ k.pend = FALSE
    BY ONLY <1>3 DEF Job, Removing
  <2>3. job' = k
    BY <1>4
  <2> HIDE DEF k
  <2>4. Holding(k) /\ Plain(k)
    BY <1>3, <2>2 DEF Holding, Fresh, Plain, Special
  <2> QED BY <1>1, <1>2, <2>1, <2>3, <2>4, PlainSafe
<1>5. ASSUME NEW q \in Seq(Sub), NEW calm \in BOOLEAN,
             job' = [job EXCEPT !.at = "orphans", !.rec = None, !.queue = q, !.calm = calm],
             calm => ToSet(q) = native \ Recorded
      PROVE  SInv'
  <2>1. /\ job'.at = "orphans" /\ job'.rec = None /\ job'.op = "reconcile"
        /\ job'.gone = job.gone /\ job'.queue = q /\ job'.calm = calm
    BY ONLY <1>3, <1>5 DEF Job
  <2>2. Retrying'
    BY <2>1 DEF Retrying
  <2>3. Recorded' = Recorded /\ native' = native
    BY <1>2 DEF Recorded
  <2>4. Cleaning'
    BY <1>5, <2>1, <2>3 DEF Cleaning
  <2> QED BY <1>1, <1>2, <2>1, <2>2, <2>4, ReconcileStepSafe
<1> QED BY <1>1, <1>4, <1>5

LEMMA DropOrphanSafe == ASSUME WInv, SInv, DropOrphan PROVE SInv'
<1> DEFINE x == IF device.id = 0 THEN "orphans" ELSE "orphanRelay"
           q == IF device.id = 0 THEN Tail(job.queue) ELSE job.queue
           next == [job EXCEPT !.at = IF device.id = 0 THEN "orphans" ELSE "orphanRelay",
                               !.queue = IF device.id = 0 THEN Tail(@) ELSE @]
           done == native' = native \ {Head(job.queue)} /\ job' = next
           failed == job' = [next EXCEPT !.calm = FALSE]
<1>1. /\ Fault \/ Sure
      /\ job.at = "orphans" /\ job.queue # <<>>
      /\ done \/ failed
      /\ UNCHANGED <<records, recorded, forgotten, pending>>
  BY Zenon DEF DropOrphan, At, past
<1>2. Stays
  BY DropOrphanKeeps
<1>3. job \in Job /\ job.op = "reconcile" /\ job.queue \in Seq(Sub)
  BY <1>1 DEF WInv, Fits, Stepping, Job
<1>4. next = [job EXCEPT !.at = x, !.queue = q] /\ x \in {"orphans", "orphanRelay"}
  OBVIOUS
<1>5. \/ x = "orphans" /\ q = Tail(job.queue)
      \/ x = "orphanRelay" /\ q = job.queue
  OBVIOUS
<1> HIDE DEF x, q, next
<1>6. /\ job'.at = x /\ job'.rec = job.rec /\ job'.op = "reconcile" /\ job'.queue = q
      /\ job'.gone = job.gone
  BY ONLY <1>1, <1>3, <1>4 DEF Job
<1>7. Retrying'
  BY <1>4, <1>6 DEF Retrying
<1>8. Recorded' = Recorded
  BY <1>1 DEF Recorded
<1>9. Cleaning'
  <2>1. CASE done
    <3>1. job'.calm = job.calm
      BY ONLY <1>3, <1>4, <2>1 DEF Job
    <3>2. ToSet(job.queue) = {Head(job.queue)} \cup ToSet(Tail(job.queue))
      BY <1>1, <1>3, Members
    <3>3. job.calm => native' \subseteq Recorded \cup ToSet(Tail(job.queue))
      BY <1>1, <2>1, <3>2 DEF SInv, Cleaning
    <3>4. /\ x = "orphans" => job'.queue = Tail(job.queue)
          /\ x = "orphanRelay" => job'.queue = job.queue
      BY <1>5, <1>6
    <3> QED BY <1>4, <1>6, <1>8, <3>1, <3>3, <3>4 DEF Cleaning
  <2>2. CASE failed
    <3>1. ~job'.calm
      BY ONLY <1>3, <1>4, <2>2 DEF Job
    <3> QED BY <3>1 DEF Cleaning
  <2> QED BY <1>1, <2>1, <2>2
<1> HIDE DEF done, failed
<1> QED BY <1>1, <1>2, <1>4, <1>6, <1>7, <1>9, ReconcileStepSafe

LEMMA DropOrphanRelaySafe == ASSUME WInv, SInv, DropOrphanRelay PROVE SInv'
<1> DEFINE next == [job EXCEPT !.at = "orphans", !.queue = Tail(@)]
           q == Tail(job.queue)
           done == job' = next
           failed == job' = [next EXCEPT !.calm = FALSE]
<1>1. /\ Fault \/ Sure
      /\ job.at = "orphanRelay"
      /\ done \/ failed
      /\ UNCHANGED <<native, records, recorded, forgotten, pending>>
  BY Zenon DEF DropOrphanRelay, At, phone, past
<1>2. Stays
  BY DropOrphanRelayKeeps
<1>3. job \in Job /\ job.op = "reconcile"
  BY <1>1 DEF WInv, Fits, Stepping
<1>4. next = [job EXCEPT !.at = "orphans", !.queue = q]
  OBVIOUS
<1> HIDE DEF q, next
<1>5. /\ job'.at = "orphans" /\ job'.rec = job.rec /\ job'.op = "reconcile"
      /\ job'.queue = q /\ job'.gone = job.gone
  BY ONLY <1>1, <1>3, <1>4 DEF Job
<1>6. Retrying'
  BY <1>5 DEF Retrying
<1>7. Recorded' = Recorded
  BY <1>1 DEF Recorded
<1>8. Cleaning'
  <2>1. CASE done
    <3>1. job'.calm = job.calm
      BY ONLY <1>3, <1>4, <2>1 DEF Job
    <3>2. job.calm => native' \subseteq Recorded \cup ToSet(q)
      BY <1>1 DEF SInv, Cleaning, q
    <3> QED BY <1>5, <1>7, <3>1, <3>2 DEF Cleaning
  <2>2. CASE failed
    <3>1. ~job'.calm
      BY ONLY <1>3, <1>4, <2>2 DEF Job
    <3> QED BY <3>1 DEF Cleaning
  <2> QED BY <1>1, <2>1, <2>2
<1> HIDE DEF done, failed
<1> QED BY <1>1, <1>2, <1>5, <1>6, <1>8, ReconcileStepSafe

LEMMA StartRetriesSafe == ASSUME WInv, SInv, StartRetries PROVE SInv'
<1>1. /\ Fault \/ Sure
      /\ job.at = "orphans" /\ job \in Job
      /\ job'.at = "retry" /\ job'.op = job.op /\ job'.rec = job.rec /\ job'.gone = job.gone
      /\ job'.left = <<>>
      /\ \/ job'.queue = pending /\ job'.calm = job.calm
         \/ job'.queue = <<>> /\ job'.unread /\ ~job'.calm
      /\ UNCHANGED <<native, records, recorded, forgotten, pending>>
  BY StartRetriesIs DEF phone, past
<1>2. Stays
  BY StartRetriesKeeps
<1>3. job.op = "reconcile" /\ job.queue \in Seq(Sub) /\ job.queue = <<>>
  BY <1>1 DEF WInv, Fits, Stepping, Job, StartRetries
<1>4. Retrying'
  BY <1>1 DEF Retrying
<1>5. Cleaning'
  <2>1. Recorded' = Recorded
    BY <1>1 DEF Recorded
  <2>2. ToSet(job.queue) = {}
    BY ONLY <1>3, Members
  <2> QED BY <1>1, <2>1, <2>2 DEF SInv, Cleaning
<1> QED BY <1>1, <1>2, <1>3, <1>4, <1>5, ReconcileStepSafe

LEMMA RetrySafe == ASSUME WInv, SInv, Retry PROVE SInv'
<1> DEFINE h == Head(job.queue)
           q == Tail(job.queue)
           l == Append(job.left, h)
           done == /\ job' = [job EXCEPT !.queue = q]
                   /\ home' = IF device.id = 0 THEN home ELSE Removed(h)
           again == job' = [job EXCEPT !.queue = q, !.left = l, !.calm = FALSE]
<1>1. /\ Fault \/ Sure
      /\ job.at = "retry" /\ job.queue # <<>>
      /\ done \/ again
      /\ UNCHANGED <<device, native, records, recorded, forgotten, pending>>
  BY DEF Retry, At, Done, Again, phone, past
<1>2. Stays
  BY RetryKeeps
<1>3. /\ job \in Job /\ job.op = "reconcile" /\ job.queue \in Seq(Sub)
      /\ job.left \in Seq(Sub)
  BY <1>1 DEF WInv, Fits, Stepping, Job
<1>4. /\ h \in Sub
      /\ ToSet(job.queue) = {h} \cup ToSet(q)
      /\ ToSet(l) = ToSet(job.left) \cup {h}
  BY <1>1, <1>3, HeadTailProperties, Members
<1>5. PICK s \in Sub : s = h
  BY <1>4
<1> HIDE DEF h, q, l
<1>6. Recorded' = Recorded
  BY <1>1 DEF Recorded
<1>7. CASE done
  <2>1. /\ job'.at = "retry" /\ job'.rec = job.rec /\ job'.op = "reconcile"
        /\ job'.queue = q /\ job'.left = job.left /\ job'.gone = job.gone
        /\ job'.unread = job.unread
    BY ONLY <1>1, <1>3, <1>7 DEF Job
  <2>2. job'.calm = job.calm
    BY ONLY <1>1, <1>3, <1>7 DEF Job
  <2>3. Off(s)'
    <3>1. home \in [Sub -> 0..MaxDevices]
      BY DEF WInv, RelayOK
    <3>2. CASE device.id = 0
      BY <1>1, <3>2 DEF Off
    <3>3. CASE device.id # 0 /\ home[s] = device.id /\ Known
      BY <1>1, <1>5, <1>7, <3>1, <3>3 DEF Off, Removed
    <3>4. CASE device.id # 0 /\ home[s] # device.id
      BY <1>1, <1>5, <1>7, <3>1, <3>4 DEF Off, Removed
    <3>5. CASE device.id # 0 /\ home[s] = device.id /\ ~Known
      BY <1>5, <3>5, UnknownIsOff DEF Off
    <3> QED BY <3>2, <3>3, <3>4, <3>5
  <2>4. Retrying'
    <3> SUFFICES ASSUME ~job.unread, NEW t \in recorded' \cap ToSet(pending')
                 PROVE  Off(t)' \/ t \in ToSet(job'.queue) \cup ToSet(job'.left)
      BY <2>1 DEF Retrying
    <3>1. t \in 1..made /\ (Off(t) \/ t \in ToSet(job.queue) \cup ToSet(job.left))
      BY <1>1, Issued DEF SInv, Retrying
    <3> QED BY <1>2, <1>4, <1>5, <2>1, <2>3, <3>1, StaysOff
  <2>5. Cleaning'
    BY <1>1, <1>6, <2>1, <2>2 DEF SInv, Cleaning
  <2> HIDE DEF done
  <2> QED BY <1>1, <1>2, <2>1, <2>4, <2>5, ReconcileStepSafe
<1>8. CASE again
  <2>1. /\ job'.at = "retry" /\ job'.rec = job.rec /\ job'.op = "reconcile"
        /\ job'.queue = q /\ job'.left = l /\ job'.gone = job.gone
        /\ job'.unread = job.unread
    BY ONLY <1>1, <1>3, <1>8 DEF Job
  <2>2. ~job'.calm
    BY ONLY <1>1, <1>3, <1>8 DEF Job
  <2>3. Retrying'
    <3> SUFFICES ASSUME ~job.unread, NEW t \in recorded' \cap ToSet(pending')
                 PROVE  Off(t)' \/ t \in ToSet(job'.queue) \cup ToSet(job'.left)
      BY <2>1 DEF Retrying
    <3>1. t \in 1..made /\ (Off(t) \/ t \in ToSet(job.queue) \cup ToSet(job.left))
      BY <1>1, Issued DEF SInv, Retrying
    <3> QED BY <1>2, <1>4, <2>1, <3>1, StaysOff
  <2>4. Cleaning'
    BY <2>2 DEF Cleaning
  <2> HIDE DEF again
  <2> QED BY <1>1, <1>2, <2>1, <2>3, <2>4, ReconcileStepSafe
<1> QED BY <1>1, <1>7, <1>8

\* Every removal that was read and not done again is left to be pending.
LEMMA LeftIsPending ==
  ASSUME WInv, SInv, WriteLeft, ~job.unread
  PROVE  \A s \in recorded \cap ToSet(pending) : Off(s) \/ s \in ToSet(job.left)
<1>1. job.at = "retry" /\ job.queue = <<>>
  BY DEF WriteLeft, At
<1>2. ToSet(job.queue) = {}
  <2>1. job.queue \in Seq(Sub)
    BY DEF WInv, Fits, Stepping, Job
  <2> QED BY <1>1, <2>1, Members
<1> QED BY <1>1, <1>2 DEF SInv, Retrying

LEMMA WriteLeftSafe == ASSUME WInv, SInv, WriteLeft PROVE SInv'
<1>1. /\ End
      /\ job.at = "retry" /\ pending' = job.left
      /\ forgotten' = IF job.unread THEN forgotten \cup ToSet(pending) ELSE forgotten
      /\ UNCHANGED <<records, recorded>>
  BY DEF WriteLeft, At, Left
<1>2. Stays
  BY WriteLeftKeeps
<1>3. job' = Idle
  BY <1>1 DEF End
<1>4. Holding(job)' /\ Fresh(job)' /\ Marking' /\ Reached' /\ Retrying' /\ Cleaning'
  BY <1>3 DEF Idle, Holding, Fresh, Marking, Reached, Retrying, Cleaning
<1>5. Stale'
  BY <1>1, <1>2, StaleStays DEF SInv
<1>6. Recorded' = Recorded
  BY <1>1 DEF Recorded
<1>7. RemovalsRemembered'
  <2> SUFFICES ASSUME NEW t \in recorded' \ (Recorded' \cup forgotten')
               PROVE  Off(t)' \/ t \in ToSet(pending')
    BY DEF RemovalsRemembered, Off
  <2>1. t \in recorded \ (Recorded \cup forgotten) /\ t \in 1..made
    BY <1>1, <1>6, Issued
  <2>2. Off(t) \/ t \in ToSet(pending)
    BY <2>1, RememberingIs DEF SInv
  <2>3. Off(t) \/ t \in ToSet(job.left)
    BY <1>1, <2>1, <2>2, LeftIsPending
  <2> QED BY <1>1, <1>2, <2>1, <2>3, StaysOff
<1> QED BY <1>4, <1>5, <1>7 DEF SInv

-----------------------------------------------------------------------------
(* Theorems *)

LEMMA InitSInv == ASSUME Init PROVE SInv
<1>1. /\ job = Idle /\ recorded = {}
      /\ \A a \in Account : records[a] = None
  BY DEF Init
<1>2. Holding(job) /\ Fresh(job) /\ Marking /\ Reached /\ Retrying /\ Cleaning
  BY <1>1 DEF Idle, Holding, Fresh, Marking, Reached, Retrying, Cleaning
<1>3. Stale /\ RemovalsRemembered
  BY <1>1 DEF Stale, RemovalsRemembered
<1> QED BY <1>2, <1>3 DEF SInv

LEMMA JobStepSafe == ASSUME WInv, SInv, JobStep PROVE SInv'
BY PutDeviceSafe, ProbeSafe, RegisterDeviceSafe, RegisterFailsSafe, MarkStaleSafe,
   CreateSubscriptionSafe, CreateKeysSafe, RegisterPusherSafe, UndoSafe, CommitSafe,
   RemovePusherSafe, RemoveRelaySafe, RemoveKeysSafe, RemoveStateSafe, DropGoneSafe,
   DropOrphanSafe, DropOrphanRelaySafe, StartRetriesSafe, RetrySafe, WriteLeftSafe DEF JobStep

\* OutsideSafe for the steps that are nobody's: with no account there is none to name.
LEMMA WorldSafe ==
  ASSUME WInv, SInv, TimePasses \/ KeysLost \/ Purge \/ TokenRotates PROVE SInv'
<1>1. Stays
  BY WorldKeeps, PurgeKeeps
<1>2. /\ Fault \/ Sure
      /\ native' \subseteq native
      /\ UNCHANGED <<records, recorded, forgotten, made, pending, job>>
  <2>1. CASE TimePasses
    BY <2>1 DEF TimePasses, relay, past
  <2>2. CASE KeysLost
    BY <2>2 DEF KeysLost, relay, past
  <2>3. CASE Purge
    BY <2>3 DEF Purge, phone, past
  <2>4. CASE TokenRotates
    BY <2>4 DEF TokenRotates, relay, phone, past
  <2> QED BY <2>1, <2>2, <2>3, <2>4
<1> QED BY <1>1, <1>2, AsideSafe

LEMMA AccountStepSafe ==
  ASSUME WInv, SInv, NEW a \in Account,
         \/ Enable(a) \/ MarkPrompted(a) \/ Disable(a) \/ Check(a) \/ AccountRemoving(a)
         \/ SignOut(a) \/ DropSlot(a) \/ SignIn(a) \/ PersonRemoves(a)
         \/ KeyRotates(a) \/ Push(a)
  PROVE  SInv'
BY EnableSafe, DisableSafe, CheckSafe, AccountRemovingSafe, OutsideSafe

\* What a failed read loses is forgotten; the operation goes on, but not clean.
LEMMA StateUnreadSafe == ASSUME WInv, SInv, StateUnread PROVE SInv'
<1>1. /\ \A a \in Account : records'[a] = None
      /\ pending' = <<>>
      /\ forgotten' = forgotten \cup Recorded \cup ToSet(pending)
      /\ job' = IF job.at = "idle" THEN job ELSE [job EXCEPT !.calm = FALSE]
      /\ UNCHANGED <<relay, device, recorded>>
  BY DEF StateUnread, At
<1>2. Stays /\ job \in Job
  BY StateUnreadKeeps DEF WInv, Fits, Stepping
<1>3. /\ job'.at = job.at /\ job'.rec = job.rec /\ job'.op = job.op
      /\ job'.missing = job.missing /\ job'.renews = job.renews /\ job'.gone = job.gone
      /\ job'.pend = job.pend
      /\ job.at = "idle" \/ ~job'.calm
  <2>1. CASE job.at = "idle"
    BY <1>1, <2>1
  <2>2. CASE job.at # "idle"
    <3>1. job' = [job EXCEPT !.calm = FALSE]
      BY <1>1, <2>2
    <3> QED BY ONLY <1>2, <3>1 DEF Job
  <2> QED BY <2>1, <2>2
<1>4. Holding(job)'
  BY <1>2, <1>3, SameHolds
<1>5. Fresh(job)' /\ Stale' /\ Cleaning'
  BY <1>1, <1>3 DEF SInv, Fresh, Stale, Cleaning
<1>6. Marking'
  BY <1>1, <1>2, <1>3, StaysOff DEF SInv, Marking, relay
<1>7. Reached'
  <2>1. job.at \in {"rmKeys", "rmState"} => job.rec.sub \in 1..made
    BY Issued DEF WInv, Fits, Stepping, Naming, Removals
  <2>2. job.at \in {"rmKeys", "rmState"} => job.pend \/ Off(job.rec.sub)'
    BY <1>2, <1>3, <2>1, StaysOff DEF SInv, Reached
  <2> QED BY <1>3, <2>2 DEF Reached
<1>8. Retrying'
  <2>1. ToSet(pending') = {}
    BY <1>1, EmptySeq, Members
  <2> QED BY <2>1 DEF Retrying
<1>9. RemovalsRemembered'
  <2>1. ASSUME NEW t \in recorded' \ (Recorded' \cup forgotten') PROVE Off(t)'
    <3>1. t \in recorded \ (Recorded \cup forgotten) /\ t \notin ToSet(pending)
      BY <1>1, <2>1
    <3>2. Off(t)
      BY <3>1, RememberingIs DEF SInv
    <3> QED BY <1>2, <3>1, <3>2, Issued, StaysOff
  <2> QED BY <2>1 DEF RemovalsRemembered, Off
<1> QED BY <1>4, <1>5, <1>6, <1>7, <1>8, <1>9 DEF SInv

LEMMA DeviceUnreadSafe == ASSUME WInv, SInv, DeviceUnread PROVE SInv'
<1>1. Fault /\ native' = native /\ UNCHANGED <<records, recorded, forgotten, made, pending, job>>
  BY DEF DeviceUnread, relay, past
<1> QED BY <1>1, DeviceUnreadKeeps, AsideSafe

LEMMA StepSafe == ASSUME WInv, SInv, [Next]_vars PROVE SInv'
<1>1. CASE Next
  BY <1>1, JobStepSafe, RefreshSafe, ReconcileSafe, CrashSafe, StateUnreadSafe,
     DeviceUnreadSafe, WorldSafe, AccountStepSafe DEF Next
<1> QED BY <1>1, StutterSafe

LEMMA SafeAlways == Spec => [](WInv /\ SInv)
<1>1. Init => WInv /\ SInv
  BY InitWInv, InitSInv
<1>2. WInv /\ SInv /\ [Next]_vars => (WInv /\ SInv)'
  BY StepKeeps, StepSafe
<1> QED BY <1>1, <1>2, PTL DEF Spec

\* A check renews a subscription whose pusher is missing only when the relay no longer
\* has it on the phone's device (check, probeDevice, subscribe).
THEOREM ChecksAskFirst == Spec => []AsksBeforeRenewing
<1>1. WInv /\ SInv => AsksBeforeRenewing
  BY DEF SInv, Holding, AsksBeforeRenewing, Off
<1> QED BY <1>1, SafeAlways, PTL

\* Every subscription that has been in use and is no longer recorded is off the phone's
\* relay device or waits in pendingRemovals, whatever failed or was lost in between; what
\* may be forgotten is what a change of the state could not read, and the oldest of more
\* removals than the list keeps (removeSubscription, reconcile, loadState).
THEOREM RemovalsAreRemembered == Spec => []RemovalsRemembered
<1>1. WInv /\ SInv => RemovalsRemembered
  BY DEF SInv
<1> QED BY <1>1, SafeAlways, PTL

LEMMA CleanStep ==
  ASSUME WInv, SInv, [Next]_vars, WriteLeft, job.calm
  PROVE  /\ native' \subseteq Recorded' /\ pending' = <<>>
         /\ \A s \in recorded' \ (Recorded' \cup forgotten') :
              device'.id # 0 => home'[s] # device'.id
<1>1. /\ job.at = "retry" /\ pending' = job.left
      /\ UNCHANGED <<native, records>>
  BY Zenon DEF WriteLeft, At, Left
<1>2. native \subseteq Recorded /\ job.left = <<>>
  BY <1>1 DEF SInv, Cleaning
<1>3. Recorded' = Recorded
  BY <1>1 DEF Recorded
<1>4. RemovalsRemembered'
  BY StepSafe DEF SInv
<1>5. ToSet(pending') = {}
  BY <1>1, <1>2, EmptySeq, Members
<1> QED BY <1>1, <1>2, <1>3, <1>4, <1>5 DEF RemovalsRemembered

\* A reconcile whose calls and reads all succeed leaves keys of recorded subscriptions
\* only, nothing pending, and no abandoned subscription on the phone's device but those
\* forgotten before (reconcile).
THEOREM ReconcilesClean == Spec => ReconcileCleans
<1>1. WInv /\ SInv /\ [Next]_vars =>
        [WriteLeft /\ job.calm =>
           /\ native' \subseteq Recorded' /\ pending' = <<>>
           /\ \A s \in recorded' \ (Recorded' \cup forgotten') :
                device'.id # 0 => home'[s] # device'.id]_vars
  BY CleanStep
<1> QED BY <1>1, SafeAlways, PTL DEF Spec, ReconcileCleans
=============================================================================
