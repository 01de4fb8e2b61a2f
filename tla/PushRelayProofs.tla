-------------------------- MODULE PushRelayProofs --------------------------
(***************************************************************************)
(* Theorems about PushRelay for every set of devices, tokens,              *)
(* subscriptions and handlers and every value of the limits.               *)
(***************************************************************************)
EXTENDS PushRelay, FiniteSetTheorems, TLAPS

\* The inductive invariant.  OneActivePerToken follows from SUPERSEDE alone;
\* TypeOK is what says that a handler that supersedes holds a token and,
\* when it moves a device, that device's id.
IInv == TypeOK /\ OneActivePerToken

-----------------------------------------------------------------------------
(* Lemmas about the operators *)

\* None is no device and no row.
LEMMA NoneIsNew == None \notin Device /\ None \notin Row
  BY NoneAssumption, Zenon

\* SUPERSEDE keeps the table a table.
LEMMA SupersedeType ==
  ASSUME devices \in [Device -> Row \cup {None}],
         NEW t \in Token, NEW d \in Device, NEW time \in Time
  PROVE  Supersede(t, d, time) \in [Device -> Row \cup {None}]
<1>1. ASSUME NEW e \in Device, Active(e)
      PROVE  [devices[e] EXCEPT !.invalidatedAt = time] \in Row
  BY <1>1 DEF Active, Exists, Row
<1> QED BY <1>1 DEF Supersede

\* After SUPERSEDE the only row that may be active with token t is d's, and
\* every other active row is as it was.
LEMMA SupersedeActive ==
  ASSUME devices \in [Device -> Row \cup {None}],
         NEW t \in Token, NEW d \in Device, NEW time \in Time,
         NEW e \in Device, e # d,
         Supersede(t, d, time)[e] # None,
         Supersede(t, d, time)[e].invalidatedAt = Never
  PROVE  /\ Active(e)
         /\ Supersede(t, d, time)[e] = devices[e]
         /\ devices[e].token # t
<1>1. time # Never
  BY LimitAssumption DEF Time, Never
<1>2. CASE Active(e) /\ devices[e].token = t
  <2>1. Supersede(t, d, time)[e] = [devices[e] EXCEPT !.invalidatedAt = time]
    BY <1>2 DEF Supersede
  <2>2. devices[e] \in Row
    BY <1>2 DEF Active, Exists
  <2> QED BY <1>1, <2>1, <2>2 DEF Row
<1>3. CASE ~(Active(e) /\ devices[e].token = t)
  BY <1>3 DEF Supersede, Active, Exists
<1> QED BY <1>2, <1>3

\* SUPERSEDE never touches d's own row, nor a row without the token.
LEMMA SupersedeKeeps ==
  ASSUME NEW t \in Token, NEW d \in Device, NEW time \in Time, NEW e \in Device,
         ~(Active(e) /\ devices[e].token = t /\ e # d)
  PROVE  Supersede(t, d, time)[e] = devices[e]
  BY DEF Supersede

\* SUPERSEDE deletes no row.
LEMMA SupersedeExists ==
  ASSUME devices \in [Device -> Row \cup {None}],
         NEW t \in Token, NEW d \in Device, NEW time \in Time,
         NEW e \in Device, Exists(e)
  PROVE  Supersede(t, d, time)[e] # None
<1>1. CASE Active(e) /\ devices[e].token = t /\ e # d
  <2>1. [devices[e] EXCEPT !.invalidatedAt = time] \in Row
    BY <1>1 DEF Active, Exists, Row
  <2> QED BY <1>1, <2>1, NoneAssumption DEF Supersede
<1>2. CASE ~(Active(e) /\ devices[e].token = t /\ e # d)
  BY <1>2 DEF Supersede, Exists
<1> QED BY <1>1, <1>2

\* A step that rewrites rows and deletes none.
LEMMA RowsRewritten ==
  ASSUME TablesOK, devices' \in [Device -> Row \cup {None}],
         \A d \in Device : Exists(d) => devices'[d] # None,
         issued' \subseteq Device \cup Subscription, UNCHANGED <<owner, now>>
  PROVE  TablesOK'
  BY DEF TablesOK, Exists

\* A handler that moves to a well-formed record keeps the handlers well-formed.
LEMMA Moves ==
  ASSUME HandlersOK, NEW r \in Request, NEW q \in RequestRecord, StageFits(q),
         req' = [req EXCEPT ![r] = q]
  PROVE  HandlersOK'
<1>1. req' \in [Request -> RequestRecord]
  BY DEF HandlersOK
<1>2. ASSUME NEW p \in Request PROVE StageFits(req'[p])
  BY DEF HandlersOK
<1> QED BY <1>1, <1>2 DEF HandlersOK, StageFits

\* An answered handler is well-formed.
LEMMA Answers ==
  ASSUME HandlersOK, NEW r \in Request, NEW status \in Status, Answer(r, status)
  PROVE  HandlersOK'
<1> DEFINE q == [Idle EXCEPT !.stage = "done", !.status = status]
<1>1. q \in RequestRecord
  <2>1. "none" \in Ops /\ "done" \in Stages
    BY DEF Ops, Stages
  <2>2. 0 \in Time
    BY LimitAssumption DEF Time
  <2> QED BY <2>1, <2>2 DEF Idle, RequestRecord
<1>2. StageFits(q)
  BY DEF Idle, StageFits
<1>3. req' = [req EXCEPT ![r] = q]
  BY DEF Answer
<1> HIDE DEF q
<1> QED BY <1>1, <1>2, <1>3, Moves

\* A handler that goes to a later stage with another time.
Resumes(r, stage, time) ==
  req' = [req EXCEPT ![r].stage = stage, ![r].start = time]

LEMMA ResumesTo ==
  ASSUME HandlersOK, NEW r \in Request, NEW stage \in Stages, NEW time \in Time,
         Resumes(r, stage, time), StageFits([req[r] EXCEPT !.stage = stage])
  PROVE  HandlersOK'
<1> DEFINE q == [req[r] EXCEPT !.stage = stage, !.start = time]
<1>1. q \in RequestRecord /\ req[r] \in RequestRecord
  BY DEF HandlersOK, RequestRecord
<1>2. req' = [req EXCEPT ![r] = q]
  BY DEF Resumes, HandlersOK
<1>3. StageFits(q)
  BY <1>1 DEF StageFits, RequestRecord
<1> QED BY <1>1, <1>2, <1>3, Moves

\* touchDevice writes a time read since the row was, and the handler goes on.
LEMMA TouchIs ==
  ASSUME TablesOK, HandlersOK, NEW r \in Request, TouchDevice(r)
  PROVE  /\ req[r].stage = "touch"
         /\ \E time \in Time :
              /\ time <= now
              /\ devices' = IF Exists(req[r].device)
                            THEN [devices EXCEPT ![req[r].device].seenAt = time] ELSE devices
         /\ \/ req[r].op = "createSub" /\ Answer(r, 409)
            \/ req[r].op = "createSub" /\ Resumes(r, "count", 0)
            \/ /\ req[r].op # "createSub"
               /\ \E time \in {0, now} : Resumes(r, "commit", time)
         /\ UNCHANGED <<issued, owner, now>>
<1>1. req[r].start \in Time /\ now \in Time
  BY DEF TablesOK, HandlersOK, RequestRecord
<1>2. PICK time \in req[r].start..now :
        devices' = IF Exists(req[r].device)
                   THEN [devices EXCEPT ![req[r].device].seenAt = time] ELSE devices
  BY Zenon DEF TouchDevice
<1>3. time \in Time /\ time <= now
  BY <1>1, <1>2, LimitAssumption DEF Time
<1>4. \/ req[r].op = "createSub" /\ Answer(r, 409)
      \/ req[r].op = "createSub" /\ Resumes(r, "count", 0)
      \/ /\ req[r].op # "createSub"
         /\ \E t \in {0, now} : Resumes(r, "commit", t)
  BY DEF TouchDevice, Resumes
<1> QED BY <1>2, <1>3, <1>4 DEF TouchDevice

\* A handler at a stage its operation has is well-formed.
LEMMA GoesTo ==
  ASSUME HandlersOK, NEW r \in Request, NEW stage \in Stages, Goto(r, stage),
         StageFits([req[r] EXCEPT !.stage = stage])
  PROVE  HandlersOK'
<1> DEFINE q == [req[r] EXCEPT !.stage = stage]
<1>1. q \in RequestRecord
  BY DEF HandlersOK, RequestRecord
<1>2. req' = [req EXCEPT ![r] = q]
  BY DEF Goto
<1> QED BY <1>1, <1>2, Moves

\* What a handler keeps of a row is a snapshot.
LEMMA ReadType ==
  ASSUME TablesOK, NEW d \in Device, Exists(d)
  PROVE  Read(d) \in Snapshot
<1>1. devices[d] \in Row
  BY DEF TablesOK, Exists
<1> QED BY <1>1 DEF Read, Exists, Row, Snapshot

\* A step that activates no row and moves no active row's token keeps one
\* active device per token.
LEMMA NothingActivated ==
  ASSUME OneActivePerToken,
         \A d \in Device : Active(d)' => Active(d) /\ devices'[d].token = devices[d].token
  PROVE  OneActivePerToken'
  BY DEF OneActivePerToken

\* A step that leaves device d the only row that may be active with its
\* token, and otherwise activates nothing, keeps it too.
LEMMA OneActivated ==
  ASSUME OneActivePerToken, NEW d \in Device,
         \A e \in Device \ {d} : Active(e)' =>
            /\ Active(e) /\ devices'[e].token = devices[e].token
            /\ devices'[e].token # devices'[d].token
  PROVE  OneActivePerToken'
  BY DEF OneActivePerToken

\* Deleting rows keeps the tables' types and the tokens' single holders.
LEMMA DeletesRows ==
  ASSUME TablesOK, OneActivePerToken, NEW gone, Without(gone),
         UNCHANGED <<issued, now>>
  PROVE  TablesOK' /\ OneActivePerToken'
<1>1. TablesOK'
  <2>1. ASSUME NEW x \in Subscription, owner'[x] # None
        PROVE  devices'[owner'[x]] # None
    BY <2>1 DEF TablesOK, Without, Exists
  <2> QED BY <2>1 DEF TablesOK, Without, Exists
<1>2. ASSUME NEW d \in Device, Active(d)'
      PROVE  Active(d) /\ devices'[d].token = devices[d].token
  BY <1>2 DEF Active, Exists, Without
<1> QED BY <1>1, <1>2, NothingActivated

-----------------------------------------------------------------------------
(* Every operation preserves the invariant *)

\* The part of the invariant that a handler's step can disturb.
Core == TablesOK /\ HandlersOK /\ OneActivePerToken

LEMMA CoreRegisterStart ==
  ASSUME Core, NEW r \in Request, RegisterStart(r)
  PROVE  Core'
<1>1. TablesOK' /\ OneActivePerToken'
  BY DEF RegisterStart, Core, TablesOK, OneActivePerToken, Active, Exists
<1>2. HandlersOK'
  <2>1. PICK t \in Token :
          req' = [req EXCEPT ![r] = [Idle EXCEPT !.op = "register", !.stage = "commit",
                                                 !.arg = t, !.start = now]]
    BY DEF RegisterStart
  <2> DEFINE q == [Idle EXCEPT !.op = "register", !.stage = "commit",
                               !.arg = t, !.start = now]
  <2>2. q \in RequestRecord
    <3>1. "register" \in Ops /\ "commit" \in Stages /\ 0 \in Status /\ now \in Time
      BY DEF Ops, Stages, Status, Core, TablesOK
    <3> QED BY <3>1 DEF Idle, RequestRecord
  <2>3. StageFits(q)
    BY DEF Idle, StageFits
  <2> HIDE DEF q
  <2> QED BY <2>1, <2>2, <2>3, Moves DEF q, Core
<1> QED BY <1>1, <1>2 DEF Core

LEMMA CoreCreateDevice ==
  ASSUME Core, NEW r \in Request, CreateDevice(r)
  PROVE  Core'
<1>1. /\ req[r] \in RequestRecord /\ req[r].op = "register"
      /\ req[r].arg \in Token /\ req[r].start \in Time
  BY DEF CreateDevice, At, Core, HandlersOK, StageFits, RequestRecord
<1>2. PICK d \in Device \ issued :
        /\ devices' = [Supersede(req[r].arg, d, req[r].start) EXCEPT
                         ![d] = [token |-> req[r].arg, invalidatedAt |-> Never,
                                 seenAt |-> req[r].start, deliveredAt |-> Never]]
        /\ issued' = issued \cup {d}
        /\ req' = [req EXCEPT ![r].stage = "prune", ![r].device = d]
  BY DEF CreateDevice
<1> DEFINE moved == Supersede(req[r].arg, d, req[r].start)
<1>3. moved \in [Device -> Row \cup {None}]
  BY <1>1, SupersedeType DEF Core, TablesOK
<1>4. TablesOK'
  <2>1. devices' \in [Device -> Row \cup {None}]
    BY <1>1, <1>2, <1>3 DEF Row
  <2>2. ASSUME NEW e \in Device, Exists(e)
        PROVE  devices'[e] # None
    <3>1. moved[e] # None
      BY <1>1, <2>2, SupersedeExists DEF Core, TablesOK
    <3>2. [token |-> req[r].arg, invalidatedAt |-> Never,
           seenAt |-> req[r].start, deliveredAt |-> Never] \in Row
      BY <1>1 DEF Row
    <3> QED BY <1>2, <1>3, <3>1, <3>2, NoneAssumption
  <2>3. issued' \subseteq Device \cup Subscription
    BY <1>2 DEF Core, TablesOK
  <2> QED BY <2>1, <2>2, <2>3, RowsRewritten DEF CreateDevice, Core
<1>5. OneActivePerToken'
  <2>1. devices'[d].token = req[r].arg
    BY <1>2, <1>3
  <2>2. ASSUME NEW e \in Device \ {d}, Active(e)'
        PROVE  Active(e) /\ devices'[e] = devices[e] /\ devices[e].token # req[r].arg
    <3>1. devices'[e] = moved[e]
      BY <1>2, <1>3
    <3>2. moved[e] # None /\ moved[e].invalidatedAt = Never
      BY <2>2, <3>1 DEF Active, Exists
    <3> QED BY <1>1, <3>1, <3>2, SupersedeActive DEF Core, TablesOK
  <2> QED BY <2>1, <2>2, OneActivated DEF Core
<1>6. HandlersOK'
  <2> DEFINE q == [req[r] EXCEPT !.stage = "prune", !.device = d]
  <2>1. q \in RequestRecord
    BY <1>1 DEF RequestRecord, Stages
  <2>2. StageFits(q)
    BY <1>1 DEF RequestRecord, StageFits
  <2>3. req' = [req EXCEPT ![r] = q]
    BY <1>2 DEF Core, HandlersOK
  <2> HIDE DEF q
  <2> QED BY <2>1, <2>2, <2>3, Moves DEF Core
<1> QED BY <1>4, <1>5, <1>6 DEF Core

LEMMA CoreAuthenticate ==
  ASSUME Core, NEW r \in Request, Authenticate(r)
  PROVE  Core'
<1>1. TablesOK' /\ OneActivePerToken'
  BY DEF Authenticate, Core, TablesOK, OneActivePerToken, Active, Exists
<1>2. PICK d \in Device \cap issued :
        IF ~Exists(d) THEN Answer(r, 401)
        ELSE \E call \in ({"update"} \X Token) \cup ({"deleteSub"} \X Subscription)
                          \cup ({"deleteDevice", "createSub"} \X {None}) :
               req' = [req EXCEPT ![r] =
                 [Idle EXCEPT !.op = call[1], !.stage = "touch", !.device = d, !.arg = call[2],
                              !.start = now,
                              !.row = IF call[1] = "createSub" THEN Read(d) ELSE None]]
  BY DEF Authenticate
<1>3. CASE ~Exists(d)
  BY <1>1, <1>2, <1>3, Answers DEF Core, Status
<1>4. CASE Exists(d)
  <2>1. PICK op \in Ops, arg \in Token \cup Subscription \cup {None} :
          /\ op \in {"update", "deleteSub", "deleteDevice", "createSub"}
          /\ op = "update" => arg \in Token
          /\ op = "deleteSub" => arg \in Subscription
          /\ req' = [req EXCEPT ![r] =
               [Idle EXCEPT !.op = op, !.stage = "touch", !.device = d, !.arg = arg,
                            !.start = now,
                            !.row = IF op = "createSub" THEN Read(d) ELSE None]]
    <3>1. PICK call \in ({"update"} \X Token) \cup ({"deleteSub"} \X Subscription)
                          \cup ({"deleteDevice", "createSub"} \X {None}) :
               req' = [req EXCEPT ![r] =
                 [Idle EXCEPT !.op = call[1], !.stage = "touch", !.device = d, !.arg = call[2],
                              !.start = now,
                              !.row = IF call[1] = "createSub" THEN Read(d) ELSE None]]
      BY <1>2, <1>4
    <3>2. /\ call[1] \in {"update", "deleteSub", "deleteDevice", "createSub"}
          /\ call[2] \in Token \cup Subscription \cup {None}
          /\ call[1] = "update" => call[2] \in Token
          /\ call[1] = "deleteSub" => call[2] \in Subscription
      BY <3>1
    <3> QED BY <3>1, <3>2 DEF Ops
  <2> DEFINE q == [Idle EXCEPT !.op = op, !.stage = "touch", !.device = d, !.arg = arg,
                            !.start = now,
                               !.row = IF op = "createSub" THEN Read(d) ELSE None]
  <2>2. Read(d) \in Snapshot
    BY <1>4, ReadType DEF Core
  <2>3. q \in RequestRecord
    <3>1. "touch" \in Stages /\ 0 \in Status /\ now \in Time
      BY DEF Stages, Status, Core, TablesOK
    <3> QED BY <2>2, <3>1 DEF Idle, RequestRecord
  <2>4. StageFits(q)
    BY <2>1, <2>2 DEF Idle, StageFits
  <2> HIDE DEF q
  <2>5. HandlersOK'
    BY <2>1, <2>3, <2>4, Moves DEF q, Core
  <2> QED BY <1>1, <2>5 DEF Core
<1> QED BY <1>3, <1>4

LEMMA CoreTouchDevice ==
  ASSUME Core, NEW r \in Request, TouchDevice(r)
  PROVE  Core'
<1> DEFINE d == req[r].device
<1>1. /\ req[r] \in RequestRecord /\ req[r].stage = "touch" /\ d \in Device
      /\ req[r].op \in {"update", "deleteSub", "deleteDevice", "createSub"}
      /\ StageFits(req[r])
  BY DEF TouchDevice, Core, HandlersOK, StageFits, RequestRecord, Ops
<1>2. PICK time \in Time :
        devices' = IF Exists(d) THEN [devices EXCEPT ![d].seenAt = time] ELSE devices
  BY TouchIs DEF Core
<1>3. devices' \in [Device -> Row \cup {None}]
  <2>1. Exists(d) => [devices[d] EXCEPT !.seenAt = time] \in Row
    BY <1>1 DEF Core, TablesOK, Exists, Row
  <2> QED BY <1>1, <1>2, <2>1 DEF Core, TablesOK
<1>4. ASSUME NEW e \in Device, Active(e)'
      PROVE  Active(e) /\ devices'[e].token = devices[e].token
  <2>1. CASE e = d /\ Exists(d)
    <3>1. devices[d] \in Row /\ devices'[d] = [devices[d] EXCEPT !.seenAt = time]
      BY <1>1, <1>2, <2>1 DEF Core, TablesOK, Exists
    <3> QED BY <1>4, <2>1, <3>1 DEF Active, Exists, Row
  <2>2. CASE ~(e = d /\ Exists(d))
    BY <1>1, <1>2, <1>4, <2>2 DEF Active, Exists, Core, TablesOK
  <2> QED BY <2>1, <2>2
<1>5. HandlersOK'
  <2>1. CASE req[r].op # "createSub"
    <3>1. StageFits([req[r] EXCEPT !.stage = "commit"])
      BY <1>1, <2>1 DEF StageFits, RequestRecord
    <3>2. 0 \in Time /\ now \in Time /\ "commit" \in Stages
      BY LimitAssumption DEF Core, TablesOK, Time, Stages
    <3>3. \E t \in {0, now} : Resumes(r, "commit", t)
      BY <2>1, TouchIs DEF Core
    <3> QED BY <3>1, <3>2, <3>3, ResumesTo DEF Core
  <2>2. CASE req[r].op = "createSub"
    <3>1. StageFits([req[r] EXCEPT !.stage = "count"])
      BY <1>1, <2>2 DEF StageFits, RequestRecord
    <3>2. CASE Answer(r, 409)
      BY <3>2, Answers DEF Core, Status
    <3>3. CASE Resumes(r, "count", 0)
      <4>1. 0 \in Time /\ "count" \in Stages
        BY LimitAssumption DEF Time, Stages
      <4> QED BY <3>1, <3>3, <4>1, ResumesTo DEF Core
    <3> QED BY <2>2, <3>2, <3>3, TouchIs DEF Core
  <2> QED BY <2>1, <2>2
<1>6. OneActivePerToken'
  BY <1>4, NothingActivated DEF Core
<1>7. TablesOK'
  <2>1. ASSUME NEW e \in Device, Exists(e)
        PROVE  devices'[e] # None
    <3>1. [devices[e] EXCEPT !.seenAt = time] \in Row
      BY <2>1 DEF Core, TablesOK, Exists, Row
    <3> QED BY <1>1, <1>2, <2>1, <3>1, NoneAssumption DEF Core, TablesOK, Exists
  <2> QED BY <1>3, <2>1, RowsRewritten DEF TouchDevice, Core, TablesOK
<1> QED BY <1>5, <1>6, <1>7 DEF Core

\* What updateDeviceToken does to the rows: the device's own row, if there is
\* one, takes the token; the others are as SUPERSEDE leaves them.
Updates(d, t, time) ==
  /\ time <= now
  /\ \A e \in Device \ {d} : devices'[e] = Supersede(t, d, time)[e]
  /\ ~Exists(d) => devices'[d] = None
  /\ Exists(d) => /\ devices'[d] \in Row /\ devices'[d].token = t
                  /\ devices'[d].invalidatedAt = Never /\ devices'[d].seenAt = time
                  /\ devices'[d].deliveredAt = devices[d].deliveredAt

LEMMA UpdateIs ==
  ASSUME TablesOK, HandlersOK, NEW r \in Request, UpdateDeviceToken(r),
         NEW d, d = req[r].device, NEW t, t = req[r].arg
  PROVE  /\ d \in Device /\ t \in Token
         /\ devices' \in [Device -> Row \cup {None}]
         /\ \E time \in Time : Updates(d, t, time)
<1>0. PICK time \in req[r].start..now :
        devices' = IF Exists(d)
                   THEN [Supersede(t, d, time) EXCEPT
                           ![d].token = t, ![d].invalidatedAt = Never, ![d].seenAt = time]
                   ELSE Supersede(t, d, time)
  BY Zenon DEF UpdateDeviceToken
<1>t. time \in Time /\ time <= now
  <2>1. req[r].start \in Time /\ now \in Time
    BY DEF TablesOK, HandlersOK, RequestRecord
  <2> QED BY <2>1, LimitAssumption DEF Time
<1> DEFINE moved == Supersede(t, d, time)
<1>1. /\ At(r, "update", "commit")
      /\ devices' = IF Exists(d)
                    THEN [moved EXCEPT ![d].token = t,
                                       ![d].invalidatedAt = Never, ![d].seenAt = time]
                    ELSE moved
  BY <1>0, Zenon DEF UpdateDeviceToken
<1>2. d \in Device /\ t \in Token /\ time \in Time
  BY <1>1, <1>t DEF At, TablesOK, HandlersOK, StageFits
<1>3. moved \in [Device -> Row \cup {None}] /\ moved[d] = devices[d]
  <2>1. moved \in [Device -> Row \cup {None}]
    BY <1>2, SupersedeType DEF TablesOK
  <2>2. ~(Active(d) /\ devices[d].token = t /\ d # d)
    OBVIOUS
  <2>3. moved[d] = devices[d]
    BY <1>2, <2>2, SupersedeKeeps
  <2> QED BY <2>1, <2>3
<1>4. devices' = IF Exists(d)
                 THEN [moved EXCEPT ![d] = [devices[d] EXCEPT !.token = t,
                                              !.invalidatedAt = Never, !.seenAt = time]]
                 ELSE moved
  BY <1>1, <1>2, <1>3
<1> HIDE DEF moved
<1>5. CASE Exists(d)
  <2> DEFINE row == [devices[d] EXCEPT !.token = t, !.invalidatedAt = Never, !.seenAt = time]
  <2>1. devices[d] \in Row
    BY <1>2, <1>5 DEF TablesOK, Exists
  <2>2. /\ row \in Row /\ row.token = t /\ row.invalidatedAt = Never /\ row.seenAt = time
        /\ row.deliveredAt = devices[d].deliveredAt
    BY <1>2, <2>1 DEF Row
  <2>3. devices' = [moved EXCEPT ![d] = row]
    BY <1>4, <1>5
  <2> HIDE DEF row
  <2>4. devices'[d] = row /\ \A e \in Device \ {d} : devices'[e] = moved[e]
    BY <1>2, <1>3, <2>3
  <2>5. devices' \in [Device -> Row \cup {None}]
    BY <1>2, <1>3, <2>2, <2>3
  <2> QED BY <1>2, <1>t, <1>5, <2>2, <2>4, <2>5 DEF moved, Updates
<1>6. CASE ~Exists(d)
  BY <1>2, <1>t, <1>3, <1>4, <1>6 DEF moved, Exists, Updates
<1> QED BY <1>5, <1>6

\* What updateDeviceToken does besides.
LEMMA UpdateMoves ==
  ASSUME NEW r \in Request, UpdateDeviceToken(r)
  PROVE  /\ req[r].op = "update" /\ req[r].stage = "commit"
         /\ Goto(r, "prune") /\ UNCHANGED <<issued, owner, now>>
<1>1. At(r, "update", "commit") /\ Goto(r, "prune") /\ UNCHANGED <<issued, owner, now>>
  BY Zenon DEF UpdateDeviceToken
<1> QED BY <1>1 DEF At

\* Another row that is active after it was active before, with another token.
LEMMA UpdateOthers ==
  ASSUME TablesOK, HandlersOK, NEW r \in Request, UpdateDeviceToken(r),
         NEW d, d = req[r].device, NEW t, t = req[r].arg, NEW e \in Device \ {d}, Active(e)'
  PROVE  Active(e) /\ devices'[e] = devices[e] /\ devices[e].token # t
<1>1. PICK time \in Time : devices'[e] = Supersede(t, d, time)[e]
  BY UpdateIs DEF Updates
<1>3. d \in Device /\ t \in Token
  BY UpdateIs
<1>2. Supersede(t, d, time)[e] # None /\ Supersede(t, d, time)[e].invalidatedAt = Never
  BY <1>1 DEF Active, Exists
<1> QED BY <1>1, <1>2, <1>3, SupersedeActive DEF TablesOK

LEMMA CoreUpdateDeviceToken ==
  ASSUME Core, NEW r \in Request, UpdateDeviceToken(r)
  PROVE  Core'
<1>1. PICK d, t : d = req[r].device /\ t = req[r].arg
  OBVIOUS
<1>2. TablesOK /\ HandlersOK /\ OneActivePerToken
  BY DEF Core
<1>u. /\ d \in Device /\ t \in Token /\ devices' \in [Device -> Row \cup {None}]
      /\ \E time \in Time : Updates(d, t, time)
  BY <1>1, <1>2, UpdateIs
<1>p. PICK time \in Time : Updates(d, t, time)
  BY <1>u
<1>3. /\ d \in Device /\ t \in Token
      /\ devices' \in [Device -> Row \cup {None}]
      /\ \A e \in Device \ {d} : devices'[e] = Supersede(t, d, time)[e]
      /\ ~Exists(d) => devices'[d] = None
      /\ Exists(d) => devices'[d] \in Row /\ devices'[d].token = t
  BY <1>u, <1>p DEF Updates
<1>4. \A e \in Device \ {d} :
        Active(e)' => Active(e) /\ devices'[e] = devices[e] /\ devices[e].token # t
  BY <1>1, <1>2, UpdateOthers
<1>5. OneActivePerToken'
  <2>1. CASE Exists(d)
    BY <1>2, <1>3, <1>4, <2>1, OneActivated
  <2>2. CASE ~Exists(d)
    BY <1>2, <1>3, <1>4, <2>2, NothingActivated DEF Active, Exists
  <2> QED BY <2>1, <2>2
<1>6. HandlersOK'
  <2>1. /\ req[r] \in RequestRecord /\ req[r].op = "update" /\ StageFits(req[r])
        /\ Goto(r, "prune")
    BY <1>2, UpdateMoves DEF HandlersOK
  <2>2. StageFits([req[r] EXCEPT !.stage = "prune"])
    BY <2>1 DEF StageFits, RequestRecord
  <2> QED BY <1>2, <2>1, <2>2, GoesTo DEF Stages
<1>7. TablesOK'
  <2>1. ASSUME NEW e \in Device, Exists(e)
        PROVE  devices'[e] # None
    <3>1. CASE e = d
      BY <1>3, <2>1, <3>1, NoneAssumption
    <3>2. CASE e # d
      BY <1>2, <1>3, <2>1, <3>2, SupersedeExists DEF TablesOK
    <3> QED BY <3>1, <3>2
  <2>2. UNCHANGED <<issued, owner, now>>
    BY UpdateMoves
  <2> QED BY <1>2, <1>3, <2>1, <2>2, RowsRewritten DEF TablesOK
<1> QED BY <1>5, <1>6, <1>7 DEF Core

LEMMA CorePrune ==
  ASSUME Core, NEW r \in Request, Prune(r)
  PROVE  Core'
<1>1. TablesOK' /\ OneActivePerToken'
  <2>1. PICK kept \in SUBSET InvalidRows(req[r].arg) : Without(InvalidRows(req[r].arg) \ kept)
    BY DEF Prune
  <2> QED BY <2>1, DeletesRows DEF Prune, Core
<1>2. CASE Answer(r, 201)
  BY <1>1, <1>2, Answers DEF Core, Status
<1>3. CASE Answer(r, 204)
  BY <1>1, <1>3, Answers DEF Core, Status
<1> QED BY <1>2, <1>3 DEF Prune

LEMMA CoreDeleteDevice ==
  ASSUME Core, NEW r \in Request, DeleteDevice(r)
  PROVE  Core'
<1>1. TablesOK' /\ OneActivePerToken'
  BY DeletesRows DEF DeleteDevice, Core
<1> QED BY <1>1, Answers DEF DeleteDevice, Core, Status

\* Handlers that only read the tables.
LEMMA OnlyReads ==
  ASSUME Core, UNCHANGED <<devices, issued, owner, now>>
  PROVE  TablesOK' /\ OneActivePerToken'
  BY DEF Core, TablesOK, OneActivePerToken, Active, Exists

LEMMA CoreCountSubscriptions ==
  ASSUME Core, NEW r \in Request, CountSubscriptions(r)
  PROVE  Core'
<1>1. TablesOK' /\ OneActivePerToken'
  BY OnlyReads DEF CountSubscriptions
<1>2. CASE Answer(r, 409)
  BY <1>1, <1>2, Answers DEF Core, Status
<1>3. CASE Goto(r, "insert")
  <2>1. StageFits([req[r] EXCEPT !.stage = "insert"])
    BY DEF CountSubscriptions, Core, HandlersOK, StageFits, RequestRecord
  <2> QED BY <1>1, <1>3, <2>1, GoesTo DEF Core, Stages
<1> QED BY <1>2, <1>3 DEF CountSubscriptions

LEMMA CoreCreateSubscription ==
  ASSUME Core, NEW r \in Request, CreateSubscription(r)
  PROVE  Core'
<1>1. req[r].device \in Device
  BY DEF CreateSubscription, Core, HandlersOK, StageFits
<1>2. TablesOK'
  <2>1. ASSUME NEW s \in Subscription \ issued,
               owner' = [owner EXCEPT ![s] = req[r].device], Exists(req[r].device),
               issued' = issued \cup {s}, UNCHANGED <<devices, now>>
        PROVE  TablesOK'
    BY <1>1, <2>1 DEF Core, TablesOK, Exists
  <2>2. CASE UNCHANGED <<devices, owner, issued, now>>
    BY <2>2, OnlyReads
  <2> QED BY <2>1, <2>2 DEF CreateSubscription
<1>3. OneActivePerToken'
  BY DEF CreateSubscription, Core, OneActivePerToken, Active, Exists
<1>4. CASE Answer(r, 201)
  BY <1>2, <1>3, <1>4, Answers DEF Core, Status
<1>5. CASE Answer(r, 500)
  BY <1>2, <1>3, <1>5, Answers DEF Core, Status
<1> QED BY <1>4, <1>5 DEF CreateSubscription

LEMMA CoreDeleteSubscription ==
  ASSUME Core, NEW r \in Request, DeleteSubscription(r)
  PROVE  Core'
<1>1. TablesOK' /\ OneActivePerToken'
  BY DEF DeleteSubscription, Core, TablesOK, OneActivePerToken, Active, Exists
<1>2. CASE Answer(r, 204)
  BY <1>1, <1>2, Answers DEF Core, Status
<1>3. CASE Answer(r, 404)
  BY <1>1, <1>3, Answers DEF Core, Status
<1> QED BY <1>2, <1>3 DEF DeleteSubscription

LEMMA CoreFindEndpoint ==
  ASSUME Core, NEW r \in Request, FindEndpoint(r)
  PROVE  Core'
<1>1. TablesOK' /\ OneActivePerToken'
  BY OnlyReads DEF FindEndpoint
<1>2. PICK s \in Subscription \cap issued :
        IF owner[s] = None THEN Answer(r, 404)
        ELSE req' = [req EXCEPT ![r] =
               [Idle EXCEPT !.op = "push", !.stage = "found", !.device = owner[s],
                            !.row = Read(owner[s])]]
  BY DEF FindEndpoint
<1>3. CASE owner[s] = None
  BY <1>1, <1>2, <1>3, Answers DEF Core, Status
<1>4. CASE owner[s] # None
  <2> DEFINE d == owner[s]
             q == [Idle EXCEPT !.op = "push", !.stage = "found", !.device = d,
                               !.row = Read(d)]
  <2>1. d \in Device /\ Exists(d)
    BY <1>4 DEF Core, TablesOK
  <2>2. Read(d) \in Snapshot
    BY <2>1, ReadType DEF Core
  <2>3. q \in RequestRecord
    <3>1. "push" \in Ops /\ "found" \in Stages /\ 0 \in Status /\ 0 \in Time
      BY LimitAssumption DEF Ops, Stages, Status, Time
    <3> QED BY <2>1, <2>2, <3>1 DEF Idle, RequestRecord
  <2>4. StageFits(q)
    BY <2>1, <2>2 DEF Idle, StageFits
  <2> HIDE DEF q
  <2>5. HandlersOK'
    BY <1>2, <1>4, <2>3, <2>4, Moves DEF q, Core
  <2> QED BY <1>1, <2>5 DEF Core
<1> QED BY <1>3, <1>4

LEMMA CoreVerify ==
  ASSUME Core, NEW r \in Request, Verify(r)
  PROVE  Core'
<1>1. TablesOK' /\ OneActivePerToken'
  BY OnlyReads DEF Verify
<1>2. CASE Answer(r, 410)
  BY <1>1, <1>2, Answers DEF Core, Status
<1>3. CASE req' = [req EXCEPT ![r].stage = "send", ![r].start = now]
  <2> DEFINE q == [req[r] EXCEPT !.stage = "send", !.start = now]
  <2>1. q \in RequestRecord
    BY DEF Core, TablesOK, HandlersOK, RequestRecord, Stages
  <2>2. StageFits(q)
    BY DEF Verify, Core, HandlersOK, RequestRecord, StageFits
  <2>3. req' = [req EXCEPT ![r] = q]
    BY <1>3 DEF Core, HandlersOK
  <2> HIDE DEF q
  <2>4. HandlersOK'
    BY <2>1, <2>2, <2>3, Moves DEF Core
  <2> QED BY <1>1, <2>4 DEF Core
<1> QED BY <1>2, <1>3 DEF Verify

LEMMA CorePlatformAnswer ==
  ASSUME Core, NEW r \in Request, PlatformAnswer(r)
  PROVE  Core'
<1>1. TablesOK' /\ OneActivePerToken'
  BY OnlyReads DEF PlatformAnswer
<1>2. StageFits(req[r]) /\ req[r] \in RequestRecord /\ req[r].stage = "send"
  BY DEF PlatformAnswer, Core, HandlersOK
<1>3. ASSUME NEW stage \in {"delivered", "invalid"}, Goto(r, stage)
      PROVE  Core'
  <2>1. StageFits([req[r] EXCEPT !.stage = stage])
    BY <1>2, <1>3 DEF StageFits, RequestRecord
  <2> QED BY <1>1, <1>3, <2>1, GoesTo DEF Core, Stages
<1>4. ASSUME NEW status \in {429, 502, 503}, Answer(r, status)
      PROVE  Core'
  BY <1>1, <1>4, Answers DEF Core, Status
<1> QED BY <1>3, <1>4 DEF PlatformAnswer

LEMMA CoreRecordDelivery ==
  ASSUME Core, NEW r \in Request, RecordDelivery(r)
  PROVE  Core'
<1> DEFINE d == req[r].device
           time == req[r].start
<1>1. d \in Device /\ time \in Time
  BY DEF RecordDelivery, Core, HandlersOK, StageFits, RequestRecord
<1>2. \/ devices' = devices
      \/ /\ Exists(d)
         /\ devices' = [devices EXCEPT ![d].deliveredAt = time,
                                       ![d].seenAt = Later(@, time)]
  BY DEF RecordDelivery
<1>3. ASSUME NEW e \in Device, Exists(e)
      PROVE  /\ devices'[e] \in Row
             /\ devices'[e].token = devices[e].token
             /\ devices'[e].invalidatedAt = devices[e].invalidatedAt
  <2>1. devices[e] \in Row
    BY <1>3 DEF Core, TablesOK, Exists
  <2>2. CASE devices'[e] = devices[e]
    BY <2>1, <2>2
  <2>3. CASE devices'[e] = [devices[e] EXCEPT !.deliveredAt = time,
                                              !.seenAt = Later(devices[e].seenAt, time)]
    BY <1>1, <2>1, <2>3 DEF Row, Later
  <2> QED BY <1>2, <2>2, <2>3 DEF Core, TablesOK
<1>4. ASSUME NEW e \in Device, ~Exists(e)
      PROVE  devices'[e] = None
  BY <1>2, <1>4 DEF Core, TablesOK, Exists
<1>5. devices' \in [Device -> Row \cup {None}]
  <2>1. DOMAIN devices' = Device /\ devices' = [e \in Device |-> devices'[e]]
    BY <1>2 DEF Core, TablesOK
  <2> QED BY <1>3, <1>4, <2>1
<1>6. TablesOK'
  BY <1>3, <1>5, NoneAssumption, RowsRewritten DEF RecordDelivery, Core, TablesOK
<1>7. OneActivePerToken'
  BY <1>3, <1>4, NothingActivated DEF Core, Active, Exists
<1> QED BY <1>6, <1>7, Answers DEF RecordDelivery, Core, Status

LEMMA CoreInvalidateDevice ==
  ASSUME Core, NEW r \in Request, InvalidateDevice(r)
  PROVE  Core'
<1> DEFINE d == req[r].device
<1>1. /\ d \in Device /\ req[r].start \in Time
      /\ StageFits(req[r]) /\ req[r] \in RequestRecord /\ req[r].op = "push"
  BY DEF InvalidateDevice, Core, HandlersOK, StageFits, RequestRecord
<1>2. CASE Active(d) /\ devices[d].token = req[r].row.token
  <2>1. [devices[d] EXCEPT !.invalidatedAt = req[r].start] \in Row
    BY <1>1, <1>2 DEF Core, TablesOK, Active, Exists, Row
  <2>2. devices' = [devices EXCEPT ![d] = [devices[d] EXCEPT !.invalidatedAt = req[r].start]]
    BY <1>1, <1>2 DEF InvalidateDevice, StillHolds, Core, TablesOK
  <2>3. TablesOK'
    <3>1. /\ devices' \in [Device -> Row \cup {None}]
          /\ \A e \in Device : Exists(e) => devices'[e] # None
      BY <1>1, <2>1, <2>2, NoneAssumption DEF Core, TablesOK, Exists
    <3> QED BY <3>1, RowsRewritten DEF InvalidateDevice, Core, TablesOK
  <2>4. ASSUME NEW e \in Device, Active(e)'
        PROVE  Active(e) /\ devices'[e].token = devices[e].token
    <3>1. e # d
      <4>1. devices[d] \in Row
        BY <1>1, <1>2 DEF Core, TablesOK, Active, Exists
      <4>2. devices'[d].invalidatedAt = req[r].start
        BY <1>1, <2>2, <4>1 DEF Core, TablesOK, Row
      <4> QED BY <1>1, <2>4, <4>2, LimitAssumption DEF Active, Time, Never
    <3> QED BY <2>2, <2>4, <3>1 DEF Active, Exists, Core, TablesOK
  <2> QED BY <1>2, <2>3, <2>4, NothingActivated, Answers
          DEF InvalidateDevice, StillHolds, Core, Status
<1>3. CASE ~(Active(d) /\ devices[d].token = req[r].row.token)
  <2>1. StageFits([req[r] EXCEPT !.stage = "recheck"])
    BY <1>1 DEF StageFits, RequestRecord
  <2> QED BY <1>3, <2>1, OnlyReads, GoesTo DEF InvalidateDevice, StillHolds, Core, Stages
<1> QED BY <1>2, <1>3

LEMMA CoreRecheckDevice ==
  ASSUME Core, NEW r \in Request, RecheckDevice(r)
  PROVE  Core'
<1>1. TablesOK' /\ OneActivePerToken'
  BY OnlyReads DEF RecheckDevice
<1>2. CASE Answer(r, 410)
  BY <1>1, <1>2, Answers DEF Core, Status
<1>3. CASE Answer(r, 503)
  BY <1>1, <1>3, Answers DEF Core, Status
<1> QED BY <1>2, <1>3 DEF RecheckDevice

LEMMA CoreFail ==
  ASSUME Core, NEW r \in Request, Fail(r)
  PROVE  Core'
  BY OnlyReads, Answers DEF Fail, Core, Status

LEMMA CoreHandler ==
  ASSUME Core, NEW r \in Request, Handler(r)
  PROVE  Core'
  BY CoreRegisterStart, CoreCreateDevice, CoreAuthenticate, CoreTouchDevice,
     CoreUpdateDeviceToken, CorePrune, CoreDeleteDevice, CoreCountSubscriptions,
     CoreCreateSubscription, CoreDeleteSubscription, CoreFindEndpoint,
     CoreVerify, CorePlatformAnswer, CoreRecordDelivery,
     CoreInvalidateDevice, CoreRecheckDevice, CoreFail DEF Handler

LEMMA CorePurge ==
  ASSUME Core, Purge
  PROVE  Core'
<1>1. TablesOK' /\ OneActivePerToken'
  BY DeletesRows DEF Purge, Core
<1> QED BY <1>1 DEF Purge, Core, HandlersOK, StageFits

LEMMA CoreTick ==
  ASSUME Core, Tick
  PROVE  Core'
<1>1. now' \in Time
  BY LimitAssumption DEF Tick, Core, TablesOK, Time
<1>2. TablesOK' /\ HandlersOK' /\ OneActivePerToken'
  BY <1>1 DEF Tick, Core, TablesOK, HandlersOK, StageFits, OneActivePerToken, Active, Exists
<1> QED BY <1>2 DEF Core

-----------------------------------------------------------------------------
(* The invariant *)

\* The history variables keep their types whatever the step does.
LEMMA HistoryKept ==
  ASSUME HistoryOK, HandlersOK, TablesOK, TablesOK', History
  PROVE  HistoryOK'
<1>1. sawInvalid' \in [Request -> BOOLEAN]
  BY DEF History, HistoryOK, Gone
<1>2. lastDelivery' \in [Device -> Time \cup {Never}]
  <2>1. ASSUME NEW d \in Device
        PROVE  LatestDelivery(d) \in Time \cup {Never}
    <3> DEFINE later == {r \in Request : /\ req[r].stage = "delivered"
                                         /\ req'[r].status = 201 /\ req[r].device = d
                                         /\ req[r].start > lastDelivery[d]}
    <3>1. CASE later = {}
      BY <3>1 DEF LatestDelivery, HistoryOK
    <3>2. CASE later # {}
      <4> DEFINE r == CHOOSE r \in later : TRUE
      <4>1. r \in Request
        BY <3>2
      <4>2. req[r].start \in Time
        BY <4>1 DEF HandlersOK, RequestRecord
      <4> QED BY <3>2, <4>2 DEF LatestDelivery
    <3> QED BY <3>1, <3>2
  <2> QED BY <2>1 DEF History
<1>3. lag' \in [Device -> Time]
  <2>1. ASSUME NEW d \in Device
        PROVE  LongestLag(d) \in Time
    <3>1. CASE SetBack(d)
      <4>1. devices'[d].seenAt \in Time /\ lag[d] \in Time /\ now \in Time
        BY <3>1 DEF SetBack, TablesOK, HistoryOK, Row
      <4>2. /\ devices'[d].seenAt \in Nat /\ lag[d] \in Nat /\ now \in Nat /\ MaxNow \in Nat
            /\ lag[d] <= MaxNow /\ now <= MaxNow
        BY <4>1, LimitAssumption DEF Time
      <4>3. LongestLag(d) \in 0..MaxNow
        BY <4>2 DEF LongestLag
      <4> QED BY <4>3 DEF Time
    <3>2. CASE ~SetBack(d)
      BY <3>2 DEF LongestLag, HistoryOK
    <3> QED BY <3>1, <3>2
  <2> QED BY <2>1 DEF History
<1> QED BY <1>1, <1>2, <1>3 DEF HistoryOK

\* The empty tables satisfy the invariant.
LEMMA InitIInv == Init => IInv
<1> SUFFICES ASSUME Init PROVE IInv
  OBVIOUS
<1>1. Idle \in RequestRecord /\ StageFits(Idle) /\ 0 \in Time
  <2>1. "none" \in Ops /\ "idle" \in Stages /\ 0 \in Status /\ 0 \in Time
    BY LimitAssumption DEF Ops, Stages, Status, Time
  <2> QED BY <2>1 DEF Idle, RequestRecord, StageFits
<1>2. TypeOK
  BY <1>1 DEF Init, TypeOK, TablesOK, HandlersOK, HistoryOK
<1>3. OneActivePerToken
  BY DEF Init, OneActivePerToken, Active, Exists
<1> QED BY <1>2, <1>3 DEF IInv

\* Every step preserves it.
LEMMA NextIInv == IInv /\ [Next]_vars => IInv'
<1> SUFFICES ASSUME IInv, [Next]_vars PROVE IInv'
  OBVIOUS
<1>1. Core /\ HistoryOK
  BY DEF IInv, TypeOK, Core
<1>2. CASE Next
  <2>1. Core'
    BY <1>1, <1>2, CoreHandler, CorePurge, CoreTick DEF Next
  <2>2. HistoryOK'
    BY <1>1, <1>2, <2>1, HistoryKept DEF Next, Core
  <2> QED BY <2>1, <2>2 DEF Core, IInv, TypeOK
<1>3. CASE UNCHANGED vars
  <2>1. Core'
    BY <1>1, <1>3 DEF vars, Core, TablesOK, HandlersOK, StageFits, OneActivePerToken,
       Active, Exists
  <2>2. HistoryOK'
    BY <1>1, <1>3 DEF vars, HistoryOK
  <2> QED BY <2>1, <2>2 DEF Core, IInv, TypeOK
<1> QED BY <1>2, <1>3

THEOREM Invariance == Spec => []IInv
<1> QED BY InitIInv, NextIInv, PTL DEF Spec

\* Every variable of the relay has its type in every reachable state, a
\* subscription's device always has a row, and a handler at a stage holds the
\* row, id and argument that stage uses (devices.ts, push.ts).
THEOREM TypeCorrect == Spec => []TypeOK
<1>1. IInv => TypeOK
  BY DEF IInv
<1> QED BY <1>1, Invariance, PTL

\* However many handlers interleave, and whatever they fail at, two active
\* rows never hold the same token: SUPERSEDE in createDevice and
\* updateDeviceToken (store.ts) is enough without the unique index.
THEOREM ActiveTokensUnique == Spec => []OneActivePerToken
<1>1. IInv => OneActivePerToken
  BY DEF IInv
<1> QED BY <1>1, Invariance, PTL

-----------------------------------------------------------------------------
(* The tables implement TokenRegistry *)

\* A step that activates no row and moves no active row's token.
Loses == \A d \in Device : Active(d)' => Active(d) /\ devices'[d].token = devices[d].token

\* A step after which d holds t and the others hold what they held, but t.
Hands(d, t) ==
  /\ Active(d)' /\ devices'[d].token = t
  /\ \A e \in Device \ {d} :
       /\ Active(e)' => /\ Active(e) /\ devices'[e].token = devices[e].token
                        /\ devices[e].token # t
       /\ Active(e) /\ devices[e].token # t =>
            Active(e)' /\ devices'[e].token = devices[e].token

LEMMA LosesIsLose ==
  ASSUME Loses PROVE Registry!Next
<1>1. Holds' \subseteq Holds
  BY DEF Loses, Holds
<1> QED BY <1>1 DEF Registry!Next, Registry!Lose

LEMMA HandsIsTake ==
  ASSUME NEW d \in Device, NEW t \in Token, Hands(d, t)
  PROVE  Registry!Next
<1>1. ASSUME NEW h \in Holds'
      PROVE  h \in {g \in Holds : g[1] # d /\ g[2] # t} \cup {<<d, t>>}
  <2>1. PICK e \in Device : Active(e)' /\ h = <<e, devices'[e].token>>
    BY <1>1 DEF Holds
  <2>2. CASE e = d
    BY <2>1, <2>2 DEF Hands
  <2>3. CASE e # d
    BY <2>1, <2>3 DEF Hands, Holds
  <2> QED BY <2>2, <2>3
<1>2. ASSUME NEW h \in {g \in Holds : g[1] # d /\ g[2] # t}
      PROVE  h \in Holds'
  <2>1. PICK e \in Device : Active(e) /\ h = <<e, devices[e].token>>
    BY <1>2 DEF Holds
  <2>2. e # d /\ devices[e].token # t
    BY <1>2, <2>1
  <2>3. Active(e)' /\ h = <<e, devices'[e].token>>
    BY <2>1, <2>2 DEF Hands
  <2> QED BY <2>3 DEF Holds
<1>3. <<d, t>> \in Holds'
  BY DEF Hands, Holds
<1>4. Holds' = {g \in Holds : g[1] # d /\ g[2] # t} \cup {<<d, t>>}
  BY <1>1, <1>2, <1>3
<1> QED BY <1>4 DEF Registry!Next, Registry!Take

LEMMA WithoutLoses ==
  ASSUME TablesOK, NEW gone, Without(gone) PROVE Loses
  BY DEF TablesOK, Without, Loses, Active, Exists

\* A row changed in place, neither revalidated nor moved to another token.
LEMMA RowChangeLoses ==
  ASSUME TablesOK, NEW d \in Device, NEW row \in Row, Exists(d),
         row.token = devices[d].token,
         row.invalidatedAt = Never => devices[d].invalidatedAt = Never,
         devices' = [devices EXCEPT ![d] = row]
  PROVE  Loses
<1>1. ASSUME NEW e \in Device, Active(e)'
      PROVE  Active(e) /\ devices'[e].token = devices[e].token
  <2>1. CASE e = d
    BY <1>1, <2>1 DEF TablesOK, Active, Exists
  <2>2. CASE e # d
    BY <1>1, <2>2 DEF TablesOK, Active, Exists
  <2> QED BY <2>1, <2>2
<1> QED BY <1>1 DEF Loses

LEMMA TouchLoses ==
  ASSUME Core, NEW r \in Request, TouchDevice(r) PROVE Loses
<1>0. PICK time \in Time :
        devices' = IF Exists(req[r].device)
                   THEN [devices EXCEPT ![req[r].device].seenAt = time] ELSE devices
  BY TouchIs DEF Core
<1> DEFINE d == req[r].device
           row == [devices[d] EXCEPT !.seenAt = time]
<1>1. d \in Device
  BY DEF TouchDevice, Core, HandlersOK, StageFits, RequestRecord, Ops
<1>2. CASE Exists(d)
  <2>1. devices[d] \in Row
    BY <1>1, <1>2 DEF Core, TablesOK, Exists
  <2>2. /\ row \in Row /\ row.token = devices[d].token
        /\ row.invalidatedAt = devices[d].invalidatedAt
    BY <2>1 DEF Row
  <2>3. devices' = [devices EXCEPT ![d] = row]
    BY <1>0, <1>2
  <2> HIDE DEF row, d
  <2> QED BY <1>1, <1>2, <2>2, <2>3, RowChangeLoses DEF Core
<1>3. CASE ~Exists(d)
  BY <1>0, <1>3 DEF Loses, Active, Exists
<1> QED BY <1>2, <1>3

LEMMA DeliveryLoses ==
  ASSUME Core, NEW r \in Request, RecordDelivery(r) PROVE Loses
<1> DEFINE d == req[r].device
           time == req[r].start
           row == [devices[d] EXCEPT !.deliveredAt = time,
                                     !.seenAt = Later(devices[d].seenAt, time)]
<1>1. d \in Device /\ time \in Time
  BY DEF RecordDelivery, Core, HandlersOK, StageFits, RequestRecord
<1>2. CASE devices' = devices
  BY <1>2 DEF Loses, Active, Exists
<1>3. CASE Exists(d) /\ devices' = [devices EXCEPT ![d].deliveredAt = time,
                                                   ![d].seenAt = Later(@, time)]
  <2>1. devices[d] \in Row
    BY <1>1, <1>3 DEF Core, TablesOK, Exists
  <2>2. /\ row \in Row /\ row.token = devices[d].token
        /\ row.invalidatedAt = devices[d].invalidatedAt
    BY <1>1, <2>1 DEF Row, Later
  <2>3. devices' = [devices EXCEPT ![d] = row]
    BY <1>1, <1>3, <2>1 DEF Core, TablesOK, Row
  <2> HIDE DEF row, d
  <2> QED BY <1>1, <1>3, <2>2, <2>3, RowChangeLoses DEF Core
<1> QED BY <1>2, <1>3 DEF RecordDelivery

LEMMA InvalidateLoses ==
  ASSUME Core, NEW r \in Request, InvalidateDevice(r) PROVE Loses
<1> DEFINE d == req[r].device
           row == [devices[d] EXCEPT !.invalidatedAt = req[r].start]
<1>1. d \in Device /\ req[r].start \in Time
  BY DEF InvalidateDevice, Core, HandlersOK, StageFits, RequestRecord
<1>2. CASE StillHolds(r)
  <2>1. devices[d] \in Row /\ Exists(d) /\ devices[d].invalidatedAt = Never
    BY <1>1, <1>2 DEF StillHolds, Active, Core, TablesOK, Exists
  <2>2. row \in Row /\ row.token = devices[d].token
    BY <1>1, <2>1 DEF Row
  <2>3. devices' = [devices EXCEPT ![d] = row]
    BY <1>2 DEF InvalidateDevice
  <2> HIDE DEF row, d
  <2> QED BY <1>1, <2>1, <2>2, <2>3, RowChangeLoses DEF Core
<1>3. CASE ~StillHolds(r)
  BY <1>3 DEF InvalidateDevice, Loses, Active, Exists
<1> QED BY <1>2, <1>3

LEMMA CreateHands ==
  ASSUME Core, NEW r \in Request, CreateDevice(r)
  PROVE  \E d \in Device, t \in Token : Hands(d, t)
<1> DEFINE t == req[r].arg
           time == req[r].start
<1>1. t \in Token /\ time \in Time
  BY DEF CreateDevice, At, Core, HandlersOK, StageFits, RequestRecord
<1>2. PICK d \in Device \ issued :
        devices' = [Supersede(t, d, time) EXCEPT
                      ![d] = [token |-> t, invalidatedAt |-> Never,
                              seenAt |-> time, deliveredAt |-> Never]]
  BY DEF CreateDevice
<1> DEFINE row == [token |-> t, invalidatedAt |-> Never, seenAt |-> time,
                   deliveredAt |-> Never]
<1>3. row \in Row /\ row.token = t /\ row.invalidatedAt = Never
  BY <1>1 DEF Row
<1> HIDE DEF row, t, time
<1>4. Supersede(t, d, time) \in [Device -> Row \cup {None}]
  BY <1>1, SupersedeType DEF Core, TablesOK
<1>5. devices'[d] = row /\ \A e \in Device \ {d} : devices'[e] = Supersede(t, d, time)[e]
  BY <1>2, <1>4 DEF row
<1>6. Active(d)' /\ devices'[d].token = t
  BY <1>3, <1>5, NoneAssumption DEF Active, Exists
<1>7. ASSUME NEW e \in Device \ {d}, Active(e)'
      PROVE  Active(e) /\ devices'[e] = devices[e] /\ devices[e].token # t
  BY <1>1, <1>5, <1>7, SupersedeActive DEF Core, TablesOK, Active, Exists
<1>8. ASSUME NEW e \in Device \ {d}, Active(e), devices[e].token # t
      PROVE  Active(e)' /\ devices'[e] = devices[e]
  BY <1>1, <1>5, <1>8, SupersedeKeeps DEF Active, Exists
<1> QED BY <1>1, <1>6, <1>7, <1>8 DEF Hands

LEMMA UpdateHands ==
  ASSUME Core, NEW r \in Request, UpdateDeviceToken(r)
  PROVE  Loses \/ \E d \in Device, t \in Token : Hands(d, t)
<1>0. TablesOK /\ HandlersOK
  BY DEF Core
<1>1. PICK d, t : d = req[r].device /\ t = req[r].arg
  OBVIOUS
<1>u. d \in Device /\ t \in Token /\ \E time \in Time : Updates(d, t, time)
  BY <1>0, <1>1, UpdateIs
<1>p. PICK time \in Time : Updates(d, t, time)
  BY <1>u
<1>2. /\ d \in Device /\ t \in Token
      /\ \A e \in Device \ {d} : devices'[e] = Supersede(t, d, time)[e]
      /\ ~Exists(d) => devices'[d] = None
      /\ Exists(d) => /\ devices'[d] \in Row /\ devices'[d].token = t
                      /\ devices'[d].invalidatedAt = Never
  BY <1>u, <1>p DEF Updates
<1>3. \A e \in Device \ {d} :
        Active(e)' => Active(e) /\ devices'[e] = devices[e] /\ devices[e].token # t
  BY <1>0, <1>1, UpdateOthers
<1>4. ASSUME NEW e \in Device \ {d}, Active(e), devices[e].token # t
      PROVE  Active(e)' /\ devices'[e] = devices[e]
  <2>1. Supersede(t, d, time)[e] = devices[e]
    BY <1>2, <1>4, SupersedeKeeps
  <2> QED BY <1>2, <1>4, <2>1 DEF Active, Exists
<1>5. CASE Exists(d)
  <2>1. Active(d)' /\ devices'[d].token = t
    BY <1>2, <1>5, NoneAssumption DEF Active, Exists
  <2> QED BY <1>2, <1>3, <1>4, <2>1 DEF Hands
<1>6. CASE ~Exists(d)
  BY <1>2, <1>3, <1>6 DEF Loses, Active, Exists
<1> QED BY <1>5, <1>6

LEMMA HandlerRegistry ==
  ASSUME Core, NEW r \in Request, Handler(r)
  PROVE  Registry!Next
<1>1. CASE UNCHANGED devices
  <2>1. Loses
    BY <1>1 DEF Loses, Active, Exists
  <2> QED BY <2>1, LosesIsLose
<1>2. CASE CreateDevice(r)
  BY <1>2, CreateHands, HandsIsTake
<1>3. CASE TouchDevice(r)
  BY <1>3, TouchLoses, LosesIsLose
<1>4. CASE UpdateDeviceToken(r)
  BY <1>4, UpdateHands, HandsIsTake, LosesIsLose
<1>5. CASE Prune(r)
  <2>1. PICK kept \in SUBSET InvalidRows(req[r].arg) : Without(InvalidRows(req[r].arg) \ kept)
    BY <1>5 DEF Prune
  <2> QED BY <2>1, WithoutLoses, LosesIsLose DEF Core
<1>6. CASE DeleteDevice(r)
  BY <1>6, WithoutLoses, LosesIsLose DEF DeleteDevice, Core
<1>7. CASE RecordDelivery(r)
  BY <1>7, DeliveryLoses, LosesIsLose
<1>8. CASE InvalidateDevice(r)
  BY <1>8, InvalidateLoses, LosesIsLose
<1> QED BY <1>1, <1>2, <1>3, <1>4, <1>5, <1>6, <1>7, <1>8
        DEF Handler, RegisterStart, Authenticate, CountSubscriptions, CreateSubscription,
            DeleteSubscription, FindEndpoint, Verify, PlatformAnswer, RecheckDevice, Fail

\* The relay's tables implement TokenRegistry (relay/README.md, "One active
\* device per token"): each statement of store.ts hands one token to one device
\* or takes tokens from their holders, for any interleaving of handlers.
THEOREM RelayImplementsRegistry == Spec => ImplementsRegistry
<1>1. Init => Registry!Init
  BY DEF Init, Registry!Init, Holds, Active, Exists
<1>2. IInv /\ [Next]_vars => [Registry!Next]_Holds
  <2> SUFFICES ASSUME IInv, [Next]_vars PROVE Registry!Next \/ UNCHANGED Holds
    OBVIOUS
  <2>1. Core
    BY DEF IInv, TypeOK, Core
  <2>2. ASSUME NEW r \in Request, Handler(r) PROVE Registry!Next
    BY <2>1, <2>2, HandlerRegistry
  <2>3. CASE Purge
    BY <2>1, <2>3, WithoutLoses, LosesIsLose DEF Purge, Core
  <2>4. CASE Tick \/ UNCHANGED vars
    BY <2>4 DEF Tick, vars, Holds, Active, Exists
  <2> QED BY <2>2, <2>3, <2>4 DEF Next
<1> QED BY <1>1, <1>2, Invariance, PTL DEF Spec, ImplementsRegistry, Registry!Spec

-----------------------------------------------------------------------------
(* An active row becomes invalid only for its own token's sake *)

\* No active row becomes invalid in this step.
KeepsValid ==
  \A d \in Device : Active(d) /\ devices'[d] # None => devices'[d].invalidatedAt = Never

\* The step takes d's token from it: the platform refused it, or it moves.
Causes(r, d) ==
  /\ req'[r] # req[r]
  /\ \/ /\ req[r].stage = "invalid"
        /\ req[r].device = d /\ req[r].row.token = devices[d].token
     \/ /\ req[r].stage = "commit" /\ req'[r].stage = "prune"
        /\ req'[r].device # d /\ req[r].arg = devices[d].token

\* What an answered handler keeps: its status.
LEMMA AnswerIs ==
  ASSUME HandlersOK, NEW r \in Request, NEW status, Answer(r, status)
  PROVE  /\ req'[r].op = "none" /\ req'[r].stage = "done" /\ req'[r].status = status
         /\ req'[r].start = 0 /\ req'[r].device = None
         /\ \A p \in Request \ {r} : req'[p] = req[p]
<1>1. req'[r] = [Idle EXCEPT !.stage = "done", !.status = status]
  BY DEF Answer, HandlersOK
<1> QED BY <1>1 DEF Answer, HandlersOK, Idle

\* A handler that moves on keeps everything but its stage.
LEMMA GotoIs ==
  ASSUME HandlersOK, NEW r \in Request, NEW stage, Goto(r, stage)
  PROVE  /\ req'[r].op = req[r].op /\ req'[r].stage = stage /\ req'[r].status = req[r].status
         /\ req'[r].start = req[r].start /\ req'[r].device = req[r].device
         /\ req'[r].row = req[r].row /\ req'[r].arg = req[r].arg
         /\ \A p \in Request \ {r} : req'[p] = req[p]
<1>1. req'[r] = [req[r] EXCEPT !.stage = stage] /\ req[r] \in RequestRecord
  BY DEF Goto, HandlersOK
<1> QED BY <1>1 DEF Goto, HandlersOK, RequestRecord

LEMMA ResumesIs ==
  ASSUME HandlersOK, NEW r \in Request, NEW stage, NEW time, Resumes(r, stage, time)
  PROVE  /\ req'[r].op = req[r].op /\ req'[r].stage = stage /\ req'[r].status = req[r].status
         /\ req'[r].start = time /\ req'[r].device = req[r].device
         /\ \A p \in Request \ {r} : req'[p] = req[p]
<1>1. req'[r] = [req[r] EXCEPT !.stage = stage, !.start = time] /\ req[r] \in RequestRecord
  BY DEF Resumes, HandlersOK
<1> QED BY <1>1 DEF Resumes, HandlersOK, RequestRecord

LEMMA WithoutKeepsValid ==
  ASSUME NEW gone, Without(gone) PROVE KeepsValid
  BY DEF Without, KeepsValid, Active, Exists

LEMMA TouchKeepsValid ==
  ASSUME Core, NEW r \in Request, TouchDevice(r) PROVE KeepsValid
<1>1. ASSUME NEW e \in Device, Active(e)
      PROVE  devices'[e].invalidatedAt = Never
  <2>1. devices[e] \in Row /\ devices[e].invalidatedAt = Never
    BY <1>1 DEF Active, Exists, Core, TablesOK
  <2>3. PICK time \in Time :
          devices' = IF Exists(req[r].device)
                     THEN [devices EXCEPT ![req[r].device].seenAt = time] ELSE devices
    BY TouchIs DEF Core
  <2>2. devices'[e] = devices[e] \/ devices'[e] = [devices[e] EXCEPT !.seenAt = time]
    BY <2>3 DEF Core, TablesOK
  <2> QED BY <2>1, <2>2 DEF Row
<1> QED BY <1>1 DEF KeepsValid

LEMMA DeliveryKeepsValid ==
  ASSUME Core, NEW r \in Request, RecordDelivery(r) PROVE KeepsValid
<1> DEFINE time == req[r].start
<1>1. ASSUME NEW e \in Device, Active(e)
      PROVE  devices'[e].invalidatedAt = Never
  <2>1. devices[e] \in Row /\ devices[e].invalidatedAt = Never
    BY <1>1 DEF Active, Exists, Core, TablesOK
  <2>2. \/ devices'[e] = devices[e]
        \/ devices'[e] = [devices[e] EXCEPT !.deliveredAt = time,
                                            !.seenAt = Later(devices[e].seenAt, time)]
    BY DEF RecordDelivery, Core, TablesOK
  <2> QED BY <2>1, <2>2 DEF Row
<1> QED BY <1>1 DEF KeepsValid

LEMMA CreateCauses ==
  ASSUME Core, NEW r \in Request, CreateDevice(r),
         NEW e \in Device, Active(e), devices'[e] # None, devices'[e].invalidatedAt # Never
  PROVE  Causes(r, e)
<1>1. /\ req[r] \in RequestRecord /\ req[r].stage = "commit"
      /\ req[r].arg \in Token /\ req[r].start \in Time
  BY DEF CreateDevice, At, Core, HandlersOK, StageFits, RequestRecord
<1>2. PICK d \in Device \ issued :
        /\ devices' = [Supersede(req[r].arg, d, req[r].start) EXCEPT
                         ![d] = [token |-> req[r].arg, invalidatedAt |-> Never,
                                 seenAt |-> req[r].start, deliveredAt |-> Never]]
        /\ req' = [req EXCEPT ![r].stage = "prune", ![r].device = d]
  BY DEF CreateDevice
<1>3. Supersede(req[r].arg, d, req[r].start) \in [Device -> Row \cup {None}]
  BY <1>1, SupersedeType DEF Core, TablesOK
<1>4. e # d
  BY <1>2, <1>3
<1>5. devices'[e] = Supersede(req[r].arg, d, req[r].start)[e]
  BY <1>2, <1>3, <1>4
<1>6. devices[e].token = req[r].arg
  BY <1>1, <1>5, SupersedeKeeps DEF Active
<1>7. req'[r].stage = "prune" /\ req'[r].device = d
  BY <1>1, <1>2 DEF Core, HandlersOK, RequestRecord
<1> QED BY <1>1, <1>4, <1>6, <1>7 DEF Causes

LEMMA UpdateCauses ==
  ASSUME Core, NEW r \in Request, UpdateDeviceToken(r),
         NEW e \in Device, Active(e), devices'[e] # None, devices'[e].invalidatedAt # Never
  PROVE  Causes(r, e)
<1>0. TablesOK /\ HandlersOK
  BY DEF Core
<1>1. PICK d, t : d = req[r].device /\ t = req[r].arg
  OBVIOUS
<1>u. d \in Device /\ t \in Token /\ \E time \in Time : Updates(d, t, time)
  BY <1>0, <1>1, UpdateIs
<1>p. PICK time \in Time : Updates(d, t, time)
  BY <1>u
<1>2. /\ d \in Device /\ t \in Token
      /\ \A f \in Device \ {d} : devices'[f] = Supersede(t, d, time)[f]
      /\ Exists(d) => devices'[d].invalidatedAt = Never
  BY <1>u, <1>p DEF Updates
<1>3. e # d
  BY <1>2 DEF Active
<1>4. devices[e].token = t
  <2>1. Supersede(t, d, time)[e] # devices[e]
    BY <1>2, <1>3 DEF Active
  <2> QED BY <1>2, <2>1, SupersedeKeeps
<1>5. req[r].stage = "commit" /\ req'[r].stage = "prune" /\ req'[r].device = d
  BY <1>0, <1>1, UpdateMoves, GotoIs
<1> QED BY <1>1, <1>3, <1>4, <1>5 DEF Causes

LEMMA InvalidateCauses ==
  ASSUME Core, NEW r \in Request, InvalidateDevice(r),
         NEW e \in Device, Active(e), devices'[e] # None, devices'[e].invalidatedAt # Never
  PROVE  Causes(r, e)
<1>1. StillHolds(r) /\ e = req[r].device
  BY DEF InvalidateDevice, Active, Core, TablesOK
<1>2. req[r].stage = "invalid" /\ Answer(r, 410)
  BY <1>1 DEF InvalidateDevice
<1>3. req'[r].stage = "done"
  BY <1>2, AnswerIs DEF Core
<1> QED BY <1>1, <1>2, <1>3 DEF Causes, StillHolds

LEMMA HandlerCauses ==
  ASSUME Core, NEW r \in Request, Handler(r),
         NEW d \in Device, Active(d), devices'[d] # None, devices'[d].invalidatedAt # Never
  PROVE  Causes(r, d)
<1>1. CASE UNCHANGED devices
  BY <1>1 DEF Active
<1>2. CASE CreateDevice(r)
  BY <1>2, CreateCauses
<1>3. CASE TouchDevice(r) \/ RecordDelivery(r)
  BY <1>3, TouchKeepsValid, DeliveryKeepsValid DEF KeepsValid
<1>4. CASE UpdateDeviceToken(r)
  BY <1>4, UpdateCauses
<1>5. CASE Prune(r)
  <2>1. PICK kept \in SUBSET InvalidRows(req[r].arg) : Without(InvalidRows(req[r].arg) \ kept)
    BY <1>5 DEF Prune
  <2> QED BY <2>1, WithoutKeepsValid DEF KeepsValid
<1>6. CASE DeleteDevice(r)
  BY <1>6, WithoutKeepsValid DEF DeleteDevice, KeepsValid
<1>7. CASE InvalidateDevice(r)
  BY <1>7, InvalidateCauses
<1> QED BY <1>1, <1>2, <1>3, <1>4, <1>5, <1>6, <1>7
        DEF Handler, RegisterStart, Authenticate, CountSubscriptions, CreateSubscription,
            DeleteSubscription, FindEndpoint, Verify, PlatformAnswer, RecheckDevice, Fail

\* An active row becomes invalid only in a step of a push whose refused token
\* the row still holds, or of a request that moves its token to another row:
\* the WHERE clauses of invalidateDevice and SUPERSEDE (store.ts) suffice.
THEOREM InvalidationsHaveCauses == Spec => InvalidationHasCause
<1>1. IInv /\ [Next]_vars =>
        [\A d \in Device : Active(d) /\ devices'[d] # None
            /\ devices'[d].invalidatedAt # Never =>
           \E r \in Request : Causes(r, d)]_vars
  <2> SUFFICES ASSUME IInv, Next, NEW d \in Device, Active(d), devices'[d] # None,
                      devices'[d].invalidatedAt # Never
               PROVE  \E r \in Request : Causes(r, d)
    OBVIOUS
  <2>1. Core
    BY DEF IInv, TypeOK, Core
  <2>2. ASSUME NEW r \in Request, Handler(r) PROVE Causes(r, d)
    BY <2>1, <2>2, HandlerCauses
  <2>3. CASE Purge
    BY <2>3, WithoutKeepsValid DEF Purge, KeepsValid
  <2>4. CASE Tick
    BY <2>4 DEF Tick, Active
  <2> QED BY <2>2, <2>3, <2>4 DEF Next
<1> QED BY <1>1, Invariance, PTL DEF Spec, InvalidationHasCause, Causes

-----------------------------------------------------------------------------
(* What the history of deliveries and invalid rows rests on *)

\* A device with a row, a recorded delivery or a push has had its id issued:
\* a new registration meets none of them.
Fresh ==
  /\ \A d \in Device : Exists(d) \/ lastDelivery[d] # Never => d \in issued
  /\ \A r \in Request : req[r].op = "push" => req[r].device \in issued

\* A row was seen and delivered to no later than now, and it was delivered to
\* no later than it was seen but for the age of a time that set seen_at back;
\* the same of a delivery that a push read in its row.
Aged ==
  /\ \A d \in Device : Exists(d) => /\ devices[d].deliveredAt <= devices[d].seenAt + lag[d]
                                    /\ devices[d].deliveredAt <= now
                                    /\ devices[d].seenAt <= now
  /\ \A r \in Request : req[r].op = "push" /\ Exists(req[r].device) =>
       /\ req[r].row.deliveredAt <= devices[req[r].device].seenAt + lag[req[r].device]
       /\ req[r].row.deliveredAt <= now
  /\ \A d \in Device : lastDelivery[d] <= now

\* A handler read the time before now, holds no status before its answer,
\* and no operation after it.
Answering ==
  \A r \in Request : /\ req[r].start <= now
                     /\ req[r].stage # "done" => req[r].status = 0
                     /\ Free(r) => req[r].op = "none"

\* A push that read an invalid row has seen one.
ReadIsSeen ==
  \A r \in Request : req[r].op = "push" /\ req[r].row.invalidatedAt # Never => sawInvalid[r]

Honest == Answering /\ ReadIsSeen /\ GoneIsTrue

Seen == Fresh /\ Aged /\ Answering /\ DeliveryKeepsSeen

\* What a step may do to a row: it is a new one, or the old one seen later, or
\* one that a touch or a move sets back; a new delivery is seen at once.
RowAges(d) ==
  devices'[d] # None =>
    /\ devices'[d].seenAt <= now
    /\ \/ Exists(d) /\ (devices'[d].seenAt >= devices[d].seenAt \/ SetBack(d))
       \/ ~Exists(d) /\ d \notin issued /\ d \in issued'
    /\ \/ devices'[d].deliveredAt <= devices'[d].seenAt
       \/ Exists(d) /\ devices'[d].deliveredAt = devices[d].deliveredAt

\* What a step may do to a handler's record.
Follows(r) ==
  /\ req'[r].start <= now
  /\ req'[r].stage # "done" => req'[r].status = 0
  /\ req'[r].stage \in {"idle", "done"} => req'[r].op = "none"
  /\ req'[r].op = "push" =>
       \/ req[r].op = "push" /\ req'[r].device = req[r].device /\ req'[r].row = req[r].row
       \/ /\ req[r].op # "push" /\ Exists(req'[r].device) /\ req'[r].device \in Device
          /\ req'[r].row = Read(req'[r].device) /\ devices' = devices
  /\ req'[r].status = 410 =>
       \/ req[r].status = 410
       \/ req[r].op = "push" /\ (sawInvalid[r] \/ Gone(devices', req[r].device))

\* Whose delivery the step records, and how far it is from the row's seen_at.
Delivers(d) ==
  \/ lastDelivery'[d] = lastDelivery[d]
  \/ \E r \in Request :
       /\ req[r].op = "push" /\ req[r].device = d /\ lastDelivery'[d] = req[r].start
       /\ devices'[d] # None => req[r].start - devices'[d].seenAt < Day + lag[d]

\* A row whose times the step leaves alone.
LEMMA SameTimesAge ==
  ASSUME Core, Aged, NEW d \in Device, Exists(d),
         devices'[d].seenAt = devices[d].seenAt,
         devices'[d].deliveredAt = devices[d].deliveredAt
  PROVE  RowAges(d)
<1>1. devices[d].seenAt \in Int
  BY DEF Core, TablesOK, Exists, Row, Time
<1> QED BY <1>1 DEF RowAges, Aged

LEMMA RowsKeptAge ==
  ASSUME Core, Aged, NEW d \in Device, devices'[d] = None \/ devices'[d] = devices[d]
  PROVE  RowAges(d)
<1>1. CASE devices'[d] = None
  BY <1>1 DEF RowAges
<1>2. CASE devices'[d] # None
  BY <1>2, SameTimesAge DEF Exists
<1> QED BY <1>1, <1>2

\* SUPERSEDE changes no row's times.
LEMMA SupersedeTimes ==
  ASSUME devices \in [Device -> Row \cup {None}],
         NEW t \in Token, NEW d \in Device, NEW time \in Time, NEW e \in Device, Exists(e)
  PROVE  /\ Supersede(t, d, time)[e].seenAt = devices[e].seenAt
         /\ Supersede(t, d, time)[e].deliveredAt = devices[e].deliveredAt
<1>1. devices[e] \in Row
  BY DEF Exists
<1>2. \/ Supersede(t, d, time)[e] = devices[e]
      \/ Supersede(t, d, time)[e] = [devices[e] EXCEPT !.invalidatedAt = time]
  BY DEF Supersede
<1> QED BY <1>1, <1>2 DEF Row

LEMMA CreateAges ==
  ASSUME Core, Aged, Fresh, Answering, NEW r \in Request, CreateDevice(r), NEW e \in Device
  PROVE  RowAges(e)
<1> DEFINE t == req[r].arg
           time == req[r].start
<1>1. t \in Token /\ time \in Time /\ time <= now
  BY DEF CreateDevice, At, Core, HandlersOK, StageFits, RequestRecord, Answering
<1>2. PICK d \in Device \ issued :
        /\ devices' = [Supersede(t, d, time) EXCEPT
                         ![d] = [token |-> t, invalidatedAt |-> Never,
                                 seenAt |-> time, deliveredAt |-> Never]]
        /\ issued' = issued \cup {d}
  BY DEF CreateDevice
<1>3. Supersede(t, d, time) \in [Device -> Row \cup {None}]
  BY <1>1, SupersedeType DEF Core, TablesOK
<1>4. CASE e = d
  <2>1. ~Exists(e) /\ e \notin issued /\ e \in issued'
    BY <1>2, <1>4 DEF Fresh
  <2>2. devices'[e].seenAt = time /\ devices'[e].deliveredAt = Never
    BY <1>2, <1>3, <1>4
  <2> QED BY <1>1, <2>1, <2>2, LimitAssumption DEF RowAges, Time, Never
<1>5. CASE e # d
  <2>1. devices'[e] = Supersede(t, d, time)[e]
    BY <1>2, <1>3, <1>5
  <2>2. CASE Exists(e)
    BY <1>1, <2>1, <2>2, SupersedeTimes, SameTimesAge DEF Core, TablesOK
  <2>3. CASE ~Exists(e)
    BY <1>1, <2>1, <2>3, SupersedeKeeps DEF Active, Exists, RowAges
  <2> QED BY <2>2, <2>3
<1> QED BY <1>4, <1>5

\* A touch or a move writes seen_at: later, or set back.
LEMMA WrittenAges ==
  ASSUME TablesOK, NEW d \in Device, Exists(d), NEW time \in Time, time <= now,
         devices'[d].seenAt = time, devices'[d].deliveredAt = devices[d].deliveredAt,
         NEW r \in Request, req[r].stage \in {"touch", "commit"}, req[r].device = d,
         req'[r] # req[r]
  PROVE  RowAges(d)
<1>1. devices[d].seenAt \in Int /\ time \in Int
  BY DEF TablesOK, Exists, Row, Time
<1>2. time >= devices[d].seenAt \/ time < devices[d].seenAt
  BY <1>1
<1> QED BY <1>2 DEF RowAges, SetBack

LEMMA UpdateAges ==
  ASSUME Core, Aged, NEW r \in Request, UpdateDeviceToken(r), NEW e \in Device
  PROVE  RowAges(e)
<1>0. TablesOK /\ HandlersOK
  BY DEF Core
<1>1. PICK d, t : d = req[r].device /\ t = req[r].arg
  OBVIOUS
<1>u. d \in Device /\ t \in Token /\ \E time \in Time : Updates(d, t, time)
  BY <1>0, <1>1, UpdateIs
<1>p. PICK time \in Time : Updates(d, t, time)
  BY <1>u
<1>2. /\ d \in Device /\ t \in Token /\ time <= now
      /\ \A f \in Device \ {d} : devices'[f] = Supersede(t, d, time)[f]
      /\ ~Exists(d) => devices'[d] = None
      /\ Exists(d) => /\ devices'[d].seenAt = time
                      /\ devices'[d].deliveredAt = devices[d].deliveredAt
  BY <1>u, <1>p DEF Updates
<1>s. req[r].stage = "commit" /\ req'[r] # req[r]
  BY <1>0, UpdateMoves, GotoIs
<1>3. CASE e = d /\ Exists(d)
  BY <1>0, <1>1, <1>2, <1>3, <1>s, WrittenAges
<1>4. CASE e = d /\ ~Exists(d)
  BY <1>2, <1>4 DEF RowAges
<1>5. CASE e # d
  <2>1. devices'[e] = Supersede(t, d, time)[e]
    BY <1>2, <1>5
  <2>2. CASE Exists(e)
    BY <1>0, <1>2, <2>1, <2>2, SupersedeTimes, SameTimesAge DEF TablesOK
  <2>3. CASE ~Exists(e)
    <3>1. Supersede(t, d, time)[e] = devices[e]
      BY <1>2, <2>3, SupersedeKeeps DEF Active
    <3> QED BY <2>1, <2>3, <3>1 DEF Exists, RowAges
  <2> QED BY <2>2, <2>3
<1> QED BY <1>3, <1>4, <1>5

LEMMA TouchAges ==
  ASSUME Core, Aged, NEW r \in Request, TouchDevice(r), NEW e \in Device
  PROVE  RowAges(e)
<1>0. PICK time \in Time :
        /\ time <= now
        /\ devices' = IF Exists(req[r].device)
                      THEN [devices EXCEPT ![req[r].device].seenAt = time] ELSE devices
  BY TouchIs DEF Core
<1>s. req[r].stage = "touch" /\ req'[r] # req[r]
  BY TouchIs, AnswerIs, ResumesIs DEF Core
<1>1. CASE devices'[e] = devices[e]
  BY <1>1, RowsKeptAge
<1>2. CASE e = req[r].device /\ Exists(e) /\ devices'[e] = [devices[e] EXCEPT !.seenAt = time]
  <2>1. devices[e] \in Row
    BY <1>2 DEF Core, TablesOK, Exists
  <2>2. devices'[e].seenAt = time /\ devices'[e].deliveredAt = devices[e].deliveredAt
    BY <1>2, <2>1 DEF Row
  <2> QED BY <1>0, <1>2, <1>s, <2>2, WrittenAges DEF Core
<1> QED BY <1>0, <1>1, <1>2 DEF Core, TablesOK, Exists

\* recordDelivery writes the push's time and never moves seen_at back.
LEMMA DeliveryAges ==
  ASSUME Core, Aged, Answering, NEW r \in Request, RecordDelivery(r), NEW e \in Device
  PROVE  RowAges(e)
<1> DEFINE time == req[r].start
<1>1. CASE devices'[e] = devices[e]
  BY <1>1, RowsKeptAge
<1>2. CASE /\ Exists(e)
           /\ devices'[e] = [devices[e] EXCEPT !.deliveredAt = time,
                                               !.seenAt = Later(devices[e].seenAt, time)]
  <2>1. /\ devices[e] \in Row /\ now \in Time /\ time \in Time /\ time <= now
        /\ devices[e].seenAt <= now
    BY <1>2 DEF Core, TablesOK, HandlersOK, RequestRecord, Exists, Aged, Answering
  <2>2. devices'[e].seenAt = Later(devices[e].seenAt, time) /\ devices'[e].deliveredAt = time
    BY <1>2, <2>1 DEF Row
  <2>3. time \in Int /\ devices[e].seenAt \in Int /\ now \in Int
    BY <2>1 DEF Row, Time, Never
  <2> HIDE DEF time
  <2> QED BY <1>2, <2>1, <2>2, <2>3 DEF RowAges, Later
<1> QED BY <1>1, <1>2 DEF RecordDelivery, Core, TablesOK, Exists

LEMMA InvalidateAges ==
  ASSUME Core, Aged, NEW r \in Request, InvalidateDevice(r), NEW e \in Device
  PROVE  RowAges(e)
<1>1. CASE devices'[e] = devices[e]
  BY <1>1, RowsKeptAge
<1>2. CASE Exists(e) /\ devices'[e] = [devices[e] EXCEPT !.invalidatedAt = req[r].start]
  <2>1. devices[e] \in Row
    BY <1>2 DEF Core, TablesOK, Exists
  <2>2. devices'[e].seenAt = devices[e].seenAt /\ devices'[e].deliveredAt = devices[e].deliveredAt
    BY <1>2, <2>1 DEF Row
  <2> QED BY <1>2, <2>2, SameTimesAge
<1> QED BY <1>1, <1>2 DEF InvalidateDevice, StillHolds, Active, Core, TablesOK

LEMMA WithoutAges ==
  ASSUME Core, Aged, NEW gone, Without(gone), NEW e \in Device
  PROVE  RowAges(e)
  BY RowsKeptAge DEF Without

LEMMA HandlerAges ==
  ASSUME Core, Aged, Fresh, Answering, NEW r \in Request, Handler(r), NEW e \in Device
  PROVE  RowAges(e)
<1>1. CASE UNCHANGED devices
  BY <1>1, RowsKeptAge
<1>2. CASE CreateDevice(r)
  BY <1>2, CreateAges
<1>3. CASE TouchDevice(r)
  BY <1>3, TouchAges
<1>4. CASE UpdateDeviceToken(r)
  BY <1>4, UpdateAges
<1>5. CASE Prune(r)
  <2>1. PICK kept \in SUBSET InvalidRows(req[r].arg) : Without(InvalidRows(req[r].arg) \ kept)
    BY <1>5 DEF Prune
  <2> QED BY <2>1, WithoutAges
<1>6. CASE DeleteDevice(r)
  BY <1>6, WithoutAges DEF DeleteDevice
<1>7. CASE RecordDelivery(r)
  BY <1>7, DeliveryAges
<1>8. CASE InvalidateDevice(r)
  BY <1>8, InvalidateAges
<1> QED BY <1>1, <1>2, <1>3, <1>4, <1>5, <1>6, <1>7, <1>8
        DEF Handler, RegisterStart, Authenticate, CountSubscriptions, CreateSubscription,
            DeleteSubscription, FindEndpoint, Verify, PlatformAnswer, RecheckDevice, Fail

-----------------------------------------------------------------------------
(* What a step does to the handlers' records *)

LEMMA StaysFollows ==
  ASSUME Answering, NEW p \in Request, req'[p] = req[p] PROVE Follows(p)
  BY DEF Answering, Follows, Free

LEMMA AnswerFollows ==
  ASSUME Core, Answering, NEW r \in Request, NEW status, Answer(r, status),
         status = 410 => req[r].op = "push" /\ (sawInvalid[r] \/ Gone(devices', req[r].device)),
         NEW p \in Request
  PROVE  Follows(p)
<1>1. CASE p # r
  BY <1>1, AnswerIs, StaysFollows DEF Core
<1>2. CASE p = r
  <2>1. 0 <= now
    BY DEF Core, TablesOK, Time
  <2> QED BY <1>2, <2>1, AnswerIs DEF Core, Follows
<1> QED BY <1>1, <1>2

LEMMA GotoFollows ==
  ASSUME Core, Answering, NEW r \in Request, ~Free(r),
         NEW stage \in Stages \ {"idle", "done"}, Goto(r, stage), NEW p \in Request
  PROVE  Follows(p)
<1>1. CASE p # r
  BY <1>1, GotoIs, StaysFollows DEF Core
<1>2. CASE p = r
  BY <1>2, GotoIs DEF Core, Follows, Answering, Free
<1> QED BY <1>1, <1>2

LEMMA ResumesFollows ==
  ASSUME Core, Answering, NEW r \in Request, ~Free(r), req[r].op # "push",
         NEW stage \in Stages \ {"idle", "done"}, NEW time \in {0, now},
         Resumes(r, stage, time), NEW p \in Request
  PROVE  Follows(p)
<1>1. CASE p # r
  BY <1>1, ResumesIs, StaysFollows DEF Core
<1>2. CASE p = r
  <2>1. time <= now
    BY DEF Core, TablesOK, Time
  <2> QED BY <1>2, <2>1, ResumesIs DEF Core, Follows, Answering, Free
<1> QED BY <1>1, <1>2

\* A handler that starts an operation which is no push.
LEMMA StartFollows ==
  ASSUME Core, Answering, NEW r \in Request, NEW q,
         q.start \in Time, q.start <= now, q.status = 0, q.op # "push",
         q.stage \notin {"idle", "done"},
         req' = [req EXCEPT ![r] = q], NEW p \in Request
  PROVE  Follows(p)
<1>1. CASE p # r
  BY <1>1, StaysFollows DEF Core, HandlersOK
<1>2. CASE p = r
  BY <1>2 DEF Core, HandlersOK, Follows
<1> QED BY <1>1, <1>2

LEMMA RegisterFollows ==
  ASSUME Core, Answering, NEW r \in Request, RegisterStart(r), NEW p \in Request
  PROVE  Follows(p)
<1>1. PICK t \in Token :
        req' = [req EXCEPT ![r] = [Idle EXCEPT !.op = "register", !.stage = "commit",
                                               !.arg = t, !.start = now]]
  BY DEF RegisterStart
<1> DEFINE q == [Idle EXCEPT !.op = "register", !.stage = "commit", !.arg = t, !.start = now]
<1>2. /\ q.start \in Time /\ q.start <= now /\ q.status = 0 /\ q.op # "push"
      /\ q.stage \notin {"idle", "done"}
  BY DEF Idle, Core, TablesOK, Time
<1> HIDE DEF q
<1> QED BY <1>1, <1>2, StartFollows DEF q

LEMMA CreateFollows ==
  ASSUME Core, Answering, NEW r \in Request, CreateDevice(r), NEW p \in Request
  PROVE  Follows(p)
<1>1. PICK d \in Device : req' = [req EXCEPT ![r].stage = "prune", ![r].device = d]
  BY DEF CreateDevice
<1> DEFINE q == [req[r] EXCEPT !.stage = "prune", !.device = d]
<1>2. /\ req[r] \in RequestRecord /\ req[r].op = "register" /\ req[r].stage = "commit"
      /\ req[r].start \in Time /\ req[r].start <= now /\ req[r].status = 0
  BY DEF CreateDevice, At, Core, HandlersOK, RequestRecord, Answering
<1>3. /\ q.start \in Time /\ q.start <= now /\ q.status = 0 /\ q.op # "push"
      /\ q.stage \notin {"idle", "done"}
  BY <1>2 DEF RequestRecord
<1>4. req' = [req EXCEPT ![r] = q]
  BY <1>1 DEF Core, HandlersOK
<1> HIDE DEF q
<1> QED BY <1>3, <1>4, StartFollows

LEMMA AuthenticateFollows ==
  ASSUME Core, Answering, NEW r \in Request, Authenticate(r), NEW p \in Request
  PROVE  Follows(p)
<1>1. PICK d \in Device \cap issued :
        IF ~Exists(d) THEN Answer(r, 401)
        ELSE \E call \in ({"update"} \X Token) \cup ({"deleteSub"} \X Subscription)
                          \cup ({"deleteDevice", "createSub"} \X {None}) :
               req' = [req EXCEPT ![r] =
                 [Idle EXCEPT !.op = call[1], !.stage = "touch", !.device = d, !.arg = call[2],
                              !.start = now,
                              !.row = IF call[1] = "createSub" THEN Read(d) ELSE None]]
  BY DEF Authenticate
<1>2. CASE Answer(r, 401)
  BY <1>2, AnswerFollows
<1>3. CASE Exists(d)
  <2>1. PICK op, arg, row :
          /\ op # "push"
          /\ req' = [req EXCEPT ![r] =
               [Idle EXCEPT !.op = op, !.stage = "touch", !.device = d, !.arg = arg,
                            !.start = now,
                            !.row = row]]
    <3>1. PICK call \in ({"update"} \X Token) \cup ({"deleteSub"} \X Subscription)
                          \cup ({"deleteDevice", "createSub"} \X {None}) :
               req' = [req EXCEPT ![r] =
                 [Idle EXCEPT !.op = call[1], !.stage = "touch", !.device = d, !.arg = call[2],
                              !.start = now,
                              !.row = IF call[1] = "createSub" THEN Read(d) ELSE None]]
      BY <1>1, <1>3
    <3>2. call[1] # "push"
      OBVIOUS
    <3> QED BY <3>1, <3>2
  <2> DEFINE q == [Idle EXCEPT !.op = op, !.stage = "touch", !.device = d, !.arg = arg,
                            !.start = now,
                               !.row = row]
  <2>2. /\ q.start \in Time /\ q.start <= now /\ q.status = 0 /\ q.op # "push"
        /\ q.stage \notin {"idle", "done"}
    BY <2>1, LimitAssumption DEF Idle, Core, TablesOK, Time
  <2>3. req' = [req EXCEPT ![r] = q]
    BY <2>1
  <2> HIDE DEF q
  <2> QED BY <2>2, <2>3, StartFollows
<1> QED BY <1>1, <1>2, <1>3

\* findByEndpoint reads the row of a device that has one.
LEMMA FindFollows ==
  ASSUME Core, Answering, NEW r \in Request, FindEndpoint(r), NEW p \in Request
  PROVE  Follows(p)
<1>1. PICK s \in Subscription \cap issued :
        IF owner[s] = None THEN Answer(r, 404)
        ELSE req' = [req EXCEPT ![r] =
               [Idle EXCEPT !.op = "push", !.stage = "found", !.device = owner[s],
                            !.row = Read(owner[s])]]
  BY DEF FindEndpoint
<1>2. CASE owner[s] = None
  BY <1>1, <1>2, AnswerFollows
<1>3. CASE owner[s] # None /\ p # r
  BY <1>1, <1>3, StaysFollows DEF Core, HandlersOK
<1>4. CASE owner[s] # None /\ p = r
  <2> DEFINE d == owner[s]
  <2>1. d \in Device /\ Exists(d)
    BY <1>4 DEF Core, TablesOK
  <2>2. req'[r] = [Idle EXCEPT !.op = "push", !.stage = "found", !.device = d, !.row = Read(d)]
    BY <1>1, <1>4 DEF Core, HandlersOK
  <2>3. /\ req'[r].start = 0 /\ req'[r].status = 0 /\ req'[r].op = "push"
        /\ req'[r].stage = "found" /\ req'[r].device = d /\ req'[r].row = Read(d)
    BY <2>2 DEF Idle
  <2>4. req[r].op # "push" /\ devices' = devices
    BY DEF FindEndpoint, Answering
  <2>5. 0 <= now
    BY DEF Core, TablesOK, Time
  <2> HIDE DEF d
  <2> QED BY <1>4, <2>1, <2>3, <2>4, <2>5 DEF Follows
<1> QED BY <1>2, <1>3, <1>4

LEMMA VerifyFollows ==
  ASSUME Core, Answering, ReadIsSeen, NEW r \in Request, Verify(r), NEW p \in Request
  PROVE  Follows(p)
<1>1. req[r] \in RequestRecord /\ req[r].op = "push" /\ req[r].stage = "found" /\ req[r].status = 0
  BY DEF Verify, Core, HandlersOK, StageFits, Answering
<1>2. CASE req[r].row.invalidatedAt # Never
  BY <1>1, <1>2, AnswerFollows DEF Verify, ReadIsSeen
<1>3. CASE req' = [req EXCEPT ![r].stage = "send", ![r].start = now] /\ p # r
  BY <1>3, StaysFollows DEF Core, HandlersOK
<1>4. CASE req' = [req EXCEPT ![r].stage = "send", ![r].start = now] /\ p = r
  <2>1. req'[r] = [req[r] EXCEPT !.stage = "send", !.start = now]
    BY <1>4 DEF Core, HandlersOK
  <2>2. /\ req'[r].start = now /\ req'[r].status = 0 /\ req'[r].op = "push"
        /\ req'[r].stage = "send" /\ req'[r].device = req[r].device /\ req'[r].row = req[r].row
    BY <1>1, <2>1 DEF RequestRecord
  <2>3. now <= now
    BY DEF Core, TablesOK, Time
  <2> QED BY <1>1, <1>4, <2>2, <2>3 DEF Follows
<1> QED BY <1>2, <1>3, <1>4 DEF Verify

\* invalidateDevice answers 410 for the row it made invalid.
LEMMA InvalidateFollows ==
  ASSUME Core, Answering, NEW r \in Request, InvalidateDevice(r), NEW p \in Request
  PROVE  Follows(p)
<1>1. req[r].op = "push" /\ req[r].stage = "invalid" /\ req[r].device \in Device
  BY DEF InvalidateDevice, Core, HandlersOK, StageFits
<1>2. CASE StillHolds(r)
  <2>1. devices'[req[r].device].invalidatedAt = req[r].start
    <3>1. devices[req[r].device] \in Row
      BY <1>1, <1>2 DEF StillHolds, Active, Exists, Core, TablesOK
    <3>2. devices'[req[r].device] = [devices[req[r].device] EXCEPT !.invalidatedAt = req[r].start]
      BY <1>1, <1>2 DEF InvalidateDevice, Core, TablesOK
    <3> QED BY <3>1, <3>2 DEF Row
  <2>2. req[r].start # Never
    BY LimitAssumption DEF Core, HandlersOK, RequestRecord, Time, Never
  <2>3. Gone(devices', req[r].device)
    BY <2>1, <2>2 DEF Gone
  <2>4. Answer(r, 410)
    BY <1>2 DEF InvalidateDevice
  <2> QED BY <1>1, <2>3, <2>4, AnswerFollows
<1>3. CASE ~StillHolds(r)
  BY <1>1, <1>3, GotoFollows DEF InvalidateDevice, Free, Stages
<1> QED BY <1>2, <1>3

LEMMA RecheckFollows ==
  ASSUME Core, Answering, NEW r \in Request, RecheckDevice(r), NEW p \in Request
  PROVE  Follows(p)
<1>1. req[r].op = "push" /\ devices' = devices
  BY DEF RecheckDevice, Core, HandlersOK, StageFits
<1>2. CASE Invalid(req[r].device)
  <2>1. Gone(devices', req[r].device)
    BY <1>1, <1>2 DEF Gone, Invalid
  <2> QED BY <1>1, <2>1, AnswerFollows DEF RecheckDevice
<1>3. CASE ~Invalid(req[r].device)
  BY <1>3, AnswerFollows DEF RecheckDevice
<1> QED BY <1>2, <1>3

\* The other operations answer anything but 410 or go to a later stage.
LEMMA OthersFollow ==
  ASSUME Core, Answering, NEW r \in Request, NEW p \in Request,
         \/ TouchDevice(r) \/ UpdateDeviceToken(r) \/ Prune(r) \/ DeleteDevice(r)
         \/ CountSubscriptions(r) \/ CreateSubscription(r) \/ DeleteSubscription(r)
         \/ PlatformAnswer(r) \/ RecordDelivery(r) \/ Fail(r)
  PROVE  Follows(p)
<1>1. ASSUME NEW status \in Status \ {410}, Answer(r, status)
      PROVE  Follows(p)
  BY <1>1, AnswerFollows
<1>2. ASSUME NEW stage \in Stages \ {"idle", "done"}, Goto(r, stage), ~Free(r)
      PROVE  Follows(p)
  BY <1>2, GotoFollows
<1>4. ASSUME NEW stage \in Stages \ {"idle", "done"}, NEW time \in {0, now},
             Resumes(r, stage, time), ~Free(r), req[r].op # "push"
      PROVE  Follows(p)
  BY <1>4, ResumesFollows
<1>3. \/ \E status \in Status \ {410} : Answer(r, status)
      \/ ~Free(r) /\ \E stage \in Stages \ {"idle", "done"} : Goto(r, stage)
      \/ /\ ~Free(r) /\ req[r].op # "push"
         /\ \E stage \in Stages \ {"idle", "done"}, time \in {0, now} : Resumes(r, stage, time)
  <2> USE DEF Status, Stages, Free
  <2>1. CASE TouchDevice(r)
    <3>1. req[r].stage = "touch" /\ req[r].op # "push"
      BY <2>1 DEF TouchDevice, Core, HandlersOK, StageFits
    <3>2. \/ Answer(r, 409) \/ Resumes(r, "count", 0)
          \/ \E time \in {0, now} : Resumes(r, "commit", time)
      BY <2>1, TouchIs DEF Core
    <3> QED BY <3>1, <3>2
  <2>2. CASE UpdateDeviceToken(r)
    <3>1. req[r].stage = "commit" /\ Goto(r, "prune")
      BY <2>2, UpdateMoves
    <3> QED BY <3>1
  <2>6. CASE DeleteDevice(r)
    BY <2>6 DEF DeleteDevice
  <2>5. CASE Prune(r)
    <3>1. Answer(r, 201) \/ Answer(r, 204)
      BY <2>5 DEF Prune
    <3> QED BY <3>1
  <2>3. CASE CountSubscriptions(r) \/ CreateSubscription(r) \/ DeleteSubscription(r)
    BY <2>3 DEF CountSubscriptions, CreateSubscription, DeleteSubscription
  <2>4. CASE PlatformAnswer(r) \/ RecordDelivery(r) \/ Fail(r)
    BY <2>4 DEF PlatformAnswer, RecordDelivery, Fail
  <2> QED BY <2>1, <2>2, <2>3, <2>4, <2>5, <2>6
<1> QED BY <1>1, <1>2, <1>3, <1>4

LEMMA HandlerFollows ==
  ASSUME Core, Answering, ReadIsSeen, NEW r \in Request, Handler(r), NEW p \in Request
  PROVE  Follows(p)
<1>1. CASE RegisterStart(r)
  BY <1>1, RegisterFollows
<1>2. CASE CreateDevice(r)
  BY <1>2, CreateFollows
<1>3. CASE Authenticate(r)
  BY <1>3, AuthenticateFollows
<1>4. CASE FindEndpoint(r)
  BY <1>4, FindFollows
<1>5. CASE Verify(r)
  BY <1>5, VerifyFollows
<1>6. CASE InvalidateDevice(r)
  BY <1>6, InvalidateFollows
<1>7. CASE RecheckDevice(r)
  BY <1>7, RecheckFollows
<1> QED BY <1>1, <1>2, <1>3, <1>4, <1>5, <1>6, <1>7, OthersFollow DEF Handler

-----------------------------------------------------------------------------
(* What a step does to the deliveries *)

\* The time a push that records its delivery read is within a Day, and the age
\* of what set it back, of its row's seen_at, whether it writes it or finds the day's delivery written.
LEMMA DeliveryWithinDay ==
  ASSUME Core, HistoryOK, Aged, NEW r \in Request, RecordDelivery(r),
         devices'[req[r].device] # None
  PROVE  req[r].start - devices'[req[r].device].seenAt < Day + lag[req[r].device]
<1> DEFINE d == req[r].device
           time == req[r].start
           last == req[r].row.deliveredAt
<1>1. /\ d \in Device /\ time \in Time /\ req[r].op = "push" /\ last \in Time \cup {Never}
  BY DEF RecordDelivery, Core, HandlersOK, StageFits, RequestRecord, Snapshot
<1>2. Exists(d)
  BY DEF RecordDelivery, Exists
<1>3. devices[d] \in Row /\ last <= devices[d].seenAt + lag[d]
  BY <1>1, <1>2 DEF Core, TablesOK, Exists, Aged
<1>4. /\ devices[d].seenAt \in Int /\ time \in Int /\ last \in Int /\ Day \in Int /\ Day > 0
      /\ lag[d] \in Int /\ lag[d] >= 0
  BY <1>1, <1>3, LimitAssumption DEF Row, Time, Never, HistoryOK
<1>5. CASE last = Never \/ time - last >= Day
  <2>1. devices' = [devices EXCEPT ![d].deliveredAt = time, ![d].seenAt = Later(@, time)]
    BY <1>2, <1>5 DEF RecordDelivery
  <2>2. devices'[d].seenAt = Later(devices[d].seenAt, time)
    BY <1>1, <1>3, <2>1 DEF Core, TablesOK, Row
  <2> QED BY <1>4, <2>2 DEF Later
<1>6. CASE ~(last = Never \/ time - last >= Day)
  <2>1. devices' = devices
    BY <1>6 DEF RecordDelivery
  <2>2. time - last < Day
    BY <1>4, <1>6
  <2> HIDE DEF d, time, last
  <2>3. time - devices[d].seenAt < Day + lag[d]
    BY <1>3, <1>4, <2>2
  <2> QED BY <2>1, <2>3 DEF d, time
<1> QED BY <1>5, <1>6

\* A step that answers no delivery with 201 records none.
LEMMA NoDelivery ==
  ASSUME HistoryOK, History, \A r \in Request : req[r].stage = "delivered" => req'[r].status # 201,
         NEW d \in Device
  PROVE  Delivers(d)
<1>1. LatestDelivery(d) = lastDelivery[d]
  BY DEF LatestDelivery
<1> QED BY <1>1 DEF History, Delivers

\* A handler's step touches no other handler's record.
LEMMA HandlerMovesItself ==
  ASSUME HandlersOK, NEW r \in Request, Handler(r), NEW p \in Request \ {r}
  PROVE  req'[p] = req[p]
<1>1. ASSUME NEW q, req' = [req EXCEPT ![r] = q] PROVE req'[p] = req[p]
  BY <1>1 DEF HandlersOK
<1>2. ASSUME NEW stage, Goto(r, stage) PROVE req'[p] = req[p]
  BY <1>2, GotoIs
<1>3. ASSUME NEW status, Answer(r, status) PROVE req'[p] = req[p]
  BY <1>3, AnswerIs
<1>4. CASE RegisterStart(r) \/ Authenticate(r) \/ FindEndpoint(r)
  BY <1>1, <1>3, <1>4, Zenon DEF RegisterStart, Authenticate, FindEndpoint
<1>5. CASE CreateDevice(r) \/ Verify(r)
  BY <1>3, <1>5 DEF CreateDevice, Verify, HandlersOK
<1>6. CASE TouchDevice(r) \/ UpdateDeviceToken(r) \/ Prune(r) \/ DeleteDevice(r)
  <2>1. CASE TouchDevice(r)
    BY <1>3, <2>1, TouchIs, ResumesIs, AnswerIs DEF TouchDevice, Resumes, HandlersOK
  <2>2. ASSUME ~TouchDevice(r)
        PROVE  Goto(r, "prune") \/ Answer(r, 201) \/ Answer(r, 204)
    BY <1>6, <2>2, Zenon DEF UpdateDeviceToken, Prune, DeleteDevice
  <2> QED BY <1>2, <1>3, <2>1, <2>2
<1>7. CASE CountSubscriptions(r) \/ CreateSubscription(r) \/ DeleteSubscription(r)
  BY <1>2, <1>3, <1>7 DEF CountSubscriptions, CreateSubscription, DeleteSubscription
<1>8. CASE PlatformAnswer(r) \/ RecordDelivery(r) \/ Fail(r)
  BY <1>2, <1>3, <1>8 DEF PlatformAnswer, RecordDelivery, Fail
<1>9. CASE InvalidateDevice(r) \/ RecheckDevice(r)
  BY <1>2, <1>3, <1>9 DEF InvalidateDevice, RecheckDevice
<1> QED BY <1>4, <1>5, <1>6, <1>7, <1>8, <1>9 DEF Handler

LEMMA HandlerDelivers ==
  ASSUME Core, HistoryOK, Aged, Answering, History, NEW r \in Request, Handler(r), NEW d \in Device
  PROVE  Delivers(d)
<1>1. \A p \in Request \ {r} : req'[p] = req[p]
  BY HandlerMovesItself DEF Core
<1>2. \A p \in Request \ {r} : req[p].stage = "delivered" => req'[p].status # 201
  BY <1>1 DEF Answering
<1>3. CASE ~(req[r].stage = "delivered" /\ req'[r].status = 201)
  BY <1>2, <1>3, NoDelivery
<1>4. CASE req[r].stage = "delivered" /\ req'[r].status = 201
  <2>1. RecordDelivery(r)
    <3>1. RecordDelivery(r) \/ Fail(r)
      BY <1>4 DEF Handler, RegisterStart, CreateDevice, Authenticate, TouchDevice,
         UpdateDeviceToken, Prune, DeleteDevice, CountSubscriptions, CreateSubscription,
         DeleteSubscription, FindEndpoint, Verify, PlatformAnswer, InvalidateDevice,
         RecheckDevice, At, Free, Core, HandlersOK, StageFits
    <3>2. ~Fail(r)
      BY <1>4, AnswerIs DEF Fail, Core
    <3> QED BY <3>1, <3>2
  <2> DEFINE later == {p \in Request : /\ req[p].stage = "delivered" /\ req'[p].status = 201
                                       /\ req[p].device = d
                                       /\ req[p].start > lastDelivery[d]}
  <2>2. later = {} \/ (later = {r} /\ req[r].device = d)
    BY <1>2
  <2>3. CASE later = {}
    BY <2>3 DEF LatestDelivery, History, Delivers
  <2>4. CASE later = {r} /\ req[r].device = d
    <3>1. (CHOOSE p \in later : TRUE) = r
      BY <2>4
    <3>2. lastDelivery'[d] = req[r].start
      BY <2>4, <3>1 DEF LatestDelivery, History
    <3>3. req[r].op = "push"
      BY <1>4 DEF Core, HandlersOK, StageFits
    <3>4. devices'[d] # None => req[r].start - devices'[d].seenAt < Day + lag[d]
      BY <2>1, <2>4, DeliveryWithinDay
    <3> QED BY <2>4, <3>2, <3>3, <3>4 DEF Delivers
  <2> QED BY <2>2, <2>3, <2>4
<1> QED BY <1>3, <1>4

-----------------------------------------------------------------------------
(* Every step keeps what the histories rest on *)

\* The age of what set a row's seen_at back only grows, and covers this step.
Lags(d) == /\ lag'[d] >= lag[d]
           /\ SetBack(d) => lag'[d] >= now - devices'[d].seenAt

LEMMA HistoryLags ==
  ASSUME Core, Core', HistoryOK, History, NEW d \in Device PROVE Lags(d)
<1>1. lag'[d] = LongestLag(d) /\ lag[d] \in Int
  BY DEF History, HistoryOK, Time
<1>2. CASE SetBack(d)
  <2>1. devices'[d].seenAt \in Int /\ now \in Int
    BY <1>2 DEF SetBack, Core, TablesOK, Row, Time
  <2> QED BY <1>1, <1>2, <2>1 DEF LongestLag, Lags
<1>3. CASE ~SetBack(d)
  BY <1>1, <1>3 DEF LongestLag, Lags
<1> QED BY <1>2, <1>3

Steps ==
  /\ issued \subseteq issued' /\ now <= now'
  /\ \A d \in Device : RowAges(d) /\ Delivers(d)
  /\ \A r \in Request : Follows(r)
  /\ \A d \in Device : Lags(d)

LEMMA NextSteps ==
  ASSUME Core, Core', HistoryOK, Aged, Fresh, Answering, ReadIsSeen, Next
  PROVE  Steps
<1>4. \A d \in Device : Lags(d)
  BY HistoryLags DEF Next
<1>1. now <= now
  BY DEF Core, TablesOK, Time
<1>2. ASSUME NEW r \in Request, Handler(r)
      PROVE  Steps
  <2>1. (issued' = issued \/ \E x : issued' = issued \cup {x}) /\ now' = now
    BY <1>2, Zenon DEF Handler, RegisterStart, CreateDevice, Authenticate, TouchDevice, UpdateDeviceToken,
         Prune, DeleteDevice, CountSubscriptions, CreateSubscription, DeleteSubscription,
         FindEndpoint, Verify, PlatformAnswer, RecordDelivery, InvalidateDevice, RecheckDevice,
         Fail
  <2>2. History
    BY DEF Next
  <2>3. \A d \in Device : RowAges(d) /\ Delivers(d)
    BY <1>2, <2>2, HandlerAges, HandlerDelivers
  <2>4. \A p \in Request : Follows(p)
    BY <1>2, HandlerFollows
  <2> QED BY <1>1, <1>4, <2>1, <2>3, <2>4 DEF Steps
<1>3. CASE Purge \/ Tick
  <2>1. req' = req /\ issued' = issued /\ now <= now'
    BY <1>1, <1>3 DEF Purge, Tick, Core, TablesOK, Time
  <2>2. \A d \in Device : RowAges(d)
    BY <1>3, RowsKeptAge DEF Purge, Tick, Without
  <2>3. \A d \in Device : Delivers(d)
    BY <2>1, NoDelivery DEF Next, Answering
  <2>4. \A p \in Request : Follows(p)
    BY <2>1, StaysFollows
  <2> QED BY <1>4, <2>1, <2>2, <2>3, <2>4 DEF Steps
<1> QED BY <1>2, <1>3 DEF Next

LEMMA StepsAnswering ==
  ASSUME Core, Core', Steps PROVE Answering'
<1> SUFFICES ASSUME NEW r \in Request
             PROVE  /\ req'[r].start <= now'
                    /\ req'[r].stage # "done" => req'[r].status = 0
                    /\ req'[r].stage \in {"idle", "done"} => req'[r].op = "none"
  BY DEF Answering, Free
<1>1. req'[r].start \in Int /\ now \in Int /\ now' \in Int
  BY DEF Core, TablesOK, HandlersOK, RequestRecord, Time
<1> QED BY <1>1 DEF Steps, Follows

LEMMA StepsFresh ==
  ASSUME Core, Fresh, Steps PROVE Fresh'
<1>1. ASSUME NEW d \in Device, devices'[d] # None
      PROVE  d \in issued'
  BY <1>1 DEF Steps, RowAges, Fresh
<1>2. ASSUME NEW d \in Device, lastDelivery'[d] # Never
      PROVE  d \in issued'
  <2>1. CASE lastDelivery'[d] = lastDelivery[d]
    BY <1>2, <2>1 DEF Steps, Fresh
  <2>2. CASE \E r \in Request : req[r].op = "push" /\ req[r].device = d
    BY <2>2 DEF Steps, Fresh
  <2> QED BY <2>1, <2>2 DEF Steps, Delivers
<1>3. ASSUME NEW r \in Request, req'[r].op = "push"
      PROVE  req'[r].device \in issued'
  BY <1>3 DEF Steps, Follows, Fresh
<1> QED BY <1>1, <1>2, <1>3 DEF Fresh, Exists

\* A time no later than now and covered by seen_at and lag stays covered.
LEMMA StaysCovered ==
  ASSUME Core, Core', HistoryOK, HistoryOK', Steps, NEW d \in Device, Exists(d), devices'[d] # None,
         NEW time \in Int, time <= now, NEW slack \in Nat,
         time <= devices[d].seenAt + lag[d] + slack
  PROVE  time <= devices'[d].seenAt + lag'[d] + slack
<1>1. /\ devices[d].seenAt \in Int /\ devices'[d].seenAt \in Int /\ now \in Int
      /\ lag[d] \in Int /\ lag'[d] \in Int
  BY DEF Core, TablesOK, Exists, Row, Time, HistoryOK
<1>2. devices'[d].seenAt >= devices[d].seenAt \/ SetBack(d)
  BY DEF Steps, RowAges
<1>3. lag'[d] >= lag[d] /\ (SetBack(d) => lag'[d] >= now - devices'[d].seenAt)
  BY DEF Steps, Lags
<1>4. CASE devices'[d].seenAt >= devices[d].seenAt
  BY <1>1, <1>3, <1>4
<1>5. CASE SetBack(d)
  <2>1. lag'[d] >= now - devices'[d].seenAt
    BY <1>3, <1>5
  <2> QED BY <1>1, <2>1
<1> QED BY <1>2, <1>4, <1>5

\* What Aged says of a row, of a handler and of a delivery.
LEMMA StepsAgedRow ==
  ASSUME Core, Core', HistoryOK, HistoryOK', Fresh, Aged, Steps,
         NEW d \in Device, devices'[d] # None
  PROVE  /\ devices'[d].deliveredAt <= devices'[d].seenAt + lag'[d]
         /\ devices'[d].deliveredAt <= now'
         /\ devices'[d].seenAt <= now'
<1>0. now \in Int /\ now' \in Int /\ now <= now'
  BY DEF Core, TablesOK, Time, Steps
<1>1. /\ devices'[d].seenAt \in Int /\ devices'[d].deliveredAt \in Int
      /\ lag'[d] \in Int /\ lag'[d] >= 0 /\ devices'[d].seenAt <= now
  BY DEF Core, TablesOK, Row, Time, Never, HistoryOK, Steps, RowAges
<1>2. CASE devices'[d].deliveredAt <= devices'[d].seenAt
  BY <1>0, <1>1, <1>2
<1>3. CASE Exists(d) /\ devices'[d].deliveredAt = devices[d].deliveredAt
  <2>1. /\ devices[d].deliveredAt <= devices[d].seenAt + lag[d] + 0
        /\ devices[d].deliveredAt <= now
    <3>1. devices[d].seenAt \in Int /\ lag[d] \in Int
      BY <1>3 DEF Core, TablesOK, Exists, Row, Time, HistoryOK
    <3> QED BY <1>3, <3>1 DEF Aged
  <2>2. devices'[d].deliveredAt <= devices'[d].seenAt + lag'[d] + 0
    BY <1>1, <1>3, <2>1, StaysCovered
  <2> QED BY <1>0, <1>1, <1>3, <2>1, <2>2
<1> QED BY <1>2, <1>3 DEF Steps, RowAges

LEMMA StepsAged ==
  ASSUME Core, Core', HistoryOK, HistoryOK', Fresh, Answering, Aged, Steps PROVE Aged'
<1>0. now \in Int /\ now' \in Int /\ now <= now'
  BY DEF Core, TablesOK, Time, Steps
<1>2. ASSUME NEW r \in Request, req'[r].op = "push", devices'[req'[r].device] # None
      PROVE  /\ req'[r].row.deliveredAt <= devices'[req'[r].device].seenAt + lag'[req'[r].device]
             /\ req'[r].row.deliveredAt <= now'
  <2> DEFINE d == req'[r].device
  <2>1. CASE req[r].op = "push" /\ d = req[r].device /\ req'[r].row = req[r].row
    <3>1. d \in Device /\ d \in issued
      BY <2>1 DEF Core, HandlersOK, StageFits, Fresh
    <3>2. Exists(d)
      BY <1>2, <3>1 DEF Steps, RowAges
    <3> DEFINE time == req[r].row.deliveredAt
    <3>3. time <= devices[d].seenAt + lag[d] /\ time <= now
      BY <2>1, <3>2 DEF Aged
    <3>4. /\ time \in Int /\ devices[d].seenAt \in Int /\ devices'[d].seenAt \in Int
          /\ lag[d] \in Int /\ lag'[d] \in Int
      <4>1. req[r].row \in Snapshot
        BY <2>1 DEF Core, HandlersOK, StageFits
      <4>2. devices[d] \in Row /\ devices'[d] \in Row
        BY <1>2, <3>1, <3>2 DEF Core, TablesOK, Exists
      <4> QED BY <3>1, <4>1, <4>2 DEF Snapshot, Row, Time, Never, HistoryOK
    <3>6. devices'[d] # None
      BY <1>2
    <3> HIDE DEF d, time
    <3>5. time <= devices'[d].seenAt + lag'[d] + 0
      BY <3>1, <3>2, <3>3, <3>4, <3>6, StaysCovered
    <3> QED BY <1>0, <2>1, <3>3, <3>4, <3>5 DEF d, time
  <2>2. CASE d \in Device /\ Exists(d) /\ req'[r].row = Read(d) /\ devices' = devices
    <3>1. req'[r].row.deliveredAt = devices'[d].deliveredAt
      BY <2>2 DEF Read, Exists
    <3> QED BY <1>2, <2>2, <3>1, StepsAgedRow
  <2> QED BY <1>2, <2>1, <2>2 DEF Steps, Follows
<1>3. ASSUME NEW d \in Device PROVE lastDelivery'[d] <= now'
  <2>1. CASE lastDelivery'[d] = lastDelivery[d]
    <3>1. lastDelivery[d] \in Int
      BY DEF HistoryOK, Time, Never
    <3> QED BY <1>0, <2>1, <3>1 DEF Aged
  <2>2. CASE \E r \in Request : lastDelivery'[d] = req[r].start
    <3>1. PICK r \in Request : lastDelivery'[d] = req[r].start
      BY <2>2
    <3>2. req[r].start \in Int /\ req[r].start <= now
      BY DEF Core, HandlersOK, RequestRecord, Time, Answering
    <3> QED BY <1>0, <3>1, <3>2
  <2> QED BY <2>1, <2>2 DEF Steps, Delivers
<1> QED BY <1>2, <1>3, StepsAgedRow DEF Aged, Exists

LEMMA StepsDeliveries ==
  ASSUME Core, Core', HistoryOK, HistoryOK', Fresh, Aged, DeliveryKeepsSeen, Steps
  PROVE  DeliveryKeepsSeen'
<1> SUFFICES ASSUME NEW d \in Device, devices'[d] # None
             PROVE  lastDelivery'[d] - devices'[d].seenAt < Day + lag'[d]
  BY DEF DeliveryKeepsSeen, Exists
<1>1. /\ devices'[d].seenAt \in Nat /\ Day \in Nat /\ Day > 0 /\ lastDelivery[d] \in Int
      /\ lag[d] \in Nat /\ lag'[d] \in Nat /\ lag[d] <= lag'[d]
  BY LimitAssumption DEF Core, TablesOK, Row, Time, HistoryOK, Never, Steps, Lags
<1>2. CASE \E r \in Request :
             /\ req[r].op = "push" /\ req[r].device = d /\ lastDelivery'[d] = req[r].start
             /\ devices'[d] # None => req[r].start - devices'[d].seenAt < Day + lag[d]
  <2>1. PICK r \in Request : /\ lastDelivery'[d] = req[r].start
                             /\ req[r].start - devices'[d].seenAt < Day + lag[d]
    BY <1>2
  <2>2. req[r].start \in Int
    BY DEF Core, HandlersOK, RequestRecord, Time
  <2> QED BY <1>1, <2>1, <2>2
<1>3. CASE lastDelivery'[d] = lastDelivery[d] /\ Exists(d)
  <2>1. /\ devices[d].seenAt \in Int /\ lastDelivery[d] - devices[d].seenAt < Day + lag[d]
        /\ lastDelivery[d] <= now
    BY <1>3 DEF Core, TablesOK, Exists, Row, Time, DeliveryKeepsSeen, Aged
  <2>2. lastDelivery[d] <= devices[d].seenAt + lag[d] + (Day - 1) /\ Day - 1 \in Nat
    BY <1>1, <2>1
  <2>3. lastDelivery[d] <= devices'[d].seenAt + lag'[d] + (Day - 1)
    BY <1>1, <1>3, <2>1, <2>2, StaysCovered
  <2> QED BY <1>1, <1>3, <2>3
<1>4. CASE lastDelivery'[d] = lastDelivery[d] /\ d \notin issued
  <2>1. lastDelivery[d] = -1
    BY <1>4 DEF Fresh, Never
  <2> QED BY <1>1, <1>4, <2>1
<1> QED BY <1>2, <1>3, <1>4 DEF Steps, RowAges, Delivers

LEMMA StepsHonest ==
  ASSUME Core, HistoryOK, Answering, Answering', ReadIsSeen, GoneIsTrue, Steps, History
  PROVE  ReadIsSeen' /\ GoneIsTrue'
<1> SUFFICES ASSUME NEW r \in Request
             PROVE  /\ req'[r].op = "push" /\ req'[r].row.invalidatedAt # Never => sawInvalid'[r]
                    /\ req'[r].status = 410 => sawInvalid'[r]
  BY DEF ReadIsSeen, GoneIsTrue
<1>1. /\ req[r].op = "push" /\ sawInvalid[r] => sawInvalid'[r]
      /\ req[r].op = "push" /\ Gone(devices', req[r].device) => sawInvalid'[r]
      /\ req[r].op # "push" /\ req'[r].op = "push" /\ Gone(devices', req'[r].device) => sawInvalid'[r]
      /\ req[r].op # "push" /\ req'[r].op # "push" => sawInvalid'[r] = sawInvalid[r]
  <2> DEFINE saw(p) == IF req[p].op = "push"
                       THEN sawInvalid[p] \/ Gone(devices', req[p].device)
                       ELSE IF req'[p].op = "push" THEN Gone(devices', req'[p].device)
                       ELSE sawInvalid[p]
  <2>1. sawInvalid' = [p \in Request |-> saw(p)]
    BY Zenon DEF History
  <2> HIDE DEF saw
  <2>2. sawInvalid'[r] = saw(r)
    BY <2>1
  <2> QED BY <2>2, Zenon DEF saw
<1>2. Follows(r)
  BY DEF Steps
<1>3. CASE req[r].op = "push"
  BY <1>1, <1>2, <1>3 DEF Follows, ReadIsSeen, GoneIsTrue
<1>4. CASE req[r].op # "push" /\ req'[r].op = "push"
  <2>1. req'[r].status = 0
    BY <1>4 DEF Answering, Free
  <2>2. req'[r].row.invalidatedAt # Never => Gone(devices', req'[r].device)
    BY <1>2, <1>4 DEF Follows, Read, Exists, Gone
  <2> QED BY <1>1, <1>4, <2>1, <2>2
<1>5. CASE req[r].op # "push" /\ req'[r].op # "push"
  BY <1>1, <1>2, <1>5 DEF Follows, GoneIsTrue
<1> QED BY <1>3, <1>4, <1>5

\* The invariant of the histories.
HInv == IInv /\ Fresh /\ Aged /\ Answering /\ ReadIsSeen /\ GoneIsTrue /\ DeliveryKeepsSeen

LEMMA InitHInv == Init => HInv
<1> SUFFICES ASSUME Init PROVE HInv
  OBVIOUS
<1>1. Fresh /\ Aged /\ Answering /\ ReadIsSeen /\ GoneIsTrue /\ DeliveryKeepsSeen
  BY DEF Init, Idle, Exists, Free, Fresh, Aged, Answering, ReadIsSeen, GoneIsTrue,
         DeliveryKeepsSeen, Never
<1> QED BY <1>1, InitIInv DEF HInv

LEMMA NextHInv == HInv /\ [Next]_vars => HInv'
<1> SUFFICES ASSUME HInv, [Next]_vars PROVE HInv'
  OBVIOUS
<1>1. IInv' /\ Core /\ Core' /\ HistoryOK /\ HistoryOK'
  BY NextIInv DEF HInv, IInv, TypeOK, Core
<1>2. CASE Next
  <2>1. Steps
    BY <1>1, <1>2, NextSteps DEF HInv
  <2>2. History
    BY <1>2 DEF Next
  <2>3. Answering'
    BY <1>1, <2>1, StepsAnswering
  <2>4. ReadIsSeen' /\ GoneIsTrue'
    BY <1>1, <2>1, <2>2, <2>3, StepsHonest DEF HInv
  <2>5. Fresh' /\ Aged' /\ DeliveryKeepsSeen'
    BY <1>1, <2>1, StepsFresh, StepsAged, StepsDeliveries DEF HInv
  <2> QED BY <1>1, <2>3, <2>4, <2>5 DEF HInv
<1>3. CASE UNCHANGED vars
  BY <1>1, <1>3 DEF vars, HInv, Fresh, Aged, Answering, ReadIsSeen, GoneIsTrue,
     DeliveryKeepsSeen, Exists, Free
<1> QED BY <1>2, <1>3

LEMMA HistoryInvariance == Spec => []HInv
<1> QED BY InitHInv, NextHInv, PTL DEF Spec

\* A push answers 410, for which application servers delete a subscription,
\* only if its device was invalid or deleted while the push ran: the checks of
\* invalidateDevice (push.ts, store.ts) make this true in any interleaving.
THEOREM GoneAnswersAreTrue == Spec => []GoneIsTrue
<1>1. HInv => GoneIsTrue
  BY DEF HInv
<1> QED BY <1>1, HistoryInvariance, PTL

\* Deliveries are written at most once a day and out of order, and touches and
\* moves overwrite seen_at with a time read before an await; a row's seen_at,
\* which the purge of inactive devices reads, is behind an answered delivery by
\* less than a Day plus the age of the oldest time that set it back.
THEOREM DeliveriesKeepSeen == Spec => []DeliveryKeepsSeen
<1>1. HInv => DeliveryKeepsSeen
  BY DEF HInv
<1> QED BY <1>1, HistoryInvariance, PTL

-----------------------------------------------------------------------------
(* How far over its limit a device's subscriptions can get *)

\* Handlers that counted d's subscriptions and have yet to insert theirs.
Inserting(d) == {r \in Request : req[r].stage = "insert" /\ req[r].device = d}

\* A handler counts once below the limit; from then on the rows and the
\* handlers about to add one never outnumber it by more than the handlers.
Room == \A d \in Device :
  Cardinality(HeldBy(d)) + Cardinality(Inserting(d)) <= SubscriptionLimit - 1 + Cardinality(Request)

RInv == IInv /\ Room

\* Both sets are finite, so their sizes are numbers.
LEMMA Sizes ==
  ASSUME NEW d
  PROVE  /\ IsFiniteSet(HeldBy(d)) /\ Cardinality(HeldBy(d)) \in Nat
         /\ IsFiniteSet(Inserting(d)) /\ Cardinality(Inserting(d)) \in Nat
         /\ Cardinality(Inserting(d)) <= Cardinality(Request)
         /\ Cardinality(Request) \in Nat /\ Cardinality(Request) >= 1
<1>1. HeldBy(d) \in SUBSET Subscription /\ Inserting(d) \in SUBSET Request
  BY DEF HeldBy, Inserting
<1>2. IsFiniteSet(HeldBy(d)) /\ IsFiniteSet(Inserting(d))
      /\ Cardinality(Inserting(d)) <= Cardinality(Request)
  BY <1>1, FiniteAssumption, FS_Subset
<1>3. Cardinality(Request) # 0
  BY FiniteAssumption, FS_EmptySet
<1> QED BY <1>2, <1>3, FiniteAssumption, FS_CardinalityType

LEMMA SizesAfter ==
  ASSUME NEW d
  PROVE  /\ Cardinality(HeldBy(d)') \in Nat /\ Cardinality(Inserting(d)') \in Nat
         /\ Cardinality(Inserting(d)') <= Cardinality(Request)
<1>1. HeldBy(d)' \in SUBSET Subscription /\ Inserting(d)' \in SUBSET Request
  BY DEF HeldBy, Inserting
<1>2. IsFiniteSet(HeldBy(d)') /\ IsFiniteSet(Inserting(d)')
      /\ Cardinality(Inserting(d)') <= Cardinality(Request)
  BY <1>1, FiniteAssumption, FS_Subset
<1> QED BY <1>2, FS_CardinalityType

\* A step after which neither set has a new member.
LEMMA ShrinksKeepRoom ==
  ASSUME Room, \A d \in Device : HeldBy(d)' \subseteq HeldBy(d) /\ Inserting(d)' \subseteq Inserting(d)
  PROVE  Room'
<1> SUFFICES ASSUME NEW d \in Device
             PROVE  Cardinality(HeldBy(d)') + Cardinality(Inserting(d)')
                      <= SubscriptionLimit - 1 + Cardinality(Request)
  BY DEF Room
<1>1. /\ Cardinality(HeldBy(d)') <= Cardinality(HeldBy(d))
      /\ Cardinality(Inserting(d)') <= Cardinality(Inserting(d))
      /\ Cardinality(HeldBy(d)') \in Nat /\ Cardinality(Inserting(d)') \in Nat
  <2>1. HeldBy(d)' \in SUBSET HeldBy(d) /\ Inserting(d)' \in SUBSET Inserting(d)
    OBVIOUS
  <2> QED BY <2>1, Sizes, FS_Subset, FS_CardinalityType
<1>2. Cardinality(HeldBy(d)) + Cardinality(Inserting(d)) <= SubscriptionLimit - 1 + Cardinality(Request)
  BY DEF Room
<1>3. /\ Cardinality(HeldBy(d)) \in Nat /\ Cardinality(Inserting(d)) \in Nat
      /\ Cardinality(Request) \in Nat /\ SubscriptionLimit \in Nat
  BY Sizes, LimitAssumption
<1> QED BY <1>1, <1>2, <1>3

LEMMA CountKeepsRoom ==
  ASSUME Core, Room, NEW r \in Request, CountSubscriptions(r)
  PROVE  Room'
<1>1. \A d \in Device : HeldBy(d)' = HeldBy(d)
  BY DEF CountSubscriptions, HeldBy
<1>2. CASE Full(req[r].device)
  <2>1. \A d \in Device : Inserting(d)' \subseteq Inserting(d)
    <3>1. Answer(r, 409)
      BY <1>2 DEF CountSubscriptions
    <3> QED BY <3>1, AnswerIs DEF Inserting, Core
  <2> QED BY <1>1, <2>1, ShrinksKeepRoom
<1>3. CASE ~Full(req[r].device)
  <2>1. Goto(r, "insert")
    BY <1>3 DEF CountSubscriptions
  <2> SUFFICES ASSUME NEW d \in Device
               PROVE  Cardinality(HeldBy(d)) + Cardinality(Inserting(d)')
                        <= SubscriptionLimit - 1 + Cardinality(Request)
    BY <1>1 DEF Room
  <2>2. /\ Cardinality(HeldBy(d)) \in Nat /\ Cardinality(Inserting(d)') \in Nat
        /\ Cardinality(Inserting(d)') <= Cardinality(Request)
        /\ Cardinality(Request) \in Nat /\ SubscriptionLimit \in Nat
    BY Sizes, SizesAfter, LimitAssumption
  <2>3. CASE d = req[r].device
    <3>1. ~(Cardinality(HeldBy(d)) >= SubscriptionLimit)
      BY <1>3, <2>3 DEF Full
    <3> QED BY <2>2, <3>1
  <2>4. CASE d # req[r].device
    <3>1. Inserting(d)' = Inserting(d)
      <4>1. req'[r].device # d
        BY <2>1, <2>4, GotoIs DEF Core
      <4> QED BY <2>1, <2>4, <4>1, GotoIs DEF Inserting, Core
    <3> QED BY <3>1 DEF Room
  <2> QED BY <2>3, <2>4
<1> QED BY <1>2, <1>3

LEMMA CreateKeepsRoom ==
  ASSUME Core, Room, NEW r \in Request, CreateSubscription(r)
  PROVE  Room'
<1>1. req[r].stage = "insert" /\ (Answer(r, 201) \/ Answer(r, 500))
  BY DEF CreateSubscription
<1>2. \A d \in Device : Inserting(d)' = Inserting(d) \ {r}
  <2>1. req'[r].stage # "insert" /\ \A p \in Request \ {r} : req'[p] = req[p]
    BY <1>1, AnswerIs DEF Core
  <2> QED BY <2>1 DEF Inserting
<1>3. CASE UNCHANGED owner
  <2>1. \A d \in Device : HeldBy(d)' \subseteq HeldBy(d) /\ Inserting(d)' \subseteq Inserting(d)
    BY <1>2, <1>3 DEF HeldBy
  <2> QED BY <2>1, ShrinksKeepRoom
<1>4. CASE \E s \in Subscription : owner' = [owner EXCEPT ![s] = req[r].device]
  <2>1. PICK s \in Subscription : owner' = [owner EXCEPT ![s] = req[r].device]
    BY <1>4
  <2> SUFFICES ASSUME NEW d \in Device
               PROVE  Cardinality(HeldBy(d)') + Cardinality(Inserting(d)')
                        <= SubscriptionLimit - 1 + Cardinality(Request)
    BY DEF Room
  <2>2. /\ Cardinality(HeldBy(d)) \in Nat /\ Cardinality(Inserting(d)) \in Nat
        /\ Cardinality(Request) \in Nat /\ SubscriptionLimit \in Nat
        /\ IsFiniteSet(HeldBy(d)) /\ IsFiniteSet(Inserting(d))
        /\ Cardinality(HeldBy(d)') \in Nat /\ Cardinality(Inserting(d)') \in Nat
    BY Sizes, SizesAfter, LimitAssumption
  <2>3. Cardinality(HeldBy(d)) + Cardinality(Inserting(d)) <= SubscriptionLimit - 1 + Cardinality(Request)
    BY DEF Room
  <2>4. CASE d = req[r].device
    <3>1. HeldBy(d)' = HeldBy(d) \cup {s}
      BY <2>1, <2>4 DEF HeldBy, Core, TablesOK
    <3>2. Cardinality(HeldBy(d)') <= Cardinality(HeldBy(d)) + 1
      <4>1. Cardinality(HeldBy(d) \cup {s}) = IF s \in HeldBy(d) THEN Cardinality(HeldBy(d))
                                               ELSE Cardinality(HeldBy(d)) + 1
        BY <2>2, FS_AddElement
      <4> QED BY <2>2, <3>1, <4>1
    <3>3. r \in Inserting(d)
      BY <1>1, <2>4 DEF Inserting
    <3>4. Cardinality(Inserting(d)') = Cardinality(Inserting(d)) - 1
      BY <1>2, <2>2, <3>3, FS_RemoveElement
    <3> QED BY <2>2, <2>3, <3>2, <3>4
  <2>5. CASE d # req[r].device
    <3>1. HeldBy(d)' \in SUBSET HeldBy(d) /\ Inserting(d)' \in SUBSET Inserting(d)
      BY <1>2, <2>1, <2>5 DEF HeldBy, Core, TablesOK
    <3>2. /\ Cardinality(HeldBy(d)') <= Cardinality(HeldBy(d))
          /\ Cardinality(Inserting(d)') <= Cardinality(Inserting(d))
      BY <2>2, <3>1, FS_Subset
    <3> QED BY <2>2, <2>3, <3>2
  <2> QED BY <2>4, <2>5
<1> QED BY <1>3, <1>4 DEF CreateSubscription

\* Only a count sends a handler to its insert.
LEMMA OthersInsertNothing ==
  ASSUME Core, NEW r \in Request, Handler(r), ~CountSubscriptions(r)
  PROVE  req'[r].stage # "insert"
<1>1. ASSUME NEW stage \in Stages \ {"insert"}, Goto(r, stage) PROVE req'[r].stage # "insert"
  BY <1>1, GotoIs DEF Core
<1>2. ASSUME NEW status, Answer(r, status) PROVE req'[r].stage # "insert"
  BY <1>2, AnswerIs DEF Core
<1>3. ASSUME NEW q, q.stage # "insert", req' = [req EXCEPT ![r] = q] PROVE req'[r].stage # "insert"
  BY <1>3 DEF Core, HandlersOK
<1>4. CASE RegisterStart(r)
  BY <1>3, <1>4 DEF RegisterStart, Idle
<1>5. CASE Authenticate(r)
  <2>1. PICK d \in Device :
          IF ~Exists(d) THEN Answer(r, 401)
          ELSE \E call \in ({"update"} \X Token) \cup ({"deleteSub"} \X Subscription)
                            \cup ({"deleteDevice", "createSub"} \X {None}) :
                 req' = [req EXCEPT ![r] =
                   [Idle EXCEPT !.op = call[1], !.stage = "touch", !.device = d, !.arg = call[2],
                              !.start = now,
                                !.row = IF call[1] = "createSub" THEN Read(d) ELSE None]]
    BY <1>5 DEF Authenticate
  <2>2. CASE ~Exists(d)
    BY <1>2, <2>1, <2>2
  <2>3. CASE Exists(d)
    <3>1. PICK call \in ({"update"} \X Token) \cup ({"deleteSub"} \X Subscription)
                          \cup ({"deleteDevice", "createSub"} \X {None}) :
            req' = [req EXCEPT ![r] =
              [Idle EXCEPT !.op = call[1], !.stage = "touch", !.device = d, !.arg = call[2],
                              !.start = now,
                           !.row = IF call[1] = "createSub" THEN Read(d) ELSE None]]
      BY <2>1, <2>3, Zenon
    <3> DEFINE q == [Idle EXCEPT !.op = call[1], !.stage = "touch", !.device = d, !.arg = call[2],
                              !.start = now,
                                 !.row = IF call[1] = "createSub" THEN Read(d) ELSE None]
    <3>2. q.stage # "insert" /\ req' = [req EXCEPT ![r] = q]
      BY <3>1 DEF Idle
    <3> HIDE DEF q
    <3> QED BY <1>3, <3>2
  <2> QED BY <2>2, <2>3
<1>6. CASE FindEndpoint(r)
  <2>1. Answer(r, 404) \/ \E d : req' = [req EXCEPT ![r] =
          [Idle EXCEPT !.op = "push", !.stage = "found", !.device = d, !.row = Read(d)]]
    BY <1>6, Zenon DEF FindEndpoint
  <2>2. ASSUME NEW d, req' = [req EXCEPT ![r] =
                 [Idle EXCEPT !.op = "push", !.stage = "found", !.device = d, !.row = Read(d)]]
        PROVE  req'[r].stage # "insert"
    BY <2>2 DEF Idle, Core, HandlersOK
  <2> QED BY <1>2, <2>1, <2>2
<1>7. CASE CreateDevice(r)
  BY <1>7 DEF CreateDevice, Core, HandlersOK, RequestRecord
<1>8. CASE Verify(r)
  BY <1>2, <1>8 DEF Verify, Core, HandlersOK, RequestRecord
<1>9. CASE TouchDevice(r) \/ UpdateDeviceToken(r) \/ Prune(r) \/ DeleteDevice(r)
  <2>1. CASE TouchDevice(r)
    BY <1>2, <2>1, TouchIs, ResumesIs DEF Core
  <2>2. ASSUME ~TouchDevice(r)
        PROVE  Goto(r, "prune") \/ Answer(r, 201) \/ Answer(r, 204)
    BY <1>9, <2>2, Zenon DEF UpdateDeviceToken, Prune, DeleteDevice
  <2> QED BY <1>1, <1>2, <2>1, <2>2 DEF Stages
<1>10. CASE CreateSubscription(r) \/ DeleteSubscription(r)
  BY <1>2, <1>10 DEF CreateSubscription, DeleteSubscription
<1>11. CASE PlatformAnswer(r) \/ RecordDelivery(r) \/ Fail(r)
  BY <1>1, <1>2, <1>11 DEF PlatformAnswer, RecordDelivery, Fail, Stages
<1>12. CASE InvalidateDevice(r) \/ RecheckDevice(r)
  BY <1>1, <1>2, <1>12 DEF InvalidateDevice, RecheckDevice, Stages
<1> QED BY <1>4, <1>5, <1>6, <1>7, <1>8, <1>9, <1>10, <1>11, <1>12 DEF Handler

LEMMA WithoutHoldsLess ==
  ASSUME NEW gone, Without(gone), NEW d \in Device
  PROVE  HeldBy(d)' \subseteq HeldBy(d)
  BY NoneIsNew DEF Without, HeldBy

\* Only an insert gives a device a subscription.
LEMMA OthersHoldLess ==
  ASSUME Core, NEW r \in Request, Handler(r), ~CreateSubscription(r), NEW d \in Device
  PROVE  HeldBy(d)' \subseteq HeldBy(d)
<1>1. CASE UNCHANGED owner
  BY <1>1 DEF HeldBy
<1>2. CASE Prune(r)
  <2>1. PICK kept \in SUBSET InvalidRows(req[r].arg) : Without(InvalidRows(req[r].arg) \ kept)
    BY <1>2 DEF Prune
  <2> QED BY <2>1, WithoutHoldsLess
<1>3. CASE DeleteDevice(r)
  BY <1>3, WithoutHoldsLess DEF DeleteDevice
<1>4. CASE DeleteSubscription(r)
  BY <1>4, NoneIsNew DEF DeleteSubscription, HeldBy, Core, TablesOK
<1> QED BY <1>1, <1>2, <1>3, <1>4
        DEF Handler, RegisterStart, CreateDevice, Authenticate, TouchDevice, UpdateDeviceToken,
            CountSubscriptions, FindEndpoint, Verify, PlatformAnswer, RecordDelivery,
            InvalidateDevice, RecheckDevice, Fail

LEMMA InitRoom == Init => Room
<1> SUFFICES ASSUME Init, NEW d \in Device
             PROVE  Cardinality(HeldBy(d)) + Cardinality(Inserting(d))
                      <= SubscriptionLimit - 1 + Cardinality(Request)
  BY DEF Room
<1>1. HeldBy(d) = {} /\ Inserting(d) = {}
  BY NoneIsNew DEF Init, HeldBy, Inserting, Idle
<1>2. Cardinality({}) = 0 /\ Cardinality(Request) \in Nat /\ Cardinality(Request) >= 1
  BY Sizes, FS_EmptySet
<1> QED BY <1>1, <1>2, LimitAssumption

LEMMA NextRoom == RInv /\ [Next]_vars => RInv'
<1> SUFFICES ASSUME RInv, [Next]_vars PROVE RInv'
  OBVIOUS
<1>1. IInv' /\ Core
  BY NextIInv DEF RInv, IInv, TypeOK, Core
<1>2. ASSUME NEW r \in Request, Handler(r) PROVE Room'
  <2>1. CASE CountSubscriptions(r)
    BY <1>1, <2>1, CountKeepsRoom DEF RInv
  <2>2. CASE CreateSubscription(r)
    BY <1>1, <2>2, CreateKeepsRoom DEF RInv
  <2>3. CASE ~CountSubscriptions(r) /\ ~CreateSubscription(r)
    <3>1. \A d \in Device : HeldBy(d)' \subseteq HeldBy(d)
      BY <1>1, <1>2, <2>3, OthersHoldLess
    <3>2. \A p \in Request : req'[p].stage = "insert" => req'[p] = req[p]
      BY <1>1, <1>2, <2>3, OthersInsertNothing, HandlerMovesItself DEF Core
    <3>3. \A d \in Device : Inserting(d)' \subseteq Inserting(d)
      BY <3>2 DEF Inserting
    <3> QED BY <3>1, <3>3, ShrinksKeepRoom DEF RInv
  <2> QED BY <2>1, <2>2, <2>3
<1>3. CASE Purge
  <2>1. \A d \in Device : HeldBy(d)' \subseteq HeldBy(d)
    BY <1>3, WithoutHoldsLess DEF Purge
  <2>2. \A d \in Device : Inserting(d)' \subseteq Inserting(d)
    BY <1>3 DEF Purge, Inserting
  <2> QED BY <1>1, <2>1, <2>2, ShrinksKeepRoom DEF RInv
<1>4. CASE Tick \/ UNCHANGED vars
  <2>1. \A d \in Device : HeldBy(d)' \subseteq HeldBy(d) /\ Inserting(d)' \subseteq Inserting(d)
    BY <1>4 DEF Tick, vars, HeldBy, Inserting
  <2> QED BY <1>1, <2>1, ShrinksKeepRoom DEF RInv
<1> QED BY <1>1, <1>2, <1>3, <1>4 DEF Next, RInv

\* The count of a device's subscriptions and the insert are two statements:
\* a device may exceed the limit, and by no more than one subscription for
\* each other handler that runs (createSubscription, devices.ts).
THEOREM OvershootIsBounded == Spec => []SubscriptionOvershoot
<1>1. Init => RInv
  BY InitIInv, InitRoom DEF RInv
<1>2. RInv => SubscriptionOvershoot
  <2> SUFFICES ASSUME RInv, NEW d \in Device
               PROVE  Cardinality(HeldBy(d)) <= SubscriptionLimit - 1 + Cardinality(Request)
    BY DEF SubscriptionOvershoot
  <2>1. Cardinality(HeldBy(d)) + Cardinality(Inserting(d)) <= SubscriptionLimit - 1 + Cardinality(Request)
    BY DEF RInv, Room
  <2> QED BY <2>1, Sizes, LimitAssumption
<1> QED BY <1>1, <1>2, NextRoom, PTL DEF Spec
=============================================================================
