------------------------ MODULE BrowserAdapterProofs ------------------------
(***************************************************************************)
(* Theorems about BrowserAdapter for every set of profiles, screen keys    *)
(* and jobs and every limit.  The first part needs nothing of what happens *)
(* inside a browser, only that a process that is not on never comes on by  *)
(* itself.  The second follows the conversation of the adapter and each    *)
(* browser, through every handler of the browser: at any moment there is   *)
(* one place where the adapter's last request stands.                      *)
(***************************************************************************)
EXTENDS BrowserAdapter, TLAPS, SequenceTheorems, FiniteSetTheorems

\* The stages a job reaches only with the backend's lock.
Locked == Stages \ {"idle", "waiting", "storing", "unlatching", "done"}
Inside(j) == jobs[j].at \in Locked
Quitting(j) == jobs[j].kind = "quit" /\ jobs[j].at \notin {"idle", "done"}

\* A job inside holds the lock.
LockHeld == \A j \in Jobs : Inside(j) => lock = j

\* A quit that is under way has latched the exit phase, and is the only one.
Latched ==
    /\ \A j \in Jobs : Quitting(j) => phase = 1
    /\ \A i, j \in Jobs : Quitting(i) /\ Quitting(j) => i = j

\* The stages of each kind of call.
StagesOfKinds ==
    \A j \in Jobs :
        /\ jobs[j].at = "ending" => jobs[j].back \in {"closing", "recovering"}
        /\ jobs[j].at = "awaiting" => jobs[j].back = "closing"
        /\ jobs[j].at = "clearing" => jobs[j].kind = "clear"
        /\ jobs[j].at \in {"closing", "awaiting", "storing", "unlatching"}
              => jobs[j].kind = "quit"
        /\ jobs[j].at = "ending" /\ jobs[j].back = "closing" => jobs[j].kind = "quit"
        /\ jobs[j].at \in {"recovering", "draining", "ending", "spawning"}
              => jobs[j].kind # "clear"

\* A guard that has ended has no browser; a browser the adapter no longer
\* tracks ended normally.
EndedGuards ==
    \A p \in Profiles :
        /\ guard[p].state # "running" => ~On(p)
        /\ p \notin tracked => guard[p].state \in {"none", "normal"}

\* Launches are numbered in order.
LaunchOrder ==
    \A p \in Profiles : /\ guard[p].order <= launches
                        /\ guard[p].state = "running" => guard[p].order > 0

Closing(j) == \/ jobs[j].at \in {"closing", "awaiting"}
              \/ jobs[j].at = "ending" /\ jobs[j].back = "closing"

\* What a job knows of the tracked browsers at each stage.
Knows(j) ==
    /\ jobs[j].kind = "clear" /\ At(j, "settling") => {Profile(j)} \cap tracked \subseteq jobs[j].todo
    /\ jobs[j].at \in {"clearing", "spawning"} => Profile(j) \notin tracked
    /\ Closing(j) => /\ jobs[j].todo = tracked
                     /\ \A q \in tracked : ~process[q].uncertain
    /\ Closing(j) /\ ~At(j, "closing")
          => Profile(j) \in tracked /\ Oldest(Profile(j), tracked)

\* Once a quit has found every browser ended, there is none and no job can
\* start one.
AllEnded ==
    phase = 2 \/ (\E j \in Jobs : At(j, "storing"))
        => tracked = {} /\ \A j \in Jobs : ~Inside(j)

IInv == /\ TypeOK /\ LockHeld /\ Latched /\ StagesOfKinds /\ EndedGuards
        /\ LaunchOrder /\ (\A j \in Jobs : Knows(j)) /\ AllEnded

-----------------------------------------------------------------------------
\* The browser of a profile, or the person using it, changes nothing of the
\* adapter, and never turns a browser on.
LEMMA NativeKeeps ==
  ASSUME TypeOK, NEW p \in Profiles, Native(p)
  PROVE  /\ run' \in [Profiles -> {"off", "on", "left", "dead"}]
         /\ \A q \in Profiles : run'[q] = "on" => run[q] = "on"
<1>1. \/ run' = run
      \/ \E s \in {"left", "dead"} : run' = [run EXCEPT ![p] = s]
  BY DEF Native, Post, ContextInitialized, Boot, Dispatch, Create, OpenPopup, Exit, Crash,
         Leave, Stay, Observe
<1> QED BY <1>1 DEF TypeOK

-----------------------------------------------------------------------------
(* Type correctness *)

Job == [kind : Kinds, profile : Profiles, key : Keys, at : Stages,
        todo : SUBSET Profiles, back : Stages, told : Told]
Record == [next : Nat, uncertain : BOOLEAN, opening : Keys \cup {None},
           late : Keys \cup {None}]

\* A stage change keeps the types of the jobs.
LEMMA GotoTypes ==
  ASSUME TypeOK, NEW j \in Jobs, NEW at \in Stages, Goto(j, at)
  PROVE  jobs' \in [Jobs -> Job] /\ lock' = lock /\ phase' = phase
<1>1. [jobs[j] EXCEPT !.at = at] \in Job
  BY DEF TypeOK, Job
<1> QED BY <1>1 DEF Goto, TypeOK, Job

\* Nor does dealing with a profile.
LEMMA DealtTypes ==
  ASSUME TypeOK, NEW j \in Jobs, NEW p \in Profiles, NEW at \in Stages, Dealt(j, p, at)
  PROVE  jobs' \in [Jobs -> Job] /\ lock' = lock /\ phase' = phase
<1>1. [jobs[j] EXCEPT !.todo = @ \ {p}, !.at = at] \in Job
  BY DEF TypeOK, Job
<1> QED BY <1>1 DEF Dealt, TypeOK, Job

\* Nor does a return.
LEMMA ReturnTypes ==
  ASSUME TypeOK, NEW j \in Jobs, NEW told \in Told, Return(j, told)
  PROVE  jobs' \in [Jobs -> Job] /\ lock' = Free /\ phase' = phase
<1> DEFINE stage == IF jobs[j].kind # "quit" THEN "done"
                    ELSE IF told = "exits" THEN "storing" ELSE "unlatching"
<1>1. stage \in Stages
  BY DEF Stages
<1>2. [jobs[j] EXCEPT !.told = told, !.todo = {}, !.at = stage] \in Job
  BY <1>1 DEF TypeOK, Job
<1>3. jobs' = [jobs EXCEPT ![j] = [jobs[j] EXCEPT !.told = told, !.todo = {}, !.at = stage]]
  BY DEF Return, TypeOK
<1>4. jobs \in [Jobs -> Job]
  BY DEF TypeOK, Job
<1> HIDE DEF stage
<1> QED BY <1>2, <1>3, <1>4 DEF Return

\* Dropping a browser keeps the adapter's records.
LEMMA ForgetTypes ==
  ASSUME TypeOK, NEW p \in Profiles, Forget(p)
  PROVE  process' \in [Profiles -> Record] /\ tracked' \subseteq Profiles
  BY DEF Forget, TypeOK, Process, Record

\* Leaving a browser in doubt keeps its record one.
LEMMA DoubtTypes ==
  ASSUME TypeOK, NEW p \in Profiles, Doubt(p)
  PROVE  process' \in [Profiles -> Record]
<1>1. process[p] \in Record /\ process \in [Profiles -> Record]
  BY DEF TypeOK, Record
<1>2. [process[p] EXCEPT !.uncertain = TRUE] \in Record
  BY <1>1 DEF Record
<1> QED BY <1>1, <1>2 DEF Doubt

\* Every step of a job keeps the types.
LEMMA StepTypes ==
  ASSUME TypeOK, NEW j \in Jobs, Step(j)
  PROVE  TypeOK'
<1> USE DEF Kinds, Stages, Told, At, Profile, World, browserVars
<1>types. /\ jobs \in [Jobs -> Job] /\ process \in [Profiles -> Record]
          /\ jobs[j] \in Job /\ jobs[j].profile \in Profiles /\ jobs[j].key \in Keys
  BY DEF TypeOK, Job, Record
<1>1. CASE Lock(j)
  <2>1. [jobs[j] EXCEPT !.at = "settling", !.todo = Mine(j)] \in Job
    BY <1>types DEF Mine, TypeOK, Job
  <2>2. jobs' \in [Jobs -> Job] /\ lock' \in Jobs \cup {Free} /\ phase' = phase
    BY <1>1, <1>types, <2>1, ReturnTypes DEF Lock
  <2> QED BY <1>1, <2>2 DEF Lock, TypeOK, Job
<1>2. CASE Settled(j)
  BY <1>2, <1>types DEF Settled, Mine, TypeOK, Job, Record
<1>3. CASE Drain(j)
  <2> DEFINE p == Profile(j)
             r == Head(replies[p])
             opening == IF r.event \in {"opened", "error"} THEN None ELSE process[p].opening
  <2>1. [process[p] EXCEPT !.uncertain = FALSE, !.opening = opening, !.late = None] \in Record
    BY <1>types DEF Record
  <2>2. process' \in [Profiles -> Record]
    <3>1. \/ process' = process
          \/ process' = [process EXCEPT ![p] = [process[p] EXCEPT !.uncertain = FALSE,
                                                   !.opening = opening, !.late = None]]
      BY <1>3, <1>types DEF Drain
    <3> QED BY <3>1, <2>1, <1>types
  <2>3. [jobs[j] EXCEPT !.at = "ending", !.back = "recovering"] \in Job
    BY <1>types DEF Job
  <2>4. jobs' \in [Jobs -> Job]
    BY <1>3, <1>types, <2>3 DEF Drain
  <2> QED BY <1>3, <2>2, <2>4 DEF Drain, TypeOK, Job, Record
<1>4. CASE Drained(j)
  BY <1>4, <1>types, DealtTypes DEF Drained, TypeOK, Job, Record
<1>5. CASE Recovered(j)
  BY <1>5, <1>types, ReturnTypes DEF Recovered, Mine, TypeOK, Job, Record
<1>6. CASE SpawnFails(j)
  BY <1>6, <1>types, ReturnTypes DEF SpawnFails, TypeOK, Job, Record
<1>7. CASE Opened(j)
  <2> DEFINE p == Profile(j)
  <2>1. /\ [process[p] EXCEPT !.opening = None] \in Record
        /\ [process[p] EXCEPT !.uncertain = TRUE] \in Record
    BY <1>types DEF Record
  <2>2. process' \in [Profiles -> Record]
    <3>1. \/ process' = process
          \/ process' = [process EXCEPT ![p] = [process[p] EXCEPT !.opening = None]]
          \/ process' = [process EXCEPT ![p] = [process[p] EXCEPT !.uncertain = TRUE]]
      BY <1>7, <1>types DEF Opened
    <3> QED BY <3>1, <2>1, <1>types
  <2>3. jobs' \in [Jobs -> Job] /\ lock' \in Jobs \cup {Free} /\ phase' = phase
    BY <1>7, <1>types, ReturnTypes DEF Opened, TypeOK
  <2> QED BY <1>7, <2>2, <2>3 DEF Opened, TypeOK, Job, Record
<1>8. CASE GiveUp(j)
  BY <1>8, <1>types, DoubtTypes, ReturnTypes DEF GiveUp, TypeOK, Job, Record
<1>9. CASE Closed(j)
  BY <1>9, <1>types, GotoTypes, ReturnTypes, DoubtTypes DEF Closed, TakeReply, TypeOK, Job, Record
<1>10. CASE ChannelCloses(j)
  BY <1>10, <1>types, GotoTypes DEF ChannelCloses, TypeOK, Job, Record
<1>11. CASE Ending(j)
  <2>1. CASE guard[Profile(j)].state = "normal"
    <3>1. Forget(Profile(j)) /\ Dealt(j, Profile(j), jobs[j].back)
      BY <1>11, <2>1 DEF Ending
    <3>2. jobs[j].back \in Stages
      BY <1>types DEF Job
    <3>3. jobs' \in [Jobs -> Job] /\ lock' = lock /\ phase' = phase
      BY <3>1, <3>2, <1>types, DealtTypes
    <3>4. process' \in [Profiles -> Record] /\ tracked' \subseteq Profiles
      BY <3>1, <1>types, ForgetTypes
    <3> QED BY <3>1, <3>3, <3>4 DEF Forget, TypeOK, Job, Record
  <2>2. CASE guard[Profile(j)].state # "normal"
    BY <1>11, <2>2, <1>types, DoubtTypes, ReturnTypes DEF Ending, TypeOK, Job, Record
  <2> QED BY <2>1, <2>2
<1>12. CASE AllClosed(j)
  BY <1>12, <1>types, ReturnTypes DEF AllClosed, TypeOK, Job, Record
<1>13. CASE Clear(j)
  BY <1>13, <1>types, ReturnTypes DEF Clear, TypeOK, Job, Record
<1>14. CASE StorePhase(j)
  <2>1. [jobs[j] EXCEPT !.at = "done"] \in Job
    BY <1>types DEF Job
  <2>2. jobs' \in [Jobs -> Job]
    BY <1>14, <1>types, <2>1 DEF StorePhase
  <2>3. phase' \in 0..2
    BY <1>14 DEF StorePhase
  <2> QED BY <1>14, <2>2, <2>3 DEF StorePhase, TypeOK, Job
<1>15. ASSUME NEW p \in Profiles, SettleEnded(j, p) PROVE TypeOK'
  BY <1>15, <1>types, ForgetTypes, DealtTypes DEF SettleEnded, Forget, TypeOK, Job, Record
<1>16. ASSUME NEW p \in Profiles, SettleBad(j, p) PROVE TypeOK'
  BY <1>16, <1>types, ReturnTypes, DoubtTypes DEF SettleBad, TypeOK, Job, Record
<1>17. ASSUME NEW p \in Profiles, SettleRunning(j, p) PROVE TypeOK'
  BY <1>17, <1>types, ReturnTypes, DealtTypes DEF SettleRunning, TypeOK, Job, Record
<1>18. ASSUME NEW p \in Profiles, Recover(j, p) PROVE TypeOK'
  <2>1. CASE Dealt(j, p, "recovering") /\ (UNCHANGED World \/ Forget(p))
    BY <1>18, <2>1, <1>types, DealtTypes, ForgetTypes DEF Forget, TypeOK, Job, Record
  <2>2. CASE Return(j, "failed") /\ UNCHANGED World
    BY <2>2, <1>types, ReturnTypes DEF TypeOK, Job, Record
  <2>3. CASE /\ jobs' = [jobs EXCEPT ![j].at = "draining", ![j].profile = p]
             /\ UNCHANGED <<World, lock, phase>>
    <3>1. [jobs[j] EXCEPT !.at = "draining", !.profile = p] \in Job
      BY <1>types, <1>18 DEF Job
    <3>2. jobs' \in [Jobs -> Job]
      BY <1>types, <2>3, <3>1
    <3> QED BY <2>3, <3>2 DEF TypeOK, Job, Record
  <2> QED BY <1>18, <2>1, <2>2, <2>3 DEF Recover
<1>19. ASSUME NEW p \in Profiles, Spawn(j, p) PROVE TypeOK'
  BY <1>19, <1>types, GotoTypes DEF Spawn, Process, TypeOK, Job, Record
<1>20. ASSUME NEW p \in Profiles, Send(j, p) PROVE TypeOK'
  <2> DEFINE id == process[p].next + 1
  <2>1. /\ [process[p] EXCEPT !.next = id, !.opening = jobs[j].key] \in Record
        /\ [process[p] EXCEPT !.next = id, !.uncertain = TRUE] \in Record
        /\ [process[p] EXCEPT !.next = id, !.uncertain = TRUE, !.late = jobs[j].key] \in Record
    <3>1. process[p] \in Record /\ id \in Nat /\ jobs[j].key \in Keys
      BY <1>20, <1>types DEF Record
    <3> HIDE DEF id
    <3> QED BY <3>1 DEF Record
  <2>2. process' \in [Profiles -> Record]
    <3>1. \/ process' = [process EXCEPT ![p] = [process[p] EXCEPT !.next = id, !.opening = jobs[j].key]]
          \/ process' = [process EXCEPT ![p] = [process[p] EXCEPT !.next = id, !.uncertain = TRUE]]
          \/ process' = [process EXCEPT ![p] = [process[p] EXCEPT !.next = id, !.uncertain = TRUE,
                                                   !.late = jobs[j].key]]
      BY <1>20, <1>types DEF Send
    <3> QED BY <3>1, <2>1, <1>types, <1>20
  <2>3. jobs' \in [Jobs -> Job] /\ lock' \in Jobs \cup {Free} /\ phase' = phase
    BY <1>20, <1>types, GotoTypes, ReturnTypes DEF Send, TypeOK
  <2> QED BY <1>20, <2>2, <2>3 DEF Send, TypeOK, Job, Record
<1>21. ASSUME NEW p \in Profiles, CloseEnded(j, p) PROVE TypeOK'
  BY <1>21, <1>types, ForgetTypes, DealtTypes, DoubtTypes, ReturnTypes DEF CloseEnded, Forget, TypeOK, Job, Record
<1>22. ASSUME NEW p \in Profiles, Close(j, p) PROVE TypeOK'
  <2> DEFINE id == process[p].next + 1
             sent == [process[p] EXCEPT !.next = id, !.opening = None]
             unsent == [process[p] EXCEPT !.next = id, !.opening = None, !.uncertain = TRUE]
             going(at) == [jobs[j] EXCEPT !.at = at, !.profile = p, !.back = "closing"]
  <2>1. sent \in Record /\ unsent \in Record
    <3>1. process[p] \in Record /\ id \in Nat
      BY <1>22, <1>types DEF Record
    <3> HIDE DEF id
    <3> QED BY <3>1 DEF Record
  <2>2. process' \in [Profiles -> Record]
    <3>1. \/ process' = [process EXCEPT ![p] = sent]
          \/ process' = [process EXCEPT ![p] = unsent]
      BY <1>22, <1>types DEF Close
    <3> QED BY <3>1, <2>1, <1>types, <1>22
  <2>3. going("awaiting") \in Job /\ going("ending") \in Job
    BY <1>22, <1>types DEF Job
  <2>4. jobs' \in [Jobs -> Job] /\ lock' \in Jobs \cup {Free} /\ phase' = phase
    <3>1. \/ Return(j, "failed")
          \/ /\ \/ jobs' = [jobs EXCEPT ![j] = going("awaiting")]
                \/ jobs' = [jobs EXCEPT ![j] = going("ending")]
             /\ UNCHANGED <<lock, phase>>
      BY <1>22, <1>types DEF Close
    <3> QED BY <3>1, <2>3, <1>types, ReturnTypes DEF TypeOK
  <2> QED BY <1>22, <2>2, <2>4 DEF Close, TypeOK, Job, Record
<1> QED BY <1>1, <1>2, <1>3, <1>4, <1>5, <1>6, <1>7, <1>8, <1>9, <1>10, <1>11, <1>12, <1>13,
        <1>14, <1>15, <1>16, <1>17, <1>18, <1>19, <1>20, <1>21, <1>22 DEF Step

\* A quit's record is a job's.
LEMMA QuitTypes ==
  ASSUME NEW job \in Job, NEW at \in Stages, NEW told \in Told
  PROVE  [job EXCEPT !.kind = "quit", !.at = at, !.told = told] \in Job
<1>1. "quit" \in Kinds
  BY DEF Kinds
<1> HIDE DEF Kinds, Stages, Told
<1> QED BY <1>1 DEF Job

\* A call starts well-typed, and a guard ends well-typed.
LEMMA PersonTypes ==
  ASSUME TypeOK, NEW j \in Jobs, Person(j)
  PROVE  TypeOK'
<1> USE DEF Kinds, Stages, Told, World, browserVars
<1>1. CASE StartQuit(j)
  <2> DEFINE at == IF phase = 0 THEN "waiting" ELSE "done"
             told == IF phase = 0 THEN jobs[j].told
                     ELSE IF phase = 1 THEN "prevented" ELSE "exits"
  <2>1. [jobs[j] EXCEPT !.kind = "quit", !.at = at, !.told = told] \in Job
    <3>1. jobs[j] \in Job /\ at \in Stages /\ told \in Told
      BY DEF TypeOK, Job
    <3> HIDE DEF at, told, Kinds, Stages, Told
    <3> QED BY <3>1, QuitTypes
  <2>2. jobs' = [jobs EXCEPT ![j] = [jobs[j] EXCEPT !.kind = "quit", !.at = at, !.told = told]]
    BY <1>1 DEF StartQuit, TypeOK
  <2>3. phase' \in 0..2
    BY <1>1 DEF StartQuit, TypeOK
  <2>4. jobs \in [Jobs -> Job]
    BY DEF TypeOK, Job
  <2> HIDE DEF at, told
  <2>5. jobs' \in [Jobs -> Job]
    BY <2>1, <2>2, <2>4
  <2> QED BY <1>1, <2>3, <2>5 DEF StartQuit, TypeOK, Job
<1>2. ASSUME NEW p \in Profiles, NEW k \in Keys, Start(j, p, k) PROVE TypeOK'
  <2>1. PICK kind \in {"open", "clear"} :
           jobs' = [jobs EXCEPT ![j] = [IdleJob(p, k) EXCEPT !.kind = kind,
                                        !.at = IF phase = 0 THEN "waiting" ELSE "done",
                                        !.told = IF phase = 0 THEN @ ELSE "failed"]]
    BY <1>2 DEF Start
  <2>2. [IdleJob(p, k) EXCEPT !.kind = kind,
                              !.at = IF phase = 0 THEN "waiting" ELSE "done",
                              !.told = IF phase = 0 THEN @ ELSE "failed"] \in Job
    BY DEF IdleJob, Job
  <2> QED BY <1>2, <2>1, <2>2 DEF Start, TypeOK, Job
<1> QED BY <1>1, <1>2 DEF Person

\* A guard's end is one of the ends.
LEMMA GuardTypes ==
  ASSUME TypeOK, NEW p \in Profiles, GuardEnds(p)
  PROVE  TypeOK'
<1>1. PICK end \in {"normal", "forced", "abnormal"} :
         guard' = [guard EXCEPT ![p].state = end]
  BY DEF GuardEnds
<1> QED BY <1>1 DEF GuardEnds, TypeOK

-----------------------------------------------------------------------------
(* What a step does to the lock, the exit phase and its own job *)

\* A job's step leaves the other jobs alone.
LEMMA OtherJobs ==
  ASSUME TypeOK, NEW j \in Jobs, NEW i \in Jobs, i # j, Step(j) \/ Person(j)
  PROVE  jobs'[i] = jobs[i]
<1> USE DEF TypeOK, Goto, Dealt, Return
<1>1. CASE Lock(j) \/ Settled(j) \/ Drain(j) \/ Drained(j) \/ Recovered(j)
  BY <1>1 DEF Lock, Settled, Drain, Drained, Recovered
<1>2. CASE SpawnFails(j) \/ Opened(j) \/ GiveUp(j) \/ Closed(j) \/ ChannelCloses(j)
  BY <1>2 DEF SpawnFails, Opened, GiveUp, Closed, ChannelCloses
<1>3. CASE Ending(j) \/ AllClosed(j) \/ Clear(j) \/ StorePhase(j)
  BY <1>3 DEF Ending, AllClosed, Clear, StorePhase
<1>4. ASSUME NEW p \in Profiles,
             SettleEnded(j, p) \/ SettleBad(j, p) \/ SettleRunning(j, p) \/ Recover(j, p)
      PROVE  jobs'[i] = jobs[i]
  BY <1>4 DEF SettleEnded, SettleBad, SettleRunning, Recover
<1>5. ASSUME NEW p \in Profiles, Spawn(j, p) \/ Send(j, p) \/ CloseEnded(j, p)
      PROVE  jobs'[i] = jobs[i]
  BY <1>5 DEF Spawn, Send, CloseEnded
<1>6. ASSUME NEW p \in Profiles, Close(j, p)
      PROVE  jobs'[i] = jobs[i]
  BY <1>6 DEF Close
<1>7. CASE Person(j)
  BY <1>7 DEF Person, Start, StartQuit
<1> QED BY <1>1, <1>2, <1>3, <1>4, <1>5, <1>6, <1>7 DEF Step

\* A return ends the job, or leaves a quit with the exit phase to store.
LEMMA ReturnShape ==
  ASSUME TypeOK, NEW j \in Jobs, NEW told, Return(j, told)
  PROVE  /\ jobs'[j].kind = jobs[j].kind
         /\ jobs'[j].at = IF jobs[j].kind # "quit" THEN "done"
                          ELSE IF told = "exits" THEN "storing" ELSE "unlatching"
         /\ lock' = Free /\ phase' = phase
  BY DEF TypeOK, Return

\* How a step moves its job: it takes the lock, goes on inside, returns, or
\* stores the exit phase.
Enters(j) == /\ At(j, "waiting") /\ lock = Free /\ lock' = j /\ phase' = phase
             /\ phase = 0 \/ jobs[j].kind = "quit"
             /\ jobs'[j].at = "settling"
             /\ UNCHANGED World
GoesOn(j) == Inside(j) /\ Inside(j)' /\ lock' = lock /\ phase' = phase
Returns(j) == /\ Inside(j) \/ (At(j, "waiting") /\ lock = Free /\ UNCHANGED World)
              /\ lock' = Free /\ phase' = phase
              /\ jobs'[j].at \in {"done", "storing", "unlatching"}
              /\ jobs'[j].at = "done" <=> jobs[j].kind # "quit"
              /\ jobs'[j].at = "storing"
                    => At(j, "closing") /\ jobs[j].todo = {} /\ UNCHANGED World
Stores(j) == /\ jobs[j].at \in {"storing", "unlatching"} /\ jobs'[j].at = "done"
             /\ phase' = IF At(j, "storing") THEN 2 ELSE 0
             /\ UNCHANGED <<World, lock>>

\* A job inside that returns, without finishing a quit.
LEMMA ReturnInside ==
  ASSUME TypeOK, NEW j \in Jobs, Inside(j), NEW told, told # "exits", Return(j, told)
  PROVE  jobs'[j].kind = jobs[j].kind /\ Returns(j)
<1>1. /\ jobs'[j].kind = jobs[j].kind /\ lock' = Free /\ phase' = phase
      /\ jobs'[j].at = IF jobs[j].kind # "quit" THEN "done" ELSE "unlatching"
  BY ReturnShape
<1> QED BY <1>1 DEF Returns

\* A job inside that goes on to another stage inside.
LEMMA GotoInside ==
  ASSUME TypeOK, NEW j \in Jobs, Inside(j), NEW at \in Locked, Goto(j, at)
  PROVE  jobs'[j].kind = jobs[j].kind /\ GoesOn(j)
<1>1. jobs'[j].kind = jobs[j].kind /\ jobs'[j].at = at
  BY DEF TypeOK, Goto
<1> QED BY <1>1 DEF GoesOn, Inside, Goto

\* A job inside that has dealt with a profile.
LEMMA DealtInside ==
  ASSUME TypeOK, NEW j \in Jobs, Inside(j), NEW at \in Locked, NEW p, Dealt(j, p, at)
  PROVE  jobs'[j].kind = jobs[j].kind /\ GoesOn(j)
<1>1. jobs'[j].kind = jobs[j].kind /\ jobs'[j].at = at
  BY DEF TypeOK, Dealt
<1> QED BY <1>1 DEF GoesOn, Inside, Dealt

\* Every step of a job is one of the four.
LEMMA StepShape ==
  ASSUME TypeOK, StagesOfKinds, NEW j \in Jobs, Step(j)
  PROVE  /\ jobs'[j].kind = jobs[j].kind
         /\ Enters(j) \/ GoesOn(j) \/ Returns(j) \/ Stores(j)
<1> DEFINE Goal == /\ jobs'[j].kind = jobs[j].kind
                   /\ Enters(j) \/ GoesOn(j) \/ Returns(j) \/ Stores(j)
<1> USE DEF TypeOK, Inside, Locked, Stages, At, GoesOn, Goal
<1>1. CASE Lock(j)
  BY <1>1, ReturnShape DEF Lock, Enters, Returns
<1>2. CASE Settled(j)
  BY <1>2 DEF Settled
<1>3. CASE Drain(j)
  BY <1>3 DEF Drain
<1>4. CASE Drained(j)
  BY <1>4 DEF Drained, Dealt
<1>5. CASE Recovered(j)
  BY <1>5, ReturnInside DEF Recovered
<1>6. CASE SpawnFails(j)
  BY <1>6, ReturnInside DEF SpawnFails
<1>7. CASE Opened(j)
  BY <1>7, ReturnInside DEF Opened
<1>8. CASE GiveUp(j)
  BY <1>8, ReturnInside DEF GiveUp
<1>9. CASE Closed(j)
  <2>1. \/ UNCHANGED <<jobs, lock, phase>>
        \/ Goto(j, "ending") \/ Return(j, "cancelled") \/ Return(j, "failed")
    BY <1>9 DEF Closed
  <2>2. At(j, "awaiting")
    BY <1>9 DEF Closed
  <2>3. CASE UNCHANGED <<jobs, lock, phase>>
    BY <2>2, <2>3
  <2>4. CASE Goto(j, "ending")
    BY <2>2, <2>4, GotoInside
  <2>5. CASE Return(j, "cancelled") \/ Return(j, "failed")
    BY <2>2, <2>5, ReturnInside
  <2> QED BY <2>1, <2>3, <2>4, <2>5
<1>10. CASE ChannelCloses(j)
  BY <1>10, GotoInside DEF ChannelCloses
<1>11. CASE Ending(j)
  <2>1. At(j, "ending") /\ jobs[j].back \in Locked
    BY <1>11 DEF Ending, StagesOfKinds
  <2>2. CASE Return(j, "failed")
    BY <2>1, <2>2, ReturnInside
  <2>3. CASE Dealt(j, Profile(j), jobs[j].back)
    BY <2>1, <2>3, DealtInside
  <2> QED BY <1>11, <2>2, <2>3 DEF Ending
<1>12. CASE AllClosed(j)
  <2>1. /\ jobs'[j].kind = jobs[j].kind /\ lock' = Free /\ phase' = phase
        /\ jobs'[j].at = IF jobs[j].kind # "quit" THEN "done" ELSE "storing"
    BY <1>12, ReturnShape DEF AllClosed
  <2> QED BY <1>12, <2>1 DEF AllClosed, Returns
<1>13. CASE Clear(j)
  BY <1>13, ReturnInside DEF Clear
<1>14. CASE StorePhase(j)
  BY <1>14 DEF StorePhase, Stores
<1>15. ASSUME NEW p \in Profiles, SettleEnded(j, p) PROVE Goal
  BY <1>15 DEF SettleEnded, Dealt
<1>16. ASSUME NEW p \in Profiles, SettleBad(j, p) PROVE Goal
  BY <1>16, ReturnInside DEF SettleBad
<1>17. ASSUME NEW p \in Profiles, SettleRunning(j, p) PROVE Goal
  <2>1. At(j, "settling")
    BY <1>17 DEF SettleRunning
  <2>2. CASE Return(j, "failed")
    BY <2>1, <2>2, ReturnInside
  <2>3. CASE Dealt(j, p, "settling")
    BY <2>1, <2>3, DealtInside
  <2> QED BY <1>17, <2>2, <2>3 DEF SettleRunning
<1>18. ASSUME NEW p \in Profiles, Recover(j, p) PROVE Goal
  <2>1. CASE Return(j, "failed")
    <3>1. At(j, "recovering")
      BY <1>18 DEF Recover
    <3> QED BY <2>1, <3>1, ReturnInside
  <2>2. CASE Dealt(j, p, "recovering")
    BY <1>18, <2>2, DealtInside DEF Recover
  <2>3. CASE /\ jobs' = [jobs EXCEPT ![j].at = "draining", ![j].profile = p]
             /\ UNCHANGED <<World, lock, phase>>
    BY <1>18, <2>3 DEF Recover
  <2> QED BY <1>18, <2>1, <2>2, <2>3 DEF Recover
<1>19. ASSUME NEW p \in Profiles, Spawn(j, p) PROVE Goal
  BY <1>19, GotoInside DEF Spawn
<1>20. ASSUME NEW p \in Profiles, Send(j, p) PROVE Goal
  <2>1. Goto(j, "opening") \/ Return(j, "failed")
    BY <1>20 DEF Send
  <2>2. At(j, "sending")
    BY <1>20 DEF Send
  <2>3. CASE Goto(j, "opening")
    BY <2>2, <2>3, GotoInside
  <2>4. CASE Return(j, "failed")
    BY <2>2, <2>4, ReturnInside
  <2> QED BY <2>1, <2>3, <2>4
<1>21. ASSUME NEW p \in Profiles, CloseEnded(j, p) PROVE Goal
  <2>1. At(j, "closing")
    BY <1>21 DEF CloseEnded
  <2>2. CASE Return(j, "failed")
    BY <2>1, <2>2, ReturnInside
  <2>3. CASE Dealt(j, p, "closing")
    BY <2>1, <2>3, DealtInside
  <2> QED BY <1>21, <2>2, <2>3 DEF CloseEnded
<1>22. ASSUME NEW p \in Profiles, Close(j, p) PROVE Goal
  <2>1. \/ Return(j, "failed")
        \/ /\ \E at \in {"awaiting", "ending"} :
                 jobs' = [jobs EXCEPT ![j].at = at, ![j].profile = p, ![j].back = "closing"]
           /\ UNCHANGED <<lock, phase>>
    BY <1>22 DEF Close
  <2>2. At(j, "closing")
    BY <1>22 DEF Close
  <2>3. CASE Return(j, "failed")
    BY <2>2, <2>3, ReturnInside
  <2>4. CASE /\ \E at \in {"awaiting", "ending"} :
                  jobs' = [jobs EXCEPT ![j].at = at, ![j].profile = p, ![j].back = "closing"]
             /\ UNCHANGED <<lock, phase>>
    BY <2>2, <2>4
  <2> QED BY <2>1, <2>3, <2>4
<1> QED BY <1>1, <1>2, <1>3, <1>4, <1>5, <1>6, <1>7, <1>8, <1>9, <1>10, <1>11, <1>12, <1>13,
        <1>14, <1>15, <1>16, <1>17, <1>18, <1>19, <1>20, <1>21, <1>22 DEF Step

\* What a step may do to the browsers and their guards.
Drops(j, p) == /\ Inside(j) /\ guard[p].state = "normal"
               /\ tracked' = tracked \ {p} /\ UNCHANGED <<run, guard, launches>>
Starts(j, p) == /\ At(j, "spawning") /\ p = Profile(j)
                /\ tracked' = tracked \cup {p} /\ launches' = launches + 1
                /\ guard' = [guard EXCEPT ![p] = [state |-> "running", order |-> launches + 1]]
                /\ run' = [run EXCEPT ![p] = "on"]
Quiet == UNCHANGED <<run, tracked, guard, launches>>

\* A step leaves the browsers as they are, drops one, or starts one.
LEMMA StepWorld ==
  ASSUME TypeOK, NEW j \in Jobs, Step(j)
  PROVE  Quiet \/ \E p \in Profiles : Drops(j, p) \/ Starts(j, p)
<1> USE DEF Quiet, World, browserVars
<1>1. CASE \/ Lock(j) \/ Settled(j) \/ Drain(j) \/ Drained(j) \/ Recovered(j)
           \/ SpawnFails(j) \/ Opened(j) \/ GiveUp(j) \/ Closed(j) \/ ChannelCloses(j)
           \/ AllClosed(j) \/ Clear(j) \/ StorePhase(j)
  BY <1>1 DEF Lock, Settled, Drain, Drained, Recovered, SpawnFails, Opened, GiveUp,
              Closed, ChannelCloses, AllClosed, Clear, StorePhase
<1>2. CASE Ending(j)
  <2>1. Profile(j) \in Profiles
    BY DEF TypeOK, Profile
  <2> QED BY <1>2, <2>1 DEF Ending, Forget, Drops, Inside, Locked, Stages, At
<1>3. ASSUME NEW p \in Profiles, SettleEnded(j, p) \/ Recover(j, p) \/ CloseEnded(j, p)
      PROVE  Quiet \/ Drops(j, p)
  BY <1>3 DEF SettleEnded, Recover, CloseEnded, Forget, Drops, Inside, Locked, Stages, At
<1>4. ASSUME NEW p \in Profiles, SettleBad(j, p) \/ SettleRunning(j, p) \/ Send(j, p) \/ Close(j, p)
      PROVE  Quiet
  BY <1>4 DEF SettleBad, SettleRunning, Send, Close
<1>5. ASSUME NEW p \in Profiles, Spawn(j, p)
      PROVE  Starts(j, p)
  BY <1>5 DEF Spawn, Starts
<1> QED BY <1>1, <1>2, <1>3, <1>4, <1>5 DEF Step

-----------------------------------------------------------------------------
(* Every step of a job keeps the invariant *)

\* The lock has one holder: entering needs it free, and only its holder goes on.
LEMMA StepLock ==
  ASSUME IInv, NEW j \in Jobs, Step(j)
  PROVE  LockHeld'
<1> SUFFICES ASSUME NEW i \in Jobs, Inside(i)'
             PROVE  lock' = i
  BY DEF LockHeld
<1>shape. Enters(j) \/ GoesOn(j) \/ Returns(j) \/ Stores(j)
  BY StepShape DEF IInv
<1>1. CASE i = j
  BY <1>1, <1>shape DEF IInv, LockHeld, Inside, Enters, GoesOn, Returns, Stores, Locked
<1>2. CASE i # j
  <2>1. jobs'[i] = jobs[i]
    BY <1>2, OtherJobs DEF IInv
  <2>2. lock = i
    BY <2>1 DEF IInv, LockHeld, Inside
  <2>3. ~Inside(j)
    BY <1>2, <2>2 DEF IInv, LockHeld
  <2>4. lock # Free
    BY <2>2, AdapterAssumption
  <2> QED BY <1>shape, <2>2, <2>3, <2>4 DEF Enters, GoesOn, Returns, Stores
<1> QED BY <1>1, <1>2

\* The phase changes only when the one quit under way stores it.
LEMMA StepLatched ==
  ASSUME IInv, NEW j \in Jobs, Step(j)
  PROVE  Latched'
<1>shape. /\ jobs'[j].kind = jobs[j].kind
          /\ Enters(j) \/ GoesOn(j) \/ Returns(j) \/ Stores(j)
  BY StepShape DEF IInv
<1>1. \A i \in Jobs : Quitting(i)' => Quitting(i)
  <2> SUFFICES ASSUME NEW i \in Jobs, Quitting(i)'
               PROVE  Quitting(i)
    OBVIOUS
  <2>1. CASE i = j
    BY <2>1, <1>shape DEF Quitting, Enters, GoesOn, Returns, Stores, Inside, Locked, At
  <2>2. CASE i # j
    BY <2>2, OtherJobs DEF Quitting, IInv
  <2> QED BY <2>1, <2>2
<1>2. CASE Stores(j)
  <2>1. Quitting(j) /\ ~Quitting(j)'
    BY <1>2 DEF Stores, Quitting, IInv, StagesOfKinds
  <2>2. \A i \in Jobs : ~Quitting(i)'
    BY <1>1, <2>1 DEF IInv, Latched
  <2> QED BY <2>2 DEF Latched
<1>3. CASE ~Stores(j)
  <2>1. phase' = phase
    BY <1>3, <1>shape DEF Enters, GoesOn, Returns
  <2> QED BY <1>1, <2>1 DEF IInv, Latched
<1> QED BY <1>2, <1>3

\* A browser is dropped only after a normal end, and started with a new number.
LEMMA StepGuards ==
  ASSUME IInv, NEW j \in Jobs, Step(j)
  PROVE  EndedGuards' /\ LaunchOrder'
<1> USE DEF IInv, EndedGuards, LaunchOrder, On, TypeOK
<1>1. CASE Quiet
  BY <1>1 DEF Quiet
<1>2. ASSUME NEW p \in Profiles, Drops(j, p) PROVE EndedGuards' /\ LaunchOrder'
  BY <1>2 DEF Drops
<1>3. ASSUME NEW p \in Profiles, Starts(j, p) PROVE EndedGuards' /\ LaunchOrder'
  <2>1. launches + 1 \in Nat /\ launches + 1 > 0 /\ \A q \in Profiles : guard[q].order \in Nat
    OBVIOUS
  <2>2. EndedGuards'
    BY <1>3 DEF Starts
  <2>3. LaunchOrder'
    BY <1>3, <2>1 DEF Starts
  <2> QED BY <2>2, <2>3
<1> QED BY <1>1, <1>2, <1>3, StepWorld

\* A job that returns is no longer inside.
LEMMA ReturnOut ==
  ASSUME TypeOK, NEW j \in Jobs, NEW told, Return(j, told)
  PROVE  ~Inside(j)'
  BY ReturnShape DEF Inside, Locked

\* Each kind of call keeps to its stages.
LEMMA StepStages ==
  ASSUME IInv, NEW j \in Jobs, Step(j)
  PROVE  StagesOfKinds'
<1> DEFINE Goal == /\ jobs'[j].at = "ending" => jobs'[j].back \in {"closing", "recovering"}
                   /\ jobs'[j].at = "awaiting" => jobs'[j].back = "closing"
                   /\ jobs'[j].at = "clearing" => jobs[j].kind = "clear"
                   /\ jobs'[j].at \in {"closing", "awaiting", "storing", "unlatching"}
                         => jobs[j].kind = "quit"
                   /\ jobs'[j].at = "ending" /\ jobs'[j].back = "closing" => jobs[j].kind = "quit"
                   /\ jobs'[j].at \in {"recovering", "draining", "ending", "spawning"}
                         => jobs[j].kind # "clear"
<1>shape. /\ jobs'[j].kind = jobs[j].kind
          /\ Enters(j) \/ GoesOn(j) \/ Returns(j) \/ Stores(j)
  BY StepShape DEF IInv
<1>1. ASSUME ~GoesOn(j) PROVE Goal
  <2>1. \/ jobs'[j].at \in {"settling", "done"}
        \/ jobs'[j].at \in {"storing", "unlatching"} /\ jobs[j].kind = "quit"
    BY <1>1, <1>shape DEF Enters, Returns, Stores
  <2> QED BY <2>1
<1>2. ASSUME GoesOn(j) PROVE Goal
  <2> USE ReturnOut, <1>2 DEF GoesOn, IInv, StagesOfKinds, TypeOK, At
  <2>1. CASE Settled(j)
    BY <2>1 DEF Settled
  <2>2. CASE Drain(j)
    BY <2>2 DEF Drain
  <2>3. CASE Drained(j)
    BY <2>3 DEF Drained, Dealt
  <2>4. CASE Recovered(j)
    BY <2>4 DEF Recovered
  <2>5. CASE Opened(j)
    BY <2>5 DEF Opened
  <2>6. CASE Closed(j)
    BY <2>6 DEF Closed, Goto
  <2>7. CASE ChannelCloses(j)
    BY <2>7 DEF ChannelCloses, Goto
  <2>8. CASE Ending(j)
    BY <2>8 DEF Ending, Dealt
  <2>9. ASSUME NEW p \in Profiles, SettleEnded(j, p) PROVE Goal
    BY <2>9 DEF SettleEnded, Dealt
  <2>10. ASSUME NEW p \in Profiles, SettleRunning(j, p) PROVE Goal
    BY <2>10 DEF SettleRunning, Dealt
  <2>11. ASSUME NEW p \in Profiles, Recover(j, p) PROVE Goal
    BY <2>11 DEF Recover, Dealt
  <2>12. ASSUME NEW p \in Profiles, Spawn(j, p) PROVE Goal
    BY <2>12 DEF Spawn, Goto
  <2>13. ASSUME NEW p \in Profiles, Send(j, p) PROVE Goal
    BY <2>13 DEF Send, Goto
  <2>14. ASSUME NEW p \in Profiles, CloseEnded(j, p) PROVE Goal
    BY <2>14 DEF CloseEnded, Dealt
  <2>15. ASSUME NEW p \in Profiles, Close(j, p) PROVE Goal
    BY <2>15 DEF Close
  <2>16. CASE Lock(j) \/ StorePhase(j)
    BY <2>16 DEF Lock, StorePhase, Inside, Locked
  <2>17. CASE SpawnFails(j) \/ GiveUp(j) \/ AllClosed(j) \/ Clear(j)
    BY <2>17 DEF SpawnFails, GiveUp, AllClosed, Clear
  <2>18. ASSUME NEW p \in Profiles, SettleBad(j, p) PROVE Goal
    BY <2>18 DEF SettleBad
  <2> QED BY <2>1, <2>2, <2>3, <2>4, <2>5, <2>6, <2>7, <2>8, <2>9, <2>10, <2>11, <2>12, <2>13,
        <2>14, <2>15, <2>16, <2>17, <2>18 DEF Step
<1>3. \A i \in Jobs : i # j => jobs'[i] = jobs[i]
  BY OtherJobs DEF IInv
<1> QED BY <1>1, <1>2, <1>3, <1>shape DEF IInv, StagesOfKinds

\* A quit that has closed everything finds nothing started behind its back.
LEMMA StepAllEnded ==
  ASSUME IInv, NEW j \in Jobs, Step(j)
  PROVE  AllEnded'
<1> DEFINE Over == phase = 2 \/ \E i \in Jobs : At(i, "storing")
<1>shape. /\ jobs'[j].kind = jobs[j].kind
          /\ Enters(j) \/ GoesOn(j) \/ Returns(j) \/ Stores(j)
  BY StepShape DEF IInv
<1>others. \A i \in Jobs : i # j => jobs'[i] = jobs[i]
  BY OtherJobs DEF IInv
\* Nobody enters while a quit stores its phase or after it has.
<1>1. ASSUME Over PROVE ~Enters(j) /\ ~GoesOn(j)
  <2>1. tracked = {} /\ \A i \in Jobs : ~Inside(i)
    BY <1>1 DEF IInv, AllEnded
  <2>2. ASSUME At(j, "waiting"), phase = 0 \/ jobs[j].kind = "quit" PROVE FALSE
    <3>1. CASE phase = 2
      BY <2>2, <3>1 DEF IInv, Latched, Quitting, At
    <3>2. CASE \E i \in Jobs : At(i, "storing")
      <4>1. PICK i \in Jobs : At(i, "storing")
        BY <3>2
      <4>2. Quitting(i) /\ phase = 1 /\ i # j
        BY <4>1, <2>2 DEF IInv, StagesOfKinds, Latched, Quitting, At
      <4>3. Quitting(j)
        BY <2>2, <4>2 DEF Quitting, At
      <4> QED BY <4>2, <4>3 DEF IInv, Latched
    <3> QED BY <1>1, <3>1, <3>2
  <2> QED BY <2>1, <2>2 DEF Enters, GoesOn
<1>2. CASE Over
  <2>1. Returns(j) \/ Stores(j)
    BY <1>1, <1>2, <1>shape
  <2>2. tracked = {} /\ \A i \in Jobs : ~Inside(i)
    BY <1>2 DEF IInv, AllEnded
  <2>3. tracked' = {}
    BY <2>1, <2>2 DEF Returns, Stores, World
  <2>4. ~Inside(j)'
    BY <2>1 DEF Returns, Stores, Inside, Locked
  <2>5. \A i \in Jobs : ~Inside(i)'
    BY <2>2, <2>4, <1>others DEF Inside
  <2> QED BY <2>3, <2>5 DEF AllEnded
<1>3. ASSUME ~Over, phase' = 2 \/ \E i \in Jobs : At(i, "storing")'
      PROVE  tracked' = {} /\ \A i \in Jobs : ~Inside(i)'
  <2>1. At(j, "storing")'
    BY <1>3, <1>shape, <1>others DEF At, Enters, GoesOn, Returns, Stores
  <2>2. Returns(j) /\ At(j, "closing") /\ jobs[j].todo = {} /\ UNCHANGED World
    BY <2>1, <1>shape DEF Enters, GoesOn, Stores, Returns, At, Inside, Locked
  <2>3. tracked' = {}
    BY <2>2 DEF World, IInv, Knows, Closing, At
  <2>4. ~Inside(j)'
    BY <2>1 DEF At, Inside, Locked
  <2>5. \A i \in Jobs : i # j => ~Inside(i)
    BY <2>2 DEF IInv, LockHeld, At, Inside, Locked, Stages
  <2>6. \A i \in Jobs : ~Inside(i)'
    BY <2>4, <2>5, <1>others DEF Inside
  <2> QED BY <2>3, <2>6
<1> QED BY <1>2, <1>3 DEF AllEnded

\* A job outside leaves the browsers alone, so what the job inside knows stays.
LEMMA OthersKnow ==
  ASSUME IInv, NEW j \in Jobs, Step(j), NEW i \in Jobs, i # j
  PROVE  Knows(i)'
<1>1. jobs'[i] = jobs[i]
  BY OtherJobs DEF IInv
<1>2. CASE Inside(i)
  <2>1. lock = i /\ ~Inside(j) /\ lock # Free
    BY <1>2, AdapterAssumption DEF IInv, LockHeld
  <2>2. UNCHANGED World
    BY <2>1, StepShape DEF IInv, Enters, GoesOn, Returns, Stores
  <2> QED BY <1>1, <2>2 DEF IInv, World, Knows, At, Profile, Closing, Oldest
<1>3. CASE ~Inside(i)
  BY <1>1, <1>3 DEF Knows, Inside, Locked, Stages, Closing, At
<1> QED BY <1>2, <1>3

\* What the job inside knows follows its own steps.
LEMMA StepKnows ==
  ASSUME IInv, NEW j \in Jobs, Step(j)
  PROVE  Knows(j)'
<1> DEFINE Goal == Knows(j)'
<1>shape. /\ jobs'[j].kind = jobs[j].kind
          /\ Enters(j) \/ GoesOn(j) \/ Returns(j) \/ Stores(j)
  BY StepShape DEF IInv
<1>1. ASSUME ~GoesOn(j), ~Enters(j) PROVE Goal
  <2>1. jobs'[j].at \in {"storing", "unlatching", "done"}
    BY <1>1, <1>shape DEF Returns, Stores
  <2> QED BY <2>1 DEF Knows, At, Closing
<1>2. ASSUME Enters(j) PROVE Goal
  <2>1. jobs'[j].todo = Mine(j) /\ jobs'[j].profile = jobs[j].profile /\ jobs'[j].at = "settling"
    <3>1. Lock(j)
      BY <1>2 DEF Enters, Step, At, Settled, Drain, Drained, Recovered, SpawnFails, Opened,
           GiveUp, Closed, ChannelCloses, Ending, AllClosed, Clear, StorePhase, SettleEnded,
           SettleBad, SettleRunning, Recover, Spawn, Send, CloseEnded, Close
    <3>2. lock' = j /\ Free # j
      BY <1>2, AdapterAssumption DEF Enters
    <3> QED BY <3>1, <3>2, ReturnShape DEF IInv, TypeOK, Lock
  <2>2. tracked' = tracked
    BY <1>2 DEF Enters, World
  <2> QED BY <2>1, <2>2, <1>shape DEF Knows, At, Profile, Closing, Mine
<1>3. ASSUME GoesOn(j) PROVE Goal
  <2> USE ReturnOut, <1>3, <1>shape
      DEF GoesOn, IInv, Knows, Closing, TypeOK, At, Profile, World, browserVars
  <2>stays. \A told : ~Return(j, told)
    BY ReturnOut
  <2>1. CASE Settled(j)
    <3>1. /\ jobs'[j].at = IF jobs[j].kind = "clear" THEN "clearing" ELSE "recovering"
          /\ jobs'[j].profile = jobs[j].profile /\ tracked' = tracked
      BY <2>1 DEF Settled
    <3>2. jobs[j].kind = "clear" => jobs[j].profile \notin tracked
      BY <2>1 DEF Settled
    <3> QED BY <3>1, <3>2
  <2>2. CASE Drain(j)
    BY <2>2 DEF Drain
  <2>3. CASE Drained(j)
    BY <2>3 DEF Drained, Dealt
  <2>4. CASE Recovered(j)
    BY <2>4 DEF Recovered, Mine
  <2>5. CASE Opened(j)
    BY <2>5 DEF Opened
  <2>6. CASE Closed(j)
    <3>1. \/ UNCHANGED <<jobs, process>>
          \/ Goto(j, "ending") /\ UNCHANGED process
      BY <2>6, <2>stays DEF Closed
    <3>2. /\ At(j, "awaiting") /\ UNCHANGED <<tracked, guard>> /\ UNCHANGED process
          /\ jobs'[j].at \in {"awaiting", "ending"}
          /\ jobs'[j].todo = jobs[j].todo /\ jobs'[j].profile = jobs[j].profile
      BY <2>6, <3>1 DEF Closed, Goto
    <3> QED BY <3>2 DEF Oldest
  <2>7. CASE ChannelCloses(j)
    <3>1. /\ At(j, "awaiting") /\ UNCHANGED <<tracked, guard, process>>
          /\ jobs'[j].at = "ending"
          /\ jobs'[j].todo = jobs[j].todo /\ jobs'[j].profile = jobs[j].profile
      BY <2>7 DEF ChannelCloses, Goto
    <3> QED BY <3>1 DEF Oldest
  <2>8. CASE Ending(j)
    BY <2>8 DEF Ending, Dealt, Forget, Process
  <2>9. ASSUME NEW p \in Profiles, SettleEnded(j, p) PROVE Goal
    <3>1. /\ At(j, "settling") /\ tracked' = tracked \ {p}
          /\ jobs'[j].at = "settling" /\ jobs'[j].profile = jobs[j].profile
          /\ jobs'[j].todo = jobs[j].todo \ {p}
      BY <2>9 DEF SettleEnded, Dealt, Forget
    <3> QED BY <3>1
  <2>10. ASSUME NEW p \in Profiles, SettleRunning(j, p) PROVE Goal
    BY <2>10 DEF SettleRunning, Dealt
  <2>11. ASSUME NEW p \in Profiles, Recover(j, p) PROVE Goal
    BY <2>11 DEF Recover, Dealt
  <2>12. ASSUME NEW p \in Profiles, Spawn(j, p) PROVE Goal
    BY <2>12 DEF Spawn, Goto
  <2>13. ASSUME NEW p \in Profiles, Send(j, p) PROVE Goal
    BY <2>13 DEF Send, Goto
  <2>14. ASSUME NEW p \in Profiles, CloseEnded(j, p) PROVE Goal
    <3>1. At(j, "closing") /\ Forget(p) /\ Dealt(j, p, "closing")
      BY <2>14, <2>stays DEF CloseEnded
    <3>2. /\ tracked' = tracked \ {p} /\ jobs'[j].todo = jobs[j].todo \ {p}
          /\ jobs'[j].at = "closing"
          /\ \A q \in tracked' : process'[q] = process[q]
      BY <3>1 DEF Forget, Dealt
    <3> QED BY <3>1, <3>2
  <2>15. ASSUME NEW p \in Profiles, Close(j, p) PROVE Goal
    <3>1. /\ At(j, "closing") /\ p \in jobs[j].todo /\ Oldest(p, jobs[j].todo)
          /\ UNCHANGED <<tracked, guard>>
      BY <2>15 DEF Close
    <3>2. /\ jobs' = [jobs EXCEPT ![j].at = "awaiting", ![j].profile = p, ![j].back = "closing"]
             \/ jobs' = [jobs EXCEPT ![j].at = "ending", ![j].profile = p, ![j].back = "closing"]
          /\ process' = [process EXCEPT ![p].next = process[p].next + 1, ![p].opening = None]
      BY <2>15, <2>stays DEF Close
    <3>3. /\ jobs'[j].at \in {"awaiting", "ending"} /\ jobs'[j].profile = p
          /\ jobs'[j].todo = jobs[j].todo
      BY <3>2
    <3>4. \A q \in tracked : process'[q].uncertain = process[q].uncertain
      BY <3>2
    <3> QED BY <3>1, <3>3, <3>4 DEF Oldest
  <2>16. CASE Lock(j) \/ StorePhase(j)
    BY <2>16 DEF Lock, StorePhase, Inside, Locked
  <2>17. CASE SpawnFails(j) \/ GiveUp(j) \/ AllClosed(j) \/ Clear(j)
    BY <2>17 DEF SpawnFails, GiveUp, AllClosed, Clear
  <2>18. ASSUME NEW p \in Profiles, SettleBad(j, p) PROVE Goal
    BY <2>18 DEF SettleBad
  <2> QED BY <2>1, <2>2, <2>3, <2>4, <2>5, <2>6, <2>7, <2>8, <2>9, <2>10, <2>11, <2>12, <2>13,
        <2>14, <2>15, <2>16, <2>17, <2>18 DEF Step
<1> QED BY <1>1, <1>2, <1>3, <1>shape

-----------------------------------------------------------------------------
(* The other steps keep the invariant *)

\* Nothing has started.
LEMMA InitInvariant ==
  ASSUME Init
  PROVE  IInv
<1>1. PICK p \in Profiles, k \in Keys : jobs = [j \in Jobs |-> IdleJob(p, k)]
  BY DEF Init
<1>2. \A j \in Jobs : jobs[j] \in Job /\ jobs[j].at = "idle" /\ jobs[j].kind = "open"
  BY <1>1 DEF IdleJob, Job, Kinds, Stages, Told
<1>3. TypeOK
  BY <1>1, <1>2 DEF Init, TypeOK, Job, Process
<1>4. LockHeld /\ Latched /\ StagesOfKinds /\ AllEnded
  BY <1>2 DEF Init, LockHeld, Latched, StagesOfKinds, AllEnded, Inside, Locked, Quitting
<1>5. EndedGuards /\ LaunchOrder
  BY DEF Init, EndedGuards, LaunchOrder, On
<1>6. \A j \in Jobs : Knows(j)
  BY <1>2 DEF Knows, At, Closing
<1> QED BY <1>3, <1>4, <1>5, <1>6 DEF IInv

\* A step of any job.
LEMMA StepInvariant ==
  ASSUME IInv, NEW j \in Jobs, Step(j)
  PROVE  IInv'
<1>1. TypeOK'
  BY StepTypes DEF IInv
<1>2. \A i \in Jobs : Knows(i)'
  BY OthersKnow, StepKnows
<1> QED BY <1>1, <1>2, StepLock, StepLatched, StepStages, StepGuards, StepAllEnded DEF IInv

\* A call that begins holds nothing.  A quit begins only when none is under way.
LEMMA PersonInvariant ==
  ASSUME IInv, NEW j \in Jobs, Person(j)
  PROVE  IInv'
<1>1. /\ At(j, "idle") /\ jobs'[j].at \in {"waiting", "done"}
      /\ UNCHANGED World /\ UNCHANGED lock
  <2>1. CASE StartQuit(j)
    BY <2>1 DEF StartQuit, IInv, TypeOK
  <2>2. ASSUME NEW p \in Profiles, NEW k \in Keys, Start(j, p, k)
        PROVE  /\ At(j, "idle") /\ jobs'[j].at \in {"waiting", "done"}
               /\ UNCHANGED World /\ UNCHANGED lock
    BY <2>2 DEF Start, IInv, TypeOK, IdleJob
  <2> QED BY <2>1, <2>2 DEF Person
<1>2. /\ phase' \in {phase, 1} /\ (phase' # phase => phase = 0)
      /\ Quitting(j)' => phase = 0 /\ phase' = 1
  <2>1. CASE StartQuit(j)
    BY <2>1 DEF StartQuit, IInv, TypeOK, Quitting
  <2>2. ASSUME NEW p \in Profiles, NEW k \in Keys, Start(j, p, k)
        PROVE  phase' = phase /\ ~Quitting(j)'
    <3>1. jobs'[j].kind \in {"open", "clear"}
      BY <2>2 DEF Start, IInv, TypeOK, IdleJob
    <3> QED BY <2>2, <3>1 DEF Start, Quitting
  <2> QED BY <2>1, <2>2 DEF Person
<1>3. \A i \in Jobs : i # j => jobs'[i] = jobs[i]
  BY OtherJobs DEF IInv
<1>4. TypeOK'
  BY PersonTypes DEF IInv
<1>5. LockHeld' /\ StagesOfKinds'
  BY <1>1, <1>3 DEF IInv, LockHeld, StagesOfKinds, Inside, Locked
<1>6. Latched'
  <2>1. \A i \in Jobs : i # j /\ Quitting(i)' => Quitting(i) /\ phase = 1
    BY <1>3 DEF IInv, Latched, Quitting
  <2>2. \A i \in Jobs : Quitting(i)' => phase' = 1
    BY <1>2, <2>1
  <2>3. \A i, k \in Jobs : Quitting(i)' /\ Quitting(k)' => i = k
    <3>1. CASE Quitting(j)'
      BY <1>2, <2>1, <3>1
    <3>2. CASE ~Quitting(j)'
      BY <2>1, <3>2 DEF IInv, Latched
    <3> QED BY <3>1, <3>2
  <2> QED BY <2>2, <2>3 DEF Latched
<1>7. EndedGuards' /\ LaunchOrder'
  BY <1>1 DEF IInv, EndedGuards, LaunchOrder, World, browserVars, On
<1>8. \A i \in Jobs : Knows(i)'
  BY <1>1, <1>3 DEF IInv, Knows, Closing, At, Profile, World, Oldest
<1>9. AllEnded'
  BY <1>1, <1>2, <1>3 DEF IInv, AllEnded, Inside, Locked, At, World
<1> QED BY <1>4, <1>5, <1>6, <1>7, <1>8, <1>9 DEF IInv

\* The end of a guard.
LEMMA GuardInvariant ==
  ASSUME IInv, NEW p \in Profiles, GuardEnds(p)
  PROVE  IInv'
<1>1. PICK end \in {"normal", "forced", "abnormal"} :
         guard' = [guard EXCEPT ![p].state = end]
  BY DEF GuardEnds
<1>2. /\ guard[p].state = "running" /\ ~On(p)
      /\ UNCHANGED <<run, tracked, process, launches, phase, lock, jobs>>
  BY DEF GuardEnds, On
<1>3. \A q \in Profiles : /\ guard'[q].order = guard[q].order
                          /\ q # p => guard'[q] = guard[q]
                          /\ guard'[p].state = end
  BY <1>1 DEF IInv, TypeOK
<1>4. p \in tracked
  BY <1>2 DEF IInv, EndedGuards
<1>5. TypeOK'
  BY GuardTypes DEF IInv
<1>6. LockHeld' /\ Latched' /\ StagesOfKinds' /\ AllEnded'
  BY <1>2 DEF IInv, LockHeld, Latched, StagesOfKinds, AllEnded, Inside, Quitting, At
<1>7. EndedGuards' /\ LaunchOrder'
  BY <1>2, <1>3, <1>4 DEF IInv, EndedGuards, LaunchOrder, On
<1>8. \A i \in Jobs : Knows(i)'
  BY <1>2, <1>3 DEF IInv, TypeOK, Knows, Closing, At, Profile, Oldest
<1> QED BY <1>5, <1>6, <1>7, <1>8 DEF IInv

\* A step of a browser or of the person using it.
LEMMA NativeInvariant ==
  ASSUME IInv, NEW p \in Profiles, Native(p), UNCHANGED adapterVars
  PROVE  IInv'
<1>1. /\ run' \in [Profiles -> {"off", "on", "left", "dead"}]
      /\ \A q \in Profiles : run'[q] = "on" => run[q] = "on"
  BY NativeKeeps DEF IInv
<1>2. UNCHANGED <<tracked, process, guard, launches, phase, lock, jobs>>
  BY DEF adapterVars
<1>3. TypeOK' /\ EndedGuards' /\ LaunchOrder'
  BY <1>1, <1>2 DEF IInv, TypeOK, EndedGuards, LaunchOrder, On
<1>4. LockHeld' /\ Latched' /\ StagesOfKinds' /\ AllEnded'
  BY <1>2 DEF IInv, LockHeld, Latched, StagesOfKinds, AllEnded, Inside, Quitting, At
<1>5. \A i \in Jobs : Knows(i)'
  BY <1>2 DEF IInv, Knows, Closing, At, Profile, Oldest
<1> QED BY <1>3, <1>4, <1>5 DEF IInv

\* A stuttering step.
LEMMA StutterInvariant ==
  ASSUME IInv, UNCHANGED vars
  PROVE  IInv'
<1>1. UNCHANGED <<run, tracked, process, guard, launches, phase, lock, jobs>>
  BY DEF vars, browserVars, adapterVars
<1>2. TypeOK' /\ EndedGuards' /\ LaunchOrder'
  BY <1>1 DEF IInv, TypeOK, EndedGuards, LaunchOrder, On
<1>3. LockHeld' /\ Latched' /\ StagesOfKinds' /\ AllEnded'
  BY <1>1 DEF IInv, LockHeld, Latched, StagesOfKinds, AllEnded, Inside, Quitting, At
<1>4. \A i \in Jobs : Knows(i)'
  BY <1>1 DEF IInv, Knows, Closing, At, Profile, Oldest
<1> QED BY <1>2, <1>3, <1>4 DEF IInv

-----------------------------------------------------------------------------
(* The theorems *)

\* The strengthening holds in every reachable state.
THEOREM AdapterInvariance == Spec => []IInv
<1>1. Init => IInv
  BY InitInvariant
<1>2. IInv /\ [Next]_vars => IInv'
  <2> SUFFICES ASSUME IInv, [Next]_vars PROVE IInv'
    OBVIOUS
  <2>1. CASE \E j \in Jobs : Step(j) \/ Person(j)
    BY <2>1, StepInvariant, PersonInvariant
  <2>2. CASE \E p \in Profiles : (Native(p) /\ UNCHANGED adapterVars) \/ GuardEnds(p)
    BY <2>2, NativeInvariant, GuardInvariant
  <2>3. CASE UNCHANGED vars
    BY <2>3, StutterInvariant
  <2> QED BY <2>1, <2>2, <2>3 DEF Next
<1> QED BY <1>1, <1>2, PTL DEF Spec

\* Every variable has its type, for any profiles, keys, jobs and limits.
THEOREM AdapterTypes == Spec => []TypeOK
<1>1. IInv => TypeOK
  BY DEF IInv
<1> QED BY <1>1, AdapterInvariance, PTL

\* The exit phase says finished only when every browser ended normally and no
\* job can start another, however open, clear and quit interleave.
THEOREM FinishedIsEnded == Spec => []FinishedMeansEnded
<1>1. IInv => FinishedMeansEnded
  BY DEF IInv, AllEnded, EndedGuards, FinishedMeansEnded
<1> QED BY <1>1, AdapterInvariance, PTL

\* A profile's data is cleared only while no browser of it lives.
THEOREM ClearIsAlone == Spec => []ClearsAlone
<1>1. IInv => ClearsAlone
  BY DEF IInv, TypeOK, EndedGuards, Knows, ClearsAlone, At, Profile
<1> QED BY <1>1, AdapterInvariance, PTL

\* A quit asks the browsers oldest first, and never goes on past one in doubt.
THEOREM OrderlyQuit == Spec => []QuitIsOrderly
<1>1. IInv => QuitIsOrderly
  BY DEF IInv, Knows, Closing, QuitIsOrderly, Oldest, At, Profile
<1> QED BY <1>1, AdapterInvariance, PTL

-----------------------------------------------------------------------------
(* The profiles' browsers are leases *)

Leases == [p \in Profiles |-> IF guard[p].state = "running" THEN guard[p].order
                              ELSE IF Bad(p) THEN 0 - 1 ELSE 0]

\* A job's step gives a free profile to a new launch, or leaves the leases.
LEMMA StepLeases ==
  ASSUME IInv, NEW j \in Jobs, Step(j)
  PROVE  Lease!Next \/ Leases' = Leases
<1>1. CASE guard' = guard
  BY <1>1 DEF Leases, Bad
<1>2. ASSUME NEW p \in Profiles, Starts(j, p)
      PROVE  Lease!Take(p)
  <2>1. /\ guard[p].state \in {"none", "normal"}
        /\ launches + 1 \in Nat \ {0}
        /\ \A q \in Profiles : guard[q].order \in Nat /\ guard[q].order < launches + 1
    BY <1>2 DEF Starts, IInv, TypeOK, Knows, EndedGuards, LaunchOrder, At
  <2>2. /\ guard'[p] = [state |-> "running", order |-> launches + 1]
        /\ \A q \in Profiles : q # p => guard'[q] = guard[q]
    BY <1>2 DEF Starts, IInv, TypeOK
  <2>3. Leases[p] = 0 /\ Leases'[p] = launches + 1
    BY <2>1, <2>2 DEF Leases, Bad
  <2>4. \A q \in Profiles : Leases[q] < launches + 1
    BY <2>1 DEF Leases
  <2>5. Leases' = [Leases EXCEPT ![p] = launches + 1]
    <3>1. \A q \in Profiles : q # p => Leases'[q] = Leases[q]
      BY <2>2 DEF Leases, Bad
    <3>2. Leases' = [q \in Profiles |-> Leases'[q]] /\ Leases = [q \in Profiles |-> Leases[q]]
      BY DEF Leases
    <3> QED BY <2>3, <3>1, <3>2
  <2> QED BY <2>1, <2>3, <2>4, <2>5 DEF Lease!Take, Lease!Vacant, Leases
<1> QED BY <1>1, <1>2, StepWorld DEF Lease!Next, Quiet, Drops, IInv

\* A guard's end ends the lease: freed after a normal end, kept after any other.
LEMMA GuardLeases ==
  ASSUME IInv, NEW p \in Profiles, GuardEnds(p)
  PROVE  Lease!End(p)
<1>1. PICK end \in {"normal", "forced", "abnormal"} :
         guard' = [guard EXCEPT ![p].state = end]
  BY DEF GuardEnds
<1>2. guard[p].state = "running" /\ guard[p].order > 0
  BY DEF GuardEnds, IInv, LaunchOrder
<1>3. \A q \in Profiles : /\ q # p => guard'[q] = guard[q]
                          /\ guard'[p].state = end
  BY <1>1 DEF IInv, TypeOK
<1>4. Leases[p] > 0
  BY <1>2 DEF Leases
<1>5. Leases' = [Leases EXCEPT ![p] = IF end = "normal" THEN 0 ELSE 0 - 1]
  BY <1>2, <1>3 DEF Leases, Bad
<1> QED BY <1>4, <1>5 DEF Lease!End, Lease!Vacant, Lease!Kept, Leases

\* Whatever the App, the person and the browsers do, a profile's data passes
\* from one launch to a later one only after the first ended normally, and is
\* kept after any other end: the adapter implements ProfileLease.
THEOREM ImplementsLeases == Spec => LeasesProfiles
<1>1. Init => Lease!Init
  BY DEF Init, Lease!Init, Lease!Vacant, Bad
<1>2. IInv /\ [Next]_vars => [Lease!Next]_Leases
  <2> SUFFICES ASSUME IInv, [Next]_vars PROVE Lease!Next \/ Leases' = Leases
    OBVIOUS
  <2>1. ASSUME NEW j \in Jobs, Step(j) PROVE Lease!Next \/ Leases' = Leases
    BY <2>1, StepLeases
  <2>2. ASSUME NEW j \in Jobs, Person(j) PROVE Leases' = Leases
    BY <2>2 DEF Person, Start, StartQuit, World, Leases, Bad
  <2>3. ASSUME NEW p \in Profiles, UNCHANGED adapterVars PROVE Leases' = Leases
    BY <2>3 DEF adapterVars, Leases, Bad
  <2>4. ASSUME NEW p \in Profiles, GuardEnds(p) PROVE Lease!Next
    BY <2>4, GuardLeases DEF Lease!Next
  <2>5. CASE UNCHANGED vars
    BY <2>5 DEF vars, adapterVars, Leases, Bad
  <2> QED BY <2>1, <2>2, <2>3, <2>4, <2>5 DEF Next
<1> QED BY <1>1, <1>2, AdapterInvariance, PTL DEF Spec, LeasesProfiles, Lease!Spec, Leases

-----------------------------------------------------------------------------
(* The conversation of the adapter and a browser *)

\* The types of a browser under the adapter: it never loses its parent, for the
\* adapter closes its end only after the browser has said that it stops.
Window   == [id : Nat, key : Keys \cup {Popup},
             watch : {"idle", "pending", "ready", "failed", "missed"}, forced : BOOLEAN]
Request  == [op : {"open", "shutdown"}, id : Nat, key : Keys \cup {None}]
Creation == [id : Nat, key : Keys]
Reply    == [event : {"opened", "error", "cancelled", "closeBlocked", "stopped"},
             id : Nat, key : Keys \cup {None}]
Browser  == [boot : Keys \cup {None}, context : BOOLEAN, windows : Seq(Window),
             creating : SUBSET Creation, lastId : Nat, shutdown : Nat \cup {NoId}, chain : Nat,
             failed : {FALSE}, quitting : BOOLEAN, born : Nat, tasks : Seq(Request), ended : {FALSE}]

\* The windows of a browser b: one of each screen, and none of the screen that is
\* being created; a browser that quits has none and creates none.
Screens(b) ==
    /\ \A i, k \in DOMAIN b.windows :
          b.windows[i].key = b.windows[k].key /\ b.windows[i].key \in Keys => i = k
    /\ b.creating = {} \/ \E c \in Creation : b.creating = {c}
    /\ \A c \in b.creating, i \in DOMAIN b.windows : b.windows[i].key # c.key
    /\ b.boot # None => b.windows = <<>>
    /\ b.quitting => b.windows = <<>> /\ b.boot = None /\ b.creating = {}
    /\ Len(b.windows) <= b.born

Fine(b) == b \in Browser /\ Screens(b)

\* With `next` the last id the adapter used and `opening` the screen it asked for,
\* if any: what it asked last, and what may answer it.
Asked(a, next, opening) ==
    /\ a.id = next
    /\ IF opening = None THEN a.op = "shutdown" ELSE a.op = "open" /\ a.key = opening
Answers(a, next, opening) ==
    /\ a.id = next
    /\ IF opening = None THEN a.event # "opened"
       ELSE a.event = "error" \/ (a.event = "opened" /\ a.key = opening)

\* Where the last request is: in the pipe, a task, the boot's, a creation, a recorded
\* shutdown, answered (by a browser whose guard may be over: state), or nowhere any more.
NoWork(b) == b.tasks = <<>> /\ b.boot = None /\ b.creating = {}
InPipe(b, q, r, next, opening) ==
    /\ NoWork(b) /\ b.shutdown = NoId /\ b.lastId < next /\ r = <<>>
    /\ \E a \in Request : q = <<a>> /\ Asked(a, next, opening)
InTasks(b, q, r, next, opening) ==
    /\ b.boot = None /\ b.creating = {} /\ b.shutdown = NoId /\ b.lastId < next
    /\ q = <<>> /\ r = <<>>
    /\ \E a \in Request : b.tasks = <<a>> /\ Asked(a, next, opening)
InBoot(b, q, r, next, opening) ==
    /\ b.boot # None /\ b.boot = opening /\ next = 1 /\ b.lastId = 0
    /\ b.tasks = <<>> /\ b.creating = {} /\ b.shutdown = NoId /\ q = <<>> /\ r = <<>>
InMaking(b, q, r, next, opening) ==
    /\ opening \in Keys /\ b.creating = {[id |-> next, key |-> opening]}
    /\ b.tasks = <<>> /\ b.boot = None /\ b.shutdown = NoId /\ q = <<>> /\ r = <<>>
InShutdown(b, q, r, next, opening) ==
    /\ opening = None /\ b.shutdown = next /\ NoWork(b) /\ q = <<>> /\ r = <<>>
InAnswer(b, q, r, next, opening, state) ==
    /\ NoWork(b) /\ q = <<>>
    /\ \E a \in Reply :
          /\ r = <<a>> /\ Answers(a, next, opening)
          /\ b.shutdown = NoId \/ (b.shutdown = next /\ b.quitting /\ a.event = "stopped")
          /\ a.event = "stopped" => b.quitting \/ state # "running"
Silent(b, q, r) == NoWork(b) /\ b.shutdown = NoId /\ q = <<>> /\ r = <<>>

Conversation(b, q, r, next, opening, state) ==
    /\ b.lastId <= next
    /\ \/ InPipe(b, q, r, next, opening)
       \/ InTasks(b, q, r, next, opening)
       \/ InBoot(b, q, r, next, opening)
       \/ InMaking(b, q, r, next, opening)
       \/ InShutdown(b, q, r, next, opening)
       \/ InAnswer(b, q, r, next, opening, state)
       \/ Silent(b, q, r)

\* A browser that has its context, or will make it first for its boot.
Prepared(b) == b.boot # None \/ b.context

\* A browser that creates a window has a place for it.
Fits(b) == b.creating # {} => Len(b.windows) < MaxScreens

-----------------------------------------------------------------------------
(* The invariant *)

Over(p) == guard[p].state # "running"
\* The screen the last request asked for: also one whose write timed out and went on.
Wanted(p) == IF process[p].late # None THEN process[p].late ELSE process[p].opening
Talk(p) ==
    /\ process[p].late # None => process[p].uncertain
    /\ On(p) => Prepared(browser[p])
    /\ Fine(browser[p]) /\ requests[p] \in Seq(Request) /\ replies[p] \in Seq(Reply)
    /\ Conversation(browser[p], requests[p], replies[p],
                    process[p].next, Wanted(p), guard[p].state)
    /\ Over(p) => browser[p] = NewBrowser(None) /\ requests[p] = <<>>
    /\ On(p) /\ ~input[p] => browser[p].quitting

\* A browser that is not in doubt and that nobody waits for has nothing under way.
Certain == \A p \in tracked : ~process[p].uncertain /\ ~Waiting(p)
                                 => Silent(browser[p], requests[p], replies[p])

\* What the holder of the lock waits for.
Awaits(j) ==
    LET p == Profile(j)
    IN  /\ Inside(j) => jobs[j].todo \subseteq tracked
        /\ jobs[j].at \in {"draining", "sending", "opening", "awaiting", "ending"} => p \in tracked
        /\ jobs[j].at \in {"sending", "opening", "awaiting"} => ~process[p].uncertain
        /\ At(j, "opening") => process[p].opening # None
        /\ At(j, "awaiting") => process[p].opening = None
        /\ At(j, "ending") => ~On(p) \/ browser[p].quitting

TalkInv == /\ browser \in [Profiles -> Browser] /\ requests \in [Profiles -> Seq(Request)]
           /\ replies \in [Profiles -> Seq(Reply)] /\ input \in [Profiles -> BOOLEAN]
           /\ (\A p \in Profiles : Talk(p)) /\ Certain /\ (\A j \in Jobs : Awaits(j))

\* Why the browser of p may still be in doubt.
Reason(p) == \/ ~On(p) \/ browser[p].quitting
             \/ ~Silent(browser[p], requests[p], replies[p])
             \/ browser[p].lastId < process[p].next
             \/ process[p].late # None
Doubted == /\ \A p \in Profiles : Fits(browser[p])
           /\ \A p \in tracked : process[p].uncertain \/ Waiting(p) => Reason(p)

-----------------------------------------------------------------------------
(* What the browser's handlers do *)

\* A browser b, and the replies o it has written so far.
Eff(b, o) == [b |-> b, out |-> o]

\* Browsers with the same work, and the same browsers but for how their windows
\* are watched and which of them is asked.
Rest(b, c) == /\ c.boot = b.boot /\ c.creating = b.creating /\ c.lastId = b.lastId
              /\ c.tasks = b.tasks /\ c.born = b.born /\ c.context = b.context
Same(b, c) == /\ Fine(c) /\ Rest(b, c) /\ c.quitting = b.quitting /\ c.shutdown = b.shutdown
              /\ Len(c.windows) = Len(b.windows)

\* What becomes of a recorded shutdown: nothing yet, or it is refused; or (Ends)
\* the browser stops.
Refused(b, f) == /\ b.shutdown # NoId /\ f.b.shutdown = NoId
                 /\ \E event \in {"error", "cancelled"} :
                       f.out = <<Says(event, b.shutdown, None)>>
Asks(b, f) == /\ f = Eff(f.b, f.out) /\ Fine(f.b) /\ Rest(b, f.b)
              /\ f.b.quitting = b.quitting /\ Len(f.b.windows) <= Len(b.windows)
              /\ \/ f.out = <<>> /\ f.b.shutdown = b.shutdown
                 \/ Refused(b, f)
Ends(b, f) == /\ Fine(f.b) /\ Rest(b, f.b)
              /\ b.quitting => f.b.quitting
              /\ Len(f.b.windows) <= Len(b.windows)
              /\ \/ f.out = <<>> /\ f.b.shutdown = b.shutdown
                 \/ Refused(b, f)
                 \/ /\ b.shutdown # NoId /\ f.b.shutdown = b.shutdown /\ f.b.quitting
                    /\ f.out = <<Says("stopped", b.shutdown, None)>>

\* An effect and its parts.
LEMMA EffParts ==
  ASSUME NEW b, NEW o
  PROVE  Effect(b) = Eff(b, <<>>) /\ Eff(b, o).b = b /\ Eff(b, o).out = o
  BY DEF Effect, Eff

\* Answering appends a reply.
LEMMA EffAnswer ==
  ASSUME NEW b, NEW o, NEW event, NEW id, NEW key
  PROVE  Answer(Eff(b, o), event, id, key) = Eff(b, Append(o, Says(event, id, key)))
  BY DEF Answer, Eff

\* Changing one field of a browser leaves the others.
LEMMA WindowsSet ==
  ASSUME NEW b \in Browser, NEW w \in Seq(Window)
  PROVE  LET c == [b EXCEPT !.windows = w]
         IN  /\ c \in Browser /\ c.windows = w /\ Rest(b, c) /\ c.shutdown = b.shutdown
             /\ c.quitting = b.quitting
<1> HIDE DEF Window, Request, Creation
<1> QED BY DEF Browser, Rest

\* The stages of a stop: its id is recorded, the asked window noted, the end noted.
LEMMA ShutdownSet ==
  ASSUME NEW b, Fine(b), NEW id \in Nat \cup {NoId}
  PROVE  LET c == [b EXCEPT !.shutdown = id]
         IN  /\ Fine(c) /\ Rest(b, c) /\ c.shutdown = id /\ c.windows = b.windows
             /\ c.quitting = b.quitting
<1> HIDE DEF Window, Request, Creation
<1> QED BY DEF Fine, Screens, Browser, Rest

\* Changing the window that is being closed leaves the windows.
LEMMA ChainSet ==
  ASSUME NEW b, Fine(b), NEW id \in Nat
  PROVE  LET c == [b EXCEPT !.chain = id]
         IN  Same(b, c) /\ c.windows = b.windows
<1> HIDE DEF Window, Request, Creation
<1> QED BY DEF Fine, Screens, Browser, Rest, Same

\* A browser with no window and no creation may quit.
LEMMA QuittingSet ==
  ASSUME NEW b, Fine(b), b.windows = <<>>, b.boot = None, b.creating = {}
  PROVE  LET c == [b EXCEPT !.quitting = TRUE]
         IN  Fine(c) /\ Rest(b, c) /\ c.shutdown = b.shutdown /\ c.quitting /\ c.windows = <<>>
<1> DEFINE c == [b EXCEPT !.quitting = TRUE]
<1> HIDE DEF Window, Request, Creation
<1>1. /\ c \in Browser /\ Rest(b, c) /\ c.shutdown = b.shutdown /\ c.windows = b.windows
  BY DEF Fine, Browser, Rest
<1>2. c.quitting
  BY DEF Fine, Browser
<1>3. Screens(c)
  BY <1>1 DEF Fine, Screens, Rest
<1> QED BY <1>1, <1>2, <1>3 DEF Fine

\* How a window is watched changes nothing else.
LEMMA WatchSet ==
  ASSUME NEW b, Fine(b), NEW i, NEW s \in {"idle", "pending", "ready", "failed", "missed"}
  PROVE  Same(b, [b EXCEPT !.windows[i].watch = s])
<1> DEFINE w == b.windows
           v == [w EXCEPT ![i].watch = s]
<1>0. b \in Browser /\ w \in Seq(Window) /\ Screens(b)
  BY DEF Fine, Browser
<1>1. v \in Seq(Window) /\ Len(v) = Len(w) /\ \A k \in 1..Len(w) : v[k].key = w[k].key
  <2>1. CASE i \in DOMAIN w
    <3>1. w[i] \in Window
      BY <1>0, <2>1
    <3>2. [w[i] EXCEPT !.watch = s] \in Window /\ [w[i] EXCEPT !.watch = s].key = w[i].key
      BY <3>1 DEF Window
    <3>3. v = [w EXCEPT ![i] = [w[i] EXCEPT !.watch = s]]
      OBVIOUS
    <3> DEFINE x == [w[i] EXCEPT !.watch = s]
    <3> HIDE DEF x, w, v, Window
    <3> QED BY <1>0, <2>1, <3>1, <3>2, <3>3 DEF x
  <2>2. CASE i \notin DOMAIN w
    <3>1. v = w
      BY <1>0, <2>2
    <3> HIDE DEF w, v, Window
    <3> QED BY <1>0, <3>1
  <2> QED BY <2>1, <2>2
<1>2. [b EXCEPT !.windows[i].watch = s] = [b EXCEPT !.windows = v]
  BY <1>0 DEF Browser
<1> DEFINE c == [b EXCEPT !.windows = v]
<1> HIDE DEF w, v, Window
<1>3. /\ c \in Browser /\ c.windows = v /\ Rest(b, c) /\ c.shutdown = b.shutdown
      /\ c.quitting = b.quitting
  BY <1>0, <1>1, WindowsSet
<1> HIDE DEF c
<1>4. Screens(c)
  <2>1. DOMAIN w = 1..Len(w) /\ DOMAIN v = 1..Len(w) /\ w = b.windows
    BY <1>0, <1>1 DEF w
  <2>2. w = <<>> => v = <<>>
    BY <1>0, <1>1
  <2> QED BY <1>0, <1>1, <1>3, <2>1, <2>2 DEF Screens, Rest
<1>5. Same(b, c)
  BY <1>1, <1>3, <1>4 DEF Same, Fine, w
<1> QED BY <1>2, <1>5 DEF c

\* What the handlers on an effect with nothing said yet can do.
LEMMA NothingAsked ==
  ASSUME NEW b, Fine(b)
  PROVE  Asks(b, Eff(b, <<>>))
<1>1. Len(b.windows) \in Nat
  BY DEF Fine, Browser
<1>2. Eff(b, <<>>).b = b /\ Eff(b, <<>>).out = <<>>
  BY EffParts
<1> QED BY <1>1, <1>2 DEF Asks, Rest

\* A shutdown is given up.
LEMMA GivenUp ==
  ASSUME NEW b, Fine(b), b.shutdown # NoId, NEW event \in {"error", "cancelled"}
  PROVE  Asks(b, Answer(Eff([b EXCEPT !.shutdown = NoId], <<>>), event, b.shutdown, None))
<1> DEFINE c == [b EXCEPT !.shutdown = NoId]
           f == Answer(Eff(c, <<>>), event, b.shutdown, None)
<1>1. Fine(c) /\ Rest(b, c) /\ c.shutdown = NoId /\ c.windows = b.windows /\ c.quitting = b.quitting
  BY ShutdownSet
<1> HIDE DEF c
<1>2. f = Eff(c, Append(<<>>, Says(event, b.shutdown, None)))
  BY DEF Answer, Eff
<1>3. Append(<<>>, Says(event, b.shutdown, None)) = <<Says(event, b.shutdown, None)>>
  OBVIOUS
<1> HIDE DEF f
<1>4. f.b = c /\ f.out = <<Says(event, b.shutdown, None)>>
  BY <1>2, <1>3, EffParts
<1>5. f = Eff(f.b, f.out)
  BY <1>2, <1>3, <1>4
<1>6. Len(b.windows) \in Nat
  BY DEF Fine, Browser
<1>7. Refused(b, f)
  BY <1>1, <1>4 DEF Refused
<1>8. Len(f.b.windows) <= Len(b.windows) /\ f.b.quitting = b.quitting
  BY <1>1, <1>4, <1>6
<1>9. Asks(b, f)
  BY <1>1, <1>4, <1>5, <1>7, <1>8 DEF Asks
<1> QED BY <1>9 DEF f, c

\* What follows a stage that changed nothing but the windows' watch.
LEMMA SameAsks ==
  ASSUME NEW b, NEW c, NEW f, Same(b, c), Asks(c, f)
  PROVE  Asks(b, f)
  BY DEF Asks, Same, Rest, Refused

\* A close that cannot be observed refuses a recorded shutdown.
LEMMA CloseUnavailableAsks ==
  ASSUME NEW b, Fine(b)
  PROVE  Asks(b, CloseUnavailable(Eff(b, <<>>)))
<1>1. Eff(b, <<>>).b = b
  BY EffParts
<1>2. [Eff(b, <<>>) EXCEPT !.b.shutdown = NoId] = Eff([b EXCEPT !.shutdown = NoId], <<>>)
  BY DEF Eff
<1>3. CASE b.shutdown = NoId
  BY <1>1, <1>3, NothingAsked DEF CloseUnavailable
<1>4. CASE b.shutdown # NoId
  <2>1. CloseUnavailable(Eff(b, <<>>))
          = Answer(Eff([b EXCEPT !.shutdown = NoId], <<>>), "error", b.shutdown, None)
    BY <1>1, <1>2, <1>4 DEF CloseUnavailable
  <2>2. Asks(b, Answer(Eff([b EXCEPT !.shutdown = NoId], <<>>), "error", b.shutdown, None))
    BY <1>4, GivenUp
  <2> QED BY <2>1, <2>2
<1> QED BY <1>3, <1>4

\* Asking a window to close watches it, or refuses the shutdown.
LEMMA RequestCloseAsks ==
  ASSUME NEW b, Fine(b), NEW id
  PROVE  Asks(b, RequestClose(Eff(b, <<>>), id))
<1> DEFINE i == Place(b.windows, id)
           f == RequestClose(Eff(b, <<>>), id)
           w == [b EXCEPT !.windows[i].watch = "pending"]
           x == [b EXCEPT !.windows[i].watch = "ready"]
<1> HIDE DEF i
<1>0. Eff(b, <<>>).b = b
  BY EffParts
<1>1. /\ [Eff(b, <<>>) EXCEPT !.b.windows[i].watch = "pending"] = Eff(w, <<>>)
      /\ [Eff(b, <<>>) EXCEPT !.b.windows[i].watch = "ready"] = Eff(x, <<>>)
  <2>1. ASSUME NEW v
        PROVE  [Eff(b, <<>>) EXCEPT !.b.windows[i].watch = v]
                 = Eff([b EXCEPT !.windows[i].watch = v], <<>>)
    BY DEF Eff
  <2> QED BY <2>1
<1>2. \/ f = Eff(b, <<>>) \/ f = Eff(w, <<>>) \/ f = Eff(x, <<>>)
      \/ f = CloseUnavailable(Eff(b, <<>>))
  <2> HIDE DEF w, x
  <2> QED BY <1>0, <1>1 DEF RequestClose, i
<1>3. Same(b, w) /\ Same(b, x)
  BY WatchSet
<1>4. Asks(b, Eff(w, <<>>)) /\ Asks(b, Eff(x, <<>>))
  <2> HIDE DEF w, x
  <2> QED BY <1>3, NothingAsked, SameAsks DEF Same
<1> HIDE DEF f, w, x
<1> QED BY <1>2, <1>4, NothingAsked, CloseUnavailableAsks DEF f

\* Nothing is pending exactly when nothing is created, at the boot or later.
LEMMA NoPending ==
  ASSUME NEW b, Fine(b)
  PROVE  Pending(b) \in Nat /\ (Pending(b) = 0 <=> b.creating = {} /\ b.boot = None)
<1>1. Cardinality(b.creating) \in Nat /\ (Cardinality(b.creating) = 0 <=> b.creating = {})
  <2>1. CASE b.creating = {}
    BY <2>1, FS_EmptySet
  <2>2. ASSUME NEW c, b.creating = {c}
        PROVE  Cardinality(b.creating) = 1
    BY <2>2, FS_Singleton
  <2>3. b.creating = {} \/ \E c \in Creation : b.creating = {c}
    BY DEF Fine, Screens
  <2> QED BY <2>1, <2>2, <2>3
<1> QED BY <1>1 DEF Pending

\* A browser without windows or creations quits.
LEMMA MaybeQuitEnds ==
  ASSUME NEW b, NEW f, Asks(b, f)
  PROVE  Ends(b, MaybeQuit(f))
<1> DEFINE c == f.b
           o == f.out
<1>0. f = Eff(c, o)
  BY DEF Asks
<1> HIDE DEF c, o
<1> DEFINE g == MaybeQuit(f)
           d == [c EXCEPT !.quitting = TRUE]
<1>1. Fine(c) /\ Rest(b, c) /\ c.quitting = b.quitting /\ Len(c.windows) <= Len(b.windows)
  BY DEF Asks, c
<1>2. \/ o = <<>> /\ c.shutdown = b.shutdown
      \/ Refused(b, f)
  BY DEF Asks, c, o
<1>3. \/ g = f
      \/ /\ c.windows = <<>> /\ Pending(c) = 0
         /\ \/ c.shutdown = NoId /\ g = Eff(d, o)
            \/ c.shutdown # NoId /\ g = Eff(d, Append(o, Says("stopped", d.shutdown, None)))
  <2>1. f.b = c /\ Eff(d, o).b = d
    BY <1>0, EffParts
  <2>4. [f EXCEPT !.b.quitting = TRUE] = Eff(d, o)
    <3>1. [Eff(c, o) EXCEPT !.b.quitting = TRUE] = Eff(d, o)
      <4> DEFINE v == TRUE
      <4> HIDE DEF v
      <4>1. [Eff(c, o) EXCEPT !.b.quitting = v] = Eff([c EXCEPT !.quitting = v], o)
        BY DEF Eff
      <4> QED BY <4>1 DEF v
    <3> HIDE DEF d
    <3> QED BY <1>0, <3>1
  <2>2. c.shutdown = d.shutdown
    BY <1>1 DEF Fine, Browser
  <2>3. Answer(Eff(d, o), "stopped", d.shutdown, None)
          = Eff(d, Append(o, Says("stopped", d.shutdown, None)))
    BY EffAnswer
  <2> HIDE DEF d
  <2> QED BY <2>1, <2>2, <2>3, <2>4 DEF MaybeQuit
<1> SUFFICES Ends(b, g)
  OBVIOUS
<1> HIDE DEF g, d
<1>4. CASE g = f
  <2>1. f.b = c /\ f.out = o
    BY DEF c, o
  <2> QED BY <1>1, <1>2, <1>4, <2>1 DEF Ends
<1>5. ASSUME c.windows = <<>>, Pending(c) = 0
      PROVE  /\ Fine(d) /\ Rest(b, d) /\ d.quitting /\ d.shutdown = c.shutdown
             /\ Len(d.windows) <= Len(b.windows)
  <2>1. c.creating = {} /\ c.boot = None
    BY <1>1, <1>5, NoPending
  <2>2. Fine(d) /\ Rest(c, d) /\ d.shutdown = c.shutdown /\ d.quitting /\ d.windows = <<>>
    BY <1>1, <1>5, <2>1, QuittingSet DEF d
  <2> QED BY <1>1, <1>5, <2>2 DEF Rest
<1>6. CASE c.windows = <<>> /\ Pending(c) = 0 /\ c.shutdown = NoId /\ g = Eff(d, o)
  <2>1. g.b = d /\ g.out = o
    BY <1>6, EffParts
  <2>2. (o = <<>> /\ d.shutdown = b.shutdown) \/ Refused(b, g)
    BY <1>2, <1>5, <1>6, <2>1 DEF Refused, o
  <2>3. /\ Fine(g.b) /\ Rest(b, g.b) /\ Len(g.b.windows) <= Len(b.windows) /\ g.b.quitting
        /\ g.b.shutdown = d.shutdown
    BY <1>5, <1>6, <2>1
  <2> QED BY <2>1, <2>2, <2>3 DEF Ends
<1>7. CASE /\ c.windows = <<>> /\ Pending(c) = 0 /\ c.shutdown # NoId
           /\ g = Eff(d, Append(o, Says("stopped", d.shutdown, None)))
  <2>1. o = <<>> /\ c.shutdown = b.shutdown
    BY <1>2, <1>7 DEF Refused, c
  <2>2. g.b = d /\ g.out = <<Says("stopped", b.shutdown, None)>>
    <3>1. Append(o, Says("stopped", d.shutdown, None)) = <<Says("stopped", b.shutdown, None)>>
      BY <1>5, <1>7, <2>1
    <3> QED BY <1>7, <3>1, EffParts
  <2>3. b.shutdown # NoId /\ g.b.shutdown = b.shutdown /\ g.b.quitting
    BY <1>5, <1>7, <2>1, <2>2
  <2>4. Fine(g.b) /\ Rest(b, g.b) /\ Len(g.b.windows) <= Len(b.windows)
    BY <1>5, <1>7, <2>2
  <2> QED BY <2>2, <2>3, <2>4 DEF Ends
<1> QED BY <1>3, <1>4, <1>6, <1>7

\* The shutdown goes on with the next window, or refuses.
LEMMA NextToCloseAsks ==
  ASSUME NEW b, Fine(b), NEW closed
  PROVE  Asks(b, NextToClose(Eff(b, <<>>), closed))
<1> DEFINE next == IF b.windows = <<>> THEN 0 ELSE Head(b.windows).id
           c == [b EXCEPT !.chain = next]
           f == NextToClose(Eff(b, <<>>), closed)
<1>1. next \in Nat
  <2>1. b.windows \in Seq(Window)
    BY DEF Fine, Browser
  <2>2. b.windows # <<>> => Head(b.windows) \in Window
    BY <2>1
  <2> QED BY <2>2 DEF Window
<1> HIDE DEF next
<1>2. Same(b, c)
  BY <1>1, ChainSet
<1> HIDE DEF c
<1>3. f = Eff(b, <<>>) \/ f = Eff(c, <<>>) \/ f = RequestClose(Eff(c, <<>>), next)
  <2>1. Eff(b, <<>>).b = b
    BY EffParts
  <2>2. [Eff(b, <<>>) EXCEPT !.b.chain = next] = Eff(c, <<>>)
    BY DEF Eff, c
  <2> QED BY <2>1, <2>2 DEF NextToClose, next
<1> HIDE DEF f
<1>4. Asks(c, Eff(c, <<>>)) /\ Asks(c, RequestClose(Eff(c, <<>>), next))
  BY <1>2, NothingAsked, RequestCloseAsks DEF Same
<1>5. Asks(b, Eff(c, <<>>)) /\ Asks(b, RequestClose(Eff(c, <<>>), next))
  BY <1>2, <1>4, SameAsks
<1> QED BY <1>3, <1>5, NothingAsked DEF f

\* The recorded id is answered once, and only once nothing is left of the browser.
LEMMA CloseAllEnds ==
  ASSUME NEW b, Fine(b), NEW id \in Nat
  PROVE  Ends([b EXCEPT !.shutdown = id], CloseAll(Eff(b, <<>>), id, FALSE))
<1> DEFINE c == [b EXCEPT !.shutdown = id]
           d == [c EXCEPT !.chain = Head(b.windows).id]
           asked == IF b.windows = <<>> THEN Eff(c, <<>>)
                    ELSE RequestClose(Eff(d, <<>>), Head(b.windows).id)
<1>1. [Eff(b, <<>>) EXCEPT !.b.shutdown = id, !.b.failed = @ \/ FALSE] = Eff(c, <<>>)
  <2>1. b.failed = FALSE /\ c.failed = FALSE
    BY DEF Fine, Browser
  <2>2. (Eff(b, <<>>).b.failed \/ FALSE) = FALSE
    BY <2>1 DEF Eff
  <2>3. [Eff(b, <<>>) EXCEPT !.b.shutdown = id, !.b.failed = FALSE]
          = Eff([b EXCEPT !.shutdown = id, !.failed = FALSE], <<>>)
    <3> DEFINE v == FALSE
    <3> HIDE DEF v
    <3> DEFINE e == [Eff(b, <<>>) EXCEPT !.b.shutdown = id]
               g == [c EXCEPT !.failed = v]
    <3>1. [Eff(b, <<>>) EXCEPT !.b.shutdown = id, !.b.failed = v] = [e EXCEPT !.b.failed = v]
      BY DEF Eff
    <3>2. e = Eff(c, <<>>)
      BY DEF Eff
    <3>3. [b EXCEPT !.shutdown = id, !.failed = v] = g
      OBVIOUS
    <3> HIDE DEF c, e
    <3>4. [Eff(c, <<>>) EXCEPT !.b.failed = v] = Eff(g, <<>>)
      BY DEF Eff
    <3> HIDE DEF g
    <3>5. [Eff(b, <<>>) EXCEPT !.b.shutdown = id, !.b.failed = v]
            = Eff([b EXCEPT !.shutdown = id, !.failed = v], <<>>)
      BY <3>1, <3>2, <3>3, <3>4
    <3> QED BY <3>5 DEF v
  <2>4. [b EXCEPT !.shutdown = id, !.failed = FALSE] = c
    BY <2>1 DEF Fine, Browser
  <2> HIDE DEF c
  <2> QED BY <2>2, <2>3, <2>4
<1>2. CloseAll(Eff(b, <<>>), id, FALSE) = MaybeQuit(asked)
  <2>1. Eff(b, <<>>).b = b
    BY EffParts
  <2>2. [Eff(c, <<>>) EXCEPT !.b.chain = Head(b.windows).id] = Eff(d, <<>>)
    BY DEF Eff
  <2> HIDE DEF c, d
  <2> QED BY <1>1, <2>1, <2>2 DEF CloseAll
<1>3. Fine(c) /\ c.windows = b.windows
  BY ShutdownSet
<1> HIDE DEF c
<1>5. Asks(c, asked)
  <2>1. CASE b.windows = <<>>
    BY <1>3, <2>1, NothingAsked
  <2>2. CASE b.windows # <<>>
    <3>1. Head(b.windows) \in Window
      BY <2>2 DEF Fine, Browser
    <3>2. Head(b.windows).id \in Nat
      BY <3>1 DEF Window
    <3>3. Same(c, d)
      BY <1>3, <3>2, ChainSet
    <3>4. asked = RequestClose(Eff(d, <<>>), Head(b.windows).id)
      BY <2>2
    <3> HIDE DEF d, asked
    <3>5. Asks(d, asked)
      BY <3>3, <3>4, RequestCloseAsks DEF Same
    <3> QED BY <3>3, <3>5, SameAsks
  <2> QED BY <2>1, <2>2
<1> HIDE DEF asked
<1> QED BY <1>2, <1>5, MaybeQuitEnds DEF c

\* What is left of a sequence without one of its elements.
LEMMA RemovedAt ==
  ASSUME NEW S, NEW s \in Seq(S), NEW i \in 1..Len(s)
  PROVE  /\ RemoveAt(s, i) \in Seq(S) /\ Len(RemoveAt(s, i)) = Len(s) - 1
         /\ \A k \in 1..(Len(s) - 1) : RemoveAt(s, i)[k] = IF k < i THEN s[k] ELSE s[k + 1]
<1> DEFINE l == SubSeq(s, 1, i - 1)
           r == SubSeq(s, i + 1, Len(s))
<1>0. Len(s) \in Nat /\ i \in Nat
  OBVIOUS
<1>1. /\ l \in Seq(S) /\ Len(l) = i - 1 /\ \A k \in 1..(i - 1) : l[k] = s[k]
  BY <1>0
<1>2. /\ r \in Seq(S) /\ Len(r) = Len(s) - i /\ \A k \in 1..(Len(s) - i) : r[k] = s[i + k]
  BY <1>0
<1>3. RemoveAt(s, i) = l \o r
  BY DEF RemoveAt
<1> HIDE DEF l, r
<1>4. /\ l \o r \in Seq(S) /\ Len(l \o r) = Len(s) - 1
      /\ \A k \in 1..(Len(s) - 1) : (l \o r)[k] = IF k <= i - 1 THEN l[k] ELSE r[k - (i - 1)]
  <2>1. Len(l) + Len(r) = Len(s) - 1
    BY <1>0, <1>1, <1>2
  <2>2. /\ l \o r \in Seq(S) /\ Len(l \o r) = Len(l) + Len(r)
        /\ \A k \in 1..(Len(l) + Len(r)) :
              (l \o r)[k] = IF k <= Len(l) THEN l[k] ELSE r[k - Len(l)]
    BY <1>1, <1>2, ConcatProperties
  <2> QED BY <1>1, <2>1, <2>2
<1>5. ASSUME NEW k \in 1..(Len(s) - 1)
      PROVE  (l \o r)[k] = IF k < i THEN s[k] ELSE s[k + 1]
  <2>1. CASE k < i
    BY <1>0, <1>1, <1>4, <2>1
  <2>2. CASE k >= i
    <3>1. /\ k - (i - 1) \in 1..(Len(s) - i) /\ i + (k - (i - 1)) = k + 1
          /\ ~(k <= i - 1) /\ ~(k < i)
      BY <1>0, <2>2
    <3>2. r[k - (i - 1)] = s[k + 1]
      BY <1>2, <3>1
    <3>3. (l \o r)[k] = IF k <= i - 1 THEN l[k] ELSE r[k - (i - 1)]
      BY <1>4
    <3>4. (l \o r)[k] = r[k - (i - 1)]
      BY <3>1, <3>3
    <3> QED BY <3>1, <3>2, <3>4
  <2>3. k < i \/ k >= i
    BY <1>0
  <2> QED BY <2>1, <2>2, <2>3
<1> QED BY <1>3, <1>4, <1>5

\* A window has gone.
LEMMA GoneEnds ==
  ASSUME NEW b, Fine(b), NEW i \in DOMAIN b.windows
  PROVE  Ends(b, Gone(b, i))
<1> DEFINE w == b.windows
           v == RemoveAt(w, i)
           c == [b EXCEPT !.windows = v]
<1>0. b \in Browser /\ w \in Seq(Window) /\ Screens(b) /\ i \in 1..Len(w) /\ Len(w) \in Nat
  <2>1. b \in Browser /\ w \in Seq(Window) /\ Screens(b)
    BY DEF Fine, Browser
  <2> HIDE DEF Window, Browser
  <2> QED BY <2>1
<1> HIDE DEF w, Window
<1>1. /\ v \in Seq(Window) /\ Len(v) = Len(w) - 1
      /\ \A k \in 1..(Len(w) - 1) : v[k] = IF k < i THEN w[k] ELSE w[k + 1]
  BY <1>0, RemovedAt
<1> HIDE DEF v
<1>2. /\ c \in Browser /\ c.windows = v /\ Rest(b, c) /\ c.shutdown = b.shutdown
      /\ c.quitting = b.quitting
  BY <1>0, <1>1, WindowsSet
<1>3. [b EXCEPT !.windows = RemoveAt(@, i)] = c
  BY DEF v, w
<1> HIDE DEF c
<1>4. Screens(c)
  <2>1. DOMAIN w = 1..Len(w) /\ DOMAIN v = 1..(Len(w) - 1) /\ w = b.windows /\ w # <<>>
    BY <1>0, <1>1 DEF w
  <2>2. \A i1, k \in DOMAIN v : v[i1].key = v[k].key /\ v[i1].key \in Keys => i1 = k
    <3> SUFFICES ASSUME NEW x \in DOMAIN v, NEW y \in DOMAIN v,
                        v[x].key = v[y].key, v[x].key \in Keys
                 PROVE  x = y
      OBVIOUS
    <3>1. \A m, n \in 1..Len(w) : w[m].key = w[n].key /\ w[m].key \in Keys => m = n
      BY <1>0, <2>1 DEF Screens
    <3> DEFINE X == IF x < i THEN x ELSE x + 1
               Y == IF y < i THEN y ELSE y + 1
    <3>x. x \in 1..(Len(w) - 1) /\ y \in 1..(Len(w) - 1) /\ i \in 1..Len(w) /\ Len(w) \in Nat
      BY <1>0, <2>1
    <3>2. X \in 1..Len(w) /\ Y \in 1..Len(w) /\ v[x] = w[X] /\ v[y] = w[Y]
      <4>1. X \in 1..Len(w) /\ Y \in 1..Len(w)
        BY <3>x
      <4>2. v[x] = w[X] /\ v[y] = w[Y]
        BY <1>1, <3>x
      <4> QED BY <4>1, <4>2
    <3>3. X = Y
      <4> HIDE DEF X, Y
      <4> QED BY <3>1, <3>2
    <3> QED BY <1>0, <2>1, <3>3
  <2>3. \A a \in c.creating, k \in DOMAIN v : v[k].key # a.key
    <3>1. \A a \in b.creating, k \in 1..Len(w) : w[k].key # a.key
      BY <1>0, <2>1 DEF Screens
    <3>2. \A k \in DOMAIN v : \E m \in 1..Len(w) : v[k] = w[m]
      <4> SUFFICES ASSUME NEW k \in DOMAIN v
                   PROVE  \E m \in 1..Len(w) : v[k] = w[m]
        OBVIOUS
      <4>1. k \in 1..Len(w) /\ (k >= i => k + 1 \in 1..Len(w))
        BY <1>0, <2>1
      <4>2. v[k] = w[k] \/ (k >= i /\ v[k] = w[k + 1])
        BY <1>0, <1>1, <2>1
      <4> QED BY <4>1, <4>2
    <3> QED BY <1>2, <3>1, <3>2 DEF Rest
  <2>4. Len(v) <= b.born
    BY <1>0, <1>1 DEF Screens, Browser, w
  <2> QED BY <1>0, <1>2, <2>1, <2>2, <2>3, <2>4 DEF Screens, Rest
<1>5. Gone(b, i) = MaybeQuit(NextToClose(Eff(c, <<>>), b.windows[i].id))
  BY <1>3, EffParts DEF Gone
<1>6. Asks(c, NextToClose(Eff(c, <<>>), b.windows[i].id))
  BY <1>2, <1>4, NextToCloseAsks DEF Fine
<1>7. Ends(c, Gone(b, i))
  BY <1>5, <1>6, MaybeQuitEnds
<1>8. Len(c.windows) <= Len(b.windows)
  BY <1>0, <1>1, <1>2 DEF w
<1>9. Len(Gone(b, i).b.windows) \in Nat
  BY <1>7 DEF Ends, Fine, Browser
<1> QED BY <1>0, <1>1, <1>2, <1>7, <1>8, <1>9 DEF Ends, Rest, Refused, w

-----------------------------------------------------------------------------
(* How a browser keeps up its side of the conversation *)

\* After a step of the browser, the conversation stands somewhere again (a browser has
\* its context once the boot's screen has been handled); it does not begin by itself, and (if no creation finds the browser full) ends with an answer.
Follows(b, q, r, c, s, t, next, opening, state) ==
    /\ Prepared(b) => Prepared(c)
    /\ Fine(c) /\ s \in Seq(Request) /\ t \in Seq(Reply)
    /\ Conversation(c, s, t, next, opening, state)
    /\ b.quitting => c.quitting
    /\ Silent(b, q, r) => Silent(c, s, t) /\ c.lastId = b.lastId
    /\ MaxBorn < MaxScreens /\ Fits(b) => Fits(c) /\ (~Silent(b, q, r) => ~Silent(c, s, t))

\* A single answer.
LEMMA OneReply ==
  ASSUME NEW event \in {"opened", "error", "cancelled", "closeBlocked", "stopped"},
         NEW id \in Nat, NEW key \in Keys \cup {None}
  PROVE  LET a == Says(event, id, key)
         IN  /\ a \in Reply /\ a.event = event /\ a.id = id /\ a.key = key
             /\ <<a>> \in Seq(Reply) /\ <<>> \o <<a>> = <<a>> /\ Append(<<>>, a) = <<a>>
             /\ <<a>> # <<>>
<1> DEFINE a == Says(event, id, key)
<1>1. a \in Reply /\ a.event = event /\ a.id = id /\ a.key = key
  BY DEF Says, Reply
<1> HIDE DEF a, Reply
<1>2. /\ <<a>> \in Seq(Reply) /\ <<>> \o <<a>> = <<a>> /\ Append(<<>>, a) = <<a>> /\ <<a>> # <<>>
  BY <1>1
<1> QED BY <1>1, <1>2 DEF a

\* The stages of a stop keep the conversation.
LEMMA EndsFollows ==
  ASSUME NEW b, NEW q \in Seq(Request), NEW r \in Seq(Reply), NEW next \in Nat,
         NEW opening \in Keys \cup {None}, NEW state, NEW f,
         Fine(b), ~b.quitting, Conversation(b, q, r, next, opening, state), Ends(b, f)
  PROVE  Follows(b, q, r, f.b, q, r \o f.out, next, opening, state)
<1> DEFINE c == f.b
           t == r \o f.out
<1>1. Fine(c) /\ Rest(b, c) /\ Len(c.windows) <= Len(b.windows)
  BY DEF Ends
<1>2. Fits(b) => Fits(c)
  <2>1. MaxScreens \in Nat /\ Len(b.windows) \in Nat /\ Len(c.windows) \in Nat
    BY <1>1, BrowserAssumption DEF Fine, Browser
  <2> QED BY <1>1, <2>1 DEF Fits, Rest
<1>3. CASE f.out = <<>> /\ c.shutdown = b.shutdown
  <2>1. t = r
    <3> HIDE DEF Reply
    <3> QED BY <1>3
  <2> HIDE DEF c, t
  <2>2. Conversation(c, q, r, next, opening, state)
    <3>1. NoWork(b) <=> NoWork(c)
      BY <1>1 DEF NoWork, Rest
    <3>2. InAnswer(b, q, r, next, opening, state) => InAnswer(c, q, r, next, opening, state)
      BY <1>3, <3>1 DEF InAnswer
    <3>3. InPipe(b, q, r, next, opening) => InPipe(c, q, r, next, opening)
      BY <1>1, <1>3, <3>1 DEF InPipe, Rest
    <3>4. InTasks(b, q, r, next, opening) => InTasks(c, q, r, next, opening)
      BY <1>1, <1>3 DEF InTasks, Rest
    <3>5. InBoot(b, q, r, next, opening) => InBoot(c, q, r, next, opening)
      BY <1>1, <1>3 DEF InBoot, Rest
    <3>6. InMaking(b, q, r, next, opening) => InMaking(c, q, r, next, opening)
      BY <1>1, <1>3 DEF InMaking, Rest
    <3>7. InShutdown(b, q, r, next, opening) => InShutdown(c, q, r, next, opening)
      BY <1>1, <1>3, <3>1 DEF InShutdown, Rest
    <3>8. Silent(b, q, r) => Silent(c, q, r)
      BY <1>3, <3>1 DEF Silent
    <3>9. c.lastId <= next
      BY <1>1 DEF Conversation, Rest
    <3> QED BY <3>2, <3>3, <3>4, <3>5, <3>6, <3>7, <3>8, <3>9 DEF Conversation
  <2>3. (Silent(b, q, r) <=> Silent(c, q, r)) /\ c.lastId = b.lastId
    BY <1>1, <1>3 DEF Silent, NoWork, Rest
  <2>4. Follows(b, q, r, c, q, r, next, opening, state)
    BY <1>1, <1>2, <2>2, <2>3 DEF Follows, Prepared, Rest
  <2> QED BY <2>1, <2>4 DEF c, t
<1>4. CASE b.shutdown # NoId /\ \E event \in {"error", "cancelled", "stopped"} :
              /\ f.out = <<Says(event, b.shutdown, None)>>
              /\ c.shutdown = NoId \/ (c.shutdown = b.shutdown /\ c.quitting /\ event = "stopped")
              /\ event = "stopped" => c.quitting
  <2>1. InShutdown(b, q, r, next, opening)
    BY <1>4 DEF Conversation, InPipe, InTasks, InBoot, InMaking, InAnswer, Silent
  <2>2. PICK event \in {"error", "cancelled", "stopped"} :
              /\ f.out = <<Says(event, b.shutdown, None)>>
              /\ c.shutdown = NoId \/ (c.shutdown = b.shutdown /\ c.quitting /\ event = "stopped")
              /\ event = "stopped" => c.quitting
    BY <1>4
  <2> HIDE DEF c
  <2> DEFINE a == Says(event, next, None)
  <2>3. r = <<>> /\ q = <<>> /\ opening = None /\ b.shutdown = next /\ NoWork(b)
    BY <2>1 DEF InShutdown
  <2>4. /\ a \in Reply /\ a.event = event /\ a.id = next
        /\ <<a>> \in Seq(Reply) /\ <<>> \o <<a>> = <<a>> /\ <<a>> # <<>>
    BY OneReply
  <2>5. t = <<a>>
    <3> HIDE DEF a
    <3>1. f.out = <<a>>
      BY <2>2, <2>3 DEF a
    <3> QED BY <2>3, <2>4, <3>1
  <2> HIDE DEF a, t
  <2>6. NoWork(c) /\ c.lastId = b.lastId
    BY <1>1, <2>3 DEF NoWork, Rest
  <2>7. Answers(a, next, opening)
    BY <2>2, <2>3, <2>4 DEF Answers
  <2>8. InAnswer(c, q, t, next, opening, state)
    <3>1. c.shutdown = NoId \/ (c.shutdown = next /\ c.quitting /\ a.event = "stopped")
      BY <2>2, <2>3, <2>4
    <3>2. a.event = "stopped" => c.quitting
      BY <2>2, <2>4
    <3> QED BY <2>3, <2>4, <2>5, <2>6, <2>7, <3>1, <3>2 DEF InAnswer
  <2>9. Conversation(c, q, t, next, opening, state)
    BY <2>6, <2>8 DEF Conversation
  <2>10. ~Silent(b, q, r) /\ ~Silent(c, q, t)
    BY <1>4, <2>4, <2>5 DEF Silent
  <2>11. Follows(b, q, r, c, q, t, next, opening, state)
    BY <1>1, <1>2, <2>4, <2>5, <2>9, <2>10 DEF Follows, Prepared, Rest
  <2> QED BY <2>11 DEF c, t
<1>5. CASE Refused(b, f)
  BY <1>4, <1>5 DEF Refused
<1>6. CASE /\ b.shutdown # NoId /\ f.b.shutdown = b.shutdown /\ f.b.quitting
           /\ f.out = <<Says("stopped", b.shutdown, None)>>
  BY <1>4, <1>6
<1> QED BY <1>3, <1>5, <1>6 DEF Ends

\* Noting the id of a request leaves the rest.
LEMMA LastIdSet ==
  ASSUME NEW b, Fine(b), NEW id \in Nat
  PROVE  LET c == [b EXCEPT !.lastId = id]
         IN  /\ Fine(c) /\ c.lastId = id /\ c.boot = b.boot /\ c.creating = b.creating
             /\ c.tasks = b.tasks /\ c.windows = b.windows /\ c.shutdown = b.shutdown
             /\ c.quitting = b.quitting /\ c.context = b.context
<1> HIDE DEF Window, Request, Creation
<1> QED BY DEF Fine, Screens, Browser

\* A creation of a screen that has no window.
LEMMA CreatingSet ==
  ASSUME NEW b, Fine(b), b.creating = {}, b.boot = None, ~b.quitting,
         NEW id \in Nat, NEW key \in Keys,
         \A i \in DOMAIN b.windows : b.windows[i].key # key
  PROVE  LET c == [b EXCEPT !.creating = {[id |-> id, key |-> key]}]
         IN  /\ Fine(c) /\ c.lastId = b.lastId /\ c.boot = b.boot /\ c.tasks = b.tasks
             /\ c.creating = {[id |-> id, key |-> key]} /\ c.windows = b.windows
             /\ c.shutdown = b.shutdown /\ c.context = b.context
<1> DEFINE a == [id |-> id, key |-> key]
           c == [b EXCEPT !.creating = {a}]
<1>1. a \in Creation /\ a.key = key
  BY DEF Creation
<1> HIDE DEF a, Window, Request, Creation
<1>2. /\ c \in Browser /\ c.lastId = b.lastId /\ c.boot = b.boot /\ c.tasks = b.tasks
      /\ c.creating = {a} /\ c.windows = b.windows /\ c.shutdown = b.shutdown
      /\ c.quitting = b.quitting /\ c.born = b.born /\ c.context = b.context
  BY <1>1 DEF Fine, Browser
<1> HIDE DEF c
<1>3. Screens(c)
  BY <1>1, <1>2 DEF Fine, Screens
<1>4. c = [b EXCEPT !.creating = {[id |-> id, key |-> key]}]
  BY DEF c, a
<1> QED BY <1>2, <1>3, <1>4 DEF Fine, a

\* A request read by an idle browser is answered, or begins what answers it.
LEMMA HandleFollows ==
  ASSUME NEW b, Fine(b), NoWork(b), b.shutdown = NoId, NEW next \in Nat, b.lastId < next,
         NEW opening \in Keys \cup {None}, NEW state,
         NEW a \in Request, Asked(a, next, opening), NEW rejected \in BOOLEAN,
         NEW f, f = Handle(b, a, rejected), b.context
  PROVE  /\ f.b.context /\ Fine(f.b) /\ f.out \in Seq(Reply) /\ (b.quitting => f.b.quitting) /\ Fits(f.b)
         /\ Conversation(f.b, <<>>, f.out, next, opening, state)
         /\ ~Silent(f.b, <<>>, f.out)
<1> DEFINE known == [b EXCEPT !.lastId = next]
           said(event, key) == Says(event, next, key)
<1>1. /\ Fine(known) /\ known.lastId = next /\ NoWork(known) /\ known.windows = b.windows
      /\ known.shutdown = NoId /\ known.quitting = b.quitting /\ known.context
  BY LastIdSet DEF NoWork
<1>2. a.id = next /\ a.op # "eof" /\ (a.op = "open" <=> opening # None)
      /\ (a.op = "open" => a.key = opening /\ opening \in Keys)
      /\ (a.op # "open" => a.op = "shutdown")
  BY DEF Asked, Request
<1>3. Effect(b) = Eff(b, <<>>) /\ [Eff(b, <<>>) EXCEPT !.b.lastId = next] = Eff(known, <<>>)
  BY DEF Effect, Eff
<1>4. Pending(b) = 0 /\ ~(Pending(b) > 0)
  BY NoPending DEF NoWork
<1>5. b.lastId \in Nat /\ ~(next <= b.lastId)
  BY DEF Fine, Browser
\* A browser c that has answered.
<1>6. ASSUME NEW c, Fine(c), NoWork(c), c.lastId <= next, c.context,
             NEW event \in {"opened", "error", "closeBlocked", "cancelled", "stopped"},
             NEW key \in Keys \cup {None},
             f.b = c, f.out = <<Says(event, next, key)>>, b.quitting => c.quitting,
             Answers(Says(event, next, key), next, opening),
             c.shutdown = NoId \/ (c.shutdown = next /\ c.quitting /\ event = "stopped"),
             event = "stopped" => c.quitting
      PROVE  /\ f.b.context
             /\ Fine(f.b) /\ f.out \in Seq(Reply) /\ (b.quitting => f.b.quitting) /\ Fits(f.b)
             /\ Conversation(f.b, <<>>, f.out, next, opening, state)
             /\ ~Silent(f.b, <<>>, f.out)
  <2> DEFINE s == Says(event, next, key)
  <2>1. s \in Reply /\ s.event = event /\ <<s>> \in Seq(Reply) /\ <<s>> # <<>>
    BY OneReply
  <2>2. f.b = c /\ f.out = <<s>>
    BY <1>6
  <2>3. Answers(s, next, opening)
    BY <1>6
  <2> HIDE DEF s
  <2>4. InAnswer(c, <<>>, <<s>>, next, opening, state)
    <3>1. c.shutdown = NoId \/ (c.shutdown = next /\ c.quitting /\ s.event = "stopped")
      BY <1>6, <2>1
    <3>2. s.event = "stopped" => c.quitting
      BY <1>6, <2>1
    <3> QED BY <1>6, <2>1, <2>3, <3>1, <3>2 DEF InAnswer
  <2>5. Conversation(c, <<>>, <<s>>, next, opening, state)
    BY <1>6, <2>4 DEF Conversation
  <2>6. ~Silent(c, <<>>, <<s>>) /\ Fits(c)
    BY <1>6, <2>1 DEF Silent, Fits, NoWork
  <2> QED BY <1>6, <2>1, <2>2, <2>5, <2>6
<1>7. CASE a.op = "open" /\ b.quitting
  <2>1. f = Answer(Eff(b, <<>>), "error", next, None)
    BY <1>2, <1>3, <1>5, <1>7 DEF Handle, Admission
  <2>2. f.b = b /\ f.out = <<Says("error", next, None)>>
    BY <2>1, OneReply DEF Answer, Eff
  <2>3. Answers(Says("error", next, None), next, opening)
    BY OneReply DEF Answers
  <2> QED BY <1>5, <1>6, <2>2, <2>3
<1>8. CASE a.op # "open" /\ b.quitting
  <2> DEFINE c == [known EXCEPT !.shutdown = next]
  <2>1. Fine(c) /\ Rest(known, c) /\ c.quitting = known.quitting /\ c.shutdown = next
    BY <1>1, ShutdownSet
  <2>2. [Eff(known, <<>>) EXCEPT !.b.shutdown = next] = Eff(c, <<>>)
    BY DEF Eff
  <2> HIDE DEF c, known
  <2>3. f = Answer(Eff(c, <<>>), "stopped", next, None)
    BY <1>2, <1>3, <1>5, <1>8, <2>2 DEF Handle, Admission
  <2>4. f.b = c /\ f.out = <<Says("stopped", next, None)>>
    BY <2>3, OneReply DEF Answer, Eff
  <2>5. Answers(Says("stopped", next, None), next, opening)
    <3> DEFINE s == Says("stopped", next, None)
    <3>1. s.id = next /\ s.event = "stopped"
      BY OneReply
    <3>2. opening = None
      BY <1>2, <1>8
    <3> HIDE DEF s
    <3>3. Answers(s, next, opening)
      BY <3>1, <3>2 DEF Answers
    <3> QED BY <3>3 DEF s
  <2>6. NoWork(c) /\ c.lastId <= next /\ c.quitting /\ c.context
    BY <1>1, <1>8, <2>1 DEF NoWork, Rest
  <2> QED BY <1>6, <2>1, <2>4, <2>5, <2>6
<1>9. CASE a.op = "open" /\ ~b.quitting
  <2> DEFINE c == [known EXCEPT !.creating = @ \cup {[id |-> next, key |-> opening]}]
  <2>1. f = OpenScreen(Eff(known, <<>>), next, opening, rejected)
    BY <1>2, <1>3, <1>5, <1>9 DEF Handle, Admission
  <2>2. [Eff(known, <<>>) EXCEPT !.b.creating = @ \cup {[id |-> next, key |-> opening]}]
          = Eff(c, <<>>)
    <3> DEFINE v == known.creating \cup {[id |-> next, key |-> opening]}
    <3>1. Eff(known, <<>>).b.creating = known.creating
      BY EffParts
    <3> HIDE DEF known
    <3>2. [Eff(known, <<>>) EXCEPT !.b.creating = @ \cup {[id |-> next, key |-> opening]}]
            = [Eff(known, <<>>) EXCEPT !.b.creating = v]
      BY <3>1
    <3>3. c = [known EXCEPT !.creating = v]
      OBVIOUS
    <3> HIDE DEF v, c
    <3>4. [Eff(known, <<>>) EXCEPT !.b.creating = v] = Eff([known EXCEPT !.creating = v], <<>>)
      BY DEF Eff
    <3> QED BY <3>2, <3>3, <3>4
  <2>3. Eff(known, <<>>).b = known
    BY EffParts
  <2> HIDE DEF c, known
  <2>4. \/ f = Answer(Eff(known, <<>>), "opened", next, opening)
        \/ f = Answer(Eff(known, <<>>), "error", next, None)
        \/ /\ \A i \in DOMAIN known.windows : known.windows[i].key # opening
           /\ Len(known.windows) + Pending(known) < MaxScreens /\ f = Eff(c, <<>>)
    <3>1. Len(known.windows) + Pending(known) \in Nat /\ MaxScreens \in Nat
      <4>1. Len(known.windows) \in Nat
        BY <1>1 DEF Fine, Browser
      <4>2. Pending(known) \in Nat
        BY <1>1, NoPending
      <4> QED BY <4>1, <4>2, BrowserAssumption
    <3> QED BY <1>1, <2>1, <2>2, <2>3, <3>1 DEF OpenScreen
  <2>5. CASE f = Answer(Eff(known, <<>>), "opened", next, opening)
    <3>1. f.b = known /\ f.out = <<Says("opened", next, opening)>>
      BY <2>5, OneReply DEF Answer, Eff
    <3>2. Answers(Says("opened", next, opening), next, opening)
      BY <1>2, <1>9, OneReply DEF Answers
    <3> QED BY <1>1, <1>6, <3>1, <3>2
  <2>6. CASE f = Answer(Eff(known, <<>>), "error", next, None)
    <3>1. f.b = known /\ f.out = <<Says("error", next, None)>>
      BY <2>6, OneReply DEF Answer, Eff
    <3>2. Answers(Says("error", next, None), next, opening)
      BY OneReply DEF Answers
    <3> QED BY <1>1, <1>6, <3>1, <3>2
  <2>7. CASE /\ \A i \in DOMAIN known.windows : known.windows[i].key # opening
             /\ Len(known.windows) + Pending(known) < MaxScreens /\ f = Eff(c, <<>>)
    <3>1. c = [known EXCEPT !.creating = {[id |-> next, key |-> opening]}]
      BY <1>1 DEF c, NoWork
    <3>2. /\ Fine(c) /\ c.lastId = next /\ c.boot = None /\ c.tasks = <<>>
          /\ c.windows = known.windows
          /\ c.creating = {[id |-> next, key |-> opening]} /\ c.shutdown = NoId /\ c.context
      BY <1>1, <1>2, <1>9, <2>7, <3>1, CreatingSet DEF NoWork
    <3>3. f.b = c /\ f.out = <<>>
      BY <2>7, EffParts
    <3> HIDE DEF c
    <3>4. Pending(known) = 0 /\ Len(known.windows) \in Nat
      <4>1. Len(known.windows) \in Nat
        BY <1>1 DEF Fine, Browser
      <4>2. Pending(known) = 0
        BY <1>1, NoPending DEF NoWork
      <4> QED BY <4>1, <4>2
    <3>5. Fits(c)
      BY <2>7, <3>2, <3>4 DEF Fits
    <3>6. InMaking(c, <<>>, <<>>, next, opening)
      BY <1>2, <1>9, <3>2 DEF InMaking
    <3>7. Conversation(c, <<>>, <<>>, next, opening, state)
      BY <3>2, <3>6 DEF Conversation
    <3>8. ~Silent(c, <<>>, <<>>)
      BY <3>2 DEF Silent, NoWork
    <3>9. <<>> \in Seq(Reply)
      OBVIOUS
    <3> QED BY <1>9, <3>2, <3>3, <3>5, <3>7, <3>8, <3>9
  <2> QED BY <2>4, <2>5, <2>6, <2>7
<1>10. CASE a.op # "open" /\ ~b.quitting
  <2> DEFINE c == [known EXCEPT !.shutdown = next]
  <2>1. Fine(c) /\ Rest(known, c) /\ c.quitting = known.quitting /\ c.shutdown = next
    BY <1>1, ShutdownSet
  <2>2. f = CloseAll(Eff(known, <<>>), next, FALSE)
    <3> HIDE DEF known
    <3> QED BY <1>2, <1>3, <1>4, <1>5, <1>10 DEF Handle, Admission
  <2>3. Ends(c, f)
    BY <1>1, <2>2, CloseAllEnds
  <2> HIDE DEF c, known
  <2>4. /\ Fine(f.b) /\ NoWork(f.b) /\ f.b.lastId = next /\ f.b.context
        /\ f.b.shutdown = next \/ Refused(c, f)
    BY <1>1, <2>1, <2>3 DEF Ends, NoWork, Rest
  <2>5. opening = None
    BY <1>2, <1>10
  <2>6. CASE f.out = <<>> /\ f.b.shutdown = c.shutdown
    <3>1. InShutdown(f.b, <<>>, <<>>, next, opening)
      BY <2>1, <2>4, <2>5, <2>6 DEF InShutdown
    <3>2. Conversation(f.b, <<>>, <<>>, next, opening, state)
      BY <2>4, <3>1 DEF Conversation
    <3>3. ~Silent(f.b, <<>>, <<>>)
      BY <2>1, <2>6 DEF Silent, NoId
    <3>4. <<>> \in Seq(Reply) /\ Fits(f.b)
      BY <2>4 DEF Fits, NoWork
    <3> QED BY <1>10, <2>4, <2>6, <3>2, <3>3, <3>4
  <2>7. ASSUME NEW event \in {"error", "cancelled", "stopped"},
               f.out = <<Says(event, next, None)>>,
               f.b.shutdown = NoId \/ (f.b.shutdown = next /\ f.b.quitting /\ event = "stopped"),
               event = "stopped" => f.b.quitting
        PROVE  /\ f.b.context
               /\ Fine(f.b) /\ f.out \in Seq(Reply) /\ (b.quitting => f.b.quitting) /\ Fits(f.b)
               /\ Conversation(f.b, <<>>, f.out, next, opening, state)
               /\ ~Silent(f.b, <<>>, f.out)
    <3>1. Answers(Says(event, next, None), next, opening)
      BY <2>5, OneReply DEF Answers
    <3>2. Fine(f.b) /\ NoWork(f.b) /\ f.b.lastId <= next /\ f.b.context
      BY <2>4
    <3>3. event \in {"opened", "error", "closeBlocked", "cancelled", "stopped"}
      OBVIOUS
    <3> QED BY <1>6, <1>10, <2>7, <3>1, <3>2, <3>3
  <2>8. CASE Refused(c, f)
    <3>1. c.shutdown = next
      BY <2>1
    <3>2. PICK event \in {"error", "cancelled"} : f.out = <<Says(event, next, None)>>
      BY <2>8, <3>1 DEF Refused
    <3>3. f.b.shutdown = NoId
      BY <2>8 DEF Refused
    <3> QED BY <2>7, <3>2, <3>3
  <2>9. CASE /\ f.b.shutdown = c.shutdown /\ f.b.quitting
             /\ f.out = <<Says("stopped", c.shutdown, None)>>
    <3>1. f.out = <<Says("stopped", next, None)>>
      BY <2>1, <2>9
    <3> QED BY <2>1, <2>7, <2>9, <3>1
  <2> QED BY <2>3, <2>6, <2>8, <2>9 DEF Ends
<1> QED BY <1>7, <1>8, <1>9, <1>10

\* A step that only asks is one stage of a stop.
LEMMA AsksEnds ==
  ASSUME NEW b, NEW f, Asks(b, f)
  PROVE  Ends(b, f)
  BY DEF Asks, Ends

\* The boot's creation is over.
LEMMA BootSet ==
  ASSUME NEW b, Fine(b)
  PROVE  LET c == [b EXCEPT !.boot = None]
         IN  /\ Fine(c) /\ c.boot = None /\ c.creating = b.creating /\ c.lastId = b.lastId
             /\ c.tasks = b.tasks /\ c.shutdown = b.shutdown /\ c.windows = b.windows
             /\ c.quitting = b.quitting /\ c.context = b.context
<1> HIDE DEF Window, Request, Creation
<1> QED BY DEF Fine, Screens, Browser

\* Only the posted tasks change.
LEMMA TasksSet ==
  ASSUME NEW b, Fine(b), NEW s \in Seq(Request)
  PROVE  LET c == [b EXCEPT !.tasks = s]
         IN  /\ Fine(c) /\ c.boot = b.boot /\ c.creating = b.creating /\ c.lastId = b.lastId
             /\ c.tasks = s /\ c.shutdown = b.shutdown /\ c.windows = b.windows
             /\ c.quitting = b.quitting /\ c.context = b.context
<1> HIDE DEF Window, Request, Creation
<1> QED BY DEF Fine, Screens, Browser

\* The creation under way is over.
LEMMA NotCreating ==
  ASSUME NEW b, Fine(b)
  PROVE  LET c == [b EXCEPT !.creating = {}]
         IN  /\ Fine(c) /\ c.boot = b.boot /\ c.creating = {} /\ c.lastId = b.lastId
             /\ c.tasks = b.tasks /\ c.shutdown = b.shutdown /\ c.windows = b.windows
             /\ c.quitting = b.quitting /\ c.context = b.context
<1> HIDE DEF Window, Request, Creation
<1> QED BY DEF Fine, Screens, Browser

\* A new window, of a screen that had none or of a popup.
NewKey(b, key) == /\ \A i \in DOMAIN b.windows : b.windows[i].key = key => key = Popup
                  /\ \A a \in b.creating : a.key # key

\* A created window is one more, of a screen that had none.
LEMMA CreatedIs ==
  ASSUME NEW b, Fine(b), b.boot = None, ~b.quitting, NEW key \in Keys \cup {Popup}, NEW id,
         NewKey(b, key)
  PROVE  LET f == Created(b, key, id)
             c == f.b
         IN  /\ Fine(c) /\ c.boot = b.boot /\ c.creating = b.creating /\ c.lastId = b.lastId
             /\ c.tasks = b.tasks /\ c.shutdown = b.shutdown /\ c.quitting = b.quitting
             /\ c.context = b.context /\ Len(c.windows) = Len(b.windows) + 1
             /\ f.out = IF \/ key = Popup \/ Len(b.windows) + 1 > MaxScreens
                           \/ b.shutdown # NoId
                        THEN <<>> ELSE <<Says("opened", id, key)>>
<1> DEFINE over == Len(b.windows) + 1 > MaxScreens
           window == [id |-> b.born + 1, key |-> key, watch |-> "idle",
                      forced |-> over \/ b.failed]
           w == Append(b.windows, window)
           c == [b EXCEPT !.windows = w, !.born = b.born + 1]
           f == Created(b, key, id)
<1>1. b \in Browser /\ b.windows \in Seq(Window) /\ b.born \in Nat /\ Len(b.windows) \in Nat
      /\ Screens(b)
  <2>1. b \in Browser /\ b.windows \in Seq(Window) /\ b.born \in Nat /\ Screens(b)
    BY DEF Fine, Browser
  <2> HIDE DEF Window, Browser
  <2> QED BY <2>1
<1>2. window \in Window /\ window.key = key
  BY <1>1 DEF Window
<1>3. [Effect(b) EXCEPT !.b.windows = Append(@, window), !.b.born = @ + 1] = Eff(c, <<>>)
  <2> DEFINE e == [Eff(b, <<>>) EXCEPT !.b.windows = w]
             d == [b EXCEPT !.windows = w]
             n == b.born + 1
  <2>1. /\ Eff(b, <<>>).b.windows = b.windows /\ Eff(b, <<>>).b.born = b.born
        /\ Effect(b) = Eff(b, <<>>)
    BY EffParts
  <2>2. [Effect(b) EXCEPT !.b.windows = Append(@, window), !.b.born = @ + 1]
          = [Eff(b, <<>>) EXCEPT !.b.windows = w, !.b.born = n]
    <3> HIDE DEF window
    <3> QED BY <2>1
  <2> HIDE DEF window, w, n
  <2>3. [Eff(b, <<>>) EXCEPT !.b.windows = w, !.b.born = n] = [e EXCEPT !.b.born = n]
    BY DEF Eff
  <2>4. e = Eff(d, <<>>)
    BY DEF Eff
  <2>5. [d EXCEPT !.born = n] = c
    BY DEF n
  <2> HIDE DEF c, d, e
  <2>6. [Eff(d, <<>>) EXCEPT !.b.born = n] = Eff([d EXCEPT !.born = n], <<>>)
    BY DEF Eff
  <2> QED BY <2>2, <2>3, <2>4, <2>5, <2>6
<1> HIDE DEF window, Window
<1>4. /\ w \in Seq(Window) /\ Len(w) = Len(b.windows) + 1 /\ w # <<>>
      /\ DOMAIN w = 1..(Len(b.windows) + 1) /\ DOMAIN b.windows = 1..Len(b.windows)
      /\ w[Len(b.windows) + 1] = window
      /\ \A i \in 1..Len(b.windows) : w[i] = b.windows[i]
  BY <1>1, <1>2
<1> HIDE DEF w
<1>5. /\ c \in Browser /\ c.windows = w /\ c.born = b.born + 1 /\ c.boot = b.boot
      /\ c.creating = b.creating /\ c.lastId = b.lastId /\ c.tasks = b.tasks
      /\ c.shutdown = b.shutdown /\ c.quitting = b.quitting /\ c.context = b.context
  <2> DEFINE d == [b EXCEPT !.windows = w]
             n == b.born + 1
  <2>1. d \in Browser /\ d.windows = w /\ Rest(b, d) /\ d.shutdown = b.shutdown
        /\ d.quitting = b.quitting
    BY <1>1, <1>4, WindowsSet
  <2>2. c = [d EXCEPT !.born = n] /\ n \in Nat
    BY <1>1
  <2> HIDE DEF n, d, c, Request, Creation
  <2>3. /\ c \in Browser /\ c.windows = d.windows /\ c.born = n /\ c.boot = d.boot
        /\ c.creating = d.creating /\ c.lastId = d.lastId /\ c.tasks = d.tasks
        /\ c.shutdown = d.shutdown /\ c.quitting = d.quitting /\ c.context = d.context
    BY <2>1, <2>2 DEF Browser
  <2> QED BY <2>1, <2>3 DEF Rest, n
<1> HIDE DEF c
<1>6. Screens(c)
  <2>1. ASSUME NEW i \in DOMAIN w, NEW k \in DOMAIN w, w[i].key = w[k].key, w[i].key \in Keys
        PROVE  i = k
    <3>1. \A m, n \in 1..Len(b.windows) :
             b.windows[m].key = b.windows[n].key /\ b.windows[m].key \in Keys => m = n
      BY <1>1, <1>4 DEF Screens
    <3>2. key \in Keys => key # Popup
      BY BrowserAssumption
    <3>3. \A m \in 1..Len(b.windows) : b.windows[m].key = key => key = Popup
      BY <1>4 DEF NewKey
    <3>4. /\ i \in 1..Len(b.windows) \/ i = Len(b.windows) + 1
          /\ k \in 1..Len(b.windows) \/ k = Len(b.windows) + 1
      BY <1>1, <1>4
    <3> QED BY <1>2, <1>4, <2>1, <3>1, <3>2, <3>3, <3>4
  <2>2. \A a \in c.creating, i \in DOMAIN w : w[i].key # a.key
    <3> SUFFICES ASSUME NEW a \in b.creating, NEW i \in DOMAIN w PROVE w[i].key # a.key
      BY <1>5
    <3>1. i \in 1..Len(b.windows) \/ i = Len(b.windows) + 1
      BY <1>1, <1>4
    <3>2. \A k \in 1..Len(b.windows) : b.windows[k].key # a.key
      BY <1>1, <1>4 DEF Screens
    <3> QED BY <1>2, <1>4, <3>1, <3>2 DEF NewKey
  <2>3. Len(w) <= c.born
    BY <1>1, <1>4, <1>5 DEF Screens
  <2>4. b.creating = {} \/ \E a \in Creation : b.creating = {a}
    BY <1>1 DEF Screens
  <2> QED BY <1>5, <2>1, <2>2, <2>3, <2>4 DEF Screens
<1>7. f.b = c /\ f.out = IF key = Popup \/ over \/ b.shutdown # NoId
                         THEN <<>> ELSE <<Says("opened", id, key)>>
  <2>1. Eff(c, <<>>).b = c /\ Eff(c, <<>>).out = <<>>
    BY EffParts
  <2> HIDE DEF over
  <2>2. f = IF key = Popup \/ over \/ b.shutdown # NoId THEN Eff(c, <<>>)
            ELSE Answer(Eff(c, <<>>), "opened", id, key)
    BY <1>3 DEF Created, over, window
  <2>3. Answer(Eff(c, <<>>), "opened", id, key) = Eff(c, Append(<<>>, Says("opened", id, key)))
    BY DEF Answer, Eff
  <2>4. Append(<<>>, Says("opened", id, key)) = <<Says("opened", id, key)>>
    OBVIOUS
  <2> HIDE DEF f
  <2> QED BY <2>1, <2>2, <2>3, <2>4, EffParts
<1> HIDE DEF f
<1>8. Fine(f.b)
  BY <1>5, <1>6, <1>7 DEF Fine
<1> QED BY <1>4, <1>5, <1>7, <1>8 DEF f

-----------------------------------------------------------------------------
(* The browser's actions *)

Moves(p) ==
    \E c, s, t :
        /\ browser' = [browser EXCEPT ![p] = c] /\ requests' = [requests EXCEPT ![p] = s]
        /\ replies' = [replies EXCEPT ![p] = t]
        /\ Follows(browser[p], requests[p], replies[p], c, s, t,
                   process[p].next, Wanted(p), guard[p].state)

\* What the invariant says of one browser.
LEMMA TalkView ==
  ASSUME TalkInv, TypeOK, NEW p \in Profiles
  PROVE  /\ Fine(browser[p]) /\ requests[p] \in Seq(Request) /\ replies[p] \in Seq(Reply)
         /\ process[p].next \in Nat /\ Wanted(p) \in Keys \cup {None}
         /\ Conversation(browser[p], requests[p], replies[p],
                         process[p].next, Wanted(p), guard[p].state)
         /\ browser[p].windows # <<>> => ~browser[p].quitting
         /\ On(p) => Prepared(browser[p])
         /\ browser = [browser EXCEPT ![p] = browser[p]]
         /\ requests = [requests EXCEPT ![p] = requests[p]]
         /\ replies = [replies EXCEPT ![p] = replies[p]]
<1>1. Talk(p)
  BY DEF TalkInv
<1>2. process[p].next \in Nat /\ Wanted(p) \in Keys \cup {None}
  BY DEF TypeOK, Wanted
<1>3. browser = [browser EXCEPT ![p] = browser[p]]
  BY DEF TalkInv
<1>4. requests = [requests EXCEPT ![p] = requests[p]]
  BY DEF TalkInv
<1>5. replies = [replies EXCEPT ![p] = replies[p]]
  BY DEF TalkInv
<1>7. browser[p].windows # <<>> => ~browser[p].quitting
  BY <1>1 DEF Talk, Fine, Screens
<1> QED BY <1>1, <1>2, <1>3, <1>4, <1>5, <1>7 DEF Talk

\* A step of a browser that is running is one of an open window or a stop.
LEMMA EndsMove ==
  ASSUME TalkInv, TypeOK, NEW p \in Profiles, ~browser[p].quitting, NEW f, Now(p, f),
         Ends(browser[p], f), requests' = requests
  PROVE  Moves(p)
<1>1. Follows(browser[p], requests[p], replies[p], f.b, requests[p], replies[p] \o f.out,
              process[p].next, Wanted(p), guard[p].state)
  <2>1. /\ Fine(browser[p]) /\ requests[p] \in Seq(Request) /\ replies[p] \in Seq(Reply)
        /\ process[p].next \in Nat /\ Wanted(p) \in Keys \cup {None}
        /\ Conversation(browser[p], requests[p], replies[p],
                        process[p].next, Wanted(p), guard[p].state)
    BY TalkView
  <2> QED BY <2>1, EndsFollows
<1>2. /\ browser' = [browser EXCEPT ![p] = f.b] /\ requests' = [requests EXCEPT ![p] = requests[p]]
      /\ replies' = [replies EXCEPT ![p] = replies[p] \o f.out]
  BY TalkView DEF Now
<1> QED BY <1>1, <1>2 DEF Moves

\* The reader thread posts the request; the pipe of a running browser is not closed.
LEMMA PostMoves ==
  ASSUME TalkInv, TypeOK, NEW p \in Profiles, Post(p)
  PROVE  Moves(p)
<1> DEFINE b == browser[p]
           q == requests[p]
           r == replies[p]
           next == process[p].next
           opening == Wanted(p)
           c == [b EXCEPT !.tasks = Append(@, Head(q))]
<1>0. On(p) /\ ~b.quitting /\ replies' = replies
  BY DEF Post
<1>1. /\ q # <<>> /\ browser' = [browser EXCEPT ![p] = c]
      /\ requests' = [requests EXCEPT ![p] = Tail(q)]
  <2>1. input[p]
    BY <1>0 DEF TalkInv, Talk
  <2> QED BY <2>1 DEF Post
<1> HIDE DEF b, q, r, next, opening, c
<1>2. /\ Fine(b) /\ Conversation(b, q, r, next, opening, guard[p].state) /\ r \in Seq(Reply)
      /\ replies = [replies EXCEPT ![p] = r]
  BY TalkView DEF b, q, r, next, opening
<1>3. InPipe(b, q, r, next, opening)
  BY <1>1, <1>2 DEF Conversation, InTasks, InBoot, InMaking, InShutdown, InAnswer, Silent
<1>4. PICK a \in Request : q = <<a>> /\ Asked(a, next, opening)
  BY <1>3 DEF InPipe
<1>5. Head(q) = a /\ Tail(q) = <<>> /\ b.tasks = <<>> /\ Append(<<>>, a) = <<a>>
  BY <1>3, <1>4 DEF InPipe, NoWork
<1>6. c = [b EXCEPT !.tasks = <<a>>]
  BY <1>5 DEF c
<1>7. <<a>> \in Seq(Request) /\ <<a>> # <<>> /\ <<>> \in Seq(Request)
  OBVIOUS
<1>8. /\ Fine(c) /\ c.boot = b.boot /\ c.creating = b.creating /\ c.lastId = b.lastId
      /\ c.tasks = <<a>> /\ c.shutdown = b.shutdown /\ c.windows = b.windows
      /\ c.quitting = b.quitting /\ c.context = b.context
  BY <1>2, <1>6, <1>7, TasksSet
<1>9. InTasks(c, <<>>, r, next, opening)
  BY <1>3, <1>4, <1>8 DEF InPipe, InTasks, NoWork
<1>10. Conversation(c, <<>>, r, next, opening, guard[p].state)
  BY <1>2, <1>8, <1>9 DEF Conversation
<1>11. ~Silent(b, q, r) /\ ~Silent(c, <<>>, r) /\ (Fits(b) => Fits(c))
  BY <1>1, <1>7, <1>8 DEF Silent, NoWork, Fits
<1>12. Follows(b, q, r, c, <<>>, r, next, opening, guard[p].state)
  BY <1>0, <1>2, <1>7, <1>8, <1>10, <1>11 DEF Follows, Prepared, b
<1> QED BY <1>0, <1>1, <1>2, <1>5, <1>12 DEF Moves, b, q, r, next, opening

\* An idle browser handles the request it was started with or has posted.
LEMMA HandleMoves ==
  ASSUME TalkInv, TypeOK, NEW p \in Profiles, NEW c, NEW a \in Request, NEW rejected \in BOOLEAN,
         Now(p, Handle(c, a, rejected)), requests' = requests,
         Fine(c), NoWork(c), c.shutdown = NoId, c.lastId < process[p].next,
         c.quitting = browser[p].quitting, Asked(a, process[p].next, Wanted(p)),
         ~Silent(browser[p], requests[p], replies[p]),
         requests[p] = <<>>, replies[p] = <<>>, c.context
  PROVE  Moves(p)
<1> DEFINE f == Handle(c, a, rejected)
           b == browser[p]
           next == process[p].next
           opening == Wanted(p)
<1>1. browser' = [browser EXCEPT ![p] = f.b] /\ replies' = [replies EXCEPT ![p] = <<>> \o f.out]
  BY DEF Now
<1> HIDE DEF f, b, next, opening
<1>2. next \in Nat /\ opening \in Keys \cup {None}
      /\ requests = [requests EXCEPT ![p] = <<>>]
  BY TalkView DEF next, opening
<1>3. /\ f.b.context /\ Fine(f.b) /\ f.out \in Seq(Reply) /\ (c.quitting => f.b.quitting) /\ Fits(f.b)
      /\ Conversation(f.b, <<>>, f.out, next, opening, guard[p].state)
      /\ ~Silent(f.b, <<>>, f.out)
  BY <1>2, HandleFollows DEF f, next, opening
<1>4. <<>> \o f.out = f.out /\ <<>> \in Seq(Request)
  <2> HIDE DEF Reply
  <2> QED BY <1>3
<1>5. Follows(b, <<>>, <<>>, f.b, <<>>, f.out, next, opening, guard[p].state)
  BY <1>3, <1>4 DEF Follows, Prepared, b
<1> QED BY <1>1, <1>2, <1>4, <1>5 DEF Moves, b, next, opening

\* The boot creates its screen, or answers that it cannot.
LEMMA BootMoves ==
  ASSUME TalkInv, TypeOK, NEW p \in Profiles, Boot(p)
  PROVE  Moves(p)
<1> DEFINE b == browser[p]
           c == [b EXCEPT !.boot = None]
           q == requests[p]
           r == replies[p]
           next == process[p].next
           opening == Wanted(p)
           a == Open(1, b.boot)
<1>1. b.boot # None /\ b.context /\ requests' = requests
  BY DEF Boot
<1>2. \E rejected \in BOOLEAN : Now(p, IF b.shutdown # NoId THEN MaybeQuit(Effect(c))
                                       ELSE Handle(c, a, rejected))
  BY DEF Boot
<1> HIDE DEF b, c, q, r, next, opening, a
<1>3. /\ Fine(b) /\ Conversation(b, q, r, next, opening, guard[p].state)
      /\ opening \in Keys \cup {None}
  BY TalkView DEF b, q, r, next, opening
<1>4. InBoot(b, q, r, next, opening)
  BY <1>1, <1>3
  DEF Conversation, InTasks, InPipe, InMaking, InShutdown, InAnswer, Silent, NoWork
<1>5. PICK rejected \in BOOLEAN : Now(p, Handle(c, a, rejected))
  BY <1>2, <1>4 DEF InBoot
<1>6. a \in Request /\ Asked(a, next, opening)
  BY <1>1, <1>3, <1>4 DEF a, InBoot, Open, Task, Request, Asked
<1>7. /\ Fine(c) /\ NoWork(c) /\ c.shutdown = NoId /\ c.lastId < next /\ c.quitting = b.quitting
      /\ c.context
  BY <1>1, <1>3, <1>4, BootSet DEF c, InBoot, NoWork
<1>8. ~Silent(b, q, r) /\ q = <<>> /\ r = <<>>
  BY <1>1, <1>4 DEF Silent, NoWork, InBoot
<1> QED BY <1>1, <1>5, <1>6, <1>7, <1>8, HandleMoves DEF b, q, r, next, opening

\* The UI thread handles the one task there is.
LEMMA DispatchMoves ==
  ASSUME TalkInv, TypeOK, NEW p \in Profiles, Dispatch(p)
  PROVE  Moves(p)
<1> DEFINE b == browser[p]
           c == [b EXCEPT !.tasks = Tail(@)]
           q == requests[p]
           r == replies[p]
           next == process[p].next
           opening == Wanted(p)
<1>1. b.tasks # <<>> /\ requests' = requests /\ On(p)
  BY DEF Dispatch
<1>2. PICK rejected \in BOOLEAN : Now(p, Handle(c, Head(b.tasks), rejected))
  BY DEF Dispatch
<1> HIDE DEF b, c, q, r, next, opening
<1>3. /\ Fine(b) /\ Conversation(b, q, r, next, opening, guard[p].state)
      /\ opening \in Keys \cup {None} /\ Prepared(b)
  BY <1>1, TalkView DEF b, q, r, next, opening
<1>4. InTasks(b, q, r, next, opening)
  BY <1>1, <1>3
  DEF Conversation, InBoot, InPipe, InMaking, InShutdown, InAnswer, Silent, NoWork
<1>5. PICK a \in Request : b.tasks = <<a>> /\ Asked(a, next, opening)
  BY <1>4 DEF InTasks
<1>6. Head(b.tasks) = a /\ Tail(b.tasks) = <<>> /\ <<>> \in Seq(Request)
  BY <1>5
<1>7. c = [b EXCEPT !.tasks = <<>>]
  BY <1>6 DEF c
<1>8. /\ Fine(c) /\ NoWork(c) /\ c.shutdown = NoId /\ c.lastId < next /\ c.quitting = b.quitting
      /\ c.context
  BY <1>3, <1>4, <1>6, <1>7, TasksSet DEF InTasks, NoWork, Prepared
<1>9. ~Silent(b, q, r) /\ q = <<>> /\ r = <<>>
  BY <1>1, <1>4 DEF Silent, NoWork, InTasks
<1> QED BY <1>1, <1>2, <1>5, <1>6, <1>8, <1>9, HandleMoves DEF b, q, r, next, opening

\* The creation under way ends with its window and its answer, or without.
LEMMA CreateMoves ==
  ASSUME TalkInv, TypeOK, NEW p \in Profiles, Create(p)
  PROVE  Moves(p)
<1> DEFINE b == browser[p]
           q == requests[p]
           r == replies[p]
           next == process[p].next
           opening == Wanted(p)
           a == [id |-> next, key |-> opening]
           d == [b EXCEPT !.creating = {}]
           f == Created(d, opening, next)
<1>1. requests' = requests /\ b.creating # {}
  BY DEF Create
<1>2. PICK x \in {y \in b.creating : y.key # None} :
        Now(p, Created([b EXCEPT !.creating = @ \ {x}], x.key, x.id))
  BY DEF Create
<1> HIDE DEF b, q, r, next, opening, f
<1>3. /\ Fine(b) /\ Conversation(b, q, r, next, opening, guard[p].state)
      /\ next \in Nat /\ requests = [requests EXCEPT ![p] = q] /\ q \in Seq(Request)
  BY TalkView DEF b, q, r, next, opening
<1>4. InMaking(b, q, r, next, opening)
  BY <1>1, <1>3
  DEF Conversation, InBoot, InPipe, InTasks, InShutdown, InAnswer, Silent, NoWork
<1>5. /\ x = a /\ x.key = opening /\ x.id = next /\ [b EXCEPT !.creating = @ \ {x}] = d
      /\ opening \in Keys /\ r = <<>> /\ q = <<>>
  <2>1. b.creating = {a} /\ opening \in Keys /\ r = <<>> /\ q = <<>>
    BY <1>4 DEF InMaking
  <2>2. x = a /\ b.creating \ {x} = {}
    BY <1>2, <2>1
  <2> QED BY <2>1, <2>2
<1>6. /\ browser' = [browser EXCEPT ![p] = f.b] /\ replies' = [replies EXCEPT ![p] = r \o f.out]
  <2> HIDE DEF d
  <2> QED BY <1>2, <1>5 DEF Now, f, r
<1>7. /\ Fine(d) /\ d.boot = b.boot /\ d.creating = {} /\ d.lastId = b.lastId
      /\ d.tasks = b.tasks /\ d.shutdown = b.shutdown /\ d.windows = b.windows
      /\ d.quitting = b.quitting /\ d.context = b.context
  BY <1>3, NotCreating
<1> HIDE DEF d
<1>8. ~b.quitting /\ \A i \in DOMAIN b.windows : b.windows[i].key # opening
  BY <1>1, <1>3, <1>4 DEF Fine, Screens, InMaking
<1>9. /\ Fine(f.b) /\ f.b.boot = d.boot /\ f.b.creating = d.creating /\ f.b.lastId = d.lastId
      /\ f.b.tasks = d.tasks /\ f.b.shutdown = d.shutdown /\ f.b.context = d.context
      /\ f.out = IF \/ opening = Popup \/ Len(d.windows) + 1 > MaxScreens \/ d.shutdown # NoId
                 THEN <<>> ELSE <<Says("opened", next, opening)>>
  <2>1. d.boot = None /\ ~d.quitting /\ opening \in Keys \cup {Popup} /\ NewKey(d, opening)
    BY <1>4, <1>5, <1>7, <1>8 DEF InMaking, NewKey
  <2> QED BY <1>7, <2>1, CreatedIs DEF f
<1>10. NoWork(f.b) /\ f.b.lastId <= next /\ f.b.shutdown = NoId
  BY <1>3, <1>4, <1>7, <1>9 DEF NoWork, InMaking, Conversation
<1>11. Fits(f.b) /\ ~Silent(b, q, r)
  BY <1>1, <1>10 DEF Fits, Silent, NoWork
<1> SUFFICES Follows(b, q, r, f.b, q, r \o f.out, next, opening, guard[p].state)
  BY <1>1, <1>3, <1>6 DEF Moves, b, q, r, next, opening
<1>12. CASE f.out = <<>> /\ (MaxBorn < MaxScreens => ~Fits(b))
  <2>1. r \o f.out = <<>> /\ <<>> \in Seq(Reply)
    BY <1>5, <1>12
  <2>2. Silent(f.b, q, <<>>)
    BY <1>5, <1>10 DEF Silent
  <2>3. Conversation(f.b, q, <<>>, next, opening, guard[p].state)
    BY <1>10, <2>2 DEF Conversation
  <2> HIDE DEF f
  <2>4. Follows(b, q, r, f.b, q, <<>>, next, opening, guard[p].state)
    BY <1>3, <1>7, <1>8, <1>9, <1>11, <1>12, <2>1, <2>3 DEF Follows, Prepared
  <2> QED BY <2>1, <2>4
<1>13. CASE f.out = <<Says("opened", next, opening)>>
  <2> DEFINE s == Says("opened", next, opening)
  <2>1. s \in Reply /\ s.event = "opened" /\ s.id = next /\ s.key = opening
        /\ <<s>> \in Seq(Reply) /\ <<>> \o <<s>> = <<s>> /\ <<s>> # <<>>
    BY <1>3, <1>5, OneReply
  <2>2. r \o f.out = <<s>>
    <3> HIDE DEF s
    <3>1. f.out = <<s>>
      BY <1>13 DEF s
    <3> QED BY <1>5, <2>1, <3>1
  <2> HIDE DEF s
  <2>3. InAnswer(f.b, q, <<s>>, next, opening, guard[p].state)
    <3>1. Answers(s, next, opening) /\ s.event # "stopped"
      BY <1>5, <2>1, BrowserAssumption DEF Answers
    <3> QED BY <1>5, <1>10, <2>1, <3>1 DEF InAnswer
  <2>4. Conversation(f.b, q, <<s>>, next, opening, guard[p].state)
    BY <1>10, <2>3 DEF Conversation
  <2>5. ~Silent(f.b, q, <<s>>)
    BY <2>1 DEF Silent
  <2>6. Follows(b, q, r, f.b, q, <<s>>, next, opening, guard[p].state)
    BY <1>3, <1>7, <1>8, <1>9, <1>11, <2>1, <2>4, <2>5 DEF Follows, Prepared
  <2> QED BY <2>2, <2>6
<1>14. \/ f.out = <<>> /\ (MaxBorn < MaxScreens => ~Fits(b))
       \/ f.out = <<Says("opened", next, opening)>>
  <2>1. Len(b.windows) \in Nat /\ MaxScreens \in Nat
    BY <1>3, BrowserAssumption DEF Fine, Browser
  <2>2. opening # Popup /\ d.shutdown = NoId
    BY <1>4, <1>5, <1>7, BrowserAssumption DEF InMaking
  <2>3. CASE Len(b.windows) + 1 > MaxScreens
    <3>1. ~Fits(b)
      BY <1>1, <2>1, <2>3 DEF Fits
    <3> QED BY <1>7, <1>9, <2>3, <3>1
  <2>4. CASE ~(Len(b.windows) + 1 > MaxScreens)
    BY <1>7, <1>9, <2>2, <2>4
  <2> QED BY <2>3, <2>4
<1> QED BY <1>12, <1>13, <1>14

\* A site's popup answers nobody.
LEMMA OpenPopupMoves ==
  ASSUME TalkInv, TypeOK, NEW p \in Profiles, OpenPopup(p)
  PROVE  Moves(p)
<1> DEFINE b == browser[p]
           q == requests[p]
           r == replies[p]
           next == process[p].next
           opening == Wanted(p)
           f == Created(b, Popup, 0)
           c == f.b
<1>1. requests' = requests /\ b.windows # <<>> /\ b.born < MaxBorn
  BY DEF OpenPopup
<1>2. browser' = [browser EXCEPT ![p] = c] /\ replies' = [replies EXCEPT ![p] = r \o f.out]
  BY DEF OpenPopup, Now
<1> HIDE DEF b, q, r, next, opening, f
<1>3. /\ Fine(b) /\ Conversation(b, q, r, next, opening, guard[p].state)
      /\ requests = [requests EXCEPT ![p] = q] /\ q \in Seq(Request) /\ r \in Seq(Reply)
      /\ ~b.quitting
  BY <1>1, TalkView DEF b, q, r, next, opening
<1>4. b.boot = None /\ Popup \in Keys \cup {Popup} /\ Len(b.windows) <= b.born
  BY <1>1, <1>3 DEF Fine, Screens
<1>5. \A x \in b.creating : x.key # Popup
  BY <1>3, BrowserAssumption DEF Fine, Browser, Creation
<1>6. /\ Fine(c) /\ c.boot = b.boot /\ c.creating = b.creating /\ c.lastId = b.lastId
      /\ c.tasks = b.tasks /\ c.shutdown = b.shutdown /\ c.quitting = b.quitting
      /\ Len(c.windows) = Len(b.windows) + 1 /\ f.out = <<>> /\ c.context = b.context
  <2>1. NewKey(b, Popup)
    BY <1>5 DEF NewKey
  <2> DEFINE key == Popup
  <2>2. key \in Keys \cup {Popup} /\ NewKey(b, key) /\ f = Created(b, key, 0)
    BY <2>1 DEF f
  <2> HIDE DEF key
  <2>3. /\ Fine(f.b) /\ f.b.boot = b.boot /\ f.b.creating = b.creating /\ f.b.lastId = b.lastId
        /\ f.b.tasks = b.tasks /\ f.b.shutdown = b.shutdown /\ f.b.quitting = b.quitting
        /\ Len(f.b.windows) = Len(b.windows) + 1 /\ f.b.context = b.context
        /\ f.out = IF key = Popup \/ Len(b.windows) + 1 > MaxScreens \/ b.shutdown # NoId
                   THEN <<>> ELSE <<Says("opened", 0, key)>>
    BY <1>3, <1>4, <2>2, CreatedIs
  <2>4. key = Popup
    BY DEF key
  <2> QED BY <2>3, <2>4
<1> HIDE DEF c
<1>7. r \o f.out = r
  <2> HIDE DEF Reply
  <2> QED BY <1>3, <1>6
<1>8. Conversation(c, q, r, next, opening, guard[p].state)
  <2>1. NoWork(b) <=> NoWork(c)
    BY <1>6 DEF NoWork
  <2>2. InAnswer(b, q, r, next, opening, guard[p].state)
          => InAnswer(c, q, r, next, opening, guard[p].state)
    BY <1>6, <2>1 DEF InAnswer
  <2>3. InPipe(b, q, r, next, opening) => InPipe(c, q, r, next, opening)
    BY <1>6, <2>1 DEF InPipe
  <2>4. InTasks(b, q, r, next, opening) => InTasks(c, q, r, next, opening)
    BY <1>6 DEF InTasks
  <2>5. InBoot(b, q, r, next, opening) => InBoot(c, q, r, next, opening)
    BY <1>6 DEF InBoot
  <2>6. InMaking(b, q, r, next, opening) => InMaking(c, q, r, next, opening)
    BY <1>6 DEF InMaking
  <2>7. InShutdown(b, q, r, next, opening) => InShutdown(c, q, r, next, opening)
    BY <1>6, <2>1 DEF InShutdown
  <2>8. Silent(b, q, r) => Silent(c, q, r)
    BY <1>6, <2>1 DEF Silent
  <2>9. c.lastId <= next
    BY <1>3, <1>6 DEF Conversation
  <2> QED BY <1>3, <2>2, <2>3, <2>4, <2>5, <2>6, <2>7, <2>8, <2>9 DEF Conversation
<1>9. Silent(b, q, r) <=> Silent(c, q, r)
  BY <1>6 DEF Silent, NoWork
<1>10. MaxBorn < MaxScreens => Fits(c)
  <2>1. Len(b.windows) \in Nat /\ b.born \in Nat /\ MaxScreens \in Nat /\ MaxBorn \in Nat
    BY <1>3, BrowserAssumption DEF Fine, Browser
  <2>2. MaxBorn < MaxScreens => Len(c.windows) < MaxScreens
    BY <1>1, <1>4, <1>6, <2>1
  <2> QED BY <2>2 DEF Fits
<1>11. Follows(b, q, r, c, q, r, next, opening, guard[p].state)
  BY <1>3, <1>6, <1>8, <1>9, <1>10 DEF Follows, Prepared
<1> QED BY <1>1, <1>2, <1>3, <1>7, <1>11 DEF Moves, b, q, r, next, opening

\* A window that closes, stays or is observed answers a recorded shutdown at most.
LEMMA WindowMoves ==
  ASSUME TalkInv, TypeOK, NEW p \in Profiles, NEW i \in Windows(p),
         \/ Leave(p, i)
         \/ Stay(p, i)
         \/ \E success \in BOOLEAN : Observe(p, i, success)
  PROVE  Moves(p)
<1> DEFINE b == browser[p]
<1>1. Fine(b) /\ ~b.quitting /\ i \in DOMAIN b.windows
  <2>1. b.windows # <<>> /\ i \in DOMAIN b.windows
    BY DEF Windows
  <2> QED BY <2>1, TalkView
<1>2. CASE Leave(p, i)
  <2>1. Now(p, Gone(b, i)) /\ requests' = requests
    BY <1>2 DEF Leave
  <2>2. Ends(b, Gone(b, i))
    BY <1>1, GoneEnds
  <2> QED BY <1>1, <2>1, <2>2, EndsMove
<1> DEFINE stays == Answer(Effect([b EXCEPT !.shutdown = NoId]), "cancelled", b.shutdown, None)
           missed == Effect([b EXCEPT !.windows[i].watch = "missed"])
<1>5. ASSUME Stay(p, i)
      PROVE  /\ requests' = requests /\ b.shutdown # NoId
             /\ Now(p, stays) \/ Now(p, missed)
  BY <1>5 DEF Stay
<1>6. CASE Stay(p, i) /\ Now(p, missed)
  <2> DEFINE seen == [b EXCEPT !.windows[i].watch = "missed"]
  <2>1. missed = Eff(seen, <<>>)
    BY DEF Effect, Eff
  <2>2. Same(b, seen)
    BY <1>1, WatchSet
  <2> HIDE DEF seen, b, missed
  <2>3. Ends(b, missed)
    BY <2>1, <2>2, NothingAsked, SameAsks, AsksEnds DEF Same
  <2> QED BY <1>1, <1>5, <1>6, <2>3, EndsMove DEF b
<1>3. CASE Stay(p, i) /\ Now(p, stays)
  <2> DEFINE f == stays
  <2>1. Now(p, f) /\ requests' = requests /\ b.shutdown # NoId
    BY <1>3, <1>5
  <2>2. f = Answer(Eff([b EXCEPT !.shutdown = NoId], <<>>), "cancelled", b.shutdown, None)
    BY DEF Effect, Eff
  <2> HIDE DEF b
  <2>3. Asks(b, f)
    BY <1>1, <2>1, <2>2, GivenUp
  <2> HIDE DEF f
  <2>4. Ends(b, f)
    BY <2>3, AsksEnds
  <2> QED BY <1>1, <2>1, <2>4, EndsMove DEF b
<1>4. ASSUME NEW success \in BOOLEAN, Observe(p, i, success)
      PROVE  Moves(p)
  <2> DEFINE watch == IF success THEN "ready" ELSE "failed"
             seen == [b EXCEPT !.windows[i].watch = watch]
             f == IF success THEN Effect(seen) ELSE CloseUnavailable(Effect(seen))
  <2>1. Now(p, f) /\ requests' = requests
    BY <1>4 DEF Observe
  <2>2. watch \in {"idle", "pending", "ready", "failed", "missed"}
    OBVIOUS
  <2> HIDE DEF b, watch
  <2>3. Same(b, seen)
    BY <1>1, <2>2, WatchSet
  <2> HIDE DEF seen
  <2>4. Asks(seen, Eff(seen, <<>>)) /\ Asks(seen, CloseUnavailable(Eff(seen, <<>>)))
    BY <2>3, NothingAsked, CloseUnavailableAsks DEF Same
  <2>5. f = Eff(seen, <<>>) \/ f = CloseUnavailable(Eff(seen, <<>>))
    BY DEF Effect, Eff
  <2> HIDE DEF f
  <2>6. Ends(b, f)
    BY <2>3, <2>4, <2>5, SameAsks, AsksEnds
  <2> QED BY <1>1, <2>1, <2>6, EndsMove DEF b
<1> QED BY <1>2, <1>3, <1>4, <1>5, <1>6

\* The context is ready: nothing is asked or answered.
LEMMA ContextMoves ==
  ASSUME TalkInv, TypeOK, NEW p \in Profiles, ContextInitialized(p)
  PROVE  Moves(p)
<1> DEFINE b == browser[p]
           q == requests[p]
           r == replies[p]
           next == process[p].next
           opening == Wanted(p)
           v == TRUE
           c == [b EXCEPT !.context = v]
<1>1. browser' = [browser EXCEPT ![p] = c] /\ requests' = requests /\ replies' = replies
  BY DEF ContextInitialized
<1>v. v \in BOOLEAN /\ v
  OBVIOUS
<1> HIDE DEF b, q, r, next, opening, v
<1>2. /\ Fine(b) /\ Conversation(b, q, r, next, opening, guard[p].state)
      /\ q \in Seq(Request) /\ r \in Seq(Reply)
      /\ requests = [requests EXCEPT ![p] = q] /\ replies = [replies EXCEPT ![p] = r]
  BY TalkView DEF b, q, r, next, opening
<1>3. /\ c \in Browser /\ c.boot = b.boot /\ c.creating = b.creating /\ c.lastId = b.lastId
      /\ c.tasks = b.tasks /\ c.shutdown = b.shutdown /\ c.windows = b.windows
      /\ c.quitting = b.quitting /\ c.context = v /\ c.born = b.born
  <2> HIDE DEF Window, Request, Creation
  <2> QED BY <1>v, <1>2 DEF Fine, Browser
<1> HIDE DEF c
<1>4. Fine(c) /\ Prepared(c) /\ (NoWork(c) <=> NoWork(b)) /\ (Fits(b) => Fits(c))
  BY <1>v, <1>2, <1>3 DEF Fine, Screens, Prepared, NoWork, Fits
<1>5. Conversation(c, q, r, next, opening, guard[p].state)
  BY <1>2, <1>3, <1>4 DEF Conversation, InPipe, InTasks, InBoot, InMaking, InShutdown,
                          InAnswer, Silent
<1>6. Silent(c, q, r) <=> Silent(b, q, r)
  BY <1>3, <1>4 DEF Silent
<1>7. Follows(b, q, r, c, q, r, next, opening, guard[p].state)
  BY <1>2, <1>3, <1>4, <1>5, <1>6 DEF Follows
<1> QED BY <1>1, <1>2, <1>7 DEF Moves, b, q, r, next, opening

\* Whatever a browser does, the conversation goes on.
LEMMA NativeMoves ==
  ASSUME TalkInv, TypeOK, NEW p \in Profiles, Native(p)
  PROVE  /\ Moves(p) /\ input' = input
         /\ run' = run \/ \E s \in {"left", "dead"} : run' = [run EXCEPT ![p] = s]
<1>1. CASE Exit(p) \/ Crash(p)
  <2>1. /\ browser' = browser /\ requests' = requests /\ replies' = replies /\ input' = input
        /\ \E s \in {"left", "dead"} : run' = [run EXCEPT ![p] = s]
    BY <1>1 DEF Exit, Crash
  <2>2. Follows(browser[p], requests[p], replies[p], browser[p], requests[p], replies[p],
                process[p].next, Wanted(p), guard[p].state)
    BY TalkView DEF Follows
  <2> QED BY <2>1, <2>2, TalkView DEF Moves
<1>2. CASE Post(p)
  BY <1>2, PostMoves DEF Post
<1>3. CASE Boot(p)
  BY <1>3, BootMoves DEF Boot
<1>4. CASE Dispatch(p)
  BY <1>4, DispatchMoves DEF Dispatch
<1>5. CASE Create(p)
  BY <1>5, CreateMoves DEF Create
<1>6. CASE OpenPopup(p)
  BY <1>6, OpenPopupMoves DEF OpenPopup
<1>7. ASSUME NEW i \in Windows(p),
             \/ Leave(p, i) \/ Stay(p, i) \/ \E success \in BOOLEAN : Observe(p, i, success)
      PROVE  Moves(p) /\ input' = input /\ run' = run
  BY <1>7, WindowMoves DEF Leave, Stay, Observe
<1>8. CASE ContextInitialized(p)
  BY <1>8, ContextMoves DEF ContextInitialized
<1> QED BY <1>1, <1>2, <1>3, <1>4, <1>5, <1>6, <1>7, <1>8 DEF Native

-----------------------------------------------------------------------------
(* The browsers' steps keep the invariant *)

\* A browser just started, or ended.
LEMMA NewBrowserIs ==
  ASSUME NEW key \in Keys \cup {None}
  PROVE  LET b == NewBrowser(key)
         IN  /\ Fine(b) /\ b.boot = key /\ b.tasks = <<>> /\ b.creating = {} /\ b.lastId = 0
             /\ b.shutdown = NoId /\ b.windows = <<>> /\ Fits(b)
<1> DEFINE b == NewBrowser(key)
<1>1. /\ b.boot = key /\ b.tasks = <<>> /\ b.creating = {} /\ b.lastId = 0
      /\ b.shutdown = NoId /\ b.windows = <<>> /\ b.born = 0 /\ b.quitting = FALSE
  BY DEF NewBrowser
<1>2. b \in Browser
  <2> HIDE DEF Window, Request, Creation
  <2>1. <<>> \in Seq(Window) /\ <<>> \in Seq(Request) /\ {} \in SUBSET Creation
        /\ NoId \in Nat \cup {NoId} /\ FALSE \in BOOLEAN /\ FALSE \in {FALSE} /\ 0 \in Nat
    OBVIOUS
  <2> QED BY <2>1 DEF NewBrowser, Browser
<1> HIDE DEF b
<1>3. Screens(b) /\ Fits(b)
  BY <1>1 DEF Screens, Fits
<1> QED BY <1>1, <1>2, <1>3 DEF Fine, b

\* What a step of a browser leaves of the invariant: the conversation of each, and
\* what the adapter knows of it.
LEMMA TalkNative ==
  ASSUME IInv, TalkInv, NEW p \in Profiles, Native(p), UNCHANGED adapterVars
  PROVE  TalkInv' /\ (MaxBorn < MaxScreens /\ Doubted => Doubted')
<1>1. UNCHANGED <<tracked, process, guard, jobs, lock, phase>> /\ On(p)
  BY DEF adapterVars, Native, Post, ContextInitialized, Boot, Dispatch, Create, OpenPopup,
         Exit, Crash, Leave, Stay, Observe
<1>2. PICK c, s, t :
        /\ browser' = [browser EXCEPT ![p] = c] /\ requests' = [requests EXCEPT ![p] = s]
        /\ replies' = [replies EXCEPT ![p] = t]
        /\ Follows(browser[p], requests[p], replies[p], c, s, t,
                   process[p].next, Wanted(p), guard[p].state)
  BY NativeMoves DEF Moves, IInv
<1>3. input' = input /\ \A q \in Profiles : On(q)' => On(q)
  BY NativeMoves, NativeKeeps DEF IInv, On
<1>4. /\ Fine(c) /\ s \in Seq(Request) /\ t \in Seq(Reply)
      /\ Prepared(browser[p]) => Prepared(c)
      /\ Conversation(c, s, t, process[p].next, Wanted(p), guard[p].state)
      /\ browser[p].quitting => c.quitting
      /\ Silent(browser[p], requests[p], replies[p])
            => Silent(c, s, t) /\ c.lastId = browser[p].lastId
      /\ MaxBorn < MaxScreens /\ Fits(browser[p])
            => Fits(c) /\ (~Silent(browser[p], requests[p], replies[p]) => ~Silent(c, s, t))
  BY <1>2 DEF Follows
<1>5. /\ browser' \in [Profiles -> Browser] /\ requests' \in [Profiles -> Seq(Request)]
      /\ replies' \in [Profiles -> Seq(Reply)] /\ input' \in [Profiles -> BOOLEAN]
  <2> HIDE DEF Browser, Request, Reply
  <2> QED BY <1>2, <1>3, <1>4 DEF TalkInv, Fine
<1>6. /\ browser'[p] = c /\ requests'[p] = s /\ replies'[p] = t
      /\ \A q \in Profiles \ {p} : /\ browser'[q] = browser[q] /\ requests'[q] = requests[q]
                                   /\ replies'[q] = replies[q]
  <2> HIDE DEF Browser, Request, Reply
  <2> QED BY <1>2 DEF TalkInv
<1>7. \A q \in Profiles : Talk(q)'
  <2> SUFFICES ASSUME NEW q \in Profiles PROVE Talk(q)'
    OBVIOUS
  <2>1. Talk(q)
    BY DEF TalkInv
  <2>2. CASE q = p
    <3>1. ~Over(p)'
      BY <1>1 DEF Over, IInv, EndedGuards
    <3>2. On(p)' /\ ~input'[p] => c.quitting
      BY <1>3, <1>4, <2>1, <2>2 DEF Talk
    <3>3. Conversation(c, s, t, process'[p].next, Wanted(p)', guard'[p].state)
      BY <1>1, <1>4 DEF Wanted
    <3>4. /\ On(p)' => Prepared(c)
          /\ process'[p].late # None => process'[p].uncertain
      BY <1>1, <1>3, <1>4, <2>1, <2>2 DEF Talk
    <3> QED BY <1>4, <1>6, <2>2, <3>1, <3>2, <3>3, <3>4 DEF Talk
  <2>3. CASE q # p
    BY <1>1, <1>3, <1>6, <2>1, <2>3 DEF Talk, Over, Wanted
  <2> QED BY <2>2, <2>3
<1>8. \A q : Waiting(q)' <=> Waiting(q)
  BY <1>1 DEF Waiting, Profile
<1>9. tracked \subseteq Profiles
  BY DEF IInv, TypeOK
<1>10. Certain'
  BY <1>1, <1>4, <1>6, <1>8, <1>9 DEF Certain, TalkInv
<1>11. \A q \in Profiles : browser[q].quitting => browser'[q].quitting
  BY <1>4, <1>6
<1>12. \A j \in Jobs : Awaits(j)'
  <2> SUFFICES ASSUME NEW j \in Jobs PROVE Awaits(j)'
    OBVIOUS
  <2>0. PICK k \in Profiles : k = Profile(j)
    BY DEF IInv, TypeOK, Profile
  <2>1. Awaits(j)
    BY DEF TalkInv
  <2>2. At(j, "ending") => ~On(k)' \/ browser'[k].quitting
    BY <1>3, <1>11, <2>0, <2>1 DEF Awaits
  <2> QED BY <1>1, <2>0, <2>1, <2>2 DEF Awaits, At, Profile, Inside
<1>13. TalkInv'
  BY <1>5, <1>7, <1>10, <1>12 DEF TalkInv
<1>14. ASSUME MaxBorn < MaxScreens, Doubted PROVE Doubted'
  <2>1. \A q \in Profiles : Fits(browser'[q])
    BY <1>4, <1>6, <1>14 DEF Doubted
  <2>2. \A q \in Profiles : Reason(q) => Reason(q)'
    <3> SUFFICES ASSUME NEW q \in Profiles, Reason(q) PROVE Reason(q)'
      OBVIOUS
    <3>1. CASE q = p
      BY <1>1, <1>3, <1>4, <1>6, <1>14, <3>1 DEF Reason, Doubted
    <3>2. CASE q # p
      BY <1>1, <1>3, <1>6, <3>2 DEF Reason
    <3> QED BY <3>1, <3>2
  <2>3. \A q \in tracked' : process'[q].uncertain \/ Waiting(q)' => Reason(q)'
    BY <1>1, <1>8, <1>9, <1>14, <2>2 DEF Doubted
  <2> QED BY <2>1, <2>3 DEF Doubted
<1> QED BY <1>13, <1>14

\* The end of a guard leaves nothing of its browser but its answer.
LEMMA TalkGuard ==
  ASSUME IInv, TalkInv, NEW p \in Profiles, GuardEnds(p)
  PROVE  TalkInv' /\ (Doubted => Doubted')
<1> DEFINE b == NewBrowser(None)
<1>1. UNCHANGED <<run, input, replies, tracked, process, jobs>> /\ ~On(p)
  BY DEF GuardEnds, On
<1>2. /\ browser' = [browser EXCEPT ![p] = b] /\ requests' = [requests EXCEPT ![p] = <<>>]
      /\ \E end \in {"normal", "forced", "abnormal"} : guard' = [guard EXCEPT ![p].state = end]
  BY DEF GuardEnds
<1>3. /\ Fine(b) /\ b.boot = None /\ b.tasks = <<>> /\ b.creating = {} /\ b.lastId = 0
      /\ b.shutdown = NoId /\ Fits(b)
  BY NewBrowserIs
<1> HIDE DEF b
<1>4. /\ browser'[p] = b /\ requests'[p] = <<>> /\ guard'[p].state # "running"
      /\ \A q \in Profiles \ {p} : /\ browser'[q] = browser[q] /\ requests'[q] = requests[q]
                                   /\ guard'[q] = guard[q]
  <2> HIDE DEF Browser, Request, Reply
  <2> QED BY <1>2 DEF TalkInv, IInv, TypeOK
<1>5. /\ browser' \in [Profiles -> Browser] /\ requests' \in [Profiles -> Seq(Request)]
      /\ replies' \in [Profiles -> Seq(Reply)] /\ input' \in [Profiles -> BOOLEAN]
  <2> HIDE DEF Browser, Request, Reply
  <2>1. <<>> \in Seq(Request)
    OBVIOUS
  <2> QED BY <1>1, <1>2, <1>3, <2>1 DEF TalkInv, Fine
<1>6. Conversation(b, <<>>, replies[p], process[p].next, Wanted(p), guard'[p].state)
      /\ (Silent(browser[p], requests[p], replies[p]) => Silent(b, <<>>, replies[p]))
  <2> DEFINE q == requests[p]
             r == replies[p]
             next == process[p].next
             opening == Wanted(p)
  <2>1. Conversation(browser[p], q, r, next, opening, guard[p].state) /\ next \in Nat
    BY TalkView DEF IInv
  <2> HIDE DEF q, r, next, opening
  <2>2. b.lastId <= next /\ NoWork(b)
    BY <1>3, <2>1 DEF NoWork
  <2>3. CASE r = <<>>
    <3>1. Silent(b, <<>>, r)
      BY <1>3, <2>2, <2>3 DEF Silent
    <3> QED BY <2>2, <3>1 DEF Conversation, q, r, next, opening
  <2>4. CASE r # <<>>
    <3>1. InAnswer(browser[p], q, r, next, opening, guard[p].state)
      BY <2>1, <2>4 DEF Conversation, InPipe, InTasks, InBoot, InMaking, InShutdown, Silent
    <3>2. InAnswer(b, <<>>, r, next, opening, guard'[p].state)
      BY <1>3, <1>4, <2>2, <3>1 DEF InAnswer
    <3>3. ~Silent(browser[p], q, r)
      BY <2>4 DEF Silent
    <3> QED BY <2>2, <3>2, <3>3 DEF Conversation, q, r, next, opening
  <2> QED BY <2>3, <2>4
<1>7. \A q \in Profiles : Talk(q)'
  <2> SUFFICES ASSUME NEW q \in Profiles PROVE Talk(q)'
    OBVIOUS
  <2>1. Talk(q)
    BY DEF TalkInv
  <2>2. CASE q = p
    <3>1. b = NewBrowser(None) /\ <<>> \in Seq(Request)
      BY DEF b
    <3>2. Wanted(p)' = Wanted(p)
      BY <1>1 DEF Wanted
    <3> QED BY <1>1, <1>3, <1>4, <1>6, <2>1, <2>2, <3>1, <3>2 DEF Talk, Over, On
  <2>3. CASE q # p
    BY <1>1, <1>4, <2>1, <2>3 DEF Talk, Over, On, Wanted
  <2> QED BY <2>2, <2>3
<1>8. \A q : Waiting(q)' <=> Waiting(q)
  BY <1>1 DEF Waiting, Profile
<1>9. tracked \subseteq Profiles
  BY DEF IInv, TypeOK
<1>10. Certain'
  BY <1>1, <1>4, <1>6, <1>8, <1>9 DEF Certain, TalkInv
<1>11. \A j \in Jobs : Awaits(j)'
  <2> SUFFICES ASSUME NEW j \in Jobs PROVE Awaits(j)'
    OBVIOUS
  <2>0. PICK k \in Profiles : k = Profile(j)
    BY DEF IInv, TypeOK, Profile
  <2>1. Awaits(j)
    BY DEF TalkInv
  <2>2. At(j, "ending") => ~On(k)' \/ browser'[k].quitting
    <3>1. CASE k = p
      BY <1>1, <3>1 DEF On
    <3>2. CASE k # p
      BY <1>1, <1>4, <2>0, <2>1, <3>2 DEF Awaits, On
    <3> QED BY <3>1, <3>2
  <2> QED BY <1>1, <2>0, <2>1, <2>2 DEF Awaits, At, Profile, Inside
<1>12. TalkInv'
  BY <1>5, <1>7, <1>10, <1>11 DEF TalkInv
<1>13. ASSUME Doubted PROVE Doubted'
  <2>1. \A q \in Profiles : Fits(browser'[q])
    BY <1>3, <1>4, <1>13 DEF Doubted
  <2>2. \A q \in Profiles : Reason(q) => Reason(q)'
    <3> SUFFICES ASSUME NEW q \in Profiles, Reason(q) PROVE Reason(q)'
      OBVIOUS
    <3>1. CASE q = p
      BY <1>1, <3>1 DEF Reason, On
    <3>2. CASE q # p
      BY <1>1, <1>4, <3>2 DEF Reason, On
    <3> QED BY <3>1, <3>2
  <2>3. \A q \in tracked' : process'[q].uncertain \/ Waiting(q)' => Reason(q)'
    BY <1>1, <1>8, <1>9, <1>13, <2>2 DEF Doubted
  <2> QED BY <2>1, <2>3 DEF Doubted
<1> QED BY <1>12, <1>13

-----------------------------------------------------------------------------
(* The jobs' steps keep the invariant *)

\* The job waits for an answer or an end.
Waits(j) == jobs[j].at \in {"opening", "awaiting", "ending"}

BrowsersTyped ==
    /\ browser \in [Profiles -> Browser] /\ requests \in [Profiles -> Seq(Request)]
    /\ replies \in [Profiles -> Seq(Reply)] /\ input \in [Profiles -> BOOLEAN]

\* A step that touches the browser of p at most.
Elsewhere(p) ==
    /\ \A q \in Profiles \ {p} :
          /\ browser'[q] = browser[q] /\ requests'[q] = requests[q] /\ replies'[q] = replies[q]
          /\ input'[q] = input[q] /\ process'[q] = process[q] /\ guard'[q] = guard[q]
          /\ run'[q] = run[q]
    /\ tracked' \ {p} = tracked \ {p}

\* A job that has the lock is the only one inside.
LEMMA OnlyHolder ==
  ASSUME IInv, NEW j \in Jobs, Inside(j), NEW i \in Jobs, i # j
  PROVE  ~Inside(i)
  BY DEF IInv, LockHeld

\* A job that waits is inside.
LEMMA WaitsInside ==
  ASSUME NEW i \in Jobs, ~Inside(i)
  PROVE  ~Waits(i)
  BY DEF Inside, Waits, Locked, Stages

\* The browsers stay as they are, and so does what the job waits for.
LEMMA StillStep ==
  ASSUME IInv, TalkInv, NEW j \in Jobs, UNCHANGED World,
         \A i \in Jobs : i # j => jobs'[i] = jobs[i],
         Waits(j)' <=> Waits(j), Waits(j) => jobs'[j].profile = jobs[j].profile, Awaits(j)'
  PROVE  TalkInv' /\ (Doubted => Doubted')
<1>1. UNCHANGED <<run, browser, requests, input, replies, tracked, process, guard>>
  BY DEF World, browserVars
<1>2. \A q : Waiting(q)' <=> Waiting(q)
  <2>1. \A q : Waiting(q) <=> \E i \in Jobs : jobs[i].profile = q /\ Waits(i)
    BY DEF Waiting, Profile, Waits
  <2>2. \A q : Waiting(q)' <=> \E i \in Jobs : jobs'[i].profile = q /\ Waits(i)'
    BY DEF Waiting, Profile, Waits
  <2>3. \A i \in Jobs : i # j => (Waits(i)' <=> Waits(i)) /\ jobs'[i].profile = jobs[i].profile
    BY DEF Waits
  <2> QED BY <2>1, <2>2, <2>3
<1>3. \A q \in Profiles : Talk(q)'
  BY <1>1 DEF TalkInv, Talk, Over, On, Wanted
<1>4. Certain'
  BY <1>1, <1>2 DEF TalkInv, Certain
<1>5. \A i \in Jobs : Awaits(i)'
  <2> SUFFICES ASSUME NEW i \in Jobs, i # j PROVE Awaits(i)'
    OBVIOUS
  <2>1. Awaits(i) /\ jobs'[i] = jobs[i]
    BY DEF TalkInv
  <2> QED BY <1>1, <2>1 DEF Awaits, At, Profile, Inside, On
<1>6. TalkInv'
  BY <1>1, <1>3, <1>4, <1>5 DEF TalkInv
<1>7. Doubted => Doubted'
  BY <1>1, <1>2 DEF Doubted, Reason, On
<1> QED BY <1>6, <1>7

\* The job changes the browser of p, or what the adapter has of it.
LEMMA TouchStep ==
  ASSUME IInv, TalkInv, NEW j \in Jobs, Inside(j), Step(j), NEW p \in Profiles,
         Elsewhere(p), BrowsersTyped', Talk(p)', Awaits(j)',
         Waits(j) => jobs[j].profile = p, Waits(j)' => jobs'[j].profile = p,
         p \in tracked' /\ ~process'[p].uncertain /\ ~Waits(j)'
            => Silent(browser'[p], requests'[p], replies'[p]),
         Doubted => /\ Fits(browser'[p])
                    /\ p \in tracked' /\ (process'[p].uncertain \/ Waits(j)') => Reason(p)'
  PROVE  TalkInv' /\ (Doubted => Doubted')
<1>1. \A i \in Jobs : i # j => jobs'[i] = jobs[i] /\ ~Inside(i) /\ ~Waits(i)
  BY OtherJobs, OnlyHolder, WaitsInside DEF IInv
<1>2. \A q : Waiting(q) => q = p
  BY <1>1 DEF Waiting, Profile, Waits
<1>3. \A q : Waiting(q)' <=> q = p /\ Waits(j)'
  <2>1. \A q : Waiting(q)' <=> \E i \in Jobs : jobs'[i].profile = q /\ Waits(i)'
    BY DEF Waiting, Profile, Waits
  <2>2. \A i \in Jobs : i # j => ~Waits(i)'
    BY <1>1 DEF Waits
  <2> QED BY <2>1, <2>2
<1>4. tracked \subseteq Profiles /\ tracked' \subseteq Profiles
  BY StepTypes DEF IInv, TypeOK
<1>5. \A q \in Profiles : Talk(q)'
  <2> SUFFICES ASSUME NEW q \in Profiles \ {p} PROVE Talk(q)'
    OBVIOUS
  <2>1. Talk(q)
    BY DEF TalkInv
  <2> QED BY <2>1 DEF Elsewhere, Talk, Over, On, Wanted
<1>6. Certain'
  <2> SUFFICES ASSUME NEW q \in tracked', ~process'[q].uncertain, ~Waiting(q)'
               PROVE  Silent(browser'[q], requests'[q], replies'[q])
    BY DEF Certain
  <2>1. CASE q = p
    BY <1>3, <2>1
  <2>2. CASE q # p
    <3>1. q \in Profiles \ {p} /\ q \in tracked /\ ~Waiting(q)
      BY <1>2, <1>4, <2>2 DEF Elsewhere
    <3> QED BY <3>1 DEF Elsewhere, TalkInv, Certain
  <2> QED BY <2>1, <2>2
<1>7. \A i \in Jobs : Awaits(i)'
  <2> SUFFICES ASSUME NEW i \in Jobs, i # j PROVE Awaits(i)'
    OBVIOUS
  <2>1. jobs'[i] = jobs[i] /\ ~Inside(i)
    BY <1>1
  <2> QED BY <2>1 DEF Awaits, At, Inside, Locked, Stages
<1>8. TalkInv'
  BY <1>5, <1>6, <1>7 DEF TalkInv, BrowsersTyped
<1>9. ASSUME Doubted PROVE Doubted'
  <2>1. \A q \in Profiles : Fits(browser'[q])
    BY <1>9 DEF Doubted, Elsewhere
  <2>2. ASSUME NEW q \in tracked', process'[q].uncertain \/ Waiting(q)'
        PROVE  Reason(q)'
    <3>1. CASE q = p
      BY <1>3, <1>9, <2>2, <3>1
    <3>2. CASE q # p
      <4>1. q \in Profiles \ {p} /\ q \in tracked /\ ~Waiting(q)'
        BY <1>3, <1>4, <3>2 DEF Elsewhere
      <4>2. Reason(q)
        BY <1>9, <2>2, <4>1 DEF Doubted, Elsewhere
      <4> QED BY <4>1, <4>2 DEF Reason, Elsewhere, On
    <3> QED BY <3>1, <3>2
  <2> QED BY <2>1, <2>2 DEF Doubted
<1> QED BY <1>8, <1>9

\* A job that returns waits for nothing.
LEMMA ReturnAwaits ==
  ASSUME TypeOK, NEW j \in Jobs, NEW told, Return(j, told)
  PROVE  Awaits(j)' /\ ~Waits(j)'
<1>1. jobs'[j].at \in {"done", "storing", "unlatching"}
  BY ReturnShape
<1> QED BY <1>1 DEF Awaits, Waits, At, Inside, Locked

\* A job that has dealt with a profile.
LEMMA DealtAwaits ==
  ASSUME TypeOK, NEW j \in Jobs, NEW p, NEW at \in {"settling", "recovering", "closing"},
         Dealt(j, p, at), jobs[j].todo \ {p} \subseteq tracked'
  PROVE  Awaits(j)' /\ ~Waits(j)'
<1>1. jobs'[j].at = at /\ jobs'[j].todo = jobs[j].todo \ {p}
  BY DEF TypeOK, Dealt
<1> QED BY <1>1 DEF Awaits, Waits, At

\* A browser that ended normally is dropped.
LEMMA DropStep ==
  ASSUME IInv, TalkInv, NEW j \in Jobs, Inside(j), Step(j), NEW p \in Profiles,
         guard[p].state = "normal", Forget(p), Waits(j) => jobs[j].profile = p,
         NEW at \in {"settling", "recovering", "closing"}, Dealt(j, p, at)
  PROVE  TalkInv' /\ (Doubted => Doubted')
<1>1. /\ UNCHANGED <<run, browser, guard>> /\ tracked' = tracked \ {p}
      /\ process' = [process EXCEPT ![p] = Process(0, None)]
      /\ requests' = [requests EXCEPT ![p] = <<>>] /\ replies' = [replies EXCEPT ![p] = <<>>]
      /\ input' = [input EXCEPT ![p] = FALSE]
  BY DEF Forget
<1>2. Talk(p) /\ Over(p) /\ ~On(p)
  BY DEF TalkInv, Over, IInv, EndedGuards
<1>3. Fine(browser[p]) /\ browser[p] = NewBrowser(None) /\ Silent(browser[p], <<>>, <<>>)
      /\ browser[p].lastId = 0 /\ Fits(browser[p])
  BY <1>2, NewBrowserIs DEF Talk, Silent, NoWork
<1>4. BrowsersTyped'
  <2> HIDE DEF Browser, Request, Reply
  <2>1. <<>> \in Seq(Request) /\ <<>> \in Seq(Reply)
    OBVIOUS
  <2> QED BY <1>1, <2>1 DEF TalkInv, BrowsersTyped
<1>5. Elsewhere(p) /\ requests'[p] = <<>> /\ replies'[p] = <<>> /\ process'[p] = Process(0, None)
  <2> HIDE DEF Browser, Request, Reply
  <2> QED BY <1>1 DEF TalkInv, IInv, TypeOK, Elsewhere
<1>6. Conversation(browser[p], <<>>, <<>>, 0, None, guard[p].state)
  BY <1>3 DEF Conversation
<1>7. Talk(p)'
  <2>1. /\ process'[p].next = 0 /\ Wanted(p)' = None /\ process'[p].late = None
        /\ browser' = browser /\ run' = run
        /\ <<>> \in Seq(Request) /\ <<>> \in Seq(Reply) /\ guard' = guard
    BY <1>1, <1>5 DEF Process, Wanted
  <2> QED BY <1>2, <1>3, <1>5, <1>6, <2>1 DEF Talk, Over, On
<1>8. jobs[j].todo \ {p} \subseteq tracked'
  BY <1>1 DEF TalkInv, Awaits
<1>9. Awaits(j)' /\ ~Waits(j)'
  BY <1>8, DealtAwaits DEF IInv
<1>10. p \notin tracked'
  BY <1>1
<1> QED BY <1>1, <1>3, <1>4, <1>5, <1>7, <1>9, <1>10, TouchStep

\* A browser is left in doubt, for a reason.
LEMMA DoubtStep ==
  ASSUME IInv, TalkInv, NEW j \in Jobs, Inside(j), Step(j), NEW p \in Profiles,
         Doubt(p), UNCHANGED <<browserVars, tracked, guard, launches>>,
         Waits(j) => jobs[j].profile = p, NEW told, Return(j, told), Doubted => Reason(p)
  PROVE  TalkInv' /\ (Doubted => Doubted')
<1>1. UNCHANGED <<run, browser, requests, replies, input, tracked, guard>>
  BY DEF browserVars
<1>2. /\ process'[p].uncertain /\ process'[p].next = process[p].next
      /\ process'[p].opening = process[p].opening /\ process'[p].late = process[p].late
      /\ \A q \in Profiles \ {p} : process'[q] = process[q]
  BY DEF Doubt, IInv, TypeOK
<1>3. Elsewhere(p)
  BY <1>1, <1>2 DEF Elsewhere
<1>4. BrowsersTyped' /\ Talk(p)'
  BY <1>1, <1>2 DEF TalkInv, BrowsersTyped, Talk, Over, On, Wanted
<1>5. Awaits(j)' /\ ~Waits(j)'
  BY ReturnAwaits DEF IInv
<1>6. Reason(p)' <=> Reason(p)
  BY <1>1, <1>2 DEF Reason, On
<1> QED BY <1>1, <1>2, <1>3, <1>4, <1>5, <1>6, TouchStep DEF Doubted

\* A call returns and leaves the browsers as they are.
LEMMA StillReturn ==
  ASSUME IInv, TalkInv, NEW j \in Jobs, Step(j), UNCHANGED World, ~Waits(j),
         NEW told, Return(j, told)
  PROVE  TalkInv' /\ (Doubted => Doubted')
<1>1. Awaits(j)' /\ ~Waits(j)'
  BY ReturnAwaits DEF IInv
<1>2. \A i \in Jobs : i # j => jobs'[i] = jobs[i]
  BY OtherJobs DEF IInv
<1> QED BY <1>1, <1>2, StillStep

\* A call deals with a profile and leaves the browsers as they are.
LEMMA StillDealt ==
  ASSUME IInv, TalkInv, NEW j \in Jobs, Step(j), UNCHANGED World, Inside(j), ~Waits(j),
         NEW p, NEW at \in {"settling", "recovering", "closing"}, Dealt(j, p, at)
  PROVE  TalkInv' /\ (Doubted => Doubted')
<1>1. jobs[j].todo \ {p} \subseteq tracked'
  BY DEF World, TalkInv, Awaits
<1>2. Awaits(j)' /\ ~Waits(j)'
  BY <1>1, DealtAwaits DEF IInv
<1>3. \A i \in Jobs : i # j => jobs'[i] = jobs[i]
  BY OtherJobs DEF IInv
<1> QED BY <1>2, <1>3, StillStep

\* The steps that look at the browsers and change none.
LEMMA LockTalks ==
  ASSUME IInv, TalkInv, NEW j \in Jobs, Step(j), Lock(j)
  PROVE  TalkInv' /\ (Doubted => Doubted')
<1>1. UNCHANGED World /\ ~Waits(j)
  BY DEF Lock, At, Waits
<1>2. CASE Return(j, "failed")
  BY <1>1, <1>2, StillReturn
<1>3. CASE jobs' = [jobs EXCEPT ![j].at = "settling", ![j].todo = Mine(j)]
  <2>1. jobs'[j].at = "settling" /\ jobs'[j].todo = Mine(j) /\ Mine(j) \subseteq tracked'
    BY <1>1, <1>3 DEF IInv, TypeOK, Mine, World
  <2>2. Awaits(j)' /\ ~Waits(j)'
    BY <2>1 DEF Awaits, Waits, At
  <2>3. \A i \in Jobs : i # j => jobs'[i] = jobs[i]
    BY OtherJobs DEF IInv
  <2> QED BY <1>1, <2>2, <2>3, StillStep
<1> QED BY <1>2, <1>3 DEF Lock

\* The settled call goes on to clear, or to recover its browsers.
LEMMA SettledTalks ==
  ASSUME IInv, TalkInv, NEW j \in Jobs, Step(j), Settled(j)
  PROVE  TalkInv' /\ (Doubted => Doubted')
<1>1. UNCHANGED World /\ ~Waits(j)
  BY DEF Settled, At, Waits
<1>2. /\ jobs'[j].at \in {"clearing", "recovering"}
      /\ jobs'[j].todo = Mine(j) /\ Mine(j) \subseteq tracked'
  BY <1>1 DEF Settled, IInv, TypeOK, Mine, World
<1>3. Awaits(j)' /\ ~Waits(j)'
  BY <1>2 DEF Awaits, Waits, At
<1>4. \A i \in Jobs : i # j => jobs'[i] = jobs[i]
  BY OtherJobs DEF IInv
<1> QED BY <1>1, <1>3, <1>4, StillStep

\* A call goes on past recovery only when none of its browsers is in doubt.
LEMMA RecoveredTalks ==
  ASSUME IInv, TalkInv, NEW j \in Jobs, Step(j), Recovered(j)
  PROVE  TalkInv' /\ (Doubted => Doubted')
<1>1. UNCHANGED World /\ ~Waits(j)
  BY DEF Recovered, At, Waits
<1>2. CASE \E p \in Mine(j) : process[p].uncertain
  BY <1>1, <1>2, StillReturn DEF Recovered
<1>3. CASE ~\E p \in Mine(j) : process[p].uncertain
  <2> DEFINE stage == IF jobs[j].kind = "quit" THEN "closing"
                      ELSE IF Mine(j) = {} THEN "spawning" ELSE "sending"
  <2>0. jobs' = [jobs EXCEPT ![j].todo = Mine(j), ![j].at = stage]
    BY <1>3 DEF Recovered
  <2>m. stage \in {"closing", "spawning", "sending"} /\ Mine(j) \subseteq tracked'
        /\ (stage = "sending" => Profile(j) \in Mine(j))
    BY <1>1 DEF Mine, World, Profile, IInv, TypeOK
  <2> HIDE DEF stage
  <2>1. /\ jobs'[j].profile = Profile(j) /\ jobs'[j].todo = Mine(j) /\ jobs'[j].at = stage
    BY <2>0 DEF IInv, TypeOK, Profile
  <2>2. jobs'[j].at = "sending" => Profile(j) \in Mine(j)
    BY <2>1, <2>m
  <2>3. jobs'[j].at = "sending" => Profile(j) \in tracked' /\ ~process'[Profile(j)].uncertain
    BY <1>1, <1>3, <2>1, <2>2, <2>m DEF World
  <2>4. jobs'[j].at \in {"closing", "spawning", "sending"}
    BY <2>1, <2>m
  <2>5. Awaits(j)' /\ ~Waits(j)'
    BY <2>1, <2>3, <2>4, <2>m DEF Awaits, Waits, At, Profile
  <2>6. \A i \in Jobs : i # j => jobs'[i] = jobs[i]
    BY OtherJobs DEF IInv
  <2> QED BY <1>1, <2>5, <2>6, StillStep
<1> QED BY <1>2, <1>3

\* The browser a quit waits for has gone.
LEMMA ChannelClosesTalks ==
  ASSUME IInv, TalkInv, NEW j \in Jobs, Step(j), ChannelCloses(j)
  PROVE  TalkInv' /\ (Doubted => Doubted')
<1>1. UNCHANGED World /\ Waits(j) /\ At(j, "awaiting") /\ ~On(Profile(j)) /\ Inside(j)
  BY DEF ChannelCloses, At, Waits, Inside, Locked, Stages
<1>2. jobs'[j].at = "ending" /\ jobs'[j].profile = Profile(j) /\ jobs'[j].todo = jobs[j].todo
  BY DEF ChannelCloses, Goto, IInv, TypeOK, Profile
<1>3. jobs[j].todo \subseteq tracked /\ Profile(j) \in tracked
  BY <1>1 DEF TalkInv, Awaits, At
<1>4. run'[Profile(j)] # "on"
  BY <1>1 DEF World, browserVars, On
<1>5. tracked' = tracked
  BY <1>1 DEF World
<1>6. Awaits(j)' /\ Waits(j)'
  BY <1>2, <1>3, <1>4, <1>5 DEF Awaits, Waits, At, Profile, On
<1>7. \A i \in Jobs : i # j => jobs'[i] = jobs[i]
  BY OtherJobs DEF IInv
<1> QED BY <1>1, <1>2, <1>6, <1>7, StillStep DEF Profile

\* The exit phase is not the browsers' concern.
LEMMA StorePhaseTalks ==
  ASSUME IInv, TalkInv, NEW j \in Jobs, Step(j), StorePhase(j)
  PROVE  TalkInv' /\ (Doubted => Doubted')
<1>1. UNCHANGED World /\ ~Waits(j) /\ jobs'[j].at = "done"
  BY DEF StorePhase, At, Waits, IInv, TypeOK
<1>2. Awaits(j)' /\ ~Waits(j)'
  BY <1>1 DEF Awaits, Waits, At, Inside, Locked
<1>3. \A i \in Jobs : i # j => jobs'[i] = jobs[i]
  BY OtherJobs DEF IInv
<1> QED BY <1>1, <1>2, <1>3, StillStep

\* A person starts a call: it has nothing of a browser yet.
LEMMA PersonTalks ==
  ASSUME IInv, TalkInv, NEW j \in Jobs, Person(j)
  PROVE  TalkInv' /\ (Doubted => Doubted')
<1>1. UNCHANGED World /\ ~Waits(j) /\ jobs'[j].at \in {"waiting", "done"}
  <2>1. CASE StartQuit(j)
    BY <2>1 DEF StartQuit, At, Waits, IInv, TypeOK
  <2>2. ASSUME NEW p \in Profiles, NEW k \in Keys, Start(j, p, k)
        PROVE  UNCHANGED World /\ ~Waits(j) /\ jobs'[j].at \in {"waiting", "done"}
    BY <2>2 DEF Start, IdleJob, At, Waits, IInv, TypeOK
  <2> QED BY <2>1, <2>2 DEF Person
<1>2. Awaits(j)' /\ ~Waits(j)'
  BY <1>1 DEF Awaits, Waits, At, Inside, Locked
<1>3. \A i \in Jobs : i # j => jobs'[i] = jobs[i]
  BY OtherJobs DEF IInv
<1> QED BY <1>1, <1>2, <1>3, StillStep

\* What ended is dropped, what ended badly refuses the call.
LEMMA SettleTalks ==
  ASSUME IInv, TalkInv, NEW j \in Jobs, Step(j), NEW p \in Profiles,
         SettleEnded(j, p) \/ SettleBad(j, p) \/ SettleRunning(j, p)
  PROVE  TalkInv' /\ (Doubted => Doubted')
<1>1. Inside(j) /\ ~Waits(j)
  BY DEF SettleEnded, SettleBad, SettleRunning, At, Inside, Locked, Stages, Waits
<1>2. CASE SettleEnded(j, p)
  BY <1>1, <1>2, DropStep DEF SettleEnded
<1>3. CASE SettleBad(j, p)
  <2>1. CASE Doubt(p)
    <3>1. Doubted => Reason(p)
      BY <1>3, <2>1 DEF SettleBad, Bad, IInv, EndedGuards, Reason
    <3> QED BY <1>1, <1>3, <2>1, <3>1, DoubtStep DEF SettleBad
  <2>2. CASE UNCHANGED process
    BY <1>1, <1>3, <2>2, StillReturn DEF SettleBad, World
  <2> QED BY <1>3, <2>1, <2>2 DEF SettleBad
<1>4. CASE SettleRunning(j, p)
  BY <1>1, <1>4, StillReturn, StillDealt DEF SettleRunning
<1> QED BY <1>2, <1>3, <1>4

\* A browser in doubt is dropped, drained or refuses the call.
LEMMA RecoverTalks ==
  ASSUME IInv, TalkInv, NEW j \in Jobs, Step(j), NEW p \in Profiles, Recover(j, p)
  PROVE  TalkInv' /\ (Doubted => Doubted')
<1>1. Inside(j) /\ ~Waits(j) /\ p \in jobs[j].todo
  BY DEF Recover, At, Inside, Locked, Stages, Waits
<1>2. CASE Dealt(j, p, "recovering") /\ UNCHANGED World
  BY <1>1, <1>2, StillDealt
<1>3. CASE guard[p].state = "normal" /\ Dealt(j, p, "recovering") /\ Forget(p)
  BY <1>1, <1>3, DropStep
<1>4. CASE Return(j, "failed") /\ UNCHANGED World
  BY <1>1, <1>4, StillReturn
<1>5. CASE /\ jobs' = [jobs EXCEPT ![j].at = "draining", ![j].profile = p]
           /\ UNCHANGED <<World, lock, phase>>
  <2>1. /\ jobs'[j].at = "draining" /\ jobs'[j].profile = p /\ jobs'[j].todo = jobs[j].todo
        /\ tracked' = tracked
    BY <1>5 DEF IInv, TypeOK, World
  <2>2. jobs[j].todo \subseteq tracked
    BY <1>1 DEF TalkInv, Awaits
  <2>3. Awaits(j)' /\ ~Waits(j)'
    BY <1>1, <2>1, <2>2 DEF Awaits, Waits, At, Profile
  <2>4. \A i \in Jobs : i # j => jobs'[i] = jobs[i]
    BY OtherJobs DEF IInv
  <2> QED BY <1>1, <1>5, <2>3, <2>4, StillStep
<1> QED BY <1>2, <1>3, <1>4, <1>5 DEF Recover

\* A wait that is given up leaves its browser in doubt, for the reason it waited.
LEMMA GiveUpTalks ==
  ASSUME IInv, TalkInv, NEW j \in Jobs, Step(j), GiveUp(j)
  PROVE  TalkInv' /\ (Doubted => Doubted')
<1>1. PICK p \in Profiles : p = Profile(j)
  BY DEF IInv, TypeOK, Profile
<1>2. Inside(j) /\ Waits(j) /\ p \in tracked /\ Waiting(p)
  BY <1>1 DEF GiveUp, At, Inside, Locked, Stages, Waits, Waiting, TalkInv, Awaits
<1>3. Doubted => Reason(p)
  BY <1>2 DEF Doubted
<1>4. Doubt(p) /\ Return(j, "failed") /\ UNCHANGED <<browserVars, tracked, guard, launches>>
  BY <1>1 DEF GiveUp
<1> QED BY <1>1, <1>2, <1>3, <1>4, DoubtStep DEF Profile

\* A browser that stops is dropped, or left in doubt: it was ending.
LEMMA EndingTalks ==
  ASSUME IInv, TalkInv, NEW j \in Jobs, Step(j), Ending(j)
  PROVE  TalkInv' /\ (Doubted => Doubted')
<1>1. PICK p \in Profiles : p = Profile(j)
  BY DEF IInv, TypeOK, Profile
<1>2. Inside(j) /\ Waits(j) /\ At(j, "ending")
  BY DEF Ending, At, Inside, Locked, Stages, Waits
<1>3. jobs[j].back \in {"closing", "recovering"}
  BY <1>2 DEF At, IInv, StagesOfKinds
<1>4. Doubted => Reason(p)
  BY <1>1, <1>2 DEF TalkInv, Awaits, Reason
<1>5. CASE guard[p].state = "normal" /\ Forget(p) /\ Dealt(j, p, jobs[j].back)
  BY <1>1, <1>2, <1>3, <1>5, DropStep DEF Profile
<1>6. CASE Doubt(p) /\ Return(j, "failed") /\ UNCHANGED <<browserVars, tracked, guard, launches>>
  BY <1>1, <1>2, <1>4, <1>6, DoubtStep DEF Profile
<1> QED BY <1>1, <1>5, <1>6 DEF Ending

\* A browser that ended before it was asked is dropped, or left in doubt.
LEMMA CloseEndedTalks ==
  ASSUME IInv, TalkInv, NEW j \in Jobs, Step(j), NEW p \in Profiles, CloseEnded(j, p)
  PROVE  TalkInv' /\ (Doubted => Doubted')
<1>1. Inside(j) /\ ~Waits(j)
  BY DEF CloseEnded, At, Inside, Locked, Stages, Waits
<1>2. CASE guard[p].state = "normal" /\ Forget(p) /\ Dealt(j, p, "closing")
  BY <1>1, <1>2, DropStep
<1>3. CASE /\ Bad(p) /\ Doubt(p) /\ Return(j, "failed")
           /\ UNCHANGED <<browserVars, tracked, guard, launches>>
  <2>1. Doubted => Reason(p)
    BY <1>3 DEF Bad, IInv, EndedGuards, Reason
  <2> QED BY <1>1, <1>3, <2>1, DoubtStep
<1> QED BY <1>2, <1>3 DEF CloseEnded

\* The job takes the only reply there is: the answer to the last request.
LEMMA OneAnswer ==
  ASSUME IInv, TalkInv, NEW p \in Profiles, replies[p] # <<>>
  PROVE  LET r == Head(replies[p])
             next == process[p].next
             b == browser[p]
         IN  /\ r \in Reply /\ r.id = next /\ next \in Nat
             /\ Answers(r, next, Wanted(p))
             /\ Tail(replies[p]) = <<>> /\ requests[p] = <<>>
             /\ b.shutdown = NoId \/ (b.shutdown = next /\ r.event = "stopped")
             /\ r.event = "stopped" => b.quitting \/ ~On(p)
             /\ NoWork(b) /\ b.lastId <= next
<1> DEFINE r == Head(replies[p])
           next == process[p].next
           opening == Wanted(p)
           b == browser[p]
           q == requests[p]
           t == replies[p]
           state == guard[p].state
<1>1. Conversation(b, q, t, next, opening, state) /\ next \in Nat
  BY TalkView DEF IInv
<1>2. state # "running" => ~On(p)
  BY DEF IInv, EndedGuards
<1> HIDE DEF r, next, opening, b, q, t, state
<1>3. InAnswer(b, q, t, next, opening, state) /\ b.lastId <= next
  <2>1. t # <<>>
    BY DEF t
  <2> QED BY <1>1, <2>1 DEF Conversation, InPipe, InTasks, InBoot, InMaking, InShutdown, Silent
<1>4. PICK a \in Reply :
        /\ t = <<a>> /\ Answers(a, next, opening)
        /\ b.shutdown = NoId \/ (b.shutdown = next /\ b.quitting /\ a.event = "stopped")
        /\ a.event = "stopped" => b.quitting \/ state # "running"
  BY <1>3 DEF InAnswer
<1>5. Head(t) = a /\ Tail(t) = <<>>
  <2> HIDE DEF Reply
  <2> QED BY <1>4
<1>6. a.id = next
  BY <1>4 DEF Answers
<1>7. r = a /\ q = <<>> /\ NoWork(b)
  BY <1>3, <1>5 DEF InAnswer, r, t
<1>8. /\ r \in Reply /\ r.id = next /\ next \in Nat /\ Answers(r, next, opening)
      /\ Tail(t) = <<>> /\ q = <<>> /\ NoWork(b) /\ b.lastId <= next
      /\ b.shutdown = NoId \/ (b.shutdown = next /\ r.event = "stopped")
      /\ r.event = "stopped" => b.quitting \/ ~On(p)
  BY <1>1, <1>2, <1>3, <1>4, <1>5, <1>6, <1>7
<1> QED BY <1>8 DEF r, next, opening, b, q, t, state

\* What is left when it is taken.
LEMMA TakenTalk ==
  ASSUME IInv, TalkInv, NEW p \in Profiles, replies[p] # <<>>, NEW o,
         Head(replies[p]).event # "stopped" \/ o = Wanted(p)
  PROVE  /\ Conversation(browser[p], <<>>, <<>>, process[p].next, o, guard[p].state)
         /\ Head(replies[p]).event # "stopped" => Silent(browser[p], <<>>, <<>>)
<1> DEFINE r == Head(replies[p])
           next == process[p].next
           opening == Wanted(p)
           b == browser[p]
           state == guard[p].state
<1>1. /\ Answers(r, next, opening) /\ NoWork(b) /\ b.lastId <= next
      /\ b.shutdown = NoId \/ (b.shutdown = next /\ r.event = "stopped")
      /\ r.event # "stopped" \/ o = opening
  BY OneAnswer
<1>2. next # NoId
  BY OneAnswer DEF NoId
<1> HIDE DEF r, next, opening, b, state
<1>3. CASE b.shutdown = NoId
  <2>1. Silent(b, <<>>, <<>>)
    BY <1>1, <1>3 DEF Silent
  <2>2. Conversation(b, <<>>, <<>>, next, o, state)
    BY <1>1, <2>1 DEF Conversation
  <2> QED BY <2>1, <2>2 DEF r, next, b, state
<1>4. CASE b.shutdown = next /\ r.event = "stopped" /\ b.shutdown # NoId
  <2>1. o = None
    BY <1>1, <1>4 DEF Answers
  <2>2. InShutdown(b, <<>>, <<>>, next, o)
    BY <1>1, <1>4, <2>1 DEF InShutdown
  <2>3. Conversation(b, <<>>, <<>>, next, o, state)
    BY <1>1, <2>2 DEF Conversation
  <2> QED BY <1>4, <2>3 DEF r, next, b, state
<1> QED BY <1>1, <1>3, <1>4

\* A job that takes the answer settles the browser, unless it has stopped.
LEMMA TakeStep ==
  ASSUME IInv, TalkInv, NEW j \in Jobs, Inside(j), Step(j), NEW p \in Profiles,
         replies[p] # <<>>, TakeReply(p), UNCHANGED <<run, browser, requests, tracked, guard>>,
         \A q \in Profiles \ {p} : process'[q] = process[q],
         process'[p].next = process[p].next,
         process'[p].late # None => process'[p].uncertain,
         Head(replies[p]).event = "stopped" => Wanted(p)' = Wanted(p),
         input' = input \/ (/\ input' = [input EXCEPT ![p] = FALSE]
                            /\ Head(replies[p]).event = "stopped"),
         Waits(j) => jobs[j].profile = p, Waits(j)' => jobs'[j].profile = p, Awaits(j)',
         Head(replies[p]).event # "stopped"
            => ~Waits(j)' /\ (~process'[p].uncertain \/ process'[p].late # None),
         Head(replies[p]).event = "stopped" => process'[p].uncertain \/ Waits(j)'
  PROVE  TalkInv' /\ (Doubted => Doubted')
<1> DEFINE r == Head(replies[p])
<1>1. /\ requests[p] = <<>> /\ Tail(replies[p]) = <<>>
      /\ r.event = "stopped" => browser[p].quitting \/ ~On(p)
  BY OneAnswer
<1>2. /\ Conversation(browser[p], <<>>, <<>>, process'[p].next, Wanted(p)', guard[p].state)
      /\ r.event # "stopped" => Silent(browser[p], <<>>, <<>>)
  BY TakenTalk
<1>3. replies' = [replies EXCEPT ![p] = <<>>]
  BY <1>1 DEF TakeReply
<1> HIDE DEF r
<1>4. BrowsersTyped'
  <2> HIDE DEF Browser, Request, Reply
  <2>1. <<>> \in Seq(Reply)
    OBVIOUS
  <2> QED BY <1>3, <2>1 DEF TalkInv, BrowsersTyped
<1>5. replies'[p] = <<>> /\ \A q \in Profiles \ {p} : replies'[q] = replies[q]
  <2> HIDE DEF Browser, Request, Reply
  <2> QED BY <1>3 DEF TalkInv
<1>6. /\ \A q \in Profiles \ {p} : input'[q] = input[q]
      /\ input'[p] = input[p] \/ r.event = "stopped"
  BY DEF TalkInv, r
<1>7. Elsewhere(p)
  BY <1>5, <1>6 DEF Elsewhere
<1>8. Talk(p)'
  <2>1. Talk(p)
    BY DEF TalkInv
  <2>2. On(p)' /\ ~input'[p] => browser'[p].quitting
    BY <1>1, <1>6, <2>1 DEF Talk, On
  <2>3. <<>> \in Seq(Reply)
    OBVIOUS
  <2>4. /\ On(p)' => Prepared(browser'[p])
        /\ Fine(browser'[p])
        /\ Over(p)' => browser'[p] = NewBrowser(None)
    BY <2>1 DEF Talk, On, Over
  <2>5. Conversation(browser[p], <<>>, <<>>, process'[p].next, Wanted(p)', guard[p].state)
    BY <1>2
  <2>6. /\ browser'[p] = browser[p] /\ guard'[p] = guard[p]
        /\ requests'[p] = <<>> /\ replies'[p] = <<>>
    BY <1>1, <1>5
  <2>7. Conversation(browser'[p], requests'[p], replies'[p],
                     process'[p].next, Wanted(p)', guard'[p].state)
    BY <2>5, <2>6
  <2>8. requests'[p] \in Seq(Request) /\ replies'[p] \in Seq(Reply)
    BY <1>1, <2>1, <2>6 DEF Talk
  <2>9. process'[p].late # None => process'[p].uncertain
    OBVIOUS
  <2>10. Over(p)' => browser'[p] = NewBrowser(None) /\ requests'[p] = <<>>
    BY <2>4, <2>6
  <2> QED BY <2>2, <2>4, <2>7, <2>8, <2>9, <2>10 DEF Talk
<1>9. ~process'[p].uncertain /\ ~Waits(j)' => Silent(browser'[p], requests'[p], replies'[p])
  BY <1>1, <1>2, <1>5 DEF r
<1>10. process'[p].uncertain \/ Waits(j)' => Reason(p)'
  BY <1>1 DEF r, Reason, On
<1>11. Doubted => Fits(browser'[p])
  BY DEF Doubted
<1> QED BY <1>4, <1>7, <1>8, <1>9, <1>10, <1>11, TouchStep

\* The answer to an open is its own: it is refused or made.
LEMMA OpenedTalks ==
  ASSUME IInv, TalkInv, NEW j \in Jobs, Step(j), Opened(j)
  PROVE  TalkInv' /\ (Doubted => Doubted')
<1>1. PICK p \in Profiles : p = Profile(j)
  BY DEF IInv, TypeOK, Profile
<1> DEFINE r == Head(replies[p])
<1>2. /\ Inside(j) /\ Waits(j) /\ At(j, "opening") /\ replies[p] # <<>> /\ TakeReply(p)
      /\ p \in tracked /\ ~process[p].uncertain /\ process[p].opening # None
      /\ UNCHANGED <<run, browser, requests, input, tracked, guard, launches>>
  BY <1>1 DEF Opened, At, Inside, Locked, Stages, Waits, TalkInv, Awaits
<1>l. process[p].late = None /\ Wanted(p) = process[p].opening
  BY <1>2 DEF TalkInv, Talk, Wanted
<1>3. r.id = process[p].next /\ process[p].next \in Nat
      /\ Answers(r, process[p].next, process[p].opening)
  BY <1>2, <1>l, OneAnswer
<1>4. r.event = "error" \/ (r.event = "opened" /\ r.key = process[p].opening)
  <2> HIDE DEF r
  <2> QED BY <1>2, <1>3 DEF Answers
<1>5. ~Stale(p, r)
  <2> HIDE DEF r
  <2> QED BY <1>3 DEF Stale
<1>6. process' = [process EXCEPT ![p].opening = None] /\ \E told : Return(j, told)
  BY <1>1, <1>3, <1>4, <1>5, <1>2 DEF Opened
<1>7. PICK told : Return(j, told)
  BY <1>6
<1>8. Awaits(j)' /\ ~Waits(j)'
  BY <1>7, ReturnAwaits DEF IInv
<1>9. /\ process'[p].next = process[p].next /\ ~process'[p].uncertain /\ process'[p].late = None
      /\ \A q \in Profiles \ {p} : process'[q] = process[q]
  BY <1>2, <1>6, <1>l DEF IInv, TypeOK
<1>10. Head(replies[p]).event # "stopped"
  BY <1>4
<1> HIDE DEF r
<1> QED BY <1>1, <1>2, <1>8, <1>9, <1>10, TakeStep DEF Profile

\* A late reply settles a browser in doubt, or its end does.
LEMMA DrainTalks ==
  ASSUME IInv, TalkInv, NEW j \in Jobs, Step(j), Drain(j)
  PROVE  TalkInv' /\ (Doubted => Doubted')
<1>1. PICK p \in Profiles : p = Profile(j)
  BY DEF IInv, TypeOK, Profile
<1> DEFINE r == Head(replies[p])
<1>2. /\ Inside(j) /\ ~Waits(j) /\ At(j, "draining") /\ replies[p] # <<>> /\ TakeReply(p)
      /\ p \in tracked /\ jobs[j].todo \subseteq tracked
      /\ UNCHANGED <<run, browser, requests, tracked, guard, launches>>
  BY <1>1 DEF Drain, At, Inside, Locked, Stages, Waits, TalkInv, Awaits
<1>3. r \in Reply /\ r.id = process[p].next /\ Answers(r, process[p].next, Wanted(p))
      /\ (r.event = "stopped" => browser[p].quitting \/ ~On(p))
  BY <1>2, OneAnswer
<1>4. CASE r.event = "stopped"
  <2>1. /\ input' = [input EXCEPT ![p] = FALSE] /\ process' = process
        /\ jobs' = [jobs EXCEPT ![j].at = "ending", ![j].back = "recovering"]
    BY <1>1, <1>3, <1>4 DEF Drain
  <2>2. jobs'[j].at = "ending" /\ jobs'[j].profile = p /\ jobs'[j].todo = jobs[j].todo
    BY <1>1, <2>1 DEF IInv, TypeOK, Profile
  <2>3. ~On(p)' \/ browser'[p].quitting
    BY <1>2, <1>3, <1>4 DEF On
  <2>4. Awaits(j)' /\ Waits(j)'
    BY <1>2, <2>2, <2>3 DEF Awaits, Waits, At, Profile, On
  <2>5. Wanted(p)' = Wanted(p) /\ (process'[p].late # None => process'[p].uncertain)
    BY <2>1 DEF Wanted, TalkInv, Talk
  <2> QED BY <1>2, <1>4, <2>1, <2>2, <2>4, <2>5, TakeStep
<1>5. CASE r.event # "stopped"
  <2>1. Settles(p, r) \/ process[p].late # None
    <3> HIDE DEF r
    <3> QED BY <1>3, <1>5 DEF Settles, Answers, Reply, Wanted
  <2>2. /\ input' = input /\ jobs' = jobs
        /\ process' = IF Settles(p, r)
                      THEN [process EXCEPT ![p].uncertain = FALSE,
                              ![p].opening = IF r.event \in {"opened", "error"} THEN None ELSE @,
                              ![p].late = None]
                      ELSE process
    BY <1>1, <1>5 DEF Drain
  <2>3. /\ process'[p].next = process[p].next
        /\ (~process'[p].uncertain /\ process'[p].late = None)
              \/ (process'[p].uncertain /\ process'[p].late # None)
        /\ \A q \in Profiles \ {p} : process'[q] = process[q]
    <3>1. CASE Settles(p, r)
      <4> HIDE DEF r
      <4> QED BY <2>2, <3>1 DEF IInv, TypeOK
    <3>2. CASE ~Settles(p, r)
      <4> HIDE DEF r
      <4> QED BY <2>1, <2>2, <3>2 DEF TalkInv, Talk
    <3> QED BY <3>1, <3>2
  <2>4. Awaits(j)' /\ ~Waits(j)'
    BY <1>1, <1>2, <2>2 DEF Awaits, Waits, At, Profile
  <2> QED BY <1>2, <1>5, <2>2, <2>3, <2>4, TakeStep
<1> QED BY <1>4, <1>5

\* The answer to a shutdown is its own: the browser stops, stays or refuses.
LEMMA ClosedTalks ==
  ASSUME IInv, TalkInv, NEW j \in Jobs, Step(j), Closed(j)
  PROVE  TalkInv' /\ (Doubted => Doubted')
<1>1. PICK p \in Profiles : p = Profile(j)
  BY DEF IInv, TypeOK, Profile
<1> DEFINE r == Head(replies[p])
<1>2. /\ Inside(j) /\ Waits(j) /\ At(j, "awaiting") /\ replies[p] # <<>> /\ TakeReply(p)
      /\ p \in tracked /\ ~process[p].uncertain /\ process[p].opening = None
      /\ jobs[j].todo \subseteq tracked
      /\ UNCHANGED <<run, browser, requests, tracked, guard, launches>>
  BY <1>1 DEF Closed, At, Inside, Locked, Stages, Waits, TalkInv, Awaits
<1>l. process[p].late = None /\ Wanted(p) = process[p].opening
  BY <1>2 DEF TalkInv, Talk, Wanted
<1>3. /\ r \in Reply /\ r.id = process[p].next /\ process[p].next \in Nat
      /\ Answers(r, process[p].next, process[p].opening)
      /\ r.event = "stopped" => browser[p].quitting \/ ~On(p)
  BY <1>2, <1>l, OneAnswer
<1>4. r.event \in {"cancelled", "closeBlocked", "error", "stopped"}
  <2> HIDE DEF r
  <2> QED BY <1>2, <1>3 DEF Answers, Reply
<1>5. ~Stale(p, r)
  <2> HIDE DEF r
  <2> QED BY <1>3 DEF Stale
<1>6. CASE r.event = "stopped"
  <2>1. input' = [input EXCEPT ![p] = FALSE] /\ process' = process /\ Goto(j, "ending")
    BY <1>1, <1>3, <1>5, <1>6 DEF Closed
  <2>2. jobs'[j].at = "ending" /\ jobs'[j].profile = p /\ jobs'[j].todo = jobs[j].todo
    BY <1>1, <2>1 DEF Goto, IInv, TypeOK, Profile
  <2>3. ~On(p)' \/ browser'[p].quitting
    BY <1>2, <1>3, <1>6 DEF On
  <2>4. Awaits(j)' /\ Waits(j)'
    BY <1>2, <2>2, <2>3 DEF Awaits, Waits, At, Profile, On
  <2>5. Wanted(p)' = Wanted(p) /\ process'[p].late = None
    BY <1>l, <2>1 DEF Wanted
  <2> QED BY <1>1, <1>2, <1>6, <2>1, <2>2, <2>4, <2>5, TakeStep DEF Profile
<1>7. CASE r.event # "stopped"
  <2>1. input' = input /\ process' = process /\ \E told : Return(j, told)
    BY <1>1, <1>3, <1>4, <1>5, <1>7 DEF Closed
  <2>2. PICK told : Return(j, told)
    BY <2>1
  <2>3. Awaits(j)' /\ ~Waits(j)'
    BY <2>2, ReturnAwaits DEF IInv
  <2> QED BY <1>1, <1>2, <1>7, <1>l, <2>1, <2>3, TakeStep DEF Profile
<1> QED BY <1>6, <1>7

\* Only a job that waits is waited for; nothing is under way in the browser that the
\* job inside asks next.
LEMMA AskedIsSilent ==
  ASSUME IInv, TalkInv, NEW j \in Jobs, Inside(j), ~Waits(j), NEW p \in tracked,
         ~process[p].uncertain
  PROVE  Silent(browser[p], requests[p], replies[p])
<1>1. \A i \in Jobs : ~Waits(i)
  BY OnlyHolder, WaitsInside
<1>2. ~Waiting(p)
  BY <1>1 DEF Waiting, Waits
<1> QED BY <1>2 DEF TalkInv, Certain

\* A job asks a browser, by its pipe or in vain.
LEMMA AskStep ==
  ASSUME IInv, TalkInv, NEW j \in Jobs, Inside(j), ~Waits(j), Step(j), NEW p \in Profiles,
         p \in tracked, ~process[p].uncertain,
         UNCHANGED <<run, browser, input, replies, tracked, guard>>,
         \A q \in Profiles \ {p} : process'[q] = process[q],
         process'[p].next = process[p].next + 1,
         process'[p].late # None => process'[p].uncertain,
         Awaits(j)', Waits(j)' => jobs'[j].profile = p,
         process'[p].uncertain \/ Waits(j)',
         \/ requests' = requests
         \/ \E a \in Request : Written(p, a) /\ Asked(a, process[p].next + 1, Wanted(p)')
  PROVE  TalkInv' /\ (Doubted => Doubted')
<1> DEFINE b == browser[p]
           next == process[p].next + 1
           opening == Wanted(p)'
           state == guard[p].state
<1>1. /\ Silent(b, requests[p], replies[p]) /\ b.lastId \in Nat /\ b.lastId < next /\ next \in Nat
  <2>1. process[p].next \in Nat /\ b.lastId <= process[p].next /\ b.lastId \in Nat
    BY TalkView DEF IInv, Conversation, Fine, Browser
  <2> HIDE DEF b
  <2> QED BY <2>1, AskedIsSilent DEF b
<1>2. requests[p] = <<>> /\ replies[p] = <<>> /\ NoWork(b) /\ b.shutdown = NoId
  BY <1>1 DEF Silent
<1>3. Talk(p) /\ process'[p].next = next
  BY DEF TalkInv
<1> HIDE DEF b, next, opening, state
<1>4. b.lastId <= next
  BY <1>1
<1>5. CASE requests' = requests
  <2>1. Conversation(b, requests[p], replies[p], next, opening, state)
    BY <1>1, <1>4 DEF Conversation
  <2>2. Talk(p)'
    BY <1>3, <1>5, <2>1 DEF Talk, Over, On, b, next, opening, state
  <2>3. Elsewhere(p) /\ BrowsersTyped'
    BY <1>5 DEF Elsewhere, BrowsersTyped, TalkInv
  <2>4. Reason(p)'
    BY <1>1, <1>3 DEF Reason, b
  <2>5. Doubted => Fits(browser'[p])
    BY DEF Doubted
  <2> QED BY <1>5, <2>2, <2>3, <2>4, <2>5, TouchStep
<1>6. CASE \E a \in Request : Written(p, a) /\ Asked(a, process[p].next + 1, Wanted(p)')
  <2>1. PICK a \in Request : Written(p, a) /\ Asked(a, next, opening)
    BY <1>6 DEF next, opening
  <2>2. On(p) /\ requests' = [requests EXCEPT ![p] = <<a>>] /\ <<a>> \in Seq(Request)
        /\ <<a>> # <<>>
    <3> HIDE DEF Request
    <3> QED BY <1>2, <2>1 DEF Written
  <2>3. requests'[p] = <<a>> /\ \A q \in Profiles \ {p} : requests'[q] = requests[q]
    <3> HIDE DEF Request
    <3> QED BY <2>2 DEF TalkInv
  <2>4. InPipe(b, <<a>>, replies[p], next, opening)
    BY <1>1, <1>2, <2>1 DEF InPipe
  <2>5. Conversation(b, <<a>>, replies[p], next, opening, state)
    BY <1>4, <2>4 DEF Conversation
  <2>6. ~Over(p)
    BY <2>2 DEF Over, IInv, EndedGuards
  <2>7. Talk(p)'
    BY <1>3, <2>2, <2>3, <2>5, <2>6 DEF Talk, Over, On, b, next, opening, state
  <2>8. BrowsersTyped'
    <3> HIDE DEF Browser, Request, Reply
    <3> QED BY <2>2 DEF BrowsersTyped, TalkInv
  <2>9. Elsewhere(p)
    BY <2>3 DEF Elsewhere
  <2>10. Reason(p)'
    BY <2>2, <2>3 DEF Reason, Silent
  <2>11. Doubted => Fits(browser'[p])
    BY DEF Doubted
  <2> QED BY <1>6, <2>7, <2>8, <2>9, <2>10, <2>11, TouchStep
<1> QED BY <1>5, <1>6

\* An open asks a browser that owes nothing.
LEMMA SendTalks ==
  ASSUME IInv, TalkInv, NEW j \in Jobs, Step(j), NEW p \in Profiles, Send(j, p)
  PROVE  TalkInv' /\ (Doubted => Doubted')
<1> DEFINE id == process[p].next + 1
           key == jobs[j].key
<1>1. /\ Inside(j) /\ ~Waits(j) /\ p = Profile(j) /\ p \in tracked /\ ~process[p].uncertain
      /\ jobs[j].todo \subseteq tracked
      /\ UNCHANGED <<run, browser, input, replies, tracked, guard>>
  BY DEF Send, At, Inside, Locked, Stages, Waits, TalkInv, Awaits
<1>2. key \in Keys /\ key # None /\ id \in Nat
  BY BrowserAssumption DEF IInv, TypeOK
<1>l. process[p].late = None
  BY <1>1 DEF TalkInv, Talk
<1>a. Open(id, key) \in Request /\ Asked(Open(id, key), id, key)
  <2> HIDE DEF id, key
  <2> QED BY <1>2 DEF Open, Task, Request, Asked
<1>3. CASE /\ Written(p, Open(id, key)) /\ Goto(j, "opening")
           /\ process' = [process EXCEPT ![p].next = id, ![p].opening = key]
  <2> HIDE DEF id, key
  <2>1. /\ process'[p].next = id /\ process'[p].opening = key /\ ~process'[p].uncertain
        /\ process'[p].late = None
        /\ \A q \in Profiles \ {p} : process'[q] = process[q]
    BY <1>1, <1>3, <1>l DEF IInv, TypeOK
  <2>2. jobs'[j].at = "opening" /\ jobs'[j].profile = p /\ jobs'[j].todo = jobs[j].todo
    BY <1>1, <1>3 DEF Goto, IInv, TypeOK, Profile
  <2>3. Awaits(j)' /\ Waits(j)'
    BY <1>1, <1>2, <2>1, <2>2 DEF Awaits, Waits, At, Profile
  <2>4. Wanted(p)' = key
    BY <2>1 DEF Wanted
  <2>5. \E a \in Request : Written(p, a) /\ Asked(a, process[p].next + 1, Wanted(p)')
    BY <1>3, <1>a, <2>4 DEF id
  <2>6. process'[p].next = process[p].next + 1
    BY <2>1 DEF id
  <2> QED BY <1>1, <2>1, <2>2, <2>3, <2>5, <2>6, AskStep
<1>4. CASE /\ process' = [process EXCEPT ![p].next = id, ![p].uncertain = TRUE]
           /\ Return(j, "failed") /\ UNCHANGED requests
  <2> HIDE DEF id, key
  <2>1. /\ process'[p].next = id /\ process'[p].uncertain /\ process'[p].late = None
        /\ \A q \in Profiles \ {p} : process'[q] = process[q]
    <3>1. PICK v \in BOOLEAN : v = TRUE
      OBVIOUS
    <3>2. process' = [process EXCEPT ![p].next = id, ![p].uncertain = v]
      BY <1>4, <3>1
    <3> QED BY <3>1, <3>2, <1>l DEF IInv, TypeOK
  <2>2. Awaits(j)' /\ ~Waits(j)'
    BY <1>4, ReturnAwaits DEF IInv
  <2>3. process'[p].next = process[p].next + 1
    BY <2>1 DEF id
  <2> QED BY <1>1, <1>4, <2>1, <2>2, <2>3, AskStep
<1>5. CASE /\ Written(p, Open(id, key)) /\ Return(j, "failed")
           /\ process' = [process EXCEPT ![p].next = id, ![p].uncertain = TRUE, ![p].late = key]
  <2> HIDE DEF id, key
  <2>1. /\ process'[p].next = id /\ process'[p].uncertain /\ process'[p].late = key
        /\ \A q \in Profiles \ {p} : process'[q] = process[q]
    <3>1. PICK v \in BOOLEAN : v = TRUE
      OBVIOUS
    <3>2. process' = [process EXCEPT ![p].next = id, ![p].uncertain = v, ![p].late = key]
      BY <1>5, <3>1
    <3> QED BY <3>1, <3>2 DEF IInv, TypeOK
  <2>2. Awaits(j)' /\ ~Waits(j)'
    BY <1>5, ReturnAwaits DEF IInv
  <2>3. Wanted(p)' = key
    BY <1>2, <2>1 DEF Wanted
  <2>4. \E a \in Request : Written(p, a) /\ Asked(a, process[p].next + 1, Wanted(p)')
    BY <1>5, <1>a, <2>3 DEF id
  <2>5. process'[p].next = process[p].next + 1
    BY <2>1 DEF id
  <2> QED BY <1>1, <2>1, <2>2, <2>4, <2>5, AskStep
<1> QED BY <1>3, <1>4, <1>5 DEF Send

\* A quit asks a browser that owes nothing to stop.
LEMMA CloseTalks ==
  ASSUME IInv, TalkInv, NEW j \in Jobs, Step(j), NEW p \in Profiles, Close(j, p)
  PROVE  TalkInv' /\ (Doubted => Doubted')
<1> DEFINE id == process[p].next + 1
<1>1. /\ Inside(j) /\ ~Waits(j) /\ At(j, "closing") /\ p \in jobs[j].todo
      /\ UNCHANGED <<run, browser, input, replies, tracked, guard>>
  BY DEF Close, At, Inside, Locked, Stages, Waits
<1>2. jobs[j].todo = tracked /\ p \in tracked /\ ~process[p].uncertain
  BY <1>1 DEF IInv, Knows, Closing, At
<1>3. id \in Nat
  BY DEF IInv, TypeOK
<1>l. process[p].late = None
  BY <1>2 DEF TalkInv, Talk, IInv, TypeOK
<1>a. Shutdown(id) \in Request /\ Asked(Shutdown(id), id, None)
  <2> HIDE DEF id
  <2> QED BY <1>3 DEF Shutdown, Task, Request, Asked
<1>goes. ASSUME NEW at \in {"awaiting", "ending"},
                jobs' = [jobs EXCEPT ![j].at = at, ![j].profile = p, ![j].back = "closing"]
         PROVE  jobs'[j].at = at /\ jobs'[j].profile = p /\ jobs'[j].todo = jobs[j].todo
  BY <1>goes DEF IInv, TypeOK
<1>sent. ASSUME process' = [process EXCEPT ![p].next = id, ![p].opening = None]
         PROVE  /\ process'[p].next = id /\ process'[p].opening = None
                /\ ~process'[p].uncertain /\ process'[p].late = None
                /\ \A q \in Profiles \ {p} : process'[q] = process[q]
  <2> HIDE DEF id
  <2> QED BY <1>2, <1>l, <1>sent DEF IInv, TypeOK
<1>4. CASE /\ Written(p, Shutdown(id))
           /\ process' = [process EXCEPT ![p].next = id, ![p].opening = None]
           /\ jobs' = [jobs EXCEPT ![j].at = "awaiting", ![j].profile = p, ![j].back = "closing"]
  <2> HIDE DEF id
  <2>1. jobs'[j].at = "awaiting" /\ jobs'[j].profile = p /\ jobs'[j].todo = jobs[j].todo
    BY <1>4, <1>goes
  <2>2. /\ process'[p].next = id /\ process'[p].opening = None /\ ~process'[p].uncertain
        /\ process'[p].late = None
        /\ \A q \in Profiles \ {p} : process'[q] = process[q]
    BY <1>4, <1>sent
  <2>3. Awaits(j)' /\ Waits(j)'
    BY <1>1, <1>2, <2>1, <2>2 DEF Awaits, Waits, At, Profile
  <2>4. Wanted(p)' = None
    BY <2>2 DEF Wanted
  <2>5. \E a \in Request : Written(p, a) /\ Asked(a, process[p].next + 1, Wanted(p)')
    BY <1>4, <1>a, <2>4 DEF id
  <2>6. process'[p].next = process[p].next + 1
    BY <2>2 DEF id
  <2> QED BY <1>1, <1>2, <2>1, <2>2, <2>3, <2>5, <2>6, AskStep
<1>5. CASE /\ ~On(p) /\ UNCHANGED requests
           /\ process' = [process EXCEPT ![p].next = id, ![p].opening = None]
           /\ jobs' = [jobs EXCEPT ![j].at = "ending", ![j].profile = p, ![j].back = "closing"]
  <2> HIDE DEF id
  <2>1. jobs'[j].at = "ending" /\ jobs'[j].profile = p /\ jobs'[j].todo = jobs[j].todo
    BY <1>5, <1>goes
  <2>2. /\ process'[p].next = id /\ process'[p].opening = None /\ ~process'[p].uncertain
        /\ process'[p].late = None
        /\ \A q \in Profiles \ {p} : process'[q] = process[q]
    BY <1>5, <1>sent
  <2>3. Awaits(j)' /\ Waits(j)'
    BY <1>1, <1>2, <1>5, <2>1, <2>2 DEF Awaits, Waits, At, Profile, On
  <2>4. process'[p].next = process[p].next + 1
    BY <2>2 DEF id
  <2> QED BY <1>1, <1>2, <1>5, <2>1, <2>2, <2>3, <2>4, AskStep
<1>6. CASE /\ process' = [process EXCEPT ![p].next = id, ![p].opening = None, ![p].uncertain = TRUE]
           /\ Return(j, "failed") /\ (UNCHANGED requests \/ Written(p, Shutdown(id)))
  <2> HIDE DEF id
  <2>1. /\ process'[p].next = id /\ process'[p].uncertain /\ process'[p].opening = None
        /\ process'[p].late = None
        /\ \A q \in Profiles \ {p} : process'[q] = process[q]
    <3>1. PICK v \in BOOLEAN : v = TRUE
      OBVIOUS
    <3>2. process' = [process EXCEPT ![p].next = id, ![p].opening = None, ![p].uncertain = v]
      BY <1>6, <3>1
    <3> QED BY <3>1, <3>2, <1>l DEF IInv, TypeOK
  <2>2. Awaits(j)' /\ ~Waits(j)'
    BY <1>6, ReturnAwaits DEF IInv
  <2>3. process'[p].next = process[p].next + 1
    BY <2>1 DEF id
  <2>4. Wanted(p)' = None
    BY <2>1 DEF Wanted
  <2>5. \/ requests' = requests
        \/ \E a \in Request : Written(p, a) /\ Asked(a, process[p].next + 1, Wanted(p)')
    BY <1>6, <1>a, <2>4 DEF id
  <2> QED BY <1>1, <1>2, <2>1, <2>2, <2>3, <2>5, AskStep
<1> QED BY <1>4, <1>5, <1>6 DEF Close

\* A new browser begins with the creation of the screen it is started for.
LEMMA SpawnTalks ==
  ASSUME IInv, TalkInv, NEW j \in Jobs, Step(j), NEW p \in Profiles, Spawn(j, p)
  PROVE  TalkInv' /\ (Doubted => Doubted')
<1> DEFINE key == jobs[j].key
           b == NewBrowser(key)
<1>1. /\ Inside(j) /\ ~Waits(j) /\ p = Profile(j) /\ jobs[j].todo \subseteq tracked
      /\ tracked' = tracked \cup {p} /\ run' = [run EXCEPT ![p] = "on"]
      /\ guard' = [guard EXCEPT ![p] = [state |-> "running", order |-> launches + 1]]
      /\ browser' = [browser EXCEPT ![p] = b] /\ process' = [process EXCEPT ![p] = Process(1, key)]
      /\ requests' = [requests EXCEPT ![p] = <<>>] /\ replies' = [replies EXCEPT ![p] = <<>>]
      /\ input' = [input EXCEPT ![p] = TRUE] /\ Goto(j, "opening")
  BY DEF Spawn, At, Inside, Locked, Stages, Waits, TalkInv, Awaits
<1>2. key \in Keys /\ key # None
  BY BrowserAssumption DEF IInv, TypeOK
<1>3. /\ Fine(b) /\ b.boot = key /\ b.tasks = <<>> /\ b.creating = {} /\ b.lastId = 0
      /\ b.shutdown = NoId /\ Fits(b)
  BY <1>2, NewBrowserIs
<1> HIDE DEF b, key
<1>4. BrowsersTyped'
  <2> HIDE DEF Browser, Request, Reply
  <2>1. <<>> \in Seq(Request) /\ <<>> \in Seq(Reply)
    OBVIOUS
  <2> QED BY <1>1, <1>3, <2>1 DEF TalkInv, BrowsersTyped, Fine
<1>5. /\ browser'[p] = b /\ requests'[p] = <<>> /\ replies'[p] = <<>> /\ input'[p] = TRUE
      /\ process'[p] = Process(1, key) /\ guard'[p].state = "running" /\ run'[p] = "on"
  <2> HIDE DEF Browser, Request, Reply
  <2> QED BY <1>1 DEF TalkInv, IInv, TypeOK
<1>6. Elsewhere(p)
  <2> HIDE DEF Browser, Request, Reply
  <2> QED BY <1>1 DEF TalkInv, IInv, TypeOK, Elsewhere
<1>7. /\ process'[p].next = 1 /\ process'[p].opening = key /\ ~process'[p].uncertain
      /\ process'[p].late = None /\ Wanted(p)' = key
  BY <1>5 DEF Process, Wanted
<1>8. InBoot(b, <<>>, <<>>, 1, key)
  BY <1>2, <1>3 DEF InBoot
<1>9. Conversation(b, <<>>, <<>>, 1, key, "running")
  BY <1>3, <1>8 DEF Conversation
<1>10. Talk(p)'
  <2>1. <<>> \in Seq(Request) /\ <<>> \in Seq(Reply)
    OBVIOUS
  <2>2. input'[p]
    BY <1>5
  <2> QED BY <1>2, <1>3, <1>5, <1>7, <1>9, <2>1, <2>2 DEF Talk, Over, On, Prepared
<1>11. jobs'[j].at = "opening" /\ jobs'[j].profile = p /\ jobs'[j].todo = jobs[j].todo
  BY <1>1 DEF Goto, IInv, TypeOK, Profile
<1>12. Awaits(j)' /\ Waits(j)'
  BY <1>1, <1>2, <1>7, <1>11 DEF Awaits, Waits, At, Profile
<1>13. Reason(p)'
  BY <1>2, <1>3, <1>5 DEF Reason, Silent, NoWork
<1> QED BY <1>1, <1>3, <1>4, <1>5, <1>6, <1>10, <1>11, <1>12, <1>13, TouchStep

\* Every step of a job keeps the invariant.
LEMMA StepTalks ==
  ASSUME IInv, TalkInv, NEW j \in Jobs, Step(j)
  PROVE  TalkInv' /\ (Doubted => Doubted')
<1> DEFINE Goal == TalkInv' /\ (Doubted => Doubted')
<1>1. CASE Drained(j)
  <2>1. Inside(j) /\ ~Waits(j)
    BY <1>1 DEF Drained, At, Inside, Locked, Stages, Waits
  <2> QED BY <1>1, <2>1, StillDealt DEF Drained
<1>2. CASE SpawnFails(j) \/ AllClosed(j) \/ Clear(j)
  <2>1. ~Waits(j)
    BY <1>2 DEF SpawnFails, AllClosed, Clear, At, Waits
  <2> QED BY <1>2, <2>1, StillReturn DEF SpawnFails, AllClosed, Clear
<1>3. CASE Lock(j) \/ Settled(j) \/ Recovered(j) \/ ChannelCloses(j) \/ StorePhase(j)
  BY <1>3, LockTalks, SettledTalks, RecoveredTalks, ChannelClosesTalks, StorePhaseTalks
<1>4. CASE Drain(j) \/ Opened(j) \/ GiveUp(j) \/ Closed(j) \/ Ending(j)
  BY <1>4, DrainTalks, OpenedTalks, GiveUpTalks, ClosedTalks, EndingTalks
<1>5. ASSUME NEW p \in Profiles,
             \/ SettleEnded(j, p) \/ SettleBad(j, p) \/ SettleRunning(j, p) \/ Recover(j, p)
             \/ Spawn(j, p) \/ Send(j, p) \/ CloseEnded(j, p) \/ Close(j, p)
      PROVE  Goal
  BY <1>5, SettleTalks, RecoverTalks, SpawnTalks, SendTalks, CloseEndedTalks, CloseTalks
<1> HIDE DEF Goal
<1>6. Goal
  BY <1>1, <1>2, <1>3, <1>4, <1>5 DEF Step, Goal
<1> QED BY <1>6 DEF Goal

\* At first there is no browser and no doubt.
LEMMA InitTalks ==
  ASSUME Init
  PROVE  TalkInv /\ Doubted
<1> DEFINE b == NewBrowser(None)
<1>1. /\ Fine(b) /\ b.boot = None /\ b.tasks = <<>> /\ b.creating = {} /\ b.lastId = 0
      /\ b.shutdown = NoId /\ Fits(b)
  BY NewBrowserIs
<1> HIDE DEF b
<1>2. <<>> \in Seq(Request) /\ <<>> \in Seq(Reply)
  OBVIOUS
<1>3. /\ \A p \in Profiles : /\ run[p] = "off" /\ browser[p] = b /\ requests[p] = <<>>
                             /\ input[p] = FALSE /\ replies[p] = <<>>
                             /\ process[p] = Process(0, None)
      /\ tracked = {}
  BY DEF Init, b
<1>4. /\ browser \in [Profiles -> Browser] /\ requests \in [Profiles -> Seq(Request)]
      /\ replies \in [Profiles -> Seq(Reply)] /\ input \in [Profiles -> BOOLEAN]
  <2> HIDE DEF Browser, Request, Reply
  <2> QED BY <1>1, <1>2 DEF Init, Fine, b
<1>5. Silent(b, <<>>, <<>>)
  BY <1>1 DEF Silent, NoWork
<1>6. ASSUME NEW p \in Profiles PROVE Talk(p)
  <2>1. process[p].next = 0 /\ Wanted(p) = None /\ process[p].late = None
    BY <1>3 DEF Process, Wanted
  <2>2. Conversation(b, <<>>, <<>>, 0, None, guard[p].state)
    BY <1>1, <1>5 DEF Conversation
  <2>3. ~On(p)
    BY <1>3 DEF On
  <2> QED BY <1>1, <1>2, <1>3, <2>1, <2>2, <2>3 DEF Talk, b
<1>7. ASSUME NEW j \in Jobs PROVE Awaits(j)
  <2>1. jobs[j].at = "idle"
    BY InitInvariant DEF Init, IdleJob
  <2> QED BY <2>1 DEF Awaits, At, Inside, Locked
<1>8. TalkInv
  BY <1>3, <1>4, <1>6, <1>7 DEF TalkInv, Certain
<1>9. Doubted
  BY <1>1, <1>3 DEF Doubted
<1> QED BY <1>8, <1>9

\* A step that changes nothing keeps the invariant.
LEMMA StutterTalks ==
  ASSUME TalkInv, UNCHANGED vars
  PROVE  TalkInv' /\ (Doubted => Doubted')
<1>1. UNCHANGED <<run, browser, requests, input, replies, tracked, process, guard, jobs>>
  BY DEF vars, browserVars, adapterVars
<1>2. \A q : Waiting(q)' <=> Waiting(q)
  BY <1>1 DEF Waiting, Profile
<1>3. (\A q \in Profiles : Talk(q)') /\ Certain' /\ \A j \in Jobs : Awaits(j)'
  BY <1>1, <1>2 DEF TalkInv, Talk, Over, On, Wanted, Certain, Awaits, At, Profile, Inside
<1>4. TalkInv'
  BY <1>1, <1>3 DEF TalkInv
<1>5. Doubted => Doubted'
  BY <1>1, <1>2 DEF Doubted, Reason, On
<1> QED BY <1>4, <1>5

\* Every step keeps the invariant.
LEMMA NextTalks ==
  ASSUME IInv, TalkInv, [Next]_vars
  PROVE  TalkInv' /\ (MaxBorn < MaxScreens /\ Doubted => Doubted')
<1>1. CASE \E j \in Jobs : Step(j) \/ Person(j)
  BY <1>1, StepTalks, PersonTalks
<1>2. CASE \E p \in Profiles : Native(p) /\ UNCHANGED adapterVars
  BY <1>2, TalkNative
<1>3. CASE \E p \in Profiles : GuardEnds(p)
  BY <1>3, TalkGuard
<1>4. CASE UNCHANGED vars
  BY <1>4, StutterTalks
<1> QED BY <1>1, <1>2, <1>3, <1>4 DEF Next

\* The conversation stands where the invariant says, in every state.
THEOREM ConversationInvariance == Spec => []TalkInv
<1>1. Init => TalkInv
  BY InitTalks
<1>2. IInv /\ TalkInv /\ [Next]_vars => TalkInv'
  BY NextTalks
<1> QED BY <1>1, <1>2, AdapterInvariance, PTL DEF Spec

\* A screen has one window in its browser, whatever the App and the sites open.
THEOREM ScreensHaveOneWindow == Spec => []OneWindowPerScreen
<1>1. TalkInv => OneWindowPerScreen
  BY DEF TalkInv, Talk, Fine, Screens, OneWindowPerScreen
<1> QED BY <1>1, ConversationInvariance, PTL

\* A browser that is not in doubt and that nobody waits for has nothing under way: no
\* answer can be taken for another request's.
THEOREM CertainIsQuiet == Spec => []QuietWhenCertain
<1>1. TalkInv => QuietWhenCertain
  BY DEF TalkInv, Certain, Silent, NoWork, QuietWhenCertain, InFlight
<1> QED BY <1>1, ConversationInvariance, PTL

\* A doubt has a reason that a later reply or the browser's end removes, as long as no
\* browser is so full that it creates a window without answering; the exception is an
\* open whose write timed out but went on (Windows), which only the end removes.
THEOREM DoubtsHaveReasons ==
  ASSUME MaxBorn < MaxScreens
  PROVE  Spec => []DoubtHasReason
<1>1. Init => Doubted
  BY InitTalks
<1>2. IInv /\ TalkInv /\ Doubted /\ [Next]_vars => Doubted'
  BY NextTalks
<1>3. IInv /\ TalkInv /\ Doubted => DoubtHasReason
  <2> SUFFICES ASSUME IInv, TalkInv, Doubted, NEW p \in tracked, process[p].uncertain
               PROVE  \/ ~On(p) \/ browser[p].quitting \/ InFlight(p)
                      \/ \E i \in DOMAIN replies[p] : replies[p][i].id = process[p].next
                      \/ browser[p].lastId < process[p].next
                      \/ process[p].late # None
    BY DEF DoubtHasReason
  <2>1. p \in Profiles /\ Reason(p)
    BY DEF IInv, TypeOK, Doubted
  <2>2. CASE replies[p] = <<>>
    BY <2>1, <2>2 DEF Reason, Silent, NoWork, InFlight
  <2>3. CASE replies[p] # <<>>
    <3>1. Head(replies[p]).id = process[p].next /\ replies[p] \in Seq(Reply)
      BY <2>1, <2>3, OneAnswer DEF TalkInv
    <3>2. 1 \in DOMAIN replies[p] /\ Head(replies[p]) = replies[p][1]
      <4> HIDE DEF Reply
      <4> QED BY <2>3, <3>1
    <3> QED BY <3>1, <3>2
  <2> QED BY <2>2, <2>3
<1> QED BY <1>1, <1>2, <1>3, AdapterInvariance, ConversationInvariance, PTL DEF Spec

=============================================================================
