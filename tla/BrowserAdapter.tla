--------------------------- MODULE BrowserAdapter ---------------------------
(***************************************************************************)
(* The App's side of the desktop browser processes                         *)
(* (src-tauri/plugins/app-screen/src/desktop/process_adapter.rs), composed *)
(* with the browsers of BrowserProcess.                                    *)
(*                                                                         *)
(* A job is one call of the adapter on its own thread: open a screen,      *)
(* clear a profile's data, or quit (request_exit and shutdown: close every *)
(* browser, oldest first).  A job holds the backend's lock from its first  *)
(* look at the browsers to its end, across every wait for a reply; the     *)
(* exit phase is an atomic, written outside the lock.  A wait's deadline   *)
(* may pass at any moment.                                                 *)
(***************************************************************************)
EXTENDS BrowserProcess

CONSTANTS Jobs,          \* calls of the adapter, one thread each
          Free,          \* nobody holds the lock
          MaxProcesses   \* 32: browsers at once

ASSUME AdapterAssumption == MaxProcesses \in Nat /\ Free \notin Jobs

VARIABLES tracked,       \* profiles in state.processes
          process,       \* the adapter's record of each tracked browser
          guard,         \* the guard process owning each profile's browser
          launches,      \* NEXT_ORDER: browsers started so far
          phase,         \* ExitPhase: 0 running, 1 closing, 2 finished
          lock,          \* the job holding the backend's lock
          jobs           \* every call, with the stage it has reached

adapterVars == <<tracked, process, guard, launches, phase, lock, jobs>>
vars == <<browserVars, adapterVars>>

\* `late` is a ghost: the screen of an open whose write timed out but went on
\* in the pipe's writer thread (process_windows.rs), until its error is read.
Process(next, key) == [next |-> next, uncertain |-> FALSE, opening |-> key, late |-> None]
Kinds == {"open", "clear", "quit"}
Stages == {"idle", "waiting", "settling", "recovering", "draining", "sending",
           "spawning", "opening", "closing", "awaiting", "ending", "clearing",
           "storing", "unlatching", "done"}
Told == {"nothing", "opened", "failed", "cleared", "cancelled", "prevented", "exits"}
IdleJob(p, k) == [kind |-> "open", profile |-> p, key |-> k, at |-> "idle",
                  todo |-> {}, back |-> "idle", told |-> "nothing"]

Bad(p) == guard[p].state \in {"forced", "abnormal"}
\* The adapter's reading of a reply: `receive` for the request `next` of p.
Stale(p, r) == r.id < process[p].next /\ r.event # "error"
Mine(j) == IF jobs[j].kind = "quit" THEN tracked ELSE {jobs[j].profile} \cap tracked

Init ==
    /\ run = [p \in Profiles |-> "off"]
    /\ browser = [p \in Profiles |-> NewBrowser(None)]
    /\ requests = [p \in Profiles |-> <<>>]
    /\ input = [p \in Profiles |-> FALSE]
    /\ replies = [p \in Profiles |-> <<>>]
    /\ tracked = {}
    /\ process = [p \in Profiles |-> Process(0, None)]
    /\ guard = [p \in Profiles |-> [state |-> "none", order |-> 0]]
    /\ launches = 0 /\ phase = 0 /\ lock = Free
    /\ \E p \in Profiles, k \in Keys : jobs = [j \in Jobs |-> IdleJob(p, k)]

-----------------------------------------------------------------------------
(* Steps every job is made of. *)

\* The job goes on at another stage, keeping the lock.
Goto(j, at) ==
    /\ jobs' = [jobs EXCEPT ![j].at = at]
    /\ UNCHANGED <<lock, phase>>

\* The job has dealt with profile p at this stage.
Dealt(j, p, at) ==
    /\ jobs' = [jobs EXCEPT ![j].todo = @ \ {p}, ![j].at = at]
    /\ UNCHANGED <<lock, phase>>

\* Mutant of Return: a cancelled quit leaves the exit phase closing.
ReturnLatched(j, told) ==
    /\ lock' = Free
    /\ jobs' = [jobs EXCEPT ![j].told = told, ![j].todo = {},
                            ![j].at = IF jobs[j].kind = "quit" /\ told = "exits"
                                      THEN "storing" ELSE "done"]
    /\ UNCHANGED phase

\* The job returns, and the lock with it; a quit has the exit phase to store.
Return(j, told) ==
    /\ lock' = Free
    /\ jobs' = [jobs EXCEPT ![j].told = told, ![j].todo = {},
                            ![j].at = IF jobs[j].kind # "quit" THEN "done"
                                      ELSE IF told = "exits" THEN "storing"
                                      ELSE "unlatching"]
    /\ UNCHANGED phase

\* A browser that ended normally is dropped, its pipes with it.
Forget(p) ==
    /\ tracked' = tracked \ {p}
    /\ process' = [process EXCEPT ![p] = Process(0, None)]
    /\ requests' = [requests EXCEPT ![p] = <<>>]
    /\ replies' = [replies EXCEPT ![p] = <<>>]
    /\ input' = [input EXCEPT ![p] = FALSE]
    /\ UNCHANGED <<run, browser, guard, launches>>

World == <<browserVars, tracked, process, guard, launches>>
Doubt(p) == process' = [process EXCEPT ![p].uncertain = TRUE]
TakeReply(p) == replies' = [replies EXCEPT ![p] = Tail(@)]

At(j, stage) == jobs[j].at = stage
Profile(j) == jobs[j].profile

-----------------------------------------------------------------------------
(* The start of a call, before the lock. *)

Start(j, p, k) ==
    /\ At(j, "idle")
    /\ \E kind \in {"open", "clear"} :
          jobs' = [jobs EXCEPT ![j] = [IdleJob(p, k) EXCEPT !.kind = kind,
                                       !.at = IF phase = 0 THEN "waiting" ELSE "done",
                                       !.told = IF phase = 0 THEN @ ELSE "failed"]]
    /\ UNCHANGED <<World, phase, lock>>

\* Mutant of StartQuit: the phase is counted up, not compared and set.
QuitAgain(j) ==
    /\ At(j, "idle")
    /\ phase' = phase + 1
    /\ jobs' = [jobs EXCEPT ![j].kind = "quit", ![j].at = "waiting"]
    /\ UNCHANGED <<World, lock>>

\* request_exit / shutdown: only one quit at a time closes the browsers.
StartQuit(j) ==
    /\ At(j, "idle")
    /\ phase' = IF phase = 0 THEN 1 ELSE phase
    /\ jobs' = [jobs EXCEPT ![j].kind = "quit",
                            ![j].at = IF phase = 0 THEN "waiting" ELSE "done",
                            ![j].told = IF phase = 0 THEN @ ELSE
                                        IF phase = 1 THEN "prevented" ELSE "exits"]
    /\ UNCHANGED <<World, lock>>

\* Mutant of Lock: the exit phase is not looked at again under the lock.
LockUnchecked(j) ==
    /\ At(j, "waiting") /\ lock = Free
    /\ lock' = j
    /\ jobs' = [jobs EXCEPT ![j].at = "settling", ![j].todo = Mine(j)]
    /\ UNCHANGED phase
    /\ UNCHANGED World

Lock(j) ==
    /\ At(j, "waiting") /\ lock = Free
    /\ IF phase # 0 /\ jobs[j].kind # "quit"
       THEN Return(j, "failed")
       ELSE /\ lock' = j
            /\ jobs' = [jobs EXCEPT ![j].at = "settling", ![j].todo = Mine(j)]
            /\ UNCHANGED phase
    /\ UNCHANGED World

-----------------------------------------------------------------------------
(* settle_exiting, release_ended and the start of open: drop what has ended. *)

\* Mutant of SettleEnded: a zero exit status is enough, without the receipt.
SettleOnStatus(j, p) ==
    /\ At(j, "settling") /\ p \in jobs[j].todo
    /\ guard[p].state \in {"normal", "forced"}
    /\ Forget(p)
    /\ Dealt(j, p, "settling")

SettleEnded(j, p) ==
    /\ At(j, "settling") /\ p \in jobs[j].todo
    /\ guard[p].state = "normal"
    /\ Forget(p)
    /\ Dealt(j, p, "settling")

SettleBad(j, p) ==
    /\ At(j, "settling") /\ p \in jobs[j].todo
    /\ Bad(p)
    /\ Return(j, "failed")
    /\ IF jobs[j].kind = "quit" /\ guard[p].state = "abnormal"
       THEN Doubt(p) ELSE UNCHANGED process
    /\ UNCHANGED <<browserVars, tracked, guard, launches>>

\* Mutant of SettleRunning: a clear does not wait for a running browser.
ClearRunning(j, p) ==
    /\ At(j, "settling") /\ p \in jobs[j].todo
    /\ guard[p].state = "running"
    /\ Dealt(j, p, "settling")
    /\ UNCHANGED World

\* A browser still runs: a clear waits for its end, but not for ever.
SettleRunning(j, p) ==
    /\ At(j, "settling") /\ p \in jobs[j].todo
    /\ guard[p].state = "running"
    /\ IF jobs[j].kind = "clear" THEN Return(j, "failed") ELSE Dealt(j, p, "settling")
    /\ UNCHANGED World

Settled(j) ==
    /\ At(j, "settling") /\ jobs[j].todo = {}
    /\ jobs' = [jobs EXCEPT ![j].at = IF jobs[j].kind = "clear"
                                      THEN "clearing" ELSE "recovering",
                            ![j].todo = Mine(j)]
    /\ UNCHANGED <<World, lock, phase>>

-----------------------------------------------------------------------------
(* recover: a browser in doubt is settled by its late reply or its end. *)

Recover(j, p) ==
    /\ At(j, "recovering") /\ p \in jobs[j].todo
    /\ \/ /\ ~process[p].uncertain
          /\ Dealt(j, p, "recovering") /\ UNCHANGED World
       \/ /\ process[p].uncertain /\ guard[p].state = "normal"
          /\ Dealt(j, p, "recovering") /\ Forget(p)
       \/ /\ process[p].uncertain /\ Bad(p)
          /\ Return(j, "failed") /\ UNCHANGED World
       \/ /\ process[p].uncertain /\ guard[p].state = "running"
          /\ jobs' = [jobs EXCEPT ![j].at = "draining", ![j].profile = p]
          /\ UNCHANGED <<World, lock, phase>>

\* Mutant of Settles: a late cancel is consumed but settles nothing.
SettlesCreation(p, r) ==
    r.id = process[p].next /\ r.event = "opened" /\ r.key = process[p].opening

\* What a late reply says of the last request: it is settled, or unknown.
Settles(p, r) ==
    /\ r.id = process[p].next
    /\ \/ r.event \in {"cancelled", "closeBlocked", "error"}
       \/ r.event = "opened" /\ r.key = process[p].opening
Drain(j) ==
    LET p == Profile(j)
        r == Head(replies[p])
    IN  /\ At(j, "draining") /\ replies[p] # <<>>
        /\ TakeReply(p)
        /\ IF r.event = "stopped" /\ r.id = process[p].next
           THEN /\ input' = [input EXCEPT ![p] = FALSE]
                /\ jobs' = [jobs EXCEPT ![j].at = "ending", ![j].back = "recovering"]
                /\ UNCHANGED process
           ELSE /\ process' = IF Settles(p, r)
                              THEN [process EXCEPT ![p].uncertain = FALSE,
                                       ![p].opening = IF r.event \in {"opened", "error"}
                                                      THEN None ELSE @,
                                       ![p].late = None]
                              ELSE process
                /\ UNCHANGED <<input, jobs>>
        /\ UNCHANGED <<run, browser, requests, tracked, guard, launches, lock, phase>>

Drained(j) ==
    /\ At(j, "draining") /\ replies[Profile(j)] = <<>>
    /\ Dealt(j, Profile(j), "recovering")
    /\ UNCHANGED World

\* Mutant of Recovered: a quit goes on with a browser in doubt.
RecoveredInDoubt(j) ==
    /\ At(j, "recovering") /\ jobs[j].todo = {}
    /\ jobs' = [jobs EXCEPT ![j].todo = Mine(j),
                           ![j].at = IF jobs[j].kind = "quit" THEN "closing"
                                     ELSE IF Mine(j) = {} THEN "spawning"
                                     ELSE "sending"]
    /\ UNCHANGED <<World, lock, phase>>

\* Nothing left to recover: a browser still in doubt refuses the call.
Recovered(j) ==
    /\ At(j, "recovering") /\ jobs[j].todo = {}
    /\ IF \E p \in Mine(j) : process[p].uncertain
       THEN Return(j, "failed")
       ELSE /\ jobs' = [jobs EXCEPT ![j].todo = Mine(j),
                           ![j].at = IF jobs[j].kind = "quit" THEN "closing"
                                     ELSE IF Mine(j) = {} THEN "spawning"
                                     ELSE "sending"]
            /\ UNCHANGED <<lock, phase>>
    /\ UNCHANGED World

-----------------------------------------------------------------------------
(* open: a new browser, or a request to the one that runs. *)

Spawn(j, p) ==
    /\ At(j, "spawning") /\ p = Profile(j)
    /\ Cardinality(tracked) < MaxProcesses
    /\ tracked' = tracked \cup {p}
    /\ launches' = launches + 1
    /\ guard' = [guard EXCEPT ![p] = [state |-> "running", order |-> launches + 1]]
    /\ run' = [run EXCEPT ![p] = "on"]
    /\ browser' = [browser EXCEPT ![p] = NewBrowser(jobs[j].key)]
    /\ process' = [process EXCEPT ![p] = Process(1, jobs[j].key)]
    /\ requests' = [requests EXCEPT ![p] = <<>>]
    /\ replies' = [replies EXCEPT ![p] = <<>>]
    /\ input' = [input EXCEPT ![p] = TRUE]
    /\ Goto(j, "opening")

\* The process limit, or any failure before the guard was started.
SpawnFails(j) ==
    /\ At(j, "spawning")
    /\ Return(j, "failed")
    /\ UNCHANGED World

\* A pipe write: into a live browser's pipe.  One that fails is not made at
\* all; on Windows one that times out goes on in a thread of its own, and the
\* request arrives all the same.
Written(p, r) == /\ On(p) /\ input[p]
                 /\ requests' = [requests EXCEPT ![p] = Append(@, r)]

Send(j, p) ==
    LET id == process[p].next + 1
        sent == [process EXCEPT ![p].next = id]
    IN  /\ At(j, "sending") /\ p = Profile(j)
        /\ \/ /\ Written(p, Open(id, jobs[j].key))
              /\ process' = [sent EXCEPT ![p].opening = jobs[j].key]
              /\ Goto(j, "opening")
           \/ /\ process' = [sent EXCEPT ![p].uncertain = TRUE]
              /\ Return(j, "failed")
              /\ UNCHANGED requests
           \/ /\ Written(p, Open(id, jobs[j].key))
              /\ process' = [sent EXCEPT ![p].uncertain = TRUE, ![p].late = jobs[j].key]
              /\ Return(j, "failed")
        /\ UNCHANGED <<run, browser, input, replies, tracked, guard, launches>>

\* expect_open: the answer to this open.  An error of this id refuses it and
\* leaves nothing pending; anything else but its own opened leaves it in doubt.
Opened(j) ==
    LET p == Profile(j)
        r == Head(replies[p])
        own == r.id = process[p].next
        refused == own /\ r.event = "error"
        made == own /\ r.event = "opened" /\ r.key = process[p].opening
    IN  /\ At(j, "opening") /\ replies[p] # <<>>
        /\ TakeReply(p)
        /\ IF Stale(p, r) THEN UNCHANGED <<process, jobs, lock, phase>>
           ELSE /\ Return(j, IF made THEN "opened" ELSE "failed")
                /\ process' = IF refused \/ made
                              THEN [process EXCEPT ![p].opening = None]
                              ELSE [process EXCEPT ![p].uncertain = TRUE]
        /\ UNCHANGED <<run, browser, requests, input, tracked, guard, launches>>

\* Mutant of GiveUp: a timeout does not leave the browser in doubt.
GiveUpCertain(j) ==
    /\ At(j, "opening") \/ At(j, "awaiting")
    /\ Return(j, "failed")
    /\ UNCHANGED World

\* The reply deadline passes, or an open's reply channel has closed.
GiveUp(j) ==
    /\ \/ At(j, "opening") \/ At(j, "awaiting")
    /\ Doubt(Profile(j))
    /\ Return(j, "failed")
    /\ UNCHANGED <<browserVars, tracked, guard, launches>>

-----------------------------------------------------------------------------
(* drain: close the browsers one at a time, oldest first. *)

Oldest(p, among) == \A q \in among : guard[p].order <= guard[q].order

\* The browser has ended before it was asked.
CloseEnded(j, p) ==
    /\ At(j, "closing") /\ p \in jobs[j].todo /\ Oldest(p, jobs[j].todo)
    /\ \/ guard[p].state = "normal" /\ Forget(p) /\ Dealt(j, p, "closing")
       \/ /\ Bad(p) /\ Doubt(p) /\ Return(j, "failed")
          /\ UNCHANGED <<browserVars, tracked, guard, launches>>

\* Ask it to stop.  A closed pipe means it is ending; a request it did not
\* read in time leaves it in doubt.
Close(j, p) ==
    LET id == process[p].next + 1
        sent == [process EXCEPT ![p].next = id, ![p].opening = None]
        goes(at) == jobs' = [jobs EXCEPT ![j].at = at, ![j].profile = p,
                                         ![j].back = "closing"]
    IN  /\ At(j, "closing") /\ p \in jobs[j].todo /\ Oldest(p, jobs[j].todo)
        /\ guard[p].state = "running"
        /\ \/ /\ Written(p, Shutdown(id)) /\ process' = sent
              /\ goes("awaiting") /\ UNCHANGED <<lock, phase>>
           \/ /\ ~On(p) /\ process' = sent /\ UNCHANGED requests
              /\ goes("ending") /\ UNCHANGED <<lock, phase>>
           \/ /\ process' = [sent EXCEPT ![p].uncertain = TRUE]
              /\ Return(j, "failed")
              /\ UNCHANGED requests \/ Written(p, Shutdown(id))
        /\ UNCHANGED <<run, browser, input, replies, tracked, guard, launches>>

\* shutdown_attempt's reading of the reply.
Closed(j) ==
    LET p == Profile(j)
        r == Head(replies[p])
        own == r.id = process[p].next
        stays == own /\ r.event \in {"cancelled", "closeBlocked"}
        refused == own /\ r.event = "error"
    IN  /\ At(j, "awaiting") /\ replies[p] # <<>>
        /\ TakeReply(p)
        /\ IF Stale(p, r) THEN UNCHANGED <<process, input, jobs, lock, phase>>
           ELSE IF own /\ r.event = "stopped"
           THEN /\ input' = [input EXCEPT ![p] = FALSE]
                /\ Goto(j, "ending") /\ UNCHANGED process
           ELSE /\ Return(j, IF stays THEN "cancelled" ELSE "failed")
                /\ IF stays \/ refused THEN UNCHANGED process ELSE Doubt(p)
                /\ UNCHANGED input
        /\ UNCHANGED <<run, browser, requests, tracked, guard, launches>>

\* The reply channel closed: the browser is ending.
ChannelCloses(j) ==
    /\ At(j, "awaiting") /\ replies[Profile(j)] = <<>> /\ ~On(Profile(j))
    /\ Goto(j, "ending")
    /\ UNCHANGED World

\* ended_within: its normal end within STOP_FINISH, or doubt.
Ending(j) ==
    LET p == Profile(j)
    IN  /\ At(j, "ending")
        /\ \/ guard[p].state = "normal" /\ Forget(p) /\ Dealt(j, p, jobs[j].back)
           \/ /\ guard[p].state # "normal" /\ Doubt(p) /\ Return(j, "failed")
              /\ UNCHANGED <<browserVars, tracked, guard, launches>>

AllClosed(j) ==
    /\ At(j, "closing") /\ jobs[j].todo = {}
    /\ Return(j, "exits")
    /\ UNCHANGED World

-----------------------------------------------------------------------------
(* The ends of a clear and of a quit. *)

Clear(j) ==
    /\ At(j, "clearing")
    /\ Return(j, "cleared")
    /\ UNCHANGED World

StorePhase(j) ==
    /\ jobs[j].at \in {"storing", "unlatching"}
    /\ phase' = IF At(j, "storing") THEN 2 ELSE 0
    /\ jobs' = [jobs EXCEPT ![j].at = "done"]
    /\ UNCHANGED <<World, lock>>

\* The guard reaps its browser and everything it started, then ends itself;
\* the browser's memory is gone.  A zero exit may still hide forced cleanup, and
\* a cleanup that failed is an abnormal end of a browser that left normally.
GuardEnds(p) ==
    /\ guard[p].state = "running" /\ run[p] \in {"left", "dead"}
    /\ \E end \in IF run[p] = "dead" THEN {"abnormal"}
                   ELSE IF p \in MayCrash THEN {"normal", "forced", "abnormal"} ELSE {"normal"} :
          guard' = [guard EXCEPT ![p].state = end]
    /\ browser' = [browser EXCEPT ![p] = NewBrowser(None)]
    /\ requests' = [requests EXCEPT ![p] = <<>>]
    /\ UNCHANGED <<run, input, replies, tracked, process, launches, phase, lock, jobs>>

Step(j) ==
    \/ Lock(j) \/ Settled(j) \/ Drain(j) \/ Drained(j) \/ Recovered(j)
    \/ SpawnFails(j) \/ Opened(j) \/ GiveUp(j) \/ Closed(j) \/ ChannelCloses(j)
    \/ Ending(j) \/ AllClosed(j) \/ Clear(j) \/ StorePhase(j)
    \/ \E p \in Profiles :
          \/ SettleEnded(j, p) \/ SettleBad(j, p) \/ SettleRunning(j, p)
          \/ Recover(j, p) \/ Spawn(j, p) \/ Send(j, p)
          \/ CloseEnded(j, p) \/ Close(j, p)

Person(j) == StartQuit(j) \/ \E p \in Profiles, k \in Keys : Start(j, p, k)

Next ==
    \/ \E j \in Jobs : Step(j) \/ Person(j)
    \/ \E p \in Profiles : \/ Native(p) /\ UNCHANGED adapterVars
                           \/ GuardEnds(p)

Spec == Init /\ [][Next]_vars
\* A started job's thread runs on: every wait has a deadline.
FairSpec == Spec /\ \A j \in Jobs : WF_vars(Step(j))

-----------------------------------------------------------------------------
(* What must hold. *)

\* Every variable has its type.
TypeOK ==
    /\ run \in [Profiles -> {"off", "on", "left", "dead"}]
    /\ tracked \subseteq Profiles
    /\ process \in [Profiles -> [next : Nat, uncertain : BOOLEAN,
                                 opening : Keys \cup {None}, late : Keys \cup {None}]]
    /\ guard \in [Profiles -> [state : {"none", "running", "normal", "forced", "abnormal"},
                               order : Nat]]
    /\ launches \in Nat /\ phase \in 0..2 /\ lock \in Jobs \cup {Free}
    /\ jobs \in [Jobs -> [kind : Kinds, profile : Profiles, key : Keys, at : Stages,
                          todo : SUBSET Profiles, back : Stages, told : Told]]

Waiting(p) == \E j \in Jobs : /\ Profile(j) = p
                              /\ jobs[j].at \in {"opening", "awaiting", "ending"}
InFlight(p) ==
    \/ requests[p] # <<>> \/ browser[p].tasks # <<>>
    \/ browser[p].boot # None \/ browser[p].creating # {}
    \/ browser[p].shutdown # NoId

\* A browser that is not in doubt and that nobody waits for has nothing under
\* way: no request unread, no answer unread, no creation and no shutdown
\* pending (process_adapter.rs:1306, "leaves no pending stop or creation
\* behind").  Otherwise a later answer would be taken for another request's.
QuietWhenCertain ==
    \A p \in tracked :
        ~process[p].uncertain /\ ~Waiting(p) => ~InFlight(p) /\ replies[p] = <<>>

\* A browser in doubt still owes its answer, or never read the request, or is
\* ending: no answer was consumed without settling the doubt (receive,
\* "A timeout leaves any late answer queued for `recover`").  The exception is
\* an open whose write timed out and went on: recover reads its late `opened`
\* without telling anything, as `opening` was never set (open, recover), and
\* the doubt stays until the browser ends.
DoubtHasReason ==
    \A p \in tracked :
        process[p].uncertain /\ ~Waiting(p) =>
            \/ ~On(p) \/ browser[p].quitting \/ InFlight(p)
            \/ \E i \in DOMAIN replies[p] : replies[p][i].id = process[p].next
            \/ browser[p].lastId < process[p].next
            \/ process[p].late # None

\* A screen has one window (process_main.rs open: an existing window is reused).
OneWindowPerScreen ==
    \A p \in Profiles : \A i, k \in DOMAIN browser[p].windows :
        /\ browser[p].windows[i].key = browser[p].windows[k].key
        /\ browser[p].windows[i].key \in Keys
        => i = k

\* The exit phase says finished only when every browser has ended normally
\* (ExitPhase, "2: all owned browser guards finished normally"), whatever open
\* raced with the quit.
FinishedMeansEnded ==
    phase = 2 => /\ tracked = {}
                 /\ \A p \in Profiles : ~On(p) /\ guard[p].state \in {"none", "normal"}

\* While a quit waits for one browser to stop, no browser is in doubt and none
\* is older (drain, "never close earlier profiles and then fail on one still in
\* doubt", "oldest first").
QuitIsOrderly ==
    \A j \in Jobs :
        \/ At(j, "awaiting")
        \/ At(j, "ending") /\ jobs[j].back = "closing"
        => \A q \in tracked : ~process[q].uncertain /\ guard[Profile(j)].order <= guard[q].order

\* A profile's data is cleared only after its browser ended normally, and none
\* starts meanwhile (clear_profile, "no open of this profile can start
\* meanwhile").
ClearsAlone ==
    \A j \in Jobs : At(j, "clearing") =>
        ~On(Profile(j)) /\ guard[Profile(j)].state \in {"none", "normal"}

\* The profiles' browsers are leases: one at a time, given on only after a
\* normal end, kept after any other (Backend, open, release_ended).
Lease == INSTANCE ProfileLease WITH
            lease <- [p \in Profiles |-> IF guard[p].state = "running" THEN guard[p].order
                                         ELSE IF Bad(p) THEN 0 - 1 ELSE 0]
LeasesProfiles == Lease!Spec

\* A quit that began ends: the App exits or takes requests again.
QuitDecided == phase = 1 ~> phase # 1
=============================================================================
