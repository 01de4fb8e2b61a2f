---------------------------- MODULE BrowserGuard ----------------------------
(* The Linux supervisor of one browser (native-tests/cef-candidate/src/      *)
(* guard_main.rs) over the kernel's process table.  The App forks the guard, *)
(* the guard spawns the browser, watches it without a time limit, and drains *)
(* what it left behind.  Process ids are reused, /proc is read one file at a *)
(* time, orphans come to the guard because it is their subreaper, and other  *)
(* programs' processes come and go on the same ids.                          *)
EXTENDS Integers, Sequences, FiniteSets

CONSTANTS
    Pid,        \* process ids
    Root,       \* the id the browser gets
    MaxBorn,    \* bound: processes that ever start
    MaxFaults,  \* failed ticks in a row before the guard gives up watching
    LastPhase,  \* phases of the drain: one without a signal, then one for each signal
    Guard,      \* the guard as a parent: it is the subreaper of its descendants
    Elsewhere,  \* any parent that is not below the guard (init included)
    Nil

ASSUME GuardAssumption == /\ Root \in Pid /\ Guard \notin Pid /\ Elsewhere \notin Pid /\ Nil \notin Pid \cup Nat
                          /\ Nil \notin {"zero", "bad", "NotStarted", "Faults", "RootExitLost"}
                          /\ Guard # Elsewhere
                          /\ MaxBorn \in Nat /\ MaxFaults \in Nat \ {0} /\ LastPhase \in Nat \ {0}
\* The kernel has a largest process id.
ASSUME PidAssumption == IsFiniteSet(Pid)

VARIABLES
    table,   \* pid |-> state, start time, parent, and whether it descends from the guard
    parent,  \* is the App's thread that forked the guard alive?
    stop,    \* has a stop request (SIGTERM, SIGINT, parent's death) been queued?
    pc,      \* what the guard does next
    phase,   \* 0 while the browser runs, then the phase of the drain
    job,     \* what the observation is for: to "reap", or to send the "first" or "next" signal
    cand,    \* the pid looked at: its start time read first, and the process its pidfd names
    chain,   \* links read while walking from that pid up to the guard
    back,    \* links of the chain still to be read again
    handles, \* pid |-> start time of the process a retained pidfd names
    child,   \* the browser's pid
    exit,    \* its exit status as reaped
    status,  \* the status it really exited with (history)
    faults,  \* failed ticks in a row
    failure, \* why the guard stopped watching
    receipt  \* what the receipt file holds

kernel  == <<table, status>>
seeing  == <<cand, chain, back, handles>>
control == <<phase, job, faults, failure>>
vars    == <<kernel, parent, stop, pc, seeing, control, child, exit, receipt>>

(* The kernel's process table *)
Exists(p)   == table[p].st # "free"
Live(p)     == table[p].st = "live"
Names(p, s) == Exists(p) /\ table[p].start = s      \* a pidfd that still has its process
Freed(p)    == [st |-> "free", start |-> table[p].start, parent |-> Elsewhere, own |-> FALSE]
Begun(q, above, mine) ==
    [table EXCEPT ![q] = [st |-> "live", start |-> @.start + 1, parent |-> above, own |-> mine]]
Born        == {b \in Pid \X (1..MaxBorn) : b[2] <= table[b[1]].start}   \* (id, start time)
Vacant(q)   == ~Exists(q) /\ Cardinality(Born) < MaxBorn

\* Nothing reads the table before the browser starts, so it may be still until then.
World == /\ pc \notin {"fork", "asked", "prepare", "spawn", "ended"}
         /\ UNCHANGED <<parent, stop, pc, seeing, control, child, exit, receipt>>

Fork(p, q) == /\ World /\ Live(p) /\ Vacant(q)
              /\ table' = Begun(q, p, table[p].own)
              /\ UNCHANGED status
Arrive(q)  == /\ World /\ Vacant(q)
              /\ table' = Begun(q, Elsewhere, FALSE)
              /\ UNCHANGED status
\* A process ends; its children go to their nearest subreaper.  Other programs' parents collect
\* at once; below the guard a process waits for its parent.
Exit(p, code) ==
    /\ World /\ Live(p)
    /\ code = "bad" => p = child
    /\ table' = [q \in Pid |->
          IF q = p THEN IF table[p].own THEN [table[p] EXCEPT !.st = code] ELSE Freed(p)
          ELSE IF Exists(q) /\ table[q].parent = p
               THEN [table[q] EXCEPT !.parent = IF table[q].own THEN Guard ELSE Elsewhere]
               ELSE table[q]]
    /\ status' = IF p = child /\ status = Nil THEN code ELSE status
Collected(p) == /\ World /\ Exists(p) /\ ~Live(p) /\ table[p].parent # Guard
                /\ table' = [table EXCEPT ![p] = Freed(p)]
                /\ UNCHANGED status

(* Starting: the App's code between fork and exec, then prepare *)
Arm == /\ pc = "fork" /\ pc' = "asked"
       /\ UNCHANGED <<kernel, parent, stop, seeing, control, child, exit, receipt>>
\* Mutant: the forked guard does not ask whether its parent is still there.
AskNobody == /\ pc = "asked" /\ pc' = "prepare"
             /\ UNCHANGED <<kernel, parent, stop, seeing, control, child, exit, receipt>>
AskParent == /\ pc = "asked"
             /\ pc' = IF parent THEN "prepare" ELSE "ended"
             /\ UNCHANGED <<kernel, parent, stop, seeing, control, child, exit, receipt>>
\* Arguments, receipt path, process group, probe and inherited descriptors are checked before
\* the receipt is reserved; then the signals are blocked.
Prepare == /\ pc = "prepare"
           /\ \/ pc' = "ended" /\ receipt' \in {"none", "empty"}
              \/ pc' = "spawn" /\ receipt' = "empty"
           /\ UNCHANGED <<kernel, parent, stop, seeing, control, child, exit>>
Blocked == pc \notin {"fork", "asked", "prepare", "ended"}

\* Before the signals are blocked the parent-death signal ends the guard, once it is armed;
\* after that it is queued like any other stop request.
ParentDies == /\ parent /\ pc \in {"fork", "asked", "prepare"}
              /\ parent' = FALSE
              /\ pc' = IF pc = "fork" THEN pc ELSE "ended"
              /\ UNCHANGED <<kernel, stop, seeing, control, child, exit, receipt>>
StopRequested == /\ Blocked /\ ~stop
                 /\ stop' = TRUE
                 /\ UNCHANGED <<kernel, parent, pc, seeing, control, child, exit, receipt>>

Enter(f, why) == /\ phase' = f /\ pc' = "observe" /\ failure' = why
                 /\ job' = IF f > 1 THEN "first" ELSE "reap"

\* supervise: a stop that is already pending starts nothing.
Spawn ==
    /\ pc = "spawn"
    /\ \/ Enter(1, "NotStarted") /\ UNCHANGED <<child, table>>     \* or spawn fails
       \/ /\ ~stop /\ Vacant(Root)
          /\ table' = Begun(Root, Guard, TRUE)
          /\ child' = Root
          /\ Enter(0, Nil)
    /\ UNCHANGED <<status, parent, stop, seeing, faults, exit, receipt>>

(* Tracker::observe, with is_owned read link by link *)
Observed == IF job = "reap" THEN "reap" ELSE "signal"
Pruned   == [p \in Pid |-> IF Names(p, handles[p]) THEN handles[p] ELSE Nil]
unseen   == <<kernel, parent, stop, control, child, exit, receipt>>

Observe == /\ pc = "observe"
           /\ handles' = Pruned /\ pc' = "pick"
           /\ UNCHANGED <<unseen, cand, chain, back>>
Skip == cand' = Nil /\ chain' = <<>> /\ back' = 0 /\ pc' = "pick"
\* The snapshot may be stale in every way: any pid may be in it.  Its start time is read; a pid
\* whose handle is still right is skipped.
Pick(p) ==
    /\ pc = "pick" /\ Exists(p) /\ handles[p] # table[p].start
    /\ cand' = [pid |-> p, start |-> table[p].start, fd |-> Nil]
    /\ handles' = [handles EXCEPT ![p] = Nil]
    /\ pc' = "open"
    /\ UNCHANGED <<unseen, chain, back>>
\* The snapshot is done, or reading it failed.
PickNone == pc = "pick" /\ pc' = Observed /\ UNCHANGED <<unseen, seeing>>
\* Mutant: a failed observation ends the watching.
FailureDrains == /\ pc \in {"open", "confirm", "walk", "again"}
                 /\ cand' = Nil /\ chain' = <<>> /\ back' = 0
                 /\ IF phase = 0 THEN Enter(1, Nil)
                    ELSE pc' = Observed /\ UNCHANGED <<phase, failure, job>>
                 /\ UNCHANGED <<kernel, parent, stop, handles, faults, child, exit, receipt>>
ObserveFails == /\ pc \in {"open", "confirm", "walk", "again"}
                /\ cand' = Nil /\ chain' = <<>> /\ back' = 0
                /\ pc' = Observed
                /\ UNCHANGED <<unseen, handles>>
\* pidfd_open names whatever process holds the pid by now.
Open == /\ pc = "open"
        /\ IF Exists(cand.pid)
           THEN cand' = [cand EXCEPT !.fd = table[cand.pid].start] /\ pc' = "confirm"
                /\ UNCHANGED <<chain, back>>
           ELSE Skip
        /\ UNCHANGED <<unseen, handles>>
Confirm == /\ pc = "confirm"
           /\ IF Names(cand.pid, cand.start)
              THEN pc' = "walk" /\ UNCHANGED <<cand, chain, back>>
              ELSE Skip
           /\ UNCHANGED <<unseen, handles>>
Link(p)      == [pid |-> p, start |-> table[p].start, parent |-> table[p].parent]
\* Mutant: a link read again is compared by its start time alone.
SameProcess(l) == Exists(l.pid) /\ table[l.pid].start = l.start
Unchanged(l) == Exists(l.pid) /\ Link(l.pid) = l
OnChain      == {chain[i].pid : i \in 1..Len(chain)}
Current      == IF chain = <<>> THEN cand.pid ELSE chain[Len(chain)].parent
Walk == /\ pc = "walk"
        /\ IF Current = Guard
           THEN pc' = "again" /\ back' = Len(chain) /\ UNCHANGED <<cand, chain>>
           ELSE IF Current # Elsewhere /\ Current \notin OnChain /\ Exists(Current)
                THEN chain' = Append(chain, Link(Current)) /\ UNCHANGED <<cand, back, pc>>
                ELSE Skip
        /\ UNCHANGED <<unseen, handles>>
\* From the guard downward every link must read the same.
Again == /\ pc = "again" /\ back > 0
         /\ IF Unchanged(chain[back])
            THEN back' = back - 1 /\ UNCHANGED <<cand, chain, pc>>
            ELSE Skip
         /\ UNCHANGED <<unseen, handles>>
Keep == /\ pc = "again" /\ back = 0
        /\ handles' = [handles EXCEPT ![cand.pid] = cand.fd]
        /\ Skip
        /\ UNCHANGED unseen

(* Reaping, waiting and signalling *)
Mine(p)   == Exists(p) /\ table[p].parent = Guard
Dead      == {p \in Pid : Mine(p) /\ ~Live(p)}
Reaped    == [p \in Pid |-> IF p \in Dead THEN Freed(p) ELSE table[p]]
Childless == {p \in Pid : Mine(p)} \subseteq Dead
\* Mutant: any reaped process with the browser's id sets the exit.
LastExit  == IF child \in Dead THEN table[child].st ELSE exit
ExitSeen  == IF child \in Dead /\ exit = Nil THEN table[child].st ELSE exit
Reap      == table' = Reaped /\ exit' = ExitSeen

\* One tick of running after its observation: reap, then wait for a signal.
Tick == /\ pc = "reap" /\ phase = 0
        /\ Reap /\ faults' = 0
        /\ IF Childless /\ exit' = Nil THEN Enter(1, "RootExitLost")
           ELSE IF exit' # Nil \/ stop THEN Enter(1, Nil)
           ELSE pc' = "observe" /\ UNCHANGED <<phase, failure, job>>
        /\ UNCHANGED <<status, parent, stop, seeing, child, receipt>>
\* The reap or the wait of a tick fails; a stop the wait read still counts.
\* Mutant: one failed tick too many.
TicksFail ==
    /\ pc = "reap" /\ phase = 0
    /\ \/ UNCHANGED <<table, exit>>
       \/ Reap /\ exit' = Nil /\ ~Childless
    /\ IF faults >= MaxFaults THEN Enter(1, "Faults") /\ faults' = 0
       ELSE \/ stop /\ Enter(1, Nil) /\ faults' = 0
            \/ pc' = "observe" /\ faults' = faults + 1 /\ UNCHANGED <<phase, failure, job>>
    /\ UNCHANGED <<status, parent, stop, seeing, child, receipt>>
TickFails ==
    /\ pc = "reap" /\ phase = 0
    /\ \/ UNCHANGED <<table, exit>>
       \/ Reap /\ exit' = Nil /\ ~Childless
    /\ IF faults + 1 >= MaxFaults THEN Enter(1, "Faults") /\ faults' = 0
       ELSE \/ stop /\ Enter(1, Nil) /\ faults' = 0
            \/ pc' = "observe" /\ faults' = faults + 1 /\ UNCHANGED <<phase, failure, job>>
    /\ UNCHANGED <<status, parent, stop, seeing, child, receipt>>

Targets == {p \in Pid : Names(p, handles[p])}
           \cup (IF child # Nil /\ exit = Nil THEN {child} ELSE {})
\* What a signal does to its targets is the kernel's affair: see Exit.
Signal == /\ pc = "signal"
          /\ IF job = "first" THEN pc' = "observe" /\ job' = "reap" ELSE pc' = "due" /\ job' = job
          /\ UNCHANGED <<kernel, parent, stop, seeing, phase, faults, failure, child, exit, receipt>>
DrainReap ==
    /\ pc = "reap" /\ phase > 0
    /\ \/ Reap /\ pc' = IF Childless THEN "final" ELSE IF phase = 1 THEN "due" ELSE "observe"
       \/ UNCHANGED <<table, exit>> /\ pc' = IF phase = 1 THEN "due" ELSE "observe"
    /\ job' = IF pc' = "observe" THEN "next" ELSE job
    /\ UNCHANGED <<status, parent, stop, seeing, phase, faults, failure, child, receipt>>
\* The phase's deadline has passed, or the guard goes around again.
DuePassed == /\ pc = "due"
             /\ IF phase < LastPhase THEN Enter(phase + 1, failure)
                ELSE pc' = "final" /\ UNCHANGED <<phase, failure, job>>
             /\ UNCHANGED <<kernel, parent, stop, seeing, faults, child, exit, receipt>>
DueLater == /\ pc = "due" /\ pc' = "observe" /\ job' = "reap"
            /\ UNCHANGED <<kernel, parent, stop, seeing, phase, faults, failure, child, exit, receipt>>
\* The drain's last reap decides "kernelNoChildren"; the receipt is written in one piece after it.
\* Mutant: no retained process is taken as proof that none is left.
FinalUnproved == /\ pc = "final" /\ Reap
                 /\ pc' = IF \E p \in Pid : Names(p, handles[p]) THEN "short" ELSE "empty"
                 /\ UNCHANGED <<status, parent, stop, seeing, control, child, receipt>>
Final == /\ pc = "final"
         /\ \/ Reap /\ pc' = IF Childless THEN "empty" ELSE "short"
            \/ UNCHANGED <<table, exit>> /\ pc' = "short"
         /\ UNCHANGED <<status, parent, stop, seeing, control, child, receipt>>
\* An error recorded by the drain makes a complete receipt not normal; the write may fail.
Write == /\ pc \in {"empty", "short"}
         /\ receipt' \in {"empty"} \cup
               IF pc = "short" \/ child = Nil \/ exit = Nil THEN {"incomplete"}
               ELSE {"complete"} \cup IF exit = "zero" /\ failure = Nil THEN {"normal"} ELSE {}
         /\ pc' = "ended"
         /\ UNCHANGED <<kernel, parent, stop, seeing, control, child, exit>>

\* Other programs' processes may have the other ids.
Init == /\ \E others \in SUBSET (Pid \ {Root}) :
              table = [p \in Pid |-> [st |-> IF p \in others THEN "live" ELSE "free", start |-> 0,
                                      parent |-> Elsewhere, own |-> FALSE]]
        /\ parent = TRUE /\ stop = FALSE /\ pc = "fork" /\ phase = 0 /\ job = "reap"
        /\ cand = Nil /\ chain = <<>> /\ back = 0 /\ handles = [p \in Pid |-> Nil]
        /\ child = Nil /\ exit = Nil /\ status = Nil /\ faults = 0 /\ failure = Nil
        /\ receipt = "none"

Steps == \/ Arm \/ AskParent \/ Prepare \/ Spawn
         \/ Observe \/ ObserveFails \/ (\E p \in Pid : Pick(p)) \/ PickNone \/ Open \/ Confirm
         \/ Walk \/ Again \/ Keep
         \/ Tick \/ TickFails \/ Signal \/ DrainReap \/ DuePassed \/ DueLater \/ Final \/ Write
Next == \/ Steps \/ ParentDies \/ StopRequested
        \/ \E p \in Pid : \/ Arrive(p) \/ Collected(p)
                          \/ \E code \in {"zero", "bad"} : Exit(p, code)
                          \/ \E q \in Pid : Fork(p, q)
Spec == Init /\ [][Next]_vars

TypeOK == /\ table \in [Pid -> [st : {"free", "live", "zero", "bad"}, start : 0..MaxBorn,
                               parent : Pid \cup {Guard, Elsewhere}, own : BOOLEAN]]
          /\ parent \in BOOLEAN /\ stop \in BOOLEAN
          /\ pc \in {"fork", "asked", "prepare", "spawn", "observe", "pick", "open", "confirm",
                    "walk", "again", "reap", "signal", "due", "final", "empty", "short", "ended"}
          /\ phase \in 0..LastPhase /\ job \in {"reap", "first", "next"}
          /\ handles \in [Pid -> 0..MaxBorn \cup {Nil}]
          /\ child \in {Root, Nil} /\ {exit, status} \subseteq {"zero", "bad", Nil}
          /\ faults \in 0..MaxFaults - 1 /\ back \in 0..Len(chain) /\ Len(chain) <= Cardinality(Pid)
          /\ receipt \in {"none", "empty", "incomplete", "complete", "normal"}

\* Whatever ids are reused while /proc is read, a signal only reaches the browser's own tree.
SignalsOnlyOwn == \A p \in Targets : table[p].own
\* The exit the receipt names is the browser's, also when its id is used again below the guard.
RootExitTrue == failure # "RootExitLost" /\ (exit # Nil => exit = status)
\* A receipt that says complete is written when nothing of the browser's tree is left.
CompleteLeavesNone == pc = "empty" \/ receipt \in {"complete", "normal"} =>
                          \A p \in Pid : ~table[p].own
\* Without a stop request, an exit or repeated faults the browser is left running.
KeptRunning == phase > 0 /\ failure = Nil => stop \/ status # Nil
\* An App that ends before the guard is armed leaves no guard that starts a browser nobody awaits.
NeverOrphaned == ~parent => pc \in {"fork", "asked", "ended"}
\* Ids in use again, forks, lost exits and failing looks at /proc never make the guard end a browser that was
\* to run, report an exit or an end that was not, or outlive its App unarmed (guard_main.rs, supervise).
Supervised == RootExitTrue /\ CompleteLeavesNone /\ KeptRunning /\ NeverOrphaned
=============================================================================
