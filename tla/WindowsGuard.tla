---------------------------- MODULE WindowsGuard ----------------------------
(* The Windows supervisor of one browser (guard_windows.rs) over a Job       *)
(* Object (windows_job.rs).  The kernel sets a process's exit code, then     *)
(* drops it from the job and signals its handle, one step at a time; the     *)
(* guard reads the job's counts, its list of ids, each handle and each code  *)
(* one call at a time, and must not miss a process that it ended itself.  The *)
(* list has room for every process: the code reads at most 1024 ids.         *)
EXTENDS Integers, FiniteSets

CONSTANTS
    Process,    \* processes the job may ever hold
    Browser     \* the one the guard starts

ASSUME JobAssumption == Browser \in Process /\ IsFiniteSet(Process)

VARIABLES
    task,     \* process |-> its life, exit code, job membership, whether its handle is signaled
    turn,     \* what the guard does next
    found,    \* (processes ever, processes now) as read before the list; or it failed
    held,     \* process |-> what opening its listed id gave
    signaled, \* process |-> whether its handle was signaled when read for the count
    rootExit, \* has the browser's exit been recorded?
    empty,    \* did the drain see the job empty after the browser's exit?
    forced,   \* forced cleanups counted
    errors,   \* were cleanup errors recorded?
    ended,    \* processes the termination ended (history)
    spare     \* reasons to count more than that (history)

judged  == <<found, held, signaled, forced, spare>>
jobVars == <<task, turn, judged, rootExit, empty, errors, ended>>

Codes      == {"self", "active", "forced"}   \* "active": a program may return 259 itself
InJob      == {p \in Process : task[p].job}
Ever       == {p \in Process : task[p].life # "unborn"}
Running(p) == task[p].life \in {"running", "doomed"}
\* GetExitCodeProcess
CodeOf(p)  == IF Running(p) THEN "active" ELSE task[p].code

(* The kernel and the browser's processes *)
Kernel == turn # "written" /\ UNCHANGED <<turn, judged, rootExit, empty, errors, ended>>
Starts(p)   == /\ Kernel /\ task[p].life = "unborn" /\ p # Browser
               /\ \E q \in Process : task[q].life = "running"
               /\ task' = [task EXCEPT ![p] = [@ EXCEPT !.life = "running", !.job = TRUE]]
Ends(p)     == /\ Kernel /\ Running(p)
               /\ \E c \in {"self", "active"} :
                     task' = [task EXCEPT ![p].life = "ended",
                                          ![p].code = IF task[p].life = "doomed" THEN "forced" ELSE c]
Dropped(p)  == /\ Kernel /\ task[p].life = "ended" /\ task[p].job
               /\ task' = [task EXCEPT ![p].job = FALSE]
Signaled(p) == /\ Kernel /\ task[p].life = "ended" /\ ~task[p].signal
               /\ task' = [task EXCEPT ![p].signal = TRUE]

(* Starting and waiting: the App may set the stop event at any time.  prepare either refuses  *)
(* (nothing starts) or leaves a guard with a job.                                             *)
StartBrowser ==
    /\ turn = "start"
    /\ \/ turn' = "written" /\ UNCHANGED task
       \/ turn' = "natural" /\ UNCHANGED task          \* stop already set, or spawn_in failed
       \/ /\ turn' = "waiting"
          /\ task' = [task EXCEPT ![Browser] = [@ EXCEPT !.life = "running", !.job = TRUE]]
    /\ UNCHANGED <<judged, rootExit, empty, errors, ended>>
BrowserGone == task[Browser].life = "unborn" \/ task[Browser].signal
\* A signaled handle, the stop event, or waits that keep failing.
StopWaiting == /\ turn = "waiting" /\ turn' = "natural"
               /\ rootExit' \in {FALSE, task[Browser].signal}    \* not reaped after failed waits
               /\ UNCHANGED <<task, judged, empty, errors, ended>>

Fails == errors' = TRUE
RootReaped  == rootExit' = (rootExit \/ task[Browser].signal)
\* Mutant: an empty job alone settles the drain.
SettledByJob == /\ turn \in {"natural", "grace", "settle"}
                /\ InJob = {} /\ RootReaped
                /\ empty' = TRUE
                /\ turn' = IF turn = "settle" THEN "count" ELSE "write"
                /\ UNCHANGED <<task, judged, errors, ended>>
\* settle_within: the browser's exit is recorded and the job reports no process.
Settled == /\ turn \in {"natural", "grace", "settle"}
           /\ BrowserGone /\ InJob = {} /\ RootReaped
           /\ empty' = TRUE
           /\ turn' = IF turn = "settle" THEN "count" ELSE "write"
           /\ UNCHANGED <<task, judged, errors, ended>>
\* Its budget runs out.
Unsettled == /\ turn \in {"natural", "grace", "settle"} /\ RootReaped
             /\ errors' \in {errors, TRUE}                     \* a query of the job may fail
             /\ turn' = IF turn = "natural" THEN "before" ELSE IF turn = "grace" THEN "write" ELSE "count"
             /\ UNCHANGED <<task, judged, empty, ended>>

(* The drain: what is in the job, who it is, end it, and count *)
Before == /\ turn = "before"
          /\ \/ InJob = {} /\ turn' = "grace" /\ UNCHANGED found
             \/ InJob # {} /\ turn' = "list" /\ found' = Cardinality(Ever)
             \/ turn' = "list" /\ found' = -1
          /\ UNCHANGED <<task, held, signaled, forced, spare, rootExit, empty, errors, ended>>
List == /\ turn = "list" /\ turn' = "open"
        /\ \/ /\ held' = [p \in Process |-> IF p \in InJob THEN "listed" ELSE "none"]
              /\ UNCHANGED errors
           \/ Fails /\ UNCHANGED held
        \* a process that entered after the total was read is in both counts
        /\ spare' = IF found = -1 THEN 0 ELSE Cardinality(Ever) - found
        /\ UNCHANGED <<task, found, signaled, forced, rootExit, empty, ended>>
\* Nobody holds an ended process's id: it may be gone or another process's by now.
OpenListed(p) == /\ turn = "open" /\ held[p] = "listed"
           /\ \E h \in {"failed"} \cup IF task[p].signal THEN {"own", "gone", "other"} ELSE {"own"} :
                 /\ held' = [held EXCEPT ![p] = h]
                 /\ spare' = IF h = "other" THEN spare + 1 ELSE spare
           /\ UNCHANGED <<task, turn, found, signaled, forced, rootExit, empty, errors, ended>>
\* Mutant: the total is read again just before the termination.
TerminateCountingLate ==
    /\ turn = "open" /\ \A p \in Process : held[p] # "listed"
    /\ turn' = "settle" /\ found' = Cardinality(Ever)
    /\ task' = [p \in Process |-> IF task[p].life = "running" /\ p \in InJob
                                  THEN [task[p] EXCEPT !.life = "doomed"] ELSE task[p]]
    /\ ended' = {p \in InJob : task[p].life = "running"}
    /\ UNCHANGED <<errors, held, signaled, forced, spare, rootExit, empty>>
Terminate ==
    /\ turn = "open" /\ \A p \in Process : held[p] # "listed"
    /\ turn' = "settle"
    /\ \/ /\ task' = [p \in Process |-> IF task[p].life = "running" /\ p \in InJob
                                        THEN [task[p] EXCEPT !.life = "doomed"] ELSE task[p]]
          /\ ended' = {p \in InJob : task[p].life = "running"}
          /\ UNCHANGED errors
       \/ Fails /\ UNCHANGED <<task, ended>>
    /\ UNCHANGED <<judged, rootExit, empty>>

\* Mutant: a handle that is not signaled yet counts as forced.
ForcedUnlessSignaled(code, sig) == code = "forced" \/ ~sig
Forced(code, sig)   == code = "forced" \/ (code = "active" /\ ~sig)
Counted(p, n)       == held' = [held EXCEPT ![p] = "counted"] /\ forced' = forced + n
\* exit_read: whether the handle is signaled is read first, then the code.
ReadSignal(p) ==
    /\ turn = "count" /\ held[p] = "own"
    /\ signaled' = [signaled EXCEPT ![p] = task[p].signal]
    /\ held' = [held EXCEPT ![p] = "seen"]
    /\ UNCHANGED <<task, turn, found, forced, spare, rootExit, empty, errors, ended>>
\* A code 259 without the signal in an empty job is given SIGNAL_GRACE, then both are read again.
ReadCode(p) ==
    /\ turn = "count" /\ held[p] \in {"seen", "graced"}
    /\ IF held[p] = "seen" /\ empty /\ CodeOf(p) = "active" /\ ~signaled[p]
       THEN /\ signaled' = [signaled EXCEPT ![p] = task[p].signal]
            /\ held' = [held EXCEPT ![p] = "graced"]
            /\ UNCHANGED <<forced, spare>>
       ELSE /\ Counted(p, IF Forced(CodeOf(p), signaled[p]) THEN 1 ELSE 0)
            /\ spare' = IF p \notin ended /\ task[p].code = "active" THEN spare + 1 ELSE spare
            /\ UNCHANGED signaled
    /\ UNCHANGED <<task, turn, found, rootExit, empty, errors, ended>>
\* A listed id that is gone ended by itself; another process's handle reads as running, or as any
\* exit; a failed read leaves the count unknown.
ReadOther(p) ==
    /\ turn = "count" /\ held[p] \in {"gone", "other", "failed", "own", "seen"}
    /\ \/ held[p] = "gone" /\ Counted(p, 0) /\ UNCHANGED errors
       \/ held[p] = "other" /\ \E n \in {0, 1} : Counted(p, n) /\ UNCHANGED errors
       \/ held[p] # "gone" /\ Counted(p, 0) /\ Fails
    /\ UNCHANGED <<task, turn, found, signaled, spare, rootExit, empty, ended>>
\* Whatever entered the job after the total was read is forced too.
CountEntered ==
    /\ turn = "count" /\ \A p \in Process : held[p] \in {"none", "counted"}
    /\ turn' = "write"
    /\ \/ /\ found # -1 /\ forced' = forced + (Cardinality(Ever) - found)
          /\ spare' = spare + Cardinality({p \in Ever \ ended : held[p] = "none"})
          /\ UNCHANGED errors
       \/ Fails /\ UNCHANGED <<forced, spare>>
    /\ UNCHANGED <<task, found, held, signaled, rootExit, empty, ended>>
\* The receipt, or a failed write of it.
WriteReceipt == /\ turn = "write" /\ turn' = "written"
                /\ errors' \in {errors, TRUE}
                /\ UNCHANGED <<task, judged, rootExit, empty, ended>>

JobInit == /\ task = [p \in Process |->
                        [life |-> "unborn", code |-> "self", job |-> FALSE, signal |-> FALSE]]
           /\ turn = "start" /\ found = 0 /\ held = [p \in Process |-> "none"]
           /\ signaled = [p \in Process |-> FALSE] /\ rootExit = FALSE
           /\ empty = FALSE /\ forced = 0 /\ errors = FALSE /\ ended = {} /\ spare = 0
JobNext == \/ StartBrowser \/ StopWaiting \/ Settled \/ Unsettled \/ Before \/ List
           \/ Terminate \/ CountEntered \/ WriteReceipt
           \/ \E p \in Process : \/ Starts(p) \/ Ends(p) \/ Dropped(p) \/ Signaled(p)
                                 \/ OpenListed(p) \/ ReadSignal(p) \/ ReadCode(p) \/ ReadOther(p)
JobSpec == JobInit /\ [][JobNext]_jobVars

JobTypeOK ==
    /\ task \in [Process -> [life : {"unborn", "running", "doomed", "ended"}, code : Codes,
                             job : BOOLEAN, signal : BOOLEAN]]
    /\ turn \in {"start", "waiting", "natural", "before", "grace", "list", "open", "settle", "count",
                 "write", "written"}
    /\ found \in -1..Cardinality(Process)
    /\ held \in [Process -> {"none", "listed", "own", "gone", "other", "failed", "seen", "graced",
                             "counted"}]
    /\ signaled \in [Process -> BOOLEAN] /\ {rootExit, empty, errors} \subseteq BOOLEAN
    /\ forced \in 0..2 * Cardinality(Process) /\ ended \subseteq Process /\ spare \in Nat

\* A receipt without cleanup errors never counts fewer forced cleanups than processes it ended.
NoForcedMissed == turn = "written" /\ ~errors => forced >= Cardinality(ended)
\* It counts more only for what entered late, a reused id or a program that returns 259 itself.
NoForcedInvented == turn = "written" /\ ~errors => forced <= Cardinality(ended) + spare
\* "The job is empty" stays true: nothing of the browser runs or starts after it.
EmptyStaysEmpty == empty => /\ InJob = {} /\ \A p \in Process : ~Running(p)
                            /\ rootExit \/ task[Browser].life = "unborn"
\* The forced cleanups of a receipt are those there were, and an empty job has stayed empty
\* (guard_windows.rs, Run::drain).
ForcedCounted == NoForcedMissed /\ NoForcedInvented /\ EmptyStaysEmpty
=============================================================================
