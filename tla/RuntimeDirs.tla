---------------------------- MODULE RuntimeDirs ----------------------------
(* The browsers' runtime directories (process_setup.rs) as several App       *)
(* instances share one root: claimed by name, created, locked, used, removed *)
(* by their App, and swept by every App that starts.  Liveness of a          *)
(* directory is the lock on the file in it, not a process id.  On Linux the  *)
(* lock file is created, then locked; on Windows its open is the lock.       *)
EXTENDS Integers

CONSTANTS
    App,        \* App instances
    Name,       \* names p-<pid>-<n> in the root
    NameOwner,  \* name |-> the App that will use it once, or Nobody for one of an App that is gone
    MaxMade,    \* bound: directories ever made
    Nobody,
    NoDir

ASSUME RuntimeAssumption == /\ Nobody \notin App /\ NoDir \notin [id : Nat, lock : BOOLEAN] /\ MaxMade \in Nat \ {0}
                            /\ NameOwner \in [Name -> App \cup {Nobody}]

VARIABLES
    dirs,   \* name |-> NoDir, or the directory's inode and whether a lock file is in it
    holder, \* inode |-> who holds the lock on that directory's lock file, linked or not
    made,   \* directories ever made
    fresh,  \* names no App has used yet
    windows, \* which platform (constant)
    use     \* App |-> what it does to which name, with which lock file, and why

dirVars == <<dirs, holder, made, fresh, windows, use>>

Named(a)     == {n \in fresh : NameOwner[n] = a}
Locked(n)    == dirs[n] # NoDir /\ dirs[n].lock
Goes(a, at)  == use' = [use EXCEPT ![a].at = at]
Lock(a, i)   == holder' = [holder EXCEPT ![i] = a]
\* Closing the lock file releases it if it is this App's.
Released(a)  == [i \in DOMAIN holder |-> IF i = use[a].id /\ holder[i] = a THEN Nobody ELSE holder[i]]
\* Where a refused or finished look leads.
After(why, free) == CASE why = "sweep" -> "sweep" [] why = "first" -> IF free THEN "chosen" ELSE "idle"
                      [] why = "again" -> IF free THEN "make" ELSE "idle" [] OTHER -> "idle"

(* Looking at a name: stale_lock, claim_runtime, sweep *)
Looks(a, n, why) ==
    IF ~Locked(n) THEN
        /\ use' = [use EXCEPT ![a] = [@ EXCEPT !.name = n, !.why = why, !.at = After(why, dirs[n] = NoDir)]]
        /\ UNCHANGED holder
    ELSE IF ~windows THEN
        /\ use' = [use EXCEPT ![a] = [@ EXCEPT !.name = n, !.why = why, !.id = dirs[n].id, !.at = "judge"]]
        /\ UNCHANGED holder
    ELSE LET free == holder[dirs[n].id] = Nobody IN
        /\ use' = [use EXCEPT ![a] = [@ EXCEPT !.name = n, !.why = why, !.id = dirs[n].id,
                                               !.at = IF free THEN "unlink" ELSE After(why, FALSE)]]
        /\ holder' = IF free THEN [holder EXCEPT ![dirs[n].id] = a] ELSE holder
Sweeps(a, n)  == use[a].at = "sweep" /\ Locked(n) /\ Looks(a, n, "sweep") /\ UNCHANGED <<dirs, made, fresh, windows>>
Swept(a)      == use[a].at = "sweep" /\ Goes(a, "idle") /\ UNCHANGED <<dirs, holder, made, fresh, windows>>
Chooses(a, n) == /\ use[a].at = "idle" /\ n \in Named(a) /\ Looks(a, n, "first")
                 /\ fresh' = fresh \ {n} /\ UNCHANGED <<dirs, made, windows>>
Claims(a)     == use[a].at = "chosen" /\ Looks(a, use[a].name, "again") /\ UNCHANGED <<dirs, made, fresh, windows>>
\* Mutant: a lock file alone is taken as stale.
JudgesAll(a)  == /\ use[a].at = "judge" /\ Goes(a, "unlink")
                 /\ UNCHANGED <<dirs, holder, made, fresh, windows>>
Judges(a)     == /\ use[a].at = "judge"
                 /\ IF holder[use[a].id] = Nobody THEN Lock(a, use[a].id) /\ Goes(a, "unlink")
                    ELSE UNCHANGED holder /\ Goes(a, After(use[a].why, FALSE))
                 /\ UNCHANGED <<dirs, made, fresh, windows>>

(* remove_runtime: the lock file goes first, then whatever empty directory has the name *)
Ending(a)  == /\ holder' = Released(a)
              /\ use' = [use EXCEPT ![a] = [@ EXCEPT !.at = After(use[a].why, TRUE), !.good = FALSE]]
Unlinks(a) == /\ use[a].at = "unlink"
              /\ IF dirs[use[a].name] = NoDir THEN Ending(a) /\ UNCHANGED dirs
                 ELSE /\ dirs' = [dirs EXCEPT ![use[a].name].lock = FALSE]
                      /\ Goes(a, "rmdir") /\ UNCHANGED holder
              /\ UNCHANGED <<made, fresh, windows>>
Rmdirs(a)  == /\ use[a].at = "rmdir"
              /\ \/ /\ ~Locked(use[a].name)
                    /\ dirs' = [dirs EXCEPT ![use[a].name] = NoDir] /\ Ending(a)
                 \/ /\ holder' = Released(a) /\ UNCHANGED dirs      \* it fails
                    /\ Goes(a, After(use[a].why, FALSE))
              /\ UNCHANGED <<made, fresh, windows>>

(* Process::spawn and Drop *)
MakesDir(n) == /\ made < MaxMade /\ made' = made + 1
               /\ dirs' = [dirs EXCEPT ![n] = [id |-> made + 1, lock |-> FALSE]]
Makes(a) == /\ use[a].at = "make"
            /\ IF dirs[use[a].name] # NoDir THEN Goes(a, "idle") /\ UNCHANGED <<dirs, made>>
               ELSE MakesDir(use[a].name) /\ Goes(a, "made")
            /\ UNCHANGED <<holder, fresh, windows>>
\* lock_runtime: create_new; on Windows that is also the lock.
CreatesLock(a) ==
    /\ use[a].at = "made"
    /\ IF dirs[use[a].name] = NoDir \/ Locked(use[a].name)
       THEN Goes(a, "failed") /\ UNCHANGED <<dirs, holder>>
       ELSE /\ dirs' = [dirs EXCEPT ![use[a].name].lock = TRUE]
            /\ use' = [use EXCEPT ![a] = [@ EXCEPT !.id = dirs[use[a].name].id, !.good = windows,
                                           !.at = IF windows THEN "using" ELSE "created"]]
            /\ holder' = IF windows THEN [holder EXCEPT ![dirs[use[a].name].id] = a] ELSE holder
    /\ UNCHANGED <<made, fresh, windows>>
\* Whoever removed the lock file in between held its lock until the directory was gone, so nobody
\* else is at that name: spawn's private_directory(runtime/tmp) then makes the directory again,
\* with no lock file in it.
Locks(a) == /\ use[a].at = "created"
            /\ IF holder[use[a].id] = Nobody
               THEN /\ Lock(a, use[a].id)
                    /\ use' = [use EXCEPT ![a].at = "using",
                                  ![a].good = Locked(use[a].name) /\ dirs[use[a].name].id = use[a].id]
                    /\ IF dirs[use[a].name] = NoDir THEN MakesDir(use[a].name) ELSE UNCHANGED <<dirs, made>>
               ELSE Goes(a, "failed") /\ UNCHANGED <<holder, dirs, made>>
            /\ UNCHANGED <<fresh, windows>>
\* No guard starts: the lock is closed, then Unowned removes the directory.
SpawnFails(a) == /\ use[a].at \in {"using", "failed"}
                 /\ holder' = Released(a)
                 /\ use' = [use EXCEPT ![a] = [@ EXCEPT !.at = "unlink", !.why = "own", !.good = FALSE]]
                 /\ UNCHANGED <<dirs, made, fresh, windows>>
\* An ended browser's directory is removed while its lock is held; a guard that still runs keeps it.
Drops(a) == /\ use[a].at = "using"
            /\ \/ use' = [use EXCEPT ![a] = [@ EXCEPT !.at = "unlink", !.why = "own", !.good = FALSE]]
                  /\ UNCHANGED holder
               \/ /\ holder' = Released(a)
                  /\ use' = [use EXCEPT ![a] = [@ EXCEPT !.at = "idle", !.good = FALSE]]
            /\ UNCHANGED <<dirs, made, fresh, windows>>
\* The App dies, wherever it is; the kernel closes its files.  Started again, it sweeps first.
AppDies(a) == /\ use[a].at \notin {"sweep", "idle"}
              /\ holder' = Released(a)
              /\ use' = [use EXCEPT ![a] = [@ EXCEPT !.at = "sweep", !.good = FALSE]]
              /\ UNCHANGED <<dirs, made, fresh, windows>>

\* What an App that ended left: on Windows also under a name that is used again (a reused pid).
RuntimeInit == /\ windows \in BOOLEAN /\ made = 1 /\ fresh = Name
               /\ \E left \in Name, lock \in BOOLEAN :
                     /\ windows \/ NameOwner[left] = Nobody
                     /\ dirs = [n \in Name |-> IF n = left THEN [id |-> 1, lock |-> lock] ELSE NoDir]
               /\ holder = [i \in 1..MaxMade |-> Nobody]
               /\ use = [a \in App |-> [at |-> "sweep", name |-> CHOOSE n \in Name : TRUE, id |-> 0,
                                        why |-> "sweep", good |-> FALSE]]
RuntimeNext == \E a \in App : \/ Swept(a) \/ Claims(a) \/ Judges(a) \/ Unlinks(a) \/ Rmdirs(a) \/ Makes(a)
                              \/ CreatesLock(a) \/ Locks(a) \/ SpawnFails(a) \/ Drops(a) \/ AppDies(a)
                              \/ \E n \in Name : Sweeps(a, n) \/ Chooses(a, n)
RuntimeSpec == RuntimeInit /\ [][RuntimeNext]_dirVars

RuntimeTypeOK ==
    /\ \A n \in Name : dirs[n] # NoDir => dirs[n] \in [id : 1..MaxMade, lock : BOOLEAN]
    /\ holder \in [1..MaxMade -> App \cup {Nobody}] /\ made \in 0..MaxMade /\ fresh \subseteq Name
    /\ use \in [App -> [at : {"sweep", "idle", "chosen", "judge", "unlink", "rmdir", "make", "made",
                              "created", "failed", "using"},
                        name : Name, id : 0..MaxMade, why : {"sweep", "first", "again", "own"}, good : BOOLEAN]]

InPlace(a) == Locked(use[a].name) /\ dirs[use[a].name].id = use[a].id /\ holder[use[a].id] = a
\* A directory whose lock file was in it when its App locked it stays, whatever other Apps claim,
\* sweep, remove or leave behind.
LockedDirStays == \A a \in App : use[a].at = "using" /\ use[a].good => InPlace(a)
\* "Held for this browser's whole lifetime: the sweep of any App sharing the root leaves a locked
\* directory alone" (process_adapter.rs).
SweepLeavesLocked == \A a \in App : use[a].at = "using" => InPlace(a)
=============================================================================
