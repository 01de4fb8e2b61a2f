------------------------------ MODULE MCDesktop ------------------------------
(* The desktop parts that share no state, checked in one run: each behaviour  *)
(* is a behaviour of one part, and the others stay at an initial state.       *)
EXTENDS BrowserGuard, WindowsGuard, RuntimeDirs, BrowserSetup, ResumeNavigation, WebScreens,
        ProfileClear, PipeWriter, ResumeStore, BrowserCandidate, ExitLatch, OpenedIdentity, TLC

CONSTANTS a1, a2, n0, n1, n2, nobody, m, x, y

VARIABLE part   \* the part that runs

Components == {"guard", "job", "dirs", "setup", "nav", "web", "clear", "pipe", "store", "candidate", "exit",
               "identity"}

\* A part that does not run takes one of its initial states.
DesktopInit ==
    /\ part \in Components
    /\ JobInit /\ ClearInit /\ PipeInit /\ CandidateInit /\ ExitInit
    /\ Init /\ (part = "guard" \/ \A p \in Pid : ~Exists(p))
    /\ WebInit /\ (part = "web" \/ kept = [p \in WebProfile |-> {}])
    /\ RuntimeInit /\ (part = "dirs" \/ (windows /\ dirs[n0] = [id |-> 1, lock |-> FALSE]))
    /\ SetupInit /\ \/ part = "setup"
                    \/ /\ asked = [xdg |-> "unset", cache |-> "unset", given |-> TRUE]
                       /\ entry = [p \in Places |-> "missing"]
                       /\ fits = Places /\ bundled = {}
    /\ NavInit /\ (part = "nav" \/ engine = "gtk")
    /\ StoreInit /\ (part = "store" \/ file = <<>>)
    /\ IdentityInit /\ (part = "identity" \/ proc[m].born = 1)

Others(p) ==
    /\ UNCHANGED part
    /\ IF p = "guard" THEN TRUE ELSE UNCHANGED vars
    /\ IF p = "job" THEN TRUE ELSE UNCHANGED jobVars
    /\ IF p = "dirs" THEN TRUE ELSE UNCHANGED dirVars
    /\ IF p = "setup" THEN TRUE ELSE UNCHANGED setupVars
    /\ IF p = "nav" THEN TRUE ELSE UNCHANGED navVars
    /\ IF p = "web" THEN TRUE ELSE UNCHANGED webVars
    /\ IF p = "clear" THEN TRUE ELSE UNCHANGED clearVars
    /\ IF p = "pipe" THEN TRUE ELSE UNCHANGED pipeVars
    /\ IF p = "store" THEN TRUE ELSE UNCHANGED storeVars
    /\ IF p = "candidate" THEN TRUE ELSE UNCHANGED candidateVars
    /\ IF p = "exit" THEN TRUE ELSE UNCHANGED exitVars
    /\ IF p = "identity" THEN TRUE ELSE UNCHANGED identityVars

DesktopNext ==
    \/ part = "guard" /\ Next /\ Others("guard")
    \/ part = "job" /\ JobNext /\ Others("job")
    \/ part = "dirs" /\ RuntimeNext /\ Others("dirs")
    \/ part = "setup" /\ SetupNext /\ Others("setup")
    \/ part = "nav" /\ NavNext /\ Others("nav")
    \/ part = "web" /\ WebNext /\ Others("web")
    \/ part = "clear" /\ ClearNext /\ Others("clear")
    \/ part = "pipe" /\ PipeNext /\ Others("pipe")
    \/ part = "store" /\ StoreNext /\ Others("store")
    \/ part = "candidate" /\ CandidateNext /\ Others("candidate")
    \/ part = "exit" /\ ExitNext /\ Others("exit")
    \/ part = "identity" /\ IdentityNext /\ Others("identity")
desktopVars == <<part, vars, jobVars, dirVars, setupVars, navVars, webVars, clearVars, pipeVars, storeVars,
                 candidateVars, exitVars, identityVars>>
DesktopSpec == DesktopInit /\ [][DesktopNext]_desktopVars

\* The types of the part that runs; the others do not change.
DesktopTypeOK ==
    CASE part = "guard" -> TypeOK
      [] part = "job" -> JobTypeOK
      [] part = "dirs" -> RuntimeTypeOK
      [] part = "setup" -> SetupTypeOK
      [] part = "nav" -> NavTypeOK
      [] part = "web" -> WebTypeOK
      [] part = "clear" -> ClearTypeOK
      [] part = "pipe" -> PipeTypeOK
      [] part = "store" -> StoreTypeOK
      [] part = "candidate" -> CandidateTypeOK
      [] part = "exit" -> ExitTypeOK
      [] part = "identity" -> IdentityTypeOK

\* What a browser is started from, and where its sockets go, is trusted when it starts, and the process that
\* answers is the one that was started (process_setup.rs, process_windows.rs).
TrustedSpawn == RootPrivate /\ SpawnsBundled /\ OwnedIsChild
\* The page a home resumes is one it showed, at rest the one it shows, and no other home's record takes it back
\* while the list has room (resume_navigation.rs, resume.rs).
LastPageTrue == SavedWasShown /\ GtkRestsSaved /\ RecordedStays
\* Data is cleared under no screen and no browser that runs, and is gone when a clearing says so
\* (desktop.rs, profile_reset.rs, process_adapter.rs).
ClearsSafely == /\ NotLiveWhileClearing /\ OneScreenPerHome /\ ClearedIsEmpty
                /\ RunningKeepsRoot /\ ClearedIsGone
\* The App exits with the code last asked for, and the browser's loop ends after its last browser, whose
\* roots were announced complete (process_adapter.rs, main.rs of the candidate).
QuitsRightly == ExitCodeAsked /\ LoopEndsLast /\ RootsReady

Owners == (n1 :> a1) @@ (n2 :> a2) @@ (n0 :> nobody)
\* Ids, keys, profiles, instances, requests and pages are only compared: x and y may change places in all.
Alike == Permutations({x, y})
=============================================================================
