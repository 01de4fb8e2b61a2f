--------------------------- MODULE BrowserProcess ---------------------------
(***************************************************************************)
(* The desktop browser process: one Chromium per profile, driven by the    *)
(* App over a pipe (native-tests/cef-candidate/src/process_main.rs).  The  *)
(* reader thread posts each request to the UI thread as a task; the UI     *)
(* thread runs the tasks and the native callbacks one at a time, so each   *)
(* of them is one action.  A callback may reply several times and call     *)
(* other handlers: Handlers are operators on an "effect", the browser's    *)
(* state together with the replies written so far.                         *)
(*                                                                         *)
(* The person and the sites they visit are the environment: a window may   *)
(* close at any moment, a beforeunload dialog may be cancelled, a site may *)
(* open a popup.  The App's Close request is never sent (no caller), so it *)
(* and its pending_close map are left out.                                 *)
(***************************************************************************)
EXTENDS Integers, Sequences, SequencesExt, FiniteSets

CONSTANTS Profiles,      \* isolated profiles, one browser process each
          Keys,          \* screen keys the App asks for
          Popup,         \* the key of a window a site opened by itself
          None,          \* no key
          MaxScreens,    \* 48: windows and creations one browser holds
          MaxBorn,       \* bound: no popup after this many native windows
          MayCrash       \* profiles whose browser may end abnormally

ASSUME BrowserAssumption ==
    /\ MaxScreens \in Nat \ {0} /\ MaxBorn \in Nat /\ MayCrash \subseteq Profiles
    /\ Popup \notin Keys /\ None \notin Keys \cup {Popup}

VARIABLES run,           \* is it off, on, has it left by itself, is it dead?
          browser,       \* the state of the process of each profile
          requests,      \* bytes in its control pipe, not yet read
          input,         \* is the App's end of the control pipe open?
          replies        \* replies the App has not consumed

browserVars == <<run, browser, requests, input, replies>>

NoId == 0 - 1            \* no shutdown recorded; Some(0) is an abnormal stop

Task(op, id, key) == [op |-> op, id |-> id, key |-> key]
Open(id, key) == Task("open", id, key)
Shutdown(id) == Task("shutdown", id, None)
Says(event, id, key) == [event |-> event, id |-> id, key |-> key]

NewBrowser(key) ==
    [boot |-> key, context |-> FALSE, windows |-> <<>>, creating |-> {}, lastId |-> 0,
     shutdown |-> NoId, chain |-> 0, failed |-> FALSE, quitting |-> FALSE,
     born |-> 0, tasks |-> <<>>, ended |-> FALSE]

\* `pending`: the boot's screen and the creations.  One that was counted before
\* there was a context is never made and never counted down: its key is None.
Pending(b) == Cardinality(b.creating) + (IF b.boot = None THEN 0 ELSE 1)

Effect(b) == [b |-> b, out |-> <<>>]
Answer(e, event, id, key) == [e EXCEPT !.out = Append(@, Says(event, id, key))]

-----------------------------------------------------------------------------
(* Handlers of the UI thread. *)

\* The last window has gone and nothing is being created: quit, answering a
\* recorded shutdown.
MaybeQuit(e) ==
    IF e.b.windows = <<>> /\ Pending(e.b) = 0
    THEN LET quit == [e EXCEPT !.b.quitting = TRUE]
         IN  IF e.b.shutdown = NoId THEN quit
             ELSE Answer(quit, "stopped", e.b.shutdown, None)
    ELSE e

\* The close of the asked window cannot be observed: the shutdown is refused.
CloseUnavailable(e) ==
    IF e.b.shutdown = NoId THEN e
    ELSE Answer([e EXCEPT !.b.shutdown = NoId], "error", e.b.shutdown, None)

Place(windows, id) == SelectInSeq(windows, LAMBDA w : w.id = id)

\* Observe the window's lifecycle before asking it to close; a window that is
\* observed is asked at once, and asked again if it was asked before.
RequestClose(e, id) ==
    LET i == Place(e.b.windows, id)
        watch == e.b.windows[i].watch
    IN  IF watch = "idle" THEN [e EXCEPT !.b.windows[i].watch = "pending"]
        ELSE IF watch = "failed" THEN CloseUnavailable(e)
        ELSE IF watch = "missed" THEN [e EXCEPT !.b.windows[i].watch = "ready"]
        ELSE e

\* Mutant of NextToClose: the shutdown forgets the remaining windows.
StopAfterFirst(e, closed) == e

\* An ordinary shutdown goes on with the oldest window still open, once the
\* window it was closing has gone.
NextToClose(e, closed) ==
    LET b == e.b
        next == IF b.windows = <<>> THEN 0 ELSE Head(b.windows).id
        moved == [e EXCEPT !.b.chain = next]
    IN  IF b.shutdown = NoId \/ b.failed \/ b.chain # closed THEN e
        ELSE IF next = 0 THEN moved ELSE RequestClose(moved, next)

Forced(windows) == [i \in DOMAIN windows |-> [windows[i] EXCEPT !.forced = TRUE]]

\* Mutant of CloseAll: the newest window is asked first.
CloseNewest(e, id, failed) ==
    LET b == e.b
        recorded == [e EXCEPT !.b.shutdown = id, !.b.failed = @ \/ failed]
        asked == IF failed THEN [recorded EXCEPT !.b.windows = Forced(@)]
                 ELSE IF b.windows = <<>> THEN recorded
                 ELSE RequestClose([recorded EXCEPT !.b.chain = b.windows[Len(b.windows)].id],
                                   b.windows[Len(b.windows)].id)
    IN  MaybeQuit(asked)

\* close_all: ask the oldest window first, or force every window when the
\* parent is lost.
CloseAll(e, id, failed) ==
    LET b == e.b
        recorded == [e EXCEPT !.b.shutdown = id, !.b.failed = @ \/ failed]
        asked == IF failed THEN [recorded EXCEPT !.b.windows = Forced(@)]
                 ELSE IF b.windows = <<>> THEN recorded
                 ELSE RequestClose([recorded EXCEPT !.b.chain = Head(b.windows).id],
                                   Head(b.windows).id)
    IN  MaybeQuit(asked)

\* Mutant of OpenScreen: a screen that has a window gets another one.
OpenAnew(e, id, key, rejected) ==
    LET counted(k) == [e EXCEPT !.b.creating = @ \cup {[id |-> id, key |-> k]}]
    IN  IF rejected \/ Len(e.b.windows) + Pending(e.b) >= MaxScreens
        THEN Answer(e, "error", id, None)
        ELSE IF ~e.b.context THEN Answer(counted(None), "error", id, None)
        ELSE counted(key)

\* open: reuse the screen's window, or refuse at the limit, or count a creation;
\* without a context it is refused but stays counted, and the native call may
\* reject it.
OpenScreen(e, id, key, rejected) ==
    LET counted(k) == [e EXCEPT !.b.creating = @ \cup {[id |-> id, key |-> k]}]
    IN  IF \E i \in DOMAIN e.b.windows : e.b.windows[i].key = key
        THEN Answer(e, "opened", id, key)
        ELSE IF Len(e.b.windows) + Pending(e.b) >= MaxScreens
        THEN Answer(e, "error", id, None)
        ELSE IF ~e.b.context THEN Answer(counted(None), "error", id, None)
        ELSE IF rejected THEN Answer(e, "error", id, None)
        ELSE counted(key)

\* Mutant of Admission: a quitting browser still runs requests.
AdmitQuitting(b, r) ==
    IF r.id <= b.lastId \/ b.shutdown # NoId THEN "refuse" ELSE "run"

\* admission: a stale id, or anything once a shutdown is recorded, is
\* refused; while quitting a shutdown is already done.
Admission(b, r) ==
    IF r.id <= b.lastId \/ b.shutdown # NoId THEN "refuse"
    ELSE IF ~b.quitting THEN "run"
    ELSE IF r.op = "shutdown" THEN "stopped" ELSE "refuse"

Handle(b, r, rejected) ==
    LET e == Effect(b)
        known == [e EXCEPT !.b.lastId = r.id]
        admitted == Admission(b, r)
    IN  IF r.op = "eof"
        THEN IF b.shutdown = NoId /\ ~b.quitting THEN CloseAll(e, 0, TRUE) ELSE e
        ELSE IF admitted = "refuse" THEN Answer(e, "error", r.id, None)
        ELSE IF admitted = "stopped"
        THEN Answer([known EXCEPT !.b.shutdown = r.id], "stopped", r.id, None)
        ELSE IF r.op = "open" THEN OpenScreen(known, r.id, r.key, rejected)
        ELSE IF Pending(b) > 0 THEN Answer(known, "closeBlocked", r.id, None)
        ELSE CloseAll(known, r.id, FALSE)

\* on_before_close: the window has gone.
Gone(b, i) ==
    LET left == [b EXCEPT !.windows = RemoveAt(@, i)]
    IN  MaybeQuit(NextToClose(Effect(left), b.windows[i].id))

\* on_after_created: a window for a creation, or a popup (key Popup).  One too
\* many is closed at once, without an answer.
Created(b, key, id) ==
    LET over == Len(b.windows) + 1 > MaxScreens
        window == [id |-> b.born + 1, key |-> key, watch |-> "idle",
                   forced |-> over \/ b.failed]
        e == [Effect(b) EXCEPT !.b.windows = Append(@, window), !.b.born = @ + 1]
    IN  IF key = Popup \/ over \/ b.shutdown # NoId THEN e
        ELSE Answer(e, "opened", id, key)

-----------------------------------------------------------------------------
(* Actions.  `Now(p, e)` is the browser of p and its replies after e. *)

Now(p, e) ==
    /\ browser' = [browser EXCEPT ![p] = e.b]
    /\ replies' = [replies EXCEPT ![p] = @ \o e.out]

On(p) == run[p] = "on"

\* The reader thread: a request, or the end of input, becomes a UI task while
\* the control gate is open.
Post(p) ==
    /\ On(p) /\ ~browser[p].quitting
    /\ \/ /\ requests[p] # <<>>
          /\ browser' = [browser EXCEPT ![p].tasks = Append(@, Head(requests[p]))]
          /\ requests' = [requests EXCEPT ![p] = Tail(@)]
       \/ /\ requests[p] = <<>> /\ ~input[p] /\ ~browser[p].ended
          /\ browser' = [browser EXCEPT ![p].tasks = Append(@, Task("eof", 0, None)), ![p].ended = TRUE]
          /\ UNCHANGED requests
    /\ UNCHANGED <<run, input, replies>>

\* on_context_initialized: the profile's context is made.
ContextInitialized(p) ==
    /\ On(p) /\ ~browser[p].context
    /\ browser' = [browser EXCEPT ![p].context = TRUE]
    /\ UNCHANGED <<run, requests, input, replies>>

\* The profile's context is ready: the screen the process was started for.
Boot(p) ==
    LET b == browser[p]
        ready == [b EXCEPT !.boot = None]
    IN  /\ On(p) /\ b.context /\ b.boot # None
        /\ \E rejected \in BOOLEAN :
              Now(p, IF b.shutdown # NoId THEN MaybeQuit(Effect(ready))
                     ELSE Handle(ready, Open(1, b.boot), rejected))
        /\ UNCHANGED <<run, requests, input>>

Dispatch(p) ==
    LET b == browser[p]
    IN  /\ On(p) /\ b.tasks # <<>>
        /\ \E rejected \in BOOLEAN :
              Now(p, Handle([b EXCEPT !.tasks = Tail(@)], Head(b.tasks), rejected))
        /\ UNCHANGED <<run, requests, input>>

Create(p) ==
    LET b == browser[p]
    IN  /\ On(p)
        /\ \E c \in {d \in b.creating : d.key # None} :
              Now(p, Created([b EXCEPT !.creating = @ \ {c}], c.key, c.id))
        /\ UNCHANGED <<run, requests, input>>

OpenPopup(p) ==
    LET b == browser[p]
    IN  /\ On(p) /\ b.windows # <<>> /\ b.born < MaxBorn
        /\ Now(p, Created(b, Popup, 0))
        /\ UNCHANGED <<run, requests, input>>

\* The answer to Page.enable: the window is asked to close, or cannot be.
Observe(p, i, success) ==
    LET b == browser[p]
        seen == [b EXCEPT !.windows[i].watch = IF success THEN "ready" ELSE "failed"]
    IN  /\ On(p) /\ b.windows[i].watch = "pending"
        /\ Now(p, IF success THEN Effect(seen) ELSE CloseUnavailable(Effect(seen)))
        /\ UNCHANGED <<run, requests, input>>

\* A window closes: the person, the site, or an accepted close.
Leave(p, i) ==
    /\ On(p)
    /\ Now(p, Gone(browser[p], i))
    /\ UNCHANGED <<run, requests, input>>

\* Mutant of Stay: the cancel is answered but the shutdown stays recorded.
StayStopping(p, i) ==
    LET b == browser[p]
    IN  /\ On(p) /\ b.windows[i].watch \in {"ready", "missed"} /\ ~b.windows[i].forced
        /\ b.shutdown # NoId
        /\ Now(p, Answer(Effect(b), "cancelled", b.shutdown, None))
        /\ UNCHANGED <<run, requests, input>>

\* The person stays: a beforeunload dialog of an observed window is cancelled,
\* which ends a shutdown in progress.  An event of the dialog that is too long
\* or does not parse is dropped: the cancel goes unnoticed, the shutdown stays
\* recorded, and the window is asked no more.
Stay(p, i) ==
    LET b == browser[p]
    IN  /\ On(p) /\ b.windows[i].watch \in {"ready", "missed"} /\ ~b.windows[i].forced
        /\ b.shutdown # NoId
        /\ \/ Now(p, Answer(Effect([b EXCEPT !.shutdown = NoId]),
                            "cancelled", b.shutdown, None))
           \/ /\ b.windows[i].watch = "ready"
              /\ Now(p, Effect([b EXCEPT !.windows[i].watch = "missed"]))
        /\ UNCHANGED <<run, requests, input>>

\* The message loop returns: the process ends, with status 1 when it had lost
\* its parent.
Exit(p) ==
    /\ On(p) /\ browser[p].quitting
    /\ run' = [run EXCEPT ![p] = IF browser[p].failed THEN "dead" ELSE "left"]
    /\ UNCHANGED <<browser, requests, input, replies>>

Crash(p) ==
    /\ On(p) /\ p \in MayCrash
    /\ run' = [run EXCEPT ![p] = "dead"]
    /\ UNCHANGED <<browser, requests, input, replies>>

Windows(p) == DOMAIN browser[p].windows

Native(p) ==
    \/ Post(p) \/ ContextInitialized(p) \/ Boot(p) \/ Dispatch(p) \/ Create(p) \/ OpenPopup(p)
    \/ Exit(p) \/ Crash(p)
    \/ \E i \in Windows(p) :
          \/ Leave(p, i)
          \/ Stay(p, i)
          \/ \E success \in BOOLEAN : Observe(p, i, success)
=============================================================================
