-------------------------- MODULE BrowserCandidate --------------------------
(* The standalone browser experiment (native-tests/cef-candidate/src/main.rs)*)
(* for one or two roots, each with a profile of its own: when the message    *)
(* loop quits, and which evidence the recorder thread has written by then.   *)
EXTENDS Naturals, Sequences, FiniteSets

CONSTANTS
    Request,    \* the roots requested
    Window,     \* native browsers, numbered as they are asked for
    Unbound     \* the owner of a window of no requested profile

ASSUME CandidateAssumption == IsFiniteSet(Request) /\ Unbound \notin Request /\ Window \subseteq Nat
\* CEF numbers its browsers with an int.
ASSUME WindowsAssumption == IsFiniteSet(Window)

VARIABLES
    context,    \* Request -> "new", "made" (request_context_create_context) or "used"
    window,     \* Window -> owner, kind, stage
    count,      \* managed browsers: created and not yet closed
    queued,     \* queued_roots
    observers,  \* windows with a DevTools observer, and whether it was asked
    events,     \* the channel to the recorder
    record,     \* what the recorder has: profiles bound, frames known, the roots it announced
    loop        \* "runs", "quit", "returned" or "dropped"

candidateVars == <<context, window, count, queued, observers, events, record, loop>>

Say(kind, w)  == events' = Append(events, [kind |-> kind, id |-> w])
Roots         == {w \in Window : window[w].kind = "root"}

\* on_context_initialized makes every context; each one's handler creates its root, once.
MakeContexts == /\ loop = "runs" /\ \A r \in Request : context[r] = "new"
                /\ context' = [r \in Request |-> "made"]
                /\ UNCHANGED <<window, count, queued, observers, events, record, loop>>
Asks(w, r, kind) == /\ loop = "runs" /\ window[w].at = "free"
                    /\ \A v \in Window : window[v].at = "free" => w <= v
                    /\ window' = [window EXCEPT ![w] = [own |-> r, kind |-> kind, at |-> "asked"]]
                    /\ UNCHANGED <<count, queued, observers, events, record, loop>>
AsksRoot(r, w) == context[r] = "made" /\ context' = [context EXCEPT ![r] = "used"] /\ Asks(w, r, "root")
\* A page opens a popup in its own profile; Chrome's UI opens a window of no requested profile.
Popup(r, w)   == /\ \E v \in Window : window[v].own = r /\ window[v].at = "open"
                 /\ Asks(w, r, "popup") /\ UNCHANGED context
Stray(w)      == Asks(w, Unbound, "popup") /\ UNCHANGED context
\* on_after_created, of a requested profile and of the close-only client.
Created(w) ==
    /\ loop = "runs" /\ window[w].at = "asked" /\ count' = count + 1
    /\ IF window[w].own = Unbound
       THEN window' = [window EXCEPT ![w].at = "closing"] /\ UNCHANGED <<queued, observers, events>>
       ELSE /\ window' = [window EXCEPT ![w].at = "open"] /\ Say("profile", w)
            /\ queued' = IF window[w].kind = "root" THEN queued - 1 ELSE queued
            /\ observers' = [observers EXCEPT ![w] = "silent"]
    /\ UNCHANGED <<context, record, loop>>
\* The first main-frame load asks the inspector, whose answer names the frame.
LoadStart(w) == /\ loop = "runs" /\ window[w].at = "open" /\ observers[w] = "silent"
                /\ observers' = [observers EXCEPT ![w] = "asked"]
                /\ UNCHANGED <<context, window, count, queued, events, record, loop>>
FrameKnown(w) == /\ loop = "runs" /\ window[w].at = "open" /\ observers[w] = "asked"
                 /\ observers' = [observers EXCEPT ![w] = "answered"] /\ Say("frame", w)
                 /\ UNCHANGED <<context, window, count, queued, record, loop>>
\* on_before_close: the last browser quits the loop, unless a root is still to come.
\* Mutant: roots still to come are not counted.
QuitsAtNone(left)   == left = 0
QuitsAtLast(left)   == left = 0 /\ queued = 0
BeforeClose(w) ==
    /\ loop = "runs" /\ window[w].at \in {"open", "closing"} /\ count' = count - 1
    /\ window' = [window EXCEPT ![w].at = "closed"]
    /\ IF window[w].own = Unbound THEN UNCHANGED <<observers, events>>
       ELSE Say("closed", w) /\ observers' = [observers EXCEPT ![w] = "none"]
    /\ loop' = IF QuitsAtLast(count - 1) THEN "quit" ELSE loop
    /\ UNCHANGED <<context, queued, record>>
\* The recorder: a frame belongs to a bound profile; the roots are announced when all have one.
\* Mutant: popups count like roots.
ReadyAny(frames)   == Cardinality(frames) = Cardinality(Request)
ReadyRoots(frames) == Cardinality(frames \cap Roots) = Cardinality(Request)
Records ==
    /\ events # <<>> /\ record.at = "reads"
    /\ LET e == Head(events) IN
       record' = CASE e.kind = "profile" -> [record EXCEPT !.bound = @ \cup {e.id}]
                   [] e.kind = "frame"   -> [record EXCEPT !.frames = @ \cup {e.id},
                                                !.ready = @ \/ ReadyRoots(record.frames \cup {e.id})]
                   [] e.kind = "dropped" -> [record EXCEPT !.at = "complete"]
                   [] OTHER -> record
    /\ events' = Tail(events)
    /\ UNCHANGED <<context, window, count, queued, observers, loop>>
\* The loop returned; CEF is shut down, the clients dropped, and the recorder told so.
Returns == /\ loop = "quit" /\ loop' = "dropped" /\ Say("dropped", 0)
           /\ UNCHANGED <<context, window, count, queued, observers, record>>

CandidateInit == /\ context = [r \in Request |-> "new"] /\ count = 0 /\ queued = Cardinality(Request)
                 /\ window = [w \in Window |-> [own |-> Unbound, kind |-> "none", at |-> "free"]]
                 /\ observers = [w \in Window |-> "none"] /\ events = <<>> /\ loop = "runs"
                 /\ record = [bound |-> {}, frames |-> {}, ready |-> FALSE, at |-> "reads"]
CandidateNext == \/ MakeContexts \/ Records \/ Returns
                 \/ \E w \in Window : \/ Stray(w) \/ Created(w) \/ LoadStart(w) \/ FrameKnown(w) \/ BeforeClose(w)
                                      \/ \E r \in Request : AsksRoot(r, w) \/ Popup(r, w)
CandidateSpec == CandidateInit /\ [][CandidateNext]_candidateVars

CandidateTypeOK == /\ count \in 0..Cardinality(Window) /\ queued \in 0..Cardinality(Request)
                   /\ record.frames \subseteq record.bound /\ record.bound \subseteq Window

\* "All native observers must close before shutdown": the loop ends only after every root was created and
\* every browser closed.
LoopEndsLast == loop # "runs" => /\ queued = 0 /\ \A w \in Window : window[w].at \in {"free", "asked", "closed"}
                                 /\ \A w \in Window : observers[w] = "none"
\* Roots are announced only when the frame of each of them is bound to its profile.
RootsReady == record.ready => \A r \in Request : \E w \in record.frames : window[w].own = r /\ window[w].kind = "root"
=============================================================================
