----------------------------- MODULE WebScreens -----------------------------
(* App screens in the platform's own web view, and the clearing of an idle   *)
(* profile (desktop.rs, desktop/profile_reset.rs).  Everything runs on the   *)
(* UI thread, but the construction and destruction of native views pump its  *)
(* events: handlers nest, and a check made before a construction may be      *)
(* stale after it.                                                           *)
EXTENDS Naturals, Sequences, FiniteSets

CONSTANTS
    HomeKey,     \* keys of Web homes
    WebProfile,
    MaxWindows,  \* MAX_WINDOWS
    MaxClears,   \* clears under way at once (4 in the code)
    MaxNested,   \* bound: handlers within one another
    MaxIds,      \* bound: NEXT_WINDOW
    NoKey        \* a popup's key

ASSUME ScreensAssumption == /\ NoKey \notin HomeKey /\ MaxWindows \in Nat \ {0} /\ MaxClears \in Nat \ {0}
                            /\ MaxNested \in Nat \ {0} /\ MaxIds \in Nat \ {0}

VARIABLES
    stack,     \* handlers waiting for a native construction, the innermost last
    live,      \* SCREENS
    ops,       \* OPERATIONS: the latch of a profile, or at = "none"
    kept,      \* what a profile holds: "data" of the engine, the last "page"
    nextId,    \* NEXT_WINDOW
    app        \* "runs", "closing", or "panicked" (a context borrowed twice)

webVars == <<stack, live, ops, kept, nextId, app>>

NoOp      == [id |-> 0, at |-> "none", ok |-> FALSE, early |-> FALSE]
Latched   == {p \in WebProfile : ops[p].at # "none"}
Top       == stack[Len(stack)]
Below     == SubSeq(stack, 1, Len(stack) - 1)
Frames    == {stack[i] : i \in 1..Len(stack)}
\* The engine's context is borrowed mutably while a view of the profile is built.
Borrowed(p) == \E f \in Frames : f.at = "view" /\ f.prof = p
Pumps     == app = "runs" /\ Len(stack) < MaxNested
Push(f)   == stack' = Append(stack, f)
\* Mutant: the latch of a clearing is not looked at.
OnlyClosing(p) == app = "runs"
RequireIdle(p) == app = "runs" /\ p \notin Latched

\* open_on_ui_thread and the start of create_screen: a screen of that key is shown again instead.
CreateAnew(k, p) ==
    /\ Pumps /\ RequireIdle(p) /\ Cardinality(live) < MaxWindows /\ nextId < MaxIds
    /\ Push([at |-> "window", id |-> nextId, key |-> k, prof |-> p, ok |-> FALSE,
             within |-> \E f \in Frames : f.at # "finish" /\ f.key = k])
    /\ nextId' = nextId + 1
    /\ UNCHANGED <<live, ops, kept, app>>
\* Mutant of OpenHome: CreateAnew, the key is not looked up.
OpenHome(k, p)  == k \notin {s.key : s \in live} /\ CreateAnew(k, p)
OpenPopup(p)    == p \in {s.prof : s \in live} /\ CreateAnew(NoKey, p)
\* The window stands; building the view in a context that is borrowed panics.
WindowBuilt == /\ app = "runs" /\ stack # <<>> /\ Top.at = "window"
               /\ IF Borrowed(Top.prof) THEN app' = "panicked" /\ UNCHANGED stack
                  ELSE stack' = Append(Below, [Top EXCEPT !.at = "view"]) /\ UNCHANGED app
               /\ UNCHANGED <<live, ops, kept, nextId>>
ViewBuilt == /\ app = "runs" /\ stack # <<>> /\ Top.at = "view"
             /\ stack' = Below
             /\ live' \in {live, live \cup {[id |-> Top.id, key |-> Top.key, prof |-> Top.prof,
                                             within |-> Top.within]}}
             /\ UNCHANGED <<ops, kept, nextId, app>>
\* The site stores data; the last page is recorded for a home, also by a menu action or on closing.
UsesScreen == /\ app = "runs"
              /\ \E s \in live : kept' = [kept EXCEPT ![s.prof] = @ \cup {"data"} \cup
                                             (IF s.key = NoKey THEN {} ELSE {"page"})]
              /\ kept' # kept /\ UNCHANGED <<stack, live, ops, nextId, app>>
CloseScreen == /\ app = "runs" /\ \E s \in live : live' = live \ {s}
               /\ UNCHANGED <<stack, ops, kept, nextId, app>>

\* begin: the latch is set before the helper's view is built.
BeginClear(p) ==
    /\ Pumps /\ RequireIdle(p) /\ p \notin {s.prof : s \in live}
    /\ Cardinality(Latched) < MaxClears /\ nextId < MaxIds
    /\ nextId' = nextId + 1
    /\ ops' = [ops EXCEPT ![p] = [id |-> nextId, at |-> "building", ok |-> FALSE,
                                  early |-> \E f \in Frames : f.prof = p]]
    /\ IF Borrowed(p) THEN app' = "panicked" /\ UNCHANGED stack
       ELSE /\ Push([at |-> "helper", id |-> nextId, key |-> NoKey, prof |-> p, ok |-> FALSE, within |-> FALSE])
            /\ UNCHANGED app
    /\ UNCHANGED <<live, kept>>
\* The helper is installed and the engine asked; or a failure finishes at once.
HelperBuilt ==
    /\ app = "runs" /\ stack # <<>> /\ Top.at = "helper"
    /\ \/ stack' = Below /\ ops' = [ops EXCEPT ![Top.prof].at = "native"]
       \/ stack' = Append(Below, [Top EXCEPT !.at = "finish"]) /\ UNCHANGED ops
    /\ UNCHANGED <<live, kept, nextId, app>>
\* finish: the latch is kept while the helper is closed.
Finish(p, ok) == Push([at |-> "finish", id |-> ops[p].id, key |-> NoKey, prof |-> p, ok |-> ok, within |-> FALSE])
\* The engine's callback, once; the worker then removes the remembered page.
\* Mutant: native success is the receipt.
NativeIsReceipt(p, ok) ==
    /\ Pumps /\ ops[p].at = "native"
    /\ kept' = IF ok THEN [kept EXCEPT ![p] = @ \ {"data"}] ELSE kept
    /\ Finish(p, ok) /\ ops' = [ops EXCEPT ![p].at = "worked"]
    /\ UNCHANGED <<live, nextId, app>>
NativeDone(p, ok) ==
    /\ Pumps /\ ops[p].at = "native"
    /\ \/ /\ ok /\ kept' = [kept EXCEPT ![p] = @ \ {"data"}]
          /\ ops' = [ops EXCEPT ![p].at = "working"] /\ UNCHANGED stack
       \/ ~ok /\ ops' = [ops EXCEPT ![p].at = "worked"] /\ Finish(p, FALSE) /\ UNCHANGED kept
    /\ UNCHANGED <<live, nextId, app>>
\* On its worker thread, also after the application began to close.
RemovesPage(p, ok) == /\ app # "panicked" /\ ops[p].at = "working"
                      /\ kept' = IF ok THEN [kept EXCEPT ![p] = @ \ {"page"}] ELSE kept
                      /\ ops' = [ops EXCEPT ![p].at = "removed", ![p].ok = ok]
                      /\ UNCHANGED <<stack, live, nextId, app>>
PageRemoved(p) == /\ Pumps /\ ops[p].at = "removed"
                  /\ Finish(p, ops[p].ok) /\ ops' = [ops EXCEPT ![p].at = "worked"]
                  /\ UNCHANGED <<live, kept, nextId, app>>
FinishEnds == /\ app = "runs" /\ stack # <<>> /\ Top.at = "finish" /\ stack' = Below
              /\ ops' = [p \in WebProfile |-> IF ops[p].id = Top.id THEN NoOp ELSE ops[p]]
              /\ UNCHANGED <<live, kept, nextId, app>>
\* RunEvent::Exit: the pending commands are dropped unanswered.
Shutdown == /\ app = "runs" /\ stack = <<>> /\ app' = "closing" /\ live' = {}
            /\ ops' = [p \in WebProfile |-> IF ops[p].at = "working" THEN ops[p] ELSE NoOp]
            /\ UNCHANGED <<stack, kept, nextId>>

WebInit == /\ stack = <<>> /\ live = {} /\ ops = [p \in WebProfile |-> NoOp]
           /\ kept \in [WebProfile -> {{}, {"data", "page"}}] /\ nextId = 1 /\ app = "runs"
WebNext == \/ \E p \in WebProfile : \/ \E k \in HomeKey : OpenHome(k, p)
                                    \/ OpenPopup(p) \/ BeginClear(p) \/ PageRemoved(p)
                                    \/ \E ok \in BOOLEAN : NativeDone(p, ok) \/ RemovesPage(p, ok)
           \/ WindowBuilt \/ ViewBuilt \/ UsesScreen \/ CloseScreen \/ HelperBuilt \/ FinishEnds \/ Shutdown
WebSpec == WebInit /\ [][WebNext]_webVars

WebTypeOK == /\ Len(stack) <= MaxNested /\ nextId \in 1..MaxIds /\ app \in {"runs", "closing", "panicked"}
             /\ kept \in [WebProfile -> SUBSET {"data", "page"}]
             /\ Cardinality(Latched) <= MaxClears
             /\ Cardinality(live) < MaxWindows + MaxNested

\* No screen is alive in a profile that is being cleared, except one whose own construction the
\* clearing began within.
NotLiveWhileClearing == \A s \in live : s.prof \in Latched => ops[s.prof].early
\* Two screens of one home exist only when one was opened while the other was being built.
OneScreenPerHome == \A s, t \in live : s # t /\ s.key = t.key /\ s.key # NoKey => s.within \/ t.within
\* A profile reported as cleared holds neither the engine's data nor the remembered page.
ClearedIsEmpty == \A f \in Frames : f.at = "finish" /\ f.ok /\ ~ops[f.prof].early => kept[f.prof] = {}
=============================================================================
