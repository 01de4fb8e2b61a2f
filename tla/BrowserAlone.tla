---------------------------- MODULE BrowserAlone ----------------------------
(***************************************************************************)
(* The browser process under any parent: requests with any id, stale or    *)
(* out of order, and the loss of the parent at any moment.  The parent     *)
(* reads no reply, so replies[p] is everything the browser ever said.      *)
(***************************************************************************)
EXTENDS BrowserProcess

CONSTANT MaxRequests     \* bound: requests a parent sends to one browser

ASSUME AloneAssumption == MaxRequests \in Nat

VARIABLE asked           \* the requests the parent has sent, in order

vars == <<browserVars, asked>>

Init ==
    /\ run = [p \in Profiles |-> "on"]
    /\ browser \in [Profiles -> {NewBrowser(k) : k \in Keys}]
    /\ requests = [p \in Profiles |-> <<>>]
    /\ input = [p \in Profiles |-> TRUE]
    /\ replies = [p \in Profiles |-> <<>>]
    /\ asked = [p \in Profiles |-> <<Open(1, browser[p].boot)>>]

Ask(p, op, id, key) ==
    /\ input[p] /\ Len(asked[p]) <= MaxRequests
    /\ asked' = [asked EXCEPT ![p] = Append(@, Task(op, id, key))]
    /\ requests' = [requests EXCEPT ![p] = Append(@, Task(op, id, key))]
    /\ UNCHANGED <<run, browser, input, replies>>

HangUp(p) ==
    /\ input[p]
    /\ input' = [input EXCEPT ![p] = FALSE]
    /\ UNCHANGED <<run, browser, requests, replies, asked>>

Native1(p) == Native(p) /\ UNCHANGED asked

Next == \E p \in Profiles :
            \/ Native1(p)
            \/ \E id \in 1..(MaxRequests + 1) :
                  \/ Ask(p, "shutdown", id, None)
                  \/ \E k \in Keys : Ask(p, "open", id, k)
            \/ HangUp(p)

\* The UI thread runs its tasks, native callbacks arrive, and the person
\* answers the dialog of a window that was asked to close.
Decide(p) == \E i \in Windows(p) :
                /\ browser[p].windows[i].watch = "ready" \/ browser[p].windows[i].forced
                /\ Leave(p, i) \/ Stay(p, i)
Callback(p) == \/ Post(p) \/ ContextInitialized(p) \/ Boot(p) \/ Dispatch(p)
               \/ Create(p) \/ Exit(p)
               \/ \E i \in Windows(p), ok \in BOOLEAN : Observe(p, i, ok)
Spec == Init /\ [][Next]_vars
FairSpec == /\ Spec
            /\ \A p \in Profiles : /\ WF_vars(Callback(p) /\ UNCHANGED asked)
                                   /\ WF_vars(Decide(p) /\ UNCHANGED asked)

-----------------------------------------------------------------------------
Range1(s) == {s[i] : i \in DOMAIN s}

\* A browser that quits holds no window and creates none (process_main.rs,
\* the assertion after run_message_loop).
QuitsEmpty ==
    \A p \in Profiles :
        browser[p].quitting => browser[p].windows = <<>> /\ Pending(browser[p]) = 0

\* No request gets two final answers, and none gets an answer after stopped
\* other than a refusal or the stopped of its own (process_main.rs:117-123,
\* "answered `stopped` (once)", native-tests/cef-candidate/README.md:1144).
Final == {"opened", "stopped", "cancelled", "closeBlocked"}
AnsweredOnce ==
    \A p \in Profiles : \A i, j \in DOMAIN replies[p] :
        /\ i < j /\ replies[p][i].event \in Final /\ replies[p][j].event \in Final
        => /\ replies[p][i].id # replies[p][j].id
           /\ replies[p][i].event = "stopped" => replies[p][j].event = "stopped"

\* An ordinary shutdown asks windows one at a time, oldest first: no window but
\* the oldest was ever asked (process_main.rs:146, "oldest first").
OnlyOldestAsked ==
    \A p \in Profiles : \A i \in DOMAIN browser[p].windows :
        browser[p].windows[i].watch # "idle" => i = 1

\* Every screen the browser agreed to create is being created or was answered
\* (process_adapter.rs:2195, "The browser refused a creation (e.g. its window
\* limit) ...: it holds nothing pending and stays usable").
OpenSettled ==
    \A p \in Profiles : \A r \in Range1(asked[p]) :
        /\ r.op = "open" /\ On(p) /\ browser[p].boot = None
        /\ r.id <= browser[p].lastId /\ ~browser[p].failed
        /\ r \notin Range1(requests[p]) \cup Range1(browser[p].tasks)
        => \/ \E c \in browser[p].creating : c.id = r.id
           \/ \E a \in Range1(replies[p]) : a.id = r.id

\* What keeps a browser from going on with a shutdown for ever: a creation that
\* was counted without a context, or a window whose cancelled dialog was missed
\* (process_main.rs:738, :627).
Stuck(b) == \/ \E c \in b.creating : c.key = None
            \/ \E i \in DOMAIN b.windows : b.windows[i].watch = "missed"

\* A recorded shutdown is decided: it is cancelled or refused, or the browser
\* quits, unless one of the two above keeps it (process_main.rs close_all,
\* next_to_close).
ShutdownDecided ==
    \A p \in Profiles :
        browser[p].shutdown # NoId ~> \/ browser[p].shutdown = NoId
                                      \/ browser[p].quitting
                                      \/ Stuck(browser[p])
=============================================================================
