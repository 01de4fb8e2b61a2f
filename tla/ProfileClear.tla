---------------------------- MODULE ProfileClear ----------------------------
(* Clearing the site data of one profile of the browser process              *)
(* (process_adapter.rs clear_profile .. clear_site_data, the sweep in spawn, *)
(* process_windows.rs singleton_live), with several App instances sharing    *)
(* the profile directory: only the browser's own singleton tells one         *)
(* instance of another's browser.                                            *)
EXTENDS Naturals, FiniteSets

CONSTANTS
    Instance,    \* App instances over time sharing the directory
    BrowserId,   \* browsers ever started
    MaxRoots,    \* bound: cache roots ever created
    Lost         \* owner of a browser whose App crashed

ASSUME ClearAssumption == Lost \notin Instance /\ MaxRoots \in Nat

VARIABLES
    base,      \* the cache root at its path, 0 when absent
    detached,  \* renamed roots not yet removed
    roots,     \* roots created so far
    single,    \* who the root's singleton names: a browser, "stale" or "free"
    browser,   \* BrowserId -> owner, stage, the root it uses, and whether it took its lock
               \* between the look of a clearing and its rename
    clear      \* Instance -> stage of its clearing, what was there, what is still to remove

clearVars == <<base, detached, roots, single, browser, clear>>

NoClear  == [at |-> "idle", had |-> {}, todo |-> {}]
Owned(a, at) == {b \in BrowserId : browser[b].own = a /\ browser[b].at \in at}
Going    == {"started", "opened", "running"}
Busy     == single \in BrowserId
Present  == detached \cup (IF base = 0 THEN {} ELSE {base})
\* The backend lock is held for the whole of a clearing.
Unlocked(a) == clear[a].at = "idle"

\* spawn: leftovers of an interrupted clearing are removed, or not.
Launch(a, b) == /\ Unlocked(a) /\ Owned(a, Going \cup {"failed"}) = {} /\ browser[b].at = "new"
                /\ detached' \in {detached, {}}
                /\ browser' = [browser EXCEPT ![b] = [@ EXCEPT !.own = a, !.at = "started"]]
                /\ UNCHANGED <<base, roots, single, clear>>
\* The browser creates its root if there is none, and then takes the singleton.
OpensRoot(b) == /\ browser[b].at = "started"
                /\ \/ base # 0 /\ UNCHANGED <<base, roots, single>>
                   \/ base = 0 /\ roots < MaxRoots /\ roots' = roots + 1 /\ base' = roots + 1 /\ single' = "free"
                /\ browser' = [browser EXCEPT ![b] = [@ EXCEPT !.at = "opened", !.base = base']]
                /\ UNCHANGED <<detached, clear>>
TakesSingleton(b) ==
    /\ browser[b].at = "opened"
    /\ IF base # browser[b].base
       THEN browser' = [browser EXCEPT ![b].at = "started"] /\ UNCHANGED single
       ELSE IF Busy THEN browser' = [browser EXCEPT ![b].at = "ended"] /\ UNCHANGED single
       ELSE /\ single' = b
            /\ browser' = [browser EXCEPT ![b] = [@ EXCEPT !.at = "running",
                                !.late = \E a \in Instance : clear[a].at = "looked"]]
    /\ UNCHANGED <<base, detached, roots, clear>>
Quit(b, ok) == /\ browser[b].at \in Going
               /\ browser' = [browser EXCEPT ![b].at = IF ok THEN "ended" ELSE "failed"]
               /\ single' = IF single # b THEN single ELSE IF ok THEN "free" ELSE "stale"
               /\ UNCHANGED <<base, detached, roots, clear>>
\* An App crash in the middle of a clearing, or with a browser that goes on draining.
AppCrashes(a) == /\ clear' = [clear EXCEPT ![a] = NoClear]
                 /\ browser' = [b \in BrowserId |-> IF browser[b].own = a THEN [browser[b] EXCEPT !.own = Lost]
                                                    ELSE browser[b]]
                 /\ UNCHANGED <<base, detached, roots, single>>

\* release_ended: its own browser must have ended normally.
Begin(a) == /\ Unlocked(a) /\ Owned(a, Going \cup {"failed"}) = {}
            /\ clear' = [clear EXCEPT ![a] = [NoClear EXCEPT !.at = "begun", !.had = Present]]
            /\ browser' = [b \in BrowserId |-> IF browser[b].own = a THEN [browser[b] EXCEPT !.own = Lost]
                                               ELSE browser[b]]
            /\ UNCHANGED <<base, detached, roots, single>>
\* Mutant: only browsers this App tracks count.
LookAtOwn(a) == /\ clear[a].at = "begun"
                /\ clear' = [clear EXCEPT ![a].at = IF base = 0 THEN "renamed" ELSE "looked"]
                /\ UNCHANGED <<base, detached, roots, single, browser>>
\* singleton_live: a holder refuses; a stale lock refuses too when its PID is in use again.
Look(a) == /\ clear[a].at = "begun"
           /\ \/ base = 0 /\ clear' = [clear EXCEPT ![a].at = "renamed"]
              \/ base # 0 /\ ~Busy /\ clear' = [clear EXCEPT ![a].at = "looked"]
              \/ base # 0 /\ single # "free" /\ clear' = [clear EXCEPT ![a] = NoClear]
           /\ UNCHANGED <<base, detached, roots, single, browser>>
Detach(a) == /\ clear[a].at = "looked"
             /\ IF base = 0 THEN clear' = [clear EXCEPT ![a] = NoClear] /\ UNCHANGED <<base, detached, single>>
                ELSE /\ clear' = [clear EXCEPT ![a].at = "renamed"]
                     /\ detached' = detached \cup {base} /\ base' = 0 /\ single' = "free"
             /\ UNCHANGED <<roots, browser>>
\* remove_detached: the directory is listed, then each entry removed; one that is gone by then is an error.
\* Mutant: only the root just renamed is removed.
ListRenamed(a) == /\ clear[a].at = "renamed"
                  /\ clear' = [clear EXCEPT ![a].at = "removing", ![a].todo = {}]
                  /\ UNCHANGED <<base, detached, roots, single, browser>>
ListDetached(a) == /\ clear[a].at = "renamed"
                   /\ clear' = [clear EXCEPT ![a].at = "removing", ![a].todo = detached]
                   /\ UNCHANGED <<base, detached, roots, single, browser>>
RemoveOne(a) == /\ clear[a].at = "removing"
                /\ \E d \in clear[a].todo :
                     IF d \in detached THEN detached' = detached \ {d} /\ clear' = [clear EXCEPT ![a].todo = @ \ {d}]
                     ELSE clear' = [clear EXCEPT ![a] = NoClear] /\ UNCHANGED detached
                /\ UNCHANGED <<base, roots, single, browser>>
Cleared(a)  == clear[a].at = "removing" /\ clear[a].todo = {}
Answer(a)   == /\ Cleared(a) /\ clear' = [clear EXCEPT ![a] = NoClear]
               /\ UNCHANGED <<base, detached, roots, single, browser>>

ClearInit == /\ base = 0 /\ detached = {} /\ roots = 0 /\ single = "free" /\ clear = [a \in Instance |-> NoClear]
             /\ browser = [b \in BrowserId |-> [own |-> Lost, at |-> "new", base |-> 0, late |-> FALSE]]
ClearNext == \/ \E a \in Instance : \/ \E b \in BrowserId : Launch(a, b)
                                    \/ AppCrashes(a) \/ Begin(a) \/ Look(a) \/ Detach(a) \/ ListDetached(a)
                                    \/ RemoveOne(a) \/ Answer(a)
             \/ \E b \in BrowserId : OpensRoot(b) \/ TakesSingleton(b) \/ \E ok \in BOOLEAN : Quit(b, ok)
ClearSpec == ClearInit /\ [][ClearNext]_clearVars

ClearTypeOK == /\ base \in 0..MaxRoots /\ roots \in 0..MaxRoots /\ detached \subseteq 1..MaxRoots
               /\ single \in BrowserId \cup {"stale", "free"}
               /\ \A a \in Instance : clear[a].had \cup clear[a].todo \subseteq 1..MaxRoots
               /\ \A b \in BrowserId : browser[b].own \in Instance \cup {Lost} /\ browser[b].base \in 0..MaxRoots

\* A clearing never moves the root of a browser away from under it, whichever instance started the
\* browser, unless the browser took its singleton between the clearing's look and its rename.
RunningKeepsRoot == \A b \in BrowserId : browser[b].at = "running" => browser[b].base = base \/ browser[b].late
\* A clearing that is reported as done removed everything that was there when it began, also what
\* interrupted or concurrent clearings had only detached.
ClearedIsGone == \A a \in Instance : Cleared(a) => clear[a].had \cap Present = {}
=============================================================================
