-------------------------- MODULE ResumeNavigation --------------------------
(* Which page a Web home remembers as its last (resume_navigation.rs,        *)
(* resume_navigation_macos.rs): a small state machine fed with the native    *)
(* engine's load, failure, history and URL events.  The engine reports the   *)
(* URL of a load that may still fail, replaces a document by an error page   *)
(* of its own, settles the URL late, and tells of a superseded load after    *)
(* its successor has begun.                                                  *)
EXTENDS Naturals

CONSTANTS
    Url,        \* pages of the connection
    Safe,       \* those that are rememberable
    MaxLoads,   \* bound: loads ever started
    NoUrl

ASSUME NavigationAssumption == /\ {NoUrl, "error", "broken"} \cap Url = {} /\ Safe \subseteq Url
                               /\ MaxLoads \in Nat

VARIABLES
    engine,   \* "gtk", "webview2" or "webkit" (constant)
    doc,      \* the document shown: a page, an error page of the engine, or a broken one
    uri,      \* the URL the engine reports
    load,     \* the load under way: its id, page and stage
    stale,    \* WebView2: ids of superseded loads not yet reported complete
    settling, \* a URL notification still to come
    nav,      \* State: current, pending, success, previous success, committed, failed, blocked
    saved,    \* what the store was last given
    shown     \* pages that really were shown: loaded, or reached within a loaded document (history)

navVars == <<engine, doc, uri, load, stale, settling, nav, saved, shown>>
pageVars   == <<engine, doc, uri, load, stale, settling, shown>>

NoLoad  == [id |-> 0, url |-> NoUrl, at |-> "none"]
Loading == load.at # "none"
\* The entry the back-forward list has for the document shown.
Item    == IF doc \in Url THEN doc ELSE NoUrl

(* State *)
BeginNav(n, id) == IF n.pending /\ n.current = id THEN n
    ELSE [n EXCEPT !.current = id, !.previous = n.success, !.pending = TRUE, !.committed = FALSE,
                   !.failed = FALSE]
CommitNav(n, id, error) == IF id # n.current \/ ~n.pending THEN n
    ELSE [n EXCEPT !.committed = TRUE, !.success = FALSE, !.failed = error]
FinishNav(n, id, ok, u) == IF id # n.current \/ ~n.pending THEN n
    ELSE IF ok /\ ~n.failed THEN [n EXCEPT !.pending = FALSE, !.success = TRUE, !.blocked = NoUrl]
    ELSE [n EXCEPT !.pending = FALSE, !.failed = TRUE, !.blocked = u,
                   !.success = ~n.committed /\ n.previous /\ u # NoUrl]
GtkFailed(n, stock, u) == IF ~n.pending THEN n
    ELSE [FinishNav(n, n.current, FALSE, u) EXCEPT !.success = @ /\ ~stock]
AtRest(n) == ~n.pending /\ n.success
\* Mutant: any URL of a page that succeeded before.
ObservedAny(n, u) == IF AtRest(n) /\ u \in Safe THEN u ELSE saved
ObservedUrl(n, u) == IF AtRest(n) /\ u # n.blocked /\ u \in Safe THEN u ELSE saved
\* Mutant: a history change is blocked like a property sample.
HistoryLikeObserve(n) == IF AtRest(n) /\ uri' \in Safe \ {n.blocked} THEN uri' ELSE saved
\* The list's entry and the URL must agree, and nothing may be loading.
HistoryUrl(n) == IF AtRest(n) /\ uri' \in Safe THEN uri' ELSE saved
GtkHistory(n) == IF ~(load'.at # "none") /\ uri' = (IF doc' \in Url THEN doc' ELSE NoUrl)
                 THEN HistoryUrl(n) ELSE saved
\* document_uri
DocumentUrl == IF Item = NoUrl THEN uri ELSE IF uri = Item THEN uri ELSE NoUrl

Sample == IF engine = "gtk" THEN DocumentUrl ELSE uri

(* The engine's loads *)
StartsLoad(u) ==
    /\ nav.starts < MaxLoads
    /\ load' = [id |-> nav.starts + 1, url |-> u, at |-> "started"]
    /\ nav' = [BeginNav(nav, IF engine = "gtk" THEN nav.current + 1 ELSE nav.starts + 1)
                 EXCEPT !.starts = @ + 1]
    /\ uri' = IF engine = "webview2" THEN uri ELSE u
    /\ stale' = IF Loading /\ engine = "webview2" THEN stale \cup {load.id} ELSE stale
    /\ Loading => engine = "webview2"
    /\ UNCHANGED <<engine, doc, settling, saved, shown>>
CommitsLoad ==
    /\ load.at = "started"
    /\ load' = [load EXCEPT !.at = "committed"] /\ uri' = load.url
    /\ \/ doc' = load.url /\ nav' = CommitNav(nav, IF engine = "gtk" THEN nav.current ELSE load.id, FALSE)
       \/ /\ engine = "webview2" /\ doc' = "error"      \* IsErrorPage
          /\ nav' = CommitNav(nav, load.id, TRUE)
    /\ UNCHANGED <<engine, stale, settling, saved, shown>>
FinishesLoad ==
    /\ load.at = "committed" /\ doc # "error"
    /\ load' = NoLoad /\ shown' = shown \cup {doc}
    /\ nav' = FinishNav(nav, IF engine = "gtk" THEN nav.current ELSE load.id, TRUE, Sample)
    /\ saved' = IF nav.pending THEN ObservedUrl(nav', Sample) ELSE saved
    /\ UNCHANGED <<engine, doc, uri, stale, settling>>
\* A load fails before or after its commit; the URL may go back to the old document's, at once or later.
FailsLoad ==
    /\ Loading /\ load' = NoLoad
    /\ doc' = IF load.at = "committed" /\ doc # "error" THEN "broken" ELSE doc
    /\ \/ /\ engine # "gtk"
          /\ nav' = FinishNav(nav, load.id, FALSE, IF engine = "webkit" THEN load.url ELSE uri)
          /\ uri' \in {uri, IF Item = NoUrl THEN uri ELSE Item}
          /\ settling' = (settling \/ engine = "webkit")
          /\ UNCHANGED saved
       \/ /\ engine = "gtk"                          \* cancelled: the old document stays
          /\ nav' = GtkFailed(nav, FALSE, load.url)
          /\ uri' \in {uri, IF Item = NoUrl THEN uri ELSE Item}
          /\ saved' = GtkHistory(nav') /\ settling' = TRUE
    /\ UNCHANGED <<engine, stale, shown>>
\* GTK shows its stock error page: a load of its own that succeeds, under the failing URL.
FailsToStockPage ==
    /\ engine = "gtk" /\ Loading
    /\ LET failed == GtkFailed(nav, TRUE, load.url)
           again  == CommitNav(BeginNav(failed, nav.current + 1), nav.current + 1, FALSE) IN
       \E reported \in BOOLEAN :    \* the failure and its error page's load, without their finish
          nav' = IF reported THEN FinishNav(again, again.current, FALSE, load.url) ELSE failed
    /\ doc' = "error" /\ uri' = load.url /\ load' = NoLoad
    /\ UNCHANGED <<engine, stale, settling, saved, shown>>
\* WebView2 reports a superseded load as failed.
StaleCompletes(id) == /\ id \in stale /\ stale' = stale \ {id}
                      /\ nav' = FinishNav(nav, id, FALSE, uri)
                      /\ UNCHANGED <<engine, doc, uri, load, settling, saved, shown>>
\* pushState or replaceState within the document shown.
SameDocument(u) ==
    /\ doc \in shown /\ u # doc /\ load.at # "committed"
    /\ doc' = u /\ shown' = shown \cup {u}
    /\ uri' = IF Loading /\ engine # "webview2" THEN uri ELSE u
    /\ UNCHANGED load
    /\ saved' = CASE engine = "gtk" -> GtkHistory(nav)
                  [] engine = "webview2" -> ObservedUrl(nav, u)
                  [] OTHER -> saved
    /\ settling' = (settling \/ engine = "webkit")
    /\ UNCHANGED <<engine, stale, nav>>
\* A late URL notification; on WebKit its snapshot runs from the main queue.
UrlSettles ==
    /\ settling /\ settling' = FALSE
    /\ uri' = IF Loading \/ Item = NoUrl THEN uri ELSE Item
    /\ UNCHANGED <<engine, doc, load, stale, nav, shown>>
    /\ saved' = CASE engine = "gtk" -> GtkHistory(nav)
                  [] engine = "webkit" /\ ~Loading -> ObservedUrl(nav, uri')
                  [] OTHER -> saved
\* The window closes (or is asked to): one last sample.
LastSample ==
    /\ saved' = CASE engine = "webview2" -> ObservedUrl(nav, uri)
                  [] engine # "webview2" /\ Loading -> saved
                  [] engine = "webkit" /\ ~Loading -> ObservedUrl(nav, uri)
                  [] OTHER -> IF nav.failed THEN saved ELSE ObservedUrl(nav, DocumentUrl)
    /\ saved' # saved
    /\ UNCHANGED <<pageVars, nav>>

NavInit == /\ engine \in {"gtk", "webview2", "webkit"} /\ doc = NoUrl /\ uri = NoUrl /\ load = NoLoad
           /\ stale = {} /\ settling = FALSE /\ saved = NoUrl /\ shown = {}
           /\ nav = [current |-> 0, starts |-> 0, pending |-> FALSE, success |-> FALSE, previous |-> FALSE,
                     committed |-> FALSE, failed |-> FALSE, blocked |-> NoUrl]
NavNext == \/ CommitsLoad \/ FinishesLoad \/ FailsLoad \/ FailsToStockPage \/ UrlSettles \/ LastSample
           \/ (\E u \in Url : StartsLoad(u) \/ SameDocument(u)) \/ \E id \in stale : StaleCompletes(id)
NavSpec == NavInit /\ [][NavNext]_navVars

NavTypeOK == /\ doc \in Url \cup {NoUrl, "error", "broken"} /\ {uri, saved, load.url} \subseteq Url \cup {NoUrl}
             /\ shown \subseteq Url /\ stale \subseteq 1..MaxLoads
             /\ nav \in [current : 0..2 * MaxLoads, starts : 0..MaxLoads, pending : BOOLEAN, success : BOOLEAN,
                         previous : BOOLEAN, committed : BOOLEAN, failed : BOOLEAN, blocked : Url \cup {NoUrl}]

\* "Error/provisional documents never replace the last successful primary page": what is remembered
\* was shown, whatever loads failed, were replaced or reported late on the way.
SavedWasShown == saved # NoUrl => saved \in shown
\* On GTK a page that is shown in full and at rest is the one remembered, also when a load of it had
\* failed before.
GtkRestsSaved == engine = "gtk" /\ ~Loading /\ ~settling /\ AtRest(nav) /\ doc \in Safe => saved = doc
=============================================================================
