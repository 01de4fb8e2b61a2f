---------------------------- MODULE BrowserSetup ----------------------------
(* Where an App finds its browser and keeps the browsers' runtime root       *)
(* (process_setup.rs plan and locate, process_setup_windows.rs locate and    *)
(* recheck), one look at the file system at a time while other programs      *)
(* create what was missing and replace what was looked at.                   *)
EXTENDS Sequences

CONSTANTS NoPlace

VARIABLES
    asked,   \* what the environment names: XDG directory, cache directory, an explicit root
    entry,   \* place |-> what is there
    fits,    \* places whose socket paths are short enough
    search,  \* the candidates left to try
    look,    \* what is done next, and where
    root,    \* the runtime root taken
    bundled, \* Windows: executables that come from the App's bundle
    exe,     \* executable |-> what its path leads to
    swapped  \* executables replaced before the last recheck began (history)

setupVars == <<asked, entry, fits, search, look, root, bundled, exe, swapped>>

Places      == {"xdg", "xdg/takosumi-cef", "cache/cef", "given"}
Entries     == {"missing", "private", "closed", "loose", "foreign", "other"}
Executables == {"program", "guard"}
RootOf(c)   == IF c = "xdg" THEN "xdg/takosumi-cef" ELSE "cache/cef"
\* Owned by the user; "private" has mode 0700, "closed" another one without group or others.
XdgUsable(p)  == entry[p] = "private"
RootUsable(p) == entry[p] \in {"private", "closed"}

(* plan: relative and empty directories are never candidates *)
Candidates == (IF asked.xdg = "absolute" THEN <<"xdg">> ELSE <<>>)
              \o (IF asked.cache = "absolute" THEN <<"cache">> ELSE <<>>)
Planned == /\ look.at = "plan"
           /\ search' = IF asked.given THEN <<>> ELSE Candidates
           /\ look' = [at |-> "locate", on |-> IF asked.given THEN "given" ELSE NoPlace]
           /\ UNCHANGED <<asked, entry, fits, root, bundled, exe, swapped>>
(* locate: a bundled executable must be a plain file in the bundle, another one only exist *)
Bundled(e) == e \in bundled => exe[e] = "plain"
Locate == /\ look.at = "locate"
          /\ look' = [look EXCEPT !.at = IF \E e \in Executables : ~Bundled(e) \/ exe[e] = "gone"
                                         THEN "unavailable"
                                         ELSE IF asked.given THEN "recheck" ELSE "next"]
          /\ UNCHANGED <<asked, entry, fits, search, root, bundled, exe, swapped>>
\* The next candidate; without one the browser is unavailable.
NextCandidate ==
    /\ look.at = "next"
    /\ IF search = <<>> THEN look' = [look EXCEPT !.at = "unavailable"] /\ UNCHANGED search
       ELSE /\ search' = Tail(search)
            /\ look' = [at |-> IF Head(search) = "xdg" THEN "xdg" ELSE "root", on |-> RootOf(Head(search))]
    /\ UNCHANGED <<asked, entry, fits, root, bundled, exe, swapped>>
XdgDirectory == /\ look.at = "xdg"
                /\ look' = [look EXCEPT !.at = IF XdgUsable("xdg") THEN "root" ELSE "next"]
                /\ UNCHANGED <<asked, entry, fits, search, root, bundled, exe, swapped>>
\* Mutant: what was just created, or already usable, is not checked again.
RootTrusted == /\ look.at = "root"
               /\ look' = [look EXCEPT !.at = IF entry[look.on] = "missing" THEN "create"
                                              ELSE IF entry[look.on] = "foreign" THEN "next" ELSE "ready"]
               /\ root' = IF look'.at = "ready" THEN look.on ELSE root
               /\ UNCHANGED <<asked, entry, fits, search, bundled, exe, swapped>>
RootEntry == /\ look.at = "root"
             /\ look' = [look EXCEPT !.at = IF entry[look.on] = "missing" THEN "create"
                                            ELSE IF RootUsable(look.on) THEN "recheck" ELSE "next"]
             /\ UNCHANGED <<asked, entry, fits, search, root, bundled, exe, swapped>>
\* A recursive create takes any directory that is there by now.
CreateRoot == /\ look.at = "create"
              /\ \/ /\ entry[look.on] = "missing" /\ look' = [look EXCEPT !.at = "recheck"]
                    /\ entry' = [entry EXCEPT ![look.on] = "private"]
                 \/ /\ entry[look.on] \notin {"missing", "other"} /\ look' = [look EXCEPT !.at = "recheck"]
                    /\ UNCHANGED entry
                 \/ look' = [look EXCEPT !.at = "next"] /\ UNCHANGED entry
              /\ UNCHANGED <<asked, fits, search, root, bundled, exe, swapped>>
\* private_runtime; an explicit root that does not qualify leaves no browser.
Recheck == /\ look.at = "recheck"
           /\ IF RootUsable(look.on) /\ look.on \in fits
              THEN look' = [look EXCEPT !.at = "ready"] /\ root' = look.on
              ELSE look' = [look EXCEPT !.at = IF asked.given THEN "unavailable" ELSE "next"] /\ UNCHANGED root
           /\ UNCHANGED <<asked, entry, fits, search, bundled, exe, swapped>>
\* Another instance of the App, or another user, creates what is missing.
Races(p) == /\ look.at \in {"next", "xdg", "root", "create", "recheck"}
            /\ entry[p] = "missing"
            /\ \E e \in Entries \ {"missing"} : entry' = [entry EXCEPT ![p] = e]
            /\ UNCHANGED <<asked, fits, search, look, root, bundled, exe, swapped>>

(* A bundled executable is looked at again before each spawn *)
SpawnAsked == /\ look.at \in {"ready", "refused", "spawned"}
              /\ look' = [look EXCEPT !.at = "program"]
              /\ swapped' = {e \in bundled : exe[e] # "plain"}
              /\ UNCHANGED <<asked, entry, fits, search, root, bundled, exe>>
\* Mutant: nothing is checked again once one executable is named explicitly.
RecheckAllBundled == /\ look.at \in Executables
                     /\ look' = [look EXCEPT !.at =
                          IF bundled = Executables /\ exe[look.at] # "plain" THEN "refused"
                          ELSE IF look.at = "program" THEN "guard" ELSE "spawned"]
                     /\ UNCHANGED <<asked, entry, fits, search, root, bundled, exe, swapped>>
RecheckExecutable == /\ look.at \in Executables
                     /\ look' = [look EXCEPT !.at =
                          IF ~Bundled(look.at) THEN "refused"
                          ELSE IF look.at = "program" THEN "guard" ELSE "spawned"]
                     /\ UNCHANGED <<asked, entry, fits, search, root, bundled, exe, swapped>>
\* Linked elsewhere, moved or deleted; nothing is put back while it is being rechecked.  Nothing
\* looks at the executables while the root is searched.
Swap(e) == /\ e \in bundled
           /\ look.at \in {"locate", "ready", "spawned", "refused"} \cup Executables
           /\ \E x \in {"plain", "link", "gone"} :
                 /\ x = "plain" => look.at \notin Executables
                 /\ exe' = [exe EXCEPT ![e] = x]
           /\ UNCHANGED <<asked, entry, fits, search, look, root, bundled, swapped>>

\* On Windows the App asks for no XDG directory, and only there the bundle is checked.
SetupInit == /\ asked \in [xdg : {"unset", "relative", "absolute"}, cache : {"unset", "absolute"}, given : BOOLEAN]
             /\ \E x, r, c \in Entries :
                   /\ asked.xdg # "absolute" => x = "missing"
                   /\ asked.xdg = "absolute" \/ asked.given \/ r = "missing"
                   /\ entry = [p \in Places |-> CASE p = "xdg" -> x [] p = "cache/cef" -> c [] OTHER -> r]
             /\ fits \in {Places, Places \ {"xdg/takosumi-cef"}} /\ search = <<>>
             /\ look = [at |-> "plan", on |-> NoPlace] /\ root = NoPlace
             /\ \/ asked.xdg # "absolute" /\ bundled \in SUBSET Executables
                \/ asked.xdg = "absolute" /\ bundled = {}
             /\ exe = [e \in Executables |-> "plain"] /\ swapped = {}
SetupNext == \/ Planned \/ NextCandidate \/ XdgDirectory \/ RootEntry \/ CreateRoot \/ Recheck
             \/ Locate \/ SpawnAsked \/ RecheckExecutable
             \/ (\E c \in {"xdg", "cache"} : Races(RootOf(c))) \/ \E e \in Executables : Swap(e)
SetupSpec == SetupInit /\ [][SetupNext]_setupVars

SetupTypeOK == /\ entry \in [Places -> Entries] /\ exe \in [Executables -> {"plain", "link", "gone"}]
               /\ look.on \in Places \cup {NoPlace} /\ root \in Places \cup {NoPlace}
               /\ fits \subseteq Places /\ swapped \subseteq bundled

\* Whoever else creates it first, the root the sockets go to is this user's and closed to others.
RootPrivate == root # NoPlace => RootUsable(root) /\ root \in fits
\* No browser starts from a bundled file that was replaced before the spawn looked at it.
SpawnsBundled == look.at = "spawned" => swapped = {}
=============================================================================
