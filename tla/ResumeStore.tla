---------------------------- MODULE ResumeStore -----------------------------
(* The file of last pages of a profile (resume.rs, mod store): several homes *)
(* of one or more App instances read it whole, change it and rename a new    *)
(* file over it, without a lock; a clearing of the profile removes it.       *)
EXTENDS Naturals, Sequences, FiniteSets

CONSTANTS
    Home,       \* writers; a ResumeStore's key is its home
    Page,       \* rememberable pages
    MaxPages,   \* MAX_PAGES
    Broken,     \* contents that read() refuses
    Unwritten   \* no record under way, or no page to vouch for

ASSUME StoreAssumption == MaxPages \in Nat \ {0} /\ Unwritten \notin Page

VARIABLES
    file,     \* the entries in order, or Broken; a missing file reads like no entries
    pending,  \* Home -> what its record will rename into place
    stored,   \* Home -> the page of its last completed record, unless something took it back since
    since,    \* Home -> the other homes whose records completed after it
    overtaken \* homes whose record under way read a file that was replaced since

storeVars == <<file, pending, stored, since, overtaken>>

Entry(h, u)     == [key |-> h, url |-> u]
At(s, h)        == {i \in 1..Len(s) : s[i].key = h}
\* The newest entry of the key counts.
Recall(h)       == IF At(file, h) = {} THEN Unwritten
                   ELSE file[CHOOSE i \in At(file, h) : \A j \in At(file, h) : j <= i].url
\* A list holds a key at most once, for each record drops the key's earlier page.
Without(s, h)   == IF At(s, h) = {} THEN s
                   ELSE LET i == CHOOSE i \in At(s, h) : TRUE
                        IN  [j \in 1..Len(s) - 1 |-> s[IF j < i THEN j ELSE j + 1]]
Cut(s)          == IF Len(s) > MaxPages THEN Tail(s) ELSE s
\* Mutant: the key's earlier page stays in the list.
Appended(h, u)  == Cut(Append(file, Entry(h, u)))
\* The key's page moves to the end; the oldest goes when there are too many.
Recorded(h, u)  == Cut(Append(Without(file, h), Entry(h, u)))

\* record reads the file; a page that is the last already is not written again.
ReadsStore(h, u) ==
    /\ pending[h] = Unwritten /\ file # Broken
    /\ file # <<>> => file[Len(file)] # Entry(h, u)
    /\ pending' = [pending EXCEPT ![h] = Recorded(h, u)] /\ overtaken' = overtaken \ {h}
    /\ UNCHANGED <<file, stored, since>>
InProgress == {h \in Home : pending[h] # Unwritten}
\* The temporary file is renamed over the store: what others recorded since this one read is lost.
Renames(h) ==
    /\ pending[h] # Unwritten /\ file' = pending[h] /\ pending' = [pending EXCEPT ![h] = Unwritten]
    /\ stored' = [g \in Home |-> IF g = h THEN file'[Len(file')].url
                                 ELSE IF h \in overtaken THEN Unwritten ELSE stored[g]]
    /\ since' = [g \in Home |-> IF g = h THEN {} ELSE since[g] \cup {h}]
    /\ overtaken' = InProgress \ {h}
\* The write fails, or the App crashes: at most a temporary file is left.
WriteLost(h) == /\ pending[h] # Unwritten /\ pending' = [pending EXCEPT ![h] = Unwritten]
                /\ UNCHANGED <<file, stored, since, overtaken>>
\* clear_profile removes the file; or something damages it.
Replaced(contents) == /\ file # contents /\ file' = contents /\ overtaken' = InProgress
                      /\ stored' = [h \in Home |-> Unwritten] /\ UNCHANGED <<pending, since>>

StoreInit == /\ file \in {<<>>, Broken} /\ pending = [h \in Home |-> Unwritten]
             /\ stored = [h \in Home |-> Unwritten] /\ since = [h \in Home |-> {}] /\ overtaken = {}
StoreNext == \/ \E h \in Home : Renames(h) \/ WriteLost(h) \/ \E u \in Page : ReadsStore(h, u)
             \/ Replaced(<<>>) \/ Replaced(Broken)
StoreSpec == StoreInit /\ [][StoreNext]_storeVars

StoreTypeOK == /\ file # Broken => /\ Len(file) <= MaxPages
                                    /\ \A i \in 1..Len(file) : file[i] \in [key : Home, url : Page]
               /\ stored \in [Home -> Page \cup {Unwritten}] /\ since \in [Home -> SUBSET Home]

\* A completed record is recalled until MaxPages other homes have recorded theirs; only a record that
\* read the file before and renames it after (or a clearing, or damage) may take it back sooner.
RecordedStays == \A h \in Home : stored[h] # Unwritten /\ Cardinality(since[h]) < MaxPages
                     => Recall(h) = stored[h]
=============================================================================
