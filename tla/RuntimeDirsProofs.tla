------------------------ MODULE RuntimeDirsProofs ------------------------
(* LockedDirStays of RuntimeDirs, for any Apps, names and number of directories.       *)
(* A locked directory is in danger from the Apps that look at its name: so DInv says   *)
(* what each App knows of the name it deals with (Alone), what two Apps know of each   *)
(* other at one name (Pair), that a name not made yet has no directory, and that an    *)
(* App about to remove a directory left under such a name holds its lock (Passing).    *)
(* The steps fall into ten cases, by the record they give their App; each case keeps   *)
(* DInv (LeavesKeeps to OwnKeeps), and DirsKept brings every action under one of them. *)
EXTENDS RuntimeDirs, TLAPS

\* What an App can do, and why it looks at a name: the types of its record.
Ats  == {"sweep", "idle", "chosen", "judge", "unlink", "rmdir", "make", "made", "created",
         "failed", "using"}
Whys == {"sweep", "first", "again", "own"}
Uses == [at : Ats, name : Name, id : 0..MaxMade, why : Whys, good : BOOLEAN]
\* No directory is made, and the platform stays.
Still == UNCHANGED <<made, windows>>

Removing == {"unlink", "rmdir"}
Touching == {"judge", "unlink", "rmdir"}
On(b, n, stages) == use[b].name = n /\ use[b].at \in stages

(* What one App's record says *)
\* Its own name is one it took, and took once.
Claimed(a) == \/ use[a].at \in {"chosen", "make", "made", "created", "failed", "using"}
              \/ use[a].at \in Touching /\ use[a].why # "sweep"
ClaimOf(a) == Claimed(a) => NameOwner[use[a].name] = a /\ use[a].name \notin fresh
IdOf(a)    == /\ use[a].id <= made
              /\ use[a].at \in Touching \cup {"created"} => use[a].id # 0 \/ use[a].why = "own"
Plain(a)   == /\ use[a].at \in {"judge", "created"} => ~windows
              /\ use[a].at = "judge" => use[a].why # "own"
              /\ use[a].good => use[a].at = "using"
MadeOf(a)  == use[a].at = "made" => /\ ~Locked(use[a].name)
                                    /\ dirs[use[a].name] # NoDir => holder[dirs[use[a].name].id] = Nobody
CreatedOf(a) == use[a].at = "created" /\ dirs[use[a].name] # NoDir => dirs[use[a].name].id = use[a].id
GoodOf(a)  == use[a].good => InPlace(a)
Alone(a)   == ClaimOf(a) /\ IdOf(a) /\ Plain(a) /\ MadeOf(a) /\ CreatedOf(a) /\ GoodOf(a)

(* What it says with another App b at its name *)
MadeWith(a, b)    == use[a].at = "made" => ~On(b, use[a].name, Touching)
CreatedWith(a, b) == use[a].at = "created" =>
                         /\ On(b, use[a].name, Touching) => use[b].id = use[a].id
                         /\ On(b, use[a].name, Removing) => holder[use[b].id] = b
GoodWith(a, b)    == use[a].good => /\ On(b, use[a].name, {"judge"}) => use[b].id = use[a].id
                                    /\ ~On(b, use[a].name, Removing)
Pair(a, b) == MadeWith(a, b) /\ CreatedWith(a, b) /\ GoodWith(a, b)

(* Names and directories *)
DirOf(n)      == dirs[n] # NoDir => dirs[n].id \in 1..made /\ dirs[n].lock \in BOOLEAN
SameDir(n, m) == dirs[n] # NoDir /\ dirs[m] # NoDir /\ dirs[n].id = dirs[m].id => n = m
\* The App whose name it is did not make its directory yet.
Unmade(n) == /\ NameOwner[n] \in App
             /\ \/ n \in fresh
                \/ /\ use[NameOwner[n]].name = n
                   /\ \/ use[NameOwner[n]].at \in {"chosen", "make"}
                      \/ use[NameOwner[n]].at \in Touching /\ use[NameOwner[n]].why \in {"first", "again"}
NotYet(n)     == Unmade(n) /\ ~windows => dirs[n] = NoDir
\* An App that looks at a lock file, or created it, does so under its directory's name; of a
\* directory left under a name not used yet it holds the lock.
OneOf(b, n) == use[b].at \in {"judge", "created"} /\ dirs[n] # NoDir /\ dirs[n].id = use[b].id
                   => use[b].name = n
YetOf(b, n) == Unmade(n) => /\ ~On(b, n, {"judge"})
                            /\ On(b, n, Removing) => /\ dirs[n] # NoDir /\ dirs[n].id = use[b].id
                                                     /\ holder[use[b].id] = b
Passing(b, n) == OneOf(b, n) /\ YetOf(b, n)

Types == /\ RuntimeTypeOK /\ windows \in BOOLEAN /\ dirs = [n \in Name |-> dirs[n]]
         /\ \A i \in 1..MaxMade : i > made => holder[i] = Nobody
\* The inductive invariant.
DInv == /\ Types
        /\ \A a \in App : Alone(a)
        /\ \A a, b \in App : Pair(a, b)
        /\ \A n \in Name : DirOf(n) /\ NotYet(n)
        /\ \A n, m \in Name : SameDir(n, m)
        /\ \A b \in App, n \in Name : Passing(b, n)

\* App a's record after its step; the other Apps' records stay.
Becomes(a, at, name, id, why, good) ==
    /\ use' \in [App -> Uses] /\ \A b \in App : b # a => use'[b] = use[b]
    /\ use'[a].at = at /\ use'[a].name = name /\ use'[a].id = id /\ use'[a].why = why
    /\ use'[a].good = good

\* The parts of an App's record and their types.
LEMMA UsesTypes ==
  ASSUME RuntimeTypeOK, NEW a \in App
  PROVE  /\ use \in [App -> Uses] /\ use[a] \in Uses
         /\ use[a].at \in Ats /\ use[a].name \in Name /\ use[a].id \in 0..MaxMade
         /\ use[a].why \in Whys /\ use[a].good \in BOOLEAN
BY DEF RuntimeTypeOK, Uses, Ats, Whys

\* A step that only changes what App a does.
LEMMA GoesBecomes ==
  ASSUME RuntimeTypeOK, NEW a \in App, NEW at \in Ats, Goes(a, at)
  PROVE  Becomes(a, at, use[a].name, use[a].id, use[a].why, use[a].good)
<1>1. use \in [App -> Uses] /\ use[a] \in Uses
  BY UsesTypes
<1>2. [use[a] EXCEPT !.at = at] \in Uses
  BY <1>1 DEF Uses
<1>3. use' = [use EXCEPT ![a] = [use[a] EXCEPT !.at = at]]
  BY <1>1 DEF Goes
<1> QED BY <1>1, <1>2, <1>3 DEF Becomes, Uses

\* A step that gives App a the record r.
LEMMA RecordBecomes ==
  ASSUME RuntimeTypeOK, NEW a \in App, NEW r \in Uses, use' = [use EXCEPT ![a] = r]
  PROVE  Becomes(a, r.at, r.name, r.id, r.why, r.good)
<1>1. use \in [App -> Uses]
  BY UsesTypes
<1> QED BY <1>1 DEF Becomes

\* A directory's lock file comes or goes; it stays a directory.
LEMMA LockSet ==
  ASSUME NEW d \in [id : 1..MaxMade, lock : BOOLEAN], NEW v \in BOOLEAN
  PROVE  /\ [d EXCEPT !.lock = v] \in [id : 1..MaxMade, lock : BOOLEAN]
         /\ [d EXCEPT !.lock = v].id = d.id /\ [d EXCEPT !.lock = v].lock = v
OBVIOUS

\* What is known of App c, of another App b, and of the names of both.
Known(c, b) == /\ use[c].name \in Name /\ use[c].id \in 0..MaxMade /\ use[c].why \in Whys
               /\ use[c].good \in BOOLEAN
               /\ ClaimOf(c) /\ IdOf(c) /\ Plain(c) /\ MadeOf(c) /\ CreatedOf(c) /\ GoodOf(c)
               /\ MadeWith(c, b) /\ CreatedWith(c, b) /\ GoodWith(c, b)
               /\ DirOf(use[c].name) /\ NotYet(use[c].name) /\ SameDir(use[c].name, use[b].name)
               /\ OneOf(b, use[c].name) /\ YetOf(b, use[c].name)
               /\ OneOf(c, use[c].name) /\ YetOf(c, use[c].name)
               /\ dirs[use[c].name] # NoDir =>
                      /\ dirs[use[c].name] \in [id : 1..MaxMade, lock : BOOLEAN]
                      /\ dirs[use[c].name].id \in 1..MaxMade
\* The invariant gives all of it.
LEMMA KnownOf ==
  ASSUME DInv, NEW c \in App, NEW b \in App
  PROVE  Known(c, b)
<1>1. use[c].name \in Name /\ use[b].name \in Name
  BY UsesTypes DEF DInv, Types
<1>2. /\ use[c].id \in 0..MaxMade /\ use[c].why \in Whys /\ use[c].good \in BOOLEAN
  BY UsesTypes DEF DInv, Types
<1>3. dirs[use[c].name] # NoDir => /\ dirs[use[c].name] \in [id : 1..MaxMade, lock : BOOLEAN]
                                   /\ dirs[use[c].name].id \in 1..MaxMade
  BY <1>1 DEF DInv, Types, RuntimeTypeOK
<1> QED BY <1>1, <1>2, <1>3 DEF DInv, Known, Alone, Pair, Passing

\* A name is claimed by one App at most.
LEMMA OneClaim ==
  ASSUME NEW c \in App, NEW b \in App, ClaimOf(c), ClaimOf(b), Claimed(c), Claimed(b), use[c].name = use[b].name
  PROVE  c = b
BY DEF ClaimOf

\* Another App that touches the directory of a name claimed sweeps it.
LEMMA Visitor ==
  ASSUME DInv, NEW c \in App, NEW b \in App, b # c, Claimed(c), On(b, use[c].name, Touching)
  PROVE  use[b].why = "sweep" /\ use[b].id \in 1..MaxMade
<1>1. Known(c, b) /\ Known(b, c)
  BY KnownOf
<1>2. use[b].why = "sweep"
  BY <1>1, OneClaim DEF Known, Claimed, On
<1> QED BY <1>1, <1>2 DEF Known, IdOf, On

\* A good directory is in place, and claimed.
LEMMA GoodFacts ==
  ASSUME DInv, NEW c \in App, use[c].good
  PROVE  /\ use[c].at = "using" /\ Claimed(c) /\ use[c].name \in Name /\ use[c].id \in 1..MaxMade
         /\ dirs[use[c].name] # NoDir /\ dirs[use[c].name].lock /\ dirs[use[c].name].id = use[c].id
         /\ holder[use[c].id] = c
<1>1. Known(c, c)
  BY KnownOf
<1> QED BY <1>1 DEF Known, Plain, GoodOf, InPlace, Locked, Claimed

\* Two Apps that do not move stay as they are with each other, if the second keeps its locks.
LEMMA Bystanders ==
  ASSUME DInv, NEW c \in App, NEW e \in App, use'[c] = use[c], use'[e] = use[e],
         \A i \in 1..MaxMade : holder[i] = e => holder'[i] = e
  PROVE  Pair(c, e)'
<1>1. MadeWith(c, e) /\ CreatedWith(c, e) /\ GoodWith(c, e)
  BY KnownOf DEF Known
<1>2. MadeWith(c, e)'
  BY <1>1 DEF MadeWith, On
<1>3. GoodWith(c, e)'
  BY <1>1 DEF GoodWith, On
<1>4. CreatedWith(c, e)'
  <2>1. CASE use[c].at = "created" /\ On(e, use[c].name, Touching)
    <3>1. c # e /\ Claimed(c)
      BY <2>1 DEF On, Touching, Claimed
    <3>2. use[e].id \in 1..MaxMade
      BY <2>1, <3>1, Visitor
    <3> QED BY <1>1, <2>1, <3>2 DEF CreatedWith, On
  <2>2. CASE ~(use[c].at = "created" /\ On(e, use[c].name, Touching))
    BY <2>2 DEF CreatedWith, On, Touching, Removing
  <2> QED BY <2>1, <2>2
<1> QED BY <1>2, <1>3, <1>4 DEF Pair

\* An App leaves the directory it dealt with: the name may be removed with it, its lock is
\* kept by nobody else.
LEMMA LeavesKeeps ==
  ASSUME RuntimeAssumption, DInv, NEW a \in App,
         NEW at \in {"idle", "sweep", "failed", "chosen", "make"}, NEW name \in Name,
         NEW id \in 0..made, NEW why \in Whys, Becomes(a, at, name, id, why, FALSE),
         at \in {"failed", "chosen", "make"} => NameOwner[name] = a /\ name \notin fresh',
         at \in {"chosen", "make"} => Unmade(name),
         \/ dirs' = dirs
         \/ /\ dirs' = [dirs EXCEPT ![use[a].name] = NoDir] /\ use[a].at = "rmdir"
            /\ ~Locked(use[a].name),
         holder' = holder \/ holder' = Released(a), fresh' \in SUBSET fresh, Still
  PROVE  DInv'
<1>a. use[a].name \in Name /\ use[a].id \in 0..MaxMade /\ (dirs[use[a].name] # NoDir => dirs[use[a].name] \in [id : 1..MaxMade, lock : BOOLEAN])
  BY KnownOf DEF Known
<1>b. dirs = [n \in Name |-> dirs[n]] /\ holder \in [1..MaxMade -> App \cup {Nobody}]
  BY DEF DInv, Types, RuntimeTypeOK
<1>1. /\ \A c \in App : c # a => use'[c] = use[c]
      /\ use'[a].at = at /\ use'[a].name = name /\ use'[a].id = id
      /\ use'[a].why = why /\ use'[a].good = FALSE
      /\ fresh' \in SUBSET fresh /\ made' = made /\ windows' = windows
  BY DEF Becomes, Still
<1>2. \A n \in Name : dirs'[n] = dirs[n]
        \/ (n = use[a].name /\ use[a].at = "rmdir" /\ ~Locked(n) /\ dirs'[n] = NoDir)
  <2>1. CASE dirs' = dirs
    BY <2>1
  <2>2. CASE dirs' = [dirs EXCEPT ![use[a].name] = NoDir] /\ use[a].at = "rmdir" /\ ~Locked(use[a].name)
    BY <1>a, <1>b, <2>2
  <2> QED BY <2>1, <2>2
<1>3. \A i \in 1..MaxMade : holder'[i] = holder[i] \/ (i = use[a].id /\ holder[i] = a /\ holder'[i] = Nobody)
  <2>1. CASE holder' = holder
    BY <2>1
  <2>2. CASE holder' = Released(a)
    BY <1>b, <2>2 DEF Released
  <2> QED BY <2>1, <2>2
<1>4. /\ Known(a, a) /\ Nobody \notin App /\ made \in 0..MaxMade /\ MaxMade \in Nat
      /\ use'[a].name \in Name
  <2>1. Known(a, a)
    BY KnownOf
  <2>2. Nobody \notin App /\ MaxMade \in Nat
    BY DEF RuntimeAssumption
  <2>3. made \in 0..MaxMade
    BY DEF DInv, Types, RuntimeTypeOK
  <2>4. use'[a].name \in Name
    BY <1>1, KnownOf, Zenon DEF Known
  <2> QED BY <2>1, <2>2, <2>3, <2>4
<1>5. Types'
  <2>1. \A n \in Name : dirs'[n] # NoDir => dirs'[n] \in [id : 1..MaxMade, lock : BOOLEAN]
    BY <1>a, <1>b, <1>2, <1>4 DEF DInv, Types, RuntimeTypeOK
  <2>2. holder' \in [1..MaxMade -> App \cup {Nobody}]
    BY <1>b DEF Released
  <2>3. use' \in [App -> [at : Ats, name : Name, id : 0..MaxMade, why : Whys, good : BOOLEAN]]
    BY DEF Becomes, Uses
  <2>4. made' \in 0..MaxMade /\ fresh' \subseteq Name
    <3>1. fresh \subseteq Name
      BY Zenon DEF DInv, Types, RuntimeTypeOK
    <3> QED BY <1>1, <1>4, <3>1
  <2>5. \A i \in 1..MaxMade : i > made' => holder'[i] = Nobody
    BY <1>1, <1>3, <1>4 DEF DInv, Types, DirOf, Known, IdOf
  <2>6. dirs' = [n \in Name |-> dirs'[n]]
    BY <1>b
  <2>7. windows' \in BOOLEAN
    BY <1>1 DEF DInv, Types
  <2> QED BY <2>1, <2>2, <2>3, <2>4, <2>5, <2>6, <2>7 DEF Types, RuntimeTypeOK, Ats, Whys
<1>6. ASSUME NEW c \in App PROVE Alone(c)'
  <2>1. /\ ClaimOf(c) /\ ClaimOf(a) /\ IdOf(c) /\ IdOf(a) /\ Plain(c) /\ Plain(a) /\ MadeOf(c) /\ MadeOf(a)
        /\ CreatedOf(c) /\ CreatedOf(a) /\ MadeWith(c, a) /\ GoodWith(c, a)
        /\ OneOf(a, use[c].name) /\ SameDir(use[c].name, use'[a].name) /\ DirOf(use[a].name) /\ DirOf(use'[a].name)
        /\ use[c].name \in Name /\ use[c].id \in 0..MaxMade /\ use[a].id \in 0..MaxMade
        /\ (dirs[use[c].name] # NoDir => dirs[use[c].name].id \in 1..MaxMade)
        /\ (dirs[use[a].name] # NoDir => dirs[use[a].name].id \in 1..MaxMade)
    BY <1>4, KnownOf DEF DInv, Known
  <2>2. ClaimOf(c)'
    <3>1. CASE c = a
      BY <1>1, <2>1, <3>1 DEF ClaimOf, Claimed, Touching
    <3>2. CASE c # a
      BY <1>1, <2>1, <3>2 DEF ClaimOf, Claimed
    <3> QED BY <3>1, <3>2
  <2>3. IdOf(c)'
    <3>1. CASE c = a
      BY <1>1, <1>4, <2>1, <3>1 DEF IdOf, Touching, DirOf, Locked
    <3>2. CASE c # a
      BY <1>1, <1>4, <2>1, <3>2 DEF IdOf
    <3> QED BY <3>1, <3>2
  <2>4. Plain(c)'
    BY <1>1, <2>1 DEF Plain
  <2>5. MadeOf(c)'
    <3>1. CASE c = a
      BY <1>1, <3>1 DEF MadeOf
    <3>2. CASE c # a
      <4> SUFFICES ASSUME use[c].at = "made"
                   PROVE  ~Locked(use[c].name)' /\ (dirs'[use[c].name] # NoDir => holder'[dirs'[use[c].name].id] = Nobody)
        BY <1>1, <3>2 DEF MadeOf
      <4>1. /\ use[c].name \in Name /\ Claimed(c) /\ ~Locked(use[c].name) /\ ~On(a, use[c].name, Touching)
            /\ dirs[use[c].name] # NoDir => /\ dirs[use[c].name].id \in 1..MaxMade
                                            /\ holder[dirs[use[c].name].id] = Nobody
        BY <2>1 DEF MadeOf, MadeWith, Claimed
      <4>2. ~(Claimed(a) /\ use[a].name = use[c].name)
        BY <2>1, <3>2, <4>1, OneClaim
      <4>3. dirs'[use[c].name] = dirs[use[c].name]
        BY <1>2, <1>4, <4>1, <4>2 DEF On, Touching, Claimed
      <4>4. dirs[use[c].name] # NoDir => holder'[dirs[use[c].name].id] = Nobody
        BY <1>3, <1>4, <2>1, <4>1, <4>2 DEF OneOf, On, Touching, SameDir, Claimed, Locked
      <4> QED BY <1>1, <3>2, <4>1, <4>3, <4>4 DEF Locked
    <3> QED BY <3>1, <3>2
  <2>6. CreatedOf(c)'
    <3>1. CASE c = a
      BY <1>1, <1>2, <1>4, <2>1, <3>1 DEF CreatedOf
    <3>2. CASE c # a
      BY <1>1, <1>2, <1>4, <2>1, <3>2 DEF CreatedOf, ClaimOf, Claimed
    <3> QED BY <3>1, <3>2
  <2>7. GoodOf(c)'
    <3>1. CASE c = a
      BY <1>1, <2>1, <3>1 DEF GoodOf, Plain
    <3>2. CASE c # a
      <4> SUFFICES ASSUME use[c].good PROVE InPlace(c)'
        BY <1>1, <3>2 DEF GoodOf
      <4>1. /\ use[c].at = "using" /\ Claimed(c) /\ use[c].name \in Name /\ use[c].id \in 1..MaxMade
            /\ dirs[use[c].name] # NoDir /\ dirs[use[c].name].lock /\ dirs[use[c].name].id = use[c].id
            /\ holder[use[c].id] = c /\ Locked(use[c].name)
        BY GoodFacts DEF Locked
      <4>2. ~On(a, use[c].name, Removing)
        BY <2>1 DEF GoodWith
      <4>3. dirs'[use[c].name] # NoDir /\ dirs'[use[c].name].id = use[c].id /\ dirs'[use[c].name].lock
        BY <1>2, <4>1, <4>2 DEF On, Removing
      <4>4. holder'[use[c].id] = c
        BY <1>3, <1>4, <2>1, <3>2, <4>1
      <4> QED BY <1>1, <3>2, <4>3, <4>4 DEF InPlace, Locked
    <3> QED BY <3>1, <3>2
  <2> QED BY <2>2, <2>3, <2>4, <2>5, <2>6, <2>7 DEF Alone
<1>7. ASSUME NEW c \in App, NEW e \in App PROVE Pair(c, e)'
  <2>1. /\ ClaimOf(c) /\ ClaimOf(a) /\ Plain(c) /\ Plain(a) /\ MadeOf(c) /\ CreatedOf(c)
        /\ MadeWith(c, a) /\ CreatedWith(c, a) /\ GoodWith(c, a)
        /\ MadeWith(a, e) /\ CreatedWith(a, e) /\ YetOf(e, use[a].name)
    BY KnownOf DEF Known
  <2>c. c # a /\ Claimed(c) /\ Claimed(a) => use[c].name # use[a].name
    BY <2>1, OneClaim
  <2>g. use[c].good => /\ use[c].at = "using" /\ Claimed(c) /\ use[c].name \in Name /\ use[c].id \in 1..MaxMade
                       /\ dirs[use[c].name].id = use[c].id /\ holder[use[c].id] = c
    BY GoodFacts
  <2>b. CASE c # a /\ e # a
    <3>1. \A i \in 1..MaxMade : holder[i] = e => holder'[i] = e
      BY <1>3, <1>4, <2>b
    <3> QED BY <1>1, <2>b, <3>1, Bystanders
  <2>3. CASE c = a \/ (c # a /\ e = a)
    <3>a. MadeWith(c, e)'
      <4>1. CASE c = a
        BY <1>1, <4>1 DEF MadeWith
      <4>2. CASE c # a /\ e = a
        BY <1>1, <4>2 DEF MadeWith, On, Touching
      <4> QED BY <2>3, <4>1, <4>2
    <3>b. CreatedWith(c, e)'
      <4>1. CASE c = a
        BY <1>1, <4>1 DEF CreatedWith
      <4>2. CASE c # a /\ e = a
        BY <1>1, <4>2 DEF CreatedWith, On, Touching, Removing
      <4> QED BY <2>3, <4>1, <4>2
    <3>c. GoodWith(c, e)'
      <4>1. CASE c = a
        BY <1>1, <2>1, <4>1 DEF GoodWith, Plain
      <4>2. CASE c # a /\ e = a
        BY <1>1, <4>2 DEF GoodWith, On, Removing
      <4> QED BY <2>3, <4>1, <4>2
    <3> QED BY <3>a, <3>b, <3>c DEF Pair
  <2> QED BY <2>b, <2>3
<1>8. ASSUME NEW n \in Name PROVE DirOf(n)' /\ NotYet(n)' /\ (Unmade(n)' => Unmade(n))
  <2>1. DirOf(n) /\ NotYet(n) /\ DirOf(use'[a].name) /\ NotYet(use'[a].name) /\ ClaimOf(a) /\ Plain(a)
    BY <1>4 DEF DInv, Known
  <2>3. DirOf(n)'
    <3>1. CASE n = use[a].name
      <4>1. dirs'[n] # NoDir => dirs'[n].id \in 1..made'
        BY <1>1, <1>2, <1>3, <1>4, <2>1, <3>1 DEF DirOf
      <4>2. dirs'[n] # NoDir => dirs'[n].lock \in BOOLEAN
        BY <1>1, <1>2, <1>3, <1>4, <2>1, <3>1 DEF DirOf
      <4> QED BY <4>1, <4>2 DEF DirOf
    <3>2. CASE n # use[a].name
      BY <1>1, <1>2, <1>3, <1>4, <2>1, <3>2 DEF DirOf
    <3> QED BY <3>1, <3>2
  <2>4. Unmade(n)' => Unmade(n)
    <3>1. CASE NameOwner[n] = a
      BY <1>1, <2>1, <3>1 DEF Unmade, Touching, Removing, ClaimOf, Claimed
    <3>2. CASE NameOwner[n] # a
      <4>1. NameOwner[n] \in App => use'[NameOwner[n]] = use[NameOwner[n]]
        BY <1>1, <3>2
      <4>2. n \in fresh' => n \in fresh
        BY <1>1, Zenon
      <4> QED BY <4>1, <4>2, Zenon DEF Unmade
    <3> QED BY <3>1, <3>2
  <2>5. NotYet(n)'
    <3>1. CASE n = use[a].name
      BY <1>1, <1>2, <2>1, <2>4, <3>1 DEF NotYet, ClaimOf, Claimed, Unmade, Touching
    <3>2. CASE n # use[a].name
      BY <1>1, <1>2, <2>1, <2>4, <3>2, Zenon DEF NotYet
    <3> QED BY <3>1, <3>2
  <2> QED BY <2>3, <2>4, <2>5
<1>9. ASSUME NEW n \in Name, NEW m \in Name PROVE SameDir(n, m)'
  <2>1. DirOf(n) /\ DirOf(m) /\ SameDir(n, m)
    BY DEF DInv
  <2> QED BY <1>1, <1>2, <1>3, <1>4, <2>1 DEF SameDir, DirOf
<1>10. ASSUME NEW c \in App, NEW n \in Name PROVE Passing(c, n)'
  <2>1. /\ IdOf(c) /\ IdOf(a) /\ ClaimOf(a) /\ Plain(a) /\ MadeOf(a) /\ DirOf(n) /\ NotYet(n)
        /\ OneOf(c, n) /\ YetOf(c, n) /\ OneOf(a, n) /\ YetOf(a, n) /\ use[c].id \in 0..MaxMade
        /\ SameDir(n, use[a].name) /\ SameDir(n, use'[a].name) /\ DirOf(use'[a].name)
    BY <1>4, KnownOf DEF DInv, Known, Passing
  <2>2. Unmade(n)' => Unmade(n)
    BY <1>8
  <2>3. OneOf(c, n)'
    <3>1. CASE c = a
      BY <1>1, <1>2, <1>3, <1>4, <2>1, <3>1 DEF OneOf, SameDir, Locked
    <3>2. CASE c # a
      BY <1>1, <1>2, <1>4, <2>1, <3>2 DEF OneOf, IdOf
    <3> QED BY <3>1, <3>2
  <2>4. YetOf(c, n)'
    <3>0. SUFFICES ASSUME Unmade(n)', Unmade(n)
                   PROVE  /\ ~On(c, n, {"judge"})'
                          /\ On(c, n, Removing)' => /\ dirs'[n] # NoDir /\ dirs'[n].id = use'[c].id
                                                    /\ holder'[use'[c].id] = c
      BY <2>2, Zenon DEF YetOf
    <3>1. CASE c = a
      BY <1>1, <3>1 DEF On, Removing
    <3>2. CASE c # a
      <4>1. ~On(c, n, {"judge"})'
        BY <1>1, <2>1, <3>0, <3>2 DEF YetOf, On
      <4>2. ASSUME On(c, n, Removing)
            PROVE  dirs[n] # NoDir /\ dirs[n].id = use[c].id /\ holder[use[c].id] = c /\ use[c].id \in 1..MaxMade
        BY <1>4, <2>1, <3>0, <4>2 DEF YetOf, DirOf
      <4>3. ASSUME On(c, n, Removing)
            PROVE  dirs'[n] # NoDir /\ dirs'[n].id = use[c].id
        <5>1. CASE n = use[a].name
          BY <1>1, <1>2, <2>1, <3>0, <3>2, <4>2, <4>3, <5>1 DEF YetOf, On, Removing
        <5>2. CASE n # use[a].name
          BY <1>2, <4>2, <4>3, <5>2
        <5> QED BY <5>1, <5>2
      <4>4. ASSUME On(c, n, Removing)
            PROVE  holder'[use[c].id] = c
        BY <1>3, <1>4, <2>1, <3>2, <4>2, <4>4
      <4> QED BY <1>1, <3>2, <4>1, <4>3, <4>4 DEF On
    <3> QED BY <3>1, <3>2
  <2> QED BY <2>3, <2>4 DEF Passing
<1> QED BY <1>5, <1>6, <1>7, <1>8, <1>9, <1>10 DEF DInv

\* An App finds a lock file and is about to try its lock (Linux).
LEMMA JudgeKeeps ==
  ASSUME RuntimeAssumption, DInv, NEW a \in App,
         NEW name \in Name, NEW why \in Whys, ~windows, Locked(name),
         Becomes(a, "judge", name, dirs[name].id, why, FALSE),
         why # "sweep" => NameOwner[name] = a /\ name \notin fresh' /\ Unmade(name),
         why # "own", fresh' \in SUBSET fresh, UNCHANGED <<dirs, holder>>, Still
  PROVE  DInv'
<1>a. use[a].name \in Name /\ use[a].id \in 0..MaxMade /\ (dirs[use[a].name] # NoDir => dirs[use[a].name] \in [id : 1..MaxMade, lock : BOOLEAN])
  BY KnownOf DEF Known
<1>b. dirs = [n \in Name |-> dirs[n]] /\ holder \in [1..MaxMade -> App \cup {Nobody}]
  BY DEF DInv, Types, RuntimeTypeOK
<1>1. /\ \A c \in App : c # a => use'[c] = use[c]
      /\ use'[a].at = "judge" /\ use'[a].name = name /\ use'[a].id = dirs[name].id
      /\ use'[a].why = why /\ use'[a].good = FALSE
      /\ fresh' \in SUBSET fresh /\ made' = made /\ windows' = windows
  BY DEF Becomes, Still
<1>2. \A n \in Name : dirs'[n] = dirs[n]
  BY <1>a, <1>b
<1>3. \A i \in 1..MaxMade : holder'[i] = holder[i]
  BY <1>b
<1>4. /\ Known(a, a) /\ Nobody \notin App /\ made \in 0..MaxMade /\ MaxMade \in Nat
      /\ use'[a].name \in Name
  <2>1. Known(a, a)
    BY KnownOf
  <2>2. Nobody \notin App /\ MaxMade \in Nat
    BY DEF RuntimeAssumption
  <2>3. made \in 0..MaxMade
    BY DEF DInv, Types, RuntimeTypeOK
  <2>4. use'[a].name \in Name
    BY <1>1, KnownOf, Zenon DEF Known
  <2> QED BY <2>1, <2>2, <2>3, <2>4
<1>5. Types'
  <2>1. \A n \in Name : dirs'[n] # NoDir => dirs'[n] \in [id : 1..MaxMade, lock : BOOLEAN]
    BY <1>a, <1>b, <1>2, <1>4 DEF DInv, Types, RuntimeTypeOK
  <2>2. holder' \in [1..MaxMade -> App \cup {Nobody}]
    BY <1>b DEF Released
  <2>3. use' \in [App -> [at : Ats, name : Name, id : 0..MaxMade, why : Whys, good : BOOLEAN]]
    BY DEF Becomes, Uses
  <2>4. made' \in 0..MaxMade /\ fresh' \subseteq Name
    <3>1. fresh \subseteq Name
      BY Zenon DEF DInv, Types, RuntimeTypeOK
    <3> QED BY <1>1, <1>4, <3>1
  <2>5. \A i \in 1..MaxMade : i > made' => holder'[i] = Nobody
    BY <1>1, <1>3, <1>4 DEF DInv, Types, DirOf, Known, IdOf
  <2>6. dirs' = [n \in Name |-> dirs'[n]]
    BY <1>b
  <2>7. windows' \in BOOLEAN
    BY <1>1 DEF DInv, Types
  <2> QED BY <2>1, <2>2, <2>3, <2>4, <2>5, <2>6, <2>7 DEF Types, RuntimeTypeOK, Ats, Whys
<1>6. ASSUME NEW c \in App PROVE Alone(c)'
  <2>1. /\ ClaimOf(c) /\ ClaimOf(a) /\ IdOf(c) /\ IdOf(a) /\ Plain(c) /\ Plain(a) /\ MadeOf(c) /\ MadeOf(a)
        /\ CreatedOf(c) /\ CreatedOf(a) /\ MadeWith(c, a) /\ GoodWith(c, a)
        /\ OneOf(a, use[c].name) /\ SameDir(use[c].name, use'[a].name) /\ DirOf(use[a].name) /\ DirOf(use'[a].name)
        /\ use[c].name \in Name /\ use[c].id \in 0..MaxMade /\ use[a].id \in 0..MaxMade
        /\ (dirs[use[c].name] # NoDir => dirs[use[c].name].id \in 1..MaxMade)
        /\ (dirs[use[a].name] # NoDir => dirs[use[a].name].id \in 1..MaxMade)
    BY <1>4, KnownOf DEF DInv, Known
  <2>2. ClaimOf(c)'
    <3>1. CASE c = a
      BY <1>1, <2>1, <3>1 DEF ClaimOf, Claimed, Touching
    <3>2. CASE c # a
      BY <1>1, <2>1, <3>2 DEF ClaimOf, Claimed
    <3> QED BY <3>1, <3>2
  <2>3. IdOf(c)'
    <3>1. CASE c = a
      BY <1>1, <1>4, <2>1, <3>1 DEF IdOf, Touching, DirOf, Locked
    <3>2. CASE c # a
      BY <1>1, <1>4, <2>1, <3>2 DEF IdOf
    <3> QED BY <3>1, <3>2
  <2>4. Plain(c)'
    BY <1>1, <2>1 DEF Plain
  <2>5. MadeOf(c)'
    <3>1. CASE c = a
      BY <1>1, <3>1 DEF MadeOf
    <3>2. CASE c # a
      <4> SUFFICES ASSUME use[c].at = "made"
                   PROVE  ~Locked(use[c].name)' /\ (dirs'[use[c].name] # NoDir => holder'[dirs'[use[c].name].id] = Nobody)
        BY <1>1, <3>2 DEF MadeOf
      <4>1. /\ use[c].name \in Name /\ Claimed(c) /\ ~Locked(use[c].name) /\ ~On(a, use[c].name, Touching)
            /\ dirs[use[c].name] # NoDir => /\ dirs[use[c].name].id \in 1..MaxMade
                                            /\ holder[dirs[use[c].name].id] = Nobody
        BY <2>1 DEF MadeOf, MadeWith, Claimed
      <4>2. ~(Claimed(a) /\ use[a].name = use[c].name)
        BY <2>1, <3>2, <4>1, OneClaim
      <4>3. dirs'[use[c].name] = dirs[use[c].name]
        BY <1>2, <1>4, <4>1, <4>2 DEF On, Touching, Claimed
      <4>4. dirs[use[c].name] # NoDir => holder'[dirs[use[c].name].id] = Nobody
        BY <1>3, <1>4, <2>1, <4>1, <4>2 DEF OneOf, On, Touching, SameDir, Claimed, Locked
      <4> QED BY <1>1, <3>2, <4>1, <4>3, <4>4 DEF Locked
    <3> QED BY <3>1, <3>2
  <2>6. CreatedOf(c)'
    <3>1. CASE c = a
      BY <1>1, <1>2, <1>4, <2>1, <3>1 DEF CreatedOf
    <3>2. CASE c # a
      BY <1>1, <1>2, <1>4, <2>1, <3>2 DEF CreatedOf, ClaimOf, Claimed
    <3> QED BY <3>1, <3>2
  <2>7. GoodOf(c)'
    <3>1. CASE c = a
      BY <1>1, <2>1, <3>1 DEF GoodOf, Plain
    <3>2. CASE c # a
      <4> SUFFICES ASSUME use[c].good PROVE InPlace(c)'
        BY <1>1, <3>2 DEF GoodOf
      <4>1. /\ use[c].at = "using" /\ Claimed(c) /\ use[c].name \in Name /\ use[c].id \in 1..MaxMade
            /\ dirs[use[c].name] # NoDir /\ dirs[use[c].name].lock /\ dirs[use[c].name].id = use[c].id
            /\ holder[use[c].id] = c /\ Locked(use[c].name)
        BY GoodFacts DEF Locked
      <4>2. ~On(a, use[c].name, Removing)
        BY <2>1 DEF GoodWith
      <4>3. dirs'[use[c].name] # NoDir /\ dirs'[use[c].name].id = use[c].id /\ dirs'[use[c].name].lock
        BY <1>2, <4>1, <4>2 DEF On, Removing
      <4>4. holder'[use[c].id] = c
        BY <1>3, <1>4, <2>1, <3>2, <4>1
      <4> QED BY <1>1, <3>2, <4>3, <4>4 DEF InPlace, Locked
    <3> QED BY <3>1, <3>2
  <2> QED BY <2>2, <2>3, <2>4, <2>5, <2>6, <2>7 DEF Alone
<1>7. ASSUME NEW c \in App, NEW e \in App PROVE Pair(c, e)'
  <2>1. /\ ClaimOf(c) /\ ClaimOf(a) /\ Plain(c) /\ Plain(a) /\ MadeOf(c) /\ CreatedOf(c)
        /\ MadeWith(c, a) /\ CreatedWith(c, a) /\ GoodWith(c, a)
        /\ MadeWith(a, e) /\ CreatedWith(a, e) /\ YetOf(e, use[a].name)
    BY KnownOf DEF Known
  <2>c. c # a /\ Claimed(c) /\ Claimed(a) => use[c].name # use[a].name
    BY <2>1, OneClaim
  <2>g. use[c].good => /\ use[c].at = "using" /\ Claimed(c) /\ use[c].name \in Name /\ use[c].id \in 1..MaxMade
                       /\ dirs[use[c].name].id = use[c].id /\ holder[use[c].id] = c
    BY GoodFacts
  <2>b. CASE c # a /\ e # a
    <3>1. \A i \in 1..MaxMade : holder[i] = e => holder'[i] = e
      BY <1>3, <1>4, <2>b
    <3> QED BY <1>1, <2>b, <3>1, Bystanders
  <2>3. CASE c = a \/ (c # a /\ e = a)
    <3>a. MadeWith(c, e)'
      <4>1. CASE c = a
        BY <1>1, <4>1 DEF MadeWith
      <4>2. CASE c # a /\ e = a
        BY <1>1, <2>1, <2>c, <4>2 DEF MadeWith, MadeOf, On, Touching, Claimed, Locked
      <4> QED BY <2>3, <4>1, <4>2
    <3>b. CreatedWith(c, e)'
      <4>1. CASE c = a
        BY <1>1, <4>1 DEF CreatedWith
      <4>2. CASE c # a /\ e = a
        BY <1>1, <2>1, <4>2 DEF CreatedWith, CreatedOf, On, Removing, Locked
      <4> QED BY <2>3, <4>1, <4>2
    <3>c. GoodWith(c, e)'
      <4>1. CASE c = a
        BY <1>1, <2>1, <4>1 DEF GoodWith, Plain
      <4>2. CASE c # a /\ e = a
        BY <1>1, <2>g, <4>2 DEF GoodWith, On, Removing
      <4> QED BY <2>3, <4>1, <4>2
    <3> QED BY <3>a, <3>b, <3>c DEF Pair
  <2> QED BY <2>b, <2>3
<1>8. ASSUME NEW n \in Name PROVE DirOf(n)' /\ NotYet(n)' /\ (Unmade(n)' => Unmade(n))
  <2>1. DirOf(n) /\ NotYet(n) /\ DirOf(use'[a].name) /\ NotYet(use'[a].name) /\ ClaimOf(a) /\ Plain(a)
    BY <1>4 DEF DInv, Known
  <2>3. DirOf(n)'
    <3>1. CASE n = use[a].name
      <4>1. dirs'[n] # NoDir => dirs'[n].id \in 1..made'
        BY <1>1, <1>2, <1>3, <1>4, <2>1, <3>1 DEF DirOf
      <4>2. dirs'[n] # NoDir => dirs'[n].lock \in BOOLEAN
        BY <1>1, <1>2, <1>3, <1>4, <2>1, <3>1 DEF DirOf
      <4> QED BY <4>1, <4>2 DEF DirOf
    <3>2. CASE n # use[a].name
      BY <1>1, <1>2, <1>3, <1>4, <2>1, <3>2 DEF DirOf
    <3> QED BY <3>1, <3>2
  <2>4. Unmade(n)' => Unmade(n)
    <3>1. CASE NameOwner[n] = a
      BY <1>1, <2>1, <3>1 DEF Unmade, Touching, Removing, ClaimOf, Claimed
    <3>2. CASE NameOwner[n] # a
      <4>1. NameOwner[n] \in App => use'[NameOwner[n]] = use[NameOwner[n]]
        BY <1>1, <3>2
      <4>2. n \in fresh' => n \in fresh
        BY <1>1, Zenon
      <4> QED BY <4>1, <4>2, Zenon DEF Unmade
    <3> QED BY <3>1, <3>2
  <2>5. NotYet(n)'
    <3>1. CASE n = use[a].name
      BY <1>1, <1>2, <2>1, <2>4, <3>1 DEF NotYet, ClaimOf, Claimed, Unmade, Touching
    <3>2. CASE n # use[a].name
      BY <1>1, <1>2, <2>1, <2>4, <3>2, Zenon DEF NotYet
    <3> QED BY <3>1, <3>2
  <2> QED BY <2>3, <2>4, <2>5
<1>9. ASSUME NEW n \in Name, NEW m \in Name PROVE SameDir(n, m)'
  <2>1. DirOf(n) /\ DirOf(m) /\ SameDir(n, m)
    BY DEF DInv
  <2> QED BY <1>1, <1>2, <1>3, <1>4, <2>1 DEF SameDir, DirOf
<1>10. ASSUME NEW c \in App, NEW n \in Name PROVE Passing(c, n)'
  <2>1. /\ IdOf(c) /\ IdOf(a) /\ ClaimOf(a) /\ Plain(a) /\ MadeOf(a) /\ DirOf(n) /\ NotYet(n)
        /\ OneOf(c, n) /\ YetOf(c, n) /\ OneOf(a, n) /\ YetOf(a, n) /\ use[c].id \in 0..MaxMade
        /\ SameDir(n, use[a].name) /\ SameDir(n, use'[a].name) /\ DirOf(use'[a].name)
    BY <1>4, KnownOf DEF DInv, Known, Passing
  <2>2. Unmade(n)' => Unmade(n)
    BY <1>8
  <2>3. OneOf(c, n)'
    <3>1. CASE c = a
      BY <1>1, <1>2, <1>3, <1>4, <2>1, <3>1 DEF OneOf, SameDir, Locked
    <3>2. CASE c # a
      BY <1>1, <1>2, <1>4, <2>1, <3>2 DEF OneOf, IdOf
    <3> QED BY <3>1, <3>2
  <2>4. YetOf(c, n)'
    <3>0. SUFFICES ASSUME Unmade(n)', Unmade(n)
                   PROVE  /\ ~On(c, n, {"judge"})'
                          /\ On(c, n, Removing)' => /\ dirs'[n] # NoDir /\ dirs'[n].id = use'[c].id
                                                    /\ holder'[use'[c].id] = c
      BY <2>2, Zenon DEF YetOf
    <3>1. CASE c = a
      BY <1>1, <2>1, <3>0, <3>1 DEF NotYet, On, Removing, Locked
    <3>2. CASE c # a
      <4>1. ~On(c, n, {"judge"})'
        BY <1>1, <2>1, <3>0, <3>2 DEF YetOf, On
      <4>2. ASSUME On(c, n, Removing)
            PROVE  dirs[n] # NoDir /\ dirs[n].id = use[c].id /\ holder[use[c].id] = c /\ use[c].id \in 1..MaxMade
        BY <1>4, <2>1, <3>0, <4>2 DEF YetOf, DirOf
      <4>3. ASSUME On(c, n, Removing)
            PROVE  dirs'[n] # NoDir /\ dirs'[n].id = use[c].id
        <5>1. CASE n = use[a].name
          BY <1>1, <1>2, <2>1, <3>0, <3>2, <4>2, <4>3, <5>1 DEF YetOf, On, Removing
        <5>2. CASE n # use[a].name
          BY <1>2, <4>2, <4>3, <5>2
        <5> QED BY <5>1, <5>2
      <4>4. ASSUME On(c, n, Removing)
            PROVE  holder'[use[c].id] = c
        BY <1>3, <1>4, <2>1, <3>2, <4>2, <4>4
      <4> QED BY <1>1, <3>2, <4>1, <4>3, <4>4 DEF On
    <3> QED BY <3>1, <3>2
  <2> QED BY <2>3, <2>4 DEF Passing
<1> QED BY <1>5, <1>6, <1>7, <1>8, <1>9, <1>10 DEF DInv

\* An App gets the lock of a lock file it found, and is about to remove it.
LEMMA UnlinkKeeps ==
  ASSUME RuntimeAssumption, DInv, NEW a \in App,
         NEW name \in Name, NEW id \in 1..made, NEW why \in Whys, holder[id] = Nobody,
         Becomes(a, "unlink", name, id, why, FALSE),
         holder' = [holder EXCEPT ![id] = a],
         \/ windows /\ Locked(name) /\ id = dirs[name].id
         \/ use[a].at = "judge" /\ use[a].id = id /\ use[a].name = name,
         why # "sweep" => NameOwner[name] = a /\ name \notin fresh' /\ Unmade(name),
         why # "own", fresh' \in SUBSET fresh, UNCHANGED dirs, Still
  PROVE  DInv'
<1>a. use[a].name \in Name /\ use[a].id \in 0..MaxMade /\ (dirs[use[a].name] # NoDir => dirs[use[a].name] \in [id : 1..MaxMade, lock : BOOLEAN])
  BY KnownOf DEF Known
<1>b. dirs = [n \in Name |-> dirs[n]] /\ holder \in [1..MaxMade -> App \cup {Nobody}]
  BY DEF DInv, Types, RuntimeTypeOK
<1>1. /\ \A c \in App : c # a => use'[c] = use[c]
      /\ use'[a].at = "unlink" /\ use'[a].name = name /\ use'[a].id = id
      /\ use'[a].why = why /\ use'[a].good = FALSE
      /\ fresh' \in SUBSET fresh /\ made' = made /\ windows' = windows
  BY DEF Becomes, Still
<1>2. \A n \in Name : dirs'[n] = dirs[n]
  BY <1>a, <1>b
<1>3. \A i \in 1..MaxMade : holder'[i] = IF i = id THEN a ELSE holder[i]
  BY <1>b
<1>4. /\ Known(a, a) /\ Nobody \notin App /\ made \in 0..MaxMade /\ MaxMade \in Nat
      /\ use'[a].name \in Name
  <2>1. Known(a, a)
    BY KnownOf
  <2>2. Nobody \notin App /\ MaxMade \in Nat
    BY DEF RuntimeAssumption
  <2>3. made \in 0..MaxMade
    BY DEF DInv, Types, RuntimeTypeOK
  <2>4. use'[a].name \in Name
    BY <1>1, KnownOf, Zenon DEF Known
  <2> QED BY <2>1, <2>2, <2>3, <2>4
<1>5. Types'
  <2>1. \A n \in Name : dirs'[n] # NoDir => dirs'[n] \in [id : 1..MaxMade, lock : BOOLEAN]
    BY <1>a, <1>b, <1>2, <1>4 DEF DInv, Types, RuntimeTypeOK
  <2>2. holder' \in [1..MaxMade -> App \cup {Nobody}]
    BY <1>b DEF Released
  <2>3. use' \in [App -> [at : Ats, name : Name, id : 0..MaxMade, why : Whys, good : BOOLEAN]]
    BY DEF Becomes, Uses
  <2>4. made' \in 0..MaxMade /\ fresh' \subseteq Name
    <3>1. fresh \subseteq Name
      BY Zenon DEF DInv, Types, RuntimeTypeOK
    <3> QED BY <1>1, <1>4, <3>1
  <2>5. \A i \in 1..MaxMade : i > made' => holder'[i] = Nobody
    BY <1>1, <1>3, <1>4 DEF DInv, Types, DirOf, Known, IdOf
  <2>6. dirs' = [n \in Name |-> dirs'[n]]
    BY <1>b
  <2>7. windows' \in BOOLEAN
    BY <1>1 DEF DInv, Types
  <2> QED BY <2>1, <2>2, <2>3, <2>4, <2>5, <2>6, <2>7 DEF Types, RuntimeTypeOK, Ats, Whys
<1>6. ASSUME NEW c \in App PROVE Alone(c)'
  <2>1. /\ ClaimOf(c) /\ ClaimOf(a) /\ IdOf(c) /\ IdOf(a) /\ Plain(c) /\ Plain(a) /\ MadeOf(c) /\ MadeOf(a)
        /\ CreatedOf(c) /\ CreatedOf(a) /\ MadeWith(c, a) /\ GoodWith(c, a)
        /\ OneOf(a, use[c].name) /\ SameDir(use[c].name, use'[a].name) /\ DirOf(use[a].name) /\ DirOf(use'[a].name)
        /\ use[c].name \in Name /\ use[c].id \in 0..MaxMade /\ use[a].id \in 0..MaxMade
        /\ (dirs[use[c].name] # NoDir => dirs[use[c].name].id \in 1..MaxMade)
        /\ (dirs[use[a].name] # NoDir => dirs[use[a].name].id \in 1..MaxMade)
    BY <1>4, KnownOf DEF DInv, Known
  <2>2. ClaimOf(c)'
    <3>1. CASE c = a
      BY <1>1, <2>1, <3>1 DEF ClaimOf, Claimed, Touching
    <3>2. CASE c # a
      BY <1>1, <2>1, <3>2 DEF ClaimOf, Claimed
    <3> QED BY <3>1, <3>2
  <2>3. IdOf(c)'
    <3>1. CASE c = a
      BY <1>1, <1>4, <2>1, <3>1 DEF IdOf, Touching, DirOf, Locked
    <3>2. CASE c # a
      BY <1>1, <1>4, <2>1, <3>2 DEF IdOf
    <3> QED BY <3>1, <3>2
  <2>4. Plain(c)'
    BY <1>1, <2>1 DEF Plain
  <2>5. MadeOf(c)'
    <3>1. CASE c = a
      BY <1>1, <3>1 DEF MadeOf
    <3>2. CASE c # a
      <4> SUFFICES ASSUME use[c].at = "made"
                   PROVE  ~Locked(use[c].name)' /\ (dirs'[use[c].name] # NoDir => holder'[dirs'[use[c].name].id] = Nobody)
        BY <1>1, <3>2 DEF MadeOf
      <4>1. /\ use[c].name \in Name /\ Claimed(c) /\ ~Locked(use[c].name) /\ ~On(a, use[c].name, Touching)
            /\ dirs[use[c].name] # NoDir => /\ dirs[use[c].name].id \in 1..MaxMade
                                            /\ holder[dirs[use[c].name].id] = Nobody
        BY <2>1 DEF MadeOf, MadeWith, Claimed
      <4>2. ~(Claimed(a) /\ use[a].name = use[c].name)
        BY <2>1, <3>2, <4>1, OneClaim
      <4>3. dirs'[use[c].name] = dirs[use[c].name]
        BY <1>2, <1>4, <4>1, <4>2 DEF On, Touching, Claimed
      <4>4. dirs[use[c].name] # NoDir => holder'[dirs[use[c].name].id] = Nobody
        <5>1. CASE windows /\ Locked(name) /\ id = dirs[name].id
          BY <1>1, <1>3, <2>1, <4>1, <5>1 DEF SameDir, Locked
        <5>2. CASE use[a].at = "judge" /\ use[a].id = id /\ use[a].name = name
          <6>1. OneOf(a, use[c].name) /\ use[a].name # use[c].name
            BY <2>1, <4>1, <5>2 DEF On, Touching
          <6> QED BY <1>3, <4>1, <5>2, <6>1 DEF OneOf
        <5> QED BY <5>1, <5>2
      <4> QED BY <1>1, <3>2, <4>1, <4>3, <4>4 DEF Locked
    <3> QED BY <3>1, <3>2
  <2>6. CreatedOf(c)'
    <3>1. CASE c = a
      BY <1>1, <1>2, <1>4, <2>1, <3>1 DEF CreatedOf
    <3>2. CASE c # a
      BY <1>1, <1>2, <1>4, <2>1, <3>2 DEF CreatedOf, ClaimOf, Claimed
    <3> QED BY <3>1, <3>2
  <2>7. GoodOf(c)'
    <3>1. CASE c = a
      BY <1>1, <2>1, <3>1 DEF GoodOf, Plain
    <3>2. CASE c # a
      <4> SUFFICES ASSUME use[c].good PROVE InPlace(c)'
        BY <1>1, <3>2 DEF GoodOf
      <4>1. /\ use[c].at = "using" /\ Claimed(c) /\ use[c].name \in Name /\ use[c].id \in 1..MaxMade
            /\ dirs[use[c].name] # NoDir /\ dirs[use[c].name].lock /\ dirs[use[c].name].id = use[c].id
            /\ holder[use[c].id] = c /\ Locked(use[c].name)
        BY GoodFacts DEF Locked
      <4>2. ~On(a, use[c].name, Removing)
        BY <2>1 DEF GoodWith
      <4>3. dirs'[use[c].name] # NoDir /\ dirs'[use[c].name].id = use[c].id /\ dirs'[use[c].name].lock
        BY <1>2, <4>1, <4>2 DEF On, Removing
      <4>4. holder'[use[c].id] = c
        BY <1>3, <1>4, <2>1, <3>2, <4>1
      <4> QED BY <1>1, <3>2, <4>3, <4>4 DEF InPlace, Locked
    <3> QED BY <3>1, <3>2
  <2> QED BY <2>2, <2>3, <2>4, <2>5, <2>6, <2>7 DEF Alone
<1>7. ASSUME NEW c \in App, NEW e \in App PROVE Pair(c, e)'
  <2>1. /\ ClaimOf(c) /\ ClaimOf(a) /\ Plain(c) /\ Plain(a) /\ MadeOf(c) /\ CreatedOf(c)
        /\ MadeWith(c, a) /\ CreatedWith(c, a) /\ GoodWith(c, a)
        /\ MadeWith(a, e) /\ CreatedWith(a, e) /\ YetOf(e, use[a].name)
    BY KnownOf DEF Known
  <2>c. c # a /\ Claimed(c) /\ Claimed(a) => use[c].name # use[a].name
    BY <2>1, OneClaim
  <2>g. use[c].good => /\ use[c].at = "using" /\ Claimed(c) /\ use[c].name \in Name /\ use[c].id \in 1..MaxMade
                       /\ dirs[use[c].name].id = use[c].id /\ holder[use[c].id] = c
    BY GoodFacts
  <2>b. CASE c # a /\ e # a
    <3>1. \A i \in 1..MaxMade : holder[i] = e => holder'[i] = e
      BY <1>3, <1>4, <2>b
    <3> QED BY <1>1, <2>b, <3>1, Bystanders
  <2>3. CASE c = a \/ (c # a /\ e = a)
    <3>a. MadeWith(c, e)'
      <4>1. CASE c = a
        BY <1>1, <4>1 DEF MadeWith
      <4>2. CASE c # a /\ e = a
        BY <1>1, <2>1, <2>c, <4>2 DEF MadeWith, MadeOf, On, Touching, Claimed, Locked
      <4> QED BY <2>3, <4>1, <4>2
    <3>b. CreatedWith(c, e)'
      <4>1. CASE c = a
        BY <1>1, <4>1 DEF CreatedWith
      <4>2. CASE c # a /\ e = a
        <5>0. CreatedWith(c, a) /\ Plain(c)
          BY <2>1
        <5>1. CASE windows
          BY <1>1, <4>2, <5>0, <5>1 DEF CreatedWith, Plain
        <5>2. CASE use[a].at = "judge" /\ use[a].id = id /\ use[a].name = name
          BY <1>1, <1>3, <4>2, <5>0, <5>2 DEF CreatedWith, On, Touching, Removing, DInv, Types, RuntimeTypeOK
        <5> QED BY <5>1, <5>2
      <4> QED BY <2>3, <4>1, <4>2
    <3>c. GoodWith(c, e)'
      <4>1. CASE c = a
        BY <1>1, <2>1, <4>1 DEF GoodWith, Plain
      <4>2. CASE c # a /\ e = a
        BY <1>1, <1>4, <2>1, <2>g, <4>2 DEF GoodWith, On, Removing
      <4> QED BY <2>3, <4>1, <4>2
    <3> QED BY <3>a, <3>b, <3>c DEF Pair
  <2> QED BY <2>b, <2>3
<1>8. ASSUME NEW n \in Name PROVE DirOf(n)' /\ NotYet(n)' /\ (Unmade(n)' => Unmade(n))
  <2>1. DirOf(n) /\ NotYet(n) /\ DirOf(use'[a].name) /\ NotYet(use'[a].name) /\ ClaimOf(a) /\ Plain(a)
    BY <1>4 DEF DInv, Known
  <2>3. DirOf(n)'
    <3>1. CASE n = use[a].name
      <4>1. dirs'[n] # NoDir => dirs'[n].id \in 1..made'
        BY <1>1, <1>2, <1>3, <1>4, <2>1, <3>1 DEF DirOf
      <4>2. dirs'[n] # NoDir => dirs'[n].lock \in BOOLEAN
        BY <1>1, <1>2, <1>3, <1>4, <2>1, <3>1 DEF DirOf
      <4> QED BY <4>1, <4>2 DEF DirOf
    <3>2. CASE n # use[a].name
      BY <1>1, <1>2, <1>3, <1>4, <2>1, <3>2 DEF DirOf
    <3> QED BY <3>1, <3>2
  <2>4. Unmade(n)' => Unmade(n)
    <3>1. CASE NameOwner[n] = a
      BY <1>1, <2>1, <3>1 DEF Unmade, Touching, Removing, ClaimOf, Claimed
    <3>2. CASE NameOwner[n] # a
      <4>1. NameOwner[n] \in App => use'[NameOwner[n]] = use[NameOwner[n]]
        BY <1>1, <3>2
      <4>2. n \in fresh' => n \in fresh
        BY <1>1, Zenon
      <4> QED BY <4>1, <4>2, Zenon DEF Unmade
    <3> QED BY <3>1, <3>2
  <2>5. NotYet(n)'
    <3>1. CASE n = use[a].name
      BY <1>1, <1>2, <2>1, <2>4, <3>1 DEF NotYet, ClaimOf, Claimed, Unmade, Touching
    <3>2. CASE n # use[a].name
      BY <1>1, <1>2, <2>1, <2>4, <3>2, Zenon DEF NotYet
    <3> QED BY <3>1, <3>2
  <2> QED BY <2>3, <2>4, <2>5
<1>9. ASSUME NEW n \in Name, NEW m \in Name PROVE SameDir(n, m)'
  <2>1. DirOf(n) /\ DirOf(m) /\ SameDir(n, m)
    BY DEF DInv
  <2> QED BY <1>1, <1>2, <1>3, <1>4, <2>1 DEF SameDir, DirOf
<1>10. ASSUME NEW c \in App, NEW n \in Name PROVE Passing(c, n)'
  <2>1. /\ IdOf(c) /\ IdOf(a) /\ ClaimOf(a) /\ Plain(a) /\ MadeOf(a) /\ DirOf(n) /\ NotYet(n)
        /\ OneOf(c, n) /\ YetOf(c, n) /\ OneOf(a, n) /\ YetOf(a, n) /\ use[c].id \in 0..MaxMade
        /\ SameDir(n, use[a].name) /\ SameDir(n, use'[a].name) /\ DirOf(use'[a].name)
    BY <1>4, KnownOf DEF DInv, Known, Passing
  <2>2. Unmade(n)' => Unmade(n)
    BY <1>8
  <2>3. OneOf(c, n)'
    <3>1. CASE c = a
      BY <1>1, <1>2, <1>3, <1>4, <2>1, <3>1 DEF OneOf, SameDir, Locked
    <3>2. CASE c # a
      BY <1>1, <1>2, <1>4, <2>1, <3>2 DEF OneOf, IdOf
    <3> QED BY <3>1, <3>2
  <2>4. YetOf(c, n)'
    <3>0. SUFFICES ASSUME Unmade(n)', Unmade(n)
                   PROVE  /\ ~On(c, n, {"judge"})'
                          /\ On(c, n, Removing)' => /\ dirs'[n] # NoDir /\ dirs'[n].id = use'[c].id
                                                    /\ holder'[use'[c].id] = c
      BY <2>2, Zenon DEF YetOf
    <3>1. CASE c = a
      <4>1. CASE windows /\ Locked(name) /\ id = dirs[name].id
        BY <1>1, <1>2, <1>3, <1>4, <3>1, <4>1 DEF On, Removing, Locked, DInv, Types, RuntimeTypeOK
      <4>2. CASE use[a].at = "judge" /\ use[a].id = id /\ use[a].name = name
        BY <1>1, <2>1, <3>0, <3>1, <4>2 DEF YetOf, On
      <4> QED BY <4>1, <4>2
    <3>2. CASE c # a
      <4>1. ~On(c, n, {"judge"})'
        BY <1>1, <2>1, <3>0, <3>2 DEF YetOf, On
      <4>2. ASSUME On(c, n, Removing)
            PROVE  dirs[n] # NoDir /\ dirs[n].id = use[c].id /\ holder[use[c].id] = c /\ use[c].id \in 1..MaxMade
        BY <1>4, <2>1, <3>0, <4>2 DEF YetOf, DirOf
      <4>3. ASSUME On(c, n, Removing)
            PROVE  dirs'[n] # NoDir /\ dirs'[n].id = use[c].id
        <5>1. CASE n = use[a].name
          BY <1>1, <1>2, <2>1, <3>0, <3>2, <4>2, <4>3, <5>1 DEF YetOf, On, Removing
        <5>2. CASE n # use[a].name
          BY <1>2, <4>2, <4>3, <5>2
        <5> QED BY <5>1, <5>2
      <4>4. ASSUME On(c, n, Removing)
            PROVE  holder'[use[c].id] = c
        BY <1>3, <1>4, <2>1, <3>2, <4>2, <4>4
      <4> QED BY <1>1, <3>2, <4>1, <4>3, <4>4 DEF On
    <3> QED BY <3>1, <3>2
  <2> QED BY <2>3, <2>4 DEF Passing
<1> QED BY <1>5, <1>6, <1>7, <1>8, <1>9, <1>10 DEF DInv

\* An App removes the lock file, and is about to remove the directory.
LEMMA RmdirKeeps ==
  ASSUME RuntimeAssumption, DInv, NEW a \in App,
         use[a].at = "unlink", dirs[use[a].name] # NoDir,
         Becomes(a, "rmdir", use[a].name, use[a].id, use[a].why, use[a].good),
         dirs' = [dirs EXCEPT ![use[a].name].lock = FALSE], UNCHANGED <<holder, fresh>>, Still
  PROVE  DInv'
<1>a. use[a].name \in Name /\ use[a].id \in 0..MaxMade /\ (dirs[use[a].name] # NoDir => dirs[use[a].name] \in [id : 1..MaxMade, lock : BOOLEAN])
  BY KnownOf DEF Known
<1>b. dirs = [n \in Name |-> dirs[n]] /\ holder \in [1..MaxMade -> App \cup {Nobody}]
  BY DEF DInv, Types, RuntimeTypeOK
<1>1. /\ \A c \in App : c # a => use'[c] = use[c]
      /\ use'[a].at = "rmdir" /\ use'[a].name = use[a].name /\ use'[a].id = use[a].id
      /\ use'[a].why = use[a].why /\ use'[a].good = use[a].good
      /\ fresh' \in SUBSET fresh /\ made' = made /\ windows' = windows
  BY DEF Becomes, Still
<1>2. /\ \A n \in Name : n # use[a].name => dirs'[n] = dirs[n]
      /\ dirs'[use[a].name] # NoDir /\ dirs'[use[a].name].id = dirs[use[a].name].id
      /\ dirs'[use[a].name].lock = FALSE
  <2>1. dirs[use[a].name] \in [id : 1..MaxMade, lock : BOOLEAN]
    BY <1>a
  <2>2. /\ dirs'[use[a].name] = [dirs[use[a].name] EXCEPT !.lock = FALSE]
        /\ \A n \in Name : n # use[a].name => dirs'[n] = dirs[n]
    BY <1>a, <1>b
  <2>3. dirs'[use[a].name] \in [id : 1..MaxMade, lock : BOOLEAN]
    BY <2>1, <2>2, LockSet
  <2>4. dirs'[use[a].name] \in [id : Nat, lock : BOOLEAN]
    BY <2>3, RuntimeAssumption
  <2>5. dirs'[use[a].name] # NoDir
    BY <2>4, RuntimeAssumption
  <2> QED BY <2>1, <2>2, <2>5
<1>3. \A i \in 1..MaxMade : holder'[i] = holder[i]
  BY <1>b
<1>4. /\ Known(a, a) /\ Nobody \notin App /\ made \in 0..MaxMade /\ MaxMade \in Nat
      /\ use'[a].name \in Name
  <2>1. Known(a, a)
    BY KnownOf
  <2>2. Nobody \notin App /\ MaxMade \in Nat
    BY DEF RuntimeAssumption
  <2>3. made \in 0..MaxMade
    BY DEF DInv, Types, RuntimeTypeOK
  <2>4. use'[a].name \in Name
    BY <1>1, KnownOf, Zenon DEF Known
  <2> QED BY <2>1, <2>2, <2>3, <2>4
<1>5. Types'
  <2>1. \A n \in Name : dirs'[n] # NoDir => dirs'[n] \in [id : 1..MaxMade, lock : BOOLEAN]
    BY <1>a, <1>b, <1>2, <1>4 DEF DInv, Types, RuntimeTypeOK
  <2>2. holder' \in [1..MaxMade -> App \cup {Nobody}]
    BY <1>b DEF Released
  <2>3. use' \in [App -> [at : Ats, name : Name, id : 0..MaxMade, why : Whys, good : BOOLEAN]]
    BY DEF Becomes, Uses
  <2>4. made' \in 0..MaxMade /\ fresh' \subseteq Name
    <3>1. fresh \subseteq Name
      BY Zenon DEF DInv, Types, RuntimeTypeOK
    <3> QED BY <1>1, <1>4, <3>1
  <2>5. \A i \in 1..MaxMade : i > made' => holder'[i] = Nobody
    BY <1>1, <1>3, <1>4 DEF DInv, Types, DirOf, Known, IdOf
  <2>6. dirs' = [n \in Name |-> dirs'[n]]
    BY <1>b
  <2>7. windows' \in BOOLEAN
    BY <1>1 DEF DInv, Types
  <2> QED BY <2>1, <2>2, <2>3, <2>4, <2>5, <2>6, <2>7 DEF Types, RuntimeTypeOK, Ats, Whys
<1>6. ASSUME NEW c \in App PROVE Alone(c)'
  <2>1. /\ ClaimOf(c) /\ ClaimOf(a) /\ IdOf(c) /\ IdOf(a) /\ Plain(c) /\ Plain(a) /\ MadeOf(c) /\ MadeOf(a)
        /\ CreatedOf(c) /\ CreatedOf(a) /\ MadeWith(c, a) /\ GoodWith(c, a)
        /\ OneOf(a, use[c].name) /\ SameDir(use[c].name, use'[a].name) /\ DirOf(use[a].name) /\ DirOf(use'[a].name)
        /\ use[c].name \in Name /\ use[c].id \in 0..MaxMade /\ use[a].id \in 0..MaxMade
        /\ (dirs[use[c].name] # NoDir => dirs[use[c].name].id \in 1..MaxMade)
        /\ (dirs[use[a].name] # NoDir => dirs[use[a].name].id \in 1..MaxMade)
    BY <1>4, KnownOf DEF DInv, Known
  <2>2. ClaimOf(c)'
    <3>1. CASE c = a
      BY <1>1, <2>1, <3>1 DEF ClaimOf, Claimed, Touching
    <3>2. CASE c # a
      BY <1>1, <2>1, <3>2 DEF ClaimOf, Claimed
    <3> QED BY <3>1, <3>2
  <2>3. IdOf(c)'
    <3>1. CASE c = a
      BY <1>1, <1>4, <2>1, <3>1 DEF IdOf, Touching, DirOf, Locked
    <3>2. CASE c # a
      BY <1>1, <1>4, <2>1, <3>2 DEF IdOf
    <3> QED BY <3>1, <3>2
  <2>4. Plain(c)'
    BY <1>1, <2>1 DEF Plain
  <2>5. MadeOf(c)'
    <3>1. CASE c = a
      BY <1>1, <3>1 DEF MadeOf
    <3>2. CASE c # a
      <4> SUFFICES ASSUME use[c].at = "made"
                   PROVE  ~Locked(use[c].name)' /\ (dirs'[use[c].name] # NoDir => holder'[dirs'[use[c].name].id] = Nobody)
        BY <1>1, <3>2 DEF MadeOf
      <4>1. /\ use[c].name \in Name /\ Claimed(c) /\ ~Locked(use[c].name) /\ ~On(a, use[c].name, Touching)
            /\ dirs[use[c].name] # NoDir => /\ dirs[use[c].name].id \in 1..MaxMade
                                            /\ holder[dirs[use[c].name].id] = Nobody
        BY <2>1 DEF MadeOf, MadeWith, Claimed
      <4>2. ~(Claimed(a) /\ use[a].name = use[c].name)
        BY <2>1, <3>2, <4>1, OneClaim
      <4>3. dirs'[use[c].name] = dirs[use[c].name]
        BY <1>2, <1>4, <4>1, <4>2 DEF On, Touching, Claimed
      <4>4. dirs[use[c].name] # NoDir => holder'[dirs[use[c].name].id] = Nobody
        BY <1>3, <1>4, <2>1, <4>1, <4>2 DEF OneOf, On, Touching, SameDir, Claimed, Locked
      <4> QED BY <1>1, <3>2, <4>1, <4>3, <4>4 DEF Locked
    <3> QED BY <3>1, <3>2
  <2>6. CreatedOf(c)'
    <3>1. CASE c = a
      BY <1>1, <1>2, <1>4, <2>1, <3>1 DEF CreatedOf
    <3>2. CASE c # a
      BY <1>1, <1>2, <1>4, <2>1, <3>2 DEF CreatedOf, ClaimOf, Claimed
    <3> QED BY <3>1, <3>2
  <2>7. GoodOf(c)'
    <3>1. CASE c = a
      BY <1>1, <2>1, <3>1 DEF GoodOf, Plain
    <3>2. CASE c # a
      <4> SUFFICES ASSUME use[c].good PROVE InPlace(c)'
        BY <1>1, <3>2 DEF GoodOf
      <4>1. /\ use[c].at = "using" /\ Claimed(c) /\ use[c].name \in Name /\ use[c].id \in 1..MaxMade
            /\ dirs[use[c].name] # NoDir /\ dirs[use[c].name].lock /\ dirs[use[c].name].id = use[c].id
            /\ holder[use[c].id] = c /\ Locked(use[c].name)
        BY GoodFacts DEF Locked
      <4>2. ~On(a, use[c].name, Removing)
        BY <2>1 DEF GoodWith
      <4>3. dirs'[use[c].name] # NoDir /\ dirs'[use[c].name].id = use[c].id /\ dirs'[use[c].name].lock
        BY <1>2, <4>1, <4>2 DEF On, Removing
      <4>4. holder'[use[c].id] = c
        BY <1>3, <1>4, <2>1, <3>2, <4>1
      <4> QED BY <1>1, <3>2, <4>3, <4>4 DEF InPlace, Locked
    <3> QED BY <3>1, <3>2
  <2> QED BY <2>2, <2>3, <2>4, <2>5, <2>6, <2>7 DEF Alone
<1>7. ASSUME NEW c \in App, NEW e \in App PROVE Pair(c, e)'
  <2>1. /\ ClaimOf(c) /\ ClaimOf(a) /\ Plain(c) /\ Plain(a) /\ MadeOf(c) /\ CreatedOf(c)
        /\ MadeWith(c, a) /\ CreatedWith(c, a) /\ GoodWith(c, a)
        /\ MadeWith(a, e) /\ CreatedWith(a, e) /\ YetOf(e, use[a].name)
    BY KnownOf DEF Known
  <2>c. c # a /\ Claimed(c) /\ Claimed(a) => use[c].name # use[a].name
    BY <2>1, OneClaim
  <2>g. use[c].good => /\ use[c].at = "using" /\ Claimed(c) /\ use[c].name \in Name /\ use[c].id \in 1..MaxMade
                       /\ dirs[use[c].name].id = use[c].id /\ holder[use[c].id] = c
    BY GoodFacts
  <2>b. CASE c # a /\ e # a
    <3>1. \A i \in 1..MaxMade : holder[i] = e => holder'[i] = e
      BY <1>3, <1>4, <2>b
    <3> QED BY <1>1, <2>b, <3>1, Bystanders
  <2>3. CASE c = a \/ (c # a /\ e = a)
    <3>a. MadeWith(c, e)'
      <4>1. CASE c = a
        BY <1>1, <4>1 DEF MadeWith
      <4>2. CASE c # a /\ e = a
        BY <1>1, <2>1, <2>c, <4>2 DEF MadeWith, MadeOf, On, Touching, Claimed, Locked
      <4> QED BY <2>3, <4>1, <4>2
    <3>b. CreatedWith(c, e)'
      <4>1. CASE c = a
        BY <1>1, <4>1 DEF CreatedWith
      <4>2. CASE c # a /\ e = a
        BY <1>1, <2>1, <4>2 DEF CreatedWith, On, Touching, Removing
      <4> QED BY <2>3, <4>1, <4>2
    <3>c. GoodWith(c, e)'
      <4>1. CASE c = a
        BY <1>1, <2>1, <4>1 DEF GoodWith, Plain
      <4>2. CASE c # a /\ e = a
        BY <1>1, <2>1, <2>c, <2>g, <4>2 DEF GoodWith, On, Removing, Claimed
      <4> QED BY <2>3, <4>1, <4>2
    <3> QED BY <3>a, <3>b, <3>c DEF Pair
  <2> QED BY <2>b, <2>3
<1>8. ASSUME NEW n \in Name PROVE DirOf(n)' /\ NotYet(n)' /\ (Unmade(n)' => Unmade(n))
  <2>1. DirOf(n) /\ NotYet(n) /\ DirOf(use'[a].name) /\ NotYet(use'[a].name) /\ ClaimOf(a) /\ Plain(a)
    BY <1>4 DEF DInv, Known
  <2>3. DirOf(n)'
    <3>1. CASE n = use[a].name
      <4>1. dirs'[n] # NoDir => dirs'[n].id \in 1..made'
        BY <1>1, <1>2, <1>3, <1>4, <2>1, <3>1 DEF DirOf
      <4>2. dirs'[n] # NoDir => dirs'[n].lock \in BOOLEAN
        BY <1>1, <1>2, <1>3, <1>4, <2>1, <3>1 DEF DirOf
      <4> QED BY <4>1, <4>2 DEF DirOf
    <3>2. CASE n # use[a].name
      BY <1>1, <1>2, <1>3, <1>4, <2>1, <3>2 DEF DirOf
    <3> QED BY <3>1, <3>2
  <2>4. Unmade(n)' => Unmade(n)
    <3>1. CASE NameOwner[n] = a
      BY <1>1, <2>1, <3>1 DEF Unmade, Touching, Removing, ClaimOf, Claimed
    <3>2. CASE NameOwner[n] # a
      <4>1. NameOwner[n] \in App => use'[NameOwner[n]] = use[NameOwner[n]]
        BY <1>1, <3>2
      <4>2. n \in fresh' => n \in fresh
        BY <1>1, Zenon
      <4> QED BY <4>1, <4>2, Zenon DEF Unmade
    <3> QED BY <3>1, <3>2
  <2>5. NotYet(n)'
    <3>1. CASE n = use[a].name
      BY <1>1, <1>2, <2>1, <2>4, <3>1 DEF NotYet, ClaimOf, Claimed, Unmade, Touching
    <3>2. CASE n # use[a].name
      BY <1>1, <1>2, <2>1, <2>4, <3>2, Zenon DEF NotYet
    <3> QED BY <3>1, <3>2
  <2> QED BY <2>3, <2>4, <2>5
<1>9. ASSUME NEW n \in Name, NEW m \in Name PROVE SameDir(n, m)'
  <2>1. DirOf(n) /\ DirOf(m) /\ SameDir(n, m)
    BY DEF DInv
  <2> QED BY <1>1, <1>2, <1>3, <1>4, <2>1 DEF SameDir, DirOf
<1>10. ASSUME NEW c \in App, NEW n \in Name PROVE Passing(c, n)'
  <2>1. /\ IdOf(c) /\ IdOf(a) /\ ClaimOf(a) /\ Plain(a) /\ MadeOf(a) /\ DirOf(n) /\ NotYet(n)
        /\ OneOf(c, n) /\ YetOf(c, n) /\ OneOf(a, n) /\ YetOf(a, n) /\ use[c].id \in 0..MaxMade
        /\ SameDir(n, use[a].name) /\ SameDir(n, use'[a].name) /\ DirOf(use'[a].name)
    BY <1>4, KnownOf DEF DInv, Known, Passing
  <2>2. Unmade(n)' => Unmade(n)
    BY <1>8
  <2>3. OneOf(c, n)'
    <3>1. CASE c = a
      BY <1>1, <1>2, <1>3, <1>4, <2>1, <3>1 DEF OneOf, SameDir, Locked
    <3>2. CASE c # a
      BY <1>1, <1>2, <1>4, <2>1, <3>2 DEF OneOf, IdOf
    <3> QED BY <3>1, <3>2
  <2>4. YetOf(c, n)'
    <3>0. SUFFICES ASSUME Unmade(n)', Unmade(n)
                   PROVE  /\ ~On(c, n, {"judge"})'
                          /\ On(c, n, Removing)' => /\ dirs'[n] # NoDir /\ dirs'[n].id = use'[c].id
                                                    /\ holder'[use'[c].id] = c
      BY <2>2, Zenon DEF YetOf
    <3>1. CASE c = a
      <4>1. CASE n = use[a].name
        <5>1. dirs[n] # NoDir /\ dirs[n].id = use[a].id /\ holder[use[a].id] = a
          BY <2>1, <3>0, <4>1 DEF YetOf, On, Removing
        <5>2. use[a].id \in 1..MaxMade
          BY <1>a, <4>1, <5>1
        <5> QED BY <1>1, <1>2, <1>3, <3>1, <4>1, <5>1, <5>2 DEF On
      <4>2. CASE n # use[a].name
        BY <1>1, <3>1, <4>2 DEF On
      <4> QED BY <4>1, <4>2
    <3>2. CASE c # a
      <4>1. ~On(c, n, {"judge"})'
        BY <1>1, <2>1, <3>0, <3>2 DEF YetOf, On
      <4>2. ASSUME On(c, n, Removing)
            PROVE  dirs[n] # NoDir /\ dirs[n].id = use[c].id /\ holder[use[c].id] = c /\ use[c].id \in 1..MaxMade
        BY <1>4, <2>1, <3>0, <4>2 DEF YetOf, DirOf
      <4>3. ASSUME On(c, n, Removing)
            PROVE  dirs'[n] # NoDir /\ dirs'[n].id = use[c].id
        <5>1. CASE n = use[a].name
          BY <1>1, <1>2, <2>1, <3>0, <3>2, <4>2, <4>3, <5>1 DEF YetOf, On, Removing
        <5>2. CASE n # use[a].name
          BY <1>2, <4>2, <4>3, <5>2
        <5> QED BY <5>1, <5>2
      <4>4. ASSUME On(c, n, Removing)
            PROVE  holder'[use[c].id] = c
        BY <1>3, <1>4, <2>1, <3>2, <4>2, <4>4
      <4> QED BY <1>1, <3>2, <4>1, <4>3, <4>4 DEF On
    <3> QED BY <3>1, <3>2
  <2> QED BY <2>3, <2>4 DEF Passing
<1> QED BY <1>5, <1>6, <1>7, <1>8, <1>9, <1>10 DEF DInv

\* An App makes its directory.
LEMMA MadeKeeps ==
  ASSUME RuntimeAssumption, DInv, NEW a \in App,
         use[a].at = "make", dirs[use[a].name] = NoDir, made < MaxMade, made' = made + 1,
         Becomes(a, "made", use[a].name, use[a].id, use[a].why, use[a].good),
         dirs' = [dirs EXCEPT ![use[a].name] = [id |-> made + 1, lock |-> FALSE]],
         UNCHANGED <<holder, fresh, windows>>
  PROVE  DInv'
<1>a. use[a].name \in Name /\ use[a].id \in 0..MaxMade /\ (dirs[use[a].name] # NoDir => dirs[use[a].name] \in [id : 1..MaxMade, lock : BOOLEAN])
  BY KnownOf DEF Known
<1>b. dirs = [n \in Name |-> dirs[n]] /\ holder \in [1..MaxMade -> App \cup {Nobody}]
  BY DEF DInv, Types, RuntimeTypeOK
<1>1. /\ \A c \in App : c # a => use'[c] = use[c]
      /\ use'[a].at = "made" /\ use'[a].name = use[a].name /\ use'[a].id = use[a].id
      /\ use'[a].why = use[a].why /\ use'[a].good = use[a].good
      /\ fresh' \in SUBSET fresh /\ made' = made + 1 /\ windows' = windows
  BY DEF Becomes, Still
<1>2. /\ \A n \in Name : n # use[a].name => dirs'[n] = dirs[n]
      /\ dirs'[use[a].name] # NoDir /\ dirs'[use[a].name].id = made + 1
      /\ dirs'[use[a].name].lock = FALSE
  <2>1. [id |-> made + 1, lock |-> FALSE] \in [id : Nat, lock : BOOLEAN]
    BY DEF DInv, Types, RuntimeTypeOK
  <2>2. [id |-> made + 1, lock |-> FALSE] # NoDir
    BY <2>1, RuntimeAssumption
  <2> QED BY <1>a, <1>b, <2>2
<1>3. \A i \in 1..MaxMade : holder'[i] = holder[i]
  BY <1>b
<1>4. /\ Known(a, a) /\ Nobody \notin App /\ made \in 0..MaxMade /\ MaxMade \in Nat
      /\ use'[a].name \in Name
  <2>1. Known(a, a)
    BY KnownOf
  <2>2. Nobody \notin App /\ MaxMade \in Nat
    BY DEF RuntimeAssumption
  <2>3. made \in 0..MaxMade
    BY DEF DInv, Types, RuntimeTypeOK
  <2>4. use'[a].name \in Name
    BY <1>1, KnownOf, Zenon DEF Known
  <2> QED BY <2>1, <2>2, <2>3, <2>4
<1>5. Types'
  <2>1. \A n \in Name : dirs'[n] # NoDir => dirs'[n] \in [id : 1..MaxMade, lock : BOOLEAN]
    BY <1>a, <1>b, <1>2, <1>4 DEF DInv, Types, RuntimeTypeOK
  <2>2. holder' \in [1..MaxMade -> App \cup {Nobody}]
    BY <1>b DEF Released
  <2>3. use' \in [App -> [at : Ats, name : Name, id : 0..MaxMade, why : Whys, good : BOOLEAN]]
    BY DEF Becomes, Uses
  <2>4. made' \in 0..MaxMade /\ fresh' \subseteq Name
    <3>1. fresh \subseteq Name
      BY Zenon DEF DInv, Types, RuntimeTypeOK
    <3> QED BY <1>1, <1>4, <3>1
  <2>5. \A i \in 1..MaxMade : i > made' => holder'[i] = Nobody
    BY <1>1, <1>3, <1>4 DEF DInv, Types, DirOf, Known, IdOf
  <2>6. dirs' = [n \in Name |-> dirs'[n]]
    BY <1>b
  <2>7. windows' \in BOOLEAN
    BY <1>1 DEF DInv, Types
  <2> QED BY <2>1, <2>2, <2>3, <2>4, <2>5, <2>6, <2>7 DEF Types, RuntimeTypeOK, Ats, Whys
<1>6. ASSUME NEW c \in App PROVE Alone(c)'
  <2>1. /\ ClaimOf(c) /\ ClaimOf(a) /\ IdOf(c) /\ IdOf(a) /\ Plain(c) /\ Plain(a) /\ MadeOf(c) /\ MadeOf(a)
        /\ CreatedOf(c) /\ CreatedOf(a) /\ MadeWith(c, a) /\ GoodWith(c, a)
        /\ OneOf(a, use[c].name) /\ SameDir(use[c].name, use'[a].name) /\ DirOf(use[a].name) /\ DirOf(use'[a].name)
        /\ use[c].name \in Name /\ use[c].id \in 0..MaxMade /\ use[a].id \in 0..MaxMade
        /\ (dirs[use[c].name] # NoDir => dirs[use[c].name].id \in 1..MaxMade)
        /\ (dirs[use[a].name] # NoDir => dirs[use[a].name].id \in 1..MaxMade)
    BY <1>4, KnownOf DEF DInv, Known
  <2>2. ClaimOf(c)'
    <3>1. CASE c = a
      BY <1>1, <2>1, <3>1 DEF ClaimOf, Claimed, Touching
    <3>2. CASE c # a
      BY <1>1, <2>1, <3>2 DEF ClaimOf, Claimed
    <3> QED BY <3>1, <3>2
  <2>3. IdOf(c)'
    <3>1. CASE c = a
      BY <1>1, <1>4, <2>1, <3>1 DEF IdOf, Touching, DirOf, Locked
    <3>2. CASE c # a
      BY <1>1, <1>4, <2>1, <3>2 DEF IdOf
    <3> QED BY <3>1, <3>2
  <2>4. Plain(c)'
    BY <1>1, <2>1 DEF Plain
  <2>5. MadeOf(c)'
    <3>1. CASE c = a
      BY <1>1, <1>2, <1>3, <1>4, <3>1 DEF MadeOf, Locked, DInv, Types
    <3>2. CASE c # a
      <4> SUFFICES ASSUME use[c].at = "made"
                   PROVE  ~Locked(use[c].name)' /\ (dirs'[use[c].name] # NoDir => holder'[dirs'[use[c].name].id] = Nobody)
        BY <1>1, <3>2 DEF MadeOf
      <4>1. /\ use[c].name \in Name /\ Claimed(c) /\ ~Locked(use[c].name) /\ ~On(a, use[c].name, Touching)
            /\ dirs[use[c].name] # NoDir => /\ dirs[use[c].name].id \in 1..MaxMade
                                            /\ holder[dirs[use[c].name].id] = Nobody
        BY <2>1 DEF MadeOf, MadeWith, Claimed
      <4>2. ~(Claimed(a) /\ use[a].name = use[c].name)
        BY <2>1, <3>2, <4>1, OneClaim
      <4>3. dirs'[use[c].name] = dirs[use[c].name]
        BY <1>2, <1>4, <4>1, <4>2 DEF On, Touching, Claimed
      <4>4. dirs[use[c].name] # NoDir => holder'[dirs[use[c].name].id] = Nobody
        BY <1>3, <1>4, <2>1, <4>1, <4>2 DEF OneOf, On, Touching, SameDir, Claimed, Locked
      <4> QED BY <1>1, <3>2, <4>1, <4>3, <4>4 DEF Locked
    <3> QED BY <3>1, <3>2
  <2>6. CreatedOf(c)'
    <3>1. CASE c = a
      BY <1>1, <1>2, <1>4, <2>1, <3>1 DEF CreatedOf
    <3>2. CASE c # a
      BY <1>1, <1>2, <1>4, <2>1, <3>2 DEF CreatedOf, ClaimOf, Claimed
    <3> QED BY <3>1, <3>2
  <2>7. GoodOf(c)'
    <3>1. CASE c = a
      BY <1>1, <2>1, <3>1 DEF GoodOf, Plain
    <3>2. CASE c # a
      <4> SUFFICES ASSUME use[c].good PROVE InPlace(c)'
        BY <1>1, <3>2 DEF GoodOf
      <4>1. /\ use[c].at = "using" /\ Claimed(c) /\ use[c].name \in Name /\ use[c].id \in 1..MaxMade
            /\ dirs[use[c].name] # NoDir /\ dirs[use[c].name].lock /\ dirs[use[c].name].id = use[c].id
            /\ holder[use[c].id] = c /\ Locked(use[c].name)
        BY GoodFacts DEF Locked
      <4>2. ~On(a, use[c].name, Removing)
        BY <2>1 DEF GoodWith
      <4>3. dirs'[use[c].name] # NoDir /\ dirs'[use[c].name].id = use[c].id /\ dirs'[use[c].name].lock
        BY <1>2, <4>1, <4>2 DEF On, Removing
      <4>4. holder'[use[c].id] = c
        BY <1>3, <1>4, <2>1, <3>2, <4>1
      <4> QED BY <1>1, <3>2, <4>3, <4>4 DEF InPlace, Locked
    <3> QED BY <3>1, <3>2
  <2> QED BY <2>2, <2>3, <2>4, <2>5, <2>6, <2>7 DEF Alone
<1>7. ASSUME NEW c \in App, NEW e \in App PROVE Pair(c, e)'
  <2>1. /\ ClaimOf(c) /\ ClaimOf(a) /\ Plain(c) /\ Plain(a) /\ MadeOf(c) /\ CreatedOf(c)
        /\ MadeWith(c, a) /\ CreatedWith(c, a) /\ GoodWith(c, a)
        /\ MadeWith(a, e) /\ CreatedWith(a, e) /\ YetOf(e, use[a].name)
    BY KnownOf DEF Known
  <2>c. c # a /\ Claimed(c) /\ Claimed(a) => use[c].name # use[a].name
    BY <2>1, OneClaim
  <2>g. use[c].good => /\ use[c].at = "using" /\ Claimed(c) /\ use[c].name \in Name /\ use[c].id \in 1..MaxMade
                       /\ dirs[use[c].name].id = use[c].id /\ holder[use[c].id] = c
    BY GoodFacts
  <2>b. CASE c # a /\ e # a
    <3>1. \A i \in 1..MaxMade : holder[i] = e => holder'[i] = e
      BY <1>3, <1>4, <2>b
    <3> QED BY <1>1, <2>b, <3>1, Bystanders
  <2>3. CASE c = a \/ (c # a /\ e = a)
    <3>a. MadeWith(c, e)'
      <4>1. CASE c = a
        <5>1. Unmade(use[a].name)
          BY <2>1, <4>1 DEF Unmade, ClaimOf, Claimed, RuntimeAssumption
        <5> QED BY <1>1, <2>1, <4>1, <5>1 DEF MadeWith, YetOf, On, Touching, Removing
      <4>2. CASE c # a /\ e = a
        BY <1>1, <4>2 DEF MadeWith, On, Touching
      <4> QED BY <2>3, <4>1, <4>2
    <3>b. CreatedWith(c, e)'
      <4>1. CASE c = a
        BY <1>1, <4>1 DEF CreatedWith
      <4>2. CASE c # a /\ e = a
        BY <1>1, <4>2 DEF CreatedWith, On, Touching, Removing
      <4> QED BY <2>3, <4>1, <4>2
    <3>c. GoodWith(c, e)'
      <4>1. CASE c = a
        BY <1>1, <2>1, <4>1 DEF GoodWith, Plain
      <4>2. CASE c # a /\ e = a
        BY <1>1, <4>2 DEF GoodWith, On, Removing
      <4> QED BY <2>3, <4>1, <4>2
    <3> QED BY <3>a, <3>b, <3>c DEF Pair
  <2> QED BY <2>b, <2>3
<1>8. ASSUME NEW n \in Name PROVE DirOf(n)' /\ NotYet(n)' /\ (Unmade(n)' => Unmade(n))
  <2>1. DirOf(n) /\ NotYet(n) /\ DirOf(use'[a].name) /\ NotYet(use'[a].name) /\ ClaimOf(a) /\ Plain(a)
    BY <1>4 DEF DInv, Known
  <2>3. DirOf(n)'
    <3>1. CASE n = use[a].name
      <4>1. dirs'[n] # NoDir => dirs'[n].id \in 1..made'
        BY <1>1, <1>2, <1>3, <1>4, <2>1, <3>1 DEF DirOf
      <4>2. dirs'[n] # NoDir => dirs'[n].lock \in BOOLEAN
        BY <1>1, <1>2, <1>3, <1>4, <2>1, <3>1 DEF DirOf
      <4> QED BY <4>1, <4>2 DEF DirOf
    <3>2. CASE n # use[a].name
      BY <1>1, <1>2, <1>3, <1>4, <2>1, <3>2 DEF DirOf
    <3> QED BY <3>1, <3>2
  <2>4. Unmade(n)' => Unmade(n)
    <3>1. CASE NameOwner[n] = a
      BY <1>1, <2>1, <3>1 DEF Unmade, Touching, Removing, ClaimOf, Claimed
    <3>2. CASE NameOwner[n] # a
      <4>1. NameOwner[n] \in App => use'[NameOwner[n]] = use[NameOwner[n]]
        BY <1>1, <3>2
      <4>2. n \in fresh' => n \in fresh
        BY <1>1, Zenon
      <4> QED BY <4>1, <4>2, Zenon DEF Unmade
    <3> QED BY <3>1, <3>2
  <2>5. NotYet(n)'
    <3>1. CASE n = use[a].name
      BY <1>1, <1>2, <2>1, <2>4, <3>1 DEF NotYet, ClaimOf, Claimed, Unmade, Touching
    <3>2. CASE n # use[a].name
      BY <1>1, <1>2, <2>1, <2>4, <3>2 DEF NotYet
    <3> QED BY <3>1, <3>2
  <2> QED BY <2>3, <2>4, <2>5
<1>9. ASSUME NEW n \in Name, NEW m \in Name PROVE SameDir(n, m)'
  <2>1. DirOf(n) /\ DirOf(m) /\ SameDir(n, m)
    BY DEF DInv
  <2> QED BY <1>1, <1>2, <1>3, <1>4, <2>1 DEF SameDir, DirOf
<1>10. ASSUME NEW c \in App, NEW n \in Name PROVE Passing(c, n)'
  <2>1. /\ IdOf(c) /\ IdOf(a) /\ ClaimOf(a) /\ Plain(a) /\ MadeOf(a) /\ DirOf(n) /\ NotYet(n)
        /\ OneOf(c, n) /\ YetOf(c, n) /\ OneOf(a, n) /\ YetOf(a, n) /\ use[c].id \in 0..MaxMade
        /\ SameDir(n, use[a].name) /\ SameDir(n, use'[a].name) /\ DirOf(use'[a].name)
    BY <1>4, KnownOf DEF DInv, Known, Passing
  <2>2. Unmade(n)' => Unmade(n)
    BY <1>8
  <2>3. OneOf(c, n)'
    <3>1. CASE c = a
      BY <1>1, <1>2, <1>3, <1>4, <2>1, <3>1 DEF OneOf, SameDir, Locked
    <3>2. CASE c # a
      BY <1>1, <1>2, <1>4, <2>1, <3>2 DEF OneOf, IdOf
    <3> QED BY <3>1, <3>2
  <2>4. YetOf(c, n)'
    <3>0. SUFFICES ASSUME Unmade(n)', Unmade(n)
                   PROVE  /\ ~On(c, n, {"judge"})'
                          /\ On(c, n, Removing)' => /\ dirs'[n] # NoDir /\ dirs'[n].id = use'[c].id
                                                    /\ holder'[use'[c].id] = c
      BY <2>2, Zenon DEF YetOf
    <3>1. CASE c = a
      BY <1>1, <3>1 DEF On, Removing
    <3>2. CASE c # a
      <4>1. ~On(c, n, {"judge"})'
        BY <1>1, <2>1, <3>0, <3>2 DEF YetOf, On
      <4>2. ASSUME On(c, n, Removing)
            PROVE  dirs[n] # NoDir /\ dirs[n].id = use[c].id /\ holder[use[c].id] = c /\ use[c].id \in 1..MaxMade
        BY <1>4, <2>1, <3>0, <4>2 DEF YetOf, DirOf
      <4>3. ASSUME On(c, n, Removing)
            PROVE  dirs'[n] # NoDir /\ dirs'[n].id = use[c].id
        <5>1. CASE n = use[a].name
          BY <1>1, <1>2, <2>1, <3>0, <3>2, <4>2, <4>3, <5>1 DEF YetOf, On, Removing
        <5>2. CASE n # use[a].name
          BY <1>2, <4>2, <4>3, <5>2
        <5> QED BY <5>1, <5>2
      <4>4. ASSUME On(c, n, Removing)
            PROVE  holder'[use[c].id] = c
        BY <1>3, <1>4, <2>1, <3>2, <4>2, <4>4
      <4> QED BY <1>1, <3>2, <4>1, <4>3, <4>4 DEF On
    <3> QED BY <3>1, <3>2
  <2> QED BY <2>3, <2>4 DEF Passing
<1> QED BY <1>5, <1>6, <1>7, <1>8, <1>9, <1>10 DEF DInv

\* An App locks a lock file that is gone with its directory, and makes the directory again (Linux).
LEMMA RemadeKeeps ==
  ASSUME RuntimeAssumption, DInv, NEW a \in App,
         ~windows, use[a].at = "created", holder[use[a].id] = Nobody, dirs[use[a].name] = NoDir,
         Becomes(a, "using", use[a].name, use[a].id, use[a].why, FALSE),
         MakesDir(use[a].name), holder' = [holder EXCEPT ![use[a].id] = a], UNCHANGED <<fresh, windows>>
  PROVE  DInv'
<1>a. use[a].name \in Name /\ use[a].id \in 0..MaxMade /\ (dirs[use[a].name] # NoDir => dirs[use[a].name] \in [id : 1..MaxMade, lock : BOOLEAN])
  BY KnownOf DEF Known
<1>b. dirs = [n \in Name |-> dirs[n]] /\ holder \in [1..MaxMade -> App \cup {Nobody}]
  BY DEF DInv, Types, RuntimeTypeOK
<1>0. /\ made < MaxMade /\ made' = made + 1
      /\ dirs' = [dirs EXCEPT ![use[a].name] = [id |-> made + 1, lock |-> FALSE]]
  BY DEF MakesDir
<1>1. /\ \A c \in App : c # a => use'[c] = use[c]
      /\ use'[a].at = "using" /\ use'[a].name = use[a].name /\ use'[a].id = use[a].id
      /\ use'[a].why = use[a].why /\ use'[a].good = FALSE
      /\ fresh' \in SUBSET fresh /\ made' = made + 1 /\ windows' = windows
  BY <1>0 DEF Becomes, Still
<1>2. /\ \A n \in Name : n # use[a].name => dirs'[n] = dirs[n]
      /\ dirs'[use[a].name] # NoDir /\ dirs'[use[a].name].id = made + 1
      /\ dirs'[use[a].name].lock = FALSE
  <2>1. [id |-> made + 1, lock |-> FALSE] \in [id : Nat, lock : BOOLEAN]
    BY DEF DInv, Types, RuntimeTypeOK
  <2>2. [id |-> made + 1, lock |-> FALSE] # NoDir
    BY <2>1, RuntimeAssumption
  <2> QED BY <1>0, <1>a, <1>b, <2>2
<1>3. \A i \in 1..MaxMade : holder'[i] = IF i = use[a].id THEN a ELSE holder[i]
  BY <1>b
<1>4. /\ Known(a, a) /\ Nobody \notin App /\ made \in 0..MaxMade /\ MaxMade \in Nat
      /\ use'[a].name \in Name
  <2>1. Known(a, a)
    BY KnownOf
  <2>2. Nobody \notin App /\ MaxMade \in Nat
    BY DEF RuntimeAssumption
  <2>3. made \in 0..MaxMade
    BY DEF DInv, Types, RuntimeTypeOK
  <2>4. use'[a].name \in Name
    BY <1>1, KnownOf, Zenon DEF Known
  <2> QED BY <2>1, <2>2, <2>3, <2>4
<1>5. Types'
  <2>1. \A n \in Name : dirs'[n] # NoDir => dirs'[n] \in [id : 1..MaxMade, lock : BOOLEAN]
    BY <1>0, <1>a, <1>b, <1>2, <1>4 DEF DInv, Types, RuntimeTypeOK
  <2>2. holder' \in [1..MaxMade -> App \cup {Nobody}]
    BY <1>b DEF Released
  <2>3. use' \in [App -> [at : Ats, name : Name, id : 0..MaxMade, why : Whys, good : BOOLEAN]]
    BY DEF Becomes, Uses
  <2>4. made' \in 0..MaxMade /\ fresh' \subseteq Name
    <3>1. fresh \subseteq Name
      BY Zenon DEF DInv, Types, RuntimeTypeOK
    <3> QED BY <1>0, <1>1, <1>4, <3>1
  <2>5. \A i \in 1..MaxMade : i > made' => holder'[i] = Nobody
    BY <1>1, <1>3, <1>4 DEF DInv, Types, DirOf, Known, IdOf
  <2>6. dirs' = [n \in Name |-> dirs'[n]]
    BY <1>0, <1>b
  <2>7. windows' \in BOOLEAN
    BY <1>1 DEF DInv, Types
  <2> QED BY <2>1, <2>2, <2>3, <2>4, <2>5, <2>6, <2>7 DEF Types, RuntimeTypeOK, Ats, Whys
<1>6. ASSUME NEW c \in App PROVE Alone(c)'
  <2>1. /\ ClaimOf(c) /\ ClaimOf(a) /\ IdOf(c) /\ IdOf(a) /\ Plain(c) /\ Plain(a) /\ MadeOf(c) /\ MadeOf(a)
        /\ CreatedOf(c) /\ CreatedOf(a) /\ MadeWith(c, a) /\ GoodWith(c, a)
        /\ OneOf(a, use[c].name) /\ SameDir(use[c].name, use'[a].name) /\ DirOf(use[a].name) /\ DirOf(use'[a].name)
        /\ use[c].name \in Name /\ use[c].id \in 0..MaxMade /\ use[a].id \in 0..MaxMade
        /\ (dirs[use[c].name] # NoDir => dirs[use[c].name].id \in 1..MaxMade)
        /\ (dirs[use[a].name] # NoDir => dirs[use[a].name].id \in 1..MaxMade)
    BY <1>4, KnownOf DEF DInv, Known
  <2>2. ClaimOf(c)'
    <3>1. CASE c = a
      BY <1>1, <2>1, <3>1 DEF ClaimOf, Claimed, Touching
    <3>2. CASE c # a
      BY <1>1, <2>1, <3>2 DEF ClaimOf, Claimed
    <3> QED BY <3>1, <3>2
  <2>3. IdOf(c)'
    <3>1. CASE c = a
      BY <1>1, <1>4, <2>1, <3>1 DEF IdOf, Touching, DirOf, Locked
    <3>2. CASE c # a
      BY <1>1, <1>4, <2>1, <3>2 DEF IdOf
    <3> QED BY <3>1, <3>2
  <2>4. Plain(c)'
    BY <1>1, <2>1 DEF Plain
  <2>5. MadeOf(c)'
    <3>1. CASE c = a
      BY <1>1, <1>2, <1>3, <1>4, <3>1 DEF MadeOf, Locked, DInv, Types
    <3>2. CASE c # a
      <4> SUFFICES ASSUME use[c].at = "made"
                   PROVE  ~Locked(use[c].name)' /\ (dirs'[use[c].name] # NoDir => holder'[dirs'[use[c].name].id] = Nobody)
        BY <1>1, <3>2 DEF MadeOf
      <4>1. /\ use[c].name \in Name /\ Claimed(c) /\ ~Locked(use[c].name) /\ ~On(a, use[c].name, Touching)
            /\ dirs[use[c].name] # NoDir => /\ dirs[use[c].name].id \in 1..MaxMade
                                            /\ holder[dirs[use[c].name].id] = Nobody
        BY <2>1 DEF MadeOf, MadeWith, Claimed
      <4>2. ~(Claimed(a) /\ use[a].name = use[c].name)
        BY <2>1, <3>2, <4>1, OneClaim
      <4>3. dirs'[use[c].name] = dirs[use[c].name]
        BY <1>2, <1>4, <4>1, <4>2 DEF On, Touching, Claimed
      <4>4. dirs[use[c].name] # NoDir => holder'[dirs[use[c].name].id] = Nobody
        BY <1>3, <1>4, <2>1, <4>1, <4>2 DEF OneOf, On, Touching, SameDir, Claimed, Locked
      <4> QED BY <1>1, <3>2, <4>1, <4>3, <4>4 DEF Locked
    <3> QED BY <3>1, <3>2
  <2>6. CreatedOf(c)'
    <3>1. CASE c = a
      BY <1>1, <1>2, <1>4, <2>1, <3>1 DEF CreatedOf
    <3>2. CASE c # a
      BY <1>1, <1>2, <1>4, <2>1, <3>2 DEF CreatedOf, ClaimOf, Claimed
    <3> QED BY <3>1, <3>2
  <2>7. GoodOf(c)'
    <3>1. CASE c = a
      BY <1>1, <2>1, <3>1 DEF GoodOf, Plain
    <3>2. CASE c # a
      <4> SUFFICES ASSUME use[c].good PROVE InPlace(c)'
        BY <1>1, <3>2 DEF GoodOf
      <4>1. /\ use[c].at = "using" /\ Claimed(c) /\ use[c].name \in Name /\ use[c].id \in 1..MaxMade
            /\ dirs[use[c].name] # NoDir /\ dirs[use[c].name].lock /\ dirs[use[c].name].id = use[c].id
            /\ holder[use[c].id] = c /\ Locked(use[c].name)
        BY GoodFacts DEF Locked
      <4>2. ~On(a, use[c].name, Removing)
        BY <2>1 DEF GoodWith
      <4>3. dirs'[use[c].name] # NoDir /\ dirs'[use[c].name].id = use[c].id /\ dirs'[use[c].name].lock
        BY <1>2, <4>1, <4>2 DEF On, Removing
      <4>4. holder'[use[c].id] = c
        BY <1>3, <1>4, <2>1, <3>2, <4>1
      <4> QED BY <1>1, <3>2, <4>3, <4>4 DEF InPlace, Locked
    <3> QED BY <3>1, <3>2
  <2> QED BY <2>2, <2>3, <2>4, <2>5, <2>6, <2>7 DEF Alone
<1>7. ASSUME NEW c \in App, NEW e \in App PROVE Pair(c, e)'
  <2>1. /\ ClaimOf(c) /\ ClaimOf(a) /\ Plain(c) /\ Plain(a) /\ MadeOf(c) /\ CreatedOf(c)
        /\ MadeWith(c, a) /\ CreatedWith(c, a) /\ GoodWith(c, a)
        /\ MadeWith(a, e) /\ CreatedWith(a, e) /\ YetOf(e, use[a].name)
    BY KnownOf DEF Known
  <2>c. c # a /\ Claimed(c) /\ Claimed(a) => use[c].name # use[a].name
    BY <2>1, OneClaim
  <2>g. use[c].good => /\ use[c].at = "using" /\ Claimed(c) /\ use[c].name \in Name /\ use[c].id \in 1..MaxMade
                       /\ dirs[use[c].name].id = use[c].id /\ holder[use[c].id] = c
    BY GoodFacts
  <2>b. CASE c # a /\ e # a
    <3>1. \A i \in 1..MaxMade : holder[i] = e => holder'[i] = e
      BY <1>3, <1>4, <2>b
    <3> QED BY <1>1, <2>b, <3>1, Bystanders
  <2>3. CASE c = a \/ (c # a /\ e = a)
    <3>a. MadeWith(c, e)'
      <4>1. CASE c = a
        BY <1>1, <4>1 DEF MadeWith
      <4>2. CASE c # a /\ e = a
        BY <1>1, <4>2 DEF MadeWith, On, Touching
      <4> QED BY <2>3, <4>1, <4>2
    <3>b. CreatedWith(c, e)'
      <4>1. CASE c = a
        BY <1>1, <4>1 DEF CreatedWith
      <4>2. CASE c # a /\ e = a
        BY <1>1, <4>2 DEF CreatedWith, On, Touching, Removing
      <4> QED BY <2>3, <4>1, <4>2
    <3>c. GoodWith(c, e)'
      <4>1. CASE c = a
        BY <1>1, <2>1, <4>1 DEF GoodWith, Plain
      <4>2. CASE c # a /\ e = a
        BY <1>1, <4>2 DEF GoodWith, On, Removing
      <4> QED BY <2>3, <4>1, <4>2
    <3> QED BY <3>a, <3>b, <3>c DEF Pair
  <2> QED BY <2>b, <2>3
<1>8. ASSUME NEW n \in Name PROVE DirOf(n)' /\ NotYet(n)' /\ (Unmade(n)' => Unmade(n))
  <2>1. DirOf(n) /\ NotYet(n) /\ DirOf(use'[a].name) /\ NotYet(use'[a].name) /\ ClaimOf(a) /\ Plain(a)
    BY <1>4 DEF DInv, Known
  <2>3. DirOf(n)'
    <3>1. CASE n = use[a].name
      <4>1. dirs'[n] # NoDir => dirs'[n].id \in 1..made'
        BY <1>1, <1>2, <1>3, <1>4, <2>1, <3>1 DEF DirOf
      <4>2. dirs'[n] # NoDir => dirs'[n].lock \in BOOLEAN
        BY <1>1, <1>2, <1>3, <1>4, <2>1, <3>1 DEF DirOf
      <4> QED BY <4>1, <4>2 DEF DirOf
    <3>2. CASE n # use[a].name
      BY <1>1, <1>2, <1>3, <1>4, <2>1, <3>2 DEF DirOf
    <3> QED BY <3>1, <3>2
  <2>4. Unmade(n)' => Unmade(n)
    <3>1. CASE NameOwner[n] = a
      BY <1>1, <2>1, <3>1 DEF Unmade, Touching, Removing, ClaimOf, Claimed
    <3>2. CASE NameOwner[n] # a
      <4>1. NameOwner[n] \in App => use'[NameOwner[n]] = use[NameOwner[n]]
        BY <1>1, <3>2
      <4>2. n \in fresh' => n \in fresh
        BY <1>1, Zenon
      <4> QED BY <4>1, <4>2, Zenon DEF Unmade
    <3> QED BY <3>1, <3>2
  <2>5. NotYet(n)'
    <3>1. CASE n = use[a].name
      BY <1>1, <1>2, <2>1, <2>4, <3>1 DEF NotYet, ClaimOf, Claimed, Unmade, Touching
    <3>2. CASE n # use[a].name
      BY <1>1, <1>2, <2>1, <2>4, <3>2 DEF NotYet
    <3> QED BY <3>1, <3>2
  <2> QED BY <2>3, <2>4, <2>5
<1>9. ASSUME NEW n \in Name, NEW m \in Name PROVE SameDir(n, m)'
  <2>1. DirOf(n) /\ DirOf(m) /\ SameDir(n, m)
    BY DEF DInv
  <2> QED BY <1>1, <1>2, <1>3, <1>4, <2>1 DEF SameDir, DirOf
<1>10. ASSUME NEW c \in App, NEW n \in Name PROVE Passing(c, n)'
  <2>1. /\ IdOf(c) /\ IdOf(a) /\ ClaimOf(a) /\ Plain(a) /\ MadeOf(a) /\ DirOf(n) /\ NotYet(n)
        /\ OneOf(c, n) /\ YetOf(c, n) /\ OneOf(a, n) /\ YetOf(a, n) /\ use[c].id \in 0..MaxMade
        /\ SameDir(n, use[a].name) /\ SameDir(n, use'[a].name) /\ DirOf(use'[a].name)
    BY <1>4, KnownOf DEF DInv, Known, Passing
  <2>2. Unmade(n)' => Unmade(n)
    BY <1>8
  <2>3. OneOf(c, n)'
    <3>1. CASE c = a
      BY <1>1, <1>2, <1>3, <1>4, <2>1, <3>1 DEF OneOf, SameDir, Locked
    <3>2. CASE c # a
      BY <1>1, <1>2, <1>4, <2>1, <3>2 DEF OneOf, IdOf
    <3> QED BY <3>1, <3>2
  <2>4. YetOf(c, n)'
    <3>0. SUFFICES ASSUME Unmade(n)', Unmade(n)
                   PROVE  /\ ~On(c, n, {"judge"})'
                          /\ On(c, n, Removing)' => /\ dirs'[n] # NoDir /\ dirs'[n].id = use'[c].id
                                                    /\ holder'[use'[c].id] = c
      BY <2>2, Zenon DEF YetOf
    <3>1. CASE c = a
      BY <1>1, <3>1 DEF On, Removing
    <3>2. CASE c # a
      <4>1. ~On(c, n, {"judge"})'
        BY <1>1, <2>1, <3>0, <3>2 DEF YetOf, On
      <4>2. ASSUME On(c, n, Removing)
            PROVE  dirs[n] # NoDir /\ dirs[n].id = use[c].id /\ holder[use[c].id] = c /\ use[c].id \in 1..MaxMade
        BY <1>4, <2>1, <3>0, <4>2 DEF YetOf, DirOf
      <4>3. ASSUME On(c, n, Removing)
            PROVE  dirs'[n] # NoDir /\ dirs'[n].id = use[c].id
        <5>1. CASE n = use[a].name
          BY <1>1, <1>2, <2>1, <3>0, <3>2, <4>2, <4>3, <5>1 DEF YetOf, On, Removing
        <5>2. CASE n # use[a].name
          BY <1>2, <4>2, <4>3, <5>2
        <5> QED BY <5>1, <5>2
      <4>4. ASSUME On(c, n, Removing)
            PROVE  holder'[use[c].id] = c
        BY <1>3, <1>4, <2>1, <3>2, <4>2, <4>4
      <4> QED BY <1>1, <3>2, <4>1, <4>3, <4>4 DEF On
    <3> QED BY <3>1, <3>2
  <2> QED BY <2>3, <2>4 DEF Passing
<1> QED BY <1>5, <1>6, <1>7, <1>8, <1>9, <1>10 DEF DInv

\* An App creates its lock file (Linux).
LEMMA CreatedKeeps ==
  ASSUME RuntimeAssumption, DInv, NEW a \in App,
         ~windows, use[a].at = "made", dirs[use[a].name] # NoDir, ~Locked(use[a].name),
         Becomes(a, "created", use[a].name, dirs[use[a].name].id, use[a].why, FALSE),
         dirs' = [dirs EXCEPT ![use[a].name].lock = TRUE], UNCHANGED <<holder, fresh>>, Still
  PROVE  DInv'
<1>a. use[a].name \in Name /\ use[a].id \in 0..MaxMade /\ (dirs[use[a].name] # NoDir => dirs[use[a].name] \in [id : 1..MaxMade, lock : BOOLEAN])
  BY KnownOf DEF Known
<1>b. dirs = [n \in Name |-> dirs[n]] /\ holder \in [1..MaxMade -> App \cup {Nobody}]
  BY DEF DInv, Types, RuntimeTypeOK
<1>1. /\ \A c \in App : c # a => use'[c] = use[c]
      /\ use'[a].at = "created" /\ use'[a].name = use[a].name /\ use'[a].id = dirs[use[a].name].id
      /\ use'[a].why = use[a].why /\ use'[a].good = FALSE
      /\ fresh' \in SUBSET fresh /\ made' = made /\ windows' = windows
  BY DEF Becomes, Still
<1>2. /\ \A n \in Name : n # use[a].name => dirs'[n] = dirs[n]
      /\ dirs'[use[a].name] # NoDir /\ dirs'[use[a].name].id = dirs[use[a].name].id
      /\ dirs'[use[a].name].lock = TRUE
  <2>1. dirs[use[a].name] \in [id : 1..MaxMade, lock : BOOLEAN]
    BY <1>a
  <2>2. /\ dirs'[use[a].name] = [dirs[use[a].name] EXCEPT !.lock = TRUE]
        /\ \A n \in Name : n # use[a].name => dirs'[n] = dirs[n]
    BY <1>a, <1>b
  <2>3. dirs'[use[a].name] \in [id : 1..MaxMade, lock : BOOLEAN]
    BY <2>1, <2>2, LockSet
  <2>4. dirs'[use[a].name] \in [id : Nat, lock : BOOLEAN]
    BY <2>3, RuntimeAssumption
  <2>5. dirs'[use[a].name] # NoDir
    BY <2>4, RuntimeAssumption
  <2> QED BY <2>1, <2>2, <2>5
<1>3. \A i \in 1..MaxMade : holder'[i] = holder[i]
  BY <1>b
<1>4. /\ Known(a, a) /\ Nobody \notin App /\ made \in 0..MaxMade /\ MaxMade \in Nat
      /\ use'[a].name \in Name
  <2>1. Known(a, a)
    BY KnownOf
  <2>2. Nobody \notin App /\ MaxMade \in Nat
    BY DEF RuntimeAssumption
  <2>3. made \in 0..MaxMade
    BY DEF DInv, Types, RuntimeTypeOK
  <2>4. use'[a].name \in Name
    BY <1>1, KnownOf, Zenon DEF Known
  <2> QED BY <2>1, <2>2, <2>3, <2>4
<1>5. Types'
  <2>1. \A n \in Name : dirs'[n] # NoDir => dirs'[n] \in [id : 1..MaxMade, lock : BOOLEAN]
    BY <1>a, <1>b, <1>2, <1>4 DEF DInv, Types, RuntimeTypeOK
  <2>2. holder' \in [1..MaxMade -> App \cup {Nobody}]
    BY <1>b DEF Released
  <2>3. use' \in [App -> [at : Ats, name : Name, id : 0..MaxMade, why : Whys, good : BOOLEAN]]
    BY DEF Becomes, Uses
  <2>4. made' \in 0..MaxMade /\ fresh' \subseteq Name
    <3>1. fresh \subseteq Name
      BY Zenon DEF DInv, Types, RuntimeTypeOK
    <3> QED BY <1>1, <1>4, <3>1
  <2>5. \A i \in 1..MaxMade : i > made' => holder'[i] = Nobody
    BY <1>1, <1>3, <1>4 DEF DInv, Types, DirOf, Known, IdOf
  <2>6. dirs' = [n \in Name |-> dirs'[n]]
    BY <1>b
  <2>7. windows' \in BOOLEAN
    BY <1>1 DEF DInv, Types
  <2> QED BY <2>1, <2>2, <2>3, <2>4, <2>5, <2>6, <2>7 DEF Types, RuntimeTypeOK, Ats, Whys
<1>6. ASSUME NEW c \in App PROVE Alone(c)'
  <2>1. /\ ClaimOf(c) /\ ClaimOf(a) /\ IdOf(c) /\ IdOf(a) /\ Plain(c) /\ Plain(a) /\ MadeOf(c) /\ MadeOf(a)
        /\ CreatedOf(c) /\ CreatedOf(a) /\ MadeWith(c, a) /\ GoodWith(c, a)
        /\ OneOf(a, use[c].name) /\ SameDir(use[c].name, use'[a].name) /\ DirOf(use[a].name) /\ DirOf(use'[a].name)
        /\ use[c].name \in Name /\ use[c].id \in 0..MaxMade /\ use[a].id \in 0..MaxMade
        /\ (dirs[use[c].name] # NoDir => dirs[use[c].name].id \in 1..MaxMade)
        /\ (dirs[use[a].name] # NoDir => dirs[use[a].name].id \in 1..MaxMade)
    BY <1>4, KnownOf DEF DInv, Known
  <2>2. ClaimOf(c)'
    <3>1. CASE c = a
      BY <1>1, <2>1, <3>1 DEF ClaimOf, Claimed, Touching
    <3>2. CASE c # a
      BY <1>1, <2>1, <3>2 DEF ClaimOf, Claimed
    <3> QED BY <3>1, <3>2
  <2>3. IdOf(c)'
    <3>1. CASE c = a
      BY <1>1, <1>4, <2>1, <3>1 DEF IdOf, Touching, DirOf, Locked
    <3>2. CASE c # a
      BY <1>1, <1>4, <2>1, <3>2 DEF IdOf
    <3> QED BY <3>1, <3>2
  <2>4. Plain(c)'
    BY <1>1, <2>1 DEF Plain
  <2>5. MadeOf(c)'
    <3>1. CASE c = a
      BY <1>1, <3>1 DEF MadeOf
    <3>2. CASE c # a
      <4> SUFFICES ASSUME use[c].at = "made"
                   PROVE  ~Locked(use[c].name)' /\ (dirs'[use[c].name] # NoDir => holder'[dirs'[use[c].name].id] = Nobody)
        BY <1>1, <3>2 DEF MadeOf
      <4>1. /\ use[c].name \in Name /\ Claimed(c) /\ ~Locked(use[c].name) /\ ~On(a, use[c].name, Touching)
            /\ dirs[use[c].name] # NoDir => /\ dirs[use[c].name].id \in 1..MaxMade
                                            /\ holder[dirs[use[c].name].id] = Nobody
        BY <2>1 DEF MadeOf, MadeWith, Claimed
      <4>2. ~(Claimed(a) /\ use[a].name = use[c].name)
        BY <2>1, <3>2, <4>1, OneClaim
      <4>3. dirs'[use[c].name] = dirs[use[c].name]
        BY <1>2, <1>4, <4>1, <4>2 DEF On, Touching, Claimed
      <4>4. dirs[use[c].name] # NoDir => holder'[dirs[use[c].name].id] = Nobody
        BY <1>3, <1>4, <2>1, <4>1, <4>2 DEF OneOf, On, Touching, SameDir, Claimed, Locked
      <4> QED BY <1>1, <3>2, <4>1, <4>3, <4>4 DEF Locked
    <3> QED BY <3>1, <3>2
  <2>6. CreatedOf(c)'
    <3>1. CASE c = a
      BY <1>1, <1>2, <1>4, <2>1, <3>1 DEF CreatedOf
    <3>2. CASE c # a
      BY <1>1, <1>2, <1>4, <2>1, <3>2 DEF CreatedOf, ClaimOf, Claimed
    <3> QED BY <3>1, <3>2
  <2>7. GoodOf(c)'
    <3>1. CASE c = a
      BY <1>1, <2>1, <3>1 DEF GoodOf, Plain
    <3>2. CASE c # a
      <4> SUFFICES ASSUME use[c].good PROVE InPlace(c)'
        BY <1>1, <3>2 DEF GoodOf
      <4>1. /\ use[c].at = "using" /\ Claimed(c) /\ use[c].name \in Name /\ use[c].id \in 1..MaxMade
            /\ dirs[use[c].name] # NoDir /\ dirs[use[c].name].lock /\ dirs[use[c].name].id = use[c].id
            /\ holder[use[c].id] = c /\ Locked(use[c].name)
        BY GoodFacts DEF Locked
      <4>2. ~On(a, use[c].name, Removing)
        BY <2>1 DEF GoodWith
      <4>3. dirs'[use[c].name] # NoDir /\ dirs'[use[c].name].id = use[c].id /\ dirs'[use[c].name].lock
        BY <1>2, <4>1, <4>2 DEF On, Removing
      <4>4. holder'[use[c].id] = c
        BY <1>3, <1>4, <2>1, <3>2, <4>1
      <4> QED BY <1>1, <3>2, <4>3, <4>4 DEF InPlace, Locked
    <3> QED BY <3>1, <3>2
  <2> QED BY <2>2, <2>3, <2>4, <2>5, <2>6, <2>7 DEF Alone
<1>7. ASSUME NEW c \in App, NEW e \in App PROVE Pair(c, e)'
  <2>1. /\ ClaimOf(c) /\ ClaimOf(a) /\ Plain(c) /\ Plain(a) /\ MadeOf(c) /\ CreatedOf(c)
        /\ MadeWith(c, a) /\ CreatedWith(c, a) /\ GoodWith(c, a)
        /\ MadeWith(a, e) /\ CreatedWith(a, e) /\ YetOf(e, use[a].name)
    BY KnownOf DEF Known
  <2>c. c # a /\ Claimed(c) /\ Claimed(a) => use[c].name # use[a].name
    BY <2>1, OneClaim
  <2>g. use[c].good => /\ use[c].at = "using" /\ Claimed(c) /\ use[c].name \in Name /\ use[c].id \in 1..MaxMade
                       /\ dirs[use[c].name].id = use[c].id /\ holder[use[c].id] = c
    BY GoodFacts
  <2>b. CASE c # a /\ e # a
    <3>1. \A i \in 1..MaxMade : holder[i] = e => holder'[i] = e
      BY <1>3, <1>4, <2>b
    <3> QED BY <1>1, <2>b, <3>1, Bystanders
  <2>3. CASE c = a \/ (c # a /\ e = a)
    <3>a. MadeWith(c, e)'
      <4>1. CASE c = a
        BY <1>1, <4>1 DEF MadeWith
      <4>2. CASE c # a /\ e = a
        BY <1>1, <4>2 DEF MadeWith, On, Touching
      <4> QED BY <2>3, <4>1, <4>2
    <3>b. CreatedWith(c, e)'
      <4>1. CASE c = a
        BY <1>1, <2>1, <4>1 DEF CreatedWith, MadeWith, On, Touching, Removing
      <4>2. CASE c # a /\ e = a
        BY <1>1, <4>2 DEF CreatedWith, On, Touching, Removing
      <4> QED BY <2>3, <4>1, <4>2
    <3>c. GoodWith(c, e)'
      <4>1. CASE c = a
        BY <1>1, <2>1, <4>1 DEF GoodWith, Plain
      <4>2. CASE c # a /\ e = a
        BY <1>1, <4>2 DEF GoodWith, On, Removing
      <4> QED BY <2>3, <4>1, <4>2
    <3> QED BY <3>a, <3>b, <3>c DEF Pair
  <2> QED BY <2>b, <2>3
<1>8. ASSUME NEW n \in Name PROVE DirOf(n)' /\ NotYet(n)' /\ (Unmade(n)' => Unmade(n))
  <2>1. DirOf(n) /\ NotYet(n) /\ DirOf(use'[a].name) /\ NotYet(use'[a].name) /\ ClaimOf(a) /\ Plain(a)
    BY <1>4 DEF DInv, Known
  <2>3. DirOf(n)'
    <3>1. CASE n = use[a].name
      <4>1. dirs'[n] # NoDir => dirs'[n].id \in 1..made'
        BY <1>1, <1>2, <1>3, <1>4, <2>1, <3>1 DEF DirOf
      <4>2. dirs'[n] # NoDir => dirs'[n].lock \in BOOLEAN
        BY <1>1, <1>2, <1>3, <1>4, <2>1, <3>1 DEF DirOf
      <4> QED BY <4>1, <4>2 DEF DirOf
    <3>2. CASE n # use[a].name
      BY <1>1, <1>2, <1>3, <1>4, <2>1, <3>2 DEF DirOf
    <3> QED BY <3>1, <3>2
  <2>4. Unmade(n)' => Unmade(n)
    <3>1. CASE NameOwner[n] = a
      BY <1>1, <2>1, <3>1 DEF Unmade, Touching, Removing, ClaimOf, Claimed
    <3>2. CASE NameOwner[n] # a
      <4>1. NameOwner[n] \in App => use'[NameOwner[n]] = use[NameOwner[n]]
        BY <1>1, <3>2
      <4>2. n \in fresh' => n \in fresh
        BY <1>1, Zenon
      <4> QED BY <4>1, <4>2, Zenon DEF Unmade
    <3> QED BY <3>1, <3>2
  <2>5. NotYet(n)'
    <3>1. CASE n = use[a].name
      BY <1>1, <1>2, <2>1, <2>4, <3>1 DEF NotYet, ClaimOf, Claimed, Unmade, Touching
    <3>2. CASE n # use[a].name
      BY <1>1, <1>2, <2>1, <2>4, <3>2, Zenon DEF NotYet
    <3> QED BY <3>1, <3>2
  <2> QED BY <2>3, <2>4, <2>5
<1>9. ASSUME NEW n \in Name, NEW m \in Name PROVE SameDir(n, m)'
  <2>1. DirOf(n) /\ DirOf(m) /\ SameDir(n, m)
    BY DEF DInv
  <2> QED BY <1>1, <1>2, <1>3, <1>4, <2>1 DEF SameDir, DirOf
<1>10. ASSUME NEW c \in App, NEW n \in Name PROVE Passing(c, n)'
  <2>1. /\ IdOf(c) /\ IdOf(a) /\ ClaimOf(a) /\ Plain(a) /\ MadeOf(a) /\ DirOf(n) /\ NotYet(n)
        /\ OneOf(c, n) /\ YetOf(c, n) /\ OneOf(a, n) /\ YetOf(a, n) /\ use[c].id \in 0..MaxMade
        /\ SameDir(n, use[a].name) /\ SameDir(n, use'[a].name) /\ DirOf(use'[a].name)
    BY <1>4, KnownOf DEF DInv, Known, Passing
  <2>2. Unmade(n)' => Unmade(n)
    BY <1>8
  <2>3. OneOf(c, n)'
    <3>1. CASE c = a
      BY <1>1, <1>2, <1>3, <1>4, <2>1, <3>1 DEF OneOf, SameDir, Locked
    <3>2. CASE c # a
      BY <1>1, <1>2, <1>4, <2>1, <3>2 DEF OneOf, IdOf
    <3> QED BY <3>1, <3>2
  <2>4. YetOf(c, n)'
    <3>0. SUFFICES ASSUME Unmade(n)', Unmade(n)
                   PROVE  /\ ~On(c, n, {"judge"})'
                          /\ On(c, n, Removing)' => /\ dirs'[n] # NoDir /\ dirs'[n].id = use'[c].id
                                                    /\ holder'[use'[c].id] = c
      BY <2>2, Zenon DEF YetOf
    <3>1. CASE c = a
      BY <1>1, <3>1 DEF On, Removing
    <3>2. CASE c # a
      <4>1. ~On(c, n, {"judge"})'
        BY <1>1, <2>1, <3>0, <3>2 DEF YetOf, On
      <4>2. ASSUME On(c, n, Removing)
            PROVE  dirs[n] # NoDir /\ dirs[n].id = use[c].id /\ holder[use[c].id] = c /\ use[c].id \in 1..MaxMade
        BY <1>4, <2>1, <3>0, <4>2 DEF YetOf, DirOf
      <4>3. ASSUME On(c, n, Removing)
            PROVE  dirs'[n] # NoDir /\ dirs'[n].id = use[c].id
        <5>1. CASE n = use[a].name
          BY <1>1, <1>2, <2>1, <3>0, <3>2, <4>2, <4>3, <5>1 DEF YetOf, On, Removing
        <5>2. CASE n # use[a].name
          BY <1>2, <4>2, <4>3, <5>2
        <5> QED BY <5>1, <5>2
      <4>4. ASSUME On(c, n, Removing)
            PROVE  holder'[use[c].id] = c
        BY <1>3, <1>4, <2>1, <3>2, <4>2, <4>4
      <4> QED BY <1>1, <3>2, <4>1, <4>3, <4>4 DEF On
    <3> QED BY <3>1, <3>2
  <2> QED BY <2>3, <2>4 DEF Passing
<1> QED BY <1>5, <1>6, <1>7, <1>8, <1>9, <1>10 DEF DInv

\* An App creates its lock file, which is its lock (Windows).
LEMMA OpenedKeeps ==
  ASSUME RuntimeAssumption, DInv, NEW a \in App,
         windows, use[a].at = "made", dirs[use[a].name] # NoDir, ~Locked(use[a].name),
         Becomes(a, "using", use[a].name, dirs[use[a].name].id, use[a].why, TRUE),
         dirs' = [dirs EXCEPT ![use[a].name].lock = TRUE],
         holder' = [holder EXCEPT ![dirs[use[a].name].id] = a], UNCHANGED fresh, Still
  PROVE  DInv'
<1>a. use[a].name \in Name /\ use[a].id \in 0..MaxMade /\ (dirs[use[a].name] # NoDir => dirs[use[a].name] \in [id : 1..MaxMade, lock : BOOLEAN])
  BY KnownOf DEF Known
<1>b. dirs = [n \in Name |-> dirs[n]] /\ holder \in [1..MaxMade -> App \cup {Nobody}]
  BY DEF DInv, Types, RuntimeTypeOK
<1>1. /\ \A c \in App : c # a => use'[c] = use[c]
      /\ use'[a].at = "using" /\ use'[a].name = use[a].name /\ use'[a].id = dirs[use[a].name].id
      /\ use'[a].why = use[a].why /\ use'[a].good = TRUE
      /\ fresh' \in SUBSET fresh /\ made' = made /\ windows' = windows
  BY DEF Becomes, Still
<1>2. /\ \A n \in Name : n # use[a].name => dirs'[n] = dirs[n]
      /\ dirs'[use[a].name] # NoDir /\ dirs'[use[a].name].id = dirs[use[a].name].id
      /\ dirs'[use[a].name].lock = TRUE
  <2>1. dirs[use[a].name] \in [id : 1..MaxMade, lock : BOOLEAN]
    BY <1>a
  <2>2. /\ dirs'[use[a].name] = [dirs[use[a].name] EXCEPT !.lock = TRUE]
        /\ \A n \in Name : n # use[a].name => dirs'[n] = dirs[n]
    BY <1>a, <1>b
  <2>3. dirs'[use[a].name] \in [id : 1..MaxMade, lock : BOOLEAN]
    BY <2>1, <2>2, LockSet
  <2>4. dirs'[use[a].name] \in [id : Nat, lock : BOOLEAN]
    BY <2>3, RuntimeAssumption
  <2>5. dirs'[use[a].name] # NoDir
    BY <2>4, RuntimeAssumption
  <2> QED BY <2>1, <2>2, <2>5
<1>3. \A i \in 1..MaxMade : holder'[i] = IF i = dirs[use[a].name].id THEN a ELSE holder[i]
  BY <1>b
<1>4. /\ Known(a, a) /\ Nobody \notin App /\ made \in 0..MaxMade /\ MaxMade \in Nat
      /\ use'[a].name \in Name
  <2>1. Known(a, a)
    BY KnownOf
  <2>2. Nobody \notin App /\ MaxMade \in Nat
    BY DEF RuntimeAssumption
  <2>3. made \in 0..MaxMade
    BY DEF DInv, Types, RuntimeTypeOK
  <2>4. use'[a].name \in Name
    BY <1>1, KnownOf, Zenon DEF Known
  <2> QED BY <2>1, <2>2, <2>3, <2>4
<1>5. Types'
  <2>1. \A n \in Name : dirs'[n] # NoDir => dirs'[n] \in [id : 1..MaxMade, lock : BOOLEAN]
    BY <1>a, <1>b, <1>2, <1>4 DEF DInv, Types, RuntimeTypeOK
  <2>2. holder' \in [1..MaxMade -> App \cup {Nobody}]
    BY <1>b DEF Released
  <2>3. use' \in [App -> [at : Ats, name : Name, id : 0..MaxMade, why : Whys, good : BOOLEAN]]
    BY DEF Becomes, Uses
  <2>4. made' \in 0..MaxMade /\ fresh' \subseteq Name
    <3>1. fresh \subseteq Name
      BY Zenon DEF DInv, Types, RuntimeTypeOK
    <3> QED BY <1>1, <1>4, <3>1
  <2>5. \A i \in 1..MaxMade : i > made' => holder'[i] = Nobody
    BY <1>1, <1>3, <1>4 DEF DInv, Types, DirOf, Known, IdOf
  <2>6. dirs' = [n \in Name |-> dirs'[n]]
    BY <1>b
  <2>7. windows' \in BOOLEAN
    BY <1>1 DEF DInv, Types
  <2> QED BY <2>1, <2>2, <2>3, <2>4, <2>5, <2>6, <2>7 DEF Types, RuntimeTypeOK, Ats, Whys
<1>6. ASSUME NEW c \in App PROVE Alone(c)'
  <2>1. /\ ClaimOf(c) /\ ClaimOf(a) /\ IdOf(c) /\ IdOf(a) /\ Plain(c) /\ Plain(a) /\ MadeOf(c) /\ MadeOf(a)
        /\ CreatedOf(c) /\ CreatedOf(a) /\ MadeWith(c, a) /\ GoodWith(c, a)
        /\ OneOf(a, use[c].name) /\ SameDir(use[c].name, use'[a].name) /\ DirOf(use[a].name) /\ DirOf(use'[a].name)
        /\ use[c].name \in Name /\ use[c].id \in 0..MaxMade /\ use[a].id \in 0..MaxMade
        /\ (dirs[use[c].name] # NoDir => dirs[use[c].name].id \in 1..MaxMade)
        /\ (dirs[use[a].name] # NoDir => dirs[use[a].name].id \in 1..MaxMade)
    BY <1>4, KnownOf DEF DInv, Known
  <2>2. ClaimOf(c)'
    <3>1. CASE c = a
      BY <1>1, <2>1, <3>1 DEF ClaimOf, Claimed, Touching
    <3>2. CASE c # a
      BY <1>1, <2>1, <3>2 DEF ClaimOf, Claimed
    <3> QED BY <3>1, <3>2
  <2>3. IdOf(c)'
    <3>1. CASE c = a
      BY <1>1, <1>4, <2>1, <3>1 DEF IdOf, Touching, DirOf, Locked
    <3>2. CASE c # a
      BY <1>1, <1>4, <2>1, <3>2 DEF IdOf
    <3> QED BY <3>1, <3>2
  <2>4. Plain(c)'
    BY <1>1, <2>1 DEF Plain
  <2>5. MadeOf(c)'
    <3>1. CASE c = a
      BY <1>1, <3>1 DEF MadeOf
    <3>2. CASE c # a
      <4> SUFFICES ASSUME use[c].at = "made"
                   PROVE  ~Locked(use[c].name)' /\ (dirs'[use[c].name] # NoDir => holder'[dirs'[use[c].name].id] = Nobody)
        BY <1>1, <3>2 DEF MadeOf
      <4>1. /\ use[c].name \in Name /\ Claimed(c) /\ ~Locked(use[c].name) /\ ~On(a, use[c].name, Touching)
            /\ dirs[use[c].name] # NoDir => /\ dirs[use[c].name].id \in 1..MaxMade
                                            /\ holder[dirs[use[c].name].id] = Nobody
        BY <2>1 DEF MadeOf, MadeWith, Claimed
      <4>2. ~(Claimed(a) /\ use[a].name = use[c].name)
        BY <2>1, <3>2, <4>1, OneClaim
      <4>3. dirs'[use[c].name] = dirs[use[c].name]
        BY <1>2, <1>4, <4>1, <4>2 DEF On, Touching, Claimed
      <4>4. dirs[use[c].name] # NoDir => holder'[dirs[use[c].name].id] = Nobody
        BY <1>1, <1>3, <1>4, <2>1, <3>2, <4>1, <4>2 DEF SameDir, Claimed, Locked
      <4> QED BY <1>1, <3>2, <4>1, <4>3, <4>4 DEF Locked
    <3> QED BY <3>1, <3>2
  <2>6. CreatedOf(c)'
    <3>1. CASE c = a
      BY <1>1, <1>2, <1>4, <2>1, <3>1 DEF CreatedOf
    <3>2. CASE c # a
      BY <1>1, <1>2, <1>4, <2>1, <3>2 DEF CreatedOf, ClaimOf, Claimed
    <3> QED BY <3>1, <3>2
  <2>7. GoodOf(c)'
    <3>1. CASE c = a
      BY <1>1, <1>2, <1>3, <1>4, <2>1, <3>1 DEF GoodOf, InPlace, Locked, IdOf
    <3>2. CASE c # a
      <4> SUFFICES ASSUME use[c].good PROVE InPlace(c)'
        BY <1>1, <3>2 DEF GoodOf
      <4>1. /\ use[c].at = "using" /\ Claimed(c) /\ use[c].name \in Name /\ use[c].id \in 1..MaxMade
            /\ dirs[use[c].name] # NoDir /\ dirs[use[c].name].lock /\ dirs[use[c].name].id = use[c].id
            /\ holder[use[c].id] = c /\ Locked(use[c].name)
        BY GoodFacts DEF Locked
      <4>2. ~On(a, use[c].name, Removing)
        BY <2>1 DEF GoodWith
      <4>3. dirs'[use[c].name] # NoDir /\ dirs'[use[c].name].id = use[c].id /\ dirs'[use[c].name].lock
        BY <1>2, <4>1, <4>2 DEF On, Removing
      <4>4. holder'[use[c].id] = c
        BY <1>3, <1>4, <2>1, <3>2, <4>1 DEF MadeOf
      <4> QED BY <1>1, <3>2, <4>3, <4>4 DEF InPlace, Locked
    <3> QED BY <3>1, <3>2
  <2> QED BY <2>2, <2>3, <2>4, <2>5, <2>6, <2>7 DEF Alone
<1>7. ASSUME NEW c \in App, NEW e \in App PROVE Pair(c, e)'
  <2>1. /\ ClaimOf(c) /\ ClaimOf(a) /\ Plain(c) /\ Plain(a) /\ MadeOf(c) /\ CreatedOf(c)
        /\ MadeWith(c, a) /\ CreatedWith(c, a) /\ GoodWith(c, a)
        /\ MadeWith(a, e) /\ CreatedWith(a, e) /\ YetOf(e, use[a].name)
    BY KnownOf DEF Known
  <2>c. c # a /\ Claimed(c) /\ Claimed(a) => use[c].name # use[a].name
    BY <2>1, OneClaim
  <2>g. use[c].good => /\ use[c].at = "using" /\ Claimed(c) /\ use[c].name \in Name /\ use[c].id \in 1..MaxMade
                       /\ dirs[use[c].name].id = use[c].id /\ holder[use[c].id] = c
    BY GoodFacts
  <2>b. CASE c # a /\ e # a
    <3>1. \A i \in 1..MaxMade : holder[i] = e => holder'[i] = e
      BY <1>3, <1>4, <2>b DEF MadeOf, Known
    <3> QED BY <1>1, <2>b, <3>1, Bystanders
  <2>3. CASE c = a \/ (c # a /\ e = a)
    <3>a. MadeWith(c, e)'
      <4>1. CASE c = a
        BY <1>1, <4>1 DEF MadeWith
      <4>2. CASE c # a /\ e = a
        BY <1>1, <4>2 DEF MadeWith, On, Touching
      <4> QED BY <2>3, <4>1, <4>2
    <3>b. CreatedWith(c, e)'
      <4>1. CASE c = a
        BY <1>1, <4>1 DEF CreatedWith
      <4>2. CASE c # a /\ e = a
        BY <1>1, <4>2 DEF CreatedWith, On, Touching, Removing
      <4> QED BY <2>3, <4>1, <4>2
    <3>c. GoodWith(c, e)'
      <4>1. CASE c = a
        BY <1>1, <2>1, <4>1 DEF GoodWith, MadeWith, On, Touching, Removing
      <4>2. CASE c # a /\ e = a
        BY <1>1, <4>2 DEF GoodWith, On, Removing
      <4> QED BY <2>3, <4>1, <4>2
    <3> QED BY <3>a, <3>b, <3>c DEF Pair
  <2> QED BY <2>b, <2>3
<1>8. ASSUME NEW n \in Name PROVE DirOf(n)' /\ NotYet(n)' /\ (Unmade(n)' => Unmade(n))
  <2>1. DirOf(n) /\ NotYet(n) /\ DirOf(use'[a].name) /\ NotYet(use'[a].name) /\ ClaimOf(a) /\ Plain(a)
    BY <1>4 DEF DInv, Known
  <2>3. DirOf(n)'
    <3>1. CASE n = use[a].name
      <4>1. dirs'[n] # NoDir => dirs'[n].id \in 1..made'
        BY <1>1, <1>2, <1>3, <1>4, <2>1, <3>1 DEF DirOf
      <4>2. dirs'[n] # NoDir => dirs'[n].lock \in BOOLEAN
        BY <1>1, <1>2, <1>3, <1>4, <2>1, <3>1 DEF DirOf
      <4> QED BY <4>1, <4>2 DEF DirOf
    <3>2. CASE n # use[a].name
      BY <1>1, <1>2, <1>3, <1>4, <2>1, <3>2 DEF DirOf
    <3> QED BY <3>1, <3>2
  <2>4. Unmade(n)' => Unmade(n)
    <3>1. CASE NameOwner[n] = a
      BY <1>1, <2>1, <3>1 DEF Unmade, Touching, Removing, ClaimOf, Claimed
    <3>2. CASE NameOwner[n] # a
      <4>1. NameOwner[n] \in App => use'[NameOwner[n]] = use[NameOwner[n]]
        BY <1>1, <3>2
      <4>2. n \in fresh' => n \in fresh
        BY <1>1, Zenon
      <4> QED BY <4>1, <4>2, Zenon DEF Unmade
    <3> QED BY <3>1, <3>2
  <2>5. NotYet(n)'
    <3>1. CASE n = use[a].name
      BY <1>1, <1>2, <2>1, <2>4, <3>1 DEF NotYet, ClaimOf, Claimed, Unmade, Touching
    <3>2. CASE n # use[a].name
      BY <1>1, <1>2, <2>1, <2>4, <3>2, Zenon DEF NotYet
    <3> QED BY <3>1, <3>2
  <2> QED BY <2>3, <2>4, <2>5
<1>9. ASSUME NEW n \in Name, NEW m \in Name PROVE SameDir(n, m)'
  <2>1. DirOf(n) /\ DirOf(m) /\ SameDir(n, m)
    BY DEF DInv
  <2> QED BY <1>1, <1>2, <1>3, <1>4, <2>1 DEF SameDir, DirOf
<1>10. ASSUME NEW c \in App, NEW n \in Name PROVE Passing(c, n)'
  <2>1. /\ IdOf(c) /\ IdOf(a) /\ ClaimOf(a) /\ Plain(a) /\ MadeOf(a) /\ DirOf(n) /\ NotYet(n)
        /\ OneOf(c, n) /\ YetOf(c, n) /\ OneOf(a, n) /\ YetOf(a, n) /\ use[c].id \in 0..MaxMade
        /\ SameDir(n, use[a].name) /\ SameDir(n, use'[a].name) /\ DirOf(use'[a].name)
    BY <1>4, KnownOf DEF DInv, Known, Passing
  <2>2. Unmade(n)' => Unmade(n)
    BY <1>8
  <2>3. OneOf(c, n)'
    <3>1. CASE c = a
      BY <1>1, <1>2, <1>3, <1>4, <2>1, <3>1 DEF OneOf, SameDir, Locked
    <3>2. CASE c # a
      BY <1>1, <1>2, <1>4, <2>1, <3>2 DEF OneOf, IdOf
    <3> QED BY <3>1, <3>2
  <2>4. YetOf(c, n)'
    <3>0. SUFFICES ASSUME Unmade(n)', Unmade(n)
                   PROVE  /\ ~On(c, n, {"judge"})'
                          /\ On(c, n, Removing)' => /\ dirs'[n] # NoDir /\ dirs'[n].id = use'[c].id
                                                    /\ holder'[use'[c].id] = c
      BY <2>2, Zenon DEF YetOf
    <3>1. CASE c = a
      BY <1>1, <3>1 DEF On, Removing
    <3>2. CASE c # a
      <4>1. ~On(c, n, {"judge"})'
        BY <1>1, <2>1, <3>0, <3>2 DEF YetOf, On
      <4>2. ASSUME On(c, n, Removing)
            PROVE  dirs[n] # NoDir /\ dirs[n].id = use[c].id /\ holder[use[c].id] = c /\ use[c].id \in 1..MaxMade
        BY <1>4, <2>1, <3>0, <4>2 DEF YetOf, DirOf
      <4>3. ASSUME On(c, n, Removing)
            PROVE  dirs'[n] # NoDir /\ dirs'[n].id = use[c].id
        <5>1. CASE n = use[a].name
          BY <1>1, <1>2, <2>1, <3>0, <3>2, <4>2, <4>3, <5>1 DEF YetOf, On, Removing
        <5>2. CASE n # use[a].name
          BY <1>2, <4>2, <4>3, <5>2
        <5> QED BY <5>1, <5>2
      <4>4. ASSUME On(c, n, Removing)
            PROVE  holder'[use[c].id] = c
        BY <1>3, <1>4, <2>1, <3>2, <4>2, <4>4 DEF MadeOf
      <4> QED BY <1>1, <3>2, <4>1, <4>3, <4>4 DEF On
    <3> QED BY <3>1, <3>2
  <2> QED BY <2>3, <2>4 DEF Passing
<1> QED BY <1>5, <1>6, <1>7, <1>8, <1>9, <1>10 DEF DInv

\* An App locks the lock file it created (Linux).
LEMMA LockedKeeps ==
  ASSUME RuntimeAssumption, DInv, NEW a \in App,
         ~windows, use[a].at = "created", holder[use[a].id] = Nobody,
         Becomes(a, "using", use[a].name, use[a].id, use[a].why,
                 Locked(use[a].name) /\ dirs[use[a].name].id = use[a].id),
         holder' = [holder EXCEPT ![use[a].id] = a], UNCHANGED <<dirs, fresh>>, Still
  PROVE  DInv'
<1>a. use[a].name \in Name /\ use[a].id \in 0..MaxMade /\ (dirs[use[a].name] # NoDir => dirs[use[a].name] \in [id : 1..MaxMade, lock : BOOLEAN])
  BY KnownOf DEF Known
<1>b. dirs = [n \in Name |-> dirs[n]] /\ holder \in [1..MaxMade -> App \cup {Nobody}]
  BY DEF DInv, Types, RuntimeTypeOK
<1>1. /\ \A c \in App : c # a => use'[c] = use[c]
      /\ use'[a].at = "using" /\ use'[a].name = use[a].name /\ use'[a].id = use[a].id
      /\ use'[a].why = use[a].why /\ use'[a].good = (Locked(use[a].name) /\ dirs[use[a].name].id = use[a].id)
      /\ fresh' \in SUBSET fresh /\ made' = made /\ windows' = windows
  BY DEF Becomes, Still
<1>2. \A n \in Name : dirs'[n] = dirs[n]
  BY <1>a, <1>b
<1>3. \A i \in 1..MaxMade : holder'[i] = IF i = use[a].id THEN a ELSE holder[i]
  BY <1>b
<1>4. /\ Known(a, a) /\ Nobody \notin App /\ made \in 0..MaxMade /\ MaxMade \in Nat
      /\ use'[a].name \in Name
  <2>1. Known(a, a)
    BY KnownOf
  <2>2. Nobody \notin App /\ MaxMade \in Nat
    BY DEF RuntimeAssumption
  <2>3. made \in 0..MaxMade
    BY DEF DInv, Types, RuntimeTypeOK
  <2>4. use'[a].name \in Name
    BY <1>1, KnownOf, Zenon DEF Known
  <2> QED BY <2>1, <2>2, <2>3, <2>4
<1>5. Types'
  <2>1. \A n \in Name : dirs'[n] # NoDir => dirs'[n] \in [id : 1..MaxMade, lock : BOOLEAN]
    BY <1>a, <1>b, <1>2, <1>4 DEF DInv, Types, RuntimeTypeOK
  <2>2. holder' \in [1..MaxMade -> App \cup {Nobody}]
    BY <1>b DEF Released
  <2>3. use' \in [App -> [at : Ats, name : Name, id : 0..MaxMade, why : Whys, good : BOOLEAN]]
    BY DEF Becomes, Uses
  <2>4. made' \in 0..MaxMade /\ fresh' \subseteq Name
    <3>1. fresh \subseteq Name
      BY Zenon DEF DInv, Types, RuntimeTypeOK
    <3> QED BY <1>1, <1>4, <3>1
  <2>5. \A i \in 1..MaxMade : i > made' => holder'[i] = Nobody
    BY <1>1, <1>3, <1>4 DEF DInv, Types, DirOf, Known, IdOf
  <2>6. dirs' = [n \in Name |-> dirs'[n]]
    BY <1>b
  <2>7. windows' \in BOOLEAN
    BY <1>1 DEF DInv, Types
  <2> QED BY <2>1, <2>2, <2>3, <2>4, <2>5, <2>6, <2>7 DEF Types, RuntimeTypeOK, Ats, Whys
<1>6. ASSUME NEW c \in App PROVE Alone(c)'
  <2>1. /\ ClaimOf(c) /\ ClaimOf(a) /\ IdOf(c) /\ IdOf(a) /\ Plain(c) /\ Plain(a) /\ MadeOf(c) /\ MadeOf(a)
        /\ CreatedOf(c) /\ CreatedOf(a) /\ MadeWith(c, a) /\ GoodWith(c, a)
        /\ OneOf(a, use[c].name) /\ SameDir(use[c].name, use'[a].name) /\ DirOf(use[a].name) /\ DirOf(use'[a].name)
        /\ use[c].name \in Name /\ use[c].id \in 0..MaxMade /\ use[a].id \in 0..MaxMade
        /\ (dirs[use[c].name] # NoDir => dirs[use[c].name].id \in 1..MaxMade)
        /\ (dirs[use[a].name] # NoDir => dirs[use[a].name].id \in 1..MaxMade)
    BY <1>4, KnownOf DEF DInv, Known
  <2>2. ClaimOf(c)'
    <3>1. CASE c = a
      BY <1>1, <2>1, <3>1 DEF ClaimOf, Claimed, Touching
    <3>2. CASE c # a
      BY <1>1, <2>1, <3>2 DEF ClaimOf, Claimed
    <3> QED BY <3>1, <3>2
  <2>3. IdOf(c)'
    <3>1. CASE c = a
      BY <1>1, <1>4, <2>1, <3>1 DEF IdOf, Touching, DirOf, Locked
    <3>2. CASE c # a
      BY <1>1, <1>4, <2>1, <3>2 DEF IdOf
    <3> QED BY <3>1, <3>2
  <2>4. Plain(c)'
    BY <1>1, <2>1 DEF Plain
  <2>5. MadeOf(c)'
    <3>1. CASE c = a
      BY <1>1, <3>1 DEF MadeOf
    <3>2. CASE c # a
      <4> SUFFICES ASSUME use[c].at = "made"
                   PROVE  ~Locked(use[c].name)' /\ (dirs'[use[c].name] # NoDir => holder'[dirs'[use[c].name].id] = Nobody)
        BY <1>1, <3>2 DEF MadeOf
      <4>1. /\ use[c].name \in Name /\ Claimed(c) /\ ~Locked(use[c].name) /\ ~On(a, use[c].name, Touching)
            /\ dirs[use[c].name] # NoDir => /\ dirs[use[c].name].id \in 1..MaxMade
                                            /\ holder[dirs[use[c].name].id] = Nobody
        BY <2>1 DEF MadeOf, MadeWith, Claimed
      <4>2. ~(Claimed(a) /\ use[a].name = use[c].name)
        BY <2>1, <3>2, <4>1, OneClaim
      <4>3. dirs'[use[c].name] = dirs[use[c].name]
        BY <1>2, <1>4, <4>1, <4>2 DEF On, Touching, Claimed
      <4>4. dirs[use[c].name] # NoDir => holder'[dirs[use[c].name].id] = Nobody
        BY <1>3, <1>4, <2>1, <4>1, <4>2 DEF OneOf, On, Touching, SameDir, Claimed, Locked
      <4> QED BY <1>1, <3>2, <4>1, <4>3, <4>4 DEF Locked
    <3> QED BY <3>1, <3>2
  <2>6. CreatedOf(c)'
    <3>1. CASE c = a
      BY <1>1, <1>2, <1>4, <2>1, <3>1 DEF CreatedOf
    <3>2. CASE c # a
      BY <1>1, <1>2, <1>4, <2>1, <3>2 DEF CreatedOf, ClaimOf, Claimed
    <3> QED BY <3>1, <3>2
  <2>7. GoodOf(c)'
    <3>1. CASE c = a
      <4>1. CASE use'[a].good
        <5>1. /\ Locked(use[a].name) /\ dirs[use[a].name].id = use[a].id /\ use[a].id \in 1..MaxMade
              /\ dirs'[use[a].name] = dirs[use[a].name]
          BY <1>1, <1>2, <1>a, <2>1, <3>1, <4>1 DEF Locked
        <5>2. holder'[use[a].id] = a
          BY <1>3, <5>1
        <5> QED BY <1>1, <3>1, <5>1, <5>2 DEF GoodOf, InPlace, Locked
      <4> QED BY <3>1, <4>1 DEF GoodOf
    <3>2. CASE c # a
      <4> SUFFICES ASSUME use[c].good PROVE InPlace(c)'
        BY <1>1, <3>2 DEF GoodOf
      <4>1. /\ use[c].at = "using" /\ Claimed(c) /\ use[c].name \in Name /\ use[c].id \in 1..MaxMade
            /\ dirs[use[c].name] # NoDir /\ dirs[use[c].name].lock /\ dirs[use[c].name].id = use[c].id
            /\ holder[use[c].id] = c /\ Locked(use[c].name)
        BY GoodFacts DEF Locked
      <4>2. ~On(a, use[c].name, Removing)
        BY <2>1 DEF GoodWith
      <4>3. dirs'[use[c].name] # NoDir /\ dirs'[use[c].name].id = use[c].id /\ dirs'[use[c].name].lock
        BY <1>2, <4>1, <4>2 DEF On, Removing
      <4>4. holder'[use[c].id] = c
        BY <1>3, <1>4, <2>1, <3>2, <4>1
      <4> QED BY <1>1, <3>2, <4>3, <4>4 DEF InPlace, Locked
    <3> QED BY <3>1, <3>2
  <2> QED BY <2>2, <2>3, <2>4, <2>5, <2>6, <2>7 DEF Alone
<1>7. ASSUME NEW c \in App, NEW e \in App PROVE Pair(c, e)'
  <2>1. /\ ClaimOf(c) /\ ClaimOf(a) /\ Plain(c) /\ Plain(a) /\ MadeOf(c) /\ CreatedOf(c)
        /\ MadeWith(c, a) /\ CreatedWith(c, a) /\ GoodWith(c, a)
        /\ MadeWith(a, e) /\ CreatedWith(a, e) /\ YetOf(e, use[a].name)
    BY KnownOf DEF Known
  <2>c. c # a /\ Claimed(c) /\ Claimed(a) => use[c].name # use[a].name
    BY <2>1, OneClaim
  <2>g. use[c].good => /\ use[c].at = "using" /\ Claimed(c) /\ use[c].name \in Name /\ use[c].id \in 1..MaxMade
                       /\ dirs[use[c].name].id = use[c].id /\ holder[use[c].id] = c
    BY GoodFacts
  <2>b. CASE c # a /\ e # a
    <3>1. \A i \in 1..MaxMade : holder[i] = e => holder'[i] = e
      BY <1>3, <1>4, <2>b
    <3> QED BY <1>1, <2>b, <3>1, Bystanders
  <2>3. CASE c = a \/ (c # a /\ e = a)
    <3>a. MadeWith(c, e)'
      <4>1. CASE c = a
        BY <1>1, <4>1 DEF MadeWith
      <4>2. CASE c # a /\ e = a
        BY <1>1, <4>2 DEF MadeWith, On, Touching
      <4> QED BY <2>3, <4>1, <4>2
    <3>b. CreatedWith(c, e)'
      <4>1. CASE c = a
        BY <1>1, <4>1 DEF CreatedWith
      <4>2. CASE c # a /\ e = a
        BY <1>1, <4>2 DEF CreatedWith, On, Touching, Removing
      <4> QED BY <2>3, <4>1, <4>2
    <3>c. GoodWith(c, e)'
      <4>1. CASE c = a
        <5>1. CASE e = a
          BY <1>1, <4>1, <5>1 DEF GoodWith, On, Removing
        <5>2. CASE e # a
          <6>1. CreatedWith(a, e)
            BY <2>1, <4>1
          <6> QED BY <1>1, <1>4, <4>1, <5>2, <6>1 DEF CreatedWith, GoodWith, On, Touching, Removing
        <5> QED BY <5>1, <5>2
      <4>2. CASE c # a /\ e = a
        BY <1>1, <4>2 DEF GoodWith, On, Removing
      <4> QED BY <2>3, <4>1, <4>2
    <3> QED BY <3>a, <3>b, <3>c DEF Pair
  <2> QED BY <2>b, <2>3
<1>8. ASSUME NEW n \in Name PROVE DirOf(n)' /\ NotYet(n)' /\ (Unmade(n)' => Unmade(n))
  <2>1. DirOf(n) /\ NotYet(n) /\ DirOf(use'[a].name) /\ NotYet(use'[a].name) /\ ClaimOf(a) /\ Plain(a)
    BY <1>4 DEF DInv, Known
  <2>3. DirOf(n)'
    <3>1. CASE n = use[a].name
      <4>1. dirs'[n] # NoDir => dirs'[n].id \in 1..made'
        BY <1>1, <1>2, <1>3, <1>4, <2>1, <3>1 DEF DirOf
      <4>2. dirs'[n] # NoDir => dirs'[n].lock \in BOOLEAN
        BY <1>1, <1>2, <1>3, <1>4, <2>1, <3>1 DEF DirOf
      <4> QED BY <4>1, <4>2 DEF DirOf
    <3>2. CASE n # use[a].name
      BY <1>1, <1>2, <1>3, <1>4, <2>1, <3>2 DEF DirOf
    <3> QED BY <3>1, <3>2
  <2>4. Unmade(n)' => Unmade(n)
    <3>1. CASE NameOwner[n] = a
      BY <1>1, <2>1, <3>1 DEF Unmade, Touching, Removing, ClaimOf, Claimed
    <3>2. CASE NameOwner[n] # a
      <4>1. NameOwner[n] \in App => use'[NameOwner[n]] = use[NameOwner[n]]
        BY <1>1, <3>2
      <4>2. n \in fresh' => n \in fresh
        BY <1>1, Zenon
      <4> QED BY <4>1, <4>2, Zenon DEF Unmade
    <3> QED BY <3>1, <3>2
  <2>5. NotYet(n)'
    <3>1. CASE n = use[a].name
      BY <1>1, <1>2, <2>1, <2>4, <3>1 DEF NotYet, ClaimOf, Claimed, Unmade, Touching
    <3>2. CASE n # use[a].name
      BY <1>1, <1>2, <2>1, <2>4, <3>2, Zenon DEF NotYet
    <3> QED BY <3>1, <3>2
  <2> QED BY <2>3, <2>4, <2>5
<1>9. ASSUME NEW n \in Name, NEW m \in Name PROVE SameDir(n, m)'
  <2>1. DirOf(n) /\ DirOf(m) /\ SameDir(n, m)
    BY DEF DInv
  <2> QED BY <1>1, <1>2, <1>3, <1>4, <2>1 DEF SameDir, DirOf
<1>10. ASSUME NEW c \in App, NEW n \in Name PROVE Passing(c, n)'
  <2>1. /\ IdOf(c) /\ IdOf(a) /\ ClaimOf(a) /\ Plain(a) /\ MadeOf(a) /\ DirOf(n) /\ NotYet(n)
        /\ OneOf(c, n) /\ YetOf(c, n) /\ OneOf(a, n) /\ YetOf(a, n) /\ use[c].id \in 0..MaxMade
        /\ SameDir(n, use[a].name) /\ SameDir(n, use'[a].name) /\ DirOf(use'[a].name)
    BY <1>4, KnownOf DEF DInv, Known, Passing
  <2>2. Unmade(n)' => Unmade(n)
    BY <1>8
  <2>3. OneOf(c, n)'
    <3>1. CASE c = a
      BY <1>1, <1>2, <1>3, <1>4, <2>1, <3>1 DEF OneOf, SameDir, Locked
    <3>2. CASE c # a
      BY <1>1, <1>2, <1>4, <2>1, <3>2 DEF OneOf, IdOf
    <3> QED BY <3>1, <3>2
  <2>4. YetOf(c, n)'
    <3>0. SUFFICES ASSUME Unmade(n)', Unmade(n)
                   PROVE  /\ ~On(c, n, {"judge"})'
                          /\ On(c, n, Removing)' => /\ dirs'[n] # NoDir /\ dirs'[n].id = use'[c].id
                                                    /\ holder'[use'[c].id] = c
      BY <2>2, Zenon DEF YetOf
    <3>1. CASE c = a
      BY <1>1, <3>1 DEF On, Removing
    <3>2. CASE c # a
      <4>1. ~On(c, n, {"judge"})'
        BY <1>1, <2>1, <3>0, <3>2 DEF YetOf, On
      <4>2. ASSUME On(c, n, Removing)
            PROVE  dirs[n] # NoDir /\ dirs[n].id = use[c].id /\ holder[use[c].id] = c /\ use[c].id \in 1..MaxMade
        BY <1>4, <2>1, <3>0, <4>2 DEF YetOf, DirOf
      <4>3. ASSUME On(c, n, Removing)
            PROVE  dirs'[n] # NoDir /\ dirs'[n].id = use[c].id
        <5>1. CASE n = use[a].name
          BY <1>1, <1>2, <2>1, <3>0, <3>2, <4>2, <4>3, <5>1 DEF YetOf, On, Removing
        <5>2. CASE n # use[a].name
          BY <1>2, <4>2, <4>3, <5>2
        <5> QED BY <5>1, <5>2
      <4>4. ASSUME On(c, n, Removing)
            PROVE  holder'[use[c].id] = c
        BY <1>3, <1>4, <2>1, <3>2, <4>2, <4>4
      <4> QED BY <1>1, <3>2, <4>1, <4>3, <4>4 DEF On
    <3> QED BY <3>1, <3>2
  <2> QED BY <2>3, <2>4 DEF Passing
<1> QED BY <1>5, <1>6, <1>7, <1>8, <1>9, <1>10 DEF DInv

\* An App is about to remove its own directory.
LEMMA OwnKeeps ==
  ASSUME RuntimeAssumption, DInv, NEW a \in App,
         use[a].at \in {"using", "failed"},
         Becomes(a, "unlink", use[a].name, use[a].id, "own", FALSE),
         holder' = holder \/ holder' = Released(a), UNCHANGED <<dirs, fresh>>, Still
  PROVE  DInv'
<1>a. use[a].name \in Name /\ use[a].id \in 0..MaxMade /\ (dirs[use[a].name] # NoDir => dirs[use[a].name] \in [id : 1..MaxMade, lock : BOOLEAN])
  BY KnownOf DEF Known
<1>b. dirs = [n \in Name |-> dirs[n]] /\ holder \in [1..MaxMade -> App \cup {Nobody}]
  BY DEF DInv, Types, RuntimeTypeOK
<1>1. /\ \A c \in App : c # a => use'[c] = use[c]
      /\ use'[a].at = "unlink" /\ use'[a].name = use[a].name /\ use'[a].id = use[a].id
      /\ use'[a].why = "own" /\ use'[a].good = FALSE
      /\ fresh' \in SUBSET fresh /\ made' = made /\ windows' = windows
  BY DEF Becomes, Still
<1>2. \A n \in Name : dirs'[n] = dirs[n]
  BY <1>a, <1>b
<1>3. \A i \in 1..MaxMade : holder'[i] = holder[i] \/ (i = use[a].id /\ holder[i] = a /\ holder'[i] = Nobody)
  <2>1. CASE holder' = holder
    BY <2>1
  <2>2. CASE holder' = Released(a)
    BY <1>b, <2>2 DEF Released
  <2> QED BY <2>1, <2>2
<1>4. /\ Known(a, a) /\ Nobody \notin App /\ made \in 0..MaxMade /\ MaxMade \in Nat
      /\ use'[a].name \in Name
  <2>1. Known(a, a)
    BY KnownOf
  <2>2. Nobody \notin App /\ MaxMade \in Nat
    BY DEF RuntimeAssumption
  <2>3. made \in 0..MaxMade
    BY DEF DInv, Types, RuntimeTypeOK
  <2>4. use'[a].name \in Name
    BY <1>1, KnownOf, Zenon DEF Known
  <2> QED BY <2>1, <2>2, <2>3, <2>4
<1>5. Types'
  <2>1. \A n \in Name : dirs'[n] # NoDir => dirs'[n] \in [id : 1..MaxMade, lock : BOOLEAN]
    BY <1>a, <1>b, <1>2, <1>4 DEF DInv, Types, RuntimeTypeOK
  <2>2. holder' \in [1..MaxMade -> App \cup {Nobody}]
    BY <1>b DEF Released
  <2>3. use' \in [App -> [at : Ats, name : Name, id : 0..MaxMade, why : Whys, good : BOOLEAN]]
    BY DEF Becomes, Uses
  <2>4. made' \in 0..MaxMade /\ fresh' \subseteq Name
    <3>1. fresh \subseteq Name
      BY Zenon DEF DInv, Types, RuntimeTypeOK
    <3> QED BY <1>1, <1>4, <3>1
  <2>5. \A i \in 1..MaxMade : i > made' => holder'[i] = Nobody
    BY <1>1, <1>3, <1>4 DEF DInv, Types, DirOf, Known, IdOf
  <2>6. dirs' = [n \in Name |-> dirs'[n]]
    BY <1>b
  <2>7. windows' \in BOOLEAN
    BY <1>1 DEF DInv, Types
  <2> QED BY <2>1, <2>2, <2>3, <2>4, <2>5, <2>6, <2>7 DEF Types, RuntimeTypeOK, Ats, Whys
<1>6. ASSUME NEW c \in App PROVE Alone(c)'
  <2>1. /\ ClaimOf(c) /\ ClaimOf(a) /\ IdOf(c) /\ IdOf(a) /\ Plain(c) /\ Plain(a) /\ MadeOf(c) /\ MadeOf(a)
        /\ CreatedOf(c) /\ CreatedOf(a) /\ MadeWith(c, a) /\ GoodWith(c, a)
        /\ OneOf(a, use[c].name) /\ SameDir(use[c].name, use'[a].name) /\ DirOf(use[a].name) /\ DirOf(use'[a].name)
        /\ use[c].name \in Name /\ use[c].id \in 0..MaxMade /\ use[a].id \in 0..MaxMade
        /\ (dirs[use[c].name] # NoDir => dirs[use[c].name].id \in 1..MaxMade)
        /\ (dirs[use[a].name] # NoDir => dirs[use[a].name].id \in 1..MaxMade)
    BY <1>4, KnownOf DEF DInv, Known
  <2>2. ClaimOf(c)'
    <3>1. CASE c = a
      BY <1>1, <2>1, <3>1 DEF ClaimOf, Claimed, Touching
    <3>2. CASE c # a
      BY <1>1, <2>1, <3>2 DEF ClaimOf, Claimed
    <3> QED BY <3>1, <3>2
  <2>3. IdOf(c)'
    <3>1. CASE c = a
      BY <1>1, <1>4, <2>1, <3>1 DEF IdOf, Touching, DirOf, Locked
    <3>2. CASE c # a
      BY <1>1, <1>4, <2>1, <3>2 DEF IdOf
    <3> QED BY <3>1, <3>2
  <2>4. Plain(c)'
    BY <1>1, <2>1 DEF Plain
  <2>5. MadeOf(c)'
    <3>1. CASE c = a
      BY <1>1, <3>1 DEF MadeOf
    <3>2. CASE c # a
      <4> SUFFICES ASSUME use[c].at = "made"
                   PROVE  ~Locked(use[c].name)' /\ (dirs'[use[c].name] # NoDir => holder'[dirs'[use[c].name].id] = Nobody)
        BY <1>1, <3>2 DEF MadeOf
      <4>1. /\ use[c].name \in Name /\ Claimed(c) /\ ~Locked(use[c].name) /\ ~On(a, use[c].name, Touching)
            /\ dirs[use[c].name] # NoDir => /\ dirs[use[c].name].id \in 1..MaxMade
                                            /\ holder[dirs[use[c].name].id] = Nobody
        BY <2>1 DEF MadeOf, MadeWith, Claimed
      <4>2. ~(Claimed(a) /\ use[a].name = use[c].name)
        BY <2>1, <3>2, <4>1, OneClaim
      <4>3. dirs'[use[c].name] = dirs[use[c].name]
        BY <1>2, <1>4, <4>1, <4>2 DEF On, Touching, Claimed
      <4>4. dirs[use[c].name] # NoDir => holder'[dirs[use[c].name].id] = Nobody
        BY <1>3, <1>4, <2>1, <4>1, <4>2 DEF OneOf, On, Touching, SameDir, Claimed, Locked
      <4> QED BY <1>1, <3>2, <4>1, <4>3, <4>4 DEF Locked
    <3> QED BY <3>1, <3>2
  <2>6. CreatedOf(c)'
    <3>1. CASE c = a
      BY <1>1, <1>2, <1>4, <2>1, <3>1 DEF CreatedOf
    <3>2. CASE c # a
      BY <1>1, <1>2, <1>4, <2>1, <3>2 DEF CreatedOf, ClaimOf, Claimed
    <3> QED BY <3>1, <3>2
  <2>7. GoodOf(c)'
    <3>1. CASE c = a
      BY <1>1, <2>1, <3>1 DEF GoodOf, Plain
    <3>2. CASE c # a
      <4> SUFFICES ASSUME use[c].good PROVE InPlace(c)'
        BY <1>1, <3>2 DEF GoodOf
      <4>1. /\ use[c].at = "using" /\ Claimed(c) /\ use[c].name \in Name /\ use[c].id \in 1..MaxMade
            /\ dirs[use[c].name] # NoDir /\ dirs[use[c].name].lock /\ dirs[use[c].name].id = use[c].id
            /\ holder[use[c].id] = c /\ Locked(use[c].name)
        BY GoodFacts DEF Locked
      <4>2. ~On(a, use[c].name, Removing)
        BY <2>1 DEF GoodWith
      <4>3. dirs'[use[c].name] # NoDir /\ dirs'[use[c].name].id = use[c].id /\ dirs'[use[c].name].lock
        BY <1>2, <4>1, <4>2 DEF On, Removing
      <4>4. holder'[use[c].id] = c
        BY <1>3, <1>4, <2>1, <3>2, <4>1
      <4> QED BY <1>1, <3>2, <4>3, <4>4 DEF InPlace, Locked
    <3> QED BY <3>1, <3>2
  <2> QED BY <2>2, <2>3, <2>4, <2>5, <2>6, <2>7 DEF Alone
<1>7. ASSUME NEW c \in App, NEW e \in App PROVE Pair(c, e)'
  <2>1. /\ ClaimOf(c) /\ ClaimOf(a) /\ Plain(c) /\ Plain(a) /\ MadeOf(c) /\ CreatedOf(c)
        /\ MadeWith(c, a) /\ CreatedWith(c, a) /\ GoodWith(c, a)
        /\ MadeWith(a, e) /\ CreatedWith(a, e) /\ YetOf(e, use[a].name)
    BY KnownOf DEF Known
  <2>c. c # a /\ Claimed(c) /\ Claimed(a) => use[c].name # use[a].name
    BY <2>1, OneClaim
  <2>g. use[c].good => /\ use[c].at = "using" /\ Claimed(c) /\ use[c].name \in Name /\ use[c].id \in 1..MaxMade
                       /\ dirs[use[c].name].id = use[c].id /\ holder[use[c].id] = c
    BY GoodFacts
  <2>b. CASE c # a /\ e # a
    <3>1. \A i \in 1..MaxMade : holder[i] = e => holder'[i] = e
      BY <1>3, <1>4, <2>b
    <3> QED BY <1>1, <2>b, <3>1, Bystanders
  <2>3. CASE c = a \/ (c # a /\ e = a)
    <3>a. MadeWith(c, e)'
      <4>1. CASE c = a
        BY <1>1, <4>1 DEF MadeWith
      <4>2. CASE c # a /\ e = a
        BY <1>1, <2>1, <2>c, <4>2 DEF MadeWith, MadeOf, On, Touching, Claimed, Locked
      <4> QED BY <2>3, <4>1, <4>2
    <3>b. CreatedWith(c, e)'
      <4>1. CASE c = a
        BY <1>1, <4>1 DEF CreatedWith
      <4>2. CASE c # a /\ e = a
        BY <1>1, <2>c, <4>2 DEF CreatedWith, On, Claimed
      <4> QED BY <2>3, <4>1, <4>2
    <3>c. GoodWith(c, e)'
      <4>1. CASE c = a
        BY <1>1, <2>1, <4>1 DEF GoodWith, Plain
      <4>2. CASE c # a /\ e = a
        BY <1>1, <2>1, <2>c, <2>g, <4>2 DEF GoodWith, On, Removing, Claimed
      <4> QED BY <2>3, <4>1, <4>2
    <3> QED BY <3>a, <3>b, <3>c DEF Pair
  <2> QED BY <2>b, <2>3
<1>8. ASSUME NEW n \in Name PROVE DirOf(n)' /\ NotYet(n)' /\ (Unmade(n)' => Unmade(n))
  <2>1. DirOf(n) /\ NotYet(n) /\ DirOf(use'[a].name) /\ NotYet(use'[a].name) /\ ClaimOf(a) /\ Plain(a)
    BY <1>4 DEF DInv, Known
  <2>3. DirOf(n)'
    <3>1. CASE n = use[a].name
      <4>1. dirs'[n] # NoDir => dirs'[n].id \in 1..made'
        BY <1>1, <1>2, <1>3, <1>4, <2>1, <3>1 DEF DirOf
      <4>2. dirs'[n] # NoDir => dirs'[n].lock \in BOOLEAN
        BY <1>1, <1>2, <1>3, <1>4, <2>1, <3>1 DEF DirOf
      <4> QED BY <4>1, <4>2 DEF DirOf
    <3>2. CASE n # use[a].name
      BY <1>1, <1>2, <1>3, <1>4, <2>1, <3>2 DEF DirOf
    <3> QED BY <3>1, <3>2
  <2>4. Unmade(n)' => Unmade(n)
    <3>1. CASE NameOwner[n] = a
      BY <1>1, <2>1, <3>1 DEF Unmade, Touching, Removing, ClaimOf, Claimed
    <3>2. CASE NameOwner[n] # a
      <4>1. NameOwner[n] \in App => use'[NameOwner[n]] = use[NameOwner[n]]
        BY <1>1, <3>2
      <4>2. n \in fresh' => n \in fresh
        BY <1>1, Zenon
      <4> QED BY <4>1, <4>2, Zenon DEF Unmade
    <3> QED BY <3>1, <3>2
  <2>5. NotYet(n)'
    <3>1. CASE n = use[a].name
      BY <1>1, <1>2, <2>1, <2>4, <3>1 DEF NotYet, ClaimOf, Claimed, Unmade, Touching
    <3>2. CASE n # use[a].name
      BY <1>1, <1>2, <2>1, <2>4, <3>2, Zenon DEF NotYet
    <3> QED BY <3>1, <3>2
  <2> QED BY <2>3, <2>4, <2>5
<1>9. ASSUME NEW n \in Name, NEW m \in Name PROVE SameDir(n, m)'
  <2>1. DirOf(n) /\ DirOf(m) /\ SameDir(n, m)
    BY DEF DInv
  <2> QED BY <1>1, <1>2, <1>3, <1>4, <2>1 DEF SameDir, DirOf
<1>10. ASSUME NEW c \in App, NEW n \in Name PROVE Passing(c, n)'
  <2>1. /\ IdOf(c) /\ IdOf(a) /\ ClaimOf(a) /\ Plain(a) /\ MadeOf(a) /\ DirOf(n) /\ NotYet(n)
        /\ OneOf(c, n) /\ YetOf(c, n) /\ OneOf(a, n) /\ YetOf(a, n) /\ use[c].id \in 0..MaxMade
        /\ SameDir(n, use[a].name) /\ SameDir(n, use'[a].name) /\ DirOf(use'[a].name)
    BY <1>4, KnownOf DEF DInv, Known, Passing
  <2>2. Unmade(n)' => Unmade(n)
    BY <1>8
  <2>3. OneOf(c, n)'
    <3>1. CASE c = a
      BY <1>1, <1>2, <1>3, <1>4, <2>1, <3>1 DEF OneOf, SameDir, Locked
    <3>2. CASE c # a
      BY <1>1, <1>2, <1>4, <2>1, <3>2 DEF OneOf, IdOf
    <3> QED BY <3>1, <3>2
  <2>4. YetOf(c, n)'
    <3>0. SUFFICES ASSUME Unmade(n)', Unmade(n)
                   PROVE  /\ ~On(c, n, {"judge"})'
                          /\ On(c, n, Removing)' => /\ dirs'[n] # NoDir /\ dirs'[n].id = use'[c].id
                                                    /\ holder'[use'[c].id] = c
      BY <2>2, Zenon DEF YetOf
    <3>1. CASE c = a
      <4>1. CASE n = use[a].name
        <5>1. NameOwner[n] = a /\ n \notin fresh
          BY <2>1, <4>1 DEF ClaimOf, Claimed
        <5> QED BY <1>1, <3>0, <4>1, <5>1 DEF Unmade
      <4>2. CASE n # use[a].name
        BY <1>1, <3>1, <4>2 DEF On
      <4> QED BY <4>1, <4>2
    <3>2. CASE c # a
      <4>1. ~On(c, n, {"judge"})'
        BY <1>1, <2>1, <3>0, <3>2 DEF YetOf, On
      <4>2. ASSUME On(c, n, Removing)
            PROVE  dirs[n] # NoDir /\ dirs[n].id = use[c].id /\ holder[use[c].id] = c /\ use[c].id \in 1..MaxMade
        BY <1>4, <2>1, <3>0, <4>2 DEF YetOf, DirOf
      <4>3. ASSUME On(c, n, Removing)
            PROVE  dirs'[n] # NoDir /\ dirs'[n].id = use[c].id
        <5>1. CASE n = use[a].name
          BY <1>1, <1>2, <2>1, <3>0, <3>2, <4>2, <4>3, <5>1 DEF YetOf, On, Removing
        <5>2. CASE n # use[a].name
          BY <1>2, <4>2, <4>3, <5>2
        <5> QED BY <5>1, <5>2
      <4>4. ASSUME On(c, n, Removing)
            PROVE  holder'[use[c].id] = c
        BY <1>3, <1>4, <2>1, <3>2, <4>2, <4>4
      <4> QED BY <1>1, <3>2, <4>1, <4>3, <4>4 DEF On
    <3> QED BY <3>1, <3>2
  <2> QED BY <2>3, <2>4 DEF Passing
<1> QED BY <1>5, <1>6, <1>7, <1>8, <1>9, <1>10 DEF DInv

\* App a looks at a name that it may take for itself, or sweeps it.
LEMMA LooksKeeps ==
  ASSUME RuntimeAssumption, DInv, NEW a \in App, NEW n \in Name, NEW why \in {"sweep", "first", "again"},
         use[a].at \in {"sweep", "idle", "chosen"}, Looks(a, n, why),
         why # "sweep" => NameOwner[n] = a /\ n \notin fresh' /\ Unmade(n),
         fresh' \in SUBSET fresh, UNCHANGED dirs, Still
  PROVE  DInv'
<1>1. RuntimeTypeOK /\ use \in [App -> Uses] /\ use[a] \in Uses /\ use[a].id \in 0..made /\ use[a].good = FALSE
      /\ why \in Whys
  BY UsesTypes, KnownOf DEF DInv, Types, Uses, Known, IdOf, Plain, RuntimeTypeOK, Whys
<1>2. Locked(n) => dirs[n] \in [id : 1..MaxMade, lock : BOOLEAN] /\ dirs[n].id \in 1..made
                /\ dirs[n].id \in 0..made /\ dirs[n].id \in 0..MaxMade
  BY <1>1 DEF DInv, DirOf, Locked, RuntimeTypeOK
<1>3. CASE ~Locked(n)
  <2> DEFINE to == After(why, dirs[n] = NoDir)
             r  == [use[a] EXCEPT !.name = n, !.why = why, !.at = to]
  <2>1. to \in {"idle", "sweep", "failed", "chosen", "make"} /\ (why = "sweep" => to = "sweep")
    BY DEF After
  <2>2. r \in Uses /\ r.at = to /\ r.name = n /\ r.id = use[a].id /\ r.why = why /\ r.good = FALSE
    BY <1>1, <2>1 DEF Uses, Ats
  <2>3. use' = [use EXCEPT ![a] = r] /\ holder' = holder
    BY <1>3 DEF Looks
  <2> HIDE DEF r, to
  <2>4. Becomes(a, to, n, use[a].id, why, FALSE)
    <3>1. RuntimeTypeOK /\ r \in Uses /\ use' = [use EXCEPT ![a] = r]
      BY <1>1, <2>2, <2>3
    <3>2. Becomes(a, r.at, r.name, r.id, r.why, r.good)
      BY <3>1, RecordBecomes
    <3> QED BY <3>2, <1>1, <2>2, <2>3
  <2> QED BY <1>1, <2>1, <2>3, <2>4, LeavesKeeps
<1>4. CASE Locked(n) /\ ~windows
  <2> DEFINE r == [use[a] EXCEPT !.name = n, !.why = why, !.id = dirs[n].id, !.at = "judge"]
  <2>1. r \in Uses /\ r.at = "judge" /\ r.name = n /\ r.id = dirs[n].id /\ r.why = why /\ r.good = FALSE
    BY <1>1, <1>2, <1>4 DEF Uses, Ats
  <2>2. use' = [use EXCEPT ![a] = r] /\ UNCHANGED holder
    BY <1>4 DEF Looks
  <2> HIDE DEF r
  <2>3. Becomes(a, "judge", n, dirs[n].id, why, FALSE)
    <3>1. RuntimeTypeOK /\ r \in Uses /\ use' = [use EXCEPT ![a] = r]
      BY <1>1, <2>1, <2>2
    <3>2. Becomes(a, r.at, r.name, r.id, r.why, r.good)
      BY <3>1, RecordBecomes
    <3> QED BY <3>2, <1>1, <2>1, <2>2
  <2> QED BY <1>1, <1>4, <2>2, <2>3, JudgeKeeps
<1>5. CASE Locked(n) /\ windows /\ holder[dirs[n].id] = Nobody
  <2> DEFINE r == [use[a] EXCEPT !.name = n, !.why = why, !.id = dirs[n].id, !.at = "unlink"]
  <2>1. r \in Uses /\ r.at = "unlink" /\ r.name = n /\ r.id = dirs[n].id /\ r.why = why /\ r.good = FALSE
    BY <1>1, <1>2, <1>5 DEF Uses, Ats
  <2>2. use' = [use EXCEPT ![a] = r] /\ holder' = [holder EXCEPT ![dirs[n].id] = a]
    BY <1>5 DEF Looks
  <2> HIDE DEF r
  <2>3. Becomes(a, "unlink", n, dirs[n].id, why, FALSE)
    <3>1. RuntimeTypeOK /\ r \in Uses /\ use' = [use EXCEPT ![a] = r]
      BY <1>1, <2>1, <2>2
    <3>2. Becomes(a, r.at, r.name, r.id, r.why, r.good)
      BY <3>1, RecordBecomes
    <3> QED BY <3>2, <1>1, <2>1, <2>2
  <2> QED BY <1>1, <1>2, <1>5, <2>2, <2>3, UnlinkKeeps
<1>6. CASE Locked(n) /\ windows /\ holder[dirs[n].id] # Nobody
  <2> DEFINE to == After(why, FALSE)
             r  == [use[a] EXCEPT !.name = n, !.why = why, !.id = dirs[n].id, !.at = to]
  <2>1. to \in {"idle", "sweep"}
    BY DEF After
  <2>2. r \in Uses /\ r.at = to /\ r.name = n /\ r.id = dirs[n].id /\ r.why = why /\ r.good = FALSE
    BY <1>1, <1>2, <1>6, <2>1 DEF Uses, Ats
  <2>3. use' = [use EXCEPT ![a] = r] /\ holder' = holder
    BY <1>6 DEF Looks
  <2> HIDE DEF r, to
  <2>4. Becomes(a, to, n, dirs[n].id, why, FALSE)
    <3>1. RuntimeTypeOK /\ r \in Uses /\ use' = [use EXCEPT ![a] = r]
      BY <1>1, <2>2, <2>3
    <3>2. Becomes(a, r.at, r.name, r.id, r.why, r.good)
      BY <3>1, RecordBecomes
    <3> QED BY <3>2, <2>2
  <2>5. dirs[n].id \in 0..made /\ why \in Whys /\ to \in {"idle", "sweep", "failed", "chosen", "make"}
        /\ to \notin {"failed", "chosen", "make"}
    BY <1>1, <1>2, <1>6, <2>1
  <2> QED BY <2>3, <2>4, <2>5, LeavesKeeps
<1> QED BY <1>3, <1>4, <1>5, <1>6

\* What is known of an App, and of the name it deals with, before its step.
LEMMA Plainly ==
  ASSUME RuntimeAssumption, DInv, NEW a \in App
  PROVE  /\ RuntimeTypeOK /\ windows \in BOOLEAN /\ use \in [App -> Uses] /\ use[a] \in Uses
         /\ use[a].at \in Ats /\ use[a].name \in Name /\ use[a].id \in 0..made /\ use[a].why \in Whys
         /\ use[a].good \in BOOLEAN /\ (use[a].good => use[a].at = "using")
         /\ Claimed(a) => NameOwner[use[a].name] = a /\ use[a].name \notin fresh
         /\ use[a].at \in {"judge", "created"} => ~windows
         /\ use[a].at = "judge" => use[a].why # "own" /\ use[a].id \in 1..made
         /\ use[a].at = "created" => use[a].id # 0 \/ use[a].why = "own"
BY UsesTypes, KnownOf DEF DInv, Types, RuntimeTypeOK, Known, ClaimOf, IdOf, Plain, Touching

\* Where a look or a removal leads is right for the App that made it.
LEMMA AfterFits ==
  ASSUME RuntimeAssumption, DInv, NEW a \in App, use[a].at \in Touching, NEW free \in BOOLEAN,
         NEW to, to = After(use[a].why, free)
  PROVE  /\ to \in {"idle", "sweep", "chosen", "make"}
         /\ to \in {"chosen", "make"} => /\ NameOwner[use[a].name] = a /\ use[a].name \notin fresh
                                         /\ Unmade(use[a].name)
<1>1. to \in {"chosen", "make"} => use[a].why \in {"first", "again"}
  BY DEF After
<1>2. to \in {"idle", "sweep", "chosen", "make"}
  BY Plainly DEF After, Whys
<1> QED BY <1>1, <1>2, Plainly DEF Claimed, Unmade

\* remove_runtime ends: the App goes where its look led, and its lock file is closed.
LEMMA EndingBecomes ==
  ASSUME RuntimeAssumption, DInv, NEW a \in App, use[a].at \in Touching, Ending(a)
  PROVE  Becomes(a, After(use[a].why, TRUE), use[a].name, use[a].id, use[a].why, FALSE)
<1> DEFINE to == After(use[a].why, TRUE)
           r  == [use[a] EXCEPT !.at = to, !.good = FALSE]
<1>0. to \in {"idle", "sweep", "chosen", "make"}
  BY AfterFits
<1>1. RuntimeTypeOK /\ use[a] \in Uses /\ to \in Ats
  BY <1>0, Plainly DEF Ats
<1>2. r \in Uses /\ r.at = to /\ r.name = use[a].name /\ r.id = use[a].id /\ r.why = use[a].why /\ r.good = FALSE
  BY <1>1 DEF Uses
<1>3. use' = [use EXCEPT ![a] = r]
  BY DEF Ending
<1> HIDE DEF r, to
<1>4. Becomes(a, to, use[a].name, use[a].id, use[a].why, FALSE)
  <2>1. RuntimeTypeOK /\ r \in Uses /\ use' = [use EXCEPT ![a] = r]
    BY <1>1, <1>2, <1>3
  <2>2. Becomes(a, r.at, r.name, r.id, r.why, r.good)
    BY <2>1, RecordBecomes
  <2> QED BY <2>2, <1>1, <1>2, <1>3
<1> QED BY <1>4 DEF to

\* An App ends its look or its removal, and closes the lock file or had none.
LEMMA GoesKeeps ==
  ASSUME RuntimeAssumption, DInv, NEW a \in App, NEW at \in {"idle", "sweep", "failed", "chosen", "make"},
         Goes(a, at), use[a].good = FALSE,
         at \in {"failed", "chosen", "make"} => NameOwner[use[a].name] = a /\ use[a].name \notin fresh,
         at \in {"chosen", "make"} => Unmade(use[a].name),
         UNCHANGED dirs, holder' = holder \/ holder' = Released(a), UNCHANGED fresh, Still
  PROVE  DInv'
<1>1. RuntimeTypeOK /\ at \in Ats
  BY Plainly DEF Ats
<1>2. Becomes(a, at, use[a].name, use[a].id, use[a].why, FALSE)
  BY <1>1, GoesBecomes
<1>3. use[a].name \in Name /\ use[a].id \in 0..made /\ use[a].why \in Whys
  BY Plainly
<1> QED BY <1>2, <1>3, LeavesKeeps

\* The App turns to its own directory, to remove it.
LEMMA OwnBecomes ==
  ASSUME RuntimeTypeOK, NEW a \in App,
         use' = [use EXCEPT ![a] = [@ EXCEPT !.at = "unlink", !.why = "own", !.good = FALSE]]
  PROVE  Becomes(a, "unlink", use[a].name, use[a].id, "own", FALSE)
<1> DEFINE r == [use[a] EXCEPT !.at = "unlink", !.why = "own", !.good = FALSE]
<1>1. r \in Uses /\ r.at = "unlink" /\ r.name = use[a].name /\ r.id = use[a].id /\ r.why = "own" /\ r.good = FALSE
  BY UsesTypes DEF Uses, Ats, Whys
<1>2. use' = [use EXCEPT ![a] = r]
  OBVIOUS
<1> HIDE DEF r
<1> QED BY <1>1, <1>2, RecordBecomes

\* The App stops using its directory, or dies and starts again.
LEMMA StopBecomes ==
  ASSUME RuntimeTypeOK, NEW a \in App, NEW at \in {"idle", "sweep"},
         use' = [use EXCEPT ![a] = [@ EXCEPT !.at = at, !.good = FALSE]]
  PROVE  Becomes(a, at, use[a].name, use[a].id, use[a].why, FALSE)
<1> DEFINE r == [use[a] EXCEPT !.at = at, !.good = FALSE]
<1>1. r \in Uses /\ r.at = at /\ r.name = use[a].name /\ r.id = use[a].id /\ r.why = use[a].why /\ r.good = FALSE
  BY UsesTypes DEF Uses, Ats, Whys
<1>2. use' = [use EXCEPT ![a] = r]
  OBVIOUS
<1> HIDE DEF r
<1> QED BY <1>1, <1>2, RecordBecomes

\* Every step keeps the invariant: one case for every action of process_setup.rs and process_adapter.rs.
LEMMA DirsKept ==
  ASSUME RuntimeAssumption, DInv, [RuntimeNext]_dirVars
  PROVE  DInv'
<1>u. CASE UNCHANGED dirVars
  BY <1>u DEF dirVars, DInv, Types, RuntimeTypeOK, Alone, ClaimOf, Claimed, IdOf, Plain, MadeOf, CreatedOf,
     GoodOf, InPlace, Locked, Pair, MadeWith, CreatedWith, GoodWith, On, DirOf, NotYet, Unmade, SameDir,
     Passing, OneOf, YetOf
<1>n. ASSUME NEW a \in App,
             \/ Swept(a) \/ Claims(a) \/ Judges(a) \/ Unlinks(a) \/ Rmdirs(a) \/ Makes(a)
             \/ CreatesLock(a) \/ Locks(a) \/ SpawnFails(a) \/ Drops(a) \/ AppDies(a)
             \/ \E n \in Name : Sweeps(a, n) \/ Chooses(a, n)
      PROVE  DInv'
  <2>p. /\ RuntimeTypeOK /\ windows \in BOOLEAN /\ use \in [App -> Uses] /\ use[a] \in Uses
        /\ use[a].at \in Ats /\ use[a].name \in Name /\ use[a].id \in 0..made /\ use[a].why \in Whys
        /\ use[a].good \in BOOLEAN /\ (use[a].good => use[a].at = "using")
        /\ Claimed(a) => NameOwner[use[a].name] = a /\ use[a].name \notin fresh
        /\ use[a].at \in {"judge", "created"} => ~windows
        /\ use[a].at = "judge" => use[a].why # "own" /\ use[a].id \in 1..made
        /\ use[a].at = "created" => use[a].id # 0 \/ use[a].why = "own"
        /\ fresh \in SUBSET fresh
    BY Plainly
  <2>1. CASE Swept(a)
    <3>1. Goes(a, "idle") /\ UNCHANGED <<dirs, holder, fresh>> /\ Still /\ use[a].good = FALSE
      BY <2>1, <2>p DEF Swept, Still
    <3> QED BY <3>1, GoesKeeps
  <2>2. CASE Claims(a)
    <3>1. /\ use[a].at = "chosen" /\ Looks(a, use[a].name, "again") /\ UNCHANGED dirs /\ Still
          /\ fresh' = fresh
      BY <2>2 DEF Claims, Still
    <3>2. NameOwner[use[a].name] = a /\ use[a].name \notin fresh' /\ Unmade(use[a].name)
      BY <3>1, <2>p DEF Claimed, Unmade
    <3> QED BY <3>1, <3>2, <2>p, LooksKeeps
  <2>3. CASE Judges(a)
    <3>1. CASE holder[use[a].id] = Nobody
      <4>1. /\ use[a].at = "judge" /\ Goes(a, "unlink") /\ UNCHANGED <<dirs, fresh>> /\ Still
            /\ holder' = [holder EXCEPT ![use[a].id] = a] /\ fresh' \in SUBSET fresh
        BY <2>3, <3>1 DEF Judges, Still, Lock
      <4>2. Becomes(a, "unlink", use[a].name, use[a].id, use[a].why, FALSE)
        BY <4>1, <2>p, GoesBecomes DEF Ats
      <4>3. use[a].why # "sweep" => /\ NameOwner[use[a].name] = a /\ use[a].name \notin fresh'
                                    /\ Unmade(use[a].name)
        BY <4>1, <2>p DEF Claimed, Unmade, Touching, Whys
      <4> QED BY <3>1, <4>1, <4>2, <4>3, <2>p, UnlinkKeeps
    <3>2. CASE holder[use[a].id] # Nobody
      <4> DEFINE to == After(use[a].why, FALSE)
      <4>1. /\ use[a].at = "judge" /\ Goes(a, to) /\ UNCHANGED <<dirs, holder, fresh>> /\ Still
        BY <2>3, <3>2 DEF Judges, Still
      <4>2. to \in {"idle", "sweep", "chosen", "make"}
            /\ (to \in {"chosen", "make"} => NameOwner[use[a].name] = a /\ use[a].name \notin fresh /\ Unmade(use[a].name))
        BY <4>1, AfterFits DEF Touching
      <4> HIDE DEF to
      <4> QED BY <4>1, <4>2, <2>p, GoesKeeps
    <3> QED BY <3>1, <3>2
  <2>4. CASE Unlinks(a)
    <3>1. CASE dirs[use[a].name] = NoDir
      <4> DEFINE to == After(use[a].why, TRUE)
      <4>1. /\ use[a].at \in Touching /\ Ending(a) /\ UNCHANGED <<dirs, fresh>> /\ Still
            /\ holder' = Released(a)
        BY <2>4, <3>1 DEF Unlinks, Ending, Still, Touching
      <4>2. to \in {"idle", "sweep", "chosen", "make"}
            /\ (to \in {"chosen", "make"} => NameOwner[use[a].name] = a /\ use[a].name \notin fresh /\ Unmade(use[a].name))
        BY <4>1, AfterFits
      <4>3. Becomes(a, to, use[a].name, use[a].id, use[a].why, FALSE)
        BY <4>1, EndingBecomes
      <4> HIDE DEF to
      <4>9. /\ use[a].name \in Name /\ use[a].id \in 0..made /\ use[a].why \in Whys
            /\ fresh' \in SUBSET fresh /\ to \in {"idle", "sweep", "failed", "chosen", "make"}
            /\ to \in {"failed", "chosen", "make"} => NameOwner[use[a].name] = a /\ use[a].name \notin fresh'
            /\ to \in {"chosen", "make"} => Unmade(use[a].name)
        BY <4>1, <4>2, <2>p
      <4> QED BY <4>1, <4>3, <4>9, LeavesKeeps
    <3>2. CASE dirs[use[a].name] # NoDir
      <4>1. /\ use[a].at = "unlink" /\ Goes(a, "rmdir") /\ UNCHANGED <<holder, fresh>> /\ Still
            /\ dirs' = [dirs EXCEPT ![use[a].name].lock = FALSE]
        BY <2>4, <3>2 DEF Unlinks, Still
      <4>2. Becomes(a, "rmdir", use[a].name, use[a].id, use[a].why, use[a].good)
        BY <4>1, <2>p, GoesBecomes DEF Ats
      <4> QED BY <3>2, <4>1, <4>2, RmdirKeeps
    <3> QED BY <3>1, <3>2
  <2>5. CASE Rmdirs(a)
    <3>1. use[a].at = "rmdir" /\ use[a].at \in Touching /\ UNCHANGED fresh /\ Still
      BY <2>5 DEF Rmdirs, Still, Touching
    <3>2. CASE ~Locked(use[a].name) /\ dirs' = [dirs EXCEPT ![use[a].name] = NoDir] /\ Ending(a)
      <4> DEFINE to == After(use[a].why, TRUE)
      <4>1. to \in {"idle", "sweep", "chosen", "make"}
            /\ (to \in {"chosen", "make"} => NameOwner[use[a].name] = a /\ use[a].name \notin fresh /\ Unmade(use[a].name))
        BY <3>1, AfterFits
      <4>2. Becomes(a, to, use[a].name, use[a].id, use[a].why, FALSE) /\ holder' = Released(a)
        BY <3>1, <3>2, EndingBecomes DEF Ending
      <4> HIDE DEF to
      <4>9. /\ use[a].name \in Name /\ use[a].id \in 0..made /\ use[a].why \in Whys
            /\ fresh' \in SUBSET fresh /\ to \in {"idle", "sweep", "failed", "chosen", "make"}
            /\ to \in {"failed", "chosen", "make"} => NameOwner[use[a].name] = a /\ use[a].name \notin fresh'
            /\ to \in {"chosen", "make"} => Unmade(use[a].name)
        BY <3>1, <4>1, <2>p
      <4> QED BY <3>1, <3>2, <4>2, <4>9, LeavesKeeps
    <3>3. CASE holder' = Released(a) /\ UNCHANGED dirs /\ Goes(a, After(use[a].why, FALSE))
      <4> DEFINE to == After(use[a].why, FALSE)
      <4>1. to \in {"idle", "sweep", "chosen", "make"}
            /\ (to \in {"chosen", "make"} => NameOwner[use[a].name] = a /\ use[a].name \notin fresh /\ Unmade(use[a].name))
        BY <3>1, AfterFits
      <4>2. Goes(a, to)
        BY <3>3
      <4> HIDE DEF to
      <4> QED BY <3>1, <3>3, <4>1, <4>2, <2>p, GoesKeeps
    <3> QED BY <2>5, <3>2, <3>3 DEF Rmdirs
  <2>6. CASE Makes(a)
    <3>1. CASE dirs[use[a].name] # NoDir
      <4>1. /\ use[a].at = "make" /\ Goes(a, "idle") /\ UNCHANGED <<dirs, holder, fresh>> /\ Still
        BY <2>6, <3>1 DEF Makes, Still
      <4> QED BY <4>1, <2>p, GoesKeeps
    <3>2. CASE dirs[use[a].name] = NoDir
      <4>1. /\ use[a].at = "make" /\ Goes(a, "made") /\ UNCHANGED <<holder, fresh, windows>>
            /\ made < MaxMade /\ made' = made + 1
            /\ dirs' = [dirs EXCEPT ![use[a].name] = [id |-> made + 1, lock |-> FALSE]]
        BY <2>6, <3>2 DEF Makes, MakesDir
      <4>2. Becomes(a, "made", use[a].name, use[a].id, use[a].why, use[a].good)
        BY <4>1, <2>p, GoesBecomes DEF Ats
      <4> QED BY <3>2, <4>1, <4>2, MadeKeeps
    <3> QED BY <3>1, <3>2
  <2>7. CASE CreatesLock(a)
    <3>1. use[a].at = "made" /\ UNCHANGED fresh /\ Still /\ use[a].good = FALSE
      BY <2>7, <2>p DEF CreatesLock, Still
    <3>2. CASE dirs[use[a].name] = NoDir \/ Locked(use[a].name)
      <4>1. Goes(a, "failed") /\ UNCHANGED <<dirs, holder>>
        BY <2>7, <3>2 DEF CreatesLock
      <4>2. NameOwner[use[a].name] = a /\ use[a].name \notin fresh
        BY <3>1, <2>p DEF Claimed
      <4> QED BY <3>1, <4>1, <4>2, GoesKeeps
    <3>3. CASE dirs[use[a].name] # NoDir /\ ~Locked(use[a].name)
      <4> DEFINE to == IF windows THEN "using" ELSE "created"
                 r  == [use[a] EXCEPT !.id = dirs[use[a].name].id, !.good = windows, !.at = to]
      <4>1. /\ dirs' = [dirs EXCEPT ![use[a].name].lock = TRUE] /\ use' = [use EXCEPT ![a] = r]
            /\ holder' = IF windows THEN [holder EXCEPT ![dirs[use[a].name].id] = a] ELSE holder
        BY <2>7, <3>3 DEF CreatesLock
      <4>2. dirs[use[a].name].id \in 0..MaxMade
        BY <2>p, <3>3 DEF RuntimeTypeOK
      <4>3. CASE windows
        <5>1. r \in Uses /\ r.at = "using" /\ r.name = use[a].name /\ r.id = dirs[use[a].name].id
              /\ r.why = use[a].why /\ r.good = TRUE
          BY <2>p, <4>2, <4>3 DEF Uses, Ats
        <5> HIDE DEF r
        <5>2. Becomes(a, "using", use[a].name, dirs[use[a].name].id, use[a].why, TRUE)
          <6>1. RuntimeTypeOK /\ r \in Uses /\ use' = [use EXCEPT ![a] = r]
            BY <2>p, <4>1, <5>1
          <6>2. Becomes(a, r.at, r.name, r.id, r.why, r.good)
            BY <6>1, RecordBecomes
          <6> QED BY <6>2, <2>p, <4>1, <5>1
        <5> QED BY <3>1, <3>3, <4>1, <4>3, <5>2, OpenedKeeps
      <4>4. CASE ~windows
        <5>0. windows = FALSE
          BY <2>p, <4>4
        <5>1. r \in Uses /\ r.at = "created" /\ r.name = use[a].name /\ r.id = dirs[use[a].name].id
              /\ r.why = use[a].why /\ r.good = FALSE
          BY <2>p, <4>2, <5>0 DEF Uses, Ats
        <5> HIDE DEF r
        <5>2. Becomes(a, "created", use[a].name, dirs[use[a].name].id, use[a].why, FALSE)
          <6>1. RuntimeTypeOK /\ r \in Uses /\ use' = [use EXCEPT ![a] = r]
            BY <2>p, <4>1, <5>1
          <6>2. Becomes(a, r.at, r.name, r.id, r.why, r.good)
            BY <6>1, RecordBecomes
          <6> QED BY <6>2, <2>p, <4>1, <5>1
        <5>3. UNCHANGED holder
          BY <4>1, <4>4
        <5> QED BY <3>1, <3>3, <4>1, <4>4, <5>2, <5>3, CreatedKeeps
      <4> QED BY <4>3, <4>4
    <3> QED BY <3>2, <3>3
  <2>8. CASE Locks(a)
    <3>1. use[a].at = "created" /\ UNCHANGED <<fresh, windows>> /\ use[a].good = FALSE /\ ~windows
      BY <2>8, <2>p DEF Locks
    <3>2. CASE holder[use[a].id] = Nobody
      <4> DEFINE v == Locked(use[a].name) /\ dirs[use[a].name].id = use[a].id
                 r == [use[a] EXCEPT !.at = "using", !.good = v]
      <4>1. /\ holder' = [holder EXCEPT ![use[a].id] = a]
            /\ use' = [use EXCEPT ![a].at = "using", ![a].good = v]
        BY <2>8, <3>2 DEF Locks, Lock
      <4>2. v \in BOOLEAN
        BY DEF Locked
      <4>3. r \in Uses /\ r.at = "using" /\ r.name = use[a].name /\ r.id = use[a].id
            /\ r.why = use[a].why /\ r.good = v
        BY <2>p, <4>2 DEF Uses, Ats
      <4>4. use' = [use EXCEPT ![a] = r]
        BY <2>p, <4>1
      <4> HIDE DEF r
      <4>5. Becomes(a, "using", use[a].name, use[a].id, use[a].why, v)
        <5>1. RuntimeTypeOK /\ r \in Uses /\ use' = [use EXCEPT ![a] = r]
          BY <2>p, <4>3, <4>4
        <5>2. Becomes(a, r.at, r.name, r.id, r.why, r.good)
          BY <5>1, RecordBecomes
        <5> QED BY <5>2, <2>p, <4>3, <4>4
      <4>6. CASE dirs[use[a].name] # NoDir
        <5>1. UNCHANGED dirs /\ Still
          BY <2>8, <3>1, <3>2, <4>6 DEF Locks, Still
        <5> QED BY <3>1, <3>2, <4>1, <4>5, <5>1, LockedKeeps
      <4>7. CASE dirs[use[a].name] = NoDir
        <5>1. MakesDir(use[a].name)
          BY <2>8, <3>2, <4>7 DEF Locks
        <5>2. v = FALSE
          BY <4>7 DEF Locked
        <5> QED BY <3>1, <3>2, <4>1, <4>5, <4>7, <5>1, <5>2, RemadeKeeps
      <4> QED BY <4>6, <4>7
    <3>3. CASE holder[use[a].id] # Nobody
      <4>1. Goes(a, "failed") /\ UNCHANGED <<holder, dirs>> /\ Still
        BY <2>8, <3>1, <3>3 DEF Locks, Still
      <4>2. NameOwner[use[a].name] = a /\ use[a].name \notin fresh
        BY <3>1, <2>p DEF Claimed
      <4> QED BY <3>1, <4>1, <4>2, GoesKeeps
    <3> QED BY <3>2, <3>3
  <2>9. CASE SpawnFails(a)
    <3>1. /\ use[a].at \in {"using", "failed"} /\ UNCHANGED <<dirs, fresh>> /\ Still
          /\ holder' = Released(a)
          /\ use' = [use EXCEPT ![a] = [@ EXCEPT !.at = "unlink", !.why = "own", !.good = FALSE]]
      BY <2>9 DEF SpawnFails, Still
    <3>2. Becomes(a, "unlink", use[a].name, use[a].id, "own", FALSE)
      BY <2>p, <3>1, OwnBecomes
    <3> QED BY <3>1, <3>2, OwnKeeps
  <2>10. CASE Drops(a)
    <3>1. use[a].at = "using" /\ UNCHANGED <<dirs, fresh>> /\ Still
      BY <2>10 DEF Drops, Still
    <3>2. CASE /\ use' = [use EXCEPT ![a] = [@ EXCEPT !.at = "unlink", !.why = "own", !.good = FALSE]]
               /\ UNCHANGED holder
      <4>1. Becomes(a, "unlink", use[a].name, use[a].id, "own", FALSE)
        BY <2>p, <3>2, OwnBecomes
      <4> QED BY <3>1, <3>2, <4>1, OwnKeeps
    <3>3. CASE /\ holder' = Released(a)
               /\ use' = [use EXCEPT ![a] = [@ EXCEPT !.at = "idle", !.good = FALSE]]
      <4>1. Becomes(a, "idle", use[a].name, use[a].id, use[a].why, FALSE)
        BY <2>p, <3>3, StopBecomes
      <4> QED BY <3>1, <3>3, <4>1, <2>p, LeavesKeeps
    <3> QED BY <2>10, <3>2, <3>3 DEF Drops
  <2>12. CASE AppDies(a)
    <3>1. /\ UNCHANGED <<dirs, fresh>> /\ Still /\ holder' = Released(a)
          /\ use' = [use EXCEPT ![a] = [@ EXCEPT !.at = "sweep", !.good = FALSE]]
      BY <2>12 DEF AppDies, Still
    <3>2. Becomes(a, "sweep", use[a].name, use[a].id, use[a].why, FALSE)
      BY <2>p, <3>1, StopBecomes
    <3> QED BY <2>p, <3>1, <3>2, LeavesKeeps
  <2>11. ASSUME NEW n \in Name, Sweeps(a, n) \/ Chooses(a, n)
         PROVE  DInv'
    <3>1. CASE Sweeps(a, n)
      <4>1. use[a].at = "sweep" /\ Looks(a, n, "sweep") /\ UNCHANGED <<dirs, fresh>> /\ Still
        BY <3>1 DEF Sweeps, Still
      <4> QED BY <4>1, <2>p, LooksKeeps
    <3>2. CASE Chooses(a, n)
      <4>1. use[a].at = "idle" /\ Looks(a, n, "first") /\ UNCHANGED dirs /\ Still
            /\ n \in fresh /\ NameOwner[n] = a /\ fresh' = fresh \ {n}
        BY <3>2 DEF Chooses, Still, Named
      <4>2. Unmade(n) /\ n \notin fresh' /\ fresh' \in SUBSET fresh
        BY <4>1 DEF Unmade
      <4> QED BY <4>1, <4>2, LooksKeeps
    <3> QED BY <2>11, <3>1, <3>2
  <2> QED BY <1>n, <2>1, <2>2, <2>3, <2>4, <2>5, <2>6, <2>7, <2>8, <2>9, <2>10, <2>11, <2>12
<1> QED BY <1>u, <1>n DEF RuntimeNext

\* At the start no App holds or claims anything.
LEMMA DirsBegin ==
  ASSUME RuntimeAssumption, RuntimeInit
  PROVE  DInv
<1>1. PICK left \in Name, lock \in BOOLEAN :
          /\ windows \/ NameOwner[left] = Nobody
          /\ dirs = [n \in Name |-> IF n = left THEN [id |-> 1, lock |-> lock] ELSE NoDir]
  BY DEF RuntimeInit
<1>2. /\ made = 1 /\ MaxMade \in Nat \ {0} /\ fresh = Name /\ holder = [i \in 1..MaxMade |-> Nobody]
      /\ Nobody \notin App
  BY DEF RuntimeInit, RuntimeAssumption
<1>3. \A a \in App : /\ use[a].at = "sweep" /\ use[a].name \in Name /\ use[a].id = 0
                     /\ use[a].why = "sweep" /\ use[a].good = FALSE
  <2>1. (CHOOSE n \in Name : TRUE) \in Name
    BY <1>1
  <2> QED BY <2>1 DEF RuntimeInit
<1>4. [id |-> 1, lock |-> lock] \in [id : 1..MaxMade, lock : BOOLEAN]
  BY <1>1, <1>2
<1>5. Types
  <2>1. \A n \in Name : dirs[n] # NoDir => dirs[n] \in [id : 1..MaxMade, lock : BOOLEAN]
    BY <1>1, <1>4
  <2>2. use \in [App -> Uses]
    <3>1. (CHOOSE n \in Name : TRUE) \in Name
      BY <1>1
    <3> QED BY <1>2, <3>1 DEF RuntimeInit, Uses, Ats, Whys
  <2>3. windows \in BOOLEAN
    BY DEF RuntimeInit
  <2> QED BY <1>1, <1>2, <2>1, <2>2, <2>3 DEF Types, RuntimeTypeOK, Uses, Ats, Whys
<1>6. \A a \in App : Alone(a)
  <2> SUFFICES ASSUME NEW a \in App PROVE Alone(a)
    OBVIOUS
  <2>1. use[a].at = "sweep" /\ use[a].id = 0 /\ use[a].good = FALSE
    BY <1>3
  <2>2. ClaimOf(a) /\ Plain(a) /\ MadeOf(a) /\ CreatedOf(a) /\ GoodOf(a)
    BY <2>1 DEF ClaimOf, Claimed, Plain, MadeOf, CreatedOf, GoodOf, Touching
  <2>3. IdOf(a)
    BY <1>2, <2>1 DEF IdOf, Touching
  <2> QED BY <2>2, <2>3 DEF Alone
<1>7. \A a, b \in App : Pair(a, b)
  BY <1>3 DEF Pair, MadeWith, CreatedWith, GoodWith
<1>8. \A n \in Name : DirOf(n) /\ NotYet(n)
  BY <1>1, <1>2 DEF DirOf, NotYet, Unmade
<1>9. \A n, m \in Name : SameDir(n, m)
  BY <1>1 DEF SameDir
<1>10. \A b \in App, n \in Name : Passing(b, n)
  BY <1>3 DEF Passing, OneOf, YetOf, On, Removing
<1> QED BY <1>5, <1>6, <1>7, <1>8, <1>9, <1>10 DEF DInv

\* A directory whose lock file was in it when its App locked it stays, in the place and under the
\* lock its App has, whatever the other Apps claim, sweep, remove or leave behind
\* (process_setup.rs and process_adapter.rs).
THEOREM LockedStays == RuntimeSpec => []LockedDirStays
<1>1. RuntimeInit => DInv
  BY DirsBegin, RuntimeAssumption
<1>2. DInv /\ [RuntimeNext]_dirVars => DInv'
  BY DirsKept, RuntimeAssumption
<1>3. DInv => LockedDirStays
  BY DEF DInv, Alone, GoodOf, LockedDirStays
<1> QED BY <1>1, <1>2, <1>3, PTL DEF RuntimeSpec
=============================================================================
