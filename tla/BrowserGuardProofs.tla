------------------------- MODULE BrowserGuardProofs -------------------------
(* Theorems about the browser's two guards.  On Linux (BrowserGuard): for any *)
(* process ids, however often each is used again, and any number of processes,*)
(* faults and drain phases.  On Windows (WindowsGuard): for any processes.    *)
EXTENDS BrowserGuard, WindowsGuard, FunctionTheorems, FiniteSetTheorems, TLAPS

Parents == Pid \cup {Guard, Elsewhere}
Procs   == [st : {"free", "live", "zero", "bad"}, start : Nat, parent : Parents, own : BOOLEAN]
Links   == [pid : Pid, start : Nat, parent : Parents]
Cands   == [pid : Pid, start : Nat, fd : Nat \cup {Nil}]
Outcome == {"zero", "bad", Nil}

TableType == table \in [Pid -> Procs]

\* Below the guard: who has a living parent is of that parent's tree, who was left comes to the
\* guard, and every set of the guard's processes has one whose parent is outside.
Kinship ==
    /\ \A q \in Pid : table[q].own => Exists(q) /\ table[q].parent # Elsewhere
    /\ \A q \in Pid : Exists(q) /\ table[q].parent = Guard => table[q].own
    /\ \A q \in Pid : Exists(q) /\ table[q].parent \in Pid =>
           Live(table[q].parent) /\ table[q].own = table[table[q].parent].own
Rooted == \A S \in SUBSET Pid : S # {} /\ (\A q \in S : table[q].own) => \E q \in S : table[q].parent \notin S
Forest == TableType /\ Kinship /\ Rooted

\* What a step may do to the processes that are there.
Grows == \A p \in Pid :
    /\ table[p].start <= table'[p].start
    /\ table'[p].st # "free" /\ table'[p].start = table[p].start =>
           /\ Exists(p) /\ table'[p].own = table[p].own
           /\ table'[p].parent \in {table[p].parent, Guard, Elsewhere}

LEMMA BegunKernel ==
  ASSUME Forest, NEW q \in Pid, ~Exists(q), NEW above \in Parents, NEW mine \in BOOLEAN,
         table' = Begun(q, above, mine),
         above = Guard => mine, above = Elsewhere => ~mine,
         above \in Pid => Live(above) /\ mine = table[above].own
  PROVE  Forest' /\ Grows
<1> USE DEF Forest, TableType, Procs, Parents, Exists, Live
<1>0. Guard \notin Pid /\ Elsewhere \notin Pid /\ Guard # Elsewhere
  BY GuardAssumption
<1>1. /\ table' \in [Pid -> Procs]
      /\ table'[q] = [st |-> "live", start |-> table[q].start + 1, parent |-> above, own |-> mine]
      /\ \A p \in Pid \ {q} : table'[p] = table[p]
  BY DEF Begun
<1>2. Grows
  BY <1>1 DEF Grows
<1>3. \A p \in Pid : Exists(p) => table[p].parent # q
  BY DEF Kinship
<1>4. Kinship'
  BY <1>0, <1>1, <1>3 DEF Kinship
<1>5. ASSUME NEW S \in SUBSET Pid, S # {}, \A r \in S : table'[r].own
      PROVE  \E r \in S : table'[r].parent \notin S
  <2>1. CASE q \notin S
    BY <1>1, <1>5, <2>1 DEF Rooted
  <2>2. CASE S = {q}
    BY <1>0, <1>1, <2>2
  <2>3. CASE q \in S /\ S # {q}
    <3>1. S \ {q} \in SUBSET Pid /\ S \ {q} # {} /\ \A r \in S \ {q} : table[r].own
      BY <1>1, <1>5, <2>3
    <3>2. PICK r \in S \ {q} : table[r].parent \notin S \ {q}
      BY <3>1 DEF Rooted
    <3>3. table[r].parent # q /\ table'[r] = table[r]
      BY <1>1, <1>3, <3>1, <3>2 DEF Kinship
    <3> QED BY <3>2, <3>3
  <2> QED BY <2>1, <2>2, <2>3
<1> QED BY <1>1, <1>2, <1>4, <1>5 DEF Rooted

\* Processes without children are given back.
LEMMA FreedKernel ==
  ASSUME Forest, NEW D \in SUBSET Pid, \A p \in D : ~Live(p),
         table' = [p \in Pid |-> IF p \in D THEN Freed(p) ELSE table[p]]
  PROVE  Forest' /\ Grows
<1> USE DEF Forest, TableType, Procs, Parents, Exists, Live
<1>1. /\ table' \in [Pid -> Procs]
      /\ \A p \in D : table'[p].st = "free" /\ table'[p].start = table[p].start /\ ~table'[p].own
      /\ \A p \in Pid \ D : table'[p] = table[p]
  BY DEF Freed
<1>2. \A p \in Pid : p \in D \/ table'[p] = table[p]
  BY <1>1
<1>a. \A p \in Pid : table'[p].st # "free" => p \notin D
  BY <1>1
<1>b. \A p \in Pid : table'[p].start = table[p].start /\ table[p].start \in Nat
  BY <1>1
<1>c. Grows
  BY <1>2, <1>a, <1>b DEF Grows
<1>3. Kinship'
  <2>1. \A q \in Pid : table'[q].own => table'[q].st # "free" /\ table'[q].parent # Elsewhere
    BY <1>1, <1>2 DEF Kinship
  <2>2. \A q \in Pid : table'[q].st # "free" /\ table'[q].parent = Guard => table'[q].own
    BY <1>2, <1>a DEF Kinship
  <2>3. \A q \in Pid : table'[q].st # "free" /\ table'[q].parent \in Pid =>
           table'[table'[q].parent].st = "live" /\ table'[q].own = table'[table'[q].parent].own
    BY <1>2, <1>a DEF Kinship
  <2> QED BY <2>1, <2>2, <2>3 DEF Kinship
<1>4. Rooted'
  <2> SUFFICES ASSUME NEW S \in SUBSET Pid, S # {}, \A r \in S : table'[r].own
               PROVE  \E r \in S : table'[r].parent \notin S
    BY DEF Rooted
  <2>1. \A r \in S : table'[r] = table[r] /\ table[r].own
    BY <1>1
  <2> QED BY <2>1 DEF Rooted
<1> QED BY <1>1, <1>c, <1>3, <1>4

LEMMA ExitKernel ==
  ASSUME Forest, NEW p \in Pid, NEW code \in {"zero", "bad"}, Exit(p, code)
  PROVE  Forest' /\ Grows
<1> USE DEF Forest, TableType, Procs, Parents, Exists, Live
<1>0. Guard \notin Pid /\ Elsewhere \notin Pid /\ Guard # Elsewhere
  BY GuardAssumption
<1>1. Live(p) /\ table' = [q \in Pid |->
          IF q = p THEN IF table[p].own THEN [table[p] EXCEPT !.st = code] ELSE Freed(p)
          ELSE IF Exists(q) /\ table[q].parent = p
               THEN [table[q] EXCEPT !.parent = IF table[q].own THEN Guard ELSE Elsewhere]
               ELSE table[q]]
  BY DEF Exit
<1>2. /\ table' \in [Pid -> Procs]
      /\ \A q \in Pid : table'[q].start = table[q].start
      /\ table[p].own => /\ table'[p].st = code /\ table'[p].own /\ table'[p].parent = table[p].parent
      /\ ~table[p].own => table'[p].st = "free" /\ ~table'[p].own
      /\ \A q \in Pid \ {p} : table'[q].st = table[q].st /\ table'[q].own = table[q].own
      /\ \A q \in Pid \ {p} : IF Exists(q) /\ table[q].parent = p
                              THEN table'[q].parent = IF table[q].own THEN Guard ELSE Elsewhere
                              ELSE table'[q].parent = table[q].parent
  BY <1>1 DEF Freed
<1>3. Grows
  BY <1>1, <1>2 DEF Grows
<1>4. table[p].parent # p \/ ~table[p].own
  <2>1. {p} \in SUBSET Pid /\ {p} # {}
    OBVIOUS
  <2>2. (\A q \in {p} : table[q].own) => \E q \in {p} : table[q].parent \notin {p}
    BY <2>1 DEF Rooted
  <2> QED BY <2>2
<1>5. Kinship'
  BY <1>0, <1>1, <1>2, <1>4 DEF Kinship
<1>6. Rooted'
  <2> SUFFICES ASSUME NEW S \in SUBSET Pid, S # {}, \A r \in S : table'[r].own
               PROVE  \E r \in S : table'[r].parent \notin S
    BY DEF Rooted
  <2>1. \A r \in S : table[r].own
    BY <1>2
  <2>2. PICK r \in S : table[r].parent \notin S
    BY <2>1 DEF Rooted
  <2>3. table'[r].parent = table[r].parent \/ table'[r].parent \in {Guard, Elsewhere}
    BY <1>2
  <2> QED BY <1>0, <2>2, <2>3
<1> QED BY <1>2, <1>3, <1>5, <1>6

\* The processes of the table are the ones they were.
LEMMA StillKernel ==
  ASSUME Forest, UNCHANGED table
  PROVE  Forest' /\ Grows
BY DEF Forest, TableType, Procs, Parents, Kinship, Rooted, Grows, Exists, Live

-----------------------------------------------------------------------------
(* What the guard saw of /proc, against what is there now *)
Looking == {"open", "confirm", "walk", "again"}
Climbed == {"walk", "again"}

HandleTrue(p) == handles[p] # Nil => /\ handles[p] <= table[p].start
                                     /\ Names(p, handles[p]) => table[p].own
HandlesTrue == /\ handles \in [Pid -> Nat \cup {Nil}]
               /\ \A p \in Pid : HandleTrue(p)
CandSeen    == pc \in Looking =>
                   /\ cand \in Cands /\ cand.start <= table[cand.pid].start
                   /\ pc # "open" => cand.fd # Nil /\ cand.start <= cand.fd /\ cand.fd <= table[cand.pid].start
                   /\ pc \in Climbed => cand.fd = cand.start
\* The links lead from the pid looked at upward; each start time was read, so it is not ahead.
ChainSeen   == /\ chain \in Seq(Links)
               /\ pc \notin Climbed => chain = <<>>
               /\ chain # <<>> => chain[1].pid = cand.pid /\ cand.start <= chain[1].start
               /\ \A i \in 1..Len(chain) : chain[i].start <= table[chain[i].pid].start
               /\ \A i \in 1..Len(chain) - 1 : chain[i].parent = chain[i + 1].pid
\* Links are read again from the guard downward: a link above which all read the same is the guard's.
BackSeen    == pc = "again" =>
                   /\ chain # <<>> /\ chain[Len(chain)].parent = Guard /\ back \in 0..Len(chain)
                   /\ back = 0 => (Names(chain[1].pid, chain[1].start) => table[chain[1].pid].own)
                   /\ back # 0 => (Unchanged(chain[back]) => table[chain[back].pid].own)
Seeing == HandlesTrue /\ CandSeen /\ ChainSeen /\ BackSeen

\* A number between two equal ones.
LEMMA Squeezed == ASSUME NEW a \in Nat, NEW b \in Nat, NEW c \in Nat, a <= b, b <= c, c = a PROVE c = b
OBVIOUS

\* Steps that read nothing leave what was seen true.
LEMMA SeeingStays ==
  ASSUME Forest, Forest', Grows, Seeing, UNCHANGED seeing,
         pc' = pc \/ (pc \notin Looking /\ pc' \notin Looking)
  PROVE  Seeing'
<1> USE DEF Forest, TableType, Procs, Looking, Climbed
<1>0. Guard \notin Pid /\ Elsewhere \notin Pid /\ Guard # Elsewhere /\ Nil \notin Nat
  BY GuardAssumption
<1>1. HandlesTrue'
  <2> SUFFICES ASSUME NEW p \in Pid, handles[p] # Nil
               PROVE  handles[p] <= table'[p].start /\ (Names(p, handles[p])' => table'[p].own)
    BY DEF HandlesTrue, HandleTrue, Seeing, seeing, Names, Exists
  <2>1. handles[p] \in Nat /\ table[p].start \in Nat /\ table'[p].start \in Nat /\ table[p].start <= table'[p].start
    BY DEF Seeing, HandlesTrue, Grows
  <2>2. handles[p] <= table[p].start /\ (Names(p, handles[p]) => table[p].own)
    BY DEF Seeing, HandlesTrue, HandleTrue
  <2>3. ASSUME table'[p].st # "free", table'[p].start = handles[p] PROVE table'[p].own
    <3>0. table'[p].start = handles[p]
      BY <2>3
    <3>1. table'[p].start = table[p].start
      BY <2>1, <2>2, <3>0, Squeezed
    <3> QED BY <2>1, <2>2, <2>3, <3>1 DEF Grows, Names
  <2> QED BY <2>1, <2>2, <2>3 DEF Names, Exists, seeing
<1>2. CandSeen'
  <2> SUFFICES ASSUME pc' \in Looking PROVE CandSeen'
    BY DEF CandSeen
  <2>1. pc' = pc /\ cand' = cand /\ cand \in Cands
    BY DEF Seeing, CandSeen, seeing
  <2>2. cand.pid \in Pid /\ cand.start \in Nat /\ cand.fd \in Nat \cup {Nil}
    BY <2>1 DEF Cands
  <2>3. table[cand.pid].start \in Nat /\ table'[cand.pid].start \in Nat
        /\ table[cand.pid].start <= table'[cand.pid].start
    BY <2>2 DEF Grows
  <2>4. cand.start <= table'[cand.pid].start
    BY <2>2, <2>3 DEF Seeing, CandSeen
  <2>5. pc # "open" => cand.fd # Nil /\ cand.start <= cand.fd /\ cand.fd <= table'[cand.pid].start
    BY <2>1, <2>2, <2>3 DEF Seeing, CandSeen
  <2>6. pc \in Climbed => cand.fd = cand.start
    BY <2>1 DEF Seeing, CandSeen
  <2> QED BY <2>1, <2>4, <2>5, <2>6 DEF CandSeen
<1>3. ChainSeen'
  <2>1. chain' = chain /\ chain \in Seq(Links) /\ cand' = cand /\ (pc' \in Climbed <=> pc \in Climbed)
    BY DEF Seeing, ChainSeen, seeing
  <2>2. ASSUME NEW i \in 1..Len(chain) PROVE chain[i].start <= table'[chain[i].pid].start
    <3>0. chain[i] \in Links
      BY DEF Seeing, ChainSeen
    <3>1. chain[i].pid \in Pid /\ chain[i].start \in Nat
      BY <3>0 DEF Links
    <3>2. chain[i].start <= table[chain[i].pid].start
      BY DEF Seeing, ChainSeen
    <3>3. table[chain[i].pid].start \in Nat /\ table'[chain[i].pid].start \in Nat
          /\ table[chain[i].pid].start <= table'[chain[i].pid].start
      BY <3>1 DEF Grows
    <3> QED BY <3>1, <3>2, <3>3
  <2> QED BY <2>1, <2>2 DEF Seeing, ChainSeen
<1>4. BackSeen'
  <2> SUFFICES ASSUME pc' = "again" PROVE BackSeen'
    BY DEF BackSeen
  <2>1. pc = "again" /\ chain' = chain /\ back' = back /\ chain \in Seq(Links) /\ chain # <<>>
        /\ chain[Len(chain)].parent = Guard /\ back \in 0..Len(chain)
    BY DEF Seeing, BackSeen, ChainSeen, seeing
  <2>2. \A i \in 1..Len(chain) : /\ chain[i].pid \in Pid /\ chain[i].start \in Nat
                                 /\ chain[i].start <= table[chain[i].pid].start
                                 /\ table[chain[i].pid].start \in Nat /\ table'[chain[i].pid].start \in Nat
                                 /\ table[chain[i].pid].start <= table'[chain[i].pid].start
    <3> TAKE i \in 1..Len(chain)
    <3>1. chain[i] \in Links
      BY <2>1
    <3>2. chain[i].pid \in Pid /\ chain[i].start \in Nat
      BY <3>1 DEF Links
    <3> QED BY <3>2 DEF Seeing, ChainSeen, Grows
  <2>3. \A i \in 1..Len(chain) : table'[chain[i].pid].st # "free" /\ table'[chain[i].pid].start = chain[i].start
                                 => /\ table'[chain[i].pid].start = table[chain[i].pid].start
                                    /\ Exists(chain[i].pid) /\ table'[chain[i].pid].own = table[chain[i].pid].own
                                    /\ table'[chain[i].pid].parent \in {table[chain[i].pid].parent, Guard, Elsewhere}
    <3> TAKE i \in 1..Len(chain)
    <3> HAVE table'[chain[i].pid].st # "free" /\ table'[chain[i].pid].start = chain[i].start
    <3>1. table'[chain[i].pid].start = table[chain[i].pid].start
      BY <2>2
    <3> QED BY <2>2, <3>1 DEF Grows
  <2>4. back = 0 => (Names(chain[1].pid, chain[1].start)' => table'[chain[1].pid].own)
    <3> SUFFICES ASSUME back = 0, table'[chain[1].pid].st # "free", table'[chain[1].pid].start = chain[1].start
                 PROVE  table'[chain[1].pid].own
      BY <2>1 DEF Names, Exists
    <3>1. 1 \in 1..Len(chain)
      BY <2>1
    <3>2. Names(chain[1].pid, chain[1].start) /\ table'[chain[1].pid].own = table[chain[1].pid].own
      BY <2>3, <3>1 DEF Names
    <3> QED BY <2>1, <3>2 DEF Seeing, BackSeen
  <2>5. back # 0 => (Unchanged(chain[back])' => table'[chain[back].pid].own)
    <3> SUFFICES ASSUME back # 0, Unchanged(chain[back])'
                 PROVE  table'[chain[back].pid].own
      OBVIOUS
    <3>1. back \in 1..Len(chain) /\ chain'[back'] = chain[back]
      BY <2>1
    <3>2. chain[back] \in Links
      BY <2>1, <3>1
    <3>3. /\ table'[chain[back].pid].st # "free" /\ table'[chain[back].pid].start = chain[back].start
          /\ table'[chain[back].pid].parent = chain[back].parent
      BY <3>1, <3>2 DEF Unchanged, Link, Exists, Links
    <3>4. CASE chain[back].parent = Guard
      BY <2>2, <3>1, <3>3, <3>4 DEF Kinship, Exists
    <3>5. CASE chain[back].parent \in Pid
      <4>1. table[chain[back].pid].parent = chain[back].parent /\ table[chain[back].pid].start = chain[back].start
            /\ Exists(chain[back].pid) /\ table'[chain[back].pid].own = table[chain[back].pid].own
        BY <1>0, <2>3, <3>1, <3>3, <3>5
      <4>2. Unchanged(chain[back])
        BY <3>2, <4>1 DEF Unchanged, Link, Links
      <4> QED BY <2>1, <3>1, <4>1, <4>2 DEF Seeing, BackSeen
    <3>6. chain[back].parent = Guard \/ chain[back].parent \in Pid
      <4>1. CASE back = Len(chain)
        BY <2>1, <4>1
      <4>2. CASE back # Len(chain)
        <5>1. back \in 1..Len(chain) - 1 /\ back + 1 \in 1..Len(chain)
          BY <2>1, <3>1, <4>2
        <5> QED BY <2>2, <5>1 DEF Seeing, ChainSeen
      <4> QED BY <4>1, <4>2
    <3> QED BY <3>4, <3>5, <3>6
  <2> QED BY <2>1, <2>4, <2>5 DEF BackSeen
<1> QED BY <1>1, <1>2, <1>3, <1>4 DEF Seeing


\* The tracker forgets what it looked at.
LEMMA SkipSees ==
  ASSUME Seeing, UNCHANGED <<table, handles>>, cand' = Nil, chain' = <<>>, back' = 0, pc' \notin Looking
  PROVE  Seeing'
<1>1. HandlesTrue'
  BY DEF Seeing, HandlesTrue, HandleTrue, Names, Exists
<1>2. CandSeen' /\ BackSeen'
  BY DEF CandSeen, BackSeen, Looking
<1>3. chain' \in Seq(Links) /\ Len(chain') = 0
  OBVIOUS
<1>4. ChainSeen'
  BY <1>3 DEF ChainSeen
<1> QED BY <1>1, <1>2, <1>4 DEF Seeing

LEMMA ObserveSees ==
  ASSUME Forest, Seeing, Observe
  PROVE  Seeing'
<1> USE DEF Looking, Climbed
<1>1. /\ pc = "observe" /\ pc' = "pick" /\ chain' = chain /\ chain = <<>> /\ table' = table
      /\ handles' = [p \in Pid |-> IF Names(p, handles[p]) THEN handles[p] ELSE Nil]
  BY DEF Observe, Pruned, Seeing, ChainSeen, unseen, kernel
<1>2. HandlesTrue'
  BY <1>1 DEF Seeing, HandlesTrue, HandleTrue, Names, Exists
<1>3. CandSeen' /\ BackSeen'
  BY <1>1 DEF CandSeen, BackSeen
<1>4. ChainSeen'
  BY <1>1 DEF Seeing, ChainSeen
<1> QED BY <1>2, <1>3, <1>4 DEF Seeing

LEMMA PickSees ==
  ASSUME Forest, Seeing, NEW p \in Pid, Pick(p)
  PROVE  Seeing'
<1> USE DEF Looking, Climbed
<1>1. /\ pc = "pick" /\ pc' = "open" /\ chain' = chain /\ chain = <<>> /\ table' = table
      /\ cand' = [pid |-> p, start |-> table[p].start, fd |-> Nil]
      /\ handles' = [handles EXCEPT ![p] = Nil]
  BY DEF Pick, Seeing, ChainSeen, unseen, kernel
<1>2. HandlesTrue'
  BY <1>1 DEF Seeing, HandlesTrue, HandleTrue, Names, Exists
<1>3. table[p].start \in Nat
  BY DEF Forest, TableType, Procs
<1>4. cand' \in Cands /\ cand'.start = table[p].start /\ cand'.pid = p
  BY <1>1, <1>3 DEF Cands
<1>5. CandSeen' /\ BackSeen'
  BY <1>1, <1>3, <1>4 DEF CandSeen, BackSeen
<1>6. ChainSeen'
  BY <1>1 DEF Seeing, ChainSeen
<1> QED BY <1>2, <1>5, <1>6 DEF Seeing

LEMMA OpenSees ==
  ASSUME Forest, Seeing, Open
  PROVE  Seeing'
<1> USE DEF Looking, Climbed
<1>1. pc = "open" /\ table' = table /\ handles' = handles /\ cand \in Cands /\ cand.start <= table[cand.pid].start
      /\ chain = <<>>
  BY DEF Open, Seeing, CandSeen, ChainSeen, unseen, kernel
<1>2. CASE Exists(cand.pid)
  <2>1. cand' = [cand EXCEPT !.fd = table[cand.pid].start] /\ pc' = "confirm" /\ chain' = chain
    BY <1>2 DEF Open
  <2>2. cand.pid \in Pid /\ table[cand.pid].start \in Nat
    BY <1>1 DEF Cands, Forest, TableType, Procs
  <2>3. cand' \in Cands /\ cand'.pid = cand.pid /\ cand'.start = cand.start /\ cand'.fd = table[cand.pid].start
    BY <1>1, <2>1, <2>2 DEF Cands
  <2>4. table[cand.pid].start # Nil
    BY <2>2, GuardAssumption
  <2>5. CandSeen' /\ BackSeen'
    BY <1>1, <2>1, <2>2, <2>3, <2>4 DEF CandSeen, BackSeen
  <2>6. HandlesTrue' /\ ChainSeen'
    BY <1>1, <2>1 DEF Seeing, HandlesTrue, HandleTrue, ChainSeen, Names, Exists
  <2> QED BY <2>5, <2>6 DEF Seeing
<1>3. CASE ~Exists(cand.pid)
  BY <1>1, <1>3, SkipSees DEF Open, Skip
<1> QED BY <1>2, <1>3

LEMMA ConfirmSees ==
  ASSUME Forest, Seeing, Confirm
  PROVE  Seeing'
<1> USE DEF Looking, Climbed
<1>1. pc = "confirm" /\ table' = table /\ handles' = handles /\ chain = <<>>
      /\ cand \in Cands /\ cand.fd # Nil /\ cand.start <= cand.fd /\ cand.fd <= table[cand.pid].start
  BY DEF Confirm, Seeing, CandSeen, ChainSeen, unseen, kernel
<1>2. CASE Names(cand.pid, cand.start)
  <2>1. pc' = "walk" /\ cand' = cand /\ chain' = chain
    BY <1>2 DEF Confirm
  <2>2. cand.start \in Nat /\ cand.fd \in Nat /\ cand.pid \in Pid
    BY <1>1 DEF Cands
  <2>3. cand.fd = cand.start
    BY <1>1, <1>2, <2>2 DEF Names
  <2>4. CandSeen' /\ BackSeen'
    BY <1>1, <2>1, <2>3 DEF Seeing, CandSeen, BackSeen
  <2>5. HandlesTrue' /\ ChainSeen'
    BY <1>1, <2>1 DEF Seeing, HandlesTrue, HandleTrue, ChainSeen, Names, Exists
  <2> QED BY <2>4, <2>5 DEF Seeing
<1>3. CASE ~Names(cand.pid, cand.start)
  BY <1>1, <1>3, SkipSees DEF Confirm, Skip
<1> QED BY <1>2, <1>3

\* A link is appended, or the walk has reached the guard.
LEMMA WalkSees ==
  ASSUME Forest, Seeing, Walk
  PROVE  Seeing'
<1> USE DEF Looking, Climbed
<1>0. Guard \notin Pid /\ Elsewhere \notin Pid
  BY GuardAssumption
<1>1. /\ pc = "walk" /\ table' = table /\ handles' = handles /\ chain \in Seq(Links) /\ cand \in Cands
      /\ cand.start <= table[cand.pid].start /\ cand.pid \in Pid
  BY DEF Walk, Seeing, CandSeen, ChainSeen, unseen, kernel, Cands
<1>2. CASE Current = Guard
  <2>1. pc' = "again" /\ back' = Len(chain) /\ cand' = cand /\ chain' = chain
    BY <1>2 DEF Walk
  <2>2. chain # <<>> /\ chain[Len(chain)].parent = Guard
    BY <1>0, <1>1, <1>2 DEF Current
  <2>3. Len(chain) \in Nat \ {0} /\ Len(chain) \in 1..Len(chain)
    BY <1>1, <2>2
  <2>4. chain[Len(chain)] \in Links
    BY <1>1, <2>3
  <2>5. Unchanged(chain[Len(chain)]) => table[chain[Len(chain)].pid].own
    <3> HAVE Unchanged(chain[Len(chain)])
    <3>1. Exists(chain[Len(chain)].pid) /\ table[chain[Len(chain)].pid].parent = Guard
      BY <2>2, <2>4 DEF Unchanged, Link, Links
    <3> QED BY <2>4, <3>1 DEF Forest, Kinship, Links
  <2>6. BackSeen'
    BY <1>1, <2>1, <2>2, <2>3, <2>5 DEF BackSeen, Unchanged, Link, Exists
  <2>7. CandSeen'
    BY <1>1, <2>1 DEF Seeing, CandSeen
  <2>8. HandlesTrue' /\ ChainSeen'
    BY <1>1, <2>1 DEF Seeing, HandlesTrue, HandleTrue, ChainSeen, Names, Exists
  <2> QED BY <2>6, <2>7, <2>8 DEF Seeing
<1>3. CASE Current # Guard /\ Current # Elsewhere /\ Current \notin OnChain /\ Exists(Current)
  <2>1. pc' = "walk" /\ cand' = cand /\ chain' = Append(chain, Link(Current))
    BY <1>1, <1>3 DEF Walk
  <2>2. Current \in Pid
    <3>1. CASE chain = <<>>
      BY <1>1, <3>1 DEF Current
    <3>2. CASE chain # <<>>
      <4>1. chain[Len(chain)] \in Links
        BY <1>1, <3>2
      <4> QED BY <1>3, <3>2, <4>1 DEF Current, Links, Parents
    <3> QED BY <3>1, <3>2
  <2>3. Link(Current) \in Links /\ Link(Current).start = table[Current].start /\ Link(Current).pid = Current
    BY <2>2 DEF Link, Links, Forest, TableType, Procs
  <2>4. table[Current].start \in Nat
    BY <2>2 DEF Forest, TableType, Procs
  <2>5. chain' \in Seq(Links) /\ Len(chain') = Len(chain) + 1 /\ chain'[Len(chain) + 1] = Link(Current)
        /\ \A i \in 1..Len(chain) : chain'[i] = chain[i]
    BY <1>1, <2>1, <2>3
  <2>6. chain'[1].pid = cand.pid /\ cand.start <= chain'[1].start
    <3>1. CASE chain = <<>>
      BY <1>1, <2>3, <2>5, <3>1 DEF Current
    <3>2. CASE chain # <<>>
      BY <1>1, <2>5, <3>2 DEF Seeing, ChainSeen
    <3> QED BY <3>1, <3>2
  <2>7. \A i \in 1..Len(chain') : chain'[i].start <= table[chain'[i].pid].start
    <3> TAKE i \in 1..Len(chain')
    <3>1. CASE i = Len(chain) + 1
      BY <2>3, <2>4, <2>5, <3>1
    <3>2. CASE i # Len(chain) + 1
      <4>1. i \in 1..Len(chain)
        BY <1>1, <2>5, <3>2
      <4> QED BY <2>5, <4>1 DEF Seeing, ChainSeen
    <3> QED BY <3>1, <3>2
  <2>8. \A i \in 1..Len(chain') - 1 : chain'[i].parent = chain'[i + 1].pid
    <3> TAKE i \in 1..Len(chain') - 1
    <3>1. i \in 1..Len(chain) /\ chain'[i] = chain[i]
      BY <1>1, <2>5
    <3>2. CASE i = Len(chain)
      <4>1. Current = chain[Len(chain)].parent
        BY <1>1, <3>1, <3>2 DEF Current
      <4> QED BY <2>3, <2>5, <3>1, <3>2, <4>1
    <3>3. CASE i # Len(chain)
      <4>1. i \in 1..Len(chain) - 1 /\ i + 1 \in 1..Len(chain)
        BY <1>1, <3>1, <3>3
      <4> QED BY <2>5, <3>1, <4>1 DEF Seeing, ChainSeen
    <3> QED BY <3>2, <3>3
  <2>9. ChainSeen'
    BY <1>1, <2>1, <2>5, <2>6, <2>7, <2>8 DEF ChainSeen
  <2>10. HandlesTrue' /\ CandSeen' /\ BackSeen'
    BY <1>1, <2>1 DEF Seeing, HandlesTrue, HandleTrue, CandSeen, BackSeen, Names, Exists
  <2> QED BY <2>9, <2>10 DEF Seeing
<1>4. CASE Current # Guard /\ ~(Current # Elsewhere /\ Current \notin OnChain /\ Exists(Current))
  BY <1>1, <1>4, SkipSees DEF Walk, Skip
<1> QED BY <1>2, <1>3, <1>4

\* A link that reads the same below one of the guard's is the guard's.
LEMMA AgainSees ==
  ASSUME Forest, Seeing, Again
  PROVE  Seeing'
<1> USE DEF Looking, Climbed
<1>1. /\ pc = "again" /\ table' = table /\ handles' = handles /\ chain \in Seq(Links) /\ back > 0
      /\ chain # <<>> /\ back \in 0..Len(chain)
  BY DEF Again, Seeing, BackSeen, ChainSeen, unseen, kernel
<1>2. CASE Unchanged(chain[back])
  <2>1. pc' = "again" /\ back' = back - 1 /\ cand' = cand /\ chain' = chain
    BY <1>1, <1>2 DEF Again
  <2>2. back \in 1..Len(chain) /\ chain[back] \in Links
    BY <1>1
  <2>3. table[chain[back].pid].own /\ Exists(chain[back].pid) /\ chain[back].pid \in Pid
        /\ table[chain[back].pid].start = chain[back].start
    BY <1>1, <1>2, <2>2 DEF Seeing, BackSeen, Unchanged, Link, Links
  <2>4. CASE back = 1
    <3>1. BackSeen'
      BY <1>1, <2>1, <2>3, <2>4 DEF Seeing, BackSeen, Names, Exists
    <3>2. HandlesTrue' /\ CandSeen' /\ ChainSeen'
      BY <1>1, <2>1 DEF Seeing, HandlesTrue, HandleTrue, CandSeen, ChainSeen, Names, Exists
    <3> QED BY <3>1, <3>2 DEF Seeing
  <2>5. CASE back # 1
    <3>1. back - 1 \in 1..Len(chain) - 1 /\ back - 1 \in 1..Len(chain) /\ (back - 1) + 1 = back
      BY <1>1, <2>2, <2>5
    <3>2. chain[back - 1].parent = chain[back].pid /\ chain[back - 1] \in Links
      BY <1>1, <3>1 DEF Seeing, ChainSeen
    <3>3. Unchanged(chain[back - 1]) => table[chain[back - 1].pid].own
      <4> HAVE Unchanged(chain[back - 1])
      <4>1. chain[back - 1].pid \in Pid /\ Exists(chain[back - 1].pid)
            /\ table[chain[back - 1].pid].parent = chain[back].pid
        BY <3>2 DEF Unchanged, Link, Links
      <4> QED BY <2>3, <4>1 DEF Forest, Kinship
    <3>4. BackSeen'
      BY <1>1, <2>1, <2>5, <3>1, <3>3 DEF Seeing, BackSeen, Unchanged, Link, Exists
    <3>5. HandlesTrue' /\ CandSeen' /\ ChainSeen'
      BY <1>1, <2>1 DEF Seeing, HandlesTrue, HandleTrue, CandSeen, ChainSeen, Names, Exists
    <3> QED BY <3>4, <3>5 DEF Seeing
  <2> QED BY <2>4, <2>5
<1>3. CASE ~Unchanged(chain[back])
  BY <1>1, <1>3, SkipSees DEF Again, Skip
<1> QED BY <1>2, <1>3

\* The handle kept names the process that was looked at, or nothing any more.
LEMMA KeepSees ==
  ASSUME Forest, Seeing, Keep
  PROVE  Seeing'
<1> USE DEF Looking, Climbed
<1>1. /\ pc = "again" /\ table' = table /\ back = 0 /\ chain \in Seq(Links) /\ chain # <<>>
      /\ handles' = [handles EXCEPT ![cand.pid] = cand.fd]
      /\ cand' = Nil /\ chain' = <<>> /\ back' = 0 /\ pc' = "pick"
      /\ cand \in Cands /\ cand.fd = cand.start /\ chain[1].pid = cand.pid /\ cand.start <= chain[1].start
      /\ (Names(chain[1].pid, chain[1].start) => table[chain[1].pid].own)
  BY DEF Keep, Skip, Seeing, BackSeen, CandSeen, ChainSeen, unseen, kernel
<1>2. /\ cand.pid \in Pid /\ cand.start \in Nat /\ cand.fd \in Nat /\ 1 \in 1..Len(chain) /\ chain[1] \in Links
      /\ table[cand.pid].start \in Nat
  BY <1>1 DEF Cands, Forest, TableType, Procs
<1>3. chain[1].start \in Nat /\ chain[1].start <= table[cand.pid].start
  BY <1>1, <1>2 DEF Seeing, ChainSeen, Links
<1>4. Names(cand.pid, cand.start) => table[cand.pid].own
  <2> HAVE Names(cand.pid, cand.start)
  <2>1. table[cand.pid].start = cand.start
    BY DEF Names
  <2>2. chain[1].start = cand.start
    BY <1>1, <1>2, <1>3, <2>1
  <2> QED BY <1>1, <2>2
<1>5. HandlesTrue'
  <2>1. handles' \in [Pid -> Nat \cup {Nil}]
    BY <1>1, <1>2 DEF Seeing, HandlesTrue
  <2>2. ASSUME NEW p \in Pid, p # cand.pid PROVE HandleTrue(p)'
    BY <1>1, <1>2, <2>2 DEF Seeing, HandlesTrue, HandleTrue, Names, Exists
  <2>3. handles'[cand.pid] = cand.start
    BY <1>1, <1>2 DEF Seeing, HandlesTrue
  <2>4. cand.start <= table[cand.pid].start
    BY <1>1, <1>2, <1>3
  <2>5. ASSUME NEW p \in Pid, p = cand.pid PROVE HandleTrue(p)'
    BY <1>1, <1>4, <2>3, <2>4, <2>5 DEF HandleTrue, Names, Exists
  <2> QED BY <2>1, <2>2, <2>5 DEF HandlesTrue
<1>6. CandSeen' /\ BackSeen'
  BY <1>1 DEF CandSeen, BackSeen
<1>7. chain' \in Seq(Links) /\ Len(chain') = 0
  BY <1>1
<1>8. ChainSeen'
  BY <1>1, <1>7 DEF ChainSeen
<1> QED BY <1>5, <1>6, <1>8 DEF Seeing


-----------------------------------------------------------------------------
(* The steps of the guard that change the table *)
LEMMA ReapKernel ==
  ASSUME Forest, table' = Reaped
  PROVE  Forest' /\ Grows
<1>1. Dead \in SUBSET Pid /\ \A p \in Dead : ~Live(p)
  BY DEF Dead
<1> QED BY <1>1, FreedKernel DEF Reaped

LEMMA SpawnKernel ==
  ASSUME Forest, table' = Begun(Root, Guard, TRUE), Vacant(Root)
  PROVE  Forest' /\ Grows
<1>1. Root \in Pid /\ Guard \in Parents /\ Guard \notin Pid /\ Guard # Elsewhere /\ TRUE \in BOOLEAN /\ ~Exists(Root)
  BY GuardAssumption DEF Parents, Vacant
<1> QED BY <1>1, BegunKernel

(* The browser's exit, as the guard saw it and as it was *)
Starting == {"fork", "asked", "prepare", "spawn"}
Watching == {"observe", "pick", "open", "confirm", "walk", "again", "reap"}

ExitTrue   == exit # Nil => exit = status
ChildType  == child \in {Root, Nil} /\ exit \in Outcome /\ status \in Outcome
ChildThere == IF child = Nil THEN exit = Nil /\ status = Nil
              ELSE exit = Nil => /\ table[child].own /\ table[child].parent = Guard
                                 /\ status = IF Live(child) THEN Nil ELSE table[child].st
Phased     == /\ phase \in Nat /\ failure \in {"NotStarted", "Faults", Nil}
              /\ pc \in Starting => phase = 0 /\ child = Nil
              /\ phase = 0 /\ pc \notin Starting /\ pc # "ended" => pc \in Watching /\ job = "reap" /\ child # Nil
Watch == ChildType /\ ChildThere /\ ExitTrue /\ Phased

NoneLeft == (pc = "empty" \/ receipt \in {"complete", "normal"}) =>
                /\ \A p \in Pid : ~table[p].own
                /\ receipt \in {"complete", "normal"} => pc = "ended"

GInv == Forest /\ Seeing /\ Watch /\ NoneLeft /\ KeptRunning /\ NeverOrphaned

\* A step of the kernel, once the browser was started.
LEMMA KernelStep ==
  ASSUME GInv, World, Forest', Grows, status' \in Outcome,
         \A p \in Pid : ~table[p].own => ~table'[p].own \/ \E q \in Pid : table[q].own,
         ChildThere', ExitTrue', status # Nil => status' # Nil
  PROVE  GInv'
<1>1. Seeing'
  <2>1. pc' = pc /\ UNCHANGED seeing
    BY DEF World
  <2> QED BY <2>1, SeeingStays DEF GInv
<1>2. Watch'
  BY DEF GInv, Watch, World, ChildType, Phased, control
<1>3. NoneLeft'
  BY DEF GInv, NoneLeft, World
<1>4. KeptRunning' /\ NeverOrphaned'
  BY DEF GInv, World, KeptRunning, NeverOrphaned, control
<1> QED BY <1>1, <1>2, <1>3, <1>4 DEF GInv

\* Processes start under living parents.
LEMMA StartKeeps ==
  ASSUME GInv, NEW q \in Pid, Arrive(q) \/ \E p \in Pid : Fork(p, q)
  PROVE  GInv'
<1>1. PICK above \in Parents, mine \in BOOLEAN :
         /\ table' = Begun(q, above, mine) /\ above # Guard
         /\ above = Elsewhere => ~mine
         /\ above \in Pid => Live(above) /\ mine = table[above].own
  <2>1. CASE Arrive(q)
    <3>1. Elsewhere \in Parents /\ Elsewhere # Guard /\ Elsewhere \notin Pid
      BY GuardAssumption DEF Parents
    <3> QED BY <2>1, <3>1 DEF Arrive
  <2>2. CASE \E p \in Pid : Fork(p, q)
    <3>1. PICK p \in Pid : Fork(p, q)
      BY <2>2
    <3>2. p \in Parents /\ p # Guard /\ p # Elsewhere
      BY GuardAssumption DEF Parents
    <3>3. table[p].own \in BOOLEAN
      BY DEF GInv, Forest, TableType, Procs
    <3> QED BY <3>1, <3>2, <3>3 DEF Fork
  <2> QED BY <2>1, <2>2
<1>2. World /\ ~Exists(q) /\ status' = status
  BY DEF Arrive, Fork, Vacant
<1>3. Forest' /\ Grows
  BY <1>1, <1>2, BegunKernel DEF GInv
<1>4. /\ \A p \in Pid \ {q} : table'[p] = table[p]
      /\ table'[q].own = mine
  BY <1>1 DEF Begun, GInv, Forest, TableType
<1>5. \A p \in Pid : ~table[p].own => ~table'[p].own \/ \E r \in Pid : table[r].own
  <2>1. mine => \E r \in Pid : table[r].own
    BY <1>1 DEF Parents
  <2> QED BY <1>4, <2>1
<1>6. ChildThere' /\ ExitTrue'
  <2>1. child' = child /\ exit' = exit
    BY <1>2 DEF World
  <2>2. child # Nil /\ exit = Nil => child \in Pid /\ child # q
    BY <1>2, GuardAssumption DEF GInv, Watch, ChildType, ChildThere, Forest, Kinship
  <2>3. child # Nil /\ exit = Nil => table'[child] = table[child]
    BY <1>4, <2>2
  <2> QED BY <1>2, <2>1, <2>3 DEF GInv, Watch, ChildThere, ExitTrue, Live
<1>7. status' \in Outcome
  BY <1>2 DEF GInv, Watch, ChildType
<1> QED BY <1>2, <1>3, <1>5, <1>6, <1>7, KernelStep

LEMMA CollectedKeeps ==
  ASSUME GInv, NEW p \in Pid, Collected(p)
  PROVE  GInv'
<1>1. /\ World /\ ~Live(p) /\ table[p].parent # Guard /\ status' = status
      /\ table' = [table EXCEPT ![p] = Freed(p)]
  BY DEF Collected
<1>2. table' = [q \in Pid |-> IF q \in {p} THEN Freed(q) ELSE table[q]]
  BY <1>1 DEF GInv, Forest, TableType
<1>3. Forest' /\ Grows
  BY <1>1, <1>2, FreedKernel DEF GInv
<1>4. \A q \in Pid : ~table[q].own => ~table'[q].own
  BY <1>2 DEF Freed
<1>5. ChildThere' /\ ExitTrue'
  <2>1. child' = child /\ exit' = exit
    BY <1>1 DEF World
  <2>2. child # Nil /\ exit = Nil => child \in Pid /\ table'[child] = table[child]
    BY <1>1, <1>2, GuardAssumption DEF GInv, Watch, ChildType, ChildThere
  <2> QED BY <1>1, <2>1, <2>2 DEF GInv, Watch, ChildThere, ExitTrue, Live
<1>6. status' \in Outcome
  BY <1>1 DEF GInv, Watch, ChildType
<1> QED BY <1>1, <1>3, <1>4, <1>5, <1>6, KernelStep

LEMMA ExitKeeps ==
  ASSUME GInv, NEW p \in Pid, NEW code \in {"zero", "bad"}, Exit(p, code)
  PROVE  GInv'
<1>1. World /\ Live(p) /\ status' = IF p = child /\ status = Nil THEN code ELSE status
  BY DEF Exit
<1>2. Forest' /\ Grows
  BY ExitKernel DEF GInv
<1>3. /\ table[p].own => table'[p] = [table[p] EXCEPT !.st = code]
      /\ ~table[p].own => table'[p] = Freed(p)
      /\ \A q \in Pid \ {p} : IF Exists(q) /\ table[q].parent = p
                              THEN table'[q] = [table[q] EXCEPT !.parent = IF table[q].own THEN Guard ELSE Elsewhere]
                              ELSE table'[q] = table[q]
  BY DEF Exit
<1>4. \A q \in Pid : ~table[q].own => ~table'[q].own
  <2> USE DEF GInv, Forest, TableType, Procs
  <2>1. ~table[p].own => ~table'[p].own
    BY <1>3 DEF Freed
  <2>2. \A q \in Pid \ {p} : table'[q].own = table[q].own
    BY <1>3
  <2> QED BY <2>1, <2>2
<1>5. ChildThere' /\ ExitTrue'
  <2> USE DEF Outcome
  <2>0. Guard \notin Pid /\ Root \in Pid /\ Nil \notin Pid /\ code # Nil
    BY GuardAssumption
  <2>1. child' = child /\ exit' = exit /\ child \in {Root, Nil}
    BY <1>1 DEF World, GInv, Watch, ChildType
  <2>2. CASE child = Nil
    BY <1>1, <2>0, <2>1, <2>2 DEF GInv, Watch, ChildThere, ExitTrue
  <2>3. CASE child # Nil /\ exit = Nil
    <3>1. table[child].own /\ table[child].parent = Guard /\ status = IF Live(child) THEN Nil ELSE table[child].st
      BY <2>3 DEF GInv, Watch, ChildThere
    <3>2. child \in Pid
      BY <2>0, <2>1, <2>3
    <3>3. CASE p = child
      <4>1. status' = code
        BY <1>1, <3>1, <3>3
      <4>2. table'[child] = [table[child] EXCEPT !.st = code] /\ table[child] \in Procs
        BY <1>3, <3>1, <3>2, <3>3 DEF GInv, Forest, TableType
      <4>3. table'[child].own /\ table'[child].parent = Guard /\ table'[child].st = code
        BY <3>1, <4>2 DEF Procs
      <4> QED BY <2>1, <2>3, <4>1, <4>3 DEF ChildThere, ExitTrue, Live
    <3>4. CASE p # child
      <4>1. table'[child] = table[child]
        BY <1>3, <2>0, <3>1, <3>2, <3>4
      <4> QED BY <1>1, <2>1, <2>3, <3>1, <3>4, <4>1 DEF ChildThere, ExitTrue, Live
    <3> QED BY <3>3, <3>4
  <2>4. CASE child # Nil /\ exit # Nil
    <3>1. status = exit
      BY <2>4 DEF GInv, Watch, ExitTrue
    <3> QED BY <1>1, <2>1, <2>4, <3>1 DEF ChildThere, ExitTrue
  <2> QED BY <2>2, <2>3, <2>4
<1>6. status' \in Outcome /\ (status # Nil => status' # Nil)
  BY <1>1 DEF GInv, Watch, ChildType, Outcome
<1> QED BY <1>1, <1>2, <1>4, <1>5, <1>6, KernelStep


-----------------------------------------------------------------------------
(* The guard's own steps *)

\* Steps that leave the browser and the table alone.
LEMMA QuietKeeps ==
  ASSUME GInv, UNCHANGED <<kernel, child, exit>>, Seeing', Phased', NoneLeft', KeptRunning', NeverOrphaned'
  PROVE  GInv'
<1>1. Forest'
  BY StillKernel DEF GInv, kernel
<1>2. ChildType' /\ ChildThere' /\ ExitTrue'
  BY DEF GInv, Watch, ChildType, ChildThere, ExitTrue, Live, kernel
<1> QED BY <1>1, <1>2 DEF GInv, Watch

\* Steps that also leave alone what was seen.
LEMMA BlindKeeps ==
  ASSUME GInv, UNCHANGED <<kernel, child, exit, seeing>>, pc \notin Looking, pc' \notin Looking,
         Phased', NoneLeft', KeptRunning', NeverOrphaned'
  PROVE  GInv'
<1>1. Forest' /\ Grows
  BY StillKernel DEF GInv, kernel
<1>2. Seeing'
  BY <1>1, SeeingStays DEF GInv
<1> QED BY <1>2, QuietKeeps

LEMMA StartingKeeps ==
  ASSUME GInv, Arm \/ AskParent \/ Prepare \/ ParentDies
  PROVE  GInv'
<1> USE DEF Starting, Watching, Looking, control
<1>1. /\ UNCHANGED <<kernel, child, exit, seeing, control, stop>>
      /\ pc \in {"fork", "asked", "prepare"}
      /\ pc' \in {"fork", "asked", "prepare", "spawn", "ended"} /\ (pc' # "spawn" \/ pc = "prepare")
  BY DEF Arm, AskParent, Prepare, ParentDies
<1>2. pc' \notin Looking /\ pc \notin Looking
  BY <1>1 DEF Arm, AskParent, Prepare, ParentDies
<1>3. Phased'
  BY <1>1 DEF GInv, Watch, Phased, Arm, AskParent, Prepare, ParentDies
<1>4. NoneLeft'
  BY <1>1 DEF GInv, NoneLeft, Arm, AskParent, Prepare, ParentDies, kernel
<1>5. KeptRunning' /\ NeverOrphaned'
  BY <1>1 DEF GInv, KeptRunning, NeverOrphaned, Arm, AskParent, Prepare, ParentDies, kernel
<1> QED BY <1>1, <1>2, <1>3, <1>4, <1>5, BlindKeeps

LEMMA StopKeeps ==
  ASSUME GInv, StopRequested
  PROVE  GInv'
<1>1. UNCHANGED <<kernel, parent, pc, seeing, control, child, exit, receipt>> /\ stop'
  BY DEF StopRequested
<1>2. Forest' /\ Grows
  BY <1>1, StillKernel DEF GInv, kernel
<1>3. Seeing'
  BY <1>1, <1>2, SeeingStays DEF GInv
<1>4. Phased' /\ NoneLeft' /\ KeptRunning' /\ NeverOrphaned'
  BY <1>1 DEF GInv, Watch, Phased, NoneLeft, KeptRunning, NeverOrphaned, control, kernel
<1> QED BY <1>1, <1>3, <1>4, QuietKeeps

LEMMA SpawnKeeps ==
  ASSUME GInv, Spawn
  PROVE  GInv'
<1> USE DEF Starting, Watching, Looking, Outcome
<1>0. Root \in Pid /\ Nil \notin Pid /\ Nil # "NotStarted"
  BY GuardAssumption
<1>1. /\ pc = "spawn" /\ pc' = "observe" /\ phase = 0 /\ child = Nil
      /\ UNCHANGED <<status, parent, stop, seeing, exit, receipt>>
  BY DEF Spawn, Enter, GInv, Watch, Phased
<1>2. NeverOrphaned' /\ receipt \notin {"complete", "normal"} /\ parent
  BY <1>1 DEF GInv, NeverOrphaned, NoneLeft
<1>3. NoneLeft'
  BY <1>1, <1>2 DEF NoneLeft
<1>4. CASE Enter(1, "NotStarted") /\ UNCHANGED <<child, table>>
  <2>1. phase' = 1 /\ failure' = "NotStarted"
    BY <1>4 DEF Enter
  <2>2. Phased' /\ KeptRunning'
    BY <1>0, <1>1, <2>1 DEF Phased, KeptRunning
  <2> QED BY <1>1, <1>2, <1>3, <1>4, <2>2, BlindKeeps DEF kernel
<1>5. CASE ~stop /\ Vacant(Root) /\ table' = Begun(Root, Guard, TRUE) /\ child' = Root /\ Enter(0, Nil)
  <2>1. Forest' /\ Grows
    BY <1>5, SpawnKernel DEF GInv
  <2>2. Seeing'
    BY <1>1, <2>1, SeeingStays DEF GInv
  <2>3. phase' = 0 /\ failure' = Nil /\ job' = "reap"
    BY <1>5 DEF Enter
  <2>4. Phased' /\ KeptRunning'
    BY <1>0, <1>1, <1>5, <2>3 DEF Phased, KeptRunning
  <2>5. exit = Nil /\ status = Nil
    BY <1>1 DEF GInv, Watch, ChildThere
  <2>6. table'[Root].own /\ table'[Root].parent = Guard /\ table'[Root].st = "live"
    BY <1>0, <1>5 DEF Begun, GInv, Forest, TableType
  <2>7. ChildType' /\ ChildThere' /\ ExitTrue'
    BY <1>0, <1>1, <1>5, <2>5, <2>6 DEF ChildType, ChildThere, ExitTrue, Live
  <2> QED BY <1>2, <1>3, <2>1, <2>2, <2>4, <2>7 DEF GInv, Watch
<1> QED BY <1>4, <1>5 DEF Spawn

\* Steps that read /proc.
LEMMA ReadingKeeps ==
  ASSUME GInv, \/ Observe \/ ObserveFails \/ (\E p \in Pid : Pick(p)) \/ PickNone \/ Open \/ Confirm
               \/ Walk \/ Again \/ Keep
  PROVE  GInv'
<1> USE DEF Watching, Starting, Looking
<1>1. UNCHANGED unseen
  BY DEF Observe, ObserveFails, Pick, PickNone, Open, Confirm, Walk, Again, Keep
<1>2. UNCHANGED <<kernel, parent, stop, phase, job, faults, failure, child, exit, receipt>>
  BY <1>1 DEF unseen, control
<1>3. pc \in Watching \ {"reap"} /\ (pc' \in Watching \ {"reap"} \/ pc' = Observed)
  BY DEF Observe, ObserveFails, Pick, PickNone, Open, Confirm, Walk, Again, Keep, Skip
<1>4. pc' \in Watching \cup {"signal"} /\ (job = "reap" => pc' \in Watching)
  BY <1>3 DEF Observed
<1>5. Phased' /\ NoneLeft' /\ KeptRunning' /\ NeverOrphaned'
  BY <1>2, <1>3, <1>4 DEF GInv, Watch, Phased, NoneLeft, KeptRunning, NeverOrphaned, kernel
<1>6. Seeing'
  <2>1. CASE ObserveFails
    <3>1. pc' \notin Looking
      BY <2>1 DEF ObserveFails, Observed
    <3> QED BY <1>2, <2>1, <3>1, SkipSees DEF GInv, ObserveFails, kernel
  <2>2. CASE PickNone
    <3>1. pc = "pick" /\ pc' \notin Looking /\ UNCHANGED seeing /\ UNCHANGED table
      BY <1>2, <2>2 DEF PickNone, Observed, kernel
    <3>2. Forest' /\ Grows
      BY <3>1, StillKernel DEF GInv
    <3> QED BY <3>1, <3>2, SeeingStays DEF GInv
  <2> QED BY <2>1, <2>2, ObserveSees, PickSees, OpenSees, ConfirmSees, WalkSees, AgainSees, KeepSees DEF GInv
<1> QED BY <1>2, <1>5, <1>6, QuietKeeps

\* Steps of the drain that only decide what comes next.
LEMMA DrainKeeps ==
  ASSUME GInv, Signal \/ DuePassed \/ DueLater \/ Write
  PROVE  GInv'
<1> USE DEF Watching, Starting, Looking, control
<1>1. /\ UNCHANGED <<kernel, parent, stop, seeing, failure, child, exit>>
      /\ pc \in {"signal", "due", "empty", "short"}
      /\ pc' \in {"observe", "due", "final", "ended"}
  BY DEF Signal, DuePassed, DueLater, Write, Enter
<1>2. phase \in Nat /\ phase # 0
  BY <1>1 DEF GInv, Watch, Phased
<1>3. phase' \in Nat /\ phase' # 0
  BY <1>2 DEF Signal, DuePassed, DueLater, Write, Enter
<1>4. Phased'
  BY <1>1, <1>3 DEF GInv, Watch, Phased
<1>5. KeptRunning' /\ NeverOrphaned'
  BY <1>1, <1>2, <1>3 DEF GInv, KeptRunning, NeverOrphaned, kernel
<1>6. NoneLeft'
  <2>1. CASE Write
    <3>1. pc' = "ended" /\ UNCHANGED table /\ (receipt' \in {"complete", "normal"} => pc = "empty")
      BY <2>1 DEF Write, kernel
    <3> QED BY <3>1 DEF GInv, NoneLeft
  <2>2. CASE Signal \/ DuePassed \/ DueLater
    <3>1. receipt' = receipt /\ receipt \notin {"complete", "normal"} /\ pc' # "empty"
      BY <1>1, <2>2 DEF GInv, NoneLeft, Signal, DuePassed, DueLater, Enter
    <3> QED BY <3>1 DEF NoneLeft
  <2> QED BY <2>1, <2>2
<1>7. pc \notin Looking /\ pc' \notin Looking
  BY <1>1
<1> QED BY <1>1, <1>4, <1>5, <1>6, <1>7, BlindKeeps


\* What a reap leaves: the exit it saw is the browser's.
LEMMA ReapTrue ==
  ASSUME GInv, Reap, UNCHANGED <<status, child>>
  PROVE  ChildType' /\ ChildThere' /\ ExitTrue'
<1> USE DEF Outcome
<1>0. Root \in Pid /\ Nil \notin Pid
  BY GuardAssumption
<1>1. /\ table' = [p \in Pid |-> IF p \in Dead THEN Freed(p) ELSE table[p]]
      /\ exit' = IF child \in Dead /\ exit = Nil THEN table[child].st ELSE exit
  BY DEF Reap, Reaped, ExitSeen
<1>2. CASE child = Nil
  <2>1. child \notin Dead
    BY <1>0, <1>2 DEF Dead
  <2> QED BY <1>1, <1>2, <2>1 DEF GInv, Watch, ChildType, ChildThere, ExitTrue
<1>3. CASE child # Nil /\ exit # Nil
  BY <1>1, <1>3 DEF GInv, Watch, ChildType, ChildThere, ExitTrue
<1>4. CASE child # Nil /\ exit = Nil
  <2>1. /\ child = Root /\ child \in Pid /\ table[child].own /\ table[child].parent = Guard
        /\ status = IF Live(child) THEN Nil ELSE table[child].st
        /\ status \in Outcome
    BY <1>0, <1>4 DEF GInv, Watch, ChildType, ChildThere
  <2>2. CASE child \in Dead
    <3>1. exit' = status /\ status # Nil
      <4>1. ~Live(child) /\ Exists(child)
        BY <2>2 DEF Dead, Mine
      <4>2. table[child].st \in {"zero", "bad"}
        BY <2>1, <4>1 DEF GInv, Forest, TableType, Procs, Live, Exists
      <4>3. Nil \notin {"zero", "bad"}
        BY GuardAssumption
      <4> QED BY <1>1, <1>4, <2>1, <2>2, <4>1, <4>2, <4>3
    <3> QED BY <1>4, <2>1, <3>1 DEF ChildType, ChildThere, ExitTrue
  <2>3. CASE child \notin Dead
    <3>1. exit' = exit /\ table'[child] = table[child]
      BY <1>1, <2>1, <2>3
    <3> QED BY <1>4, <2>1, <3>1 DEF ChildType, ChildThere, ExitTrue, Live
  <2> QED BY <2>2, <2>3
<1> QED BY <1>2, <1>3, <1>4

\* A reap after which the guard has no child leaves nobody: the top of any that were left would be a child.
LEMMA ReapEmpties ==
  ASSUME GInv, Reap, Childless
  PROVE  \A p \in Pid : ~table'[p].own
<1>1. table' = [p \in Pid |-> IF p \in Dead THEN Freed(p) ELSE table[p]]
  BY DEF Reap, Reaped
<1>2. Forest'
  BY ReapKernel DEF Reap, GInv
<1>3. \A q \in Pid : ~(table'[q].own /\ table'[q].parent = Guard)
  <2> SUFFICES ASSUME NEW q \in Pid, table'[q].own, table'[q].parent = Guard PROVE FALSE
    OBVIOUS
  <2>1. q \notin Dead /\ table'[q] = table[q]
    BY <1>1 DEF Freed
  <2>2. Mine(q)
    BY <2>1 DEF Mine, GInv, Forest, Kinship
  <2> QED BY <2>1, <2>2 DEF Childless
<1> DEFINE S == {p \in Pid : table'[p].own}
<1>4. CASE S # {}
  <2>1. S \in SUBSET Pid /\ \A p \in S : table'[p].own
    OBVIOUS
  <2>2. PICK q \in S : table'[q].parent \notin S
    BY <1>2, <1>4, <2>1 DEF Forest, Rooted
  <2>3. q \in Pid /\ table'[q].own /\ table'[q].st # "free" /\ table'[q].parent # Elsewhere
    BY <1>2 DEF Forest, Kinship, Exists
  <2>4. table'[q].parent \in Pid
    <3>1. table'[q].parent \in Parents
      BY <1>2, <2>3 DEF Forest, TableType, Procs
    <3> QED BY <1>3, <2>3, <3>1 DEF Parents
  <2>5. table'[table'[q].parent].own
    BY <1>2, <2>3, <2>4 DEF Forest, Kinship, Exists
  <2> QED BY <2>2, <2>4, <2>5
<1>5. CASE S = {}
  BY <1>5
<1> QED BY <1>4, <1>5

\* A browser that was started and not reaped is a child of the guard.
LEMMA ChildHeld ==
  ASSUME GInv, Reap, child # Nil, Childless
  PROVE  exit' # Nil
<1>1. CASE exit = Nil
  <2>1. child \in Pid /\ table[child].own /\ table[child].parent = Guard
    BY <1>1, GuardAssumption DEF GInv, Watch, ChildType, ChildThere
  <2>2. Mine(child)
    BY <2>1 DEF Mine, GInv, Forest, Kinship
  <2>3. child \in Dead
    BY <2>1, <2>2 DEF Childless
  <2>4. exit' = table[child].st /\ table[child].st \in {"zero", "bad"}
    BY <1>1, <2>1, <2>3 DEF Reap, ExitSeen, Dead, Mine, Exists, Live, GInv, Forest, TableType, Procs
  <2> QED BY <2>4, GuardAssumption
<1>2. CASE exit # Nil
  BY <1>2 DEF Reap, ExitSeen
<1> QED BY <1>1, <1>2

\* Steps that reap, or fail to.
LEMMA ReapKeeps ==
  ASSUME GInv, Reap \/ UNCHANGED <<table, exit>>, UNCHANGED <<status, child, seeing>>,
         pc \notin Looking, pc' \notin Looking, Phased', NoneLeft', KeptRunning', NeverOrphaned'
  PROVE  GInv'
<1>1. Forest' /\ Grows
  BY ReapKernel, StillKernel DEF GInv, Reap
<1>2. Seeing'
  BY <1>1, SeeingStays DEF GInv
<1>3. ChildType' /\ ChildThere' /\ ExitTrue'
  <2>1. CASE Reap
    BY <2>1, ReapTrue
  <2>2. CASE UNCHANGED <<table, exit>>
    BY <2>2 DEF GInv, Watch, ChildType, ChildThere, ExitTrue, Live
  <2> QED BY <2>1, <2>2
<1> QED BY <1>1, <1>2, <1>3 DEF GInv, Watch

LEMMA TickKeeps ==
  ASSUME GInv, Tick \/ TickFails
  PROVE  GInv'
<1> USE DEF Watching, Starting, Looking
<1>0. Nil # "Faults"
  BY GuardAssumption
<1>1. /\ pc = "reap" /\ phase = 0 /\ pc' = "observe"
      /\ UNCHANGED <<status, parent, stop, seeing, child, receipt>>
      /\ Reap \/ UNCHANGED <<table, exit>>
  BY DEF Tick, TickFails, Enter
<1>2. child # Nil /\ job = "reap" /\ parent /\ receipt \notin {"complete", "normal"}
  BY <1>1 DEF GInv, Watch, Phased, NeverOrphaned, NoneLeft
<1>3. NoneLeft' /\ NeverOrphaned'
  BY <1>1, <1>2 DEF NoneLeft, NeverOrphaned
<1>4. \/ phase' = 1 /\ failure' = "Faults"
      \/ phase' = 1 /\ failure' = Nil /\ (stop \/ exit' # Nil)
      \/ UNCHANGED <<phase, failure, job>>
  <2>1. CASE Tick
    <3>1. Reap
      BY <2>1 DEF Tick
    <3>2. ~(Childless /\ exit' = Nil)
      BY <1>2, <3>1, ChildHeld
    <3> QED BY <2>1, <3>2 DEF Tick, Enter
  <2>2. CASE TickFails
    BY <2>2 DEF TickFails, Enter
  <2> QED BY <2>1, <2>2
<1>5. exit' # Nil => status' # Nil
  <2>1. CASE Reap
    BY <1>1, <2>1, ReapTrue DEF ExitTrue
  <2>2. CASE UNCHANGED <<table, exit>>
    BY <1>1, <2>2 DEF GInv, Watch, ExitTrue
  <2> QED BY <1>1, <2>1, <2>2
<1>6. Phased'
  BY <1>1, <1>2, <1>4 DEF Phased, GInv, Watch
<1>7. KeptRunning'
  BY <1>0, <1>1, <1>4, <1>5 DEF KeptRunning
<1> QED BY <1>1, <1>3, <1>6, <1>7, ReapKeeps

LEMMA FinalKeeps ==
  ASSUME GInv, DrainReap \/ Final
  PROVE  GInv'
<1> USE DEF Watching, Starting, Looking
<1>1. /\ pc \in {"reap", "final"} /\ pc' \in {"final", "due", "observe", "empty", "short"}
      /\ UNCHANGED <<status, parent, stop, seeing, phase, failure, child, receipt>>
      /\ Reap \/ UNCHANGED <<table, exit>>
      /\ pc' = "empty" => Reap /\ Childless
  BY DEF DrainReap, Final, control
<1>2. phase \in Nat /\ phase # 0
  BY <1>1 DEF GInv, Watch, Phased, DrainReap, Final
<1>3. Phased' /\ NeverOrphaned' /\ KeptRunning' /\ receipt \notin {"complete", "normal"}
  BY <1>1, <1>2 DEF GInv, Watch, Phased, NeverOrphaned, KeptRunning, NoneLeft
<1>4. NoneLeft'
  BY <1>1, <1>3, ReapEmpties DEF NoneLeft
<1> QED BY <1>1, <1>3, <1>4, ReapKeeps

-----------------------------------------------------------------------------
LEMMA GuardBegins == Init => GInv
<1> SUFFICES ASSUME Init PROVE GInv
  OBVIOUS
<1> USE DEF Init
<1>0. Guard \notin Pid /\ Elsewhere \notin Pid /\ Guard # Elsewhere /\ Nil \notin Nat
  BY GuardAssumption
<1>1. \A p \in Pid : table[p].own = FALSE /\ table[p].parent = Elsewhere
  OBVIOUS
<1>2. TableType
  BY DEF TableType, Procs, Parents
<1>3. Forest
  BY <1>0, <1>1, <1>2 DEF Forest, Kinship, Rooted
<1>4. chain \in Seq(Links) /\ Len(chain) = 0
  OBVIOUS
<1>5. Seeing
  BY <1>4 DEF Seeing, HandlesTrue, HandleTrue, CandSeen, ChainSeen, BackSeen, Looking, Climbed
<1>6. Watch
  BY DEF Watch, ChildType, ChildThere, ExitTrue, Phased, Outcome, Starting
<1>7. NoneLeft /\ KeptRunning /\ NeverOrphaned
  BY DEF NoneLeft, KeptRunning, NeverOrphaned
<1> QED BY <1>3, <1>5, <1>6, <1>7 DEF GInv

LEMMA GuardKept == GInv /\ [Next]_vars => GInv'
<1> SUFFICES ASSUME GInv, [Next]_vars PROVE GInv'
  OBVIOUS
<1>1. CASE Steps
  BY <1>1, StartingKeeps, SpawnKeeps, ReadingKeeps, TickKeeps, DrainKeeps, FinalKeeps DEF Steps
<1>2. CASE ParentDies \/ StopRequested
  BY <1>2, StartingKeeps, StopKeeps
<1>3. ASSUME NEW p \in Pid, Arrive(p) \/ Collected(p) \/ \E code \in {"zero", "bad"} : Exit(p, code)
      PROVE  GInv'
  BY <1>3, StartKeeps, CollectedKeeps, ExitKeeps
<1>4. ASSUME NEW p \in Pid, NEW q \in Pid, Fork(p, q) PROVE GInv'
  BY <1>4, StartKeeps
<1>5. CASE UNCHANGED vars
  <2>1. UNCHANGED <<kernel, child, exit, seeing, pc, phase, job, failure, receipt, stop, parent>>
    BY <1>5 DEF vars, control
  <2>2. Forest' /\ Grows
    BY <2>1, StillKernel DEF GInv, kernel
  <2>3. Seeing'
    BY <2>1, <2>2, SeeingStays DEF GInv
  <2>4. Phased' /\ NoneLeft' /\ KeptRunning' /\ NeverOrphaned'
    BY <2>1 DEF GInv, Watch, Phased, NoneLeft, KeptRunning, NeverOrphaned, kernel
  <2> QED BY <2>1, <2>3, <2>4, QuietKeeps
<1> QED BY <1>1, <1>2, <1>3, <1>4, <1>5 DEF Next

\* A handle that still names its process names one of the browser's tree.
LEMMA GuardSignals == GInv => SignalsOnlyOwn
<1> SUFFICES ASSUME GInv, NEW p \in Targets PROVE table[p].own
  BY DEF SignalsOnlyOwn
<1>1. CASE p \in Pid /\ Names(p, handles[p])
  <2>1. handles[p] # Nil
    <3>1. table[p].start = handles[p] /\ table[p].start \in Nat
      BY <1>1 DEF Names, GInv, Forest, TableType, Procs
    <3> QED BY <3>1, GuardAssumption
  <2> QED BY <1>1, <2>1 DEF GInv, Seeing, HandlesTrue, HandleTrue
<1>2. CASE child # Nil /\ exit = Nil /\ p = child
  BY <1>2 DEF GInv, Watch, ChildThere
<1> QED BY <1>1, <1>2 DEF Targets

\* What the guard knows of the browser's exit and end is so.
LEMMA GuardReports == GInv => Supervised
<1> SUFFICES ASSUME GInv PROVE Supervised
  OBVIOUS
<1>1. RootExitTrue
  BY GuardAssumption DEF GInv, Watch, ExitTrue, Phased, RootExitTrue
<1>2. CompleteLeavesNone
  BY DEF GInv, NoneLeft, CompleteLeavesNone
<1> QED BY <1>1, <1>2 DEF GInv, Supervised

\* What was seen of /proc stays true of what is there, whatever happens between two reads: the
\* strengthening the two theorems below rest on.
THEOREM GuardInvariance == Spec => []GInv
BY GuardBegins, GuardKept, PTL DEF Spec

\* Whatever ids are reused while /proc is read, a signal only reaches the browser's own tree.
THEOREM GuardSignalsOnlyOwn == Spec => []SignalsOnlyOwn
BY GuardSignals, GuardInvariance, PTL

\* The exit and the end a receipt reports are true, a browser that nothing asked to end is not ended,
\* and no guard starts one after its App has ended.
THEOREM GuardSupervises == Spec => []Supervised
BY GuardReports, GuardInvariance, PTL

------------------------------------------------------------------------------
\* The guard's types: how many processes start, and how long a walk up to the guard gets.

GuardPlaces == {"fork", "asked", "prepare", "spawn", "observe", "pick", "open", "confirm", "walk", "again",
                "reap", "signal", "due", "final", "empty", "short", "ended"}
Receipts    == {"none", "empty", "incomplete", "complete", "normal"}
\* The guard's own variables.
GuardTyped == /\ parent \in BOOLEAN /\ stop \in BOOLEAN /\ pc \in GuardPlaces /\ phase \in 0..LastPhase
              /\ job \in {"reap", "first", "next"} /\ faults \in 0..MaxFaults - 1 /\ receipt \in Receipts
\* No id starts more processes than are let start.
StartsFew  == \A p \in Pid : table[p].start <= MaxBorn
\* A walk up to the guard comes by no process twice.
Straight   == /\ \A i, j \in 1..Len(chain) : chain[i].pid = chain[j].pid => i = j
              /\ pc # "again" => back = 0
GuardBounds == GuardTyped /\ StartsFew /\ Straight

\* An id that may start another process has started fewer than the bound.
LEMMA RoomToStart == ASSUME TableType, StartsFew, NEW q \in Pid, Vacant(q) PROVE table[q].start + 1 <= MaxBorn
<1>1. PICK n \in Nat : n = table[q].start
  BY DEF TableType, Procs
<1>2. n <= MaxBorn /\ MaxBorn \in Nat
  BY <1>1, GuardAssumption DEF StartsFew
<1>3. IsFiniteSet(1..MaxBorn) /\ IsFiniteSet(1..n) /\ Cardinality(1..n) = n
  <2>1. 1 \in Int /\ n \in Int /\ MaxBorn \in Int
    BY <1>2
  <2>2. IsFiniteSet(1..MaxBorn)
    BY <2>1, FS_Interval
  <2>3. IsFiniteSet(1..n) /\ Cardinality(1..n) = IF 1 > n THEN 0 ELSE n - 1 + 1
    BY <2>1, FS_Interval
  <2> QED BY <2>2, <2>3
<1>4. IsFiniteSet(Pid \X (1..MaxBorn))
  BY <1>3, PidAssumption, FS_Product
<1>5. IsFiniteSet(Born) /\ Cardinality(Born) \in Nat
  <2>1. Born \in SUBSET (Pid \X (1..MaxBorn))
    BY DEF Born
  <2> QED BY <1>4, <2>1, FS_Subset, FS_CardinalityType
<1>6. {q} \X (1..n) \in SUBSET Born
  BY <1>1, <1>2 DEF Born
<1>7. Cardinality({q} \X (1..n)) = n
  <2>1. IsFiniteSet({q}) /\ Cardinality({q}) = 1
    BY FS_Singleton
  <2>2. Cardinality({q} \X (1..n)) = Cardinality({q}) * Cardinality(1..n)
    BY <1>3, <2>1, FS_Product
  <2> QED BY <1>3, <2>1, <2>2
<1>8. n <= Cardinality(Born)
  BY <1>5, <1>6, <1>7, FS_Subset
<1> QED BY <1>1, <1>2, <1>5, <1>8 DEF Vacant

\* A process begins.
LEMMA BegunFew == ASSUME TableType, StartsFew, NEW q \in Pid, Vacant(q), NEW above, NEW mine,
                         table' = Begun(q, above, mine)
                  PROVE  StartsFew'
<1>1. table[q].start + 1 <= MaxBorn
  BY RoomToStart
<1>2. table'[q].start = table[q].start + 1 /\ \A p \in Pid \ {q} : table'[p] = table[p]
  BY DEF Begun, TableType
<1> QED BY <1>1, <1>2 DEF StartsFew

\* Every other step leaves the start times alone.
LEMMA OthersFew == ASSUME TableType, StartsFew
                   PROVE  /\ \A p \in Pid : table' = [table EXCEPT ![p] = Freed(p)] => StartsFew'
                          /\ \A p \in Pid, code \in {"zero", "bad"} : Exit(p, code) => StartsFew'
                          /\ table' = Reaped => StartsFew'
                          /\ UNCHANGED table => StartsFew'
<1>1. ASSUME NEW p \in Pid, table' = [table EXCEPT ![p] = Freed(p)] PROVE StartsFew'
  <2>1. \A q \in Pid : table'[q].start = table[q].start
    BY <1>1 DEF Freed, TableType
  <2> QED BY <2>1 DEF StartsFew
<1>2. ASSUME NEW p \in Pid, NEW code \in {"zero", "bad"}, Exit(p, code) PROVE StartsFew'
  <2>1. \A q \in Pid : table'[q].start = table[q].start
    <3>1. \A q \in Pid : [table[q] EXCEPT !.st = code].start = table[q].start
      BY DEF TableType, Procs
    <3>2. \A q \in Pid, up \in {Guard, Elsewhere} : [table[q] EXCEPT !.parent = up].start = table[q].start
      BY DEF TableType, Procs
    <3>3. Freed(p).start = table[p].start
      BY DEF Freed
    <3> QED BY <1>2, <3>1, <3>2, <3>3 DEF Exit
  <2> QED BY <2>1 DEF StartsFew
<1>3. ASSUME table' = Reaped PROVE StartsFew'
  <2>1. \A q \in Pid : table'[q].start = table[q].start
    BY <1>3 DEF Reaped, Freed
  <2> QED BY <2>1 DEF StartsFew
<1>4. ASSUME UNCHANGED table PROVE StartsFew'
  BY <1>4 DEF StartsFew
<1> QED BY <1>1, <1>2, <1>3, <1>4

\* The steps that look at /proc, and those that do not.
LEMMA StillStraight == ASSUME Straight, UNCHANGED <<chain, back>>, pc' # "again" => back = 0 PROVE Straight'
BY DEF Straight
\* A pid given up leaves no walk.
LEMMA SkipStraight == ASSUME chain' = <<>>, back' = 0 PROVE Straight'
<1>1. Len(chain') = 0
  OBVIOUS
<1> QED BY <1>1 DEF Straight

\* A link read on the way up is of a process not met yet.
LEMMA WalkStraight == ASSUME GInv, GuardBounds, Walk PROVE Straight'
<1>1. CASE Current = Guard
  BY <1>1 DEF Walk, GuardBounds, Straight
<1>2. CASE Skip
  BY <1>2, SkipStraight DEF Skip
<1>3. CASE Current \notin OnChain /\ chain' = Append(chain, Link(Current)) /\ UNCHANGED <<back, pc>>
  <2>1. PICK l : l = Link(Current)
    OBVIOUS
  <2>2. l.pid = Current
    BY <2>1 DEF Link
  <2>3. chain \in Seq(Links) /\ Len(chain) \in Nat
    BY DEF GInv, Seeing, ChainSeen
  <2>4. /\ Len(chain') = Len(chain) + 1 /\ chain'[Len(chain) + 1] = l
        /\ \A i \in 1..Len(chain) : chain'[i] = chain[i]
    BY <1>3, <2>1, <2>3
  <2>5. \A i \in 1..Len(chain) : chain[i].pid # l.pid
    BY <1>3, <2>2 DEF OnChain
  <2>6. \A i \in 1..Len(chain') : i \in 1..Len(chain) \/ i = Len(chain) + 1
    BY <2>3, <2>4
  <2> QED BY <1>3, <2>3, <2>4, <2>5, <2>6 DEF GuardBounds, Straight
<1> QED BY <1>1, <1>2, <1>3 DEF Walk

\* Every step keeps the walk straight.
LEMMA GuardStraight == ASSUME GInv, GuardBounds, Next PROVE Straight'
<1>t. Straight /\ (pc # "again" => back = 0)
  BY DEF GuardBounds, Straight
<1> USE DEF World, seeing
<1>1. CASE Arm \/ AskParent \/ Prepare \/ Spawn \/ Observe \/ PickNone \/ Tick \/ TickFails \/ Signal
  BY <1>1, <1>t, StillStraight DEF GuardBounds, Arm, AskParent, Prepare, Spawn, Enter, Observe, PickNone, Observed,
     Tick, TickFails, Signal
<1>2. CASE DrainReap \/ DuePassed \/ DueLater \/ Final \/ Write \/ StopRequested
  BY <1>2, <1>t, StillStraight DEF GuardBounds, DrainReap, DuePassed, Enter, DueLater, Final, Write, StopRequested
<1>3. CASE ParentDies
  BY <1>3, <1>t, StillStraight DEF GuardBounds, ParentDies
<1>4. ASSUME NEW p \in Pid, Arrive(p) \/ Collected(p) \/ (\E code \in {"zero", "bad"} : Exit(p, code))
                            \/ \E q \in Pid : Fork(p, q)
      PROVE  Straight'
  BY <1>4, <1>t, StillStraight DEF GuardBounds, Arrive, Collected, Exit, Fork, Straight
<1>5. ASSUME NEW p \in Pid, Pick(p) PROVE Straight'
  BY <1>5, <1>t, StillStraight DEF GuardBounds, Pick
<1>6. CASE ObserveFails \/ Keep
  BY <1>6, SkipStraight DEF ObserveFails, Keep, Skip
<1>7. CASE Open \/ Confirm
  BY <1>7, <1>t, StillStraight, SkipStraight DEF GuardBounds, Open, Confirm, Skip
<1>8. CASE Again
  <2>1. CASE UNCHANGED <<chain, pc>>
    BY <1>8, <1>t, <2>1 DEF Again, Straight
  <2>2. CASE Skip
    BY <2>2, SkipStraight DEF Skip
  <2> QED BY <1>8, <2>1, <2>2 DEF Again
<1> QED BY <1>1, <1>2, <1>3, <1>4, <1>5, <1>6, <1>7, <1>8, WalkStraight DEF Next, Steps

\* Every step leaves the start times within the bound.
LEMMA GuardFew == ASSUME GInv, GuardBounds, Next PROVE StartsFew'
<1>t. TableType /\ StartsFew
  BY DEF GInv, Forest, GuardBounds
<1> USE DEF kernel, unseen
<1>1. CASE Spawn
  <2>1. UNCHANGED table \/ (Vacant(Root) /\ table' = Begun(Root, Guard, TRUE))
    BY <1>1 DEF Spawn
  <2> QED BY <1>t, <2>1, OthersFew, BegunFew, GuardAssumption
<1>2. ASSUME NEW p \in Pid, Arrive(p) \/ Collected(p) \/ (\E code \in {"zero", "bad"} : Exit(p, code))
      PROVE  StartsFew'
  BY <1>2, <1>t, OthersFew, BegunFew DEF Arrive, Collected
<1>3. ASSUME NEW p \in Pid, NEW q \in Pid, Fork(p, q) PROVE StartsFew'
  BY <1>3, <1>t, BegunFew DEF Fork
<1>4. CASE Tick \/ TickFails \/ DrainReap \/ Final
  <2>1. table' = Reaped \/ UNCHANGED table
    BY <1>4 DEF Tick, TickFails, DrainReap, Final, Reap
  <2> QED BY <1>t, <2>1, OthersFew
<1>5. ASSUME UNCHANGED table PROVE StartsFew'
  BY <1>5, <1>t, OthersFew
<1>6. CASE Arm \/ AskParent \/ Prepare \/ Observe \/ ObserveFails \/ (\E p \in Pid : Pick(p)) \/ PickNone
  BY <1>5, <1>6 DEF Arm, AskParent, Prepare, Observe, ObserveFails, Pick, PickNone
<1>7. CASE Open \/ Confirm \/ Walk \/ Again \/ Keep
  BY <1>5, <1>7 DEF Open, Confirm, Walk, Again, Keep
<1>8. CASE Signal \/ DuePassed \/ DueLater \/ Write \/ ParentDies \/ StopRequested
  BY <1>5, <1>8 DEF Signal, DuePassed, DueLater, Write, ParentDies, StopRequested
<1> QED BY <1>1, <1>2, <1>3, <1>4, <1>6, <1>7, <1>8 DEF Next, Steps

\* Every step leaves the guard's own variables in their types.
LEMMA OwnTyped == ASSUME GInv, GuardBounds, Next PROVE GuardTyped'
<1>t. GuardTyped /\ LastPhase \in Nat \ {0} /\ MaxFaults \in Nat \ {0}
  BY GuardAssumption DEF GuardBounds
<1> USE DEF GuardTyped, GuardPlaces, control, unseen, World
<1>1. CASE Arm \/ AskParent \/ Observe \/ PickNone
  BY <1>1, <1>t DEF Arm, AskParent, Observe, PickNone, Observed
<1>2. CASE Prepare
  BY <1>2, <1>t DEF Prepare, Receipts
<1>3. CASE Spawn
  <2>1. /\ parent' = parent /\ stop' = stop /\ pc' = "observe" /\ faults' = faults /\ receipt' = receipt
        /\ phase' \in {0, 1} /\ job' = "reap"
    <3>1. CASE Enter(0, Nil)
      BY <1>3, <3>1 DEF Spawn, Enter
    <3>2. CASE Enter(1, "NotStarted")
      BY <1>3, <3>2 DEF Spawn, Enter
    <3> QED BY <1>3, <3>1, <3>2 DEF Spawn
  <2> QED BY <1>t, <2>1
<1>12. CASE Tick
  <2>1. /\ parent' = parent /\ stop' = stop /\ pc' = "observe" /\ faults' = 0 /\ receipt' = receipt
        /\ phase' \in {phase, 1} /\ job' \in {"reap", job}
    <3>1. /\ UNCHANGED <<parent, stop, receipt>> /\ faults' = 0
          /\ \/ \E why \in {"RootExitLost", Nil} : Enter(1, why)
             \/ pc' = "observe" /\ UNCHANGED <<phase, job>>
      BY <1>12 DEF Tick
    <3>2. \A why : Enter(1, why) => phase' = 1 /\ pc' = "observe" /\ job' = "reap"
      BY DEF Enter
    <3> QED BY <3>1, <3>2
  <2> QED BY <1>t, <2>1
<1>4. CASE TickFails
  BY <1>4, <1>t DEF TickFails, Enter
<1>5. CASE DuePassed
  BY <1>5, <1>t DEF DuePassed, Enter
<1>6. CASE Signal \/ DueLater \/ DrainReap \/ Final
  BY <1>6, <1>t DEF Signal, DueLater, DrainReap, Final
<1>7. CASE Write
  BY <1>7, <1>t DEF Write, Receipts
<1>8. CASE ParentDies \/ StopRequested
  BY <1>8, <1>t DEF ParentDies, StopRequested
<1>9. CASE ObserveFails \/ (\E p \in Pid : Pick(p))
  BY <1>9, <1>t DEF ObserveFails, Pick, Observed
<1>10. CASE Open \/ Confirm \/ Walk \/ Again \/ Keep
  BY <1>10, <1>t DEF Open, Confirm, Walk, Again, Keep, Skip
<1>11. ASSUME NEW p \in Pid, Arrive(p) \/ Collected(p) \/ (\E code \in {"zero", "bad"} : Exit(p, code))
                            \/ \E q \in Pid : Fork(p, q)
       PROVE  GuardTyped'
  BY <1>11, <1>t DEF Arrive, Collected, Exit, Fork
<1> QED BY <1>1, <1>2, <1>3, <1>4, <1>5, <1>6, <1>7, <1>8, <1>9, <1>10, <1>11, <1>12 DEF Next, Steps

\* The processes, links and phases of the guard.
LEMMA GuardBounded ==
  /\ Init => GuardBounds
  /\ GInv /\ GuardBounds /\ [Next]_vars => GuardBounds'
  /\ GInv /\ GuardBounds => TypeOK
<1>1. ASSUME Init PROVE GuardBounds
  <2>1. GuardTyped
    <3>1. 0 \in 0..LastPhase /\ 0 \in 0..MaxFaults - 1
      BY GuardAssumption
    <3> QED BY <1>1, <3>1 DEF Init, GuardTyped, GuardPlaces, Receipts
  <2>3. StartsFew
    <3>1. \A p \in Pid : table[p].start = 0
      BY <1>1 DEF Init
    <3> QED BY <3>1, GuardAssumption DEF StartsFew
  <2>2. Len(chain) = 0 /\ back = 0
    BY <1>1 DEF Init
  <2> QED BY <2>1, <2>2, <2>3 DEF GuardBounds, Straight
<1>2. ASSUME GInv, GuardBounds, [Next]_vars PROVE GuardBounds'
  <2>1. CASE Next
    BY <1>2, <2>1, OwnTyped, GuardFew, GuardStraight DEF GuardBounds
  <2>2. CASE UNCHANGED vars
    BY <1>2, <2>2 DEF vars, kernel, seeing, control, GuardBounds, GuardTyped, StartsFew, Straight
  <2> QED BY <1>2, <2>1, <2>2
<1>3. ASSUME GInv, GuardBounds PROVE TypeOK
  <2>1. table \in [Pid -> [st : {"free", "live", "zero", "bad"}, start : 0..MaxBorn,
                           parent : Pid \cup {Guard, Elsewhere}, own : BOOLEAN]]
    <3>1. \A p \in Pid : table[p].start \in 0..MaxBorn
      BY <1>3, GuardAssumption DEF GInv, Forest, TableType, Procs, GuardBounds, StartsFew
    <3>2. \A p \in Pid : table[p] \in [st : {"free", "live", "zero", "bad"}, start : 0..MaxBorn,
                                       parent : Pid \cup {Guard, Elsewhere}, own : BOOLEAN]
      BY <1>3, <3>1 DEF GInv, Forest, TableType, Procs, Parents
    <3> QED BY <1>3, <3>2 DEF GInv, Forest, TableType
  <2>2. handles \in [Pid -> 0..MaxBorn \cup {Nil}]
    <3>1. \A p \in Pid : handles[p] \in 0..MaxBorn \cup {Nil}
      <4> TAKE p \in Pid
      <4>1. handles[p] = Nil \/ (handles[p] \in Nat /\ handles[p] <= table[p].start)
        BY <1>3 DEF GInv, Seeing, HandlesTrue, HandleTrue
      <4>2. table[p].start \in Nat /\ table[p].start <= MaxBorn /\ MaxBorn \in Nat
        BY <1>3, GuardAssumption DEF GInv, Forest, TableType, Procs, GuardBounds, StartsFew
      <4> QED BY <4>1, <4>2
    <3> QED BY <1>3, <3>1 DEF GInv, Seeing, HandlesTrue
  <2>3. chain \in Seq(Links) /\ Len(chain) \in Nat
    BY <1>3 DEF GInv, Seeing, ChainSeen
  <2>4. back \in 0..Len(chain)
    BY <1>3, <2>3 DEF GInv, Seeing, BackSeen, GuardBounds, Straight
  <2>5. Len(chain) <= Cardinality(Pid)
    <3>1. PICK n \in Nat : n = Len(chain)
      BY <2>3
    <3>2. IsFiniteSet(1..n) /\ Cardinality(1..n) = n
      <4>1. 1 \in Int /\ n \in Int
        OBVIOUS
      <4>2. IsFiniteSet(1..n) /\ Cardinality(1..n) = IF 1 > n THEN 0 ELSE n - 1 + 1
        BY <4>1, FS_Interval
      <4> QED BY <4>2
    <3> DEFINE onto == [i \in 1..n |-> chain[i].pid]
    <3>3. \A i \in 1..n : chain[i].pid \in Pid
      <4>1. \A i \in 1..n : chain[i] \in Links
        BY <2>3, <3>1
      <4> QED BY <4>1 DEF Links
    <3>4. onto \in [1..n -> Pid]
      BY <3>3
    <3>5. \A i, j \in 1..n : onto[i] = onto[j] => i = j
      BY <1>3, <3>1 DEF GuardBounds, Straight
    <3>6. onto \in Injection(1..n, Pid)
      BY <3>4, <3>5 DEF Injection, IsInjective
    <3> QED BY <3>1, <3>2, <3>6, PidAssumption, FS_Injection
  <2>6. child \in {Root, Nil} /\ {exit, status} \subseteq {"zero", "bad", Nil}
    BY <1>3 DEF GInv, Watch, ChildType, Outcome
  <2> QED BY <1>3, <2>1, <2>2, <2>4, <2>5, <2>6 DEF GuardBounds, GuardTyped, GuardPlaces, Receipts, TypeOK
<1> QED BY <1>1, <1>2, <1>3

\* Whatever forks and takes over ids while links are read, no walk up to the guard comes by a process twice, and so
\* it is no longer than there are ids; start times, phases and failed ticks stay within their bounds.
THEOREM GuardTypes == Spec => []TypeOK
<1>1. Init => GInv /\ GuardBounds
  BY GuardBegins, GuardBounded
<1>2. GInv /\ GuardBounds /\ [Next]_vars => GInv' /\ GuardBounds'
  BY GuardKept, GuardBounded
<1>3. GInv /\ GuardBounds => TypeOK
  BY GuardBounded
<1> QED BY <1>1, <1>2, <1>3, PTL DEF Spec

------------------------------------------------------------------------------
\* The browser's guard on Windows (WindowsGuard).

\* The type of what the kernel knows of a process, and of the guard's places and records.
TaskOf == [life : {"unborn", "running", "doomed", "ended"}, code : Codes, job : BOOLEAN, signal : BOOLEAN]
Turns  == {"start", "waiting", "natural", "before", "grace", "list", "open", "settle", "count", "write",
           "written"}
JobTypes ==
    /\ task \in [Process -> TaskOf] /\ turn \in Turns /\ found \in Nat \cup {-1}
    /\ held \in [Process -> {"none", "listed", "own", "gone", "other", "failed", "seen", "graced", "counted"}]
    /\ signaled \in [Process -> BOOLEAN] /\ rootExit \in BOOLEAN /\ empty \in BOOLEAN /\ errors \in BOOLEAN
    /\ forced \in Nat /\ ended \subseteq Process /\ spare \in Nat
\* What a process's life says of the rest of it; only those the termination ended are doomed.
LifeOf(p) == /\ Running(p) => task[p].job
             /\ task[p].job \/ task[p].signal => task[p].life # "unborn"
             /\ task[p].signal => task[p].life = "ended"
             /\ task[p].life = "doomed" \/ task[p].code = "forced" => p \in ended
             /\ p \in ended => task[p].life = "doomed" \/ (task[p].life = "ended" /\ task[p].code = "forced")
             /\ held[p] # "none" => task[p].life # "unborn"
             /\ held[p] \in {"gone", "other"} => task[p].life = "ended" /\ p \notin ended
             /\ held[p] \in {"seen", "graced"} /\ signaled[p] => task[p].signal
\* Until the job's processes are opened there is nothing to count.
Early   == {"start", "waiting", "natural", "before", "grace", "list"}
Phases  == /\ turn \in Early => (\A p \in Process : held[p] = "none") /\ forced = 0 /\ spare = 0
           /\ turn \in Early \cup {"open"} => ended = {} /\ forced = 0
           /\ turn = "open" => \A p \in Process : held[p] # "counted"
           /\ turn = "start" => \A p \in Process : task[p].life = "unborn"
           /\ found # -1 => found <= Cardinality(Ever)
           /\ empty => turn \in {"count", "write", "written"}
           /\ turn \in {"settle", "count"} /\ ~errors => \A p \in Process : task[p].life # "running"
\* The processes whose ids were not listed, ids that others had by then, and those ended and counted.
Unlisted   == {p \in Process : held[p] = "none"}
\* The listed ids whose process turned out another one, the ended processes that were counted, and
\* the stretch in which a process may still be listed or counted.
Reused     == {p \in Process : held[p] = "other"}
EndedSeen  == {p \in ended : held[p] = "counted"}
Counting   == turn \in {"open", "settle", "count"} /\ ~errors
\* Processes that entered late are in the difference of the totals, and the count so far is of the others.
Accounts == /\ Counting /\ found # -1 =>
                  /\ found + Cardinality((IF turn = "open" THEN InJob ELSE ended) \cap Unlisted) <= Cardinality(Ever)
                  /\ forced + Cardinality(Reused) + Cardinality(Ever)
                        <= found + Cardinality(Ever \cap Unlisted) + spare + Cardinality(EndedSeen)
            /\ Counting => forced >= Cardinality(EndedSeen)
            /\ turn \in {"write", "written"} /\ ~errors =>
                  /\ forced >= Cardinality(ended) /\ forced <= Cardinality(ended) + spare
\* The inductive invariant of the Windows guard.
JobInv == JobTypes /\ (\A p \in Process : LifeOf(p)) /\ Phases /\ Accounts /\ EmptyStaysEmpty

\* The sets of processes are finite, and their sizes grow and shrink with them.
LEMMA Sizes == ASSUME NEW S \in SUBSET Process PROVE IsFiniteSet(S) /\ Cardinality(S) \in Nat
BY JobAssumption, FS_Subset, FS_CardinalityType

\* A smaller set has no more members.
LEMMA Fewer == ASSUME NEW S \in SUBSET Process, NEW T \in SUBSET S PROVE Cardinality(T) <= Cardinality(S)
BY JobAssumption, FS_Subset

\* One more.
LEMMA Joined == ASSUME NEW S \in SUBSET Process, NEW p \in Process \ S
                PROVE  Cardinality(S \cup {p}) = Cardinality(S) + 1
BY Sizes, FS_AddElement

\* One less.
LEMMA Removed == ASSUME NEW S \in SUBSET Process, NEW p \in S PROVE Cardinality(S \ {p}) = Cardinality(S) - 1
BY Sizes, FS_RemoveElement

\* Sets apart add up.
LEMMA Split == ASSUME NEW S \in SUBSET Process, NEW T \in SUBSET Process, S \cap T = {}
               PROVE  Cardinality(S \cup T) = Cardinality(S) + Cardinality(T)
<1>1. Cardinality(S \cup T) = Cardinality(S) + Cardinality(T) - Cardinality(S \cap T)
  BY Sizes, FS_Union
<1> QED BY <1>1, Sizes, FS_EmptySet

\* What the kernel's steps leave of a process.
StartedTask(q)  == [q EXCEPT !.life = "running", !.job = TRUE]
EndedTask(q, c) == [q EXCEPT !.life = "ended", !.code = c]
OutOfJob(q)     == [q EXCEPT !.job = FALSE]
SignaledTask(q) == [q EXCEPT !.signal = TRUE]
Doomed(q)       == [q EXCEPT !.life = "doomed"]

\* A process that started.
LEMMA StartedIs == ASSUME NEW q \in TaskOf
                   PROVE  /\ StartedTask(q) \in TaskOf /\ StartedTask(q).life = "running"
                          /\ StartedTask(q).job = TRUE
                          /\ StartedTask(q).code = q.code /\ StartedTask(q).signal = q.signal
BY DEF StartedTask, TaskOf

\* One that ended, with its code.
LEMMA EndedIs == ASSUME NEW q \in TaskOf, NEW c \in Codes
                 PROVE  /\ EndedTask(q, c) \in TaskOf /\ EndedTask(q, c).life = "ended"
                        /\ EndedTask(q, c).job = q.job
                        /\ EndedTask(q, c).code = c /\ EndedTask(q, c).signal = q.signal
BY DEF EndedTask, TaskOf

\* One that the kernel dropped from its job.
LEMMA OutIs == ASSUME NEW q \in TaskOf
               PROVE  /\ OutOfJob(q) \in TaskOf /\ OutOfJob(q).life = q.life /\ OutOfJob(q).job = FALSE
                      /\ OutOfJob(q).code = q.code /\ OutOfJob(q).signal = q.signal
BY DEF OutOfJob, TaskOf

\* One whose handle was signaled.
LEMMA SignaledIs == ASSUME NEW q \in TaskOf
                    PROVE  /\ SignaledTask(q) \in TaskOf /\ SignaledTask(q).life = q.life
                           /\ SignaledTask(q).job = q.job
                           /\ SignaledTask(q).code = q.code /\ SignaledTask(q).signal = TRUE
BY DEF SignaledTask, TaskOf

\* One that the termination reached.
LEMMA DoomedIs == ASSUME NEW q \in TaskOf
                  PROVE  /\ Doomed(q) \in TaskOf /\ Doomed(q).life = "doomed" /\ Doomed(q).job = q.job
                         /\ Doomed(q).code = q.code /\ Doomed(q).signal = q.signal
BY DEF Doomed, TaskOf

\* It holds before the browser is started.
LEMMA JobBegins == JobInit => JobInv
<1> SUFFICES ASSUME JobInit PROVE JobInv
  OBVIOUS
<1>1. \A p \in Process : /\ task[p].life = "unborn" /\ task[p].code = "self" /\ task[p].job = FALSE
                         /\ task[p].signal = FALSE /\ held[p] = "none" /\ signaled[p] = FALSE
  BY DEF JobInit
<1>2. /\ turn = "start" /\ found = 0 /\ rootExit = FALSE /\ empty = FALSE /\ forced = 0 /\ errors = FALSE
      /\ ended = {} /\ spare = 0
  BY DEF JobInit
<1>3. task \in [Process -> TaskOf] /\ held \in [Process -> {"none"}] /\ signaled \in [Process -> BOOLEAN]
  BY DEF JobInit, TaskOf, Codes
<1>4. JobTypes
  BY <1>2, <1>3 DEF JobTypes, Turns
<1>5. \A p \in Process : LifeOf(p)
  BY <1>1, <1>2 DEF LifeOf, Running
<1>6. Ever = {}
  BY <1>1 DEF Ever
<1>7. Cardinality(Ever) = 0
  BY <1>6, FS_EmptySet
<1> QED BY <1>1, <1>2, <1>4, <1>5, <1>7 DEF JobInv, Phases, Accounts, Counting, EmptyStaysEmpty, Early

\* What a process's life says stays when neither it nor the guard's record of it changes.
LEMMA LifeKept == ASSUME JobTypes, NEW p \in Process, LifeOf(p), held'[p] = held[p], signaled'[p] = signaled[p],
                         task'[p] = task[p], ended' = ended
                  PROVE  LifeOf(p)'
BY DEF LifeOf, Running

\* A step of the kernel at one process: only its record changes.
LEMMA KernelSteps == ASSUME JobInv, NEW p \in Process, Starts(p) \/ Ends(p) \/ Dropped(p) \/ Signaled(p)
                     PROVE  JobInv'
<1> USE DEF JobInv
<1>k. /\ turn' = turn /\ turn # "written" /\ found' = found /\ held' = held /\ signaled' = signaled
      /\ rootExit' = rootExit
      /\ empty' = empty /\ forced' = forced /\ errors' = errors /\ ended' = ended /\ spare' = spare
  BY DEF Starts, Ends, Dropped, Signaled, Kernel, judged
<1>t. task \in [Process -> TaskOf]
  BY DEF JobTypes
<1>s. Unlisted' = Unlisted /\ Reused' = Reused /\ EndedSeen' = EndedSeen /\ Counting' = Counting
  BY <1>k DEF Unlisted, Reused, EndedSeen, Counting
<1>c. \A S \in SUBSET Process : Cardinality(S) \in Nat
  BY Sizes
<1>e. /\ Ever \in SUBSET Process /\ InJob \in SUBSET Process /\ Unlisted \in SUBSET Process
      /\ Reused \in SUBSET Process
      /\ EndedSeen \in SUBSET Process /\ ended \in SUBSET Process
  BY DEF Ever, InJob, Unlisted, Reused, EndedSeen, JobTypes
<1>n. /\ Cardinality(Ever) \in Nat /\ Cardinality(Reused) \in Nat /\ Cardinality(EndedSeen) \in Nat
      /\ Cardinality(Ever \cap Unlisted) \in Nat /\ Cardinality(InJob \cap Unlisted) \in Nat
      /\ Cardinality(ended \cap Unlisted) \in Nat /\ Cardinality(ended) \in Nat
  BY <1>c, <1>e
<1>m. found \in Nat \cup {-1} /\ forced \in Nat /\ spare \in Nat
  BY DEF JobTypes
<1>1. CASE Starts(p)
  <2>1. PICK q \in TaskOf : /\ q = StartedTask(task[p]) /\ q.life = "running" /\ q.job = TRUE
                            /\ q.code = task[p].code
                            /\ q.signal = task[p].signal
    BY <1>t, StartedIs
  <2>2. task' = [task EXCEPT ![p] = q] /\ task[p].life = "unborn"
    BY <1>1, <2>1 DEF Starts, StartedTask
  <2>3. task' \in [Process -> TaskOf] /\ task'[p] = q /\ \A b \in Process \ {p} : task'[b] = task[b]
    BY <1>t, <2>2
  <2>4. PICK w \in Process : task[w].life = "running"
    BY <1>1 DEF Starts
  <2>5. turn # "start" /\ (turn \in {"settle", "count"} => errors) /\ ~empty
    BY <2>4 DEF Phases, EmptyStaysEmpty, JobTypes, Running
  <2>6. /\ task[p].job = FALSE /\ task[p].signal = FALSE /\ held[p] = "none" /\ p \notin ended
        /\ task[p].code # "forced"
    BY <2>2, <1>t DEF LifeOf, TaskOf
  <2>7. LifeOf(p)'
    BY <1>k, <2>1, <2>3, <2>6 DEF LifeOf, Running
  <2>8. \A b \in Process : LifeOf(b)'
    BY <1>k, <2>3, <2>7, LifeKept
  <2>9. p \notin Ever /\ Ever' = Ever \cup {p} /\ p \notin InJob /\ InJob' = InJob \cup {p} /\ p \in Unlisted
    BY <2>1, <2>2, <2>3, <2>6 DEF Ever, InJob, Unlisted
  <2>10. Cardinality(Ever') = Cardinality(Ever) + 1
    BY <2>9, <1>e, Joined
  <2>11. /\ Ever' \cap Unlisted = (Ever \cap Unlisted) \cup {p} /\ p \notin Ever \cap Unlisted
         /\ InJob' \cap Unlisted = (InJob \cap Unlisted) \cup {p} /\ p \notin InJob \cap Unlisted
         /\ Ever \cap Unlisted \in SUBSET Process /\ InJob \cap Unlisted \in SUBSET Process
    BY <2>9, <1>e
  <2>12. Cardinality(Ever' \cap Unlisted) = Cardinality(Ever \cap Unlisted) + 1
    BY <2>11, Joined
  <2>13. Cardinality(InJob' \cap Unlisted) = Cardinality(InJob \cap Unlisted) + 1
    BY <2>11, Joined
  <2>14. JobTypes'
    BY <1>k, <2>3 DEF JobTypes
  <2>15. Phases'
    BY <1>k, <1>m, <1>n, <2>5, <2>10 DEF Phases
  <2>16. Accounts'
    <3>1. CASE Counting
      <4>1. turn = "open" /\ ~errors
        BY <3>1, <2>5 DEF Counting
      <4> QED BY <4>1, <1>k, <1>s, <1>m, <1>n, <2>10, <2>12, <2>13 DEF Accounts
    <3>2. CASE ~Counting
      BY <3>2, <1>k, <1>s DEF Accounts
    <3> QED BY <3>1, <3>2
  <2> QED BY <1>k, <2>5, <2>8, <2>14, <2>15, <2>16 DEF EmptyStaysEmpty
<1>2. CASE Ends(p) \/ Dropped(p) \/ Signaled(p)
  <2>1. PICK q \in TaskOf : /\ task' = [task EXCEPT ![p] = q]
                            /\ task[p].life # "unborn" /\ q.life = "ended"
                            /\ q.job = task[p].job \/ (q.job = FALSE /\ task[p].life = "ended")
                            /\ q.signal = task[p].signal \/ (q.signal = TRUE /\ task[p].life = "ended")
                            /\ \/ q.code = task[p].code /\ task[p].life = "ended"
                               \/ q.code = "forced" /\ task[p].life = "doomed" /\ task[p].signal = q.signal
                               \/ q.code \in {"self", "active"} /\ task[p].life = "running"
                                  /\ task[p].signal = q.signal
    <3>1. CASE Ends(p)
      <4>1. PICK c \in {"self", "active"} :
                task' = [task EXCEPT ![p].life = "ended",
                                      ![p].code = IF task[p].life = "doomed" THEN "forced" ELSE c]
        BY <3>1 DEF Ends
      <4>2. PICK d \in Codes : d = IF task[p].life = "doomed" THEN "forced" ELSE c
        BY DEF Codes
      <4>3. PICK q \in TaskOf : q = EndedTask(task[p], d) /\ q.life = "ended" /\ q.job = task[p].job /\ q.code = d
                                /\ q.signal = task[p].signal
        BY <1>t, EndedIs
      <4>4. task' = [task EXCEPT ![p] = q]
        BY <4>1, <4>2, <4>3 DEF EndedTask
      <4>5. task[p].life \in {"running", "doomed"}
        BY <3>1 DEF Ends, Running
      <4> QED BY <4>2, <4>3, <4>4, <4>5
    <3>2. CASE Dropped(p)
      <4>1. PICK q \in TaskOf : /\ q = OutOfJob(task[p]) /\ q.life = task[p].life /\ q.job = FALSE
                                /\ q.code = task[p].code
                                /\ q.signal = task[p].signal
        BY <1>t, OutIs
      <4>2. task' = [task EXCEPT ![p] = q] /\ task[p].life = "ended"
        BY <3>2, <4>1 DEF Dropped, OutOfJob
      <4> QED BY <4>1, <4>2
    <3>3. CASE Signaled(p)
      <4>1. PICK q \in TaskOf : q = SignaledTask(task[p]) /\ q.life = task[p].life /\ q.job = task[p].job
                                /\ q.code = task[p].code /\ q.signal = TRUE
        BY <1>t, SignaledIs
      <4>2. task' = [task EXCEPT ![p] = q] /\ task[p].life = "ended"
        BY <3>3, <4>1 DEF Signaled, SignaledTask
      <4> QED BY <4>1, <4>2
    <3> QED BY <1>2, <3>1, <3>2, <3>3
  <2>2. task' \in [Process -> TaskOf] /\ task'[p] = q /\ \A b \in Process \ {p} : task'[b] = task[b]
    BY <1>t, <2>1
  <2>3. LifeOf(p)'
    BY <1>k, <2>1, <2>2 DEF LifeOf, Running
  <2>4. \A b \in Process : LifeOf(b)'
    BY <1>k, <2>2, <2>3, LifeKept
  <2>5. Ever' = Ever
    BY <2>1, <2>2 DEF Ever
  <2>6. InJob' \subseteq InJob
    BY <2>1, <2>2 DEF InJob
  <2>7. /\ Cardinality(InJob' \cap Unlisted) \in Nat
        /\ Cardinality(InJob' \cap Unlisted) <= Cardinality(InJob \cap Unlisted)
    <3>1. InJob' \cap Unlisted \in SUBSET (InJob \cap Unlisted) /\ InJob \cap Unlisted \in SUBSET Process
          /\ InJob' \cap Unlisted \in SUBSET Process
      BY <2>6, <1>e
    <3> QED BY <3>1, Fewer, <1>c
  <2>8. JobTypes'
    BY <1>k, <2>2 DEF JobTypes
  <2>9. Phases'
    <3>1. turn # "start"
      BY <2>1 DEF Phases
    <3>2. \A b \in Process : task'[b].life = "running" => task[b].life = "running"
      BY <2>1, <2>2
    <3> QED BY <1>k, <3>1, <3>2, <2>5 DEF Phases
  <2>10. Accounts'
    <3>1. CASE turn = "open"
      BY <3>1, <1>k, <1>s, <1>m, <1>n, <2>5, <2>7 DEF Accounts
    <3>2. CASE turn # "open"
      <4>1. turn' # "open" /\ Ever' \cap Unlisted' = Ever \cap Unlisted
        BY <3>2, <1>k, <1>s, <2>5
      <4> QED BY <3>2, <4>1, <1>k, <1>s, <2>5 DEF Accounts
    <3> QED BY <3>1, <3>2
  <2>11. EmptyStaysEmpty'
    <3>1. \A b \in Process : Running(b)' => Running(b)
      BY <2>1, <2>2 DEF Running
    <3>2. task'[Browser].life = "unborn" <=> task[Browser].life = "unborn"
      BY <2>1, <2>2, JobAssumption
    <3> QED BY <1>k, <2>6, <3>1, <3>2 DEF EmptyStaysEmpty
  <2> QED BY <2>4, <2>8, <2>9, <2>10, <2>11
<1> QED BY <1>1, <1>2

\* What the arithmetic of the counts needs of the sets.
LEMMA CountSets == ASSUME JobInv
                   PROVE  /\ Ever \in SUBSET Process /\ InJob \in SUBSET Process /\ Unlisted \in SUBSET Process
                          /\ Reused \in SUBSET Process /\ EndedSeen \in SUBSET Process /\ ended \in SUBSET Process
                          /\ Cardinality(Ever) \in Nat /\ Cardinality(Reused) \in Nat
                          /\ Cardinality(EndedSeen) \in Nat
                          /\ Cardinality(Ever \cap Unlisted) \in Nat /\ Cardinality(InJob \cap Unlisted) \in Nat
                          /\ Cardinality(ended \cap Unlisted) \in Nat /\ Cardinality(ended) \in Nat
                          /\ found \in Nat \cup {-1} /\ forced \in Nat /\ spare \in Nat
<1>1. /\ Ever \in SUBSET Process /\ InJob \in SUBSET Process /\ Unlisted \in SUBSET Process
      /\ Reused \in SUBSET Process
      /\ EndedSeen \in SUBSET Process /\ ended \in SUBSET Process
  BY DEF Ever, InJob, Unlisted, Reused, EndedSeen, JobInv, JobTypes
<1>2. \A S \in SUBSET Process : Cardinality(S) \in Nat
  BY Sizes
<1>3. found \in Nat \cup {-1} /\ forced \in Nat /\ spare \in Nat
  BY DEF JobInv, JobTypes
<1>4. /\ Ever \cap Unlisted \in SUBSET Process /\ InJob \cap Unlisted \in SUBSET Process
      /\ ended \cap Unlisted \in SUBSET Process
  BY <1>1
<1> QED BY <1>1, <1>2, <1>3, <1>4

\* Up to the list of ids nothing is counted.
LEMMA EarlySteps == ASSUME JobInv, StartBrowser \/ StopWaiting \/ Before PROVE JobInv'
<1> USE DEF JobInv
<1>1. /\ turn \in {"start", "waiting", "before"} /\ turn' \in {"written", "natural", "waiting", "grace", "list"}
      /\ held' = held /\ signaled' = signaled /\ empty' = empty /\ forced' = forced /\ errors' = errors
      /\ ended' = ended /\ spare' = spare /\ rootExit' \in BOOLEAN
  <2>1. CASE StartBrowser
    BY <2>1 DEF StartBrowser, judged, JobTypes
  <2>2. CASE Before
    BY <2>2 DEF Before, JobTypes
  <2>3. CASE StopWaiting
    <3>1. task[Browser].signal \in BOOLEAN
      BY JobAssumption DEF JobTypes, TaskOf
    <3> QED BY <2>3, <3>1 DEF StopWaiting, judged
  <2> QED BY <2>1, <2>2, <2>3
<1>2. (\A p \in Process : held[p] = "none") /\ forced = 0 /\ spare = 0 /\ ended = {} /\ ~empty /\ EndedSeen = {}
  BY <1>1 DEF Phases, Early, EndedSeen
<1>3. Cardinality(ended) = 0 /\ Cardinality(EndedSeen) = 0
  BY <1>2, FS_EmptySet
<1>4. Cardinality(Ever) \in Nat /\ Cardinality(Ever') \in Nat
  <2>1. Ever \in SUBSET Process /\ Ever' \in SUBSET Process
    BY DEF Ever
  <2> QED BY <2>1, Sizes
<1>5. /\ task' \in [Process -> TaskOf] /\ (\A p \in Process : LifeOf(p)')
      /\ Cardinality(Ever) <= Cardinality(Ever')
      /\ turn' \notin {"start", "settle", "count", "open"}
      /\ turn' \in Early => \A p \in Process : held[p] = "none"
  <2>1. CASE task' = task
    <3>1. Ever' = Ever
      BY <2>1 DEF Ever
    <3>2. \A p \in Process : LifeOf(p)'
      BY <2>1, <1>1, LifeKept
    <3> QED BY <2>1, <3>1, <3>2, <1>1, <1>2, <1>4 DEF JobTypes
  <2>2. CASE turn = "start" /\ task' = [task EXCEPT ![Browser] = [@ EXCEPT !.life = "running", !.job = TRUE]]
    <3>1. task \in [Process -> TaskOf] /\ Browser \in Process
      BY JobAssumption DEF JobTypes
    <3>2. PICK q \in TaskOf : /\ q = StartedTask(task[Browser]) /\ q.life = "running" /\ q.job = TRUE
                              /\ q.code = task[Browser].code /\ q.signal = task[Browser].signal
      BY <3>1, StartedIs
    <3>3. task' = [task EXCEPT ![Browser] = q]
      BY <2>2, <3>2 DEF StartedTask
    <3>4. task' \in [Process -> TaskOf] /\ task'[Browser] = q /\ \A b \in Process \ {Browser} : task'[b] = task[b]
      BY <3>1, <3>3
    <3>5. task[Browser].life = "unborn"
      BY <2>2, <3>1 DEF Phases
    <3>6. /\ task[Browser].signal = FALSE /\ task[Browser].code # "forced" /\ Browser \notin ended
          /\ held[Browser] = "none"
      BY <3>1, <3>5, <1>2 DEF LifeOf, TaskOf
    <3>7. LifeOf(Browser)'
      BY <1>1, <3>2, <3>4, <3>6 DEF LifeOf, Running
    <3>8. \A p \in Process : LifeOf(p)'
      BY <1>1, <3>4, <3>7, LifeKept
    <3>9. Ever \in SUBSET Ever' /\ Ever' \in SUBSET Process
      BY <3>2, <3>4, <3>5 DEF Ever
    <3> QED BY <3>4, <3>8, <3>9, Fewer, <1>1, <1>2
  <2>3. CASE StartBrowser
    BY <2>1, <2>2, <2>3 DEF StartBrowser
  <2>4. CASE StopWaiting
    BY <2>1, <2>4 DEF StopWaiting
  <2>5. CASE Before
    BY <2>1, <2>5 DEF Before
  <2> QED BY <2>3, <2>4, <2>5
<1>6. found' = found \/ found' = -1 \/ (found' = Cardinality(Ever) /\ task' = task)
  BY DEF StartBrowser, StopWaiting, Before, judged
<1>7. found \in Nat \cup {-1} /\ (found # -1 => found <= Cardinality(Ever))
  BY DEF JobTypes, Phases
<1>8. found' \in Nat \cup {-1} /\ (found' # -1 => found' <= Cardinality(Ever'))
  BY <1>4, <1>5, <1>6, <1>7 DEF Ever
<1>9. JobTypes'
  <2>1. turn' \in Turns
    BY <1>1 DEF Turns
  <2> QED BY <2>1, <1>1, <1>5, <1>8 DEF JobTypes
<1>10. Phases'
  BY <1>1, <1>2, <1>5, <1>8 DEF Phases
<1>11. Accounts'
  <2>1. ~Counting'
    BY <1>5 DEF Counting
  <2> QED BY <2>1, <1>1, <1>2, <1>3 DEF Accounts
<1>12. EmptyStaysEmpty'
  BY <1>1, <1>2 DEF EmptyStaysEmpty
<1> QED BY <1>5, <1>9, <1>10, <1>11, <1>12

\* The drain's waits: with the job empty, or out of their budget.
LEMMA SettleSteps == ASSUME JobInv, Settled \/ Unsettled PROVE JobInv'
<1> USE DEF JobInv
<1>1. /\ turn \in {"natural", "grace", "settle"}
      /\ turn' = (IF turn = "settle" THEN "count" ELSE "write") \/ (turn = "natural" /\ turn' = "before")
      /\ task' = task /\ found' = found /\ held' = held /\ signaled' = signaled /\ forced' = forced
      /\ spare' = spare
      /\ errors' \in {errors, TRUE} /\ ended' = ended /\ rootExit' = (rootExit \/ task[Browser].signal)
      /\ \/ empty' = TRUE /\ BrowserGone /\ InJob = {} /\ turn' # "before"
         \/ empty' = empty
  <2>1. CASE Settled
    BY <2>1 DEF Settled, judged, RootReaped
  <2>2. CASE Unsettled
    BY <2>2 DEF Unsettled, judged, RootReaped
  <2> QED BY <2>1, <2>2
<1>2. errors' \in BOOLEAN /\ rootExit' \in BOOLEAN /\ empty' \in BOOLEAN
  <2>1. task[Browser].signal \in BOOLEAN
    BY JobAssumption DEF JobTypes, TaskOf
  <2> QED BY <1>1, <2>1 DEF JobTypes
<1>3. \A p \in Process : LifeOf(p)'
  BY <1>1, LifeKept
<1>4. JobTypes'
  BY <1>1, <1>2 DEF JobTypes, Turns
<1>5. Ever' = Ever /\ InJob' = InJob /\ Unlisted' = Unlisted /\ Reused' = Reused /\ EndedSeen' = EndedSeen
  BY <1>1 DEF Ever, InJob, Unlisted, Reused, EndedSeen
<1>6. ~empty
  BY <1>1 DEF Phases
<1>q. ~errors' => ~errors
  BY <1>1 DEF JobTypes
<1>7. Phases'
  <2>1. /\ turn' \in {"before", "write", "count"} /\ (turn' = "before" => turn = "natural")
        /\ (turn' = "count" => turn = "settle")
    BY <1>1
  <2>2. turn' \in Early => turn \in Early
    BY <2>1 DEF Early
  <2>3. empty' => turn' \in {"write", "count"}
    BY <1>1, <1>6, <2>1
  <2> QED BY <1>1, <1>5, <1>q, <2>1, <2>2, <2>3 DEF Phases
<1>8. Accounts'
  <2>1. CASE turn = "settle"
    <3>1. turn' = "count" /\ (Counting' => Counting)
      BY <1>1, <2>1, <1>q DEF Counting
    <3>2. ended' = ended /\ found' = found /\ forced' = forced /\ spare' = spare
      BY <1>1
    <3> QED BY <2>1, <3>1, <3>2, <1>5 DEF Accounts
  <2>2. CASE turn # "settle"
    <3>1. ~Counting' /\ forced = 0 /\ spare = 0 /\ ended = {}
      BY <1>1, <2>2 DEF Counting, Phases, Early
    <3>2. Cardinality(ended) = 0
      BY <3>1, FS_EmptySet
    <3> QED BY <1>1, <3>1, <3>2 DEF Accounts
  <2> QED BY <2>1, <2>2
<1>9. EmptyStaysEmpty'
  <2>1. SUFFICES ASSUME empty' = TRUE PROVE EmptyStaysEmpty'
    BY <1>2 DEF EmptyStaysEmpty
  <2>2. InJob = {} /\ BrowserGone
    BY <1>1, <1>6, <2>1
  <2>3. \A p \in Process : ~Running(p) /\ ~Running(p)'
    BY <2>2, <1>1 DEF InJob, LifeOf, Running
  <2>4. rootExit' \/ task[Browser].life = "unborn"
    BY <1>1, <2>2 DEF BrowserGone
  <2> QED BY <2>2, <2>3, <2>4, <1>1, <1>5 DEF EmptyStaysEmpty
<1> QED BY <1>3, <1>4, <1>7, <1>8, <1>9

\* The list of ids, and opening each.
LEMMA ListSteps == ASSUME JobInv, List \/ \E p \in Process : OpenListed(p) PROVE JobInv'
<1> USE DEF JobInv
<1>n. /\ Ever \in SUBSET Process /\ InJob \in SUBSET Process /\ Reused \in SUBSET Process
      /\ Cardinality(Ever) \in Nat /\ Cardinality(Reused) \in Nat /\ Cardinality(EndedSeen) \in Nat
      /\ Cardinality(Ever \cap Unlisted) \in Nat /\ Cardinality(InJob \cap Unlisted) \in Nat
      /\ found \in Nat \cup {-1} /\ forced \in Nat /\ spare \in Nat
  BY CountSets
<1>1. CASE List
  <2>1. /\ turn = "list" /\ turn' = "open" /\ task' = task /\ found' = found /\ signaled' = signaled
        /\ forced' = forced
        /\ rootExit' = rootExit /\ empty' = empty /\ ended' = ended
        /\ spare' = IF found = -1 THEN 0 ELSE Cardinality(Ever) - found
    BY <1>1 DEF List
  <2>2. /\ (\A p \in Process : held[p] = "none") /\ forced = 0 /\ ended = {} /\ ~empty
        /\ (found # -1 => found <= Cardinality(Ever))
    BY <2>1 DEF Phases, Early
  <2>3. \/ held' = [p \in Process |-> IF p \in InJob THEN "listed" ELSE "none"] /\ errors' = errors
        \/ held' = held /\ errors' = TRUE
    BY <1>1 DEF List, Fails
  <2>4. /\ held' \in [Process -> {"none", "listed", "own", "gone", "other", "failed", "seen", "graced", "counted"}]
        /\ errors' \in BOOLEAN /\ spare' \in Nat
    <3>1. spare' \in Nat
      BY <2>1, <2>2, <1>n
    <3>2. errors' \in BOOLEAN
      BY <2>3 DEF JobTypes
    <3>3. CASE held' = held
      BY <3>1, <3>2, <3>3 DEF JobTypes
    <3>4. CASE held' = [p \in Process |-> IF p \in InJob THEN "listed" ELSE "none"]
      BY <3>1, <3>2, <3>4
    <3> QED BY <2>3, <3>3, <3>4
  <2>5. \A p \in Process : held'[p] = "none" \/ (held'[p] = "listed" /\ p \in InJob)
    BY <2>2, <2>3
  <2>6. \A p \in Process : LifeOf(p)'
    BY <2>1, <2>5 DEF LifeOf, Running, InJob
  <2>7. JobTypes'
    BY <2>1, <2>4 DEF JobTypes, Turns
  <2>8. Ever' = Ever
    BY <2>1 DEF Ever
  <2>9. Phases'
    BY <2>1, <2>2, <2>5, <2>8 DEF Phases, Early
  <2>10. Accounts'
    <3>1. SUFFICES ASSUME errors' = FALSE PROVE Accounts'
      BY <2>1, <2>4 DEF Accounts, Counting
    <3>2. held' = [p \in Process |-> IF p \in InJob THEN "listed" ELSE "none"] /\ errors' = errors
      BY <2>3, <3>1
    <3>3. InJob' = InJob /\ InJob' \cap Unlisted' = {} /\ Reused' = {} /\ EndedSeen' = {}
      BY <2>1, <2>2, <3>2 DEF InJob, Unlisted, Reused, EndedSeen
    <3>4. Cardinality(InJob' \cap Unlisted') = 0 /\ Cardinality(Reused') = 0 /\ Cardinality(EndedSeen') = 0
      BY <3>3, FS_EmptySet
    <3>5. Cardinality(Ever' \cap Unlisted') \in Nat
      <4>1. Ever' \cap Unlisted' \in SUBSET Process
        BY DEF Ever
      <4> QED BY <4>1, Sizes
    <3> QED BY <2>1, <2>2, <2>8, <3>4, <3>5, <1>n DEF Accounts
  <2> QED BY <2>1, <2>2, <2>6, <2>7, <2>9, <2>10 DEF EmptyStaysEmpty
<1>2. ASSUME NEW p \in Process, OpenListed(p) PROVE JobInv'
  <2>1. PICK h \in {"failed", "own", "gone", "other"} :
              /\ h \in {"gone", "other"} => task[p].signal
              /\ held' = [held EXCEPT ![p] = h] /\ spare' = IF h = "other" THEN spare + 1 ELSE spare
    BY <1>2 DEF OpenListed
  <2>2. /\ turn = "open" /\ held[p] = "listed" /\ task' = task /\ turn' = turn /\ found' = found
        /\ signaled' = signaled
        /\ forced' = forced /\ rootExit' = rootExit /\ empty' = empty /\ errors' = errors /\ ended' = ended
    BY <1>2 DEF OpenListed
  <2>3. /\ held' \in [Process -> {"none", "listed", "own", "gone", "other", "failed", "seen", "graced", "counted"}]
        /\ held'[p] = h /\ \A b \in Process \ {p} : held'[b] = held[b]
    BY <2>1 DEF JobTypes
  <2>4. ended = {} /\ forced = 0 /\ ~empty
    BY <2>2 DEF Phases
  <2>5. LifeOf(p)'
    BY <2>1, <2>2, <2>3, <2>4 DEF LifeOf, Running
  <2>6. \A b \in Process : LifeOf(b)'
    BY <2>2, <2>3, <2>5, LifeKept
  <2>7. JobTypes'
    BY <2>1, <2>2, <2>3, <1>n DEF JobTypes
  <2>8. Ever' = Ever /\ InJob' = InJob /\ Unlisted' = Unlisted /\ EndedSeen' = {} /\ EndedSeen = {}
    BY <2>2, <2>3, <2>4 DEF Ever, InJob, Unlisted, EndedSeen
  <2>9. Cardinality(Reused') = IF h = "other" THEN Cardinality(Reused) + 1 ELSE Cardinality(Reused)
    <3>1. CASE h = "other"
      <4>1. p \notin Reused /\ Reused' = Reused \cup {p}
        BY <3>1, <2>2, <2>3 DEF Reused
      <4> QED BY <3>1, <4>1, <1>n, Joined
    <3>2. CASE h # "other"
      <4>1. Reused' = Reused
        BY <3>2, <2>2, <2>3 DEF Reused
      <4> QED BY <3>2, <4>1
    <3> QED BY <3>1, <3>2
  <2>10. Phases'
    <3>1. \A b \in Process : held'[b] # "counted"
      BY <2>2, <2>3 DEF Phases
    <3> QED BY <2>2, <2>4, <2>8, <3>1 DEF Phases, Early
  <2>11. Accounts'
    <3>1. Counting' = Counting
      BY <2>2 DEF Counting
    <3> QED BY <3>1, <2>1, <2>2, <2>4, <2>8, <2>9, <1>n DEF Accounts
  <2> QED BY <2>2, <2>4, <2>6, <2>7, <2>10, <2>11 DEF EmptyStaysEmpty
<1> QED BY <1>1, <1>2

\* The termination dooms what runs in the job, and only what an id was listed for or entered late.
LEMMA TerminateSteps == ASSUME JobInv, Terminate PROVE JobInv'
<1> USE DEF JobInv
<1>n. /\ Ever \in SUBSET Process /\ InJob \in SUBSET Process /\ Unlisted \in SUBSET Process
      /\ Cardinality(Ever) \in Nat /\ Cardinality(Reused) \in Nat /\ Cardinality(EndedSeen) \in Nat
      /\ Cardinality(Ever \cap Unlisted) \in Nat /\ Cardinality(InJob \cap Unlisted) \in Nat
      /\ found \in Nat \cup {-1} /\ forced \in Nat /\ spare \in Nat
  BY CountSets
<1>1. /\ turn = "open" /\ turn' = "settle" /\ found' = found /\ held' = held /\ signaled' = signaled
      /\ forced' = forced
      /\ spare' = spare /\ rootExit' = rootExit /\ empty' = empty
  BY DEF Terminate, judged
<1>2. ended = {} /\ forced = 0 /\ ~empty /\ \A p \in Process : held[p] # "counted"
  BY <1>1 DEF Phases
<1>3. Unlisted' = Unlisted /\ Reused' = Reused /\ EndedSeen = {} /\ EndedSeen' = {}
  <2>1. ended' \subseteq Process
    BY <1>2 DEF Terminate, InJob
  <2> QED BY <2>1, <1>1, <1>2 DEF Unlisted, Reused, EndedSeen
<1>z. Cardinality(EndedSeen) = 0 /\ Cardinality(EndedSeen') = 0
  BY <1>3, FS_EmptySet
<1>4. CASE task' = task /\ ended' = ended /\ errors' = TRUE
  <2>1. \A p \in Process : LifeOf(p)'
    BY <1>1, <1>4, LifeKept
  <2>2. JobTypes'
    BY <1>1, <1>4 DEF JobTypes, Turns
  <2>3. Ever' = Ever
    BY <1>4 DEF Ever
  <2>4. Phases'
    BY <1>1, <1>2, <1>4, <2>3 DEF Phases, Early
  <2>5. Accounts'
    BY <1>4 DEF Accounts, Counting
  <2> QED BY <2>1, <2>2, <2>4, <2>5, <1>1, <1>2 DEF EmptyStaysEmpty
<1>5. CASE /\ task' = [p \in Process |-> IF task[p].life = "running" /\ p \in InJob
                                        THEN [task[p] EXCEPT !.life = "doomed"] ELSE task[p]]
           /\ ended' = {p \in InJob : task[p].life = "running"} /\ errors' = errors
  <2>1. \A p \in Process : /\ task'[p] \in TaskOf /\ task'[p].job = task[p].job /\ task'[p].code = task[p].code
                            /\ task'[p].signal = task[p].signal
                            /\ task'[p].life = IF task[p].life = "running" THEN "doomed" ELSE task[p].life
    <3> SUFFICES ASSUME NEW p \in Process
                 PROVE  /\ task'[p] \in TaskOf /\ task'[p].job = task[p].job /\ task'[p].code = task[p].code
                        /\ task'[p].signal = task[p].signal
                        /\ task'[p].life = IF task[p].life = "running" THEN "doomed" ELSE task[p].life
      OBVIOUS
    <3>1. task[p] \in TaskOf
      BY DEF JobTypes
    <3>2. CASE task[p].life = "running"
      <4>1. p \in InJob
        BY <3>2 DEF LifeOf, Running, InJob
      <4>2. task'[p] = Doomed(task[p])
        BY <1>5, <3>2, <4>1 DEF Doomed
      <4> QED BY <3>1, <3>2, <4>2, DoomedIs
    <3>3. CASE task[p].life # "running"
      BY <1>5, <3>1, <3>3
    <3> QED BY <3>2, <3>3
  <2>2. task' \in [Process -> TaskOf]
    BY <1>5, <2>1
  <2>3. \A p \in Process : p \in ended' <=> task[p].life = "running"
    BY <1>5 DEF InJob, LifeOf, Running
  <2>4. ended' \in SUBSET InJob
    BY <1>5
  <2>5. \A p \in Process : LifeOf(p)'
    BY <1>1, <1>2, <2>1, <2>3 DEF LifeOf, Running
  <2>6. JobTypes'
    BY <1>1, <1>5, <1>n, <2>2, <2>4 DEF JobTypes, Turns
  <2>7. Ever' = Ever
    BY <2>1 DEF Ever
  <2>8. Phases'
    BY <1>1, <1>2, <2>1, <2>7 DEF Phases, Early
  <2>9. /\ Cardinality(ended' \cap Unlisted) \in Nat
        /\ Cardinality(ended' \cap Unlisted) <= Cardinality(InJob \cap Unlisted)
    <3>1. /\ ended' \cap Unlisted \in SUBSET (InJob \cap Unlisted) /\ InJob \cap Unlisted \in SUBSET Process
          /\ ended' \cap Unlisted \in SUBSET Process
      BY <2>4, <1>n
    <3> QED BY <3>1, Fewer, Sizes
  <2>10. Accounts'
    <3>1. SUFFICES ASSUME ~errors PROVE Accounts'
      BY <1>1, <1>5 DEF Accounts, Counting
    <3>2. Counting
      BY <1>1, <3>1 DEF Counting
    <3> QED BY <3>2, <1>1, <1>2, <1>3, <1>5, <1>n, <1>z, <2>7, <2>9 DEF Accounts
  <2> QED BY <2>5, <2>6, <2>8, <2>10, <1>1, <1>2 DEF EmptyStaysEmpty
<1> QED BY <1>4, <1>5 DEF Terminate, Fails

\* Reading one held process: its count is right for it, and no other record changes.
LEMMA ReadSteps == ASSUME JobInv, NEW p \in Process, ReadSignal(p) \/ ReadCode(p) \/ ReadOther(p) PROVE JobInv'
<1> USE DEF JobInv
<1>n. /\ Ever \in SUBSET Process /\ Reused \in SUBSET Process /\ EndedSeen \in SUBSET Process
      /\ Cardinality(Ever) \in Nat /\ Cardinality(Reused) \in Nat /\ Cardinality(EndedSeen) \in Nat
      /\ Cardinality(Ever \cap Unlisted) \in Nat /\ Cardinality(ended \cap Unlisted) \in Nat
      /\ found \in Nat \cup {-1} /\ forced \in Nat /\ spare \in Nat
  BY CountSets
<1>1. /\ turn = "count" /\ task' = task /\ turn' = turn /\ found' = found /\ rootExit' = rootExit
      /\ empty' = empty
      /\ ended' = ended /\ errors' \in {errors, TRUE} /\ held[p] \notin {"none", "counted"}
  BY DEF ReadSignal, ReadCode, ReadOther, Counted, Fails
<1>p. task[p] \in TaskOf /\ LifeOf(p)
  BY DEF JobTypes
<1>2. \/ /\ held' = [held EXCEPT ![p] = "seen"] /\ signaled' = [signaled EXCEPT ![p] = task[p].signal]
         /\ forced' = forced /\ spare' = spare /\ held[p] = "own"
      \/ /\ held' = [held EXCEPT ![p] = "graced"] /\ signaled' = [signaled EXCEPT ![p] = task[p].signal]
         /\ forced' = forced /\ spare' = spare /\ held[p] = "seen"
      \/ /\ held' = [held EXCEPT ![p] = "counted"] /\ signaled' = signaled
         /\ \E g \in {0, 1} : forced' = forced + g
         /\ spare' \in {spare, spare + 1}
         /\ ~errors' => IF p \in ended THEN forced' = forced + 1 /\ held[p] # "other" /\ spare' = spare
                                       ELSE \/ forced' = forced \/ held[p] = "other"
                                            \/ (forced' = forced + 1 /\ spare' = spare + 1)
         /\ held[p] # "other" \/ p \notin ended
  <2>1. CASE ReadSignal(p)
    BY <2>1 DEF ReadSignal
  <2>2. CASE ReadOther(p)
    <3>1. /\ held' = [held EXCEPT ![p] = "counted"] /\ signaled' = signaled /\ spare' = spare
          /\ held[p] \in {"gone", "other"} \/ errors' = TRUE
          /\ \E g \in {0, 1} : forced' = forced + g /\ (g = 1 => held[p] = "other")
      BY <2>2 DEF ReadOther, Counted, Fails
    <3>2. held[p] \in {"gone", "other"} => p \notin ended
      BY <1>p DEF LifeOf
    <3>3. forced' \in {forced, forced + 1} /\ (forced' = forced \/ held[p] = "other")
      BY <3>1, <1>n
    <3>4. \E g \in {0, 1} : forced' = forced + g
      BY <3>1
    <3>5. ~errors' => p \notin ended
      BY <3>1, <3>2
    <3> QED BY <3>1, <3>2, <3>3, <3>4, <3>5
  <2>3. CASE ReadCode(p)
    <3>0. held[p] \in {"seen", "graced"} /\ errors' = errors
      BY <2>3 DEF ReadCode
    <3>1. CASE held[p] = "seen" /\ empty /\ CodeOf(p) = "active" /\ ~signaled[p]
      BY <2>3, <3>1 DEF ReadCode
    <3>2. CASE ~(held[p] = "seen" /\ empty /\ CodeOf(p) = "active" /\ ~signaled[p])
      <4>1. /\ held' = [held EXCEPT ![p] = "counted"] /\ signaled' = signaled
            /\ forced' = forced + (IF Forced(CodeOf(p), signaled[p]) THEN 1 ELSE 0)
            /\ spare' = IF p \notin ended /\ task[p].code = "active" THEN spare + 1 ELSE spare
        BY <2>3, <3>2 DEF ReadCode, Counted
      <4>2. p \in ended => Forced(CodeOf(p), signaled[p])
        BY <1>p, <3>0 DEF LifeOf, Running, CodeOf, Forced
      <4>3. ~errors /\ p \notin ended /\ Forced(CodeOf(p), signaled[p]) => task[p].code = "active"
        <5>1. ~errors => task[p].life # "running"
          BY <1>1 DEF Phases
        <5> QED BY <1>p, <5>1 DEF LifeOf, Running, CodeOf, Forced
      <4>4. CASE Forced(CodeOf(p), signaled[p])
        <5>1. forced' = forced + 1
          BY <4>1, <4>4
        <5> QED BY <3>0, <4>1, <4>3, <4>4, <5>1
      <4>5. CASE ~Forced(CodeOf(p), signaled[p])
        <5>1. forced' = forced + 0
          BY <4>1, <4>5
        <5>2. forced' = forced
          BY <5>1, <1>n
        <5> QED BY <3>0, <4>1, <4>2, <4>5, <5>1, <5>2
      <4> QED BY <4>4, <4>5
    <3> QED BY <3>1, <3>2
  <2> QED BY <2>1, <2>2, <2>3
<1>3. forced' \in Nat /\ spare' \in Nat
  BY <1>2, <1>n
<1>4. /\ held' \in [Process -> {"none", "listed", "own", "gone", "other", "failed", "seen", "graced", "counted"}]
      /\ \A b \in Process \ {p} : held'[b] = held[b]
      /\ held'[p] \in {"seen", "graced", "counted"}
  BY <1>2 DEF JobTypes
<1>5. /\ signaled' \in [Process -> BOOLEAN] /\ (\A b \in Process \ {p} : signaled'[b] = signaled[b])
      /\ held'[p] # "counted" => signaled'[p] = task[p].signal
  <2>1. task[p].signal \in BOOLEAN
    BY <1>p DEF TaskOf
  <2> QED BY <1>2, <2>1 DEF JobTypes
<1>6. errors' \in BOOLEAN /\ (~errors' => ~errors)
  <2>1. errors \in BOOLEAN /\ (errors' = errors \/ errors' = TRUE)
    BY <1>1 DEF JobTypes
  <2> QED BY <2>1
<1>7. JobTypes'
  BY <1>1, <1>3, <1>4, <1>5, <1>6 DEF JobTypes
<1>8. LifeOf(p)'
  BY <1>1, <1>4, <1>5, <1>p DEF LifeOf, Running
<1>9. \A b \in Process : LifeOf(b)'
  BY <1>1, <1>4, <1>5, <1>8, LifeKept
<1>10. Ever' = Ever /\ InJob' = InJob /\ Unlisted' = Unlisted
  BY <1>1, <1>4 DEF Ever, InJob, Unlisted
<1>11. Phases'
  BY <1>1, <1>6, <1>10 DEF Phases, Early
<1>12. Cardinality(EndedSeen') = IF p \in ended /\ held'[p] = "counted" THEN Cardinality(EndedSeen) + 1
                                 ELSE Cardinality(EndedSeen)
  <2>1. CASE p \in ended /\ held'[p] = "counted"
    <3>1. p \notin EndedSeen /\ EndedSeen' = EndedSeen \cup {p}
      BY <2>1, <1>1, <1>4 DEF EndedSeen, JobTypes
    <3> QED BY <2>1, <3>1, <1>n, Joined
  <2>2. CASE ~(p \in ended /\ held'[p] = "counted")
    <3>1. EndedSeen' = EndedSeen
      BY <2>2, <1>1, <1>4 DEF EndedSeen, JobTypes
    <3> QED BY <2>2, <3>1
  <2> QED BY <2>1, <2>2
<1>13. Cardinality(Reused') = IF held[p] = "other" THEN Cardinality(Reused) - 1 ELSE Cardinality(Reused)
  <2>1. CASE held[p] = "other"
    <3>1. p \in Reused /\ Reused' = Reused \ {p}
      BY <2>1, <1>4 DEF Reused
    <3> QED BY <2>1, <3>1, <1>n, Removed
  <2>2. CASE held[p] # "other"
    <3>1. Reused' = Reused
      BY <2>2, <1>4 DEF Reused
    <3> QED BY <2>2, <3>1
  <2> QED BY <2>1, <2>2
<1>14. Accounts'
  <2>1. SUFFICES ASSUME ~errors' PROVE Accounts'
    BY <1>1 DEF Accounts, Counting
  <2>2. Counting
    BY <2>1, <1>1, <1>6 DEF Counting
  <2>3. forced >= Cardinality(EndedSeen)
    BY <2>2 DEF Accounts
  <2>4. found # -1 => /\ found + Cardinality(ended \cap Unlisted) <= Cardinality(Ever)
                      /\ forced + Cardinality(Reused) + Cardinality(Ever)
                            <= found + Cardinality(Ever \cap Unlisted) + spare + Cardinality(EndedSeen)
    BY <2>2, <1>1 DEF Accounts
  <2>5. forced' >= Cardinality(EndedSeen')
    <3>1. CASE held'[p] # "counted"
      BY <3>1, <2>3, <1>2, <1>12, <1>n DEF JobTypes
    <3>2. CASE held'[p] = "counted" /\ p \in ended
      BY <3>2, <2>1, <2>3, <1>2, <1>12, <1>n DEF JobTypes
    <3>3. CASE held'[p] = "counted" /\ p \notin ended
      BY <3>3, <2>1, <2>3, <1>2, <1>12, <1>n DEF JobTypes
    <3> QED BY <3>1, <3>2, <3>3
  <2>6. found # -1 => forced' + Cardinality(Reused') + Cardinality(Ever)
                            <= found + Cardinality(Ever \cap Unlisted) + spare' + Cardinality(EndedSeen')
    <3>1. CASE held'[p] # "counted"
      <4>1. held[p] # "other" /\ forced' = forced /\ spare' = spare
        BY <3>1, <1>2 DEF JobTypes
      <4> QED BY <3>1, <4>1, <2>4, <1>12, <1>13, <1>n
    <3>2. CASE held'[p] = "counted"
      <4>1. /\ forced' \in {forced, forced + 1} /\ spare' \in {spare, spare + 1}
            /\ IF p \in ended THEN forced' = forced + 1 /\ held[p] # "other" /\ spare' = spare
                               ELSE \/ forced' = forced \/ held[p] = "other"
                                    \/ (forced' = forced + 1 /\ spare' = spare + 1)
        BY <3>2, <2>1, <1>2, <1>n DEF JobTypes
      <4> QED BY <3>2, <4>1, <2>4, <1>12, <1>13, <1>n
    <3> QED BY <3>1, <3>2
  <2> QED BY <2>4, <2>5, <2>6, <1>1, <1>10 DEF Accounts
<1>15. EmptyStaysEmpty'
  BY <1>1, <1>10 DEF EmptyStaysEmpty, Running
<1> QED BY <1>7, <1>9, <1>11, <1>14, <1>15

\* With every held process read, those that entered late are added; then the receipt is written.
LEMMA CountSteps == ASSUME JobInv, CountEntered \/ WriteReceipt PROVE JobInv'
<1> USE DEF JobInv
<1>n. /\ Ever \in SUBSET Process /\ Unlisted \in SUBSET Process /\ EndedSeen \in SUBSET Process
      /\ ended \in SUBSET Process
      /\ Cardinality(Ever) \in Nat /\ Cardinality(Reused) \in Nat /\ Cardinality(EndedSeen) \in Nat
      /\ Cardinality(Ever \cap Unlisted) \in Nat /\ Cardinality(ended \cap Unlisted) \in Nat
      /\ found \in Nat \cup {-1} /\ forced \in Nat /\ spare \in Nat
  BY CountSets
<1>1. /\ turn \in {"count", "write"} /\ turn' \in {"write", "written"} /\ task' = task /\ found' = found
      /\ held' = held
      /\ signaled' = signaled /\ rootExit' = rootExit /\ empty' = empty /\ ended' = ended
      /\ errors' \in {errors, TRUE}
  BY DEF CountEntered, WriteReceipt, judged, Fails
<1>2. \A p \in Process : LifeOf(p)'
  BY <1>1, LifeKept
<1>3. Ever' = Ever /\ InJob' = InJob
  BY <1>1 DEF Ever, InJob
<1>4. errors' \in BOOLEAN /\ (~errors' => ~errors)
  <2>1. errors \in BOOLEAN /\ (errors' = errors \/ errors' = TRUE)
    BY <1>1 DEF JobTypes
  <2> QED BY <2>1
<1>5. Phases'
  BY <1>1, <1>3 DEF Phases, Early
<1>6. EmptyStaysEmpty'
  BY <1>1, <1>3 DEF EmptyStaysEmpty, Running
<1>7. CASE forced' = forced /\ spare' = spare /\ (turn = "write" \/ errors' = TRUE)
  <2>1. JobTypes'
    BY <1>1, <1>4, <1>7 DEF JobTypes, Turns
  <2>2. Accounts'
    BY <1>1, <1>4, <1>7 DEF Accounts, Counting
  <2> QED BY <1>2, <1>5, <1>6, <2>1, <2>2
<1>8. CASE CountEntered /\ found # -1 /\ forced' = forced + (Cardinality(Ever) - found)
           /\ spare' = spare + Cardinality({p \in Ever \ ended : held[p] = "none"}) /\ errors' = errors
  <2>1. turn = "count" /\ turn' = "write" /\ \A p \in Process : held[p] \in {"none", "counted"}
    BY <1>8 DEF CountEntered
  <2> DEFINE Late == (Ever \ ended) \cap Unlisted
  <2>2. Late \in SUBSET Process /\ {p \in Ever \ ended : held[p] = "none"} = Late
    BY <1>n DEF Unlisted, Ever
  <2>3. Cardinality(Late) \in Nat /\ spare' = spare + Cardinality(Late)
    BY <2>2, <1>8, Sizes
  <2>4. found \in Nat /\ found <= Cardinality(Ever)
    BY <1>8, <1>n DEF Phases
  <2>5. forced' \in Nat /\ spare' \in Nat
    BY <1>8, <1>n, <2>3, <2>4
  <2>6. JobTypes'
    BY <1>1, <1>4, <2>5 DEF JobTypes, Turns
  <2>7. ended \subseteq Ever
    BY <1>n DEF Ever, LifeOf
  <2>8. Cardinality(ended) = Cardinality(EndedSeen) + Cardinality(ended \cap Unlisted)
    <3>1. ended = EndedSeen \cup (ended \cap Unlisted) /\ EndedSeen \cap (ended \cap Unlisted) = {}
      BY <2>1, <1>n DEF EndedSeen, Unlisted
    <3>2. ended \cap Unlisted \in SUBSET Process
      BY <1>n
    <3> QED BY <3>1, <3>2, <1>n, Split
  <2>9. Cardinality(Ever \cap Unlisted) = Cardinality(ended \cap Unlisted) + Cardinality(Late)
    <3>1. Ever \cap Unlisted = (ended \cap Unlisted) \cup Late /\ (ended \cap Unlisted) \cap Late = {}
      BY <2>7
    <3>2. ended \cap Unlisted \in SUBSET Process
      BY <1>n
    <3> QED BY <3>1, <3>2, <2>2, Split
  <2>10. Accounts'
    <3>1. SUFFICES ASSUME ~errors PROVE Accounts'
      BY <1>1, <1>8 DEF Accounts, Counting
    <3>2. Counting
      BY <2>1, <3>1 DEF Counting
    <3>3. /\ found + Cardinality(ended \cap Unlisted) <= Cardinality(Ever)
          /\ forced + Cardinality(Reused) + Cardinality(Ever)
                <= found + Cardinality(Ever \cap Unlisted) + spare + Cardinality(EndedSeen)
          /\ forced >= Cardinality(EndedSeen)
      BY <2>1, <3>2, <1>8 DEF Accounts
    <3>4. forced' >= Cardinality(ended)
      BY <3>3, <2>3, <2>4, <2>8, <1>8, <1>n
    <3>5. forced' <= Cardinality(ended) + spare'
      BY <3>3, <2>3, <2>4, <2>8, <2>9, <1>8, <1>n
    <3> QED BY <2>1, <3>4, <3>5, <1>1 DEF Accounts, Counting
  <2> QED BY <1>2, <1>5, <1>6, <2>6, <2>10
<1> QED BY <1>7, <1>8 DEF CountEntered, WriteReceipt, Fails, judged

\* Every step of the guard and of the kernel keeps it.
LEMMA JobKept == JobInv /\ [JobNext]_jobVars => JobInv'
<1> SUFFICES ASSUME JobInv, [JobNext]_jobVars PROVE JobInv'
  OBVIOUS
<1>1. CASE UNCHANGED jobVars
  <2>1. /\ task' = task /\ turn' = turn /\ found' = found /\ held' = held /\ signaled' = signaled
        /\ forced' = forced
        /\ spare' = spare /\ rootExit' = rootExit /\ empty' = empty /\ errors' = errors /\ ended' = ended
    BY <1>1 DEF jobVars, judged
  <2> QED BY <2>1 DEF JobInv, JobTypes, LifeOf, Phases, Accounts, EmptyStaysEmpty, Counting, Running, Ever, InJob,
                      Unlisted, Reused, EndedSeen
<1>2. CASE JobNext
  BY <1>2, KernelSteps, EarlySteps, SettleSteps, ListSteps, TerminateSteps, ReadSteps, CountSteps DEF JobNext
<1> QED BY <1>1, <1>2

\* It is what makes a count honest.
LEMMA JobShows == JobInv => ForcedCounted
BY DEF JobInv, Accounts, JobTypes, ForcedCounted, NoForcedMissed, NoForcedInvented

\* In whatever order an exit code, the end of job membership and the signal of a handle become visible, and
\* whatever enters the job or takes over an id meanwhile, a receipt without errors counts every process the
\* termination ended and no more than late entrants, reused ids and programs that return 259 explain, and a job
\* found empty stays empty (guard_windows.rs, windows_job.rs).
THEOREM JobCountsForced == JobSpec => []ForcedCounted
BY JobBegins, JobKept, JobShows, PTL DEF JobSpec

\* Each process listed adds at most one forced cleanup, and what entered late at most as many again.
CountedOnes == {p \in Process : held[p] = "counted"}
JobBounds   == /\ turn \notin {"write", "written"} => forced <= Cardinality(CountedOnes)
               /\ forced <= 2 * Cardinality(Process)

\* The forced cleanups of the guard on Windows.
LEMMA JobBounded ==
  /\ JobInit => JobBounds
  /\ JobInv /\ JobBounds /\ [JobNext]_jobVars => JobBounds'
  /\ JobInv /\ JobBounds => JobTypeOK
<1>s. /\ Process \in SUBSET Process /\ CountedOnes \in SUBSET Process /\ Ever \in SUBSET Process
      /\ Cardinality(Process) \in Nat
  BY Sizes DEF CountedOnes, Ever
<1>t. CountedOnes' \in SUBSET Process
  BY DEF CountedOnes
<1>1. JobInit => JobBounds
  BY <1>s, Sizes DEF JobInit, JobBounds
<1>2. ASSUME JobInv, JobBounds, [JobNext]_jobVars PROVE JobBounds'
  <2>f. /\ forced \in Nat /\ found \in Nat \cup {-1} /\ Cardinality(CountedOnes) \in Nat /\ Cardinality(Ever) \in Nat
        /\ Cardinality(CountedOnes) <= Cardinality(Process) /\ Cardinality(Ever) <= Cardinality(Process)
        /\ turn \in Turns
        /\ held \in [Process -> {"none", "listed", "own", "gone", "other", "failed", "seen", "graced", "counted"}]
    BY <1>2, <1>s, Sizes, Fewer DEF JobInv, JobTypes
  <2>c. Cardinality(CountedOnes') \in Nat /\ Cardinality(CountedOnes') <= Cardinality(Process)
    BY <1>s, <1>t, Sizes, Fewer
  <2>1. ASSUME forced' = forced, CountedOnes \subseteq CountedOnes',
               turn \in {"write", "written"} => turn' \in {"write", "written"}
        PROVE  JobBounds'
    <3>1. Cardinality(CountedOnes) <= Cardinality(CountedOnes')
      BY <1>t, <2>1, Fewer
    <3> QED BY <1>2, <1>s, <2>f, <2>c, <2>1, <3>1 DEF JobBounds
  <2>2. ASSUME turn \notin {"write", "written"}, NEW p \in Process, NEW n \in {0, 1}, held[p] # "counted",
               Counted(p, n),
               turn' = turn
        PROVE  JobBounds'
    <3>1. CountedOnes' = CountedOnes \cup {p} /\ p \notin CountedOnes /\ forced' = forced + n
      BY <2>f, <2>2 DEF Counted, CountedOnes
    <3>2. Cardinality(CountedOnes \cup {p}) = Cardinality(CountedOnes) + 1
      BY <1>s, <3>1, Joined
    <3> QED BY <1>2, <1>s, <2>f, <2>c, <2>2, <3>1, <3>2 DEF JobBounds
  <2>3. CASE StartBrowser \/ StopWaiting \/ Before \/ Settled \/ Unsettled \/ Terminate \/ UNCHANGED jobVars
    <3>1. forced' = forced /\ held' = held /\ (turn \in {"write", "written"} => turn' \in {"write", "written"})
      BY <2>3 DEF StartBrowser, StopWaiting, Before, Settled, Unsettled, Terminate, judged, jobVars
    <3> QED BY <2>1, <3>1 DEF CountedOnes
  <2>4. CASE List
    <3>1. forced' = forced /\ turn = "list"
      BY <2>4 DEF List
    <3>2. CountedOnes = {}
      BY <1>2, <3>1 DEF CountedOnes, JobInv, Phases, Early
    <3> QED BY <2>1, <3>1, <3>2
  <2>5. CASE CountEntered
    <3>1. turn' = "write" /\ turn = "count"
      BY <2>5 DEF CountEntered
    <3>2. CASE UNCHANGED forced
      BY <1>2, <3>1, <3>2 DEF JobBounds
    <3>3. CASE found # -1 /\ forced' = forced + (Cardinality(Ever) - found)
      <4>1. found \in Nat
        BY <2>f, <3>3
      <4>2. forced' <= Cardinality(Process) + Cardinality(Process)
        BY <1>2, <1>s, <2>f, <3>1, <3>3, <4>1 DEF JobBounds
      <4> QED BY <1>s, <3>1, <4>2 DEF JobBounds
    <3> QED BY <2>5, <3>2, <3>3 DEF CountEntered
  <2>6. CASE WriteReceipt
    <3>1. turn' = "written" /\ forced' = forced
      BY <2>6 DEF WriteReceipt, judged
    <3> QED BY <1>2, <3>1 DEF JobBounds
  <2>7. ASSUME NEW p \in Process, Starts(p) \/ Ends(p) \/ Dropped(p) \/ Signaled(p) PROVE JobBounds'
    <3>1. forced' = forced /\ held' = held /\ turn' = turn
      BY <2>7 DEF Starts, Ends, Dropped, Signaled, Kernel, judged
    <3> QED BY <2>1, <3>1 DEF CountedOnes
  <2>8. ASSUME NEW p \in Process, OpenListed(p) \/ ReadSignal(p) PROVE JobBounds'
    <3>1. /\ forced' = forced /\ turn' = turn /\ held[p] # "counted"
          /\ \A q \in Process \ {p} : held'[q] = held[q]
      BY <2>8, <2>f DEF OpenListed, ReadSignal
    <3> QED BY <2>1, <3>1 DEF CountedOnes
  <2>9. ASSUME NEW p \in Process, ReadCode(p) PROVE JobBounds'
    <3>1. turn = "count" /\ turn' = turn /\ held[p] # "counted"
      BY <2>9 DEF ReadCode
    <3>2. CASE UNCHANGED <<forced, spare>> /\ held' = [held EXCEPT ![p] = "graced"]
      BY <2>1, <2>f, <3>1, <3>2 DEF CountedOnes
    <3>3. CASE Counted(p, IF Forced(CodeOf(p), signaled[p]) THEN 1 ELSE 0)
      BY <2>2, <3>1, <3>3
    <3> QED BY <2>9, <3>2, <3>3 DEF ReadCode
  <2>10. ASSUME NEW p \in Process, ReadOther(p) PROVE JobBounds'
    <3>1. turn = "count" /\ turn' = turn /\ held[p] # "counted" /\ \E n \in {0, 1} : Counted(p, n)
      BY <2>10 DEF ReadOther
    <3> QED BY <2>2, <3>1
  <2> QED BY <1>2, <2>3, <2>4, <2>5, <2>6, <2>7, <2>8, <2>9, <2>10 DEF JobNext
<1>3. ASSUME JobInv, JobBounds PROVE JobTypeOK
  <2>1. Cardinality(Ever) <= Cardinality(Process) /\ Cardinality(Ever) \in Nat
    BY <1>s, Sizes, Fewer
  <2>2. found \in -1..Cardinality(Process) /\ forced \in 0..2 * Cardinality(Process)
    BY <1>3, <1>s, <2>1 DEF JobBounds, JobInv, JobTypes, Phases
  <2> QED BY <1>3, <2>2 DEF JobInv, JobTypes, TaskOf, Turns, JobTypeOK
<1> QED BY <1>1, <1>2, <1>3
=============================================================================
