--------------------------- MODULE OpenedIdentity ---------------------------
(* Whose process a Windows browser's opened reply names                      *)
(* (process_windows.rs, processes .. native_owned): process ids are used     *)
(* again, and a parent record outlives the parent.                           *)
EXTENDS Naturals, FiniteSets

CONSTANTS
    Number,     \* process ids
    MaxTime,    \* bound: processes ever started
    NoNumber

ASSUME IdentityAssumption == NoNumber \notin Number /\ MaxTime \in Nat \ {0}

VARIABLES
    proc,     \* Number -> the process there: when it was created (0: none), by whom, its recorded parent
    clock,
    guardId,  \* the guard's id: unreaped, so it names the guard for as long as the App holds it
    native,   \* the id the reply names
    step,     \* how far native_owned is
    owned,    \* its verdict so far
    subject   \* the process its handle holds open

identityVars == <<proc, clock, guardId, native, step, owned, subject>>

NoProcessThere == [born |-> 0, maker |-> 0, parent |-> NoNumber, image |-> "other", ended |-> FALSE]
\* A handle keeps an ended process, and so its id.
Pinned(n) == (n = guardId) \/ (step # "ask" /\ n = native /\ subject # NoProcessThere)
\* Some process starts another: the record names its id, the truth is its time of creation.
StartsAnother(n, p, image) ==
    /\ proc[n].born = 0 /\ clock < MaxTime /\ proc[p].born # 0 /\ ~proc[p].ended /\ clock' = clock + 1
    /\ proc' = [proc EXCEPT ![n] = [born |-> clock + 1, maker |-> proc[p].born, parent |-> p,
                                    image |-> image, ended |-> FALSE]]
    /\ UNCHANGED <<guardId, native, step, owned, subject>>
EndsProcess(n) ==
    /\ proc[n].born # 0 /\ n # guardId /\ ~proc[n].ended
    /\ proc' = [proc EXCEPT ![n] = IF Pinned(n) THEN [@ EXCEPT !.ended = TRUE] ELSE NoProcessThere]
    /\ subject' = IF Pinned(n) THEN proc'[n] ELSE subject
    /\ UNCHANGED <<clock, guardId, native, step, owned>>
GuardStarts(n) == /\ guardId = NoNumber /\ proc[n].born = 0 /\ clock < MaxTime /\ clock' = clock + 1
                  /\ guardId' = n
                  /\ proc' = [proc EXCEPT ![n] = [NoProcessThere EXCEPT !.born = clock + 1]]
                  /\ UNCHANGED <<native, step, owned, subject>>

\* The native process is opened first, and held.
OpenNative(n) == /\ guardId # NoNumber /\ step = "ask" /\ n # guardId /\ native' = n
                 /\ step' = "parent" /\ owned' = (proc[n].born # 0)
                 /\ subject' = proc[n]
                 /\ UNCHANGED <<proc, clock, guardId>>
Checks(at, next, answer) ==
    /\ step = at /\ owned /\ step' = next /\ owned' = answer
    /\ UNCHANGED <<proc, clock, guardId, native, subject>>
\* The snapshot has only processes that have not ended.
ParentOf  == Checks("parent", "times", ~proc[native].ended /\ proc[native].parent = guardId)
\* Mutant: the times are not compared.
NoTimes   == Checks("times", "image", TRUE)
Times     == Checks("times", "image", proc[native].born >= proc[guardId].born)
Image     == Checks("image", "done", proc[native].image = "program")

\* Before the guard there were other processes, one of which may have had its id.
IdentityInit == /\ guardId = NoNumber /\ native = NoNumber /\ step = "ask" /\ owned = FALSE /\ subject = NoProcessThere
                /\ \E p \in Number : proc = [n \in Number |-> IF n = p THEN [NoProcessThere EXCEPT !.born = 1] ELSE NoProcessThere]
                /\ clock = 1
IdentityNext == \/ \E n, p \in Number, image \in {"program", "other"} : StartsAnother(n, p, image)
                \/ \E n \in Number : EndsProcess(n) \/ GuardStarts(n) \/ OpenNative(n)
                \/ ParentOf \/ Times \/ Image
IdentitySpec == IdentityInit /\ [][IdentityNext]_identityVars

IdentityTypeOK == /\ clock \in 1..MaxTime /\ guardId \in Number \cup {NoNumber}
                  /\ \A n \in Number : proc[n].born \in 0..clock /\ proc[n].maker \in 0..clock

\* A browser whose reply is accepted really is a child of this guard that runs the program, however ids
\* were used again before and during the checks.
OwnedIsChild == step = "done" /\ owned => subject.maker = proc[guardId].born /\ subject.image = "program"
=============================================================================
