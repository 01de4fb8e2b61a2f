----------------------------- MODULE ExitLatch ------------------------------
(* How the App quits with browsers open (process_adapter.rs request_exit,    *)
(* shutdown, terminal; the plugin's events in desktop.rs): a latch and an    *)
(* exit code, atomics that the UI thread, the draining worker and the        *)
(* shutdown command load and store one at a time.                            *)
EXTENDS Naturals

CONSTANTS
    Code,      \* exit codes
    MaxAsks    \* bound: requests to exit

ASSUME ExitAssumption == 0 \in Code /\ Code \subseteq Nat /\ MaxAsks \in Nat

VARIABLES
    latch,    \* state: 0 open, 1 closing, 2 closed
    code,     \* the code of the exit under way
    ask,      \* the request the UI thread is making: its code and step
    asks,     \* requests so far
    drainer,  \* the drain under way: its step, and for a quit or for the command
    resetter, \* a failed command has reopened the latch and still resets the code
    wanted,   \* codes asked for since a failed drain reset the code
    slipped,  \* a code was stored, or a quit begun, between the two stores of a drain that failed
    final     \* the exit code, once the App ended

exitVars == <<latch, code, ask, asks, drainer, resetter, wanted, slipped, final>>

NoAsk   == [code |-> 0, at |-> "none"]
NoDrain == [at |-> "none", for |-> "quit"]
Alive   == final = {}
Undoing == drainer.at = "reopening" \/ resetter

\* The main window's close, or ExitRequested: a code other than 0 is stored before the latch is compared.
RequestExit(c) ==
    /\ Alive /\ ask = NoAsk /\ asks < MaxAsks /\ asks' = asks + 1
    /\ ask' = [code |-> c, at |-> "compare"]
    /\ code' = IF c = 0 THEN code ELSE c
    /\ wanted' = wanted \cup {c} /\ slipped' = (slipped \/ (c # 0 /\ Undoing))
    /\ UNCHANGED <<latch, drainer, resetter, final>>
\* The first request starts a worker; one made while it drains is prevented; after it the App exits.
CompareLatch ==
    /\ Alive /\ ask.at = "compare" /\ ask' = NoAsk
    /\ \/ latch = 2 /\ final' = {ask.code} /\ UNCHANGED <<latch, drainer, slipped>>
       \/ latch = 1 /\ UNCHANGED <<latch, drainer, slipped, final>>
       \/ /\ latch = 0 /\ latch' = 1 /\ drainer' = [at |-> "drain", for |-> "quit"]
          /\ slipped' = (slipped \/ resetter) /\ UNCHANGED final
    /\ UNCHANGED <<code, asks, resetter, wanted>>
\* shutdown, the command, takes the same latch and does not exit.
ShutdownBrowsers == /\ Alive /\ latch = 0 /\ ~resetter
                    /\ latch' = 1 /\ drainer' = [at |-> "drain", for |-> "command"]
                    /\ UNCHANGED <<code, ask, asks, resetter, wanted, slipped, final>>
DrainCloses == /\ Alive /\ drainer.at = "drain" /\ latch' = 2
               /\ drainer' = IF drainer.for = "quit" THEN [drainer EXCEPT !.at = "exit"] ELSE NoDrain
               /\ UNCHANGED <<code, ask, asks, resetter, wanted, slipped, final>>
ExitsWithCode == /\ Alive /\ drainer.at = "exit" /\ final' = {code}
                 /\ UNCHANGED <<latch, code, ask, asks, drainer, resetter, wanted, slipped>>
\* The drain failed or was cancelled.  The worker resets the code and then the latch ...
\* Mutant: the code of a cancelled exit stays.
KeepsCode == /\ Alive /\ drainer = [at |-> "drain", for |-> "quit"]
             /\ drainer' = [drainer EXCEPT !.at = "reopening"]
             /\ wanted' = {} /\ slipped' = (ask.at # "none")
             /\ UNCHANGED <<latch, code, ask, asks, resetter, final>>
ResetsCode == /\ Alive /\ drainer = [at |-> "drain", for |-> "quit"]
              /\ drainer' = [drainer EXCEPT !.at = "reopening"]
              /\ code' = 0 /\ wanted' = {} /\ slipped' = (ask.at # "none")
              /\ UNCHANGED <<latch, ask, asks, resetter, final>>
ReopensLast == /\ Alive /\ drainer.at = "reopening" /\ drainer' = NoDrain /\ latch' = 0
               /\ UNCHANGED <<code, ask, asks, resetter, wanted, slipped, final>>
\* ... and the command the latch and then the code.
ReopensFirst == /\ Alive /\ drainer = [at |-> "drain", for |-> "command"]
                /\ drainer' = NoDrain /\ latch' = 0 /\ resetter' = TRUE
                /\ wanted' = {} /\ slipped' = (ask.at # "none")
                /\ UNCHANGED <<code, ask, asks, final>>
ResetsLast == /\ Alive /\ resetter /\ resetter' = FALSE /\ code' = 0
              /\ UNCHANGED <<latch, ask, asks, drainer, wanted, slipped, final>>
\* terminal, on an exit nothing prevented: the latch stays closing.
Terminal == /\ Alive /\ latch # 2 /\ latch' = 1 /\ final' = {0} /\ wanted' = wanted \cup {0}
            /\ UNCHANGED <<code, ask, asks, drainer, resetter, slipped>>

ExitInit == /\ latch = 0 /\ code = 0 /\ ask = NoAsk /\ asks = 0 /\ drainer = NoDrain /\ resetter = FALSE
            /\ wanted = {} /\ slipped = FALSE /\ final = {}
ExitNext == \/ \E c \in Code : RequestExit(c)
            \/ CompareLatch \/ ShutdownBrowsers \/ DrainCloses \/ ExitsWithCode \/ ResetsCode \/ ReopensLast
            \/ ReopensFirst \/ ResetsLast \/ Terminal
ExitSpec == ExitInit /\ [][ExitNext]_exitVars

ExitTypeOK == /\ latch \in 0..2 /\ code \in Code /\ ask.code \in Code /\ asks \in 0..MaxAsks
              /\ wanted \subseteq Code /\ final \subseteq Code
              /\ drainer.at \in {"none", "drain", "exit", "reopening"} /\ (drainer.at # "none" => latch # 0)

\* The App exits with a code that was asked for since the last drain that failed, not with that of a
\* cancelled exit; only a request made between the two stores of a failed drain, or in progress then,
\* may leave or take up another's.
ExitCodeAsked == final \subseteq wanted \/ slipped
=============================================================================
