----------------------------- MODULE PipeWriter -----------------------------
(* The App's end of a browser's control pipe on Windows                      *)
(* (process_windows.rs, Input): a thread performs the blocking writes, the   *)
(* caller waits for each until its deadline, and closing cancels a write in  *)
(* progress until the thread has ended.                                      *)
EXTENDS Naturals, Sequences

CONSTANTS
    MaxRequests,   \* bound: requests ever written
    Parts          \* bound: pieces a request may be written in

ASSUME WriterAssumption == MaxRequests \in Nat \ {0} /\ Parts \in Nat \ {0}

VARIABLES
    caller,   \* "open", "joining", "cancelling" or "gone"
    waiting,  \* pending: a request was handed over and its result not received
    given,    \* requests handed over so far
    queue,    \* requests the thread has not taken
    thread,   \* "idle", "check" and "go" (before a write), "writing" (blocked in one) or "ended"
    left,     \* pieces of the request being written still to write
    done,     \* results not received
    pipe,     \* what the browser can read: the request of each piece
    closing,  \* the flag
    lateWrites  \* writes begun after the flag was set

pipeVars == <<caller, waiting, given, queue, thread, left, done, pipe, closing, lateWrites>>

\* write_until hands a request over when none is pending; the channel of an ended thread is closed.
HandOver == /\ caller = "open" /\ ~waiting /\ given < MaxRequests /\ thread # "ended"
            /\ given' = given + 1 /\ queue' = Append(queue, given + 1) /\ waiting' = TRUE
            /\ UNCHANGED <<caller, thread, left, done, pipe, closing, lateWrites>>
\* settle: the thread answers also when it ends; a timeout leaves the write pending.
\* Mutant: a request that timed out is forgotten.
SettleForgets == /\ caller = "open" /\ waiting /\ waiting' = FALSE
                 /\ done' = IF done = <<>> THEN done ELSE Tail(done)
                 /\ UNCHANGED <<caller, given, queue, thread, left, pipe, closing, lateWrites>>
Settle == /\ caller = "open" /\ waiting /\ waiting' = FALSE
          /\ done # <<>> /\ done' = Tail(done)
          /\ UNCHANGED <<caller, given, queue, thread, left, pipe, closing, lateWrites>>

Take == /\ thread = "idle" /\ queue # <<>>
        /\ queue' = Tail(queue) /\ left' = Parts /\ thread' = "check"
        /\ UNCHANGED <<caller, waiting, given, done, pipe, closing, lateWrites>>
Stops(step) == thread' = step /\ done' = Append(done, "failed")
\* write_all_unless reads the flag before every write.
\* Mutant: it is read for the first write of a request only.
CheckOnce == /\ thread = "check"
             /\ IF closing /\ left = Parts THEN Stops("ended") ELSE thread' = "go" /\ UNCHANGED done
             /\ UNCHANGED <<caller, waiting, given, queue, left, pipe, closing, lateWrites>>
Check == /\ thread = "check"
         /\ \/ ~closing /\ thread' = "go" /\ UNCHANGED done
            \/ closing /\ Stops("ended")
         /\ UNCHANGED <<caller, waiting, given, queue, left, pipe, closing, lateWrites>>
Writes == /\ thread = "go" /\ thread' = "writing" /\ lateWrites' = lateWrites + (IF closing THEN 1 ELSE 0)
          /\ UNCHANGED <<caller, waiting, given, queue, left, done, pipe, closing>>
Wrote == /\ thread = "writing"
         /\ pipe' = Append(pipe, given - Len(queue)) /\ left' = left - 1
         /\ IF left = 1 THEN thread' = "idle" /\ done' = Append(done, "ok")
            ELSE thread' = "check" /\ UNCHANGED done
         /\ UNCHANGED <<caller, waiting, given, queue, closing, lateWrites>>
\* Mutant: the thread takes the next request after one that failed.
WriteSkipped == /\ thread = "writing" /\ Stops("idle")
                /\ UNCHANGED <<caller, waiting, given, queue, left, pipe, closing, lateWrites>>
\* The browser closed its end, or a cancel ended the write.
WriteFails == /\ thread = "writing" /\ Stops("ended")
              /\ UNCHANGED <<caller, waiting, given, queue, left, pipe, closing, lateWrites>>

\* Drop: the channel closes, so an idle thread ends; with a write pending it is cancelled instead.
DropInput == /\ caller = "open"
             /\ \/ ~waiting /\ caller' = "joining" /\ UNCHANGED closing
                \/ waiting /\ caller' = "cancelling" /\ closing' = TRUE
             /\ UNCHANGED <<waiting, given, queue, thread, left, done, pipe, lateWrites>>
ThreadEnds == /\ caller # "open" /\ thread = "idle" /\ queue = <<>> /\ thread' = "ended"
              /\ UNCHANGED <<caller, waiting, given, queue, left, done, pipe, closing, lateWrites>>
\* The thread has ended, or CANCEL_BOUND has passed.
Gone == /\ \/ caller = "joining" /\ thread = "ended"
           \/ caller = "cancelling"
        /\ caller' = "gone"
        /\ UNCHANGED <<waiting, given, queue, thread, left, done, pipe, closing, lateWrites>>

PipeInit == /\ caller = "open" /\ waiting = FALSE /\ given = 0 /\ queue = <<>> /\ thread = "idle" /\ left = 0
            /\ done = <<>> /\ pipe = <<>> /\ closing = FALSE /\ lateWrites = 0
PipeNext == \/ HandOver \/ Settle \/ Take \/ Check \/ Writes \/ Wrote \/ WriteFails
            \/ DropInput \/ ThreadEnds \/ Gone
PipeSpec == PipeInit /\ [][PipeNext]_pipeVars

PipeTypeOK == /\ caller \in {"open", "joining", "cancelling", "gone"} /\ left \in 0..Parts
              /\ thread \in {"idle", "check", "go", "writing", "ended"}
              /\ queue \in Seq(1..MaxRequests) /\ pipe \in Seq(1..MaxRequests) /\ lateWrites \in 0..Parts

\* The browser reads whole requests in their order: only the last one may be cut short, also after a
\* timeout, a failure or a cancelled write.
RequestsWhole == \A i \in 1..Len(pipe) : pipe[i] = ((i - 1) \div Parts) + 1
\* Once closing, at most the one write the flag was set under is still begun.
OneLateWrite == lateWrites <= 1
\* Closing an idle end never waits behind a write the browser does not read.
IdleJoinEnds == caller = "joining" => thread \in {"idle", "ended"} /\ queue = <<>>
\* The browser's end sees whole requests, and closing ends, whatever the thread was in the middle of
\* (process_windows.rs, Input).
PipeOrderly == RequestsWhole /\ OneLateWrite /\ IdleJoinEnds
=============================================================================
