---------------------------- MODULE RateWindow -----------------------------
(***************************************************************************)
(* The relay's fixed-window counters (relay/src/rate-limit.ts): a row per  *)
(* bucket in rate_windows, counting events of the row's window.  Each      *)
(* operator is one SQL statement, which D1 runs atomically.  An absent row *)
(* is Absent, whose window is none of the time's windows.                  *)
(***************************************************************************)
EXTENDS Integers

Absent == [start |-> -1, count |-> 0]
RowOf(Time) == [start : Time \cup {-1}, count : Nat]

WindowStart(time, seconds) == time - (time % seconds)

\* Mutant: the CASE is missing, so a new window keeps the old count.
UpsertAnyWindow(row, window) == [start |-> window, count |-> row.count + 1]

\* UPSERT: another window's row is overwritten, an older one and a newer one alike.
Upsert(row, window) ==
  [start |-> window,
   count |-> IF row.start = window THEN row.count + 1 ELSE 1]

\* PEEK
Peek(row, window) == IF row.start = window THEN row.count ELSE 0

\* DELETE FROM rate_windows WHERE window_start < before
Kept(row, before) == IF row.start < before THEN Absent ELSE row
=============================================================================
