-------------------------- MODULE BrowserAloneProofs -------------------------
(* What a browser promises to any parent: it quits with nothing open, answers *)
(* no request twice, and asks one window at a time to close, the oldest.      *)
EXTENDS BrowserAlone, FiniteSetTheorems, SequenceTheorems, TLAPS

\* The types of a window, a creation, a request, a reply and a browser.
Watches  == {"idle", "pending", "ready", "missed", "failed"}
Window   == [id : Nat, key : Keys \cup {Popup}, watch : Watches, forced : BOOLEAN]
Creation == [id : Nat \ {0}, key : Keys \cup {None}]
Request  == {r \in [op : {"open", "shutdown", "eof"}, id : Nat, key : Keys \cup {None}] :
                (r.op = "eof" <=> r.id = 0) /\ (r.op = "open" => r.key \in Keys)}
Reply    == [event : Final \cup {"error"}, id : Nat, key : Keys \cup {None}]
Browser  == [boot : Keys \cup {None}, context : BOOLEAN, windows : Seq(Window), creating : SUBSET Creation,
             lastId : Nat, shutdown : Nat \cup {NoId}, chain : Nat, failed : BOOLEAN, quitting : BOOLEAN,
             born : Nat, tasks : Seq(Request), ended : BOOLEAN]

-----------------------------------------------------------------------------
(* The inductive invariant: a browser b that has said t *)

\* A final answer with the id was given; the browser has said that it stopped.
Answered(t, id) == \E i \in 1..Len(t) : t[i].event \in Final /\ t[i].id = id
Stopped(t)      == \E i \in 1..Len(t) : t[i].event = "stopped"
\* No window but the oldest is watched.
OldestOnly(b)   == \A i \in 1..Len(b.windows) : b.windows[i].watch # "idle" => i = 1
\* Nothing is left of a browser that quits.
EmptyAtQuit(b)  == b.quitting => b.windows = <<>> /\ b.boot = None /\ b.creating = {}
\* Final answers have different ids, and none follows stopped.
OnceEach(t)     == \A i, j \in 1..Len(t) :
                      i < j /\ t[i].event \in Final /\ t[j].event \in Final
                      => t[i].id # t[j].id /\ t[i].event # "stopped"
\* Only requests that were admitted are answered, and stopped is said at the end only.
Known(b, t)     == /\ \A i \in 1..Len(t) : t[i].event \in Final => t[i].id <= b.lastId
                   /\ Stopped(t) => b.quitting /\ b.shutdown # NoId
\* What is being created was asked for and is not answered yet.
Making(b, t)    == /\ IsFiniteSet(b.creating)
                   /\ \A c \in b.creating : c.id <= b.lastId /\ ~Answered(t, c.id)
                   /\ \A c, d \in b.creating : c.id = d.id => c = d
\* Nor is a recorded shutdown.
Stopping(b, t)  == b.shutdown # NoId /\ ~b.quitting
                   => /\ b.shutdown <= b.lastId /\ ~Answered(t, b.shutdown)
                      /\ \A c \in b.creating : c.id # b.shutdown
\* The end of input comes once, and no stop is recorded or answered in its name before.
OneEnd(b, t)    == /\ \A i \in 1..Len(b.tasks) : b.tasks[i].op = "eof" => b.ended
                   /\ \A i, j \in 1..Len(b.tasks) :
                         b.tasks[i].op = "eof" /\ b.tasks[j].op = "eof" => i = j
                   /\ b.shutdown = 0 \/ Answered(t, 0)
                      => b.ended /\ \A i \in 1..Len(b.tasks) : b.tasks[i].op # "eof"
\* A browser and what it said.
Good(b, t) == /\ b \in Browser /\ t \in Seq(Reply) /\ OldestOnly(b) /\ EmptyAtQuit(b) /\ OnceEach(t)
              /\ Known(b, t) /\ Making(b, t) /\ Stopping(b, t) /\ OneEnd(b, t)

\* Every browser is good, and the end of input is none of the requests in its pipe.
AInv == /\ browser \in [Profiles -> Browser] /\ requests \in [Profiles -> Seq(Request)]
        /\ replies \in [Profiles -> Seq(Reply)]
        /\ \A p \in Profiles : /\ Good(browser[p], replies[p])
                               /\ \A i \in 1..Len(requests[p]) : requests[p][i].op # "eof"

-----------------------------------------------------------------------------
(* Effects *)

\* An effect with the browser b and the replies o.
Eff(b, o) == [b |-> b, out |-> o]
\* An effect after which a browser that had said s is good.
GoodEff(s, e) == e = Eff(e.b, e.out) /\ e.out \in Seq(Reply) /\ Good(e.b, s \o e.out)

\* The parts of an effect.
LEMMA EffParts ==
  ASSUME NEW b, NEW o
  PROVE  Effect(b) = Eff(b, <<>>) /\ Eff(b, o).b = b /\ Eff(b, o).out = o
  BY DEF Effect, Eff

\* An answer is said after what was said.
LEMMA EffAnswer ==
  ASSUME NEW b, NEW o, NEW event, NEW id, NEW key
  PROVE  Answer(Eff(b, o), event, id, key) = Eff(b, Append(o, Says(event, id, key)))
  BY DEF Answer, Eff

\* An effect that says nothing leaves a good browser good.
LEMMA Unsaid ==
  ASSUME NEW b, NEW s, Good(b, s)
  PROVE  GoodEff(s, Eff(b, <<>>))
<1>1. s \in Seq(Reply) /\ <<>> \in Seq(Reply)
  BY DEF Good
<1>2. s \o <<>> = s
  BY <1>1, ConcatEmptySeq
<1> QED BY <1>1, <1>2, EffParts DEF GoodEff

\* A reply after others.
LEMMA SaidMore ==
  ASSUME NEW s \in Seq(Reply), NEW o \in Seq(Reply), NEW x \in Reply
  PROVE  Append(o, x) \in Seq(Reply) /\ s \o Append(o, x) = Append(s \o o, x) /\ s \o o \in Seq(Reply)
<1> HIDE DEF Reply
<1>1. Append(o, x) = o \o <<x>> /\ <<x>> \in Seq(Reply) /\ s \o o \in Seq(Reply)
  BY AppendIsConcat
<1>2. s \o (o \o <<x>>) = (s \o o) \o <<x>>
  BY <1>1, ConcatAssociative
<1>3. Append(s \o o, x) = (s \o o) \o <<x>>
  BY <1>1, AppendIsConcat
<1> QED BY <1>1, <1>2, <1>3

\* A sequence with one more reply.
LEMMA Appended ==
  ASSUME NEW t \in Seq(Reply), NEW x \in Reply
  PROVE  /\ Append(t, x) \in Seq(Reply) /\ Len(t) \in Nat /\ Len(Append(t, x)) = Len(t) + 1
         /\ \A i \in 1..Len(t) : Append(t, x)[i] = t[i]
         /\ Append(t, x)[Len(t) + 1] = x
         /\ \A i \in 1..Len(t) + 1 : i \in 1..Len(t) \/ i = Len(t) + 1
<1> HIDE DEF Reply
<1> QED BY AppendProperties, LenProperties

\* A refusal is no final answer.
LEMMA Refuses ==
  ASSUME NEW b, NEW t, Good(b, t), NEW x \in Reply, x.event = "error"
  PROVE  Good(b, Append(t, x))
<1> DEFINE u == Append(t, x)
<1>1. t \in Seq(Reply)
  BY DEF Good
<1>2. /\ u \in Seq(Reply) /\ Len(t) \in Nat /\ Len(u) = Len(t) + 1
      /\ \A i \in 1..Len(t) : u[i] = t[i]
      /\ u[Len(t) + 1] = x /\ \A i \in 1..Len(t) + 1 : i \in 1..Len(t) \/ i = Len(t) + 1
  BY <1>1, Appended
<1> HIDE DEF u
<1>3. "error" \notin Final
  BY DEF Final
<1>4. \A i \in 1..Len(u) : u[i].event \in Final => i \in 1..Len(t) /\ u[i] = t[i]
  BY <1>2, <1>3
<1>5. \A i \in 1..Len(t) : i \in 1..Len(u) /\ u[i] = t[i]
  BY <1>2
<1>6. \A id : Answered(u, id) <=> Answered(t, id)
  BY <1>4, <1>5 DEF Answered
<1>7. Stopped(u) <=> Stopped(t)
  BY <1>4, <1>5 DEF Stopped, Final
<1>8. OnceEach(u)
  BY <1>4 DEF Good, OnceEach
<1>9. Known(b, u)
  BY <1>4, <1>7 DEF Good, Known
<1>10. Making(b, u) /\ Stopping(b, u) /\ OneEnd(b, u)
  BY <1>6 DEF Good, Making, Stopping, OneEnd
<1> QED BY <1>2, <1>8, <1>9, <1>10 DEF Good, u

\* A final answer to what is neither answered nor still under way.
LEMMA Answers ==
  ASSUME NEW b, NEW t, Good(b, t), NEW x \in Reply, x.event \in Final, x.id <= b.lastId,
         ~Answered(t, x.id), ~Stopped(t), \A c \in b.creating : c.id # x.id,
         b.shutdown = x.id => b.quitting,
         x.event = "stopped" => b.quitting /\ b.shutdown # NoId,
         x.id = 0 => b.ended /\ \A i \in 1..Len(b.tasks) : b.tasks[i].op # "eof"
  PROVE  Good(b, Append(t, x))
<1> DEFINE u == Append(t, x)
<1>1. t \in Seq(Reply)
  BY DEF Good
<1>2. /\ u \in Seq(Reply) /\ Len(t) \in Nat /\ Len(u) = Len(t) + 1
      /\ \A i \in 1..Len(t) : u[i] = t[i]
      /\ u[Len(t) + 1] = x /\ \A i \in 1..Len(t) + 1 : i \in 1..Len(t) \/ i = Len(t) + 1
  BY <1>1, Appended
<1> HIDE DEF u
<1>3. \A i \in 1..Len(u) : (u[i] = x /\ i = Len(t) + 1) \/ (i \in 1..Len(t) /\ u[i] = t[i])
  BY <1>2
<1>4. \A id : Answered(u, id) => Answered(t, id) \/ id = x.id
  BY <1>3 DEF Answered
<1>5. Stopped(u) => x.event = "stopped"
  BY <1>3 DEF Stopped
<1>6. OnceEach(u)
  <2> SUFFICES ASSUME NEW i \in 1..Len(u), NEW j \in 1..Len(u), i < j, u[i].event \in Final, u[j].event \in Final
               PROVE  u[i].id # u[j].id /\ u[i].event # "stopped"
    BY DEF OnceEach
  <2>1. i \in 1..Len(t) /\ u[i] = t[i]
    BY <1>2, <1>3
  <2>2. CASE j \in 1..Len(t) /\ u[j] = t[j]
    BY <2>1, <2>2 DEF Good, OnceEach
  <2>3. CASE u[j] = x
    BY <2>1, <2>3 DEF Answered, Stopped
  <2> QED BY <2>2, <2>3, <1>3
<1>7. Known(b, u)
  BY <1>3, <1>5 DEF Good, Known
<1>8. Making(b, u)
  BY <1>4 DEF Good, Making
<1>9. Stopping(b, u)
  BY <1>4 DEF Good, Stopping
<1>10. OneEnd(b, u)
  BY <1>4 DEF Good, OneEnd
<1> QED BY <1>2, <1>6, <1>7, <1>8, <1>9, <1>10 DEF Good, u

-----------------------------------------------------------------------------
(* The fields of a browser *)

\* A browser that is the same but for its windows, of which it watches no other than the oldest.
LEMMA WindowsChange ==
  ASSUME NEW b, NEW t, Good(b, t), ~b.quitting, NEW w \in Seq(Window),
         \A i \in 1..Len(w) : w[i].watch # "idle" => i = 1
  PROVE  LET c == [b EXCEPT !.windows = w]
         IN  Good(c, t) /\ c.windows = w /\ c.shutdown = b.shutdown /\ ~c.quitting
<1> DEFINE c == [b EXCEPT !.windows = w]
<1> HIDE DEF Window, Request, Creation
<1>1. /\ c \in Browser /\ c.windows = w /\ c.shutdown = b.shutdown /\ c.quitting = b.quitting
      /\ c.creating = b.creating /\ c.lastId = b.lastId /\ c.tasks = b.tasks /\ c.ended = b.ended
  BY DEF Good, Browser
<1> HIDE DEF c
<1>2. OldestOnly(c) /\ EmptyAtQuit(c) /\ Known(c, t) /\ Making(c, t) /\ Stopping(c, t) /\ OneEnd(c, t)
  BY <1>1 DEF Good, OldestOnly, EmptyAtQuit, Known, Making, Stopping, OneEnd
<1> QED BY <1>1, <1>2 DEF Good, c

\* The window that is being closed is noted.
LEMMA ChainSet ==
  ASSUME NEW b, NEW t, Good(b, t), NEW id \in Nat
  PROVE  LET c == [b EXCEPT !.chain = id]
         IN  Good(c, t) /\ c.windows = b.windows /\ c.shutdown = b.shutdown /\ c.quitting = b.quitting
<1> DEFINE c == [b EXCEPT !.chain = id]
<1> HIDE DEF Window, Request, Creation
<1>1. /\ c \in Browser /\ c.windows = b.windows /\ c.shutdown = b.shutdown /\ c.quitting = b.quitting
      /\ c.creating = b.creating /\ c.lastId = b.lastId /\ c.tasks = b.tasks /\ c.ended = b.ended
      /\ c.boot = b.boot
  BY DEF Good, Browser
<1> HIDE DEF c
<1>2. OldestOnly(c) /\ EmptyAtQuit(c) /\ Known(c, t) /\ Making(c, t) /\ Stopping(c, t) /\ OneEnd(c, t)
  BY <1>1 DEF Good, OldestOnly, EmptyAtQuit, Known, Making, Stopping, OneEnd
<1> QED BY <1>1, <1>2 DEF Good, c

\* A shutdown is recorded, or given up.
LEMMA ShutdownSet ==
  ASSUME NEW b, NEW t, Good(b, t), ~b.quitting, NEW id \in Nat \cup {NoId},
         id # NoId => /\ id <= b.lastId /\ ~Answered(t, id) /\ \A c \in b.creating : c.id # id
                      /\ id = 0 => b.ended /\ \A i \in 1..Len(b.tasks) : b.tasks[i].op # "eof"
  PROVE  LET c == [b EXCEPT !.shutdown = id]
         IN  Good(c, t) /\ c.shutdown = id /\ ~c.quitting /\ c.windows = b.windows
<1> DEFINE c == [b EXCEPT !.shutdown = id]
<1> HIDE DEF Window, Request, Creation
<1>1. /\ c \in Browser /\ c.windows = b.windows /\ c.shutdown = id /\ c.quitting = b.quitting
      /\ c.creating = b.creating /\ c.lastId = b.lastId /\ c.tasks = b.tasks /\ c.ended = b.ended
      /\ c.boot = b.boot
  BY DEF Good, Browser
<1> HIDE DEF c
<1>2. NoId # 0
  BY DEF NoId
<1>3. OldestOnly(c) /\ EmptyAtQuit(c) /\ Known(c, t) /\ Making(c, t)
  BY <1>1 DEF Good, OldestOnly, EmptyAtQuit, Known, Making
<1>4. Stopping(c, t) /\ OneEnd(c, t)
  BY <1>1, <1>2 DEF Good, Stopping, OneEnd
<1> QED BY <1>1, <1>3, <1>4 DEF Good, c

\* Whether the parent is lost changes nothing else.
LEMMA FailedSet ==
  ASSUME NEW b, NEW t, Good(b, t), NEW v \in BOOLEAN
  PROVE  LET c == [b EXCEPT !.failed = v]
         IN  Good(c, t) /\ c.windows = b.windows /\ c.shutdown = b.shutdown /\ c.quitting = b.quitting
<1> DEFINE c == [b EXCEPT !.failed = v]
<1> HIDE DEF Window, Request, Creation
<1>1. /\ c \in Browser /\ c.windows = b.windows /\ c.shutdown = b.shutdown /\ c.quitting = b.quitting
      /\ c.creating = b.creating /\ c.lastId = b.lastId /\ c.tasks = b.tasks /\ c.ended = b.ended
      /\ c.boot = b.boot
  BY DEF Good, Browser
<1> HIDE DEF c
<1>2. OldestOnly(c) /\ EmptyAtQuit(c) /\ Known(c, t) /\ Making(c, t) /\ Stopping(c, t) /\ OneEnd(c, t)
  BY <1>1 DEF Good, OldestOnly, EmptyAtQuit, Known, Making, Stopping, OneEnd
<1> QED BY <1>1, <1>2 DEF Good, c

\* A browser without windows and creations may quit.
LEMMA QuittingSet ==
  ASSUME NEW b, NEW t, Good(b, t), ~b.quitting, b.windows = <<>>, b.boot = None, b.creating = {}
  PROVE  LET c == [b EXCEPT !.quitting = TRUE]
         IN  /\ Good(c, t) /\ c.quitting /\ c.shutdown = b.shutdown /\ c.lastId = b.lastId
             /\ c.creating = {} /\ c.ended = b.ended /\ c.tasks = b.tasks
<1> DEFINE c == [b EXCEPT !.quitting = TRUE]
<1> HIDE DEF Window, Request, Creation
<1>1. /\ c \in Browser /\ c.windows = b.windows /\ c.shutdown = b.shutdown /\ c.quitting
      /\ c.creating = b.creating /\ c.lastId = b.lastId /\ c.tasks = b.tasks /\ c.ended = b.ended
      /\ c.boot = b.boot
  BY DEF Good, Browser
<1> HIDE DEF c
<1>2. OldestOnly(c) /\ EmptyAtQuit(c) /\ Known(c, t) /\ Making(c, t) /\ Stopping(c, t) /\ OneEnd(c, t)
  BY <1>1 DEF Good, OldestOnly, EmptyAtQuit, Known, Making, Stopping, OneEnd
<1> QED BY <1>1, <1>2 DEF Good, c

\* A newer request is taken.
LEMMA LastIdSet ==
  ASSUME NEW b, NEW t, Good(b, t), NEW id \in Nat, id > b.lastId
  PROVE  LET c == [b EXCEPT !.lastId = id]
         IN  /\ Good(c, t) /\ c.lastId = id /\ c.windows = b.windows /\ c.shutdown = b.shutdown
             /\ c.quitting = b.quitting /\ c.creating = b.creating /\ c.boot = b.boot
             /\ ~Answered(t, id) /\ (\A d \in c.creating : d.id # id) /\ id # 0
<1> DEFINE c == [b EXCEPT !.lastId = id]
<1> HIDE DEF Window, Request, Creation
<1>0. b.lastId \in Nat /\ b.creating \subseteq Creation /\ b.shutdown \in Nat \cup {NoId} /\ t \in Seq(Reply)
  BY DEF Good, Browser
<1>1. /\ c \in Browser /\ c.windows = b.windows /\ c.shutdown = b.shutdown /\ c.quitting = b.quitting
      /\ c.creating = b.creating /\ c.lastId = id /\ c.tasks = b.tasks /\ c.ended = b.ended
      /\ c.boot = b.boot
  BY DEF Good, Browser
<1> HIDE DEF c
<1>2. \A i \in 1..Len(t) : t[i].id \in Nat
  <2>1. \A i \in 1..Len(t) : t[i] \in Reply
    BY <1>0, ElementOfSeq
  <2> QED BY <2>1 DEF Reply
<1>3. \A d \in b.creating : d.id \in Nat
  BY <1>0 DEF Creation
<1>4. ~Answered(t, id)
  BY <1>0, <1>2 DEF Good, Known, Answered
<1>5. \A d \in b.creating : d.id # id
  BY <1>0, <1>3 DEF Good, Making
<1>6. Known(c, t)
  BY <1>0, <1>1, <1>2 DEF Good, Known
<1>7. Making(c, t)
  BY <1>0, <1>1, <1>3 DEF Good, Making
<1>8. Stopping(c, t)
  BY <1>0, <1>1 DEF Good, Stopping, NoId
<1>9. OldestOnly(c) /\ EmptyAtQuit(c) /\ OneEnd(c, t)
  BY <1>1 DEF Good, OldestOnly, EmptyAtQuit, OneEnd
<1> QED BY <1>0, <1>1, <1>4, <1>5, <1>6, <1>7, <1>8, <1>9 DEF Good, c

\* A creation is begun for the newest request.
LEMMA CreatingSet ==
  ASSUME NEW b, NEW t, Good(b, t), ~b.quitting, NEW id \in Nat \ {0}, NEW key \in Keys \cup {None}, id <= b.lastId,
         ~Answered(t, id), b.shutdown = NoId, \A d \in b.creating : d.id # id
  PROVE  Good([b EXCEPT !.creating = @ \cup {[id |-> id, key |-> key]}], t)
<1> DEFINE x == [id |-> id, key |-> key]
           s == b.creating \cup {x}
           c == [b EXCEPT !.creating = s]
<1>1. x \in Creation /\ x.id = id
  BY DEF Creation
<1> HIDE DEF x, Window, Request, Creation
<1>2. /\ c \in Browser /\ c.windows = b.windows /\ c.shutdown = b.shutdown /\ c.quitting = b.quitting
      /\ c.creating = s /\ c.lastId = b.lastId /\ c.tasks = b.tasks /\ c.ended = b.ended
      /\ c.boot = b.boot
  BY <1>1 DEF Good, Browser
<1>3. IsFiniteSet(s)
  BY FS_AddElement DEF Good, Making
<1> HIDE DEF c
<1>4. Making(c, t)
  BY <1>1, <1>2, <1>3 DEF Good, Making
<1>5. OldestOnly(c) /\ EmptyAtQuit(c) /\ Known(c, t) /\ Stopping(c, t) /\ OneEnd(c, t)
  BY <1>2 DEF Good, OldestOnly, EmptyAtQuit, Known, Stopping, OneEnd
<1>6. Good(c, t)
  BY <1>2, <1>4, <1>5 DEF Good
<1>7. [b EXCEPT !.creating = @ \cup {[id |-> id, key |-> key]}] = c
  BY DEF c, x
<1> QED BY <1>6, <1>7

\* A creation is over: its id is free to be answered.
LEMMA CreatingLess ==
  ASSUME NEW b, NEW t, Good(b, t), NEW x \in b.creating
  PROVE  LET c == [b EXCEPT !.creating = @ \ {x}]
         IN  /\ Good(c, t) /\ c.shutdown = b.shutdown /\ c.lastId = b.lastId /\ c.windows = b.windows
             /\ c.born = b.born /\ c.failed = b.failed /\ ~c.quitting
             /\ x.id \in Nat \ {0} /\ x.key \in Keys \cup {None} /\ x.id <= c.lastId /\ ~Answered(t, x.id)
             /\ \A d \in c.creating : d.id # x.id
             /\ c.shutdown # x.id
<1> DEFINE s == b.creating \ {x}
           c == [b EXCEPT !.creating = s]
<1> HIDE DEF Window, Request, Creation
<1>1. /\ c \in Browser /\ c.windows = b.windows /\ c.shutdown = b.shutdown /\ c.quitting = b.quitting
      /\ c.creating = s /\ c.lastId = b.lastId /\ c.tasks = b.tasks /\ c.ended = b.ended
      /\ c.boot = b.boot /\ c.born = b.born /\ c.failed = b.failed /\ x \in Creation
  BY DEF Good, Browser
<1>2. IsFiniteSet(s) /\ ~b.quitting
  BY FS_RemoveElement DEF Good, Making, EmptyAtQuit
<1> HIDE DEF c
<1>3. Making(c, t)
  BY <1>1, <1>2 DEF Good, Making
<1>4. OldestOnly(c) /\ EmptyAtQuit(c) /\ Known(c, t) /\ Stopping(c, t) /\ OneEnd(c, t)
  BY <1>1, <1>2 DEF Good, OldestOnly, EmptyAtQuit, Known, Stopping, OneEnd
<1>5. Good(c, t)
  BY <1>1, <1>3, <1>4 DEF Good
<1>6. /\ x.id <= c.lastId /\ ~Answered(t, x.id) /\ \A d \in c.creating : d.id # x.id
  BY <1>1 DEF Good, Making
<1>7. x.id \in Nat \ {0} /\ x.key \in Keys \cup {None}
  BY <1>1 DEF Creation
<1>8. c.shutdown # x.id
  BY <1>1, <1>2, <1>7 DEF Good, Stopping, NoId
<1> QED BY <1>1, <1>2, <1>5, <1>6, <1>7, <1>8 DEF c

-----------------------------------------------------------------------------
(* Handlers *)

\* What an effect made of its parts needs to be good.
LEMMA GoodEffIs ==
  ASSUME NEW s, NEW b, NEW o \in Seq(Reply), Good(b, s \o o)
  PROVE  GoodEff(s, Eff(b, o))
<1>1. Eff(b, o).b = b /\ Eff(b, o).out = o
  BY EffParts
<1> QED BY <1>1 DEF GoodEff

\* A browser quits within its effect.
LEMMA EffQuitting ==
  ASSUME NEW b, NEW o
  PROVE  [Eff(b, o) EXCEPT !.b.quitting = TRUE] = Eff([b EXCEPT !.quitting = TRUE], o)
<1> DEFINE v == TRUE
<1> HIDE DEF v
<1>1. [Eff(b, o) EXCEPT !.b.quitting = v] = Eff([b EXCEPT !.quitting = v], o)
  BY DEF Eff
<1> QED BY <1>1 DEF v

\* An effect says what was said, and a refusal.
LEMMA RefusesEff ==
  ASSUME NEW s \in Seq(Reply), NEW b, NEW o, GoodEff(s, Eff(b, o)), NEW id \in Nat
  PROVE  GoodEff(s, Answer(Eff(b, o), "error", id, None))
<1> DEFINE x == Says("error", id, None)
           u == Append(o, x)
<1>1. x \in Reply /\ x.event = "error"
  BY DEF Reply, Says
<1>2. o \in Seq(Reply) /\ Good(b, s \o o)
  BY EffParts DEF GoodEff
<1> HIDE DEF x
<1>3. u \in Seq(Reply) /\ s \o u = Append(s \o o, x)
  BY <1>1, <1>2, SaidMore
<1> HIDE DEF u
<1>4. Good(b, s \o u)
  BY <1>1, <1>2, <1>3, Refuses
<1>5. Answer(Eff(b, o), "error", id, None) = Eff(b, u)
  BY EffAnswer DEF u, x
<1>6. GoodEff(s, Eff(b, u))
  BY <1>3, <1>4, GoodEffIs
<1> QED BY <1>5, <1>6

\* An effect says what was said, and a final answer.
LEMMA AnswersEff ==
  ASSUME NEW s \in Seq(Reply), NEW b, NEW o, GoodEff(s, Eff(b, o)),
         NEW event \in Final, NEW id \in Nat, NEW key \in Keys \cup {None}, id <= b.lastId,
         ~Answered(s \o o, id), ~Stopped(s \o o), \A c \in b.creating : c.id # id,
         b.shutdown = id => b.quitting,
         event = "stopped" => b.quitting /\ b.shutdown # NoId,
         id = 0 => b.ended /\ \A i \in 1..Len(b.tasks) : b.tasks[i].op # "eof"
  PROVE  GoodEff(s, Answer(Eff(b, o), event, id, key))
<1> DEFINE x == Says(event, id, key)
           u == Append(o, x)
<1>1. x \in Reply /\ x.event = event /\ x.id = id
  BY DEF Reply, Says
<1>2. o \in Seq(Reply) /\ Good(b, s \o o)
  BY EffParts DEF GoodEff
<1> HIDE DEF x
<1>3. u \in Seq(Reply) /\ s \o u = Append(s \o o, x)
  BY <1>1, <1>2, SaidMore
<1> HIDE DEF u
<1> DEFINE t == s \o o
<1> HIDE DEF t
<1>4. Good(b, Append(t, x))
  BY <1>1, <1>2, Answers DEF t
<1>5. Answer(Eff(b, o), event, id, key) = Eff(b, u)
  BY EffAnswer DEF u, x
<1>6. GoodEff(s, Eff(b, u))
  BY <1>3, <1>4, GoodEffIs DEF t
<1> QED BY <1>5, <1>6

\* Nothing is pending exactly when nothing is created, at the boot or later.
LEMMA NoPending ==
  ASSUME NEW b, NEW t, Good(b, t), Pending(b) = 0
  PROVE  b.creating = {} /\ b.boot = None
<1>1. IsFiniteSet(b.creating)
  BY DEF Good, Making
<1>2. Cardinality(b.creating) \in Nat /\ (Cardinality(b.creating) = 0 <=> b.creating = {})
  BY <1>1, FS_CardinalityType, FS_EmptySet
<1> QED BY <1>2 DEF Pending

\* A browser that has not quit has not said that it stopped.
LEMMA NotStopped ==
  ASSUME NEW b, NEW t, Good(b, t), ~b.quitting
  PROVE  ~Stopped(t)
  BY DEF Good, Known

\* The last window has gone, and nothing is being created, or the browser stays.
LEMMA MaybeQuitIs ==
  ASSUME NEW b, NEW o
  PROVE  LET f == MaybeQuit(Eff(b, o))
             c == [b EXCEPT !.quitting = TRUE]
         IN  \/ f = Eff(b, o) /\ ~(b.windows = <<>> /\ Pending(b) = 0)
             \/ /\ b.windows = <<>> /\ Pending(b) = 0
                /\ \/ f = Eff(c, o)
                   \/ b.shutdown # NoId /\ f = Answer(Eff(c, o), "stopped", b.shutdown, None)
<1> DEFINE e == Eff(b, o)
           c == [b EXCEPT !.quitting = TRUE]
<1>1. e.b = b
  BY EffParts
<1>2. [e EXCEPT !.b.quitting = TRUE] = Eff(c, o)
  BY EffQuitting
<1> HIDE DEF e, c
<1>3. LET f == MaybeQuit(e)
      IN  \/ f = e /\ ~(b.windows = <<>> /\ Pending(b) = 0)
          \/ /\ b.windows = <<>> /\ Pending(b) = 0
             /\ \/ f = Eff(c, o)
                \/ b.shutdown # NoId /\ f = Answer(Eff(c, o), "stopped", b.shutdown, None)
  BY <1>1, <1>2 DEF MaybeQuit
<1> QED BY <1>3 DEF e, c

\* The last window has gone: the browser quits, and answers its shutdown.
LEMMA MaybeQuitGood ==
  ASSUME NEW s \in Seq(Reply), NEW f, GoodEff(s, f), ~f.b.quitting
  PROVE  GoodEff(s, MaybeQuit(f))
<1> DEFINE c == f.b
           o == f.out
<1>0. f = Eff(c, o)
  BY DEF GoodEff
<1> HIDE DEF c, o
<1> DEFINE g == MaybeQuit(f)
           d == [c EXCEPT !.quitting = TRUE]
<1>1. Good(c, s \o o) /\ o \in Seq(Reply) /\ ~c.quitting
  BY DEF GoodEff, c, o
<1>2. \/ g = f
      \/ /\ c.windows = <<>> /\ Pending(c) = 0
         /\ \/ g = Eff(d, o)
            \/ c.shutdown # NoId /\ g = Answer(Eff(d, o), "stopped", c.shutdown, None)
  BY <1>0, MaybeQuitIs
<1> SUFFICES GoodEff(s, g)
  OBVIOUS
<1> HIDE DEF g
<1>3. CASE g = f
  BY <1>3
<1>4. CASE /\ c.windows = <<>> /\ Pending(c) = 0
           /\ \/ g = Eff(d, o)
              \/ c.shutdown # NoId /\ g = Answer(Eff(d, o), "stopped", c.shutdown, None)
  <2> DEFINE t == s \o o
  <2> HIDE DEF t
  <2>0. Good(c, t)
    BY <1>1 DEF t
  <2>1. c.creating = {} /\ c.boot = None
    BY <2>0, <1>4, NoPending
  <2>2. /\ Good(d, t) /\ d.quitting /\ d.shutdown = c.shutdown /\ d.lastId = c.lastId
        /\ d.creating = {} /\ d.ended = c.ended /\ d.tasks = c.tasks
    BY <2>0, <2>1, <1>1, <1>4, QuittingSet
  <2> HIDE DEF d
  <2>3. GoodEff(s, Eff(d, o))
    BY <2>2, <1>1, EffParts DEF GoodEff, t
  <2>4. CASE c.shutdown # NoId /\ g = Answer(Eff(d, o), "stopped", c.shutdown, None)
    <3>1. c.shutdown \in Nat /\ c.shutdown <= c.lastId /\ ~Answered(t, c.shutdown)
      BY <2>0, <2>4, <1>1 DEF Good, Stopping, Browser
    <3>2. c.shutdown = 0 => c.ended /\ \A i \in 1..Len(c.tasks) : c.tasks[i].op # "eof"
      BY <2>0 DEF Good, OneEnd
    <3>3. ~Stopped(t)
      BY <2>0, <1>1, NotStopped
    <3>4. "stopped" \in Final
      BY DEF Final
    <3>5. PICK id \in Nat : id = c.shutdown
      BY <3>1
    <3>6. GoodEff(s, Answer(Eff(d, o), "stopped", id, None))
      <4>1. /\ id <= d.lastId /\ ~Answered(s \o o, id) /\ ~Stopped(s \o o) /\ \A e \in d.creating : e.id # id
            /\ d.quitting /\ d.shutdown # NoId
            /\ (id = 0 => d.ended /\ \A i \in 1..Len(d.tasks) : d.tasks[i].op # "eof")
        BY <2>2, <2>4, <3>1, <3>2, <3>3, <3>5 DEF t
      <4> QED BY <4>1, <2>3, <3>4, AnswersEff
    <3> QED BY <2>4, <3>5, <3>6
  <2> QED BY <1>4, <2>3, <2>4
<1> QED BY <1>2, <1>3, <1>4

\* A close that cannot be observed refuses a recorded shutdown.
LEMMA CloseUnavailableGood ==
  ASSUME NEW s \in Seq(Reply), NEW b, Good(b, s), ~b.quitting
  PROVE  LET f == CloseUnavailable(Eff(b, <<>>))
         IN  GoodEff(s, f) /\ f.b.windows = b.windows /\ ~f.b.quitting
<1> DEFINE c == [b EXCEPT !.shutdown = NoId]
           f == CloseUnavailable(Eff(b, <<>>))
<1>1. Good(c, s) /\ ~c.quitting /\ c.windows = b.windows
  BY ShutdownSet
<1>2. [Eff(b, <<>>) EXCEPT !.b.shutdown = NoId] = Eff(c, <<>>)
  BY DEF Eff
<1> HIDE DEF c
<1>3. f = IF b.shutdown = NoId THEN Eff(b, <<>>) ELSE Answer(Eff(c, <<>>), "error", b.shutdown, None)
  BY <1>2, EffParts DEF CloseUnavailable
<1>4. GoodEff(s, Eff(b, <<>>)) /\ GoodEff(s, Eff(c, <<>>))
  BY <1>1, Unsaid, EffParts
<1> HIDE DEF f
<1>5. CASE b.shutdown = NoId
  BY <1>3, <1>4, <1>5, EffParts DEF f
<1>6. CASE b.shutdown # NoId
  <2>1. PICK id \in Nat : id = b.shutdown
    BY <1>6 DEF Good, Browser
  <2>2. GoodEff(s, Answer(Eff(c, <<>>), "error", id, None))
    BY <1>4, RefusesEff
  <2>3. Answer(Eff(c, <<>>), "error", id, None).b = c
    BY EffAnswer, EffParts
  <2> QED BY <1>1, <1>3, <1>6, <2>1, <2>2, <2>3 DEF f
<1> QED BY <1>5, <1>6 DEF f

\* The place of the oldest window is the first.
LEMMA FirstPlace ==
  ASSUME NEW w \in Seq(Window), w # <<>>
  PROVE  Place(w, Head(w).id) = 1
<1> HIDE DEF Window
<1>1. Head(w) = w[1] /\ 1 \in 1..Len(w) /\ Len(w) \in Nat
  OBVIOUS
<1> DEFINE I == {i \in 1..Len(w) : w[i].id = Head(w).id}
<1>2. 1 \in I /\ \A j \in I : 1 <= j
  BY <1>1
<1>3. Place(w, Head(w).id) = IF I # {} THEN Min(I) ELSE 0
  BY DEF Place, SelectInSeq
<1> HIDE DEF I
<1>4. Min(I) = 1
  <2>1. \A x \in I : (\A y \in I : x <= y) => x = 1
    <3> SUFFICES ASSUME NEW x \in I, \A y \in I : x <= y PROVE x = 1
      OBVIOUS
    <3>1. x <= 1 /\ 1 <= x /\ x \in Nat
      BY <1>2 DEF I
    <3> QED BY <3>1
  <2> QED BY <1>2, <2>1 DEF Min
<1> QED BY <1>2, <1>3, <1>4

\* A window is watched within its effect.
LEMMA EffWatch ==
  ASSUME NEW b, NEW v
  PROVE  [Eff(b, <<>>) EXCEPT !.b.windows[1].watch = v] = Eff([b EXCEPT !.windows[1].watch = v], <<>>)
  BY DEF Eff

\* What asking the oldest window does depends on its watch.
LEMMA RequestCloseIs ==
  ASSUME NEW b, b.windows \in Seq(Window), b.windows # <<>>
  PROVE  RequestClose(Eff(b, <<>>), Head(b.windows).id)
           = IF b.windows[1].watch = "idle" THEN Eff([b EXCEPT !.windows[1].watch = "pending"], <<>>)
             ELSE IF b.windows[1].watch = "failed" THEN CloseUnavailable(Eff(b, <<>>))
             ELSE IF b.windows[1].watch = "missed" THEN Eff([b EXCEPT !.windows[1].watch = "ready"], <<>>)
             ELSE Eff(b, <<>>)
<1> DEFINE w == [b EXCEPT !.windows[1].watch = "pending"]
           x == [b EXCEPT !.windows[1].watch = "ready"]
<1>1. Place(b.windows, Head(b.windows).id) = 1
  BY FirstPlace
<1>2. [Eff(b, <<>>) EXCEPT !.b.windows[1].watch = "pending"] = Eff(w, <<>>)
  <2> DEFINE v == "pending"
  <2> HIDE DEF v
  <2>1. [Eff(b, <<>>) EXCEPT !.b.windows[1].watch = v] = Eff([b EXCEPT !.windows[1].watch = v], <<>>)
    BY EffWatch
  <2> QED BY <2>1 DEF v
<1>3. [Eff(b, <<>>) EXCEPT !.b.windows[1].watch = "ready"] = Eff(x, <<>>)
  <2> DEFINE v == "ready"
  <2> HIDE DEF v
  <2>1. [Eff(b, <<>>) EXCEPT !.b.windows[1].watch = v] = Eff([b EXCEPT !.windows[1].watch = v], <<>>)
    BY EffWatch
  <2> QED BY <2>1 DEF v
<1> HIDE DEF w, x
<1>4. RequestClose(Eff(b, <<>>), Head(b.windows).id)
        = IF b.windows[1].watch = "idle" THEN Eff(w, <<>>)
          ELSE IF b.windows[1].watch = "failed" THEN CloseUnavailable(Eff(b, <<>>))
          ELSE IF b.windows[1].watch = "missed" THEN Eff(x, <<>>) ELSE Eff(b, <<>>)
  <2> DEFINE e == Eff(b, <<>>)
             id == Head(b.windows).id
             watch == b.windows[1].watch
  <2>1. e.b = b
    BY EffParts
  <2> HIDE DEF e, id
  <2>2. Place(e.b.windows, id) = 1 /\ e.b.windows[Place(e.b.windows, id)].watch = watch
    BY <1>1, <2>1 DEF id
  <2> HIDE DEF watch
  <2>3. CASE watch = "idle"
    <3>1. RequestClose(e, id) = [e EXCEPT !.b.windows[1].watch = "pending"]
      BY <2>2, <2>3 DEF RequestClose
    <3> QED BY <1>2, <2>3, <3>1 DEF e, id, watch
  <2>4. CASE watch = "failed"
    <3>1. RequestClose(e, id) = CloseUnavailable(e)
      BY <2>2, <2>4 DEF RequestClose
    <3> QED BY <2>4, <3>1 DEF e, id, watch
  <2>5. CASE watch = "missed"
    <3>1. RequestClose(e, id) = [e EXCEPT !.b.windows[1].watch = "ready"]
      BY <2>2, <2>5 DEF RequestClose
    <3> QED BY <1>3, <2>5, <3>1 DEF e, id, watch
  <2>6. CASE watch # "idle" /\ watch # "failed" /\ watch # "missed"
    <3>1. RequestClose(e, id) = e
      BY <2>2, <2>6 DEF RequestClose
    <3> QED BY <2>6, <3>1 DEF e, id, watch
  <2> QED BY <2>3, <2>4, <2>5, <2>6
<1> QED BY <1>4 DEF w, x

\* The oldest window is watched.
LEMMA WatchSet ==
  ASSUME NEW b, NEW t, Good(b, t), ~b.quitting, NEW i \in 1..Len(b.windows), NEW v \in Watches, i = 1
  PROVE  LET c == [b EXCEPT !.windows[i].watch = v]
         IN  Good(c, t) /\ ~c.quitting /\ Len(c.windows) = Len(b.windows)
<1> DEFINE w == b.windows
           x == [w[i] EXCEPT !.watch = v]
           y == [w EXCEPT ![i] = x]
<1>0. b \in Browser /\ w \in Seq(Window) /\ Len(w) \in Nat /\ i \in 1..Len(w)
  BY DEF Good, Browser
<1>1. x \in Window
  <2>1. w[i] \in Window
    BY <1>0
  <2> QED BY <2>1 DEF Window
<1>2. [b EXCEPT !.windows[i].watch = v] = [b EXCEPT !.windows = y]
  BY <1>0 DEF Browser
<1> HIDE DEF x, Window
<1>3. y \in Seq(Window) /\ Len(y) = Len(w) /\ \A k \in 1..Len(w) : k # i => y[k] = w[k]
  BY <1>0, <1>1
<1> HIDE DEF y
<1>4. \A k \in 1..Len(y) : y[k].watch # "idle" => k = 1
  BY <1>0, <1>3 DEF Good, OldestOnly
<1> DEFINE c == [b EXCEPT !.windows = y]
<1>5. Good(c, t) /\ c.windows = y /\ ~c.quitting
  BY <1>3, <1>4, WindowsChange
<1> QED BY <1>2, <1>3, <1>5

\* Asking the oldest window to close watches it, or refuses the shutdown.
LEMMA RequestCloseGood ==
  ASSUME NEW s \in Seq(Reply), NEW b, Good(b, s), b.windows # <<>>
  PROVE  LET f == RequestClose(Eff(b, <<>>), Head(b.windows).id)
         IN  GoodEff(s, f) /\ ~f.b.quitting
<1> DEFINE f == RequestClose(Eff(b, <<>>), Head(b.windows).id)
           w == [b EXCEPT !.windows[1].watch = "pending"]
           x == [b EXCEPT !.windows[1].watch = "ready"]
<1>0. ~b.quitting /\ b.windows \in Seq(Window)
  BY DEF Good, EmptyAtQuit, Browser
<1>1. 1 \in 1..Len(b.windows)
  BY <1>0
<1>4. f = Eff(b, <<>>) \/ f = Eff(w, <<>>) \/ f = Eff(x, <<>>) \/ f = CloseUnavailable(Eff(b, <<>>))
  <2>1. RequestClose(Eff(b, <<>>), Head(b.windows).id)
           = IF b.windows[1].watch = "idle" THEN Eff(w, <<>>)
             ELSE IF b.windows[1].watch = "failed" THEN CloseUnavailable(Eff(b, <<>>))
             ELSE IF b.windows[1].watch = "missed" THEN Eff(x, <<>>)
             ELSE Eff(b, <<>>)
    BY <1>0, RequestCloseIs
  <2> HIDE DEF w, x
  <2> QED BY <2>1
<1>5. Good(w, s) /\ ~w.quitting /\ Good(x, s) /\ ~x.quitting
  <2>1. PICK i \in 1..Len(b.windows) : i = 1
    BY <1>1
  <2>2. Good(w, s) /\ ~w.quitting
    BY <2>1, <1>0, WatchSet DEF Watches
  <2>3. Good(x, s) /\ ~x.quitting
    BY <2>1, <1>0, WatchSet DEF Watches
  <2> QED BY <2>2, <2>3
<1> HIDE DEF w, x, f
<1>6. /\ GoodEff(s, Eff(b, <<>>)) /\ GoodEff(s, Eff(w, <<>>)) /\ GoodEff(s, Eff(x, <<>>))
      /\ Eff(b, <<>>).b = b /\ Eff(w, <<>>).b = w /\ Eff(x, <<>>).b = x
  BY <1>5, Unsaid, EffParts
<1>7. GoodEff(s, CloseUnavailable(Eff(b, <<>>))) /\ ~CloseUnavailable(Eff(b, <<>>)).b.quitting
  BY <1>0, CloseUnavailableGood
<1>8. GoodEff(s, f) /\ ~f.b.quitting
  BY <1>0, <1>4, <1>5, <1>6, <1>7
<1> QED BY <1>8 DEF f

\* The shutdown goes on with the next window, or is refused.
LEMMA NextToCloseGood ==
  ASSUME NEW s \in Seq(Reply), NEW b, Good(b, s), ~b.quitting, NEW closed
  PROVE  LET f == NextToClose(Eff(b, <<>>), closed)
         IN  GoodEff(s, f) /\ ~f.b.quitting
<1> DEFINE next == IF b.windows = <<>> THEN 0 ELSE Head(b.windows).id
           c == [b EXCEPT !.chain = next]
           f == NextToClose(Eff(b, <<>>), closed)
<1>1. next \in Nat
  <2>1. b.windows \in Seq(Window)
    BY DEF Good, Browser
  <2>2. b.windows # <<>> => Head(b.windows) \in Window
    BY <2>1
  <2> QED BY <2>2 DEF Window
<1>2. f = Eff(b, <<>>) \/ f = Eff(c, <<>>)
      \/ (b.windows # <<>> /\ f = RequestClose(Eff(c, <<>>), Head(b.windows).id))
  <2>1. Eff(b, <<>>).b = b
    BY EffParts
  <2> DEFINE n == next
  <2> HIDE DEF n
  <2>2. [Eff(b, <<>>) EXCEPT !.b.chain = n] = Eff([b EXCEPT !.chain = n], <<>>)
    BY DEF Eff
  <2> DEFINE m == Eff(c, <<>>)
  <2>3. [Eff(b, <<>>) EXCEPT !.b.chain = next] = m
    BY <2>2 DEF n
  <2>4. CASE b.windows = <<>>
    <3> HIDE DEF c, m
    <3> QED BY <2>1, <2>3, <2>4 DEF NextToClose, m
  <2>5. CASE b.windows # <<>>
    <3>1. next # 0 \/ next = 0
      OBVIOUS
    <3> HIDE DEF c, m
    <3> QED BY <2>1, <2>3, <2>5, <3>1 DEF NextToClose, m
  <2> QED BY <2>4, <2>5
<1> HIDE DEF next
<1>3. Good(c, s) /\ c.windows = b.windows /\ ~c.quitting
  BY <1>1, ChainSet
<1> HIDE DEF c, f
<1>4. GoodEff(s, Eff(b, <<>>)) /\ GoodEff(s, Eff(c, <<>>)) /\ Eff(b, <<>>).b = b /\ Eff(c, <<>>).b = c
  BY <1>3, Unsaid, EffParts
<1>5. b.windows # <<>> => LET g == RequestClose(Eff(c, <<>>), Head(b.windows).id)
                          IN  GoodEff(s, g) /\ ~g.b.quitting
  BY <1>3, RequestCloseGood
<1>6. GoodEff(s, f) /\ ~f.b.quitting
  BY <1>2, <1>3, <1>4, <1>5
<1> QED BY <1>6 DEF f

\* Forced windows are watched as they were.
LEMMA ForcedAre ==
  ASSUME NEW b, NEW t, Good(b, t), ~b.quitting
  PROVE  LET c == [b EXCEPT !.windows = Forced(@)]
         IN  Good(c, t) /\ ~c.quitting
<1> DEFINE w == b.windows
           y == [i \in 1..Len(w) |-> [w[i] EXCEPT !.forced = TRUE]]
           c == [b EXCEPT !.windows = y]
<1>0. w \in Seq(Window) /\ Len(w) \in Nat /\ DOMAIN w = 1..Len(w)
  BY DEF Good, Browser
<1>1. Forced(w) = y
  BY <1>0 DEF Forced
<1>2. \A i \in 1..Len(w) : w[i] \in Window
  BY <1>0, ElementOfSeq
<1>3. \A i \in 1..Len(w) : /\ [w[i] EXCEPT !.forced = TRUE] \in Window
                            /\ [w[i] EXCEPT !.forced = TRUE].watch = w[i].watch
  BY <1>2 DEF Window
<1> HIDE DEF Window
<1>4. y \in [1..Len(w) -> Window]
  BY <1>3
<1>5. y \in Seq(Window) /\ Len(y) = Len(w)
  <2>1. y \in Seq(Window)
    BY <1>0, <1>4, SeqDef
  <2>2. DOMAIN y = 1..Len(w)
    OBVIOUS
  <2> QED BY <1>0, <2>1, <2>2, LenProperties
<1>6. \A i \in 1..Len(y) : y[i].watch # "idle" => i = 1
  BY <1>3, <1>5 DEF Good, OldestOnly
<1> HIDE DEF y
<1>7. Good(c, t) /\ ~c.quitting
  BY <1>5, <1>6, WindowsChange
<1> QED BY <1>1, <1>7

\* The stages of close_all.
LEMMA CloseAllIs ==
  ASSUME NEW b, NEW id, NEW lost
  PROVE  CloseAll(Eff(b, <<>>), id, lost) =
           LET recorded == [Eff(b, <<>>) EXCEPT !.b.shutdown = id, !.b.failed = @ \/ lost]
           IN  MaybeQuit(IF lost THEN [recorded EXCEPT !.b.windows = Forced(@)]
                         ELSE IF b.windows = <<>> THEN recorded
                         ELSE RequestClose([recorded EXCEPT !.b.chain = Head(b.windows).id], Head(b.windows).id))
<1> DEFINE e == Eff(b, <<>>)
<1>1. e.b = b
  BY EffParts
<1> HIDE DEF e
<1>2. CloseAll(e, id, lost) =
        LET recorded == [e EXCEPT !.b.shutdown = id, !.b.failed = @ \/ lost]
        IN  MaybeQuit(IF lost THEN [recorded EXCEPT !.b.windows = Forced(@)]
                      ELSE IF b.windows = <<>> THEN recorded
                      ELSE RequestClose([recorded EXCEPT !.b.chain = Head(b.windows).id], Head(b.windows).id))
  BY <1>1 DEF CloseAll
<1> QED BY <1>2 DEF e

\* The same on the browser: the shutdown is recorded, then the windows are asked or forced.
LEMMA CloseAllStages ==
  ASSUME NEW b, b \in Browser, NEW id, NEW lost \in BOOLEAN
  PROVE  LET c == [[b EXCEPT !.shutdown = id] EXCEPT !.failed = b.failed \/ lost]
             d == [c EXCEPT !.chain = Head(b.windows).id]
             g == [c EXCEPT !.windows = Forced(@)]
         IN  CloseAll(Eff(b, <<>>), id, lost)
               = MaybeQuit(IF lost THEN Eff(g, <<>>) ELSE IF b.windows = <<>> THEN Eff(c, <<>>)
                           ELSE RequestClose(Eff(d, <<>>), Head(b.windows).id))
<1> DEFINE a == [b EXCEPT !.shutdown = id]
           c == [a EXCEPT !.failed = b.failed \/ lost]
           d == [c EXCEPT !.chain = Head(b.windows).id]
           g == [c EXCEPT !.windows = Forced(@)]
           recorded == [Eff(b, <<>>) EXCEPT !.b.shutdown = id, !.b.failed = @ \/ lost]
<1>1. a.failed = b.failed
  <2> HIDE DEF Window, Request, Creation
  <2> QED BY DEF Browser
<1>2. recorded = Eff(c, <<>>)
  <2> DEFINE e == [Eff(b, <<>>) EXCEPT !.b.shutdown = id]
  <2>1. e = Eff(a, <<>>)
    BY DEF Eff
  <2>2. recorded = [e EXCEPT !.b.failed = @ \/ lost]
    BY DEF Eff
  <2> HIDE DEF a, e, recorded
  <2>3. [Eff(a, <<>>) EXCEPT !.b.failed = @ \/ lost] = Eff([a EXCEPT !.failed = @ \/ lost], <<>>)
    BY DEF Eff
  <2>4. [a EXCEPT !.failed = @ \/ lost] = c
    BY <1>1
  <2> QED BY <2>1, <2>2, <2>3, <2>4
<1> HIDE DEF c
<1>3. [Eff(c, <<>>) EXCEPT !.b.chain = Head(b.windows).id] = Eff(d, <<>>)
  BY DEF Eff
<1>4. [Eff(c, <<>>) EXCEPT !.b.windows = Forced(@)] = Eff(g, <<>>)
  BY DEF Eff
<1> DEFINE forced == [recorded EXCEPT !.b.windows = Forced(@)]
           first  == [recorded EXCEPT !.b.chain = Head(b.windows).id]
<1>5. forced = Eff(g, <<>>) /\ first = Eff(d, <<>>)
  <2> HIDE DEF d, g, recorded
  <2> QED BY <1>2, <1>3, <1>4
<1>6. CloseAll(Eff(b, <<>>), id, lost)
        = MaybeQuit(IF lost THEN forced
                    ELSE IF b.windows = <<>> THEN recorded ELSE RequestClose(first, Head(b.windows).id))
  BY CloseAllIs
<1> HIDE DEF d, g, forced, first, recorded
<1>7. CloseAll(Eff(b, <<>>), id, lost)
        = MaybeQuit(IF lost THEN Eff(g, <<>>) ELSE IF b.windows = <<>> THEN Eff(c, <<>>)
                    ELSE RequestClose(Eff(d, <<>>), Head(b.windows).id))
  BY <1>2, <1>5, <1>6
<1> QED BY <1>7 DEF c, d, g

\* A shutdown is recorded: the oldest window is asked, or all are forced; an empty browser quits at once.
LEMMA CloseAllGood ==
  ASSUME NEW s \in Seq(Reply), NEW b, Good(b, s), ~b.quitting, NEW id \in Nat, NEW lost \in BOOLEAN,
         id <= b.lastId, ~Answered(s, id), \A c \in b.creating : c.id # id,
         id = 0 => b.ended /\ \A i \in 1..Len(b.tasks) : b.tasks[i].op # "eof"
  PROVE  GoodEff(s, CloseAll(Eff(b, <<>>), id, lost))
<1> DEFINE v == b.failed \/ lost
           a == [b EXCEPT !.shutdown = id]
           c == [a EXCEPT !.failed = v]
           d == [c EXCEPT !.chain = Head(b.windows).id]
           g == [c EXCEPT !.windows = Forced(@)]
           chosen == IF lost THEN Eff(g, <<>>)
                    ELSE IF b.windows = <<>> THEN Eff(c, <<>>)
                    ELSE RequestClose(Eff(d, <<>>), Head(b.windows).id)
<1>1. v \in BOOLEAN /\ a.failed = b.failed
  BY DEF Good, Browser
<1>2. b \in Browser
  BY DEF Good
<1>3. CloseAll(Eff(b, <<>>), id, lost) = MaybeQuit(chosen)
  BY <1>2, CloseAllStages
<1>4. Good(a, s) /\ a.shutdown = id /\ ~a.quitting /\ a.windows = b.windows
  BY ShutdownSet
<1> HIDE DEF a, v
<1>5. Good(c, s) /\ c.windows = b.windows /\ ~c.quitting
  BY <1>1, <1>4, FailedSet
<1> HIDE DEF c
<1>6. GoodEff(s, chosen) /\ ~chosen.b.quitting
  <2>1. CASE lost
    <3>1. Good(g, s) /\ ~g.quitting
      BY <1>5, ForcedAre
    <3> HIDE DEF g
    <3> QED BY <2>1, <3>1, Unsaid, EffParts
  <2>2. CASE ~lost /\ b.windows = <<>>
    BY <1>5, <2>2, Unsaid, EffParts
  <2>3. CASE ~lost /\ b.windows # <<>>
    <3>1. Head(b.windows).id \in Nat
      <4>1. Head(b.windows) \in Window
        BY <2>3 DEF Good, Browser
      <4> QED BY <4>1 DEF Window
    <3>2. Good(d, s) /\ d.windows = b.windows
      BY <1>5, <3>1, ChainSet
    <3> HIDE DEF d
    <3>3. GoodEff(s, RequestClose(Eff(d, <<>>), Head(d.windows).id))
          /\ ~RequestClose(Eff(d, <<>>), Head(d.windows).id).b.quitting
      BY <2>3, <3>2, RequestCloseGood
    <3> QED BY <2>3, <3>2, <3>3
  <2> QED BY <2>1, <2>2, <2>3
<1> HIDE DEF chosen
<1> QED BY <1>3, <1>6, MaybeQuitGood

\* A creation is begun within its effect.
LEMMA EffCreating ==
  ASSUME NEW b, NEW id, NEW key
  PROVE  [Eff(b, <<>>) EXCEPT !.b.creating = @ \cup {[id |-> id, key |-> key]}]
           = Eff([b EXCEPT !.creating = @ \cup {[id |-> id, key |-> key]}], <<>>)
<1> DEFINE x == [id |-> id, key |-> key]
<1> HIDE DEF x
<1> DEFINE y == b.creating \cup {x}
<1>1. Eff(b, <<>>).b.creating \cup {x} = y
  BY EffParts
<1> HIDE DEF y
<1>2. [Eff(b, <<>>) EXCEPT !.b.creating = y] = Eff([b EXCEPT !.creating = y], <<>>)
  BY DEF Eff
<1>3. [Eff(b, <<>>) EXCEPT !.b.creating = @ \cup {x}] = Eff([b EXCEPT !.creating = y], <<>>)
  BY <1>1, <1>2
<1> QED BY <1>3 DEF x, y

\* A request for a screen is answered, refused or being created.
LEMMA OpenScreenGood ==
  ASSUME NEW s \in Seq(Reply), NEW b, Good(b, s), ~b.quitting, b.shutdown = NoId,
         NEW id \in Nat \ {0}, NEW key \in Keys, NEW rejected \in BOOLEAN,
         id <= b.lastId, ~Answered(s, id), \A c \in b.creating : c.id # id
  PROVE  GoodEff(s, OpenScreen(Eff(b, <<>>), id, key, rejected))
<1> DEFINE f == OpenScreen(Eff(b, <<>>), id, key, rejected)
           c == [b EXCEPT !.creating = @ \cup {[id |-> id, key |-> key]}]
           d == [b EXCEPT !.creating = @ \cup {[id |-> id, key |-> None]}]
<1>1. /\ [Eff(b, <<>>) EXCEPT !.b.creating = @ \cup {[id |-> id, key |-> key]}] = Eff(c, <<>>)
      /\ [Eff(b, <<>>) EXCEPT !.b.creating = @ \cup {[id |-> id, key |-> None]}] = Eff(d, <<>>)
  BY EffCreating
<1>2. \/ f = Answer(Eff(b, <<>>), "opened", id, key)
      \/ f = Answer(Eff(b, <<>>), "error", id, None)
      \/ f = Answer(Eff(d, <<>>), "error", id, None)
      \/ f = Eff(c, <<>>)
  <2> HIDE DEF c, d
  <2> QED BY <1>1 DEF OpenScreen
<1>3. Good(c, s) /\ Good(d, s)
  BY CreatingSet
<1> HIDE DEF c, d, f
<1>4. GoodEff(s, Eff(b, <<>>)) /\ GoodEff(s, Eff(c, <<>>)) /\ GoodEff(s, Eff(d, <<>>))
  BY <1>3, Unsaid, EffParts
<1>5. s \o <<>> = s
  BY ConcatEmptySeq
<1>6. GoodEff(s, Answer(Eff(b, <<>>), "error", id, None)) /\ GoodEff(s, Answer(Eff(d, <<>>), "error", id, None))
  BY <1>4, RefusesEff
<1>7. GoodEff(s, Answer(Eff(b, <<>>), "opened", id, key))
  <2>1. ~Stopped(s) /\ b.shutdown # id /\ "opened" \in Final /\ key \in Keys \cup {None}
    BY NotStopped DEF NoId, Final
  <2> QED BY <1>4, <1>5, <2>1, AnswersEff
<1> QED BY <1>2, <1>4, <1>6, <1>7 DEF f

\* A task of the UI thread, the end of input once at most.
LEMMA HandleGood ==
  ASSUME NEW s \in Seq(Reply), NEW b, Good(b, s), NEW r \in Request, NEW rejected \in BOOLEAN,
         r.op = "eof" => /\ b.ended /\ ~Answered(s, 0)
                         /\ \A i \in 1..Len(b.tasks) : b.tasks[i].op # "eof"
  PROVE  GoodEff(s, Handle(b, r, rejected))
<1> DEFINE f == Handle(b, r, rejected)
           c == [b EXCEPT !.lastId = r.id]
<1>0. /\ r.id \in Nat /\ r.op \in {"open", "shutdown", "eof"} /\ r.key \in Keys \cup {None}
      /\ (r.op = "eof" <=> r.id = 0) /\ (r.op = "open" => r.key \in Keys)
  BY DEF Request
<1>1. GoodEff(s, Eff(b, <<>>)) /\ Effect(b) = Eff(b, <<>>)
  BY Unsaid, EffParts
<1>2. s \o <<>> = s
  BY ConcatEmptySeq
<1>3. CASE r.op = "eof"
  <2>1. f = IF b.shutdown = NoId /\ ~b.quitting THEN CloseAll(Eff(b, <<>>), 0, TRUE) ELSE Eff(b, <<>>)
    BY <1>1, <1>3 DEF Handle
  <2>2. ~b.quitting => GoodEff(s, CloseAll(Eff(b, <<>>), 0, TRUE))
    <3>1. 0 <= b.lastId
      BY DEF Good, Browser
    <3>2. \A d \in b.creating : d.id # 0
      <4>1. \A d \in b.creating : d \in Creation
        BY DEF Good, Browser
      <4> QED BY <4>1 DEF Creation
    <3> QED BY <1>3, <3>1, <3>2, CloseAllGood
  <2> HIDE DEF f
  <2> QED BY <1>1, <2>1, <2>2 DEF f
<1>4. CASE r.op # "eof" /\ Admission(b, r) = "refuse"
  <2>1. f = Answer(Eff(b, <<>>), "error", r.id, None)
    BY <1>1, <1>4 DEF Handle
  <2> QED BY <1>0, <1>1, <2>1, RefusesEff
<1>5. CASE r.op # "eof" /\ Admission(b, r) # "refuse"
  <2>1. /\ b.lastId \in Nat /\ r.id > b.lastId /\ b.shutdown = NoId
        /\ \/ ~b.quitting /\ Admission(b, r) = "run"
           \/ b.quitting /\ Admission(b, r) = "stopped"
    <3>1. b.lastId \in Nat
      BY DEF Good, Browser
    <3> QED BY <1>0, <1>5, <3>1 DEF Admission
  <2>2. /\ Good(c, s) /\ c.lastId = r.id /\ c.windows = b.windows /\ c.shutdown = b.shutdown
        /\ c.quitting = b.quitting /\ c.creating = b.creating /\ c.boot = b.boot
        /\ ~Answered(s, r.id) /\ (\A d \in c.creating : d.id # r.id) /\ r.id # 0
    BY <1>0, <2>1, LastIdSet
  <2>3. [Eff(b, <<>>) EXCEPT !.b.lastId = r.id] = Eff(c, <<>>)
    BY DEF Eff
  <2> HIDE DEF c
  <2>4. GoodEff(s, Eff(c, <<>>))
    BY <2>2, Unsaid, EffParts
  <2>5. CASE Admission(b, r) = "stopped"
    <3> DEFINE n == r.id
               d == [c EXCEPT !.shutdown = n]
    <3>1. [Eff(c, <<>>) EXCEPT !.b.shutdown = n] = Eff(d, <<>>)
      BY DEF Eff
    <3>2. f = Answer(Eff(d, <<>>), "stopped", n, None)
      <4> HIDE DEF d
      <4> QED BY <1>1, <1>5, <2>3, <2>5, <3>1 DEF Handle
    <3> HIDE DEF n
    <3>3. n \in Nat /\ n # 0 /\ n = c.lastId /\ ~Answered(s, n) /\ c.quitting /\ c.shutdown = NoId
      BY <1>0, <2>1, <2>2, <2>5 DEF n
    <3>4. /\ d \in Browser /\ d.windows = c.windows /\ d.shutdown = n /\ d.quitting = c.quitting
          /\ d.creating = c.creating /\ d.lastId = c.lastId /\ d.tasks = c.tasks /\ d.ended = c.ended
          /\ d.boot = c.boot
      <4> HIDE DEF Window, Request, Creation
      <4> QED BY <2>2, <3>3 DEF Good, Browser
    <3> HIDE DEF d
    <3>5. Good(d, s)
      <4>1. OldestOnly(d) /\ EmptyAtQuit(d) /\ Known(d, s) /\ Making(d, s)
        BY <2>2, <3>3, <3>4 DEF Good, OldestOnly, EmptyAtQuit, Known, Making
      <4>2. Stopping(d, s) /\ OneEnd(d, s)
        BY <2>2, <3>3, <3>4 DEF Good, Stopping, OneEnd
      <4> QED BY <2>2, <3>4, <4>1, <4>2 DEF Good
    <3>6. ~Stopped(s) /\ d.creating = {} /\ n # NoId /\ "stopped" \in Final
      BY <2>2, <3>3, <3>4 DEF Good, Known, EmptyAtQuit, NoId, Final
    <3>7. GoodEff(s, Eff(d, <<>>))
      BY <3>5, Unsaid, EffParts
    <3>8. n <= d.lastId /\ d.quitting /\ d.shutdown # NoId
      BY <2>2, <3>3, <3>4, <3>6
    <3> QED BY <1>2, <3>2, <3>3, <3>6, <3>7, <3>8, AnswersEff
  <2>6. CASE Admission(b, r) = "run"
    <3>1. ~c.quitting /\ c.shutdown = NoId /\ r.id <= c.lastId /\ r.id \in Nat \ {0}
      BY <1>0, <2>1, <2>2, <2>6
    <3>2. \/ r.op = "open" /\ f = OpenScreen(Eff(c, <<>>), r.id, r.key, rejected)
          \/ f = Answer(Eff(c, <<>>), "closeBlocked", r.id, None)
          \/ f = CloseAll(Eff(c, <<>>), r.id, FALSE)
      BY <1>1, <1>5, <2>3, <2>6 DEF Handle
    <3> HIDE DEF f
    <3>3. CASE r.op = "open" /\ f = OpenScreen(Eff(c, <<>>), r.id, r.key, rejected)
      BY <1>0, <2>2, <3>1, <3>3, OpenScreenGood DEF f
    <3>4. CASE f = Answer(Eff(c, <<>>), "closeBlocked", r.id, None)
      <4>1. ~Stopped(s) /\ c.shutdown # r.id /\ "closeBlocked" \in Final
        BY <2>2, <3>1, NotStopped DEF NoId, Final
      <4>2. PICK n \in Nat \ {0} : n = r.id
        BY <3>1
      <4>3. GoodEff(s, Answer(Eff(c, <<>>), "closeBlocked", n, None))
        BY <1>2, <2>2, <2>4, <3>1, <4>1, <4>2, AnswersEff
      <4> QED BY <3>4, <4>2, <4>3 DEF f
    <3>5. CASE f = CloseAll(Eff(c, <<>>), r.id, FALSE)
      <4>1. GoodEff(s, CloseAll(Eff(c, <<>>), r.id, FALSE))
        BY <2>2, <3>1, CloseAllGood
      <4> QED BY <3>5, <4>1 DEF f
    <3> QED BY <3>2, <3>3, <3>4, <3>5
  <2> QED BY <2>1, <2>5, <2>6
<1> QED BY <1>3, <1>4, <1>5

\* What is left of a sequence without one of its elements.
LEMMA RemovedAt ==
  ASSUME NEW S, NEW w \in Seq(S), NEW i \in 1..Len(w)
  PROVE  /\ RemoveAt(w, i) \in Seq(S) /\ Len(RemoveAt(w, i)) = Len(w) - 1
         /\ \A k \in 1..Len(w) - 1 : RemoveAt(w, i)[k] = w[IF k < i THEN k ELSE k + 1]
<1> DEFINE l == SubSeq(w, 1, i - 1)
           r == SubSeq(w, i + 1, Len(w))
<1>1. Len(w) \in Nat /\ i \in Nat
  OBVIOUS
<1>2. l \in Seq(S) /\ Len(l) = i - 1 /\ \A k \in 1..i - 1 : l[k] = w[k]
  BY <1>1
<1>3. r \in Seq(S) /\ Len(r) = Len(w) - i /\ \A k \in 1..Len(w) - i : r[k] = w[i + k]
  BY <1>1
<1>4. RemoveAt(w, i) = l \o r
  BY DEF RemoveAt
<1> HIDE DEF l, r
<1>5. /\ l \o r \in Seq(S) /\ Len(l \o r) = Len(l) + Len(r)
      /\ \A k \in 1..Len(l) + Len(r) : (l \o r)[k] = IF k <= Len(l) THEN l[k] ELSE r[k - Len(l)]
  BY <1>2, <1>3, ConcatProperties
<1>6. ASSUME NEW k \in 1..Len(w) - 1
      PROVE  (l \o r)[k] = w[IF k < i THEN k ELSE k + 1]
  <2>1. CASE k < i
    BY <1>1, <1>2, <1>3, <1>5, <2>1
  <2>2. CASE k >= i
    <3>1. k - Len(l) \in 1..Len(w) - i /\ i + (k - Len(l)) = k + 1 /\ ~(k <= Len(l)) /\ k \in 1..Len(l) + Len(r)
      BY <1>1, <1>2, <1>3, <2>2
    <3>2. (l \o r)[k] = r[k - Len(l)] /\ r[k - Len(l)] = w[i + (k - Len(l))]
      BY <1>3, <1>5, <3>1
    <3> QED BY <1>1, <2>2, <3>1, <3>2
  <2>3. k < i \/ k >= i
    BY <1>1
  <2> QED BY <2>1, <2>2, <2>3
<1>7. Len(l) + Len(r) = Len(w) - 1
  BY <1>1, <1>2, <1>3
<1> QED BY <1>4, <1>5, <1>6, <1>7

\* A window has gone: a shutdown goes on with the oldest, which no other was asked before.
LEMMA GoneGood ==
  ASSUME NEW s \in Seq(Reply), NEW b, Good(b, s), NEW i \in 1..Len(b.windows)
  PROVE  GoodEff(s, Gone(b, i))
<1> DEFINE w == b.windows
           v == RemoveAt(w, i)
           c == [b EXCEPT !.windows = v]
<1>1. w \in Seq(Window) /\ Len(w) \in Nat /\ ~b.quitting
  BY DEF Good, Browser, EmptyAtQuit
<1> HIDE DEF Window
<1>2. /\ v \in Seq(Window) /\ Len(v) = Len(w) - 1
      /\ \A k \in 1..Len(w) - 1 : v[k] = w[IF k < i THEN k ELSE k + 1]
  BY <1>1, RemovedAt
<1>3. Gone(b, i) = MaybeQuit(NextToClose(Eff(c, <<>>), b.windows[i].id))
  BY EffParts DEF Gone
<1> HIDE DEF v
<1>4. \A k \in 1..Len(v) : v[k].watch # "idle" => k = 1
  <2> SUFFICES ASSUME NEW k \in 1..Len(v), v[k].watch # "idle" PROVE k = 1
    OBVIOUS
  <2>1. k \in 1..Len(w) - 1 /\ (IF k < i THEN k ELSE k + 1) \in 1..Len(w)
    BY <1>1, <1>2
  <2>2. (IF k < i THEN k ELSE k + 1) = 1
    BY <1>2, <2>1 DEF Good, OldestOnly
  <2>3. CASE k < i
    BY <2>2, <2>3
  <2>4. CASE ~(k < i)
    BY <1>1, <2>1, <2>2, <2>4
  <2> QED BY <2>3, <2>4
<1>5. Good(c, s) /\ ~c.quitting
  BY <1>1, <1>2, <1>4, WindowsChange
<1> HIDE DEF c
<1>6. LET f == NextToClose(Eff(c, <<>>), b.windows[i].id) IN GoodEff(s, f) /\ ~f.b.quitting
  BY <1>5, NextToCloseGood
<1> QED BY <1>3, <1>6, MaybeQuitGood

\* The context is ready.
LEMMA BootSet ==
  ASSUME NEW b, NEW t, Good(b, t), b.boot # None
  PROVE  LET c == [b EXCEPT !.boot = None]
         IN  Good(c, t) /\ ~c.quitting /\ b.boot \in Keys
<1> DEFINE c == [b EXCEPT !.boot = None]
<1> HIDE DEF Window, Request, Creation
<1>1. /\ c \in Browser /\ c.windows = b.windows /\ c.shutdown = b.shutdown /\ c.quitting = b.quitting
      /\ c.creating = b.creating /\ c.lastId = b.lastId /\ c.tasks = b.tasks /\ c.ended = b.ended
      /\ c.boot = None /\ b.boot \in Keys
  BY DEF Good, Browser
<1>2. ~b.quitting
  BY DEF Good, EmptyAtQuit
<1> HIDE DEF c
<1>3. OldestOnly(c) /\ EmptyAtQuit(c) /\ Known(c, t) /\ Making(c, t) /\ Stopping(c, t) /\ OneEnd(c, t)
  BY <1>1 DEF Good, OldestOnly, EmptyAtQuit, Known, Making, Stopping, OneEnd
<1> QED BY <1>1, <1>2, <1>3 DEF Good, c

\* The tasks change, and with them whether the end of input was posted.
LEMMA TasksSet ==
  ASSUME NEW b, NEW t, Good(b, t), NEW q \in Seq(Request), NEW over \in BOOLEAN,
         \A i \in 1..Len(q) : q[i].op = "eof" => over,
         \A i, j \in 1..Len(q) : q[i].op = "eof" /\ q[j].op = "eof" => i = j,
         b.shutdown = 0 \/ Answered(t, 0) => over /\ \A i \in 1..Len(q) : q[i].op # "eof"
  PROVE  LET c == [b EXCEPT !.tasks = q, !.ended = over]
         IN  Good(c, t) /\ c.tasks = q /\ c.ended = over
<1> DEFINE c == [b EXCEPT !.tasks = q, !.ended = over]
<1> HIDE DEF Window, Request, Creation
<1>1. /\ c \in Browser /\ c.windows = b.windows /\ c.shutdown = b.shutdown /\ c.quitting = b.quitting
      /\ c.creating = b.creating /\ c.lastId = b.lastId /\ c.tasks = q /\ c.ended = over
      /\ c.boot = b.boot
  BY DEF Good, Browser
<1> HIDE DEF c
<1>2. OldestOnly(c) /\ EmptyAtQuit(c) /\ Known(c, t) /\ Making(c, t) /\ Stopping(c, t)
  BY <1>1 DEF Good, OldestOnly, EmptyAtQuit, Known, Making, Stopping
<1>3. OneEnd(c, t)
  BY <1>1 DEF OneEnd
<1> QED BY <1>1, <1>2, <1>3 DEF Good, c

\* What on_after_created does: a window is added, and the creation is answered or not.
LEMMA CreatedIs ==
  ASSUME NEW b, NEW key, NEW id
  PROVE  LET over == Len(b.windows) + 1 > MaxScreens
             x == [id |-> b.born + 1, key |-> key, watch |-> "idle", forced |-> over \/ b.failed]
             d == [[b EXCEPT !.windows = Append(b.windows, x)] EXCEPT !.born = b.born + 1]
         IN  Created(b, key, id) = IF key = Popup \/ over \/ b.shutdown # NoId THEN Eff(d, <<>>)
                                   ELSE Answer(Eff(d, <<>>), "opened", id, key)
<1> DEFINE over == Len(b.windows) + 1 > MaxScreens
           x == [id |-> b.born + 1, key |-> key, watch |-> "idle", forced |-> over \/ b.failed]
           w == Append(b.windows, x)
           n == b.born + 1
           c == [b EXCEPT !.windows = w]
           d == [c EXCEPT !.born = n]
<1>1. [Effect(b) EXCEPT !.b.windows = Append(@, x), !.b.born = @ + 1] = Eff(d, <<>>)
  <2> HIDE DEF x
  <2> DEFINE e == [Effect(b) EXCEPT !.b.windows = Append(@, x)]
  <2>1. Effect(b).b = b /\ Effect(b).b.born + 1 = n /\ Append(Effect(b).b.windows, x) = w /\ Effect(b) = Eff(b, <<>>)
    BY EffParts
  <2> HIDE DEF w, n
  <2>2. [Eff(b, <<>>) EXCEPT !.b.windows = w, !.b.born = n]
        = [[Eff(b, <<>>) EXCEPT !.b.windows = w] EXCEPT !.b.born = n]
    BY DEF Eff
  <2>3. [Eff(b, <<>>) EXCEPT !.b.windows = w] = Eff(c, <<>>)
    BY DEF Eff
  <2> HIDE DEF c
  <2>4. [Eff(c, <<>>) EXCEPT !.b.born = n] = Eff(d, <<>>)
    BY DEF Eff
  <2> HIDE DEF d
  <2>5. [Effect(b) EXCEPT !.b.windows = Append(@, x), !.b.born = @ + 1]
        = [Eff(b, <<>>) EXCEPT !.b.windows = w, !.b.born = n]
    BY <2>1
  <2> QED BY <2>2, <2>3, <2>4, <2>5
<1> HIDE DEF d
<1>2. Created(b, key, id) = IF key = Popup \/ over \/ b.shutdown # NoId THEN Eff(d, <<>>)
                            ELSE Answer(Eff(d, <<>>), "opened", id, key)
  BY <1>1, EffParts DEF Created
<1> QED BY <1>2 DEF d

\* A window comes last in the order of the windows; a creation is answered, unless it is too late or one too many.
LEMMA CreatedGood ==
  ASSUME NEW s \in Seq(Reply), NEW b, Good(b, s), ~b.quitting, NEW key \in Keys \cup {Popup}, NEW id \in Nat,
         key # Popup => /\ id # 0 /\ id <= b.lastId /\ ~Answered(s, id) /\ \A c \in b.creating : c.id # id
  PROVE  GoodEff(s, Created(b, key, id))
<1> DEFINE over == Len(b.windows) + 1 > MaxScreens
           x == [id |-> b.born + 1, key |-> key, watch |-> "idle", forced |-> over \/ b.failed]
           w == Append(b.windows, x)
           n == b.born + 1
           c == [b EXCEPT !.windows = w]
           d == [c EXCEPT !.born = n]
           f == Created(b, key, id)
<1>1. b.windows \in Seq(Window) /\ x \in Window /\ x.watch = "idle" /\ n \in Nat
  <2>1. b.windows \in Seq(Window) /\ b.born \in Nat /\ b.failed \in BOOLEAN /\ Len(b.windows) \in Nat
    BY DEF Good, Browser
  <2>2. over \in BOOLEAN /\ (over \/ b.failed) \in BOOLEAN
    OBVIOUS
  <2> HIDE DEF over
  <2>3. x \in Window
    BY <2>1, <2>2 DEF Window, Watches
  <2> QED BY <2>1, <2>3
<1>2. f = IF key = Popup \/ over \/ b.shutdown # NoId THEN Eff(d, <<>>)
          ELSE Answer(Eff(d, <<>>), "opened", id, key)
  BY CreatedIs
<1> HIDE DEF x, over, f, n
<1>3. w \in Seq(Window) /\ Len(w) = Len(b.windows) + 1 /\ Len(b.windows) \in Nat
      /\ (\A i \in 1..Len(b.windows) : w[i] = b.windows[i]) /\ w[Len(b.windows) + 1] = x
  <2> HIDE DEF Window
  <2> QED BY <1>1, AppendProperties, LenProperties
<1> HIDE DEF w
<1>4. \A i \in 1..Len(w) : w[i].watch # "idle" => i = 1
  BY <1>1, <1>3 DEF Good, OldestOnly
<1>5. Good(c, s) /\ c.shutdown = b.shutdown /\ ~c.quitting /\ c.lastId = b.lastId /\ c.creating = b.creating
  <2>1. Good(c, s) /\ c.shutdown = b.shutdown /\ ~c.quitting
    BY <1>3, <1>4, WindowsChange
  <2> QED BY <2>1 DEF Good, Browser
<1> HIDE DEF c
<1>6. /\ Good(d, s) /\ d.shutdown = c.shutdown /\ ~d.quitting /\ d.lastId = c.lastId /\ d.creating = c.creating
  <2>1. /\ d \in Browser /\ d.windows = c.windows /\ d.shutdown = c.shutdown /\ d.quitting = c.quitting
        /\ d.creating = c.creating /\ d.lastId = c.lastId /\ d.tasks = c.tasks /\ d.ended = c.ended
        /\ d.boot = c.boot
    <3> HIDE DEF Window, Request, Creation
    <3> QED BY <1>1, <1>5 DEF Good, Browser
  <2> HIDE DEF d
  <2>2. OldestOnly(d) /\ EmptyAtQuit(d) /\ Known(d, s) /\ Making(d, s) /\ Stopping(d, s) /\ OneEnd(d, s)
    BY <1>5, <2>1 DEF Good, OldestOnly, EmptyAtQuit, Known, Making, Stopping, OneEnd
  <2> QED BY <1>5, <2>1, <2>2 DEF Good
<1> HIDE DEF d
<1>7. GoodEff(s, Eff(d, <<>>)) /\ s \o <<>> = s
  BY <1>6, Unsaid, EffParts, ConcatEmptySeq
<1>8. CASE key = Popup \/ over \/ b.shutdown # NoId
  BY <1>2, <1>7, <1>8 DEF f
<1>9. CASE key # Popup /\ ~over /\ b.shutdown = NoId
  <2>1. ~Stopped(s) /\ d.shutdown # id /\ "opened" \in Final /\ key \in Keys \cup {None} /\ id # 0
        /\ id <= d.lastId /\ ~Answered(s, id) /\ \A a \in d.creating : a.id # id
    BY <1>5, <1>6, <1>9, NotStopped DEF NoId, Final
  <2>2. GoodEff(s, Answer(Eff(d, <<>>), "opened", id, key))
    BY <1>7, <2>1, AnswersEff
  <2> QED BY <1>2, <1>9, <2>2 DEF f
<1> QED BY <1>8, <1>9

-----------------------------------------------------------------------------
(* Steps *)

\* A handler whose effect is good.
LEMMA NowKept ==
  ASSUME AInv, NEW p \in Profiles, NEW e, GoodEff(replies[p], e), Now(p, e), requests' = requests
  PROVE  AInv'
<1> DEFINE u == replies[p] \o e.out
<1>1. Good(e.b, u) /\ e.b \in Browser /\ u \in Seq(Reply)
  BY DEF GoodEff, Good
<1>2. browser' = [browser EXCEPT ![p] = e.b] /\ replies' = [replies EXCEPT ![p] = u]
  BY DEF Now
<1> HIDE DEF u, Browser, Reply, Request
<1>3. browser' \in [Profiles -> Browser] /\ replies' \in [Profiles -> Seq(Reply)]
  BY <1>1, <1>2 DEF AInv
<1>4. ASSUME NEW q \in Profiles
      PROVE  Good(browser'[q], replies'[q])
  <2>1. CASE q = p
    <3>1. browser'[q] = e.b /\ replies'[q] = u
      BY <1>2, <2>1 DEF AInv
    <3> QED BY <1>1, <3>1
  <2>2. CASE q # p
    <3>1. browser'[q] = browser[q] /\ replies'[q] = replies[q]
      BY <1>2, <2>2 DEF AInv
    <3> QED BY <3>1 DEF AInv
  <2> QED BY <2>1, <2>2
<1> QED BY <1>3, <1>4 DEF AInv

\* The reader posts a request, or the end of input.
LEMMA PostKept ==
  ASSUME AInv, NEW p \in Profiles, Post(p)
  PROVE  AInv'
<1> DEFINE b == browser[p]
           t == replies[p]
           q == requests[p]
<1>1. b \in Browser /\ t \in Seq(Reply) /\ q \in Seq(Request) /\ Good(b, t) /\ b.tasks \in Seq(Request)
      /\ b.ended \in BOOLEAN
  BY DEF AInv, Good, Browser
<1>2. \A i \in 1..Len(q) : q[i].op # "eof"
  BY DEF AInv
<1>3. PICK x \in Request, over \in BOOLEAN :
         /\ browser' = [browser EXCEPT ![p] = [b EXCEPT !.tasks = Append(@, x), !.ended = over]]
         /\ x.op # "eof" => over = b.ended
         /\ x.op = "eof" => ~b.ended /\ over
         /\ \/ requests' = requests
            \/ q # <<>> /\ requests' = [requests EXCEPT ![p] = Tail(@)]
  <2>1. CASE /\ q # <<>>
             /\ browser' = [browser EXCEPT ![p].tasks = Append(@, Head(q))]
             /\ requests' = [requests EXCEPT ![p] = Tail(@)]
    <3>1. Head(q) \in Request /\ Head(q) = q[1] /\ 1 \in 1..Len(q)
      <4> HIDE DEF Request
      <4> QED BY <1>1, <2>1
    <3>2. Head(q).op # "eof"
      BY <1>2, <3>1
    <3> DEFINE x == Head(q)
    <3> HIDE DEF x
    <3>3. [b EXCEPT !.tasks = Append(@, x), !.ended = b.ended] = [b EXCEPT !.tasks = Append(@, x)]
      <4> HIDE DEF Window, Request, Creation
      <4> QED BY <1>1 DEF Browser
    <3>4. [browser EXCEPT ![p].tasks = Append(@, x)] = [browser EXCEPT ![p] = [b EXCEPT !.tasks = Append(@, x)]]
      OBVIOUS
    <3>5. browser' = [browser EXCEPT ![p] = [b EXCEPT !.tasks = Append(@, x), !.ended = b.ended]]
      BY <2>1, <3>3, <3>4 DEF x
    <3> HIDE DEF b, q
    <3>6. x \in Request /\ x.op # "eof" /\ b.ended \in BOOLEAN
      BY <1>1, <3>1, <3>2 DEF x
    <3> QED BY <2>1, <3>5, <3>6
  <2>2. CASE /\ ~b.ended
             /\ browser' = [browser EXCEPT ![p].tasks = Append(@, Task("eof", 0, None)), ![p].ended = TRUE]
             /\ requests' = requests
    <3> DEFINE x == Task("eof", 0, None)
    <3>1. x \in Request /\ x.op = "eof"
      BY DEF Task, Request
    <3> HIDE DEF x
    <3> DEFINE y == TRUE
    <3> HIDE DEF y
    <3>2. [browser EXCEPT ![p].tasks = Append(@, x), ![p].ended = y]
            = [browser EXCEPT ![p] = [b EXCEPT !.tasks = Append(@, x), !.ended = y]]
      BY DEF AInv
    <3>3. browser' = [browser EXCEPT ![p] = [b EXCEPT !.tasks = Append(@, x), !.ended = TRUE]]
      BY <2>2, <3>2 DEF x, y
    <3> HIDE DEF b
    <3> QED BY <2>2, <3>1, <3>3
  <2> QED BY <2>1, <2>2 DEF Post
<1> DEFINE w == Append(b.tasks, x)
           c == [b EXCEPT !.tasks = w, !.ended = over]
<1>4. /\ w \in Seq(Request) /\ Len(b.tasks) \in Nat /\ Len(w) = Len(b.tasks) + 1
      /\ (\A i \in 1..Len(b.tasks) : w[i] = b.tasks[i]) /\ w[Len(b.tasks) + 1] = x
  <2> HIDE DEF Request, b
  <2> QED BY <1>1, AppendProperties, LenProperties
<1> HIDE DEF w
<1>5. \A i \in 1..Len(w) : i \in 1..Len(b.tasks) \/ i = Len(b.tasks) + 1
  BY <1>4
<1>6. \A i \in 1..Len(w) : w[i].op = "eof" => over
  BY <1>1, <1>3, <1>4, <1>5 DEF Good, OneEnd
<1>7. \A i, j \in 1..Len(w) : w[i].op = "eof" /\ w[j].op = "eof" => i = j
  BY <1>1, <1>3, <1>4, <1>5 DEF Good, OneEnd
<1>8. b.shutdown = 0 \/ Answered(t, 0) => over /\ \A i \in 1..Len(w) : w[i].op # "eof"
  BY <1>1, <1>3, <1>4, <1>5 DEF Good, OneEnd
<1>9. Good(c, t)
  BY <1>1, <1>4, <1>6, <1>7, <1>8, TasksSet
<1>10. browser' = [browser EXCEPT ![p] = c] /\ replies' = replies
  BY <1>3 DEF w, Post
<1> HIDE DEF c
<1>11. c \in Browser
  BY <1>9 DEF Good
<1> HIDE DEF Browser, Reply, Request
<1>12. browser' \in [Profiles -> Browser] /\ replies' \in [Profiles -> Seq(Reply)]
  BY <1>10, <1>11 DEF AInv
<1>13. ASSUME NEW r \in Profiles
       PROVE  Good(browser'[r], replies'[r])
  <2>1. CASE r = p
    <3>1. browser'[r] = c /\ replies'[r] = t
      BY <1>10, <2>1 DEF AInv
    <3> QED BY <1>9, <3>1
  <2>2. CASE r # p
    <3>1. browser'[r] = browser[r] /\ replies'[r] = replies[r]
      BY <1>10, <2>2 DEF AInv
    <3> QED BY <3>1 DEF AInv
  <2> QED BY <2>1, <2>2
<1>14. requests' \in [Profiles -> Seq(Request)]
       /\ \A r \in Profiles : \A i \in 1..Len(requests'[r]) : requests'[r][i].op # "eof"
  <2>1. CASE requests' = requests
    BY <2>1 DEF AInv
  <2>2. CASE q # <<>> /\ requests' = [requests EXCEPT ![p] = Tail(@)]
    <3>1. PICK v \in Seq(Request) : v = Tail(q) /\ Len(v) = Len(q) - 1 /\ \A i \in 1..Len(v) : v[i] = q[i + 1]
      <4>1. PICK z \in Seq(Request) : z = q /\ z # <<>>
        BY <1>1, <2>2
      <4>2. /\ Tail(z) \in Seq(Request) /\ Len(Tail(z)) = Len(z) - 1
            /\ \A i \in 1..Len(Tail(z)) : Tail(z)[i] = z[i + 1]
        BY <4>1, HeadTailProperties
      <4> QED BY <4>1, <4>2
    <3>2. \A i \in 1..Len(v) : i + 1 \in 1..Len(q)
      BY <1>1, <3>1, LenProperties
    <3>3. \A i \in 1..Len(v) : v[i].op # "eof"
      BY <1>2, <3>1, <3>2
    <3>4. requests' = [requests EXCEPT ![p] = v]
      BY <2>2, <3>1
    <3> HIDE DEF q
    <3>5. \A r \in Profiles : requests'[r] = IF r = p THEN v ELSE requests[r]
      BY <3>4 DEF AInv
    <3> QED BY <3>3, <3>4, <3>5 DEF AInv
  <2> QED BY <1>3, <2>1, <2>2
<1> QED BY <1>12, <1>13, <1>14 DEF AInv

\* The screen the process was started for.
LEMMA BootKept ==
  ASSUME AInv, NEW p \in Profiles, Boot(p)
  PROVE  AInv'
<1> DEFINE b == browser[p]
           s == replies[p]
           c == [b EXCEPT !.boot = None]
<1>1. Good(b, s) /\ s \in Seq(Reply) /\ b.boot # None
  BY DEF AInv, Boot
<1> HIDE DEF b
<1>2. Good(c, s) /\ ~c.quitting /\ b.boot \in Keys
  BY <1>1, BootSet
<1>3. PICK rejected \in BOOLEAN : Now(p, IF b.shutdown # NoId THEN MaybeQuit(Effect(c))
                                         ELSE Handle(c, Open(1, b.boot), rejected))
  BY DEF Boot, b
<1> HIDE DEF c, s
<1>4. requests' = requests
  BY DEF Boot
<1>5. CASE b.shutdown # NoId
  <2>1. GoodEff(s, Effect(c)) /\ ~Effect(c).b.quitting
    BY <1>2, Unsaid, EffParts
  <2>2. GoodEff(s, MaybeQuit(Effect(c)))
    BY <1>1, <2>1, MaybeQuitGood
  <2> QED BY <1>3, <1>4, <1>5, <2>2, NowKept DEF s
<1>6. CASE b.shutdown = NoId
  <2> DEFINE r == Open(1, b.boot)
  <2>1. r \in Request /\ r.op # "eof"
    BY <1>2 DEF Open, Task, Request
  <2> HIDE DEF r
  <2>2. GoodEff(s, Handle(c, r, rejected))
    BY <1>1, <1>2, <2>1, HandleGood
  <2> QED BY <1>3, <1>4, <1>6, <2>2, NowKept DEF s, r
<1> QED BY <1>5, <1>6

\* The request the browser is about to handle leaves its queue.
LEMMA TasksTaken ==
  ASSUME NEW b, NEW t, Good(b, t), NEW q \in Seq(Request),
         \A i \in 1..Len(q) : q[i].op = "eof" => b.ended,
         \A i, j \in 1..Len(q) : q[i].op = "eof" /\ q[j].op = "eof" => i = j,
         b.shutdown = 0 \/ Answered(t, 0) => b.ended /\ \A i \in 1..Len(q) : q[i].op # "eof"
  PROVE  LET c == [b EXCEPT !.tasks = q]
         IN  Good(c, t) /\ c.tasks = q /\ c.ended = b.ended
<1> DEFINE c == [b EXCEPT !.tasks = q]
<1> HIDE DEF Window, Request, Creation
<1>1. /\ c \in Browser /\ c.windows = b.windows /\ c.shutdown = b.shutdown /\ c.quitting = b.quitting
      /\ c.creating = b.creating /\ c.lastId = b.lastId /\ c.tasks = q /\ c.ended = b.ended
      /\ c.boot = b.boot
  BY DEF Good, Browser
<1> HIDE DEF c
<1>2. OldestOnly(c) /\ EmptyAtQuit(c) /\ Known(c, t) /\ Making(c, t) /\ Stopping(c, t)
  BY <1>1 DEF Good, OldestOnly, EmptyAtQuit, Known, Making, Stopping
<1>3. OneEnd(c, t)
  BY <1>1 DEF OneEnd
<1> QED BY <1>1, <1>2, <1>3 DEF Good, c

\* The oldest task leaves the queue; if it is the end of input it is the only one.
LEMMA HeadTaken ==
  ASSUME NEW b, NEW s, Good(b, s), b.tasks # <<>>
  PROVE  LET c == [b EXCEPT !.tasks = Tail(@)]
             r == Head(b.tasks)
         IN  /\ Good(c, s) /\ r \in Request
             /\ r.op = "eof" => /\ c.ended /\ ~Answered(s, 0) /\ \A i \in 1..Len(c.tasks) : c.tasks[i].op # "eof"
<1> DEFINE r == Head(b.tasks)
           q == Tail(b.tasks)
           c == [b EXCEPT !.tasks = q]
<1>1. b.tasks \in Seq(Request) /\ b.ended \in BOOLEAN
  BY DEF Good, Browser
<1>2. r \in Request /\ r = b.tasks[1] /\ 1 \in 1..Len(b.tasks) /\ Len(b.tasks) \in Nat
  <2> HIDE DEF Request
  <2> QED BY <1>1
<1>3. q \in Seq(Request) /\ Len(q) = Len(b.tasks) - 1 /\ \A i \in 1..Len(q) : q[i] = b.tasks[i + 1]
  BY <1>1, HeadTailProperties
<1> HIDE DEF r, q
<1>4. \A i \in 1..Len(q) : i + 1 \in 1..Len(b.tasks) /\ i + 1 # 1
  BY <1>2, <1>3
<1>5. \A i \in 1..Len(q) : q[i].op = "eof" => b.ended
  BY <1>3, <1>4 DEF Good, OneEnd
<1>6. \A i, j \in 1..Len(q) : q[i].op = "eof" /\ q[j].op = "eof" => i = j
  <2> SUFFICES ASSUME NEW i \in 1..Len(q), NEW j \in 1..Len(q), q[i].op = "eof", q[j].op = "eof" PROVE i = j
    OBVIOUS
  <2>1. i + 1 = j + 1
    BY <1>3, <1>4 DEF Good, OneEnd
  <2> QED BY <2>1
<1>7. b.shutdown = 0 \/ Answered(s, 0) => b.ended /\ \A i \in 1..Len(q) : q[i].op # "eof"
  BY <1>3, <1>4 DEF Good, OneEnd
<1>8. Good(c, s) /\ c.tasks = q /\ c.ended = b.ended
  BY <1>3, <1>5, <1>6, <1>7, TasksTaken
<1>9. r.op = "eof" => b.ended /\ ~Answered(s, 0) /\ \A i \in 1..Len(q) : q[i].op # "eof"
  <2> SUFFICES ASSUME r.op = "eof"
               PROVE  b.ended /\ ~Answered(s, 0) /\ \A i \in 1..Len(q) : q[i].op # "eof"
    OBVIOUS
  <2>1. b.ended /\ ~Answered(s, 0)
    BY <1>2 DEF Good, OneEnd
  <2>2. \A i \in 1..Len(q) : q[i].op # "eof"
    BY <1>2, <1>3, <1>4 DEF Good, OneEnd
  <2> QED BY <2>1, <2>2
<1> QED BY <1>2, <1>8, <1>9 DEF c, q, r

\* The oldest task is run.
LEMMA DispatchKept ==
  ASSUME AInv, NEW p \in Profiles, Dispatch(p)
  PROVE  AInv'
<1> DEFINE b == browser[p]
           s == replies[p]
<1>1. Good(b, s) /\ s \in Seq(Reply) /\ b.tasks # <<>> /\ requests' = requests
  BY DEF AInv, Dispatch
<1>2. PICK rejected \in BOOLEAN : Now(p, Handle([b EXCEPT !.tasks = Tail(@)], Head(b.tasks), rejected))
  BY DEF Dispatch
<1> HIDE DEF b, s
<1>3. PICK r, c : /\ r = Head(b.tasks) /\ c = [b EXCEPT !.tasks = Tail(@)] /\ r \in Request /\ Good(c, s)
                  /\ r.op = "eof" => /\ c.ended /\ ~Answered(s, 0)
                                     /\ \A i \in 1..Len(c.tasks) : c.tasks[i].op # "eof"
  BY <1>1, HeadTaken
<1>4. GoodEff(s, Handle(c, r, rejected))
  BY <1>1, <1>3, HandleGood
<1> QED BY <1>1, <1>2, <1>3, <1>4, NowKept DEF s

\* A window for a creation.
LEMMA CreateKept ==
  ASSUME AInv, NEW p \in Profiles, Create(p)
  PROVE  AInv'
<1> DEFINE b == browser[p]
           s == replies[p]
<1>1. Good(b, s) /\ s \in Seq(Reply) /\ requests' = requests
  BY DEF AInv, Create
<1>2. PICK x \in b.creating : x.key # None /\ Now(p, Created([b EXCEPT !.creating = @ \ {x}], x.key, x.id))
  BY DEF Create
<1> HIDE DEF b, s
<1> DEFINE c == [b EXCEPT !.creating = @ \ {x}]
<1>3. /\ Good(c, s) /\ ~c.quitting /\ x.id \in Nat \ {0} /\ x.key \in Keys /\ x.id <= c.lastId
      /\ ~Answered(s, x.id) /\ \A d \in c.creating : d.id # x.id
  BY <1>1, <1>2, CreatingLess
<1> HIDE DEF c
<1>4. GoodEff(s, Created(c, x.key, x.id))
  <2>1. PICK key \in Keys \cup {Popup}, id \in Nat : key = x.key /\ id = x.id
    BY <1>3
  <2>2. GoodEff(s, Created(c, key, id))
    BY <1>1, <1>3, <2>1, CreatedGood
  <2> QED BY <2>1, <2>2
<1> QED BY <1>1, <1>2, <1>4, NowKept DEF c, s

\* A site opens a window by itself.
LEMMA OpenPopupKept ==
  ASSUME AInv, NEW p \in Profiles, OpenPopup(p)
  PROVE  AInv'
<1> DEFINE b == browser[p]
           s == replies[p]
<1>1. Good(b, s) /\ s \in Seq(Reply) /\ requests' = requests /\ b.windows # <<>> /\ Now(p, Created(b, Popup, 0))
  BY DEF AInv, OpenPopup
<1> HIDE DEF b, s
<1>2. ~b.quitting
  BY <1>1 DEF Good, EmptyAtQuit
<1>3. GoodEff(s, Created(b, Popup, 0))
  BY <1>1, <1>2, CreatedGood
<1> QED BY <1>1, <1>3, NowKept DEF s

\* A window that was asked is observed, or cannot be.
LEMMA ObserveKept ==
  ASSUME AInv, NEW p \in Profiles, NEW i \in Windows(p), NEW success \in BOOLEAN, Observe(p, i, success)
  PROVE  AInv'
<1> DEFINE b == browser[p]
           s == replies[p]
           v == IF success THEN "ready" ELSE "failed"
           c == [b EXCEPT !.windows[i].watch = v]
<1>1. /\ Good(b, s) /\ s \in Seq(Reply) /\ requests' = requests /\ b.windows[i].watch = "pending"
      /\ Now(p, IF success THEN Effect(c) ELSE CloseUnavailable(Effect(c))) /\ i \in DOMAIN b.windows
  BY DEF AInv, Observe, Windows
<1> HIDE DEF b, s
<1>2. i \in 1..Len(b.windows)
  BY <1>1 DEF Good, Browser
<1>3. i = 1 /\ ~b.quitting
  BY <1>1, <1>2 DEF Good, OldestOnly, EmptyAtQuit
<1>4. v \in Watches
  BY DEF Watches
<1> HIDE DEF v
<1>5. Good(c, s) /\ ~c.quitting
  BY <1>1, <1>2, <1>3, <1>4, WatchSet
<1> HIDE DEF c
<1>6. GoodEff(s, Effect(c)) /\ GoodEff(s, CloseUnavailable(Effect(c)))
  BY <1>1, <1>5, Unsaid, EffParts, CloseUnavailableGood
<1>7. Now(p, Effect(c)) \/ Now(p, CloseUnavailable(Effect(c)))
  BY <1>1
<1> QED BY <1>1, <1>6, <1>7, NowKept DEF s

\* A window goes.
LEMMA LeaveKept ==
  ASSUME AInv, NEW p \in Profiles, NEW i \in Windows(p), Leave(p, i)
  PROVE  AInv'
<1> DEFINE b == browser[p]
           s == replies[p]
<1>1. Good(b, s) /\ s \in Seq(Reply) /\ requests' = requests /\ Now(p, Gone(b, i)) /\ i \in DOMAIN b.windows
  BY DEF AInv, Leave, Windows
<1> HIDE DEF b, s
<1>2. i \in 1..Len(b.windows)
  BY <1>1 DEF Good, Browser
<1>3. GoodEff(s, Gone(b, i))
  BY <1>1, <1>2, GoneGood
<1> QED BY <1>1, <1>3, NowKept DEF s

\* The person stays, which ends the shutdown unless it goes unnoticed.
LEMMA StayKept ==
  ASSUME AInv, NEW p \in Profiles, NEW i \in Windows(p), Stay(p, i)
  PROVE  AInv'
<1> DEFINE b == browser[p]
           s == replies[p]
           c == [b EXCEPT !.shutdown = NoId]
           m == [b EXCEPT !.windows[i].watch = "missed"]
<1>1. /\ Good(b, s) /\ s \in Seq(Reply) /\ requests' = requests /\ i \in DOMAIN b.windows /\ b.shutdown # NoId
      /\ b.windows[i].watch # "idle"
      /\ Now(p, Answer(Effect(c), "cancelled", b.shutdown, None)) \/ Now(p, Effect(m))
  BY DEF AInv, Stay, Windows
<1> HIDE DEF b, s
<1>2. ~b.quitting /\ i \in 1..Len(b.windows) /\ i = 1
  BY <1>1 DEF Good, EmptyAtQuit, OldestOnly, Browser
<1>3. PICK id \in Nat : id = b.shutdown
  BY <1>1 DEF Good, Browser
<1>4. Good(c, s) /\ c.shutdown = NoId /\ ~c.quitting
  BY <1>1, <1>2, ShutdownSet
<1>5. c.lastId = b.lastId /\ c.creating = b.creating /\ c.tasks = b.tasks /\ c.ended = b.ended
  <2> HIDE DEF Window, Request, Creation
  <2> QED BY <1>1 DEF Good, Browser
<1>6. Good(m, s)
  BY <1>1, <1>2, WatchSet DEF Watches
<1> HIDE DEF c, m
<1>7. /\ id <= c.lastId /\ ~Answered(s, id) /\ ~Stopped(s) /\ (\A d \in c.creating : d.id # id)
      /\ c.shutdown # id /\ "cancelled" \in Final
  BY <1>1, <1>2, <1>3, <1>4, <1>5, NotStopped DEF Good, Stopping, NoId, Final
<1>8. id = 0 => c.ended /\ \A k \in 1..Len(c.tasks) : c.tasks[k].op # "eof"
  BY <1>1, <1>3, <1>5 DEF Good, OneEnd
<1>9. GoodEff(s, Eff(c, <<>>)) /\ Effect(c) = Eff(c, <<>>) /\ s \o <<>> = s /\ GoodEff(s, Effect(m))
  BY <1>1, <1>4, <1>6, Unsaid, EffParts, ConcatEmptySeq
<1>10. GoodEff(s, Answer(Eff(c, <<>>), "cancelled", id, None))
  BY <1>1, <1>7, <1>8, <1>9, AnswersEff
<1>11. CASE Now(p, Effect(m))
  BY <1>1, <1>9, <1>11, NowKept DEF s
<1>12. CASE Now(p, Answer(Effect(c), "cancelled", b.shutdown, None))
  BY <1>1, <1>3, <1>9, <1>10, <1>12, NowKept DEF s
<1> QED BY <1>1, <1>11, <1>12

\* The context is made: nothing is asked, answered or opened by that.
LEMMA ContextKept ==
  ASSUME AInv, NEW p \in Profiles, ContextInitialized(p)
  PROVE  AInv'
<1> DEFINE b == browser[p]
           s == replies[p]
           v == TRUE
           c == [b EXCEPT !.context = v]
<1>1. Good(b, s) /\ s \in Seq(Reply) /\ requests' = requests /\ replies' = replies
  BY DEF AInv, ContextInitialized
<1>2. browser' = [browser EXCEPT ![p] = c]
  BY DEF AInv, ContextInitialized
<1>3. v \in BOOLEAN
  OBVIOUS
<1> HIDE DEF b, s, v
<1>4. /\ c \in Browser /\ c.windows = b.windows /\ c.shutdown = b.shutdown /\ c.quitting = b.quitting
      /\ c.creating = b.creating /\ c.lastId = b.lastId /\ c.tasks = b.tasks /\ c.ended = b.ended
      /\ c.boot = b.boot
  <2> HIDE DEF Window, Request, Creation
  <2> QED BY <1>1, <1>3 DEF Good, Browser
<1> HIDE DEF c
<1>5. Good(c, s)
  BY <1>1, <1>4 DEF Good, OldestOnly, EmptyAtQuit, Known, Making, Stopping, OneEnd
<1> HIDE DEF Browser, Reply, Request
<1>6. browser' \in [Profiles -> Browser]
  BY <1>2, <1>4 DEF AInv
<1>7. ASSUME NEW r \in Profiles
      PROVE  Good(browser'[r], replies[r])
  <2>1. CASE r = p
    <3>1. browser'[r] = c
      BY <1>2, <2>1 DEF AInv
    <3> QED BY <1>5, <2>1, <3>1 DEF s
  <2>2. CASE r # p
    <3>1. browser'[r] = browser[r]
      BY <1>2, <2>2 DEF AInv
    <3> QED BY <3>1 DEF AInv
  <2> QED BY <2>1, <2>2
<1> QED BY <1>1, <1>6, <1>7 DEF AInv

\* Everything the browser does.
LEMMA NativeKept ==
  ASSUME AInv, NEW p \in Profiles, Native(p)
  PROVE  AInv'
<1>1. CASE Exit(p) \/ Crash(p)
  BY <1>1 DEF AInv, Exit, Crash
<1>2. CASE ~Exit(p) /\ ~Crash(p)
  BY <1>2, PostKept, ContextKept, BootKept, DispatchKept, CreateKept, OpenPopupKept, ObserveKept, LeaveKept,
     StayKept DEF Native
<1> QED BY <1>1, <1>2

\* The parent sends a request: any but the end of input.
LEMMA AskKept ==
  ASSUME AInv, NEW p \in Profiles, NEW op \in {"open", "shutdown"}, NEW id \in Nat \ {0},
         NEW key \in Keys \cup {None}, op = "open" => key \in Keys, Ask(p, op, id, key)
  PROVE  AInv'
<1> DEFINE r == Task(op, id, key)
           q == requests[p]
           w == Append(q, r)
<1>1. r \in Request /\ r.op # "eof"
  BY DEF Task, Request
<1>2. q \in Seq(Request) /\ \A i \in 1..Len(q) : q[i].op # "eof"
  BY DEF AInv
<1>3. requests' = [requests EXCEPT ![p] = w] /\ browser' = browser /\ replies' = replies
  BY DEF Ask
<1> HIDE DEF r, q, Request
<1>4. /\ w \in Seq(Request) /\ Len(q) \in Nat /\ Len(w) = Len(q) + 1
      /\ (\A i \in 1..Len(q) : w[i] = q[i]) /\ w[Len(q) + 1] = r
  BY <1>1, <1>2, AppendProperties, LenProperties
<1> HIDE DEF w
<1>5. \A i \in 1..Len(w) : i \in 1..Len(q) \/ i = Len(q) + 1
  BY <1>4
<1>6. \A i \in 1..Len(w) : w[i].op # "eof"
  BY <1>1, <1>2, <1>4, <1>5
<1>7. \A o \in Profiles : requests'[o] = IF o = p THEN w ELSE requests[o]
  BY <1>3 DEF AInv
<1> QED BY <1>3, <1>4, <1>6, <1>7 DEF AInv

\* A fresh browser has asked, answered and recorded nothing.
LEMMA AloneBegins == Init => AInv
<1> SUFFICES ASSUME Init PROVE AInv
  OBVIOUS
<1>1. ASSUME NEW p \in Profiles
      PROVE  Good(browser[p], <<>>)
  <2>1. PICK k \in Keys : browser[p] = NewBrowser(k)
    BY DEF Init
  <2> DEFINE b == NewBrowser(k)
  <2>2. /\ b.boot = k /\ b.windows = <<>> /\ b.creating = {} /\ b.lastId = 0 /\ b.shutdown = NoId /\ b.chain = 0
        /\ b.failed = FALSE /\ b.quitting = FALSE /\ b.born = 0 /\ b.tasks = <<>> /\ b.ended = FALSE
    BY DEF NewBrowser
  <2>3. b \in Browser
    <3> HIDE DEF Window, Request, Creation
    <3> QED BY DEF NewBrowser, Browser
  <2> HIDE DEF b
  <2>4. NoId # 0 /\ <<>> \in Seq(Reply)
    BY DEF NoId
  <2>5. OldestOnly(b) /\ EmptyAtQuit(b) /\ OnceEach(<<>>) /\ Known(b, <<>>)
    BY <2>2 DEF OldestOnly, EmptyAtQuit, OnceEach, Known, Stopped
  <2>6. Making(b, <<>>) /\ Stopping(b, <<>>) /\ OneEnd(b, <<>>)
    BY <2>2, <2>4, FS_EmptySet DEF Making, Stopping, OneEnd, Answered
  <2> QED BY <2>1, <2>3, <2>4, <2>5, <2>6 DEF Good, b
<1>2. browser \in [Profiles -> Browser]
  <2>1. \A p \in Profiles : browser[p] \in Browser
    BY <1>1 DEF Good
  <2> HIDE DEF Browser
  <2> QED BY <2>1 DEF Init
<1>3. /\ requests \in [Profiles -> Seq(Request)] /\ replies \in [Profiles -> Seq(Reply)]
      /\ \A p \in Profiles : requests[p] = <<>> /\ replies[p] = <<>>
  <2> HIDE DEF Request, Reply
  <2> QED BY DEF Init
<1> QED BY <1>1, <1>2, <1>3 DEF AInv

\* Every step of the browsers and their parents keeps the invariant.
LEMMA AloneKept == AInv /\ [Next]_vars => AInv'
<1> SUFFICES ASSUME AInv, [Next]_vars PROVE AInv'
  OBVIOUS
<1>1. CASE UNCHANGED vars
  BY <1>1 DEF vars, browserVars, AInv
<1>2. ASSUME NEW p \in Profiles, Native1(p)
      PROVE  AInv'
  BY <1>2, NativeKept DEF Native1
<1>3. ASSUME NEW p \in Profiles, HangUp(p)
      PROVE  AInv'
  BY <1>3 DEF HangUp, AInv
<1>4. ASSUME NEW p \in Profiles, NEW id \in 1..(MaxRequests + 1), Ask(p, "shutdown", id, None)
      PROVE  AInv'
  <2>1. id \in Nat \ {0}
    BY AloneAssumption
  <2> QED BY <1>4, <2>1, AskKept
<1>5. ASSUME NEW p \in Profiles, NEW id \in 1..(MaxRequests + 1), NEW k \in Keys, Ask(p, "open", id, k)
      PROVE  AInv'
  <2>1. id \in Nat \ {0}
    BY AloneAssumption
  <2> QED BY <1>5, <2>1, AskKept
<1> QED BY <1>1, <1>2, <1>3, <1>4, <1>5 DEF Next

-----------------------------------------------------------------------------
(* Theorems *)

\* The invariant of a browser under any parent, for any number of profiles, screens and requests.
THEOREM AloneInvariance == Spec => []AInv
BY AloneBegins, AloneKept, PTL DEF Spec

\* A browser that quits holds no window and creates none, whatever was asked, opened or closed before
\* (process_main.rs, the assertion after run_message_loop).
THEOREM QuitsWithNothingOpen == Spec => []QuitsEmpty
<1>1. AInv => QuitsEmpty
  <2> SUFFICES ASSUME AInv, NEW p \in Profiles, browser[p].quitting
               PROVE  browser[p].windows = <<>> /\ Pending(browser[p]) = 0
    BY DEF QuitsEmpty
  <2>1. EmptyAtQuit(browser[p])
    BY DEF AInv, Good
  <2>2. PICK b : b = browser[p]
    OBVIOUS
  <2>3. b.windows = <<>> /\ b.boot = None /\ b.creating = {}
    BY <2>1, <2>2 DEF EmptyAtQuit
  <2>4. Pending(b) = 0
    BY <2>3, FS_EmptySet DEF Pending
  <2> QED BY <2>2, <2>3, <2>4
<1> QED BY <1>1, AloneInvariance, PTL

\* No request gets two final answers, and none follows stopped (process_main.rs:117-123).
THEOREM AnswersEachOnce == Spec => []AnsweredOnce
<1>1. AInv => AnsweredOnce
  <2> SUFFICES ASSUME AInv, NEW p \in Profiles, NEW i \in DOMAIN replies[p], NEW j \in DOMAIN replies[p],
                      i < j, replies[p][i].event \in Final, replies[p][j].event \in Final
               PROVE  /\ replies[p][i].id # replies[p][j].id
                      /\ replies[p][i].event = "stopped" => replies[p][j].event = "stopped"
    BY DEF AnsweredOnce
  <2>1. OnceEach(replies[p]) /\ replies[p] \in Seq(Reply)
    BY DEF AInv, Good
  <2>2. DOMAIN replies[p] = 1..Len(replies[p])
    BY <2>1, LenProperties
  <2> QED BY <2>1, <2>2 DEF OnceEach
<1> QED BY <1>1, AloneInvariance, PTL

\* An ordinary shutdown asks windows one at a time, the oldest first (process_main.rs:146).
THEOREM AsksTheOldest == Spec => []OnlyOldestAsked
<1>1. AInv => OnlyOldestAsked
  <2> SUFFICES ASSUME AInv, NEW p \in Profiles, NEW i \in DOMAIN browser[p].windows,
                      browser[p].windows[i].watch # "idle"
               PROVE  i = 1
    BY DEF OnlyOldestAsked
  <2>1. OldestOnly(browser[p]) /\ browser[p].windows \in Seq(Window)
    BY DEF AInv, Good, Browser
  <2> QED BY <2>1 DEF OldestOnly
<1> QED BY <1>1, AloneInvariance, PTL
-----------------------------------------------------------------------------
(* A recorded shutdown is pursued *)

\* Windows have ids of their own, given as they are born.
Apart(b)  == /\ \A i \in 1..Len(b.windows) : b.windows[i].id \in 1..b.born
             /\ \A i, j \in 1..Len(b.windows) : b.windows[i].id = b.windows[j].id => i = j
\* The loss of the parent forces every window, the later ones too.
Lost(b)   == b.failed => \A i \in 1..Len(b.windows) : b.windows[i].forced
\* An ordinary shutdown has nothing pending, and the oldest window is the one it closes.
Going(b)  == b.shutdown # NoId /\ ~b.quitting /\ ~b.failed
             => /\ b.boot = None /\ b.creating = {}
                /\ b.windows # <<>> => /\ b.chain = b.windows[1].id
                                       /\ b.windows[1].watch \in {"pending", "ready", "missed"}
\* A shutdown waits for something.
Held(b)   == b.shutdown # NoId /\ ~b.quitting => b.windows # <<>> \/ b.boot # None \/ b.creating # {}
\* Before, and after, the browser has looked whether it may quit.
Firm(b)   == Apart(b) /\ Lost(b) /\ Going(b)
Steady(b) == Firm(b) /\ Held(b)

\* All browsers are.
SInv == \A p \in Profiles : Steady(browser[p])

\* Nothing else about a browser matters.
LEMMA SteadySame ==
  ASSUME NEW b, NEW c, c.boot = b.boot, c.windows = b.windows, c.creating = b.creating, c.shutdown = b.shutdown,
         c.chain = b.chain, c.failed = b.failed, c.quitting = b.quitting, c.born = b.born
  PROVE  (Firm(b) => Firm(c)) /\ (Steady(b) => Steady(c))
  BY DEF Steady, Firm, Apart, Lost, Going, Held

\* A browser that records no shutdown has none to pursue.
LEMMA Unrecorded ==
  ASSUME NEW b, b.shutdown = NoId, Apart(b), Lost(b)
  PROVE  Steady(b)
  BY DEF Steady, Firm, Going, Held

\* What an answer leaves of the browser.
LEMMA AnswerKeeps ==
  ASSUME NEW b, NEW o, NEW event, NEW id, NEW key
  PROVE  Answer(Eff(b, o), event, id, key).b = b
  BY EffAnswer, EffParts

\* A browser that quits, or waits for a window or a creation.
LEMMA MaybeQuitSteady ==
  ASSUME NEW s, NEW b, Good(b, s), Firm(b), NEW o
  PROVE  Steady(MaybeQuit(Eff(b, o)).b)
<1> DEFINE c == [b EXCEPT !.quitting = TRUE]
           f == MaybeQuit(Eff(b, o))
<1>1. /\ c.boot = b.boot /\ c.windows = b.windows /\ c.creating = b.creating /\ c.shutdown = b.shutdown
      /\ c.chain = b.chain /\ c.failed = b.failed /\ c.quitting /\ c.born = b.born
  <2> HIDE DEF Window, Request, Creation
  <2> QED BY DEF Good, Browser
<1> HIDE DEF c
<1>2. Steady(c)
  BY <1>1 DEF Steady, Firm, Apart, Lost, Going, Held
<1>3. \/ f = Eff(b, o) /\ ~(b.windows = <<>> /\ Pending(b) = 0)
      \/ f = Eff(c, o)
      \/ f = Answer(Eff(c, o), "stopped", c.shutdown, None)
  BY <1>1, MaybeQuitIs DEF c
<1> HIDE DEF f
<1>4. f.b = c \/ (f.b = b /\ ~(b.windows = <<>> /\ Pending(b) = 0))
  BY <1>3, EffParts, AnswerKeeps
<1>5. b.boot = None /\ b.creating = {} => Pending(b) = 0
  BY FS_EmptySet DEF Pending
<1>6. ~(b.windows = <<>> /\ Pending(b) = 0) => Steady(b)
  BY <1>5 DEF Steady, Held
<1> QED BY <1>2, <1>4, <1>6 DEF f

\* A refused shutdown is recorded no longer.
LEMMA CloseUnavailableSteady ==
  ASSUME NEW s, NEW b, Good(b, s), Apart(b), Lost(b)
  PROVE  Steady(CloseUnavailable(Eff(b, <<>>)).b)
<1> DEFINE c == [b EXCEPT !.shutdown = NoId]
           f == CloseUnavailable(Eff(b, <<>>))
<1>1. c.shutdown = NoId /\ c.windows = b.windows /\ c.failed = b.failed /\ c.born = b.born
  <2> HIDE DEF Window, Request, Creation
  <2> QED BY DEF Good, Browser
<1>2. [Eff(b, <<>>) EXCEPT !.b.shutdown = NoId] = Eff(c, <<>>)
  BY DEF Eff
<1> HIDE DEF c
<1>3. f = IF b.shutdown = NoId THEN Eff(b, <<>>) ELSE Answer(Eff(c, <<>>), "error", b.shutdown, None)
  BY <1>2, EffParts DEF CloseUnavailable
<1> HIDE DEF f
<1>4. (b.shutdown = NoId /\ f.b = b) \/ f.b = c
  BY <1>3, EffParts, AnswerKeeps
<1>5. Steady(c)
  BY <1>1, Unrecorded DEF Apart, Lost
<1> QED BY <1>4, <1>5, Unrecorded DEF f

\* The browser with another watch of the oldest window.
Watched(b, v) == [b EXCEPT !.windows[1].watch = v]

\* The oldest window is watched from now on: only its watch changes.
LEMMA WatchSteady ==
  ASSUME NEW s, NEW b, Good(b, s), Apart(b), Lost(b), b.windows # <<>>, NEW v
  PROVE  LET c == Watched(b, v)
         IN  /\ Apart(c) /\ Lost(c) /\ c.windows # <<>> /\ c.windows[1].watch = v /\ c.windows[1].id = b.windows[1].id
             /\ c.boot = b.boot /\ c.creating = b.creating /\ c.shutdown = b.shutdown /\ c.chain = b.chain
             /\ c.failed = b.failed /\ c.quitting = b.quitting
<1> DEFINE w == b.windows
           y == [w EXCEPT ![1].watch = v]
           c == Watched(b, v)
           d == [b EXCEPT !.windows = y]
<1>1. w \in Seq(Window) /\ Len(w) \in Nat /\ 1 \in 1..Len(w) /\ w # <<>> /\ DOMAIN w = 1..Len(w)
  BY DEF Good, Browser
<1>2. c = d
  BY DEF Good, Browser, Watched
<1>3. \A i \in 1..Len(w) : w[i] \in Window
  BY <1>1, ElementOfSeq
<1>4. /\ DOMAIN y = 1..Len(w) /\ Len(y) = Len(w) /\ y[1].watch = v
      /\ \A i \in 1..Len(w) : y[i].id = w[i].id /\ y[i].forced = w[i].forced
  <2>1. DOMAIN y = 1..Len(w) /\ Len(y) = Len(w)
    BY <1>1
  <2>2. y[1].watch = v
    BY <1>1, <1>3 DEF Window
  <2>3. \A i \in 1..Len(w) : y[i].id = w[i].id /\ y[i].forced = w[i].forced
    BY <1>1, <1>3 DEF Window
  <2> QED BY <2>1, <2>2, <2>3
<1>5. y # <<>>
  BY <1>1, <1>4
<1> HIDE DEF y
<1>6. /\ c.windows = y /\ c.boot = b.boot /\ c.creating = b.creating /\ c.shutdown = b.shutdown /\ c.chain = b.chain
      /\ c.failed = b.failed /\ c.quitting = b.quitting /\ c.born = b.born
  <2> HIDE DEF Window, Request, Creation
  <2> QED BY <1>2 DEF Good, Browser
<1> HIDE DEF c
<1>7. Apart(c) /\ Lost(c)
  BY <1>4, <1>6 DEF Apart, Lost
<1> QED BY <1>1, <1>4, <1>5, <1>6, <1>7 DEF c

\* The oldest window is asked: it is observed from now on, or was before, or the shutdown is refused.
LEMMA RequestCloseSteady ==
  ASSUME NEW s, NEW b, Good(b, s), Apart(b), Lost(b), b.windows # <<>>,
         ~b.failed => b.boot = None /\ b.creating = {} /\ b.chain = b.windows[1].id
  PROVE  Steady(RequestClose(Eff(b, <<>>), Head(b.windows).id).b)
<1> DEFINE f == RequestClose(Eff(b, <<>>), Head(b.windows).id)
           c == Watched(b, "pending")
           d == Watched(b, "ready")
<1>1. b.windows \in Seq(Window) /\ b.windows[1].watch \in Watches
  <2>1. b.windows \in Seq(Window)
    BY DEF Good, Browser
  <2>2. b.windows[1] \in Window
    BY <2>1
  <2> QED BY <2>1, <2>2 DEF Window
<1>2. f = IF b.windows[1].watch = "idle" THEN Eff(c, <<>>)
          ELSE IF b.windows[1].watch = "failed" THEN CloseUnavailable(Eff(b, <<>>))
          ELSE IF b.windows[1].watch = "missed" THEN Eff(d, <<>>) ELSE Eff(b, <<>>)
  BY <1>1, RequestCloseIs DEF Watched
<1>3. /\ Apart(c) /\ Lost(c) /\ c.windows # <<>> /\ c.windows[1].watch = "pending"
      /\ c.windows[1].id = b.windows[1].id /\ c.boot = b.boot /\ c.creating = b.creating /\ c.shutdown = b.shutdown
      /\ c.chain = b.chain /\ c.failed = b.failed /\ c.quitting = b.quitting
  BY WatchSteady
<1>4. /\ Apart(d) /\ Lost(d) /\ d.windows # <<>> /\ d.windows[1].watch = "ready"
      /\ d.windows[1].id = b.windows[1].id /\ d.boot = b.boot /\ d.creating = b.creating /\ d.shutdown = b.shutdown
      /\ d.chain = b.chain /\ d.failed = b.failed /\ d.quitting = b.quitting
  BY WatchSteady
<1> HIDE DEF c, d, f
<1>5. Steady(c) /\ Steady(d)
  BY <1>3, <1>4 DEF Steady, Firm, Going, Held
<1>6. Steady(CloseUnavailable(Eff(b, <<>>)).b)
  BY CloseUnavailableSteady
<1>7. CASE b.windows[1].watch \in {"pending", "ready"}
  <2>1. Steady(b)
    BY <1>7 DEF Steady, Firm, Going, Held
  <2> QED BY <1>2, <1>7, <2>1, EffParts DEF f
<1>8. CASE b.windows[1].watch \in {"idle", "failed", "missed"}
  BY <1>2, <1>5, <1>6, <1>8, EffParts DEF f
<1> QED BY <1>1, <1>7, <1>8 DEF Watches

\* The window that was being closed has gone: the next one is asked.
LEMMA NextToCloseSteady ==
  ASSUME NEW s, NEW b, Good(b, s), ~b.quitting, Apart(b), Lost(b), NEW closed,
         b.shutdown # NoId /\ ~b.failed
         => /\ b.boot = None /\ b.creating = {}
            /\ b.chain # closed => b.windows # <<>> /\ b.chain = b.windows[1].id
                                   /\ b.windows[1].watch \in {"pending", "ready", "missed"}
  PROVE  Firm(NextToClose(Eff(b, <<>>), closed).b)
<1> DEFINE next == IF b.windows = <<>> THEN 0 ELSE Head(b.windows).id
           c == [b EXCEPT !.chain = next]
           f == NextToClose(Eff(b, <<>>), closed)
<1>1. b.windows \in Seq(Window) /\ b.born \in Nat
  BY DEF Good, Browser
<1>2. b.windows # <<>> => next = b.windows[1].id /\ next # 0 /\ next \in Nat /\ Head(b.windows).id = next
  <2> SUFFICES ASSUME b.windows # <<>>
               PROVE  next = b.windows[1].id /\ next # 0 /\ next \in Nat /\ Head(b.windows).id = next
    OBVIOUS
  <2>1. Head(b.windows) = b.windows[1] /\ 1 \in 1..Len(b.windows)
    <3> HIDE DEF Window
    <3> QED BY <1>1
  <2>2. b.windows[1].id \in 1..b.born
    BY <2>1 DEF Apart
  <2>3. next = b.windows[1].id /\ Head(b.windows).id = next
    BY <2>1
  <2> HIDE DEF next
  <2> QED BY <1>1, <2>2, <2>3
<1>3. b.windows = <<>> => next = 0
  OBVIOUS
<1> HIDE DEF next
<1>4. [Eff(b, <<>>) EXCEPT !.b.chain = next] = Eff(c, <<>>)
  BY DEF Eff
<1>5. /\ c.windows = b.windows /\ c.boot = b.boot /\ c.creating = b.creating /\ c.shutdown = b.shutdown
      /\ c.chain = next /\ c.failed = b.failed /\ c.quitting = b.quitting /\ c.born = b.born
  <2> HIDE DEF Window, Request, Creation
  <2> QED BY DEF Good, Browser
<1>6. Good(c, s)
  BY <1>2, <1>3, ChainSet
<1> HIDE DEF c
<1>7. f = IF b.shutdown = NoId \/ b.failed \/ b.chain # closed THEN Eff(b, <<>>)
          ELSE IF next = 0 THEN Eff(c, <<>>) ELSE RequestClose(Eff(c, <<>>), next)
  <2>1. Eff(b, <<>>).b = b
    BY EffParts
  <2> QED BY <1>4, <2>1 DEF NextToClose, next
<1> HIDE DEF f
<1>8. CASE b.shutdown = NoId \/ b.failed \/ b.chain # closed
  <2>1. Firm(b)
    BY <1>8 DEF Firm, Going
  <2> QED BY <1>7, <1>8, <2>1, EffParts DEF f
<1>9. CASE ~(b.shutdown = NoId \/ b.failed \/ b.chain # closed) /\ b.windows = <<>>
  <2>1. Firm(c)
    BY <1>5, <1>9 DEF Firm, Going, Apart, Lost
  <2> QED BY <1>3, <1>7, <1>9, <2>1, EffParts DEF f
<1>10. CASE ~(b.shutdown = NoId \/ b.failed \/ b.chain # closed) /\ b.windows # <<>>
  <2>1. f = RequestClose(Eff(c, <<>>), Head(c.windows).id)
    BY <1>2, <1>5, <1>7, <1>10
  <2>2. Apart(c) /\ Lost(c) /\ c.windows # <<>> /\ c.boot = None /\ c.creating = {} /\ c.chain = c.windows[1].id
    BY <1>2, <1>5, <1>10 DEF Apart, Lost
  <2>3. Steady(f.b)
    BY <1>6, <2>1, <2>2, RequestCloseSteady
  <2> QED BY <2>3 DEF Steady, f
<1> QED BY <1>8, <1>9, <1>10

\* Every window is forced once the parent is lost.
LEMMA ForcedSteady ==
  ASSUME NEW s, NEW b, Good(b, s), Apart(b)
  PROVE  LET c == [b EXCEPT !.windows = Forced(@)]
         IN  /\ Apart(c) /\ Lost(c) /\ c.failed = b.failed /\ c.shutdown = b.shutdown
<1> DEFINE w == b.windows
           y == Forced(w)
           c == [b EXCEPT !.windows = Forced(@)]
<1>1. w \in Seq(Window) /\ Len(w) \in Nat /\ DOMAIN w = 1..Len(w) /\ \A i \in 1..Len(w) : w[i] \in Window
  BY DEF Good, Browser
<1>2. DOMAIN y = 1..Len(w) /\ \A i \in 1..Len(w) : y[i].id = w[i].id /\ y[i].forced
  BY <1>1 DEF Forced, Window
<1>3. Len(y) = Len(w)
  <2>1. y \in [1..Len(w) -> {y[i] : i \in 1..Len(w)}]
    BY <1>1, <1>2 DEF Forced
  <2> QED BY <1>1, <2>1
<1> HIDE DEF y
<1>4. /\ c.windows = y /\ c.failed = b.failed /\ c.shutdown = b.shutdown /\ c.born = b.born
  <2> HIDE DEF Window, Request, Creation
  <2> QED BY DEF Good, Browser, y
<1> HIDE DEF c
<1>5. Apart(c) /\ Lost(c)
  BY <1>2, <1>3, <1>4 DEF Apart, Lost
<1> QED BY <1>4, <1>5 DEF c

\* A shutdown is pursued from the moment it is recorded.
LEMMA CloseAllSteady ==
  ASSUME NEW s \in Seq(Reply), NEW b, Good(b, s), ~b.quitting, Apart(b), Lost(b), NEW id \in Nat,
         NEW lost \in BOOLEAN, id <= b.lastId, ~Answered(s, id), \A c \in b.creating : c.id # id,
         id = 0 => b.ended /\ \A i \in 1..Len(b.tasks) : b.tasks[i].op # "eof",
         ~lost => b.boot = None /\ b.creating = {}
  PROVE  Steady(CloseAll(Eff(b, <<>>), id, lost).b)
<1> DEFINE v == b.failed \/ lost
           a == [b EXCEPT !.shutdown = id]
           c == [a EXCEPT !.failed = v]
           d == [c EXCEPT !.chain = Head(b.windows).id]
           g == [c EXCEPT !.windows = Forced(@)]
           f == CloseAll(Eff(b, <<>>), id, lost)
<1>1. f = MaybeQuit(IF lost THEN Eff(g, <<>>) ELSE IF b.windows = <<>> THEN Eff(c, <<>>)
                    ELSE RequestClose(Eff(d, <<>>), Head(b.windows).id))
  <2>1. b \in Browser
    BY DEF Good
  <2> QED BY <2>1, CloseAllStages
<1>2. v \in BOOLEAN /\ b.windows \in Seq(Window) /\ id # NoId
  BY DEF Good, Browser, NoId
<1>3. Good(a, s) /\ ~a.quitting
  BY ShutdownSet
<1>4. /\ a.windows = b.windows /\ a.boot = b.boot /\ a.creating = b.creating /\ a.shutdown = id
      /\ a.chain = b.chain /\ a.failed = b.failed /\ a.quitting = b.quitting /\ a.born = b.born
  <2> HIDE DEF Window, Request, Creation
  <2> QED BY DEF Good, Browser
<1> HIDE DEF a, v, f
<1>5. Good(c, s) /\ ~c.quitting
  BY <1>2, <1>3, FailedSet
<1>6. /\ c.windows = b.windows /\ c.boot = b.boot /\ c.creating = b.creating /\ c.shutdown = id
      /\ c.chain = b.chain /\ c.failed = v /\ c.quitting = b.quitting /\ c.born = b.born
  <2> HIDE DEF Window, Request, Creation
  <2> QED BY <1>3, <1>4 DEF Good, Browser
<1> HIDE DEF c
<1>7. Apart(c)
  BY <1>6 DEF Apart
<1>8. CASE lost
  <2>1. Good(g, s) /\ ~g.quitting
    BY <1>5, ForcedAre
  <2>2. Apart(g) /\ Lost(g) /\ g.failed
    BY <1>5, <1>6, <1>7, <1>8, ForcedSteady DEF v
  <2> HIDE DEF g
  <2>3. Firm(g)
    BY <2>2 DEF Firm, Going
  <2>4. f = MaybeQuit(Eff(g, <<>>))
    BY <1>1, <1>8
  <2> QED BY <2>1, <2>3, <2>4, MaybeQuitSteady DEF f
<1>9. Lost(c) \/ lost
  BY <1>6 DEF Lost, v
<1>10. CASE ~lost /\ b.windows = <<>>
  <2>1. Firm(c)
    BY <1>6, <1>7, <1>9, <1>10 DEF Firm, Going
  <2>2. f = MaybeQuit(Eff(c, <<>>))
    BY <1>1, <1>10
  <2> QED BY <1>5, <2>1, <2>2, MaybeQuitSteady DEF f
<1>11. CASE ~lost /\ b.windows # <<>>
  <2>1. Head(b.windows) = b.windows[1] /\ b.windows[1].id \in Nat
    <3>1. Head(b.windows) = b.windows[1] /\ Head(b.windows) \in Window
      BY <1>2, <1>11
    <3> QED BY <3>1 DEF Window
  <2>2. Good(d, s) /\ ~d.quitting
    BY <1>5, <2>1, ChainSet
  <2>3. /\ d.windows = b.windows /\ d.boot = b.boot /\ d.creating = b.creating /\ d.shutdown = id
        /\ d.chain = b.windows[1].id /\ d.failed = v /\ d.born = b.born
    <3> HIDE DEF Window, Request, Creation
    <3> QED BY <1>5, <1>6, <2>1 DEF Good, Browser
  <2> HIDE DEF d
  <2>4. Apart(d) /\ Lost(d)
    BY <1>6, <1>7, <1>9, <1>11, <2>3 DEF Apart, Lost
  <2>5. PICK e : e = RequestClose(Eff(d, <<>>), Head(d.windows).id)
    OBVIOUS
  <2>6. Steady(e.b) /\ GoodEff(s, e)
    BY <1>11, <2>2, <2>3, <2>4, <2>5, RequestCloseSteady, RequestCloseGood
  <2>7. f = MaybeQuit(Eff(e.b, e.out))
    BY <1>1, <1>11, <2>3, <2>5, <2>6 DEF GoodEff
  <2>8. Good(e.b, s \o e.out) /\ Firm(e.b)
    BY <2>6 DEF GoodEff, Steady
  <2> QED BY <2>7, <2>8, MaybeQuitSteady DEF f
<1> QED BY <1>8, <1>10, <1>11

\* No shutdown is recorded when a screen is asked for, and none comes of it.
LEMMA OpenScreenSteady ==
  ASSUME NEW s, NEW b, Good(b, s), b.shutdown = NoId, Apart(b), Lost(b), NEW id, NEW key, NEW rejected
  PROVE  Steady(OpenScreen(Eff(b, <<>>), id, key, rejected).b)
<1> DEFINE c == [b EXCEPT !.creating = @ \cup {[id |-> id, key |-> key]}]
           d == [b EXCEPT !.creating = @ \cup {[id |-> id, key |-> None]}]
           f == OpenScreen(Eff(b, <<>>), id, key, rejected)
<1>1. /\ [Eff(b, <<>>) EXCEPT !.b.creating = @ \cup {[id |-> id, key |-> key]}] = Eff(c, <<>>)
      /\ [Eff(b, <<>>) EXCEPT !.b.creating = @ \cup {[id |-> id, key |-> None]}] = Eff(d, <<>>)
  BY EffCreating
<1>2. /\ c.shutdown = NoId /\ c.windows = b.windows /\ c.failed = b.failed /\ c.born = b.born
      /\ d.shutdown = NoId /\ d.windows = b.windows /\ d.failed = b.failed /\ d.born = b.born
  <2> HIDE DEF Window, Request, Creation
  <2> QED BY DEF Good, Browser
<1> HIDE DEF c, d
<1>3. \/ f = Answer(Eff(b, <<>>), "opened", id, key)
      \/ f = Answer(Eff(b, <<>>), "error", id, None)
      \/ f = Answer(Eff(d, <<>>), "error", id, None)
      \/ f = Eff(c, <<>>)
  BY <1>1 DEF OpenScreen
<1> HIDE DEF f
<1>4. f.b = b \/ f.b = c \/ f.b = d
  BY <1>3, AnswerKeeps, EffParts
<1>5. Steady(b) /\ Steady(c) /\ Steady(d)
  BY <1>2, Unrecorded DEF Apart, Lost
<1> QED BY <1>4, <1>5 DEF f

\* A task of the UI thread.
LEMMA HandleSteady ==
  ASSUME NEW s \in Seq(Reply), NEW b, Good(b, s), Steady(b), NEW r \in Request, NEW rejected \in BOOLEAN,
         r.op = "eof" => /\ b.ended /\ ~Answered(s, 0)
                         /\ \A i \in 1..Len(b.tasks) : b.tasks[i].op # "eof"
  PROVE  Steady(Handle(b, r, rejected).b)
<1> DEFINE f == Handle(b, r, rejected)
           c == [b EXCEPT !.lastId = r.id]
<1>0. /\ r.id \in Nat /\ r.op \in {"open", "shutdown", "eof"} /\ (r.op = "eof" <=> r.id = 0)
      /\ b.lastId \in Nat /\ Effect(b) = Eff(b, <<>>)
  BY EffParts DEF Request, Good, Browser
<1>1. Eff(b, <<>>).b = b /\ Apart(b) /\ Lost(b)
  BY EffParts DEF Steady, Firm
<1>2. CASE r.op = "eof"
  <2>1. f = IF b.shutdown = NoId /\ ~b.quitting THEN CloseAll(Eff(b, <<>>), 0, TRUE) ELSE Eff(b, <<>>)
    BY <1>0, <1>2 DEF Handle
  <2>2. ~b.quitting => Steady(CloseAll(Eff(b, <<>>), 0, TRUE).b)
    <3>1. \A d \in b.creating : d.id # 0
      <4>1. \A d \in b.creating : d \in Creation
        BY DEF Good, Browser
      <4> QED BY <4>1 DEF Creation
    <3>2. 0 <= b.lastId
      BY <1>0
    <3> QED BY <1>1, <1>2, <3>1, <3>2, CloseAllSteady
  <2> HIDE DEF f
  <2> QED BY <1>1, <2>1, <2>2 DEF f
<1>3. CASE r.op # "eof" /\ Admission(b, r) = "refuse"
  <2>1. f = Answer(Eff(b, <<>>), "error", r.id, None)
    BY <1>0, <1>3 DEF Handle
  <2> QED BY <2>1, AnswerKeeps
<1>4. CASE r.op # "eof" /\ Admission(b, r) # "refuse"
  <2>1. /\ r.id > b.lastId /\ b.shutdown = NoId
        /\ \/ ~b.quitting /\ Admission(b, r) = "run"
           \/ b.quitting /\ Admission(b, r) = "stopped"
    BY <1>0, <1>4 DEF Admission
  <2>2. /\ Good(c, s) /\ c.lastId = r.id /\ c.windows = b.windows /\ c.shutdown = b.shutdown
        /\ c.quitting = b.quitting /\ c.creating = b.creating /\ c.boot = b.boot
        /\ ~Answered(s, r.id) /\ (\A d \in c.creating : d.id # r.id) /\ r.id # 0
    BY <1>0, <2>1, LastIdSet
  <2>3. c.failed = b.failed /\ c.born = b.born
    <3> HIDE DEF Window, Request, Creation
    <3> QED BY DEF Good, Browser
  <2>4. [Eff(b, <<>>) EXCEPT !.b.lastId = r.id] = Eff(c, <<>>)
    BY DEF Eff
  <2> HIDE DEF c
  <2>5. Apart(c) /\ Lost(c)
    BY <1>1, <2>2, <2>3 DEF Apart, Lost
  <2>6. Steady(c)
    BY <2>1, <2>2, <2>5, Unrecorded
  <2>7. CASE Admission(b, r) = "stopped"
    <3> DEFINE n == r.id
               d == [c EXCEPT !.shutdown = n]
    <3>1. [Eff(c, <<>>) EXCEPT !.b.shutdown = n] = Eff(d, <<>>)
      BY DEF Eff
    <3>2. f = Answer(Eff(d, <<>>), "stopped", n, None)
      <4> HIDE DEF d
      <4> QED BY <1>0, <1>4, <2>4, <2>7, <3>1 DEF Handle
    <3> HIDE DEF n
    <3>3. d.quitting /\ d.windows = c.windows /\ d.failed = c.failed /\ d.born = c.born
      <4> HIDE DEF Window, Request, Creation
      <4> QED BY <2>1, <2>2, <2>7 DEF Good, Browser
    <3> HIDE DEF d
    <3>4. Steady(d)
      BY <2>5, <3>3 DEF Steady, Firm, Going, Held, Apart, Lost
    <3>5. f.b = d
      BY <3>2, AnswerKeeps
    <3> QED BY <3>4, <3>5
  <2>8. CASE Admission(b, r) = "run"
    <3>1. /\ ~c.quitting /\ c.shutdown = NoId /\ r.id <= c.lastId /\ r.id \in Nat \ {0}
      BY <1>0, <2>1, <2>2, <2>8
    <3>2. \/ r.op = "open" /\ f = OpenScreen(Eff(c, <<>>), r.id, r.key, rejected)
          \/ f = Answer(Eff(c, <<>>), "closeBlocked", r.id, None)
          \/ f = CloseAll(Eff(c, <<>>), r.id, FALSE) /\ ~(Pending(b) > 0)
      BY <1>0, <1>4, <2>4, <2>8 DEF Handle
    <3> HIDE DEF f
    <3>3. CASE r.op = "open" /\ f = OpenScreen(Eff(c, <<>>), r.id, r.key, rejected)
      <4>1. Steady(OpenScreen(Eff(c, <<>>), r.id, r.key, rejected).b)
        BY <2>2, <2>5, <3>1, OpenScreenSteady
      <4> QED BY <3>3, <4>1 DEF f
    <3>4. CASE f = Answer(Eff(c, <<>>), "closeBlocked", r.id, None)
      <4>1. Answer(Eff(c, <<>>), "closeBlocked", r.id, None).b = c
        BY AnswerKeeps
      <4> QED BY <2>6, <3>4, <4>1 DEF f
    <3>5. CASE f = CloseAll(Eff(c, <<>>), r.id, FALSE) /\ ~(Pending(b) > 0)
      <4>1. Pending(b) = 0
        <5>1. IsFiniteSet(b.creating)
          BY DEF Good, Making
        <5>2. Cardinality(b.creating) \in Nat
          BY <5>1, FS_CardinalityType
        <5> QED BY <3>5, <5>2 DEF Pending
      <4>2. c.creating = {} /\ c.boot = None
        BY <2>2, <4>1, NoPending
      <4>3. Steady(CloseAll(Eff(c, <<>>), r.id, FALSE).b)
        BY <2>2, <2>5, <3>1, <4>2, CloseAllSteady
      <4> QED BY <3>5, <4>3 DEF f
    <3> QED BY <3>2, <3>3, <3>4, <3>5
  <2> QED BY <2>1, <2>7, <2>8
<1> QED BY <1>2, <1>3, <1>4

\* A window has gone: if it was the one the shutdown closed, the next is asked; else that one is still the oldest.
LEMMA GoneSteady ==
  ASSUME NEW s \in Seq(Reply), NEW b, Good(b, s), Steady(b), NEW i \in 1..Len(b.windows)
  PROVE  Steady(Gone(b, i).b)
<1> DEFINE w == b.windows
           v == RemoveAt(w, i)
           c == [b EXCEPT !.windows = v]
<1>1. w \in Seq(Window) /\ Len(w) \in Nat /\ ~b.quitting /\ i \in 1..Len(w)
  BY DEF Good, Browser, EmptyAtQuit
<1> HIDE DEF Window
<1>2. /\ v \in Seq(Window) /\ Len(v) = Len(w) - 1
      /\ \A k \in 1..Len(w) - 1 : v[k] = w[IF k < i THEN k ELSE k + 1]
  BY <1>1, RemovedAt
<1>3. Gone(b, i) = MaybeQuit(NextToClose(Eff(c, <<>>), b.windows[i].id))
  BY EffParts DEF Gone
<1> HIDE DEF v
<1> DEFINE at(k) == IF k < i THEN k ELSE k + 1
<1>4. \A k \in 1..Len(v) : at(k) \in 1..Len(w) /\ at(k) # i /\ v[k] = w[at(k)]
  BY <1>1, <1>2
<1>5. \A k, l \in 1..Len(v) : at(k) = at(l) => k = l
  BY <1>1, <1>2
<1>6. \A k \in 1..Len(v) : v[k].watch # "idle" => k = 1
  <2> SUFFICES ASSUME NEW k \in 1..Len(v), v[k].watch # "idle" PROVE k = 1
    OBVIOUS
  <2>1. at(k) = 1
    BY <1>4 DEF Good, OldestOnly
  <2>2. k \in Nat /\ 1 <= k
    BY <1>1, <1>2
  <2> QED BY <2>1, <2>2
<1>7. Good(c, s) /\ ~c.quitting /\ c.windows = v /\ c.shutdown = b.shutdown
  BY <1>1, <1>2, <1>6, WindowsChange
<1>8. /\ c.boot = b.boot /\ c.creating = b.creating /\ c.chain = b.chain /\ c.failed = b.failed /\ c.born = b.born
  <2> HIDE DEF Request, Creation
  <2> QED BY DEF Good, Browser
<1> HIDE DEF c, at
<1>9. Apart(c) /\ Lost(c)
  <2>1. Apart(b) /\ Lost(b)
    BY DEF Steady, Firm
  <2>2. \A k \in 1..Len(v) : v[k].id \in 1..b.born /\ (b.failed => v[k].forced)
    BY <1>4, <2>1 DEF Apart, Lost
  <2>3. \A k, l \in 1..Len(v) : v[k].id = v[l].id => at(k) = at(l)
    BY <1>4, <2>1 DEF Apart
  <2>4. \A k, l \in 1..Len(v) : v[k].id = v[l].id => k = l
    BY <1>5, <2>3
  <2> QED BY <1>7, <1>8, <2>2, <2>4 DEF Apart, Lost
<1>10. ASSUME c.shutdown # NoId, ~c.failed
       PROVE  /\ c.boot = None /\ c.creating = {}
              /\ c.chain # b.windows[i].id => /\ c.windows # <<>> /\ c.chain = c.windows[1].id
                                              /\ c.windows[1].watch \in {"pending", "ready", "missed"}
  <2>1. Going(b) /\ w # <<>> /\ 1 \in 1..Len(w)
    BY <1>1 DEF Steady, Firm
  <2>2. c.boot = None /\ c.creating = {} /\ b.chain = w[1].id /\ w[1].watch \in {"pending", "ready", "missed"}
    BY <1>1, <1>7, <1>8, <1>10, <2>1 DEF Going
  <2>3. ASSUME c.chain # b.windows[i].id
        PROVE  c.windows # <<>> /\ c.windows[1] = w[1]
    <3>1. i # 1
      BY <1>8, <2>2, <2>3
    <3>2. 1 \in 1..Len(v) /\ v[1] = w[1]
      BY <1>1, <1>2, <3>1
    <3>3. v # <<>>
      BY <3>2
    <3> QED BY <1>7, <3>2, <3>3
  <2> QED BY <1>8, <2>2, <2>3
<1>11. PICK f : f = NextToClose(Eff(c, <<>>), b.windows[i].id)
  OBVIOUS
<1>12. GoodEff(s, f) /\ ~f.b.quitting
  BY <1>7, <1>11, NextToCloseGood
<1>13. Firm(f.b)
  BY <1>7, <1>9, <1>10, <1>11, NextToCloseSteady
<1>14. f = Eff(f.b, f.out) /\ Good(f.b, s \o f.out)
  BY <1>12 DEF GoodEff
<1>15. Steady(MaybeQuit(Eff(f.b, f.out)).b)
  BY <1>13, <1>14, MaybeQuitSteady
<1> QED BY <1>3, <1>11, <1>14, <1>15

\* A new window is the last, and forced when the parent is lost.
LEMMA CreatedSteady ==
  ASSUME NEW s, NEW b, Good(b, s), ~b.quitting, Apart(b), Lost(b), NEW key, NEW id,
         b.shutdown # NoId /\ ~b.failed
         => /\ b.boot = None /\ b.creating = {} /\ b.windows # <<>> /\ b.chain = b.windows[1].id
            /\ b.windows[1].watch \in {"pending", "ready", "missed"}
  PROVE  Steady(Created(b, key, id).b)
<1> DEFINE over == Len(b.windows) + 1 > MaxScreens
           x == [id |-> b.born + 1, key |-> key, watch |-> "idle", forced |-> over \/ b.failed]
           w == Append(b.windows, x)
           d == [[b EXCEPT !.windows = w] EXCEPT !.born = b.born + 1]
           f == Created(b, key, id)
<1>1. f = Eff(d, <<>>) \/ f = Answer(Eff(d, <<>>), "opened", id, key)
  BY CreatedIs
<1>2. b.windows \in Seq(Window) /\ Len(b.windows) \in Nat /\ b.born \in Nat
  BY DEF Good, Browser
<1>3. x.id = b.born + 1 /\ (b.failed => x.forced)
  OBVIOUS
<1> HIDE DEF x, over, f
<1>4. /\ Len(w) = Len(b.windows) + 1 /\ w # <<>>
      /\ (\A i \in 1..Len(b.windows) : w[i] = b.windows[i]) /\ w[Len(b.windows) + 1] = x
  <2>1. x \in {x} \cup Window /\ b.windows \in Seq({x} \cup Window)
    BY <1>2
  <2> HIDE DEF Window
  <2> QED BY <1>2, <2>1, AppendProperties, LenProperties
<1> HIDE DEF w
<1>5. /\ d.windows = w /\ d.boot = b.boot /\ d.creating = b.creating /\ d.shutdown = b.shutdown
      /\ d.chain = b.chain /\ d.failed = b.failed /\ d.quitting = b.quitting /\ d.born = b.born + 1
  <2> HIDE DEF Window, Request, Creation
  <2> QED BY DEF Good, Browser
<1> HIDE DEF d
<1>6. \A i \in 1..Len(w) : i \in 1..Len(b.windows) \/ i = Len(b.windows) + 1
  BY <1>2, <1>4
<1>7. Apart(d)
  <2>1. \A i \in 1..Len(b.windows) : w[i].id \in 1..b.born
    BY <1>4 DEF Apart
  <2>2. \A n \in 1..b.born : n \in 1..b.born + 1 /\ n # b.born + 1
    BY <1>2
  <2>3. \A i \in 1..Len(w) : w[i].id \in 1..b.born + 1
    BY <1>2, <1>3, <1>4, <1>6, <2>1, <2>2
  <2>4. \A i, j \in 1..Len(w) : w[i].id = w[j].id => i = j
    BY <1>3, <1>4, <1>6, <2>1, <2>2 DEF Apart
  <2> QED BY <1>5, <2>3, <2>4 DEF Apart
<1>8. Lost(d)
  BY <1>3, <1>4, <1>5, <1>6 DEF Lost
<1>9. b.windows # <<>> => w[1] = b.windows[1]
  BY <1>2, <1>4
<1>10. Steady(d)
  BY <1>4, <1>5, <1>7, <1>8, <1>9 DEF Steady, Firm, Going, Held
<1>11. f.b = d
  BY <1>1, EffParts, AnswerKeeps
<1> QED BY <1>10, <1>11 DEF f

\* A handler that leaves its browser steady.
LEMMA NowSteady ==
  ASSUME AInv, SInv, NEW p \in Profiles, NEW e, Steady(e.b), Now(p, e)
  PROVE  SInv'
<1>1. browser' = [browser EXCEPT ![p] = e.b] /\ DOMAIN browser = Profiles
  BY DEF Now, AInv
<1>2. ASSUME NEW q \in Profiles
      PROVE  Steady(browser'[q])
  <2>1. browser'[q] = IF q = p THEN e.b ELSE browser[q]
    BY <1>1
  <2> QED BY <2>1 DEF SInv
<1> QED BY <1>2 DEF SInv

\* A posted task changes nothing of a shutdown.
LEMMA PostSteady ==
  ASSUME AInv, SInv, NEW p \in Profiles, Post(p)
  PROVE  SInv'
<1>1. browser \in [Profiles -> Browser] /\ browser[p] \in Browser
  BY DEF AInv
<1>2. ASSUME NEW q \in Profiles
      PROVE  /\ browser'[q].boot = browser[q].boot /\ browser'[q].windows = browser[q].windows
             /\ browser'[q].creating = browser[q].creating /\ browser'[q].shutdown = browser[q].shutdown
             /\ browser'[q].chain = browser[q].chain /\ browser'[q].failed = browser[q].failed
             /\ browser'[q].quitting = browser[q].quitting /\ browser'[q].born = browser[q].born
  <2> DEFINE b == browser[p]
  <2>1. PICK w, over : browser' = [browser EXCEPT ![p] = [b EXCEPT !.tasks = w, !.ended = over]]
    <3>1. CASE browser' = [browser EXCEPT ![p].tasks = Append(@, Head(requests[p]))]
      <4> DEFINE w == Append(b.tasks, Head(requests[p]))
      <4>1. [b EXCEPT !.tasks = w, !.ended = b.ended] = [b EXCEPT !.tasks = w]
        <5> HIDE DEF w, Window, Request, Creation
        <5> QED BY <1>1 DEF Browser
      <4>2. browser' = [browser EXCEPT ![p] = [b EXCEPT !.tasks = w]]
        BY <3>1
      <4>3. browser' = [browser EXCEPT ![p] = [b EXCEPT !.tasks = w, !.ended = b.ended]]
        BY <4>1, <4>2
      <4> HIDE DEF w
      <4> QED BY <4>3
    <3>2. CASE browser' = [browser EXCEPT ![p].tasks = Append(@, Task("eof", 0, None)), ![p].ended = TRUE]
      <4> DEFINE x == Task("eof", 0, None)
                 v == TRUE
                 w == Append(b.tasks, x)
      <4> HIDE DEF x, v
      <4>1. [browser EXCEPT ![p].tasks = Append(@, x), ![p].ended = v]
              = [browser EXCEPT ![p] = [b EXCEPT !.tasks = w, !.ended = v]]
        BY <1>1
      <4>2. browser' = [browser EXCEPT ![p] = [b EXCEPT !.tasks = w, !.ended = v]]
        BY <3>2, <4>1 DEF x, v
      <4> HIDE DEF w
      <4> QED BY <4>2
    <3> QED BY <3>1, <3>2 DEF Post
  <2> DEFINE c == [b EXCEPT !.tasks = w, !.ended = over]
  <2>2. /\ c.boot = b.boot /\ c.windows = b.windows /\ c.creating = b.creating /\ c.shutdown = b.shutdown
        /\ c.chain = b.chain /\ c.failed = b.failed /\ c.quitting = b.quitting /\ c.born = b.born
    <3> HIDE DEF Window, Request, Creation
    <3> QED BY <1>1 DEF Browser
  <2> HIDE DEF c
  <2>3. browser'[q] = IF q = p THEN c ELSE browser[q]
    BY <1>1, <2>1 DEF c
  <2> QED BY <2>2, <2>3
<1>3. \A q \in Profiles : Steady(browser[q])
  BY DEF SInv
<1>4. \A q \in Profiles : Steady(browser'[q])
  BY <1>2, <1>3, SteadySame
<1> QED BY <1>4 DEF SInv

\* The screen the process was started for is opened, or a shutdown has come first.
LEMMA BootSteady ==
  ASSUME AInv, SInv, NEW p \in Profiles, Boot(p)
  PROVE  SInv'
<1> DEFINE b == browser[p]
           s == replies[p]
           c == [b EXCEPT !.boot = None]
<1>1. Good(b, s) /\ s \in Seq(Reply) /\ b.boot # None /\ Steady(b)
  BY DEF AInv, SInv, Boot
<1> HIDE DEF b
<1>2. Good(c, s) /\ ~c.quitting /\ b.boot \in Keys
  BY <1>1, BootSet
<1>3. PICK rejected \in BOOLEAN : Now(p, IF b.shutdown # NoId THEN MaybeQuit(Effect(c))
                                         ELSE Handle(c, Open(1, b.boot), rejected))
  BY DEF Boot, b
<1>4. /\ c.windows = b.windows /\ c.creating = b.creating /\ c.shutdown = b.shutdown /\ c.chain = b.chain
      /\ c.failed = b.failed /\ c.quitting = b.quitting /\ c.born = b.born /\ c.boot = None
  <2> HIDE DEF Window, Request, Creation
  <2> QED BY <1>1 DEF Good, Browser
<1> HIDE DEF c, s
<1>5. Firm(c)
  BY <1>1, <1>4 DEF Steady, Firm, Apart, Lost, Going
<1>6. CASE b.shutdown # NoId
  <2>1. Steady(MaybeQuit(Effect(c)).b)
    BY <1>2, <1>5, EffParts, MaybeQuitSteady
  <2> QED BY <1>3, <1>6, <2>1, NowSteady
<1>7. CASE b.shutdown = NoId
  <2> DEFINE r == Open(1, b.boot)
  <2>1. r \in Request /\ r.op # "eof"
    BY <1>2 DEF Open, Task, Request
  <2> HIDE DEF r
  <2>2. Steady(c)
    BY <1>4, <1>5, <1>7, Unrecorded DEF Firm
  <2>3. Steady(Handle(c, r, rejected).b)
    BY <1>1, <1>2, <2>1, <2>2, HandleSteady
  <2> QED BY <1>3, <1>7, <2>3, NowSteady DEF r
<1> QED BY <1>6, <1>7

\* The oldest task is run.
LEMMA DispatchSteady ==
  ASSUME AInv, SInv, NEW p \in Profiles, Dispatch(p)
  PROVE  SInv'
<1> DEFINE b == browser[p]
           s == replies[p]
<1>1. Good(b, s) /\ s \in Seq(Reply) /\ b.tasks # <<>> /\ Steady(b)
  BY DEF AInv, SInv, Dispatch
<1>2. PICK rejected \in BOOLEAN : Now(p, Handle([b EXCEPT !.tasks = Tail(@)], Head(b.tasks), rejected))
  BY DEF Dispatch
<1> HIDE DEF b, s
<1>3. PICK r, c : /\ r = Head(b.tasks) /\ c = [b EXCEPT !.tasks = Tail(@)] /\ r \in Request /\ Good(c, s)
                  /\ r.op = "eof" => /\ c.ended /\ ~Answered(s, 0)
                                     /\ \A i \in 1..Len(c.tasks) : c.tasks[i].op # "eof"
  BY <1>1, HeadTaken
<1>4. /\ c.boot = b.boot /\ c.windows = b.windows /\ c.creating = b.creating /\ c.shutdown = b.shutdown
      /\ c.chain = b.chain /\ c.failed = b.failed /\ c.quitting = b.quitting /\ c.born = b.born
  <2> HIDE DEF Window, Request, Creation
  <2> QED BY <1>1, <1>3 DEF Good, Browser
<1>5. Steady(c)
  BY <1>1, <1>4, SteadySame
<1>6. Steady(Handle(c, r, rejected).b)
  BY <1>1, <1>3, <1>5, HandleSteady
<1> QED BY <1>2, <1>3, <1>6, NowSteady

\* A window for a creation: an ordinary shutdown waits for none.
LEMMA CreateSteady ==
  ASSUME AInv, SInv, NEW p \in Profiles, Create(p)
  PROVE  SInv'
<1> DEFINE b == browser[p]
           s == replies[p]
<1>1. Good(b, s) /\ s \in Seq(Reply) /\ Steady(b)
  BY DEF AInv, SInv
<1>2. PICK x \in b.creating : x.key # None /\ Now(p, Created([b EXCEPT !.creating = @ \ {x}], x.key, x.id))
  BY DEF Create
<1> HIDE DEF b, s
<1> DEFINE c == [b EXCEPT !.creating = @ \ {x}]
<1>3. Good(c, s) /\ ~c.quitting
  BY <1>1, CreatingLess
<1>4. /\ c.boot = b.boot /\ c.windows = b.windows /\ c.shutdown = b.shutdown
      /\ c.chain = b.chain /\ c.failed = b.failed /\ c.quitting = b.quitting /\ c.born = b.born
  <2> HIDE DEF Window, Request, Creation
  <2> QED BY <1>1 DEF Good, Browser
<1> HIDE DEF c
<1>5. Apart(c) /\ Lost(c)
  BY <1>1, <1>4 DEF Steady, Firm, Apart, Lost
<1>6. ~(c.shutdown # NoId /\ ~c.failed)
  BY <1>1, <1>2, <1>3, <1>4 DEF Steady, Firm, Going
<1>7. Steady(Created(c, x.key, x.id).b)
  BY <1>3, <1>5, <1>6, CreatedSteady
<1> QED BY <1>2, <1>7, NowSteady DEF c

\* A site's window comes behind the oldest.
LEMMA OpenPopupSteady ==
  ASSUME AInv, SInv, NEW p \in Profiles, OpenPopup(p)
  PROVE  SInv'
<1> DEFINE b == browser[p]
           s == replies[p]
<1>1. Good(b, s) /\ b.windows # <<>> /\ Steady(b) /\ Now(p, Created(b, Popup, 0))
  BY DEF AInv, SInv, OpenPopup
<1> HIDE DEF b, s
<1>2. ~b.quitting
  BY <1>1 DEF Good, EmptyAtQuit
<1>3. Steady(Created(b, Popup, 0).b)
  BY <1>1, <1>2, CreatedSteady DEF Steady, Firm, Going
<1> QED BY <1>1, <1>3, NowSteady

\* A window that was asked is observed; when it cannot be, no shutdown is left.
LEMMA ObserveSteady ==
  ASSUME AInv, SInv, NEW p \in Profiles, NEW i \in Windows(p), NEW success \in BOOLEAN, Observe(p, i, success)
  PROVE  SInv'
<1> DEFINE b == browser[p]
           s == replies[p]
           v == IF success THEN "ready" ELSE "failed"
           c == Watched(b, v)
<1>1. /\ Good(b, s) /\ Steady(b) /\ b.windows[i].watch = "pending" /\ i \in DOMAIN b.windows
      /\ Now(p, IF success THEN Effect([b EXCEPT !.windows[i].watch = v])
                ELSE CloseUnavailable(Effect([b EXCEPT !.windows[i].watch = v])))
  BY DEF AInv, SInv, Observe, Windows
<1> HIDE DEF b, s
<1>2. i \in 1..Len(b.windows) /\ b.windows # <<>>
  BY <1>1 DEF Good, Browser
<1>3. i = 1 /\ ~b.quitting
  BY <1>1, <1>2 DEF Good, OldestOnly, EmptyAtQuit
<1>4. v \in Watches /\ (success => v = "ready")
  BY DEF Watches
<1> HIDE DEF v
<1>5. Good(c, s)
  BY <1>1, <1>2, <1>3, <1>4, WatchSet DEF Watched
<1>6. Now(p, IF success THEN Effect(c) ELSE CloseUnavailable(Effect(c)))
  BY <1>1, <1>3 DEF Watched
<1>7. /\ Apart(c) /\ Lost(c) /\ c.windows # <<>> /\ c.windows[1].watch = v /\ c.windows[1].id = b.windows[1].id
      /\ c.boot = b.boot /\ c.creating = b.creating /\ c.shutdown = b.shutdown /\ c.chain = b.chain
      /\ c.failed = b.failed /\ c.quitting = b.quitting
  BY <1>1, <1>2, WatchSteady DEF Steady, Firm
<1> HIDE DEF c
<1>8. CASE success
  <2>1. Steady(c)
    BY <1>1, <1>2, <1>4, <1>7, <1>8 DEF Steady, Firm, Going, Held
  <2> QED BY <1>6, <1>8, <2>1, EffParts, NowSteady
<1>9. CASE ~success
  <2>1. Steady(CloseUnavailable(Effect(c)).b)
    BY <1>5, <1>7, EffParts, CloseUnavailableSteady
  <2> QED BY <1>6, <1>9, <2>1, NowSteady
<1> QED BY <1>8, <1>9

\* A window goes.
LEMMA LeaveSteady ==
  ASSUME AInv, SInv, NEW p \in Profiles, NEW i \in Windows(p), Leave(p, i)
  PROVE  SInv'
<1> DEFINE b == browser[p]
           s == replies[p]
<1>1. Good(b, s) /\ s \in Seq(Reply) /\ Steady(b) /\ Now(p, Gone(b, i)) /\ i \in DOMAIN b.windows
  BY DEF AInv, SInv, Leave, Windows
<1> HIDE DEF b, s
<1>2. i \in 1..Len(b.windows)
  BY <1>1 DEF Good, Browser
<1>3. Steady(Gone(b, i).b)
  BY <1>1, <1>2, GoneSteady
<1> QED BY <1>1, <1>3, NowSteady

\* The person stays: no shutdown is left, or the window is watched as before.
LEMMA StaySteady ==
  ASSUME AInv, SInv, NEW p \in Profiles, NEW i \in Windows(p), Stay(p, i)
  PROVE  SInv'
<1> DEFINE b == browser[p]
           s == replies[p]
           c == [b EXCEPT !.shutdown = NoId]
           m == Watched(b, "missed")
<1>1. /\ Good(b, s) /\ Steady(b) /\ b.windows[i].watch # "idle" /\ i \in DOMAIN b.windows
      /\ \/ Now(p, Answer(Effect(c), "cancelled", b.shutdown, None))
         \/ Now(p, Effect([b EXCEPT !.windows[i].watch = "missed"]))
  BY DEF AInv, SInv, Stay, Windows
<1> HIDE DEF b, s
<1>2. i \in 1..Len(b.windows) /\ b.windows # <<>> /\ i = 1
  BY <1>1 DEF Good, Browser, OldestOnly
<1>3. c.shutdown = NoId /\ c.windows = b.windows /\ c.failed = b.failed /\ c.born = b.born
  <2> HIDE DEF Window, Request, Creation
  <2> QED BY <1>1 DEF Good, Browser
<1>4. /\ Apart(m) /\ Lost(m) /\ m.windows # <<>> /\ m.windows[1].watch = "missed" /\ m.windows[1].id = b.windows[1].id
      /\ m.boot = b.boot /\ m.creating = b.creating /\ m.shutdown = b.shutdown /\ m.chain = b.chain
      /\ m.failed = b.failed /\ m.quitting = b.quitting
  BY <1>1, <1>2, WatchSteady DEF Steady, Firm
<1>5. Now(p, Answer(Effect(c), "cancelled", b.shutdown, None)) \/ Now(p, Effect(m))
  BY <1>1, <1>2 DEF Watched
<1> HIDE DEF c, m
<1>6. Steady(c)
  BY <1>1, <1>3, Unrecorded DEF Steady, Firm, Apart, Lost
<1>7. Steady(m)
  BY <1>1, <1>2, <1>4 DEF Steady, Firm, Going, Held
<1>8. Answer(Effect(c), "cancelled", b.shutdown, None).b = c /\ Effect(m).b = m
  BY EffParts, AnswerKeeps
<1>9. CASE Now(p, Effect(m))
  BY <1>7, <1>8, <1>9, NowSteady
<1>10. CASE Now(p, Answer(Effect(c), "cancelled", b.shutdown, None))
  BY <1>6, <1>8, <1>10, NowSteady
<1> QED BY <1>5, <1>9, <1>10

\* The context is made: a shutdown is not touched.
LEMMA ContextSteady ==
  ASSUME AInv, SInv, NEW p \in Profiles, ContextInitialized(p)
  PROVE  SInv'
<1>1. browser \in [Profiles -> Browser] /\ browser[p] \in Browser
  BY DEF AInv
<1> DEFINE b == browser[p]
           v == TRUE
           c == [b EXCEPT !.context = v]
<1>2. browser' = [browser EXCEPT ![p] = c]
  BY <1>1 DEF ContextInitialized
<1> HIDE DEF v
<1>3. /\ c.boot = b.boot /\ c.windows = b.windows /\ c.creating = b.creating /\ c.shutdown = b.shutdown
      /\ c.chain = b.chain /\ c.failed = b.failed /\ c.quitting = b.quitting /\ c.born = b.born
  <2> HIDE DEF Window, Request, Creation
  <2> QED BY <1>1 DEF Browser
<1> HIDE DEF c
<1>4. ASSUME NEW q \in Profiles
      PROVE  Steady(browser'[q])
  <2>1. browser'[q] = IF q = p THEN c ELSE browser[q]
    BY <1>1, <1>2
  <2>2. Steady(browser[q])
    BY DEF SInv
  <2> QED BY <1>3, <2>1, <2>2, SteadySame
<1> QED BY <1>4 DEF SInv

\* A fresh browser has nothing to pursue.
LEMMA SteadyBegins == Init => SInv
<1> SUFFICES ASSUME Init, NEW p \in Profiles PROVE Steady(browser[p])
  BY DEF SInv
<1>1. PICK k \in Keys : browser[p] = NewBrowser(k)
  BY DEF Init
<1> DEFINE b == NewBrowser(k)
<1>2. b.windows = <<>> /\ b.shutdown = NoId
  BY DEF NewBrowser
<1> HIDE DEF b
<1>3. Apart(b) /\ Lost(b)
  BY <1>2 DEF Apart, Lost
<1> QED BY <1>1, <1>2, <1>3, Unrecorded DEF b

\* Every step of the browsers and their parents keeps them steady.
LEMMA SteadyKept == AInv /\ SInv /\ [Next]_vars => SInv'
<1> SUFFICES ASSUME AInv, SInv, [Next]_vars PROVE SInv'
  OBVIOUS
<1>1. CASE browser' = browser
  BY <1>1 DEF SInv
<1>2. ASSUME NEW p \in Profiles, Native(p)
      PROVE  SInv'
  <2>1. CASE Exit(p) \/ Crash(p)
    BY <1>1, <2>1 DEF Exit, Crash
  <2>2. CASE ~Exit(p) /\ ~Crash(p)
    BY <1>2, <2>2, PostSteady, ContextSteady, BootSteady, DispatchSteady, CreateSteady, OpenPopupSteady,
       ObserveSteady, LeaveSteady, StaySteady DEF Native
  <2> QED BY <2>1, <2>2
<1>3. browser' = browser \/ \E p \in Profiles : Native(p)
  BY DEF Next, Native1, Ask, HangUp, vars, browserVars
<1> QED BY <1>1, <1>2, <1>3

\* A recorded shutdown is never left alone: a browser that lost its parent has forced all its windows and waits for
\* one, or for a creation (one counted before there was a context never comes, process_main.rs:738-748: Stuck); any
\* other counts no creation and has asked its oldest window, which is observed or about to be, or in which the person
\* stayed unnoticed (627-630: Stuck).  process_main.rs close_all, next_to_close, request_close.
ShutdownPursued ==
    \A p \in Profiles : LET b == browser[p] IN
        b.shutdown # NoId /\ ~b.quitting
        => IF b.failed
           THEN /\ \A i \in DOMAIN b.windows : b.windows[i].forced
                /\ b.windows # <<>> \/ Pending(b) > 0
           ELSE /\ b.windows # <<>> /\ b.windows[1].watch \in {"pending", "ready", "missed"}
                /\ Pending(b) = 0

\* Whatever closes, opens, stays or fails meanwhile: what every fair run needs in order to decide the shutdown.
THEOREM PursuesTheShutdown == Spec => []ShutdownPursued
<1>1. AInv /\ SInv => ShutdownPursued
  <2> SUFFICES ASSUME AInv, SInv, NEW p \in Profiles, NEW b, b = browser[p], b.shutdown # NoId, ~b.quitting
               PROVE  IF b.failed
                      THEN /\ \A i \in DOMAIN b.windows : b.windows[i].forced
                           /\ b.windows # <<>> \/ Pending(b) > 0
                      ELSE /\ b.windows # <<>> /\ b.windows[1].watch \in {"pending", "ready", "missed"}
                           /\ Pending(b) = 0
    BY DEF ShutdownPursued
  <2>1. Good(b, replies[p]) /\ Apart(b) /\ Lost(b) /\ Going(b) /\ Held(b)
    BY DEF AInv, SInv, Steady, Firm
  <2>2. DOMAIN b.windows = 1..Len(b.windows)
    BY <2>1 DEF Good, Browser
  <2>3. CASE b.failed
    <3>1. Pending(b) \in Nat /\ (Pending(b) = 0 => b.creating = {} /\ b.boot = None)
      <4>1. Cardinality(b.creating) \in Nat
        BY <2>1, FS_CardinalityType DEF Good, Making
      <4>2. Pending(b) \in Nat
        BY <4>1 DEF Pending
      <4> QED BY <2>1, <4>2, NoPending
    <3>2. b.windows # <<>> \/ Pending(b) > 0
      BY <2>1, <3>1 DEF Held
    <3> QED BY <2>1, <2>2, <2>3, <3>2 DEF Lost
  <2>4. CASE ~b.failed
    <3>1. Pending(b) = 0
      <4>1. b.boot = None /\ b.creating = {}
        BY <2>1, <2>4 DEF Going
      <4> QED BY <4>1, FS_EmptySet DEF Pending
    <3> QED BY <2>1, <2>4, <3>1 DEF Going, Held
  <2> QED BY <2>3, <2>4
<1> QED BY <1>1, AloneBegins, AloneKept, SteadyBegins, SteadyKept, PTL DEF Spec
=============================================================================
