---------------------------- MODULE DesktopProofs ----------------------------
(* The desktop around the browser: screens and homes are open only over data  *)
(* that nobody clears, and a home resumes a page it showed; what the App      *)
(* starts and from where, who answers it, how requests reach the browser, and *)
(* the App's own exit; and the behaviours in which any one of these parts, a  *)
(* guard (BrowserGuardProofs) or the Apps' runtime directories                *)
(* (RuntimeDirsProofs) runs, with its types.                                  *)
EXTENDS MCDesktop, BrowserGuardProofs, RuntimeDirsProofs, SequenceTheorems, FiniteSetTheorems, Integers, TLAPS

------------------------------------------------------------------------------
\* Screens and clearings in the platform's web view (WebScreens).

\* The types of a waiting handler, of a screen and of a clearing.
FrameOf  == [at : {"window", "view", "helper", "finish"}, id : Nat, key : HomeKey \cup {NoKey}, prof : WebProfile,
             ok : BOOLEAN, within : BOOLEAN]
ScreenOf == [id : Nat, key : HomeKey \cup {NoKey}, prof : WebProfile, within : BOOLEAN]
OpOf     == [id : Nat, at : {"none", "building", "native", "working", "removed", "worked"},
             ok : BOOLEAN, early : BOOLEAN]
WebTypes == /\ stack \in Seq(FrameOf) /\ live \in SUBSET ScreenOf /\ ops \in [WebProfile -> OpOf]
            /\ kept \in [WebProfile -> SUBSET {"data", "page"}] /\ nextId \in Nat \ {0}
            /\ app \in {"runs", "closing", "panicked"}
\* A handler that waits for the construction of a screen.
IsBuilt(f) == f.at \in {"window", "view"}
\* What a handler that waits says of the latch of its profile, and of the screens alive.
FrameHolds(f) ==
    /\ IsBuilt(f) /\ f.prof \in Latched => ops[f.prof].early
    /\ ~IsBuilt(f) => f.key = NoKey /\ ops[f.prof].id = f.id /\ ops[f.prof].at \in {"building", "worked"}
    /\ f.at = "helper" => ops[f.prof].at = "building"
    /\ f.ok => f.at = "finish" /\ ops[f.prof].at = "worked" /\ (~ops[f.prof].early => kept[f.prof] = {})
    /\ \A s \in live : f.key = s.key /\ f.key # NoKey => f.within \/ s.within
\* Two handlers, the second within the first: no two of one clearing, and a home's second screen knows.
Nested(f, g) == /\ ~IsBuilt(f) /\ ~IsBuilt(g) => f.prof # g.prof
                /\ f.key = g.key /\ f.key # NoKey => g.within
\* Each handler waits for those above it on the stack.
AllNested == \A i, j \in 1..Len(stack) : i < j => Nested(stack[i], stack[j])
\* What a clearing's latch says of the profile and of the handlers that wait for it.
OpHolds(p) == /\ ops[p].at = "none" => ops[p].id = 0
              /\ ops[p].at # "none" => ops[p].id \in 1..nextId - 1
              /\ ops[p].at \in {"working", "removed"} /\ ~ops[p].early => "data" \notin kept[p]
              /\ ops[p].at = "removed" /\ ops[p].ok /\ ~ops[p].early => "page" \notin kept[p]
\* No two clearings have the same number.
OwnIds == \A p, q \in WebProfile : p # q /\ p \in Latched /\ q \in Latched => ops[p].id # ops[q].id
\* The inductive invariant of the screens in the web view.
WebInv == /\ WebTypes /\ NotLiveWhileClearing /\ OneScreenPerHome /\ (\A f \in Frames : FrameHolds(f))
          /\ AllNested
          /\ (\A p \in WebProfile : OpHolds(p)) /\ OwnIds

\* What a step on the stack of handlers leaves: a handler on top, one less, or a top that waits for another thing.
LEMMA FramePushed ==
  ASSUME WebTypes, AllNested, NEW f \in FrameOf, stack' = Append(stack, f), \A g \in Frames : Nested(g, f)
  PROVE  stack' \in Seq(FrameOf) /\ AllNested' /\ Frames' = Frames \cup {f}
<1>1. stack \in Seq(FrameOf) /\ Len(stack) \in Nat
  BY DEF WebTypes
<1>2. /\ stack' \in Seq(FrameOf) /\ Len(stack') = Len(stack) + 1 /\ stack'[Len(stack) + 1] = f
      /\ \A i \in 1..Len(stack) : stack'[i] = stack[i]
  BY <1>1
<1>3. \A i \in 1..Len(stack') : i \in 1..Len(stack) \/ i = Len(stack) + 1
  BY <1>1, <1>2
<1>4. AllNested'
  <2> SUFFICES ASSUME NEW i \in 1..Len(stack'), NEW j \in 1..Len(stack'), i < j
               PROVE  Nested(stack'[i], stack'[j])
    BY DEF AllNested
  <2>1. i \in 1..Len(stack) /\ stack'[i] = stack[i]
    BY <1>1, <1>2, <1>3
  <2>2. CASE j \in 1..Len(stack)
    BY <2>1, <2>2, <1>2 DEF AllNested
  <2>3. CASE j = Len(stack) + 1
    BY <2>1, <2>3, <1>2 DEF Frames
  <2> QED BY <2>2, <2>3, <1>3
<1>5. Frames' = Frames \cup {f}
  <2>1. \A i \in 1..Len(stack) : i \in 1..Len(stack')
    BY <1>1, <1>2
  <2>2. Len(stack) + 1 \in 1..Len(stack')
    BY <1>1, <1>2
  <2> QED BY <1>2, <1>3, <2>1, <2>2 DEF Frames
<1> QED BY <1>2, <1>4, <1>5

\* The top handler is one of the stack's, above all others.
LEMMA FrameTop == ASSUME WebTypes, AllNested, stack # <<>>
                  PROVE  /\ Top \in Frames /\ Top \in FrameOf
                         /\ Below \in Seq(FrameOf) /\ Len(Below) = Len(stack) - 1 /\ Len(stack) \in Nat \ {0}
                         /\ \A i \in 1..Len(Below) : /\ i \in 1..Len(stack) /\ Below[i] = stack[i]
                                                     /\ Below[i] \in Frames
                                    /\ Nested(Below[i], Top)
<1>1. stack \in Seq(FrameOf) /\ Len(stack) \in Nat
  BY DEF WebTypes
<1>2. Len(stack) # 0
  BY <1>1
<1>3. Len(stack) \in 1..Len(stack) /\ stack[Len(stack)] \in FrameOf
  BY <1>1, <1>2
<1>4. /\ Below \in Seq(FrameOf) /\ Len(Below) = Len(stack) - 1
      /\ \A i \in 1..Len(Below) : i \in 1..Len(stack) /\ i < Len(stack) /\ Below[i] = stack[i]
  <2>1. 1..Len(stack) - 1 \subseteq 1..Len(stack) /\ Len(stack) - 1 \in Nat
    BY <1>1, <1>2
  <2>2. \A i \in 1..Len(stack) - 1 : stack[i] \in FrameOf
    BY <1>1, <2>1
  <2>3. /\ Below \in Seq(FrameOf) /\ Len(Below) = IF 1 <= Len(stack) - 1 THEN (Len(stack) - 1) - 1 + 1 ELSE 0
        /\ \A i \in 1..(Len(stack) - 1) - 1 + 1 : Below[i] = stack[1 + i - 1]
    <3>1. 1 \in Int /\ Len(stack) - 1 \in Int
      BY <1>1
    <3> HIDE DEF Below
    <3> QED BY <2>2, <3>1, SubSeqProperties DEF Below
  <2>4. Len(Below) = Len(stack) - 1 /\ \A i \in 1..Len(Below) : Below[i] = stack[i] /\ i \in 1..Len(stack) - 1
    <3>1. PICK n \in Nat : n = Len(stack) - 1
      BY <2>1
    <3>2. Len(Below) = n
      BY <2>3, <3>1
    <3>3. \A i \in 1..n : 1 + i - 1 = i /\ i \in 1..(n - 1 + 1)
      BY <3>1
    <3>4. \A i \in 1..n : Below[i] = stack[i]
      BY <2>3, <3>1, <3>3
    <3> QED BY <3>1, <3>2, <3>4
  <2> QED BY <1>1, <1>2, <2>1, <2>3, <2>4
<1> QED BY <1>1, <1>2, <1>3, <1>4 DEF Top, Frames, AllNested

\* The top handler goes on: the others still hold what they held.
LEMMA FramePopped ==
  ASSUME WebTypes, AllNested, stack # <<>>, stack' = Below
  PROVE  stack' \in Seq(FrameOf) /\ AllNested' /\ Frames' \subseteq Frames /\ \A g \in Frames' : Nested(g, Top)
<1>1. /\ stack' \in Seq(FrameOf) /\ Len(stack') \in Nat
      /\ \A i \in 1..Len(stack') : i \in 1..Len(stack) /\ stack'[i] = stack[i] /\ stack'[i] \in Frames
                                      /\ Nested(stack'[i], Top)
  BY FrameTop
<1> QED BY <1>1 DEF AllNested, Frames

\* The top handler waits for another thing.
LEMMA FrameTurned ==
  ASSUME WebTypes, AllNested, stack # <<>>, NEW f \in FrameOf, stack' = Append(Below, f),
         \A g \in Frames : Nested(g, Top) => Nested(g, f)
  PROVE  /\ stack' \in Seq(FrameOf) /\ AllNested'
         /\ \A g \in Frames' : g = f \/ (g \in Frames /\ Nested(g, Top))
<1>1. /\ Below \in Seq(FrameOf) /\ Len(Below) \in Nat
      /\ \A i \in 1..Len(Below) : i \in 1..Len(stack) /\ Below[i] = stack[i] /\ Below[i] \in Frames
                                    /\ Nested(Below[i], Top)
  BY FrameTop
<1>2. /\ stack' \in Seq(FrameOf) /\ Len(stack') = Len(Below) + 1 /\ stack'[Len(Below) + 1] = f
      /\ \A i \in 1..Len(Below) : stack'[i] = Below[i]
  BY <1>1
<1>3. \A i \in 1..Len(stack') : i \in 1..Len(Below) \/ i = Len(Below) + 1
  BY <1>1, <1>2
<1>4. AllNested'
  <2> SUFFICES ASSUME NEW i \in 1..Len(stack'), NEW j \in 1..Len(stack'), i < j
               PROVE  Nested(stack'[i], stack'[j])
    BY DEF AllNested
  <2>1. i \in 1..Len(Below)
    BY <1>1, <1>2, <1>3
  <2>2. CASE j \in 1..Len(Below)
    BY <2>1, <2>2, <1>1, <1>2 DEF AllNested
  <2>3. CASE j = Len(Below) + 1
    BY <2>1, <2>3, <1>1, <1>2
  <2> QED BY <2>2, <2>3, <1>3
<1> QED BY <1>1, <1>2, <1>3, <1>4 DEF Frames

\* A handler and a clearing after one of their stages.
ViewFrame(f)     == [f EXCEPT !.at = "view"]
FinishFrame(f)   == [f EXCEPT !.at = "finish"]
AtOp(o, s)       == [o EXCEPT !.at = s]
RemovedOp(o, ok) == [o EXCEPT !.at = "removed", !.ok = ok]

\* A handler at its next stage, field by field.
LEMMA FrameIs == ASSUME NEW f \in FrameOf
                 PROVE  /\ ViewFrame(f) \in FrameOf /\ ViewFrame(f).at = "view" /\ ViewFrame(f).key = f.key
                        /\ ViewFrame(f).prof = f.prof /\ ViewFrame(f).ok = f.ok /\ ViewFrame(f).within = f.within
                        /\ FinishFrame(f) \in FrameOf /\ FinishFrame(f).at = "finish"
                        /\ FinishFrame(f).key = f.key
                        /\ FinishFrame(f).prof = f.prof /\ FinishFrame(f).ok = f.ok
                        /\ FinishFrame(f).within = f.within
                        /\ FinishFrame(f).id = f.id
BY DEF ViewFrame, FinishFrame, FrameOf

\* A clearing at its next stage.
LEMMA AtOpIs == ASSUME NEW o \in OpOf, NEW s \in {"none", "building", "native", "working", "removed", "worked"}
                PROVE  /\ AtOp(o, s) \in OpOf /\ AtOp(o, s).at = s /\ AtOp(o, s).id = o.id /\ AtOp(o, s).ok = o.ok
                       /\ AtOp(o, s).early = o.early
BY DEF AtOp, OpOf

\* A clearing whose page was removed, or was not.
LEMMA RemovedIs == ASSUME NEW o \in OpOf, NEW ok \in BOOLEAN
                   PROVE  /\ RemovedOp(o, ok) \in OpOf /\ RemovedOp(o, ok).at = "removed"
                          /\ RemovedOp(o, ok).id = o.id
                          /\ RemovedOp(o, ok).ok = ok /\ RemovedOp(o, ok).early = o.early
BY DEF RemovedOp, OpOf

\* It holds when the App starts.
LEMMA WebBegins == WebInit => WebInv
<1> SUFFICES ASSUME WebInit PROVE WebInv
  OBVIOUS
<1>1. stack = <<>> /\ live = {} /\ nextId = 1 /\ app = "runs" /\ kept \in [WebProfile -> {{}, {"data", "page"}}]
  BY DEF WebInit
<1>2. \A p \in WebProfile : ops[p] = NoOp /\ ops[p].at = "none" /\ ops[p].id = 0
  BY DEF WebInit, NoOp
<1>3. ops \in [WebProfile -> OpOf]
  BY DEF WebInit, NoOp, OpOf
<1>4. kept \in [WebProfile -> SUBSET {"data", "page"}]
  BY <1>1
<1>5. stack \in Seq(FrameOf) /\ Frames = {} /\ AllNested
  BY <1>1 DEF Frames, AllNested
<1>6. Latched = {}
  BY <1>2 DEF Latched
<1>7. \A p \in WebProfile : OpHolds(p)
  BY <1>2 DEF OpHolds
<1> QED BY <1>1, <1>3, <1>4, <1>5, <1>6, <1>7 DEF WebInv, WebTypes, NotLiveWhileClearing, OneScreenPerHome, OwnIds

\* With the latches, the screens and what the profiles hold unchanged, only the stack is at stake.
LEMMA StackAlone ==
  ASSUME WebInv, UNCHANGED <<live, ops, kept>>, nextId' \in {nextId, nextId + 1},
         app' \in {"runs", "closing", "panicked"},
         stack' \in Seq(FrameOf), AllNested', \A f \in Frames' : f \in Frames \/ FrameHolds(f)
  PROVE  WebInv'
<1> USE DEF WebInv
<1>1. nextId \in Nat /\ nextId' \in Nat \ {0} /\ nextId' >= nextId
  BY DEF WebTypes
<1>2. WebTypes'
  BY <1>1 DEF WebTypes
<1>3. Latched' = Latched
  BY DEF Latched
<1>4. NotLiveWhileClearing' /\ OneScreenPerHome' /\ OwnIds'
  BY <1>3 DEF NotLiveWhileClearing, OneScreenPerHome, OwnIds
<1>5. \A f \in Frames' : FrameHolds(f)'
  BY <1>3 DEF FrameHolds
<1>6. \A p \in WebProfile : OpHolds(p)'
  <2> SUFFICES ASSUME NEW p \in WebProfile PROVE OpHolds(p)'
    OBVIOUS
  <2>1. ops[p].id \in Nat
    BY DEF WebTypes, OpOf
  <2>2. OpHolds(p)
    OBVIOUS
  <2> QED BY <1>1, <2>1, <2>2 DEF OpHolds
<1> QED BY <1>2, <1>4, <1>5, <1>6

\* Opening a screen anew.
LEMMA CreateSteps == ASSUME WebInv, NEW k \in HomeKey \cup {NoKey}, NEW p \in WebProfile, CreateAnew(k, p),
                            k = NoKey \/ k \notin {s.key : s \in live}
                     PROVE  WebInv'
<1> USE DEF WebInv
<1>1. PICK w \in BOOLEAN : w = \E f \in Frames : f.at # "finish" /\ f.key = k
  OBVIOUS
<1>2. PICK f : f = [at |-> "window", id |-> nextId, key |-> k, prof |-> p, ok |-> FALSE, within |-> w]
  OBVIOUS
<1>3. f \in FrameOf /\ f.at = "window" /\ f.key = k /\ f.prof = p /\ f.ok = FALSE /\ f.within = w
  BY <1>2 DEF FrameOf, WebTypes
<1>4. stack' = Append(stack, f)
  BY <1>1, <1>2 DEF CreateAnew, Push
<1>5. \A g \in Frames : Nested(g, f)
  BY <1>1, <1>3 DEF Nested, FrameHolds, IsBuilt
<1>6. stack' \in Seq(FrameOf) /\ AllNested' /\ Frames' = Frames \cup {f}
  BY <1>3, <1>4, <1>5, FramePushed
<1>7. FrameHolds(f)
  <2>1. p \notin Latched
    BY DEF CreateAnew, RequireIdle
  <2>2. \A s \in live : k = s.key => k = NoKey
    OBVIOUS
  <2> QED BY <1>3, <2>1, <2>2 DEF FrameHolds, IsBuilt
<1>8. UNCHANGED <<live, ops, kept, app>> /\ nextId' = nextId + 1
  BY DEF CreateAnew
<1>9. app' \in {"runs", "closing", "panicked"}
  BY <1>8 DEF WebTypes
<1> QED BY <1>6, <1>7, <1>8, <1>9, StackAlone

\* A window is built, and its page is next.
LEMMA WindowSteps == ASSUME WebInv, WindowBuilt PROVE WebInv'
<1> USE DEF WebInv
<1>1. stack # <<>> /\ Top.at = "window" /\ UNCHANGED <<live, ops, kept, nextId>>
  BY DEF WindowBuilt
<1>2. CASE app' = "panicked" /\ stack' = stack
  <2>1. Frames' = Frames /\ AllNested' /\ stack' \in Seq(FrameOf)
    BY <1>2 DEF Frames, AllNested, WebTypes
  <2> QED BY <1>1, <1>2, <2>1, StackAlone
<1>3. CASE stack' = Append(Below, [Top EXCEPT !.at = "view"]) /\ app' = app
  <2>1. Top \in FrameOf /\ Top \in Frames /\ FrameHolds(Top)
    BY <1>1, FrameTop
  <2>2. PICK f \in FrameOf : /\ f = ViewFrame(Top) /\ f.at = "view" /\ f.key = Top.key /\ f.prof = Top.prof
                             /\ f.ok = Top.ok /\ f.within = Top.within
    BY <2>1, FrameIs
  <2>3. stack' = Append(Below, f)
    BY <1>3, <2>2 DEF ViewFrame
  <2>4. \A g \in Frames : Nested(g, Top) => Nested(g, f)
    BY <2>2 DEF Nested, IsBuilt
  <2>5. stack' \in Seq(FrameOf) /\ AllNested' /\ \A g \in Frames' : g = f \/ g \in Frames
    BY <1>1, <2>3, <2>4, FrameTurned
  <2>6. FrameHolds(f)
    BY <1>1, <2>1, <2>2 DEF FrameHolds, IsBuilt
  <2>7. app' \in {"runs", "closing", "panicked"}
    BY <1>3 DEF WebTypes
  <2> QED BY <1>1, <2>5, <2>6, <2>7, StackAlone
<1> QED BY <1>2, <1>3 DEF WindowBuilt

\* A view is built: the screen is alive, unless it was refused meanwhile.
LEMMA ViewSteps == ASSUME WebInv, ViewBuilt PROVE WebInv'
<1> USE DEF WebInv
<1>1. stack # <<>> /\ Top.at = "view" /\ stack' = Below /\ UNCHANGED <<ops, kept, nextId, app>>
  BY DEF ViewBuilt
<1>2. Top \in FrameOf /\ Top \in Frames /\ FrameHolds(Top)
  BY <1>1, FrameTop
<1>3. stack' \in Seq(FrameOf) /\ AllNested' /\ Frames' \subseteq Frames /\ \A g \in Frames' : Nested(g, Top)
  BY <1>1, FramePopped
<1>4. PICK t \in ScreenOf : /\ t = [id |-> Top.id, key |-> Top.key, prof |-> Top.prof, within |-> Top.within]
                            /\ t.key = Top.key /\ t.prof = Top.prof /\ t.within = Top.within
  <2>1. Top.id \in Nat /\ Top.key \in HomeKey \cup {NoKey} /\ Top.prof \in WebProfile /\ Top.within \in BOOLEAN
    BY <1>2 DEF FrameOf
  <2> DEFINE shows == [id |-> Top.id, key |-> Top.key, prof |-> Top.prof, within |-> Top.within]
  <2>2. shows \in ScreenOf
    BY <2>1 DEF ScreenOf
  <2>3. shows.key = Top.key /\ shows.prof = Top.prof /\ shows.within = Top.within
    OBVIOUS
  <2> QED BY <2>2, <2>3
<1>5. live' = live \/ live' = live \cup {t}
  BY <1>4 DEF ViewBuilt
<1>6. WebTypes'
  BY <1>1, <1>3, <1>5 DEF WebTypes
<1>7. Latched' = Latched
  BY <1>1 DEF Latched
<1>8. NotLiveWhileClearing'
  BY <1>1, <1>2, <1>4, <1>5, <1>7 DEF NotLiveWhileClearing, FrameHolds, IsBuilt
<1>9. OneScreenPerHome'
  BY <1>2, <1>4, <1>5 DEF OneScreenPerHome, FrameHolds
<1>10. \A f \in Frames' : FrameHolds(f)'
  BY <1>1, <1>3, <1>4, <1>5, <1>7 DEF FrameHolds, Nested
<1>11. (\A p \in WebProfile : OpHolds(p)') /\ OwnIds'
  BY <1>1, <1>7 DEF OpHolds, OwnIds
<1> QED BY <1>3, <1>6, <1>8, <1>9, <1>10, <1>11

\* A screen that is alive is used or closed.
LEMMA ScreenSteps == ASSUME WebInv, UsesScreen \/ CloseScreen PROVE WebInv'
<1> USE DEF WebInv
<1>1. UNCHANGED <<stack, ops, nextId, app>>
  BY DEF UsesScreen, CloseScreen
<1>2. Latched' = Latched /\ Frames' = Frames
  BY <1>1 DEF Latched, Frames
<1>3. AllNested' /\ OwnIds'
  BY <1>1, <1>2 DEF AllNested, OwnIds
<1>4. CASE CloseScreen
  <2>1. live' \subseteq live /\ kept' = kept
    BY <1>4 DEF CloseScreen
  <2>2. WebTypes' /\ NotLiveWhileClearing' /\ OneScreenPerHome'
    BY <1>1, <1>2, <2>1 DEF WebTypes, NotLiveWhileClearing, OneScreenPerHome
  <2>3. \A f \in Frames' : FrameHolds(f)'
    BY <1>1, <1>2, <2>1 DEF FrameHolds
  <2>4. \A p \in WebProfile : OpHolds(p)'
    BY <1>1, <2>1 DEF OpHolds
  <2> QED BY <1>3, <2>2, <2>3, <2>4
<1>5. CASE UsesScreen
  <2>1. PICK s \in live :
            kept' = [kept EXCEPT ![s.prof] = @ \cup {"data"} \cup (IF s.key = NoKey THEN {} ELSE {"page"})]
    BY <1>5 DEF UsesScreen
  <2>2. live' = live /\ s.prof \in WebProfile
    BY <1>5, <2>1 DEF UsesScreen, WebTypes, ScreenOf
  <2>3. PICK d \in SUBSET {"data", "page"} : kept' = [kept EXCEPT ![s.prof] = d]
    <3>1. PICK e \in SUBSET {"data", "page"} : e = IF s.key = NoKey THEN {} ELSE {"page"}
      OBVIOUS
    <3>2. kept[s.prof] \cup {"data"} \cup e \in SUBSET {"data", "page"}
      BY <2>2, <3>1 DEF WebTypes
    <3> QED BY <2>1, <3>1, <3>2
  <2>4. kept' \in [WebProfile -> SUBSET {"data", "page"}] /\ \A p \in WebProfile \ {s.prof} : kept'[p] = kept[p]
    BY <2>2, <2>3 DEF WebTypes
  <2>5. s.prof \in Latched => ops[s.prof].early
    BY DEF NotLiveWhileClearing
  <2>6. WebTypes' /\ NotLiveWhileClearing' /\ OneScreenPerHome'
    BY <1>1, <1>2, <2>2, <2>4 DEF WebTypes, NotLiveWhileClearing, OneScreenPerHome
  <2>7. \A p \in WebProfile : OpHolds(p)'
    <3>1. ops[s.prof].at \in {"working", "removed"} => ops[s.prof].early
      BY <2>2, <2>5 DEF Latched
    <3> QED BY <1>1, <2>2, <2>4, <3>1 DEF OpHolds
  <2>8. \A f \in Frames' : FrameHolds(f)'
    <3> SUFFICES ASSUME NEW f \in Frames PROVE FrameHolds(f)'
      BY <1>2
    <3>1. f.prof \in WebProfile
      <4>1. f \in FrameOf
        BY DEF Frames, WebTypes
      <4> QED BY <4>1 DEF FrameOf
    <3>2. f.ok /\ f.prof = s.prof => ops[f.prof].early
      BY <2>2, <2>5 DEF Latched, FrameHolds
    <3> QED BY <1>1, <1>2, <2>2, <2>4, <3>1, <3>2 DEF FrameHolds
  <2> QED BY <1>3, <2>6, <2>7, <2>8
<1> QED BY <1>4, <1>5

\* One latch changes: a new one, or another stage of the clearing it stands for.
LEMMA OneLatch ==
  ASSUME WebInv, NEW p \in WebProfile, NEW o \in OpOf, ops' = [ops EXCEPT ![p] = o], live' = live,
         app' \in {"runs", "closing", "panicked"}, o.at # "none",
         \/ p \in Latched /\ o.id = ops[p].id /\ o.early = ops[p].early /\ nextId' = nextId
         \/ p \notin Latched /\ o.id = nextId /\ nextId' = nextId + 1 /\ p \notin {s.prof : s \in live},
         kept' \in [WebProfile -> SUBSET {"data", "page"}], \A q \in WebProfile \ {p} : kept'[q] = kept[q],
         o.at \in {"working", "removed"} /\ ~o.early => "data" \notin kept'[p],
         o.at = "removed" /\ o.ok /\ ~o.early => "page" \notin kept'[p],
         stack' \in Seq(FrameOf), AllNested',
         \A f \in Frames' : \/ f \in Frames /\ f.prof # p
                            \/ f \in Frames /\ IsBuilt(f) /\ p \in Latched
                            \/ FrameHolds(f)'
  PROVE  WebInv'
<1> USE DEF WebInv
<1>1. ops' \in [WebProfile -> OpOf] /\ ops'[p] = o /\ \A q \in WebProfile \ {p} : ops'[q] = ops[q]
  BY DEF WebTypes
<1>2. nextId \in Nat \ {0} /\ nextId' \in Nat \ {0} /\ nextId' >= nextId
  BY DEF WebTypes
<1>3. WebTypes'
  BY <1>1, <1>2 DEF WebTypes
<1>4. Latched' = Latched \cup {p} /\ p \in Latched'
  BY <1>1 DEF Latched
<1>5. NotLiveWhileClearing'
  <2>1. \A s \in live : s.prof \in WebProfile
    BY DEF WebTypes, ScreenOf
  <2> QED BY <1>1, <1>4, <2>1 DEF NotLiveWhileClearing
<1>6. OneScreenPerHome'
  BY DEF OneScreenPerHome
<1>7. \A f \in Frames' : FrameHolds(f)'
  <2> SUFFICES ASSUME NEW f \in Frames', f \in Frames, f.prof # p \/ (IsBuilt(f) /\ p \in Latched)
               PROVE  FrameHolds(f)'
    OBVIOUS
  <2>1. f.prof \in WebProfile /\ FrameHolds(f)
    <3>1. f \in FrameOf
      BY DEF Frames, WebTypes
    <3> QED BY <3>1 DEF FrameOf
  <2>2. CASE f.prof # p
    <3>1. /\ ops'[f.prof] = ops[f.prof] /\ kept'[f.prof] = kept[f.prof]
          /\ (f.prof \in Latched' <=> f.prof \in Latched)
      BY <1>1, <1>4, <2>1, <2>2
    <3> QED BY <2>1, <3>1 DEF FrameHolds
  <2>3. CASE f.prof = p /\ IsBuilt(f) /\ p \in Latched
    BY <1>1, <2>1, <2>3 DEF FrameHolds, IsBuilt
  <2> QED BY <2>2, <2>3
<1>8. \A q \in WebProfile : ops[q].id \in Nat /\ (q \in Latched => ops[q].id \in 1..nextId - 1)
  BY DEF WebTypes, OpOf, OpHolds, Latched
<1>9. \A q \in WebProfile : OpHolds(q)'
  <2> SUFFICES ASSUME NEW q \in WebProfile PROVE OpHolds(q)'
    OBVIOUS
  <2>1. CASE q = p
    <3>1. o.id \in 1..nextId' - 1
      BY <1>2, <1>8
    <3> QED BY <1>1, <2>1, <3>1 DEF OpHolds
  <2>2. CASE q # p
    <3>1. ops'[q] = ops[q] /\ kept'[q] = kept[q] /\ OpHolds(q) /\ ops[q].id \in Nat
      BY <1>1, <1>8, <2>2
    <3> QED BY <1>2, <3>1 DEF OpHolds
  <2> QED BY <2>1, <2>2
<1>10. OwnIds'
  <2>1. \A q \in Latched : q # p => o.id # ops[q].id
    <3> SUFFICES ASSUME NEW q \in Latched, q # p PROVE o.id # ops[q].id
      OBVIOUS
    <3>1. q \in WebProfile /\ ops[q].id \in 1..nextId - 1
      BY <1>8 DEF Latched
    <3>2. CASE p \in Latched /\ o.id = ops[p].id
      BY <3>1, <3>2 DEF OwnIds
    <3>3. CASE o.id = nextId
      BY <1>2, <3>1, <3>3
    <3> QED BY <3>2, <3>3
  <2> QED BY <1>1, <1>4, <2>1 DEF OwnIds
<1> QED BY <1>3, <1>5, <1>6, <1>7, <1>9, <1>10

\* Nothing waits for a clearing that is with the engine or its worker.
LEMMA NoneWaits == ASSUME WebInv, NEW p \in WebProfile, ops[p].at \in {"none", "native", "working", "removed"}
                   PROVE  \A f \in Frames : f.prof = p => IsBuilt(f)
BY DEF WebInv, FrameHolds

\* Finishing pushes a handler of the clearing's own number.
LEMMA FinishFrameIs == ASSUME WebTypes, NEW p \in WebProfile, NEW ok \in BOOLEAN, Finish(p, ok)
                       PROVE  \E f \in FrameOf : /\ stack' = Append(stack, f) /\ f.at = "finish" /\ f.id = ops[p].id
                                                 /\ f.key = NoKey /\ f.prof = p /\ f.ok = ok
<1>1. ops[p].id \in Nat
  BY DEF WebTypes, OpOf
<1> DEFINE f == [at |-> "finish", id |-> ops[p].id, key |-> NoKey, prof |-> p, ok |-> ok, within |-> FALSE]
<1>2. f \in FrameOf
  BY <1>1 DEF FrameOf
<1>3. stack' = Append(stack, f)
  BY DEF Finish, Push
<1> QED BY <1>2, <1>3

\* A clearing begins on an idle profile.
LEMMA BeginSteps == ASSUME WebInv, NEW p \in WebProfile, BeginClear(p) PROVE WebInv'
<1> USE DEF WebInv
<1>1. /\ p \notin Latched /\ p \notin {s.prof : s \in live} /\ nextId' = nextId + 1 /\ live' = live
      /\ kept' = kept
      /\ ops[p].at = "none"
  BY DEF BeginClear, RequireIdle, Latched
<1>2. PICK e \in BOOLEAN : e = \E f \in Frames : f.prof = p
  OBVIOUS
<1> DEFINE begun == [id |-> nextId, at |-> "building", ok |-> FALSE, early |-> e]
<1>3. begun \in OpOf
  BY DEF OpOf, WebTypes
<1>4. begun.id = nextId /\ begun.at = "building" /\ begun.early = e
  OBVIOUS
<1>5. PICK o \in OpOf : o = begun /\ o.id = nextId /\ o.at = "building" /\ o.early = e
  BY <1>3, <1>4
<1>6. ops' = [ops EXCEPT ![p] = o]
  BY <1>2, <1>5 DEF BeginClear
<1>7. ops'[p] = o
  BY <1>6 DEF WebTypes
<1>8. kept' \in [WebProfile -> SUBSET {"data", "page"}]
  BY <1>1 DEF WebTypes
<1>9. \A f \in Frames : f.prof = p => FrameHolds(f)'
  <2> SUFFICES ASSUME NEW f \in Frames, f.prof = p PROVE FrameHolds(f)'
    OBVIOUS
  <2>1. FrameHolds(f) /\ IsBuilt(f) /\ e = TRUE
    BY <1>1, <1>2, NoneWaits
  <2> QED BY <1>1, <1>5, <1>7, <2>1 DEF FrameHolds, IsBuilt
<1>10. CASE app' = "panicked" /\ stack' = stack
  <2>1. Frames' = Frames /\ AllNested' /\ stack' \in Seq(FrameOf)
    BY <1>10 DEF Frames, AllNested, WebTypes
  <2> QED BY <1>1, <1>5, <1>6, <1>8, <1>9, <1>10, <2>1, OneLatch
<1>11. CASE /\ Push([at |-> "helper", id |-> nextId, key |-> NoKey, prof |-> p, ok |-> FALSE, within |-> FALSE])
            /\ app' = app
  <2> DEFINE helper == [at |-> "helper", id |-> nextId, key |-> NoKey, prof |-> p, ok |-> FALSE, within |-> FALSE]
  <2>1. helper \in FrameOf
    BY DEF FrameOf, WebTypes
  <2>2. helper.at = "helper" /\ helper.id = nextId /\ helper.key = NoKey /\ helper.prof = p /\ helper.ok = FALSE
    OBVIOUS
  <2>3. PICK f \in FrameOf : /\ f = helper /\ f.at = "helper" /\ f.id = nextId /\ f.key = NoKey /\ f.prof = p
                             /\ f.ok = FALSE
    BY <2>1, <2>2
  <2>4. stack' = Append(stack, f)
    BY <1>11, <2>3 DEF Push
  <2>5. \A g \in Frames : Nested(g, f)
    BY <1>1, <2>3, NoneWaits DEF Nested
  <2>6. stack' \in Seq(FrameOf) /\ AllNested' /\ Frames' = Frames \cup {f}
    BY <2>4, <2>5, FramePushed
  <2>7. FrameHolds(f)'
    BY <1>5, <1>7, <2>3 DEF FrameHolds, IsBuilt
  <2>8. app' \in {"runs", "closing", "panicked"}
    BY <1>11 DEF WebTypes
  <2>9. \A g \in Frames' : (g \in Frames /\ g.prof # p) \/ FrameHolds(g)'
    BY <1>9, <2>6, <2>7
  <2> HIDE DEF WebInv
  <2> QED BY <1>1, <1>5, <1>6, <1>8, <2>6, <2>8, <2>9, OneLatch
<1> QED BY <1>10, <1>11 DEF BeginClear

\* The view that clears is built.
LEMMA HelperSteps == ASSUME WebInv, HelperBuilt PROVE WebInv'
<1> USE DEF WebInv
<1>1. stack # <<>> /\ Top.at = "helper" /\ UNCHANGED <<live, kept, nextId, app>>
  BY DEF HelperBuilt
<1>2. Top \in FrameOf /\ Top \in Frames /\ FrameHolds(Top)
  BY <1>1, FrameTop
<1>3. app' \in {"runs", "closing", "panicked"}
  BY <1>1 DEF WebTypes
<1>4. CASE stack' = Below /\ ops' = [ops EXCEPT ![Top.prof].at = "native"]
  <2>1. PICK p \in WebProfile : p = Top.prof
    BY <1>2 DEF FrameOf
  <2>2. ops[p] \in OpOf /\ p \in Latched
    BY <1>1, <1>2, <2>1 DEF WebTypes, FrameHolds, Latched
  <2>3. PICK o \in OpOf : /\ o = AtOp(ops[p], "native") /\ o.at = "native" /\ o.id = ops[p].id
                          /\ o.early = ops[p].early
    BY <2>2, AtOpIs
  <2>4. ops' = [ops EXCEPT ![p] = o]
    BY <1>4, <2>1, <2>3 DEF AtOp
  <2>5. stack' \in Seq(FrameOf) /\ AllNested' /\ Frames' \subseteq Frames /\ \A g \in Frames' : Nested(g, Top)
    BY <1>1, <1>4, FramePopped
  <2>6. \A f \in Frames' : f \in Frames /\ (f.prof # p \/ IsBuilt(f))
    BY <1>1, <2>1, <2>5 DEF Nested, IsBuilt
  <2>7. kept' \in [WebProfile -> SUBSET {"data", "page"}]
    BY <1>1 DEF WebTypes
  <2> QED BY <1>1, <1>3, <2>2, <2>3, <2>4, <2>5, <2>6, <2>7, OneLatch
<1>5. CASE stack' = Append(Below, [Top EXCEPT !.at = "finish"]) /\ ops' = ops
  <2>1. PICK f \in FrameOf : /\ f = FinishFrame(Top) /\ f.at = "finish" /\ f.key = Top.key /\ f.prof = Top.prof
                             /\ f.ok = Top.ok /\ f.id = Top.id
    BY <1>2, FrameIs
  <2>2. stack' = Append(Below, f)
    BY <1>5, <2>1 DEF FinishFrame
  <2>3. \A g \in Frames : Nested(g, Top) => Nested(g, f)
    BY <1>1, <1>2, <2>1 DEF Nested, IsBuilt, FrameHolds
  <2>4. stack' \in Seq(FrameOf) /\ AllNested' /\ \A g \in Frames' : g = f \/ g \in Frames
    BY <1>1, <2>2, <2>3, FrameTurned
  <2>5. FrameHolds(f)
    BY <1>1, <1>2, <2>1 DEF FrameHolds, IsBuilt
  <2> QED BY <1>1, <1>3, <1>5, <2>4, <2>5, StackAlone
<1> QED BY <1>4, <1>5 DEF HelperBuilt

\* The engine's answer, the worker's, and the end that the UI thread begins.
LEMMA AnswerSteps == ASSUME WebInv, NEW p \in WebProfile, NEW ok \in BOOLEAN,
                            NativeDone(p, ok) \/ RemovesPage(p, ok) \/ PageRemoved(p)
                     PROVE  WebInv'
<1> USE DEF WebInv
<1>1. /\ ops[p] \in OpOf /\ ops[p].at \in {"native", "working", "removed"} /\ p \in Latched
      /\ kept[p] \in SUBSET {"data", "page"}
  BY DEF WebTypes, NativeDone, RemovesPage, PageRemoved, Latched
<1>2. live' = live /\ nextId' = nextId /\ app' \in {"runs", "closing", "panicked"}
  BY DEF WebTypes, NativeDone, RemovesPage, PageRemoved
<1>3. \A f \in Frames : f.prof = p => IsBuilt(f)
  BY <1>1, NoneWaits
<1>4. kept \in [WebProfile -> SUBSET {"data", "page"}] /\ ops \in [WebProfile -> OpOf]
  BY DEF WebTypes
<1>5. CASE \/ NativeDone(p, ok) /\ ok
           \/ RemovesPage(p, ok)
  <2>1. stack' = stack
    BY <1>5 DEF NativeDone, RemovesPage
  <2>2. Frames' = Frames /\ AllNested' /\ stack' \in Seq(FrameOf)
    BY <2>1 DEF Frames, AllNested, WebTypes
  <2>3. CASE NativeDone(p, ok) /\ ok
    <3>1. PICK o \in OpOf : /\ o = AtOp(ops[p], "working") /\ o.at = "working" /\ o.id = ops[p].id
                            /\ o.early = ops[p].early
      BY <1>1, AtOpIs
    <3>2. ops' = [ops EXCEPT ![p] = o] /\ kept' = [kept EXCEPT ![p] = kept[p] \ {"data"}]
      BY <2>3, <3>1 DEF NativeDone, AtOp
    <3>3. /\ kept' \in [WebProfile -> SUBSET {"data", "page"}] /\ (\A q \in WebProfile \ {p} : kept'[q] = kept[q])
          /\ "data" \notin kept'[p]
      BY <1>1, <1>4, <3>2
    <3> QED BY <1>1, <1>2, <1>3, <2>2, <3>1, <3>2, <3>3, OneLatch
  <2>4. CASE RemovesPage(p, ok)
    <3>1. PICK o \in OpOf : /\ o = RemovedOp(ops[p], ok) /\ o.at = "removed" /\ o.id = ops[p].id /\ o.ok = ok
                            /\ o.early = ops[p].early
      BY <1>1, RemovedIs
    <3>2. /\ ops' = [ops EXCEPT ![p] = o] /\ ops[p].at = "working"
          /\ kept' = IF ok THEN [kept EXCEPT ![p] = kept[p] \ {"page"}] ELSE kept
      BY <2>4, <3>1 DEF RemovesPage, RemovedOp
    <3>3. /\ kept' \in [WebProfile -> SUBSET {"data", "page"}] /\ (\A q \in WebProfile \ {p} : kept'[q] = kept[q])
          /\ kept'[p] \subseteq kept[p] /\ (ok => "page" \notin kept'[p])
      BY <1>1, <1>4, <3>2
    <3>4. ~ops[p].early => "data" \notin kept[p]
      BY <3>2 DEF OpHolds
    <3>5. (~o.early => "data" \notin kept'[p]) /\ (o.ok => "page" \notin kept'[p])
      BY <3>1, <3>3, <3>4
    <3>6. \A f \in Frames' : f \in Frames /\ (f.prof # p \/ (IsBuilt(f) /\ p \in Latched))
      BY <1>1, <1>3, <2>2
    <3> HIDE DEF WebInv
    <3> QED BY <1>1, <1>2, <2>2, <3>1, <3>2, <3>3, <3>5, <3>6, OneLatch
  <2> QED BY <1>5, <2>3, <2>4
<1>6. CASE (NativeDone(p, ok) /\ ~ok) \/ PageRemoved(p)
  <2>1. PICK good \in BOOLEAN : /\ Finish(p, good) /\ ops' = [ops EXCEPT ![p].at = "worked"] /\ kept' = kept
                                /\ good => ops[p].at = "removed" /\ ops[p].ok
    <3>1. CASE NativeDone(p, ok) /\ ~ok
      BY <3>1 DEF NativeDone
    <3>2. CASE PageRemoved(p)
      <4>1. ops[p].ok \in BOOLEAN
        BY <1>1 DEF OpOf
      <4> QED BY <3>2, <4>1 DEF PageRemoved
    <3> QED BY <1>6, <3>1, <3>2
  <2>2. PICK o \in OpOf : /\ o = AtOp(ops[p], "worked") /\ o.at = "worked" /\ o.id = ops[p].id
                          /\ o.early = ops[p].early
    BY <1>1, AtOpIs
  <2>3. ops' = [ops EXCEPT ![p] = o] /\ ops'[p] = o
    BY <1>4, <2>1, <2>2 DEF AtOp
  <2>4. PICK f \in FrameOf : /\ stack' = Append(stack, f) /\ f.at = "finish" /\ f.id = ops[p].id
                             /\ f.key = NoKey /\ f.prof = p /\ f.ok = good
    BY <2>1, FinishFrameIs
  <2>5. \A g \in Frames : Nested(g, f)
    BY <1>3, <2>4 DEF Nested
  <2>6. stack' \in Seq(FrameOf) /\ AllNested' /\ Frames' = Frames \cup {f}
    BY <2>4, <2>5, FramePushed
  <2>7. good /\ ~ops[p].early => kept[p] = {}
    BY <1>1, <2>1 DEF OpHolds
  <2>8. FrameHolds(f)'
    BY <2>1, <2>2, <2>3, <2>4, <2>7 DEF FrameHolds, IsBuilt
  <2> QED BY <1>1, <1>2, <1>3, <1>4, <2>1, <2>2, <2>3, <2>6, <2>8, OneLatch
<1> QED BY <1>5, <1>6 DEF NativeDone

\* A clearing ends with its helper's destruction.
LEMMA EndSteps == ASSUME WebInv, FinishEnds PROVE WebInv'
<1> USE DEF WebInv
<1>1. stack # <<>> /\ Top.at = "finish" /\ stack' = Below /\ UNCHANGED <<live, kept, nextId, app>>
  BY DEF FinishEnds
<1>2. Top \in FrameOf /\ Top \in Frames /\ FrameHolds(Top)
  BY <1>1, FrameTop
<1>3. stack' \in Seq(FrameOf) /\ AllNested' /\ Frames' \subseteq Frames /\ \A g \in Frames' : Nested(g, Top)
  BY <1>1, FramePopped
<1>4. PICK p \in WebProfile : p = Top.prof /\ ops[p].id = Top.id /\ p \in Latched
  BY <1>1, <1>2 DEF FrameOf, FrameHolds, IsBuilt, Latched
<1>5. \A q \in WebProfile : ops[q].id = Top.id <=> q = p
  <2> SUFFICES ASSUME NEW q \in WebProfile, ops[q].id = Top.id, q # p PROVE FALSE
    BY <1>4
  <2>1. ops[p].id \in 1..nextId - 1 /\ nextId \in Nat
    BY <1>4 DEF OpHolds, Latched, WebTypes
  <2>2. ops[q].id # 0
    BY <1>4, <2>1
  <2>3. q \in Latched
    BY <2>2 DEF OpHolds, Latched
  <2> QED BY <1>4, <2>3 DEF OwnIds
<1>6. NoOp \in OpOf /\ NoOp.at = "none" /\ NoOp.id = 0
  BY DEF NoOp, OpOf
<1>7. ops' = [q \in WebProfile |-> IF q = p THEN NoOp ELSE ops[q]]
  BY <1>5 DEF FinishEnds
<1>8. ops' \in [WebProfile -> OpOf] /\ ops'[p] = NoOp /\ \A q \in WebProfile \ {p} : ops'[q] = ops[q]
  BY <1>6, <1>7 DEF WebTypes
<1>9. WebTypes'
  BY <1>1, <1>3, <1>8 DEF WebTypes
<1>10. Latched' = Latched \ {p}
  BY <1>6, <1>8 DEF Latched
<1>11. NotLiveWhileClearing' /\ OneScreenPerHome'
  BY <1>1, <1>8, <1>10 DEF NotLiveWhileClearing, OneScreenPerHome, Latched
<1>12. (\A q \in WebProfile : OpHolds(q)') /\ OwnIds'
  BY <1>1, <1>6, <1>8, <1>10 DEF OpHolds, OwnIds
<1>13. \A f \in Frames' : FrameHolds(f)'
  <2> SUFFICES ASSUME NEW f \in Frames' PROVE FrameHolds(f)'
    OBVIOUS
  <2>1. FrameHolds(f) /\ Nested(f, Top) /\ f \in Frames
    BY <1>3
  <2>2. f.prof \in WebProfile
    <3>1. f \in FrameOf
      BY <2>1 DEF Frames, WebTypes
    <3> QED BY <3>1 DEF FrameOf
  <2>3. CASE f.prof = p
    <3>1. IsBuilt(f) /\ ~f.ok
      BY <1>1, <1>4, <2>1, <2>3 DEF Nested, IsBuilt, FrameHolds
    <3> QED BY <1>1, <1>10, <2>1, <2>3, <3>1 DEF FrameHolds, IsBuilt
  <2>4. CASE f.prof # p
    <3>1. ops'[f.prof] = ops[f.prof] /\ (f.prof \in Latched' <=> f.prof \in Latched)
      BY <1>8, <1>10, <2>2, <2>4
    <3> QED BY <1>1, <2>1, <3>1 DEF FrameHolds
  <2> QED BY <2>3, <2>4
<1> QED BY <1>3, <1>9, <1>11, <1>12, <1>13

\* The App shuts down.
LEMMA ShutdownSteps == ASSUME WebInv, Shutdown PROVE WebInv'
<1> USE DEF WebInv
<1>1. stack = <<>> /\ stack' = stack /\ live' = {} /\ kept' = kept /\ nextId' = nextId /\ app' = "closing"
  BY DEF Shutdown
<1>2. NoOp \in OpOf /\ NoOp.at = "none" /\ NoOp.id = 0
  BY DEF NoOp, OpOf
<1>3. \A p \in WebProfile : ops'[p] = NoOp \/ (ops'[p] = ops[p] /\ p \in Latched)
  BY DEF Shutdown, Latched
<1>4. ops' \in [WebProfile -> OpOf]
  BY <1>2 DEF Shutdown, WebTypes
<1>5. WebTypes'
  BY <1>1, <1>4 DEF WebTypes
<1>6. Frames' = {} /\ AllNested'
  BY <1>1 DEF Frames, AllNested
<1>7. \A p \in WebProfile : OpHolds(p)'
  BY <1>1, <1>2, <1>3 DEF OpHolds
<1>8. OwnIds'
  BY <1>2, <1>3 DEF OwnIds, Latched
<1> QED BY <1>1, <1>5, <1>6, <1>7, <1>8 DEF NotLiveWhileClearing, OneScreenPerHome

\* Every handler keeps it, whatever ran within it.
LEMMA WebKept == WebInv /\ [WebNext]_webVars => WebInv'
<1> SUFFICES ASSUME WebInv, [WebNext]_webVars PROVE WebInv'
  OBVIOUS
<1>1. CASE UNCHANGED webVars
  <2>1. stack' = stack /\ live' = live /\ ops' = ops /\ kept' = kept /\ nextId' = nextId /\ app' = app
    BY <1>1 DEF webVars
  <2>2. stack' \in Seq(FrameOf) /\ AllNested' /\ Frames' = Frames
    BY <2>1 DEF WebInv, WebTypes, AllNested, Frames
  <2> QED BY <2>1, <2>2, StackAlone DEF WebInv, WebTypes
<1>2. ASSUME NEW k \in HomeKey, NEW p \in WebProfile, OpenHome(k, p) PROVE WebInv'
  BY <1>2, CreateSteps DEF OpenHome
<1>3. ASSUME NEW p \in WebProfile, OpenPopup(p) PROVE WebInv'
  BY <1>3, CreateSteps DEF OpenPopup
<1>4. ASSUME NEW p \in WebProfile, PageRemoved(p) PROVE WebInv'
  BY <1>4, AnswerSteps
<1> QED BY <1>1, <1>2, <1>3, <1>4, WindowSteps, ViewSteps, ScreenSteps, BeginSteps, HelperSteps, AnswerSteps,
           EndSteps,
           ShutdownSteps DEF WebNext

\* It is stronger than the three properties of clearing.
LEMMA WebShows == WebInv => NotLiveWhileClearing /\ OneScreenPerHome /\ ClearedIsEmpty
BY DEF WebInv, FrameHolds, ClearedIsEmpty

\* However handlers run within one another while views are built and destroyed, no screen is alive in a profile that
\* is being cleared and a home has one screen, but where one handler began within the other's construction, and
\* a profile reported as cleared is (desktop.rs, profile_reset.rs).
THEOREM WebClearsSafely == WebSpec => [](NotLiveWhileClearing /\ OneScreenPerHome /\ ClearedIsEmpty)
BY WebBegins, WebKept, WebShows, PTL DEF WebSpec

------------------------------------------------------------------------------
\* Clearings of the desktop browser's profile by several Apps (ProfileClear).

\* The types of a clearing and of a browser.
ClearStages == {"idle", "begun", "looked", "renamed", "removing"}
Clearing    == [at : ClearStages, had : SUBSET (1..MaxRoots), todo : SUBSET (1..MaxRoots)]
Opened      == {"opened", "running"}
BrowserOf   == [own : Instance \cup {Lost}, base : 0..MaxRoots, late : BOOLEAN,
                at : {"new", "started", "opened", "running", "ended", "failed"}]
ClearTypes ==
    /\ base \in 0..roots /\ roots \in 0..MaxRoots /\ detached \in SUBSET (1..roots)
    /\ clear \in [Instance -> Clearing]
    /\ \A a \in Instance : clear[a].had \subseteq 1..roots
    /\ browser \in [BrowserId -> BrowserOf]
    /\ \A b \in BrowserId : browser[b].base \in 0..roots /\ (browser[b].at \in Opened => browser[b].base # 0)
    /\ single \in BrowserId \cup {"stale", "free"}
\* A browser that runs in the root in place holds its singleton, and took it late when a clearing has looked.
Holds(b) == browser[b].at = "running" /\ browser[b].base = base =>
                single = b /\ (browser[b].late \/ \A a \in Instance : clear[a].at # "looked")
\* What was there when a clearing began is detached once it renamed the root, and on its list.
Gathered(a) == /\ clear[a].at \in {"renamed", "removing"} => base \notin clear[a].had
               /\ clear[a].at = "removing" => clear[a].had \cap detached \subseteq clear[a].todo
\* The inductive invariant of the clearings.
ClearInv == ClearTypes /\ RunningKeepsRoot /\ (\A b \in BrowserId : Holds(b)) /\ \A a \in Instance : Gathered(a)

\* It holds of any directory as first found.
LEMMA ClearBegins == ClearInit => ClearInv
<1> SUFFICES ASSUME ClearInit PROVE ClearInv
  OBVIOUS
<1>1. NoClear \in Clearing /\ NoClear.had = {} /\ NoClear.at = "idle"
  BY DEF NoClear, Clearing, ClearStages
<1>2. \A a \in Instance : clear[a] = NoClear
  BY DEF ClearInit
<1>3. \A b \in BrowserId : browser[b] = [own |-> Lost, at |-> "new", base |-> 0, late |-> FALSE]
  BY DEF ClearInit
<1>4. \A b \in BrowserId : browser[b].own = Lost /\ browser[b].at = "new" /\ browser[b].base = 0
                                /\ browser[b].late = FALSE
  BY <1>3
<1>5. ClearTypes
  <2>1. clear \in [Instance -> Clearing] /\ \A a \in Instance : clear[a].had \subseteq 1..roots
    BY <1>1, <1>2 DEF ClearInit
  <2>2. browser \in [BrowserId -> BrowserOf]
    BY ClearAssumption DEF ClearInit, BrowserOf
  <2>3. base = 0 /\ roots = 0 /\ detached = {} /\ single = "free"
    BY DEF ClearInit
  <2> QED BY <1>3, <1>4, <2>1, <2>2, <2>3, ClearAssumption DEF ClearTypes, Opened
<1> QED BY <1>1, <1>2, <1>4, <1>5 DEF ClearInv, RunningKeepsRoot, Holds, Gathered

\* What a change of one clearing leaves to show.
LEMMA ClearSets ==
  ASSUME ClearInv, NEW a \in Instance, NEW c \in Clearing, clear' = [clear EXCEPT ![a] = c],
         UNCHANGED <<roots, browser>>, base' \in {base, 0}, single' \in BrowserId \cup {"stale", "free"},
         detached' \in SUBSET (1..roots),
         c.had \subseteq 1..roots,
         c.at \in {"renamed", "removing"} => base' \notin c.had,
         c.at = "removing" => c.had \cap detached' \subseteq c.todo,
         detached' \subseteq detached \cup {base},
         base' = base => single' = single,
         base' # base => \A b \in BrowserId :
                           browser[b].at = "running" => browser[b].base # base \/ browser[b].late,
         c.at = "looked" => \A b \in BrowserId : Holds(b) /\ browser[b].at = "running" /\ browser[b].base = base
                                                    => browser[b].late
  PROVE  ClearInv'
<1>1. clear' \in [Instance -> Clearing] /\ clear'[a] = c /\ \A i \in Instance \ {a} : clear'[i] = clear[i]
  BY DEF ClearInv, ClearTypes
<1>2. ClearTypes'
  <2>1. \A i \in Instance : clear'[i].had \subseteq 1..roots
    BY <1>1 DEF ClearInv, ClearTypes
  <2> QED BY <1>1, <2>1, ClearAssumption DEF ClearInv, ClearTypes
<1>3. ASSUME NEW b \in BrowserId PROVE Holds(b)'
  <2>1. CASE base' = base
    BY <1>1, <2>1 DEF ClearInv, Holds
  <2>2. CASE base' # base
    <3>1. base' = 0 /\ (browser[b].at = "running" => browser[b].base # 0)
      BY <2>2 DEF ClearInv, ClearTypes, Opened
    <3> QED BY <3>1 DEF Holds
  <2> QED BY <2>1, <2>2
<1>4. RunningKeepsRoot'
  BY DEF ClearInv, RunningKeepsRoot, ClearTypes
<1>5. ASSUME NEW i \in Instance PROVE Gathered(i)'
  <2>1. CASE i = a
    BY <1>1, <2>1 DEF Gathered
  <2>2. CASE i # a
    <3>1. clear'[i] = clear[i] /\ 0 \notin clear[i].had /\ Gathered(i)
      BY <1>1, <2>2, ClearAssumption DEF ClearInv, ClearTypes
    <3> QED BY <3>1 DEF Gathered
  <2> QED BY <2>1, <2>2
<1> QED BY <1>2, <1>3, <1>4, <1>5 DEF ClearInv

\* A browser and a clearing with some of their fields set.
Given(q, o)      == [q EXCEPT !.own = o]
\* A browser and a clearing after one of their steps.
Launched(q, o)   == [q EXCEPT !.own = o, !.at = "started"]
Moved(q, s)      == [q EXCEPT !.at = s]
OpenedAt(q, d)   == [q EXCEPT !.at = "opened", !.base = d]
Took(q, l)       == [q EXCEPT !.at = "running", !.late = l]
Turned(c, s)     == [c EXCEPT !.at = s]
BegunWith(c, H)  == [c EXCEPT !.at = "begun", !.had = H]
Listed(c, T)     == [c EXCEPT !.at = "removing", !.todo = T]
Left(c, T)       == [c EXCEPT !.todo = T]

\* What each of them leaves, field by field.
LEMMA GivenIs == ASSUME NEW q \in BrowserOf, NEW o \in Instance \cup {Lost}
                 PROVE  /\ Given(q, o) \in BrowserOf /\ Given(q, o).at = q.at
                        /\ Given(q, o).base = q.base /\ Given(q, o).late = q.late
BY DEF Given, BrowserOf

\* A browser that was launched.
LEMMA LaunchedIs == ASSUME NEW q \in BrowserOf, NEW o \in Instance
                    PROVE  /\ Launched(q, o) \in BrowserOf /\ Launched(q, o).at = "started"
                           /\ Launched(q, o).base = q.base
BY DEF Launched, BrowserOf

\* A browser at its next stage.
LEMMA MovedIs == ASSUME NEW q \in BrowserOf, NEW s \in {"started", "ended", "failed"}
                 PROVE  Moved(q, s) \in BrowserOf /\ Moved(q, s).at = s /\ Moved(q, s).base = q.base
BY DEF Moved, BrowserOf

\* A browser that opened the root it found or made.
LEMMA OpenedAtIs == ASSUME NEW q \in BrowserOf, NEW d \in 0..MaxRoots
                    PROVE  OpenedAt(q, d) \in BrowserOf /\ OpenedAt(q, d).at = "opened" /\ OpenedAt(q, d).base = d
BY DEF OpenedAt, BrowserOf

\* A browser that took its root's singleton.
LEMMA TookIs == ASSUME NEW q \in BrowserOf, NEW l \in BOOLEAN
                PROVE  /\ Took(q, l) \in BrowserOf /\ Took(q, l).at = "running"
                       /\ Took(q, l).base = q.base /\ Took(q, l).late = l
BY DEF Took, BrowserOf

\* A clearing at its next stage.
LEMMA TurnedIs == ASSUME NEW c \in Clearing, NEW s \in ClearStages
                  PROVE  Turned(c, s) \in Clearing /\ Turned(c, s).at = s /\ Turned(c, s).had = c.had
BY DEF Turned, Clearing

\* A clearing that begins with what is there.
LEMMA BegunIs == ASSUME NEW c \in Clearing, NEW H \in SUBSET (1..MaxRoots)
                 PROVE  BegunWith(c, H) \in Clearing /\ BegunWith(c, H).at = "begun" /\ BegunWith(c, H).had = H
BY DEF BegunWith, Clearing, ClearStages

\* A clearing that listed what to remove.
LEMMA ListedIs == ASSUME NEW c \in Clearing, NEW T \in SUBSET (1..MaxRoots)
                  PROVE  /\ Listed(c, T) \in Clearing /\ Listed(c, T).at = "removing"
                         /\ Listed(c, T).had = c.had /\ Listed(c, T).todo = T
BY DEF Listed, Clearing, ClearStages

\* A clearing that removed one of them.
LEMMA LeftIs == ASSUME NEW c \in Clearing, NEW T \in SUBSET (1..MaxRoots)
                PROVE  Left(c, T) \in Clearing /\ Left(c, T).at = c.at /\ Left(c, T).had = c.had
                       /\ Left(c, T).todo = T
BY DEF Left, Clearing

\* What a change of one browser leaves to show.
LEMMA BrowserSets ==
  ASSUME ClearInv, NEW b \in BrowserId, NEW r \in BrowserOf,
         browser' = [browser EXCEPT ![b] = r],
         UNCHANGED clear, roots' \in {roots, roots + 1}, roots' \in 0..MaxRoots,
         base' \in {base, roots'}, base' \in 0..roots', base' # base => base = 0 /\ roots' = roots + 1,
         single' \in BrowserId \cup {"stale", "free"}, detached' \in SUBSET detached,
         r.base \in 0..roots', r.at \in Opened => r.base # 0,
         r.at = "running" => /\ r.base = base' \/ r.late
                             /\ r.base = base' => /\ single' = b
                                                  /\ (r.late \/ \A a \in Instance : clear[a].at # "looked"),
         base' = base /\ single' # single => single = b \/ single \notin BrowserId
  PROVE  ClearInv'
<1>1. browser'[b] = r /\ \A i \in BrowserId \ {b} : browser'[i] = browser[i]
  BY DEF ClearInv, ClearTypes
<1>2. ClearTypes'
  <2>1. browser' \in [BrowserId -> BrowserOf]
    BY DEF ClearInv, ClearTypes
  <2>2. ASSUME NEW i \in BrowserId
        PROVE  browser'[i].base \in 0..roots' /\ (browser'[i].at \in Opened => browser'[i].base # 0)
    <3>1. CASE i = b
      BY <1>1, <3>1
    <3>2. CASE i # b
      BY <1>1, <3>2 DEF ClearInv, ClearTypes
    <3> QED BY <3>1, <3>2
  <2>3. \A a \in Instance : clear'[a].had \subseteq 1..roots'
    BY DEF ClearInv, ClearTypes
  <2>4. detached' \in SUBSET (1..roots') /\ clear' \in [Instance -> Clearing]
    BY DEF ClearInv, ClearTypes
  <2> QED BY <2>1, <2>2, <2>3, <2>4 DEF ClearTypes
<1>3. ASSUME NEW i \in BrowserId PROVE Holds(i)'
  <2>1. CASE i = b
    <3>1. browser'[i].at = r.at /\ browser'[i].base = r.base /\ browser'[i].late = r.late /\ clear' = clear
      BY <1>1, <2>1
    <3> QED BY <2>1, <3>1 DEF Holds
  <2>2. CASE i # b /\ base' = base
    BY <1>1, <2>2 DEF ClearInv, Holds
  <2>3. CASE i # b /\ base' # base
    <3>1. browser'[i].base \in 0..roots /\ base' = roots + 1 /\ roots \in Nat
      BY <1>1, <2>3 DEF ClearInv, ClearTypes
    <3> QED BY <3>1 DEF Holds
  <2> QED BY <2>1, <2>2, <2>3
<1>4. RunningKeepsRoot'
  <2> SUFFICES ASSUME NEW i \in BrowserId, browser'[i].at = "running"
               PROVE  browser'[i].base = base' \/ browser'[i].late
    BY DEF RunningKeepsRoot
  <2>1. CASE i = b
    BY <1>1, <2>1
  <2>2. CASE i # b
    BY <1>1, <2>2 DEF ClearInv, RunningKeepsRoot, ClearTypes, Opened
  <2> QED BY <2>1, <2>2
<1>5. ASSUME NEW i \in Instance PROVE Gathered(i)'
  <2>1. Gathered(i) /\ clear'[i] = clear[i] /\ clear[i].had \subseteq 1..roots /\ roots \in Nat
    BY DEF ClearInv, ClearTypes
  <2>2. base' = base \/ base' = roots + 1
    OBVIOUS
  <2> QED BY <2>1, <2>2 DEF Gathered
<1> QED BY <1>2, <1>3, <1>4, <1>5 DEF ClearInv

\* What becomes of browsers whose App is gone, or had them released.
LEMMA LostKeeps ==
  ASSUME ClearInv, NEW a \in Instance, NEW c \in Clearing, clear' = [clear EXCEPT ![a] = c],
         c.had \subseteq 1..roots, c.at \notin {"looked", "renamed", "removing"},
         browser' = [b \in BrowserId |-> IF browser[b].own = a THEN [browser[b] EXCEPT !.own = Lost]
                                         ELSE browser[b]],
         UNCHANGED <<base, detached, roots, single>>
  PROVE  ClearInv'
<1>1. clear' \in [Instance -> Clearing] /\ clear'[a] = c /\ \A i \in Instance \ {a} : clear'[i] = clear[i]
  BY DEF ClearInv, ClearTypes
<1>2. ASSUME NEW b \in BrowserId
      PROVE  /\ browser'[b] \in BrowserOf
             /\ browser'[b].at = browser[b].at /\ browser'[b].base = browser[b].base
             /\ browser'[b].late = browser[b].late
  <2>1. browser[b] \in BrowserOf /\ 0 \in 0..MaxRoots
    BY ClearAssumption DEF ClearInv, ClearTypes
  <2>2. browser'[b] = IF browser[b].own = a THEN Given(browser[b], Lost) ELSE browser[b]
    BY DEF Given
  <2> QED BY <2>1, <2>2, GivenIs
<1>3. ClearTypes'
  <2>1. \A i \in Instance : clear'[i].had \subseteq 1..roots
    BY <1>1 DEF ClearInv, ClearTypes
  <2> QED BY <1>1, <1>2, <2>1 DEF ClearInv, ClearTypes
<1>4. ASSUME NEW b \in BrowserId PROVE Holds(b)'
  BY <1>1, <1>2 DEF ClearInv, Holds
<1>5. RunningKeepsRoot'
  BY <1>2 DEF ClearInv, RunningKeepsRoot
<1>6. ASSUME NEW i \in Instance PROVE Gathered(i)'
  BY <1>1 DEF ClearInv, Gathered
<1> QED BY <1>3, <1>4, <1>5, <1>6 DEF ClearInv

\* Every step of an App, of a browser and of another program keeps it.
LEMMA ClearKept == ClearInv /\ [ClearNext]_clearVars => ClearInv'
<1> SUFFICES ASSUME ClearInv, [ClearNext]_clearVars PROVE ClearInv'
  OBVIOUS
<1>0. /\ roots \in 0..MaxRoots /\ MaxRoots \in Nat /\ base \in 0..roots /\ detached \in SUBSET (1..roots)
      /\ single \in BrowserId \cup {"stale", "free"}
      /\ \A b \in BrowserId : /\ browser[b] \in BrowserOf
                             /\ browser[b].base \in 0..roots /\ (browser[b].at \in Opened => browser[b].base # 0)
      /\ \A a \in Instance : /\ clear[a] \in Clearing /\ clear[a].had \subseteq 1..roots
  BY ClearAssumption DEF ClearInv, ClearTypes
<1>n. NoClear \in Clearing /\ NoClear.had = {} /\ NoClear.at = "idle"
  BY DEF NoClear, Clearing, ClearStages
<1>1. ASSUME NEW a \in Instance, NEW b \in BrowserId, Launch(a, b) PROVE ClearInv'
  <2>1. PICK r \in BrowserOf : r = Launched(browser[b], a) /\ r.at = "started" /\ r.base = browser[b].base
    BY <1>0, LaunchedIs
  <2>2. /\ browser' = [browser EXCEPT ![b] = r] /\ UNCHANGED <<base, roots, single, clear>>
        /\ detached' \in SUBSET detached
    BY <1>1, <2>1 DEF Launch, Launched
  <2> QED BY <1>0, <2>1, <2>2, BrowserSets DEF Opened
<1>2. ASSUME NEW b \in BrowserId, OpensRoot(b) PROVE ClearInv'
  <2>1. ASSUME base' \in 0..roots', roots' \in 0..MaxRoots, base' # 0, base' \in {base, roots'},
               roots' \in {roots, roots + 1},
               base' # base => base = 0 /\ roots' = roots + 1 /\ single' = "free",
               base' = base => single' = single
        PROVE  ClearInv'
    <3>1. PICK d \in 0..MaxRoots : d = base'
      BY <1>0, <2>1
    <3>2. PICK r \in BrowserOf : r = OpenedAt(browser[b], d) /\ r.at = "opened" /\ r.base = d
      BY <1>0, OpenedAtIs
    <3>3. browser' = [browser EXCEPT ![b] = r] /\ UNCHANGED <<detached, clear>>
      BY <1>2, <3>1, <3>2 DEF OpensRoot, OpenedAt
    <3> QED BY <1>0, <2>1, <3>1, <3>2, <3>3, BrowserSets DEF Opened
  <2> QED BY <1>0, <1>2, <2>1 DEF OpensRoot
<1>3. ASSUME NEW b \in BrowserId, TakesSingleton(b) PROVE ClearInv'
  <2>1. browser[b].at = "opened" /\ UNCHANGED <<base, detached, roots, clear>>
    BY <1>3 DEF TakesSingleton
  <2>2. ASSUME NEW s \in {"started", "ended"}, browser' = [browser EXCEPT ![b].at = s], UNCHANGED single
        PROVE  ClearInv'
    <3>1. PICK r \in BrowserOf : r = Moved(browser[b], s) /\ r.at = s /\ r.base = browser[b].base
      BY <1>0, MovedIs
    <3>2. browser' = [browser EXCEPT ![b] = r]
      BY <2>2, <3>1 DEF Moved
    <3> QED BY <1>0, <2>1, <2>2, <3>1, <3>2, BrowserSets DEF Opened
  <2>3. CASE /\ base = browser[b].base /\ ~Busy /\ single' = b
             /\ browser' = [browser EXCEPT ![b] = [@ EXCEPT !.at = "running",
                                !.late = \E a \in Instance : clear[a].at = "looked"]]
    <3>1. PICK l \in BOOLEAN : l = (\E a \in Instance : clear[a].at = "looked")
      OBVIOUS
    <3>2. PICK r \in BrowserOf : /\ r = Took(browser[b], l)
                                 /\ r.at = "running" /\ r.base = browser[b].base /\ r.late = l
      BY <1>0, TookIs
    <3>4. browser' = [browser EXCEPT ![b] = r]
      BY <2>3, <3>1, <3>2 DEF Took
    <3>5. r.at = "running" => /\ r.base = base' \/ r.late
                              /\ r.base = base' => /\ single' = b
                                                   /\ (r.late \/ \A a \in Instance : clear[a].at # "looked")
      BY <2>1, <2>3, <3>1, <3>2
    <3> QED BY <1>0, <2>1, <2>3, <3>2, <3>4, <3>5, BrowserSets DEF Opened, Busy
  <2> QED BY <1>3, <2>2, <2>3 DEF TakesSingleton
<1>4. ASSUME NEW b \in BrowserId, NEW ok \in BOOLEAN, Quit(b, ok) PROVE ClearInv'
  <2>1. PICK s \in {"ended", "failed"} : s = (IF ok THEN "ended" ELSE "failed")
    OBVIOUS
  <2>2. PICK r \in BrowserOf : r = Moved(browser[b], s) /\ r.at = s /\ r.base = browser[b].base
    BY <1>0, MovedIs
  <2>3. /\ browser' = [browser EXCEPT ![b] = r] /\ UNCHANGED <<base, detached, roots, clear>>
        /\ single' = IF single # b THEN single ELSE IF ok THEN "free" ELSE "stale"
    BY <1>4, <2>1, <2>2 DEF Quit, Moved
  <2> QED BY <1>0, <2>2, <2>3, BrowserSets DEF Opened
<1>5. ASSUME NEW a \in Instance, AppCrashes(a) PROVE ClearInv'
  BY <1>5, <1>n, LostKeeps DEF AppCrashes
<1>6. ASSUME NEW a \in Instance, Begin(a) PROVE ClearInv'
  <2>1. Present \in SUBSET (1..MaxRoots) /\ Present \subseteq 1..roots /\ "begun" \in ClearStages
    BY <1>0 DEF Present, ClearStages
  <2>2. PICK c \in Clearing : c = BegunWith(NoClear, Present) /\ c.at = "begun" /\ c.had = Present
    BY <1>n, <2>1, BegunIs
  <2>3. clear' = [clear EXCEPT ![a] = c]
    BY <1>6, <2>2 DEF Begin, BegunWith
  <2> QED BY <1>6, <2>1, <2>2, <2>3, LostKeeps DEF Begin
<1>7. ASSUME NEW a \in Instance, Look(a) PROVE ClearInv'
  <2>1. clear[a].at = "begun" /\ UNCHANGED <<base, detached, roots, single, browser>>
    BY <1>7 DEF Look
  <2>3. CASE base = 0 /\ clear' = [clear EXCEPT ![a].at = "renamed"]
    <3>1. PICK c \in Clearing : c = Turned(clear[a], "renamed") /\ c.at = "renamed" /\ c.had = clear[a].had
      BY <1>0, TurnedIs DEF ClearStages
    <3>2. clear' = [clear EXCEPT ![a] = c]
      BY <2>3, <3>1 DEF Turned
    <3>3. c.had \subseteq 1..roots /\ base' \notin c.had /\ detached' \in SUBSET (1..roots) /\ base' \in {base, 0}
      BY <1>0, <2>1, <2>3, <3>1
    <3>4. c.at # "looked" /\ c.at # "removing"
      BY <3>1
    <3> QED BY <1>0, <2>1, <3>2, <3>3, <3>4, ClearSets
  <2>4. CASE base # 0 /\ ~Busy /\ clear' = [clear EXCEPT ![a].at = "looked"]
    <3>1. PICK c \in Clearing : c = Turned(clear[a], "looked") /\ c.at = "looked" /\ c.had = clear[a].had
      BY <1>0, TurnedIs DEF ClearStages
    <3>2. clear' = [clear EXCEPT ![a] = c]
      BY <2>4, <3>1 DEF Turned
    <3>3. \A b \in BrowserId : Holds(b) /\ browser[b].at = "running" /\ browser[b].base = base => browser[b].late
      BY <2>4 DEF Busy, Holds
    <3> QED BY <1>0, <2>1, <2>4, <3>1, <3>2, <3>3, ClearSets
  <2>5. CASE clear' = [clear EXCEPT ![a] = NoClear]
    BY <1>0, <1>n, <2>1, <2>5, ClearSets
  <2> QED BY <1>7, <2>3, <2>4, <2>5 DEF Look
<1>8. ASSUME NEW a \in Instance, Detach(a) PROVE ClearInv'
  <2>1. clear[a].at = "looked" /\ UNCHANGED <<roots, browser>>
    BY <1>8 DEF Detach
  <2>2. CASE base = 0 /\ clear' = [clear EXCEPT ![a] = NoClear] /\ UNCHANGED <<base, detached, single>>
    BY <1>0, <1>n, <2>1, <2>2, ClearSets
  <2>3. CASE /\ base # 0 /\ clear' = [clear EXCEPT ![a].at = "renamed"]
             /\ detached' = detached \cup {base} /\ base' = 0 /\ single' = "free"
    <3>1. PICK c \in Clearing : c = Turned(clear[a], "renamed") /\ c.at = "renamed" /\ c.had = clear[a].had
      BY <1>0, TurnedIs DEF ClearStages
    <3>2. clear' = [clear EXCEPT ![a] = c]
      BY <2>3, <3>1 DEF Turned
    <3>3. \A b \in BrowserId : browser[b].at = "running" => browser[b].base # base \/ browser[b].late
      BY <2>1 DEF ClearInv, Holds
    <3>4. detached' \in SUBSET (1..roots) /\ 0 \notin c.had
      BY <1>0, <2>3, <3>1
    <3> QED BY <1>0, <2>1, <2>3, <3>1, <3>2, <3>3, <3>4, ClearSets
  <2> QED BY <1>8, <2>2, <2>3 DEF Detach
<1>9. ASSUME NEW a \in Instance, ListDetached(a) PROVE ClearInv'
  <2>1. clear[a].at = "renamed" /\ UNCHANGED <<base, detached, roots, single, browser>>
    BY <1>9 DEF ListDetached
  <2>2. "removing" \in ClearStages /\ detached \in SUBSET (1..MaxRoots)
    BY <1>0 DEF ClearStages
  <2>3. PICK c \in Clearing : /\ c = Listed(clear[a], detached)
                              /\ c.at = "removing" /\ c.had = clear[a].had /\ c.todo = detached
    BY <1>0, <2>2, ListedIs
  <2>4. clear' = [clear EXCEPT ![a] = c]
    BY <1>9, <2>3 DEF ListDetached, Listed
  <2>5. base \notin clear[a].had
    BY <2>1 DEF ClearInv, Gathered
  <2> QED BY <1>0, <2>1, <2>3, <2>4, <2>5, ClearSets
<1>10. ASSUME NEW a \in Instance, RemoveOne(a) PROVE ClearInv'
  <2>1. PICK d \in clear[a].todo :
          IF d \in detached THEN detached' = detached \ {d} /\ clear' = [clear EXCEPT ![a].todo = @ \ {d}]
          ELSE clear' = [clear EXCEPT ![a] = NoClear] /\ UNCHANGED detached
    BY <1>10 DEF RemoveOne
  <2>2. clear[a].at = "removing" /\ UNCHANGED <<base, roots, single, browser>> /\ Gathered(a)
    BY <1>10 DEF RemoveOne, ClearInv
  <2>3. CASE d \in detached
    <3>1. clear[a].todo \ {d} \in SUBSET (1..MaxRoots) /\ "idle" \in ClearStages
      BY <1>0 DEF Clearing, ClearStages
    <3>2. PICK c \in Clearing : /\ c = Left(clear[a], clear[a].todo \ {d})
                                /\ c.at = clear[a].at /\ c.had = clear[a].had /\ c.todo = clear[a].todo \ {d}
      BY <1>0, <3>1, LeftIs
    <3>3. clear' = [clear EXCEPT ![a] = c] /\ detached' = detached \ {d}
      BY <2>1, <2>3, <3>2 DEF Left
    <3>4. base \notin c.had /\ c.had \cap detached' \subseteq c.todo
      BY <2>2, <3>2, <3>3 DEF Gathered
    <3> QED BY <1>0, <2>2, <3>2, <3>3, <3>4, ClearSets
  <2>4. CASE d \notin detached
    BY <1>0, <1>n, <2>1, <2>2, <2>4, ClearSets
  <2> QED BY <2>3, <2>4
<1>11. ASSUME NEW a \in Instance, Answer(a) PROVE ClearInv'
  BY <1>0, <1>n, <1>11, ClearSets DEF Answer
<1>12. CASE UNCHANGED clearVars
  BY <1>12 DEF clearVars, ClearInv, ClearTypes, RunningKeepsRoot, Holds, Gathered
<1> QED BY <1>1, <1>2, <1>3, <1>4, <1>5, <1>6, <1>7, <1>8, <1>9, <1>10, <1>11, <1>12 DEF ClearNext

\* It is stronger than the two properties of clearing.
LEMMA ClearShows == ClearInv => RunningKeepsRoot /\ ClearedIsGone
<1> SUFFICES ASSUME ClearInv PROVE RunningKeepsRoot /\ ClearedIsGone
  OBVIOUS
<1>1. ASSUME NEW a \in Instance, Cleared(a) PROVE clear[a].had \cap Present = {}
  <2>1. Gathered(a) /\ clear[a].at = "removing" /\ clear[a].todo = {}
    BY <1>1 DEF ClearInv, Cleared
  <2> QED BY <2>1 DEF Gathered, Present
<1> QED BY <1>1 DEF ClearInv, ClearedIsGone

\* However many Apps clear, launch, crash and are started again over one cache root, a browser that runs keeps
\* its root unless it took the singleton after the clearing had looked, and a clearing that is reported as done
\* left nothing of what was there when it began (process_adapter.rs).
THEOREM ProfileClearsSafely == ClearSpec => [](RunningKeepsRoot /\ ClearedIsGone)
BY ClearBegins, ClearKept, ClearShows, PTL DEF ClearSpec

------------------------------------------------------------------------------
\* The page a home resumes (ResumeNavigation).

\* The types of the code's state and of a load.
NavOf    == [current : Nat, starts : Nat, pending : BOOLEAN, success : BOOLEAN, previous : BOOLEAN,
             committed : BOOLEAN, failed : BOOLEAN, blocked : Url \cup {NoUrl}]
LoadOf   == [id : Nat, url : Url \cup {NoUrl}, at : {"none", "started", "committed"}]
NavTypes == /\ engine \in {"gtk", "webview2", "webkit"} /\ doc \in Url \cup {NoUrl, "error", "broken"}
            /\ uri \in Url \cup {NoUrl} /\ saved \in Url \cup {NoUrl} /\ load \in LoadOf /\ stale \in SUBSET Nat
            /\ settling \in BOOLEAN /\ nav \in NavOf /\ shown \in SUBSET Url
\* The load under way is the one that is pending; what is superseded is older.
LoadPends == /\ nav.pending <=> Loading
             /\ Loading => load.url \in Url /\ load.id = nav.starts /\ (engine # "gtk" => nav.current = load.id)
             /\ engine # "gtk" => nav.current <= nav.starts
             /\ \A id \in stale : engine = "webview2" /\ id <= nav.starts /\ (Loading => id < load.id)
             /\ load.at = "committed" => nav.committed /\ (doc # "error" => doc = load.url /\ uri = doc)
             /\ engine = "webkit" /\ Loading => uri = load.url
\* Success is of the document shown, and of the one before a load until it commits.
SuccessShows == /\ nav.pending => (nav.success <=> ~nav.committed /\ nav.previous)
                /\ nav.success => doc \in shown
                /\ engine # "gtk" /\ AtRest(nav) /\ uri \in Url /\ uri # nav.blocked => uri \in shown
\* The inductive invariant of resume navigation.
NavInv == NavTypes /\ LoadPends /\ SuccessShows /\ SavedWasShown /\ GtkRestsSaved

\* A load that was started, and one that was committed.
MoreStarts(q) == [q EXCEPT !.starts = @ + 1]
Committed(q)  == [q EXCEPT !.at = "committed"]

\* A load that was committed.
LEMMA CommittedIs == ASSUME NEW q \in LoadOf
                     PROVE  /\ Committed(q) \in LoadOf /\ Committed(q).id = q.id /\ Committed(q).url = q.url
                            /\ Committed(q).at = "committed"
BY DEF Committed, LoadOf

\* What each operation of the code's state returns, field by field.
LEMMA BeginNavIs == ASSUME NEW n \in NavOf, NEW id \in Nat, ~(n.pending /\ n.current = id)
                    PROVE  /\ BeginNav(n, id) \in NavOf /\ BeginNav(n, id).current = id
                           /\ BeginNav(n, id).starts = n.starts
                           /\ BeginNav(n, id).pending = TRUE /\ BeginNav(n, id).success = n.success
                           /\ BeginNav(n, id).previous = n.success /\ BeginNav(n, id).committed = FALSE
                           /\ BeginNav(n, id).failed = FALSE /\ BeginNav(n, id).blocked = n.blocked
BY DEF BeginNav, NavOf

\* The number of loads started grows.
LEMMA MoreStartsIs == ASSUME NEW n \in NavOf
                      PROVE  /\ MoreStarts(n) \in NavOf /\ MoreStarts(n).current = n.current
                             /\ MoreStarts(n).starts = n.starts + 1
                             /\ MoreStarts(n).pending = n.pending /\ MoreStarts(n).success = n.success
                             /\ MoreStarts(n).previous = n.previous /\ MoreStarts(n).committed = n.committed
                             /\ MoreStarts(n).failed = n.failed /\ MoreStarts(n).blocked = n.blocked
BY DEF MoreStarts, NavOf

\* A commit keeps the load and says whether it shows an error.
LEMMA CommitNavIs == ASSUME NEW n \in NavOf, n.pending, NEW error \in BOOLEAN
                     PROVE  LET c == CommitNav(n, n.current, error)
                            IN /\ c \in NavOf /\ c.current = n.current /\ c.starts = n.starts /\ c.pending = TRUE
                               /\ c.success = FALSE /\ c.committed = TRUE /\ c.blocked = n.blocked
BY DEF CommitNav, NavOf

\* A load that finished well and did not fail shows what it was for.
LEMMA FinishNavOk == ASSUME NEW n \in NavOf, n.pending, NEW u
                     PROVE  LET c == FinishNav(n, n.current, TRUE, u)
                            IN ~n.failed => /\ c \in NavOf /\ c.current = n.current /\ c.starts = n.starts
                                            /\ c.pending = FALSE
                                            /\ c.success = TRUE /\ c.blocked = NoUrl
BY NavigationAssumption DEF FinishNav, NavOf

\* A load that finished badly is none.
LEMMA FinishNavFails == ASSUME NEW n \in NavOf, n.pending, NEW u \in Url \cup {NoUrl}
                     PROVE  LET c == FinishNav(n, n.current, FALSE, u)
                            IN /\ c \in NavOf /\ c.current = n.current /\ c.starts = n.starts /\ c.pending = FALSE
                               /\ c.success = (~n.committed /\ n.previous /\ u # NoUrl) /\ c.blocked = u
<1>1. (~n.committed /\ n.previous /\ u # NoUrl) \in BOOLEAN
  OBVIOUS
<1>2. FinishNav(n, n.current, FALSE, u) = [n EXCEPT !.pending = FALSE, !.failed = TRUE, !.blocked = u,
                                             !.success = ~n.committed /\ n.previous /\ u # NoUrl]
  BY DEF FinishNav
<1> QED BY <1>1, <1>2 DEF NavOf

\* Nor is one that had failed before.
LEMMA FinishNavBroken == ASSUME NEW n \in NavOf, n.pending, NEW u \in Url \cup {NoUrl}, n.failed
                     PROVE  LET c == FinishNav(n, n.current, TRUE, u)
                            IN /\ c \in NavOf /\ c.current = n.current /\ c.starts = n.starts /\ c.pending = FALSE
                               /\ c.success = (~n.committed /\ n.previous /\ u # NoUrl) /\ c.blocked = u
<1>1. (~n.committed /\ n.previous /\ u # NoUrl) \in BOOLEAN
  OBVIOUS
<1>2. FinishNav(n, n.current, TRUE, u) = [n EXCEPT !.pending = FALSE, !.failed = TRUE, !.blocked = u,
                                             !.success = ~n.committed /\ n.previous /\ u # NoUrl]
  BY DEF FinishNav
<1> QED BY <1>1, <1>2 DEF NavOf
\* A load that ended on GTK's own page was no success.
Unsuccessful(q, stock) == [q EXCEPT !.success = @ /\ ~stock]

\* It is the same otherwise.
LEMMA UnsuccessfulIs == ASSUME NEW n \in NavOf, NEW stock \in BOOLEAN
                        PROVE  LET c == Unsuccessful(n, stock)
                               IN /\ c \in NavOf /\ c.current = n.current /\ c.starts = n.starts
                                  /\ c.pending = n.pending
                                  /\ c.success = (n.success /\ ~stock) /\ c.blocked = n.blocked
<1>1. (n.success /\ ~stock) \in BOOLEAN
  OBVIOUS
<1> QED BY <1>1 DEF Unsuccessful, NavOf

\* GTK's failure ends the load.
LEMMA GtkFailedIs == ASSUME NEW n \in NavOf, n.pending, NEW stock \in BOOLEAN, NEW u \in Url \cup {NoUrl}
                     PROVE  LET c == GtkFailed(n, stock, u)
                            IN /\ c \in NavOf /\ c.current = n.current /\ c.starts = n.starts /\ c.pending = FALSE
                               /\ c.success => ~n.committed /\ n.previous /\ ~stock
<1>1. PICK f \in NavOf : /\ f = FinishNav(n, n.current, FALSE, u) /\ f.current = n.current /\ f.starts = n.starts
                         /\ f.pending = FALSE /\ f.success = (~n.committed /\ n.previous /\ u # NoUrl)
  BY FinishNavFails
<1>2. GtkFailed(n, stock, u) = Unsuccessful(f, stock)
  BY <1>1 DEF GtkFailed, Unsuccessful
<1>3. /\ Unsuccessful(f, stock) \in NavOf /\ Unsuccessful(f, stock).current = f.current
      /\ Unsuccessful(f, stock).starts = f.starts /\ Unsuccessful(f, stock).pending = f.pending
      /\ Unsuccessful(f, stock).success = (f.success /\ ~stock)
  BY UnsuccessfulIs
<1> QED BY <1>1, <1>2, <1>3

\* It holds before the first load.
LEMMA NavBegins == NavInit => NavInv
<1> SUFFICES ASSUME NavInit PROVE NavInv
  OBVIOUS
<1>1. /\ engine \in {"gtk", "webview2", "webkit"} /\ doc = NoUrl /\ uri = NoUrl /\ load = NoLoad
      /\ stale = {} /\ settling = FALSE /\ saved = NoUrl /\ shown = {}
      /\ nav = [current |-> 0, starts |-> 0, pending |-> FALSE, success |-> FALSE, previous |-> FALSE,
                committed |-> FALSE, failed |-> FALSE, blocked |-> NoUrl]
  BY DEF NavInit
<1>2. nav \in NavOf /\ nav.pending = FALSE /\ nav.success = FALSE /\ nav.current = 0 /\ nav.starts = 0
  BY <1>1 DEF NavOf
<1>3. load \in LoadOf /\ load.at = "none"
  BY <1>1 DEF NoLoad, LoadOf
<1>4. ~Loading /\ doc \notin Safe /\ stale = {} /\ ~AtRest(nav)
  BY <1>1, <1>2, <1>3, NavigationAssumption DEF Loading, AtRest
<1>5. NavTypes
  BY <1>1, <1>2, <1>3 DEF NavTypes
<1>6. LoadPends /\ SuccessShows
  BY <1>1, <1>2, <1>3, <1>4 DEF LoadPends, SuccessShows
<1> QED BY <1>1, <1>4, <1>5, <1>6 DEF NavInv, SavedWasShown, GtkRestsSaved

\* What the invariant gives every step.
LEMMA NavFacts == ASSUME NavInv
                  PROVE  /\ nav \in NavOf /\ nav.pending \in BOOLEAN /\ nav.success \in BOOLEAN
                         /\ nav.current \in Nat
                         /\ nav.starts \in Nat /\ nav.committed \in BOOLEAN /\ nav.previous \in BOOLEAN
                         /\ nav.failed \in BOOLEAN /\ nav.blocked \in Url \cup {NoUrl}
                         /\ load \in LoadOf /\ load.id \in Nat /\ load.url \in Url \cup {NoUrl}
                         /\ load.at \in {"none", "started", "committed"}
                         /\ (Item = NoUrl <=> doc \notin Url) /\ (doc \in Url => Item = doc)
                         /\ NoUrl \notin Url /\ NoUrl \notin Safe /\ Safe \subseteq Url /\ "error" \notin Url
                         /\ "broken" \notin Url
BY NavigationAssumption DEF NavInv, NavTypes, NavOf, LoadOf, Item

\* A load starts, over another or not.
LEMMA StartSteps == ASSUME NavInv, NEW u \in Url, StartsLoad(u) PROVE NavInv'
<1> USE DEF NavInv
<1>f. /\ nav \in NavOf /\ nav.pending \in BOOLEAN /\ nav.success \in BOOLEAN /\ nav.current \in Nat
      /\ nav.starts \in Nat /\ nav.committed \in BOOLEAN /\ nav.previous \in BOOLEAN
      /\ nav.failed \in BOOLEAN /\ nav.blocked \in Url \cup {NoUrl}
      /\ load \in LoadOf /\ load.id \in Nat /\ load.url \in Url \cup {NoUrl}
      /\ load.at \in {"none", "started", "committed"}
      /\ (Item = NoUrl <=> doc \notin Url) /\ (doc \in Url => Item = doc)
      /\ NoUrl \notin Url /\ NoUrl \notin Safe /\ Safe \subseteq Url /\ "error" \notin Url /\ "broken" \notin Url
  BY NavFacts
<1>g. nav \in NavOf /\ load \in LoadOf /\ nav.current \in Nat
  BY <1>f
<1> DEFINE newId == IF engine = "gtk" THEN nav.current + 1 ELSE nav.starts + 1
<1>1. ~(nav.pending /\ nav.current = newId) /\ newId \in Nat
  BY <1>f DEF LoadPends
<1> HIDE DEF newId
<1>2. PICK b \in NavOf : /\ b = BeginNav(nav, newId) /\ b.current = newId /\ b.starts = nav.starts
                         /\ b.pending = TRUE
                         /\ b.success = nav.success /\ b.previous = nav.success /\ b.committed = FALSE
                         /\ b.blocked = nav.blocked
  BY <1>g, <1>1, BeginNavIs
<1>3. PICK n \in NavOf : /\ n = MoreStarts(b) /\ n.current = newId /\ n.starts = nav.starts + 1
                         /\ n.pending = TRUE
                         /\ n.success = nav.success /\ n.previous = nav.success /\ n.committed = FALSE
                         /\ n.blocked = nav.blocked
  BY <1>g, <1>2, MoreStartsIs
<1>4. nav' = n
  BY <1>f, <1>2, <1>3 DEF StartsLoad, MoreStarts, newId
<1>5. load' \in LoadOf /\ load'.id = nav.starts + 1 /\ load'.url = u /\ load'.at = "started"
  BY <1>f DEF StartsLoad, LoadOf
<1>6. /\ engine' = engine /\ doc' = doc /\ settling' = settling /\ saved' = saved /\ shown' = shown
      /\ uri' = (IF engine = "webview2" THEN uri ELSE u)
      /\ stale' = (IF Loading /\ engine = "webview2" THEN stale \cup {load.id} ELSE stale)
  BY <1>f DEF StartsLoad
<1>7. NavTypes'
  BY <1>f, <1>3, <1>4, <1>5, <1>6 DEF NavTypes
<1>8. LoadPends'
  <2>1. \A id \in stale' : engine = "webview2" /\ id \in Nat /\ id <= nav.starts
    BY <1>f, <1>6 DEF LoadPends, NavTypes
  <2>2. engine # "gtk" => newId = nav.starts + 1
    BY <1>f DEF newId
  <2> QED BY <1>f, <1>3, <1>4, <1>5, <1>6, <2>1, <2>2 DEF LoadPends, Loading
<1>9. SuccessShows'
  BY <1>f, <1>3, <1>4, <1>6 DEF SuccessShows, AtRest
<1> QED BY <1>f, <1>3, <1>4, <1>6, <1>7, <1>8, <1>9 DEF SavedWasShown, GtkRestsSaved, AtRest

\* A load commits.
LEMMA CommitSteps == ASSUME NavInv, CommitsLoad PROVE NavInv'
<1> USE DEF NavInv
<1>f. /\ nav \in NavOf /\ nav.pending \in BOOLEAN /\ nav.success \in BOOLEAN /\ nav.current \in Nat
      /\ nav.starts \in Nat /\ nav.committed \in BOOLEAN /\ nav.previous \in BOOLEAN
      /\ nav.failed \in BOOLEAN /\ nav.blocked \in Url \cup {NoUrl}
      /\ load \in LoadOf /\ load.id \in Nat /\ load.url \in Url \cup {NoUrl}
      /\ load.at \in {"none", "started", "committed"}
      /\ (Item = NoUrl <=> doc \notin Url) /\ (doc \in Url => Item = doc)
      /\ NoUrl \notin Url /\ NoUrl \notin Safe /\ Safe \subseteq Url /\ "error" \notin Url /\ "broken" \notin Url
  BY NavFacts
<1>g. nav \in NavOf /\ load \in LoadOf /\ nav.current \in Nat
  BY <1>f
<1>1. load.at = "started" /\ uri' = load.url /\ UNCHANGED <<engine, stale, settling, saved, shown>>
  BY <1>f DEF CommitsLoad
<1>2. Loading /\ nav.pending /\ load.url \in Url /\ (engine # "gtk" => nav.current = load.id)
  BY <1>f, <1>1 DEF Loading, LoadPends
<1>3. PICK error \in BOOLEAN : nav' = CommitNav(nav, nav.current, error)
  BY <1>f, <1>2 DEF CommitsLoad
<1>4. PICK n \in NavOf : /\ n = nav' /\ n.current = nav.current /\ n.starts = nav.starts /\ n.pending = TRUE
                         /\ n.success = FALSE /\ n.committed = TRUE /\ n.blocked = nav.blocked
  BY <1>g, <1>2, <1>3, CommitNavIs
<1>5. PICK w \in LoadOf : /\ w = Committed(load) /\ w.id = load.id /\ w.url = load.url /\ w.at = "committed"
  BY <1>g, CommittedIs
<1>6. load' = w /\ (doc' = load.url \/ (doc' = "error" /\ engine = "webview2"))
  BY <1>f, <1>5 DEF CommitsLoad, Committed
<1>7. NavTypes'
  BY <1>f, <1>1, <1>2, <1>4, <1>6 DEF NavTypes
<1>8. LoadPends'
  BY <1>f, <1>1, <1>2, <1>4, <1>5, <1>6 DEF LoadPends, Loading
<1>9. SuccessShows'
  BY <1>f, <1>1, <1>4, <1>5, <1>6 DEF SuccessShows, AtRest
<1> QED BY <1>f, <1>1, <1>4, <1>7, <1>8, <1>9 DEF SavedWasShown, GtkRestsSaved, AtRest

\* No load is a load at no stage.
LEMMA NoLoadIs == NoLoad \in LoadOf /\ NoLoad.at = "none"
BY DEF NoLoad, LoadOf

\* A load succeeds.
LEMMA FinishSteps == ASSUME NavInv, FinishesLoad PROVE NavInv'
<1> USE DEF NavInv
<1>f. /\ nav \in NavOf /\ nav.pending \in BOOLEAN /\ nav.success \in BOOLEAN /\ nav.current \in Nat
      /\ nav.starts \in Nat /\ nav.committed \in BOOLEAN /\ nav.previous \in BOOLEAN
      /\ nav.failed \in BOOLEAN /\ nav.blocked \in Url \cup {NoUrl}
      /\ load \in LoadOf /\ load.id \in Nat /\ load.url \in Url \cup {NoUrl}
      /\ load.at \in {"none", "started", "committed"}
      /\ (Item = NoUrl <=> doc \notin Url) /\ (doc \in Url => Item = doc)
      /\ NoUrl \notin Url /\ NoUrl \notin Safe /\ Safe \subseteq Url /\ "error" \notin Url /\ "broken" \notin Url
  BY NavFacts
<1>g. nav \in NavOf /\ load \in LoadOf /\ nav.current \in Nat
  BY <1>f
<1>1. load.at = "committed" /\ doc # "error" /\ load' = NoLoad /\ shown' = shown \cup {doc}
      /\ UNCHANGED <<engine, doc, uri, stale, settling>>
  BY <1>f DEF FinishesLoad
<1>2. Loading /\ nav.pending /\ load.url \in Url /\ (engine # "gtk" => nav.current = load.id) /\ nav.committed
      /\ doc = load.url /\ uri = doc /\ doc \in Url
  BY <1>f, <1>1 DEF Loading, LoadPends
<1>3. Sample = doc
  BY <1>f, <1>2 DEF Sample, DocumentUrl, Item
<1>4. nav' = FinishNav(nav, nav.current, TRUE, doc)
  BY <1>f, <1>2, <1>3 DEF FinishesLoad
<1>5. PICK n \in NavOf : /\ n = nav' /\ n.current = nav.current /\ n.starts = nav.starts /\ n.pending = FALSE
                         /\ \/ n.success = TRUE /\ n.blocked = NoUrl
                            \/ n.success = FALSE
  <2>1. CASE ~nav.failed
    BY <1>g, <1>2, <1>4, <2>1, FinishNavOk
  <2>2. CASE nav.failed
    <3>1. nav' \in NavOf /\ nav'.current = nav.current /\ nav'.starts = nav.starts /\ nav'.pending = FALSE
          /\ nav'.success = (~nav.committed /\ nav.previous /\ doc # NoUrl)
      BY <1>g, <1>2, <1>4, <2>2, FinishNavBroken
    <3> QED BY <1>f, <1>2, <3>1
  <2> QED BY <1>f, <2>1, <2>2
<1>6. saved' = ObservedUrl(n, doc)
  BY <1>f, <1>2, <1>3, <1>5 DEF FinishesLoad
<1>7. saved' \in {saved, doc} /\ (n.success /\ doc \in Safe => saved' = doc)
  BY <1>f, <1>2, <1>5, <1>6 DEF ObservedUrl, AtRest
<1>8. NavTypes'
  BY <1>f, <1>1, <1>2, <1>5, <1>7, NoLoadIs DEF NavTypes
<1>9. LoadPends'
  BY <1>f, <1>1, <1>5, NoLoadIs DEF LoadPends, Loading
<1>10. SuccessShows'
  BY <1>f, <1>1, <1>2, <1>5 DEF SuccessShows, AtRest
<1> QED BY <1>f, <1>1, <1>2, <1>5, <1>7, <1>8, <1>9, <1>10 DEF SavedWasShown, GtkRestsSaved, AtRest

\* A load fails, before its commit or after it.
LEMMA FailSteps == ASSUME NavInv, FailsLoad PROVE NavInv'
<1> USE DEF NavInv
<1>f. /\ nav \in NavOf /\ nav.pending \in BOOLEAN /\ nav.success \in BOOLEAN /\ nav.current \in Nat
      /\ nav.starts \in Nat /\ nav.committed \in BOOLEAN /\ nav.previous \in BOOLEAN
      /\ nav.failed \in BOOLEAN /\ nav.blocked \in Url \cup {NoUrl}
      /\ load \in LoadOf /\ load.id \in Nat /\ load.url \in Url \cup {NoUrl}
      /\ load.at \in {"none", "started", "committed"}
      /\ (Item = NoUrl <=> doc \notin Url) /\ (doc \in Url => Item = doc)
      /\ NoUrl \notin Url /\ NoUrl \notin Safe /\ Safe \subseteq Url /\ "error" \notin Url /\ "broken" \notin Url
  BY NavFacts
<1>g. nav \in NavOf /\ load \in LoadOf /\ nav.current \in Nat
  BY <1>f
<1>1. Loading /\ load' = NoLoad /\ doc' = (IF load.at = "committed" /\ doc # "error" THEN "broken" ELSE doc)
      /\ UNCHANGED <<engine, stale, shown>>
  BY <1>f DEF FailsLoad
<1>2. nav.pending /\ load.url \in Url /\ (engine # "gtk" => nav.current = load.id)
      /\ (load.at = "committed" => nav.committed) /\ (nav.success <=> ~nav.committed /\ nav.previous)
  BY <1>f, <1>1 DEF LoadPends, SuccessShows
<1>3. uri' \in {uri, IF Item = NoUrl THEN uri ELSE Item}
  BY <1>f DEF FailsLoad
<1>4. uri' \in Url \cup {NoUrl} /\ (uri' = uri \/ (doc \in Url /\ uri' = doc))
  BY <1>f, <1>3 DEF NavTypes
<1>5. /\ nav' \in NavOf /\ nav'.current = nav.current /\ nav'.starts = nav.starts /\ nav'.pending = FALSE
      /\ nav'.success => ~nav.committed /\ nav.previous
      /\ engine # "gtk" => nav'.blocked = IF engine = "webkit" THEN load.url ELSE uri
  <2>1. CASE engine # "gtk"
    <3>1. PICK u \in Url \cup {NoUrl} : u = IF engine = "webkit" THEN load.url ELSE uri
      BY <1>f DEF NavTypes
    <3>2. nav' = FinishNav(nav, nav.current, FALSE, u)
      BY <1>f, <1>2, <2>1, <3>1 DEF FailsLoad
    <3>3. /\ nav' \in NavOf /\ nav'.current = nav.current /\ nav'.starts = nav.starts /\ nav'.pending = FALSE
          /\ nav'.success = (~nav.committed /\ nav.previous /\ u # NoUrl) /\ nav'.blocked = u
      BY <1>g, <1>2, <3>2, FinishNavFails
    <3> QED BY <1>f, <3>1, <3>3
  <2>2. CASE engine = "gtk"
    <3>1. nav' = GtkFailed(nav, FALSE, load.url)
      BY <1>f, <2>2 DEF FailsLoad
    <3>2. /\ nav' \in NavOf /\ nav'.current = nav.current /\ nav'.starts = nav.starts /\ nav'.pending = FALSE
          /\ (nav'.success => ~nav.committed /\ nav.previous)
      BY <1>g, <1>2, <3>1, GtkFailedIs
    <3> QED BY <1>f, <2>2, <3>2
  <2> QED BY <1>f, <2>1, <2>2
<1>6. nav'.success => doc' = doc /\ doc \in shown /\ doc \in Url
  BY <1>f, <1>1, <1>2, <1>5 DEF SuccessShows, NavTypes
<1>7. doc' \in Url \cup {NoUrl, "error", "broken"}
  BY <1>f, <1>1 DEF NavTypes
<1>8. saved' = saved \/ (saved' = doc /\ doc \in shown)
  <2>1. CASE engine # "gtk"
    BY <1>f, <2>1 DEF FailsLoad
  <2>2. CASE engine = "gtk"
    <3>1. saved' = GtkHistory(nav')
      BY <1>f, <2>2 DEF FailsLoad
    <3>2. saved' = saved \/ (nav'.success /\ saved' = uri' /\ uri' \in Safe
                                /\ uri' = (IF doc' \in Url THEN doc' ELSE NoUrl))
      BY <1>f, <3>1 DEF GtkHistory, HistoryUrl, AtRest
    <3> QED BY <1>f, <1>6, <3>2
  <2> QED BY <1>f, <2>1, <2>2
<1>9. settling' \in BOOLEAN /\ (engine = "gtk" => settling' = TRUE)
  <2>1. settling \in BOOLEAN
    BY <1>f DEF NavTypes
  <2>2. CASE engine = "gtk"
    BY <1>f, <2>2 DEF FailsLoad
  <2>3. CASE engine # "gtk"
    <3>1. settling' = (settling \/ engine = "webkit")
      BY <1>f, <2>3 DEF FailsLoad
    <3> QED BY <1>f, <2>3, <3>1
  <2> QED BY <1>f, <2>2, <2>3
<1>10. NavTypes'
  BY <1>f, <1>1, <1>4, <1>5, <1>7, <1>8, <1>9, NoLoadIs DEF NavTypes
<1>11. LoadPends'
  BY <1>f, <1>1, <1>5, NoLoadIs DEF LoadPends, Loading
<1>12. SuccessShows'
  <2>1. engine # "gtk" /\ nav'.success /\ uri' \in Url /\ uri' # nav'.blocked => uri' \in shown
    <3>1. engine = "webkit" => uri = load.url
      BY <1>f, <1>1 DEF LoadPends
    <3>2. engine # "gtk" => nav'.blocked = uri
      BY <1>f, <1>5, <3>1
    <3> QED BY <1>f, <1>4, <1>6, <3>2
  <2> QED BY <1>f, <1>1, <1>5, <1>6, <2>1 DEF SuccessShows, AtRest
<1> QED BY <1>f, <1>1, <1>8, <1>9, <1>10, <1>11, <1>12 DEF SavedWasShown, GtkRestsSaved

\* A load fails to GTK's own error page.
LEMMA StockSteps == ASSUME NavInv, FailsToStockPage PROVE NavInv'
<1> USE DEF NavInv
<1>f. /\ nav \in NavOf /\ nav.pending \in BOOLEAN /\ nav.success \in BOOLEAN /\ nav.current \in Nat
      /\ nav.starts \in Nat /\ nav.committed \in BOOLEAN /\ nav.previous \in BOOLEAN
      /\ nav.failed \in BOOLEAN /\ nav.blocked \in Url \cup {NoUrl}
      /\ load \in LoadOf /\ load.id \in Nat /\ load.url \in Url \cup {NoUrl}
      /\ load.at \in {"none", "started", "committed"}
      /\ (Item = NoUrl <=> doc \notin Url) /\ (doc \in Url => Item = doc)
      /\ NoUrl \notin Url /\ NoUrl \notin Safe /\ Safe \subseteq Url /\ "error" \notin Url /\ "broken" \notin Url
  BY NavFacts
<1>g. nav \in NavOf /\ load \in LoadOf /\ nav.current \in Nat
  BY <1>f
<1>1. /\ engine = "gtk" /\ Loading /\ doc' = "error" /\ uri' = load.url /\ load' = NoLoad
      /\ UNCHANGED <<engine, stale, settling, saved, shown>>
  BY <1>f DEF FailsToStockPage
<1>2. nav.pending /\ load.url \in Url
  BY <1>f, <1>1 DEF LoadPends
<1>3. PICK f \in NavOf : /\ f = GtkFailed(nav, TRUE, load.url) /\ f.current = nav.current /\ f.starts = nav.starts
                         /\ f.pending = FALSE /\ ~f.success
  <2>1. LET c == GtkFailed(nav, TRUE, load.url)
        IN c \in NavOf /\ c.current = nav.current /\ c.starts = nav.starts /\ c.pending = FALSE /\ ~c.success
    BY <1>g, <1>2, GtkFailedIs
  <2> QED BY <1>f, <2>1
<1>4. PICK b \in NavOf : /\ b = BeginNav(f, nav.current + 1) /\ b.current = nav.current + 1
                         /\ b.starts = nav.starts
                         /\ b.pending = TRUE
  <2>1. PICK id \in Nat : id = nav.current + 1
    BY <1>g
  <2>2. ~(f.pending /\ f.current = id)
    BY <1>3
  <2>3. /\ BeginNav(f, id) \in NavOf /\ BeginNav(f, id).current = id /\ BeginNav(f, id).starts = f.starts
        /\ BeginNav(f, id).pending = TRUE
    BY <2>2, BeginNavIs
  <2> QED BY <1>3, <2>1, <2>3
<1>5. PICK c \in NavOf : /\ c = CommitNav(b, nav.current + 1, FALSE) /\ c.current = nav.current + 1
                         /\ c.starts = nav.starts
                         /\ c.pending = TRUE /\ c.committed = TRUE
  <2>1. CommitNav(b, b.current, FALSE) = CommitNav(b, nav.current + 1, FALSE)
    BY <1>4
  <2>2. LET d == CommitNav(b, b.current, FALSE)
        IN d \in NavOf /\ d.current = b.current /\ d.starts = b.starts /\ d.pending = TRUE /\ d.committed = TRUE
    BY <1>4, CommitNavIs
  <2> QED BY <1>4, <2>1, <2>2
<1>6. PICK e \in NavOf : /\ e = FinishNav(c, c.current, FALSE, load.url) /\ e.starts = nav.starts
                         /\ e.pending = FALSE
                         /\ e.success = FALSE
  <2>1. LET d == FinishNav(c, c.current, FALSE, load.url)
        IN /\ d \in NavOf /\ d.starts = c.starts /\ d.pending = FALSE
           /\ d.success = (~c.committed /\ c.previous /\ load.url # NoUrl)
    BY <1>2, <1>5, FinishNavFails
  <2> QED BY <1>f, <1>5, <2>1
<1>7. nav' \in {e, f}
  BY <1>f, <1>3, <1>4, <1>5, <1>6 DEF FailsToStockPage
<1>8. nav' \in NavOf /\ nav'.starts = nav.starts /\ nav'.pending = FALSE /\ ~nav'.success
  BY <1>f, <1>3, <1>6, <1>7
<1>9. NavTypes'
  BY <1>f, <1>1, <1>2, <1>8, NoLoadIs DEF NavTypes
<1>10. LoadPends'
  BY <1>f, <1>1, <1>8, NoLoadIs DEF LoadPends, Loading
<1> QED BY <1>f, <1>1, <1>8, <1>9, <1>10 DEF SuccessShows, SavedWasShown, GtkRestsSaved, AtRest

\* A superseded load completes late.
LEMMA StaleSteps == ASSUME NavInv, NEW id \in stale, StaleCompletes(id) PROVE NavInv'
<1> USE DEF NavInv
<1>f. /\ nav \in NavOf /\ nav.pending \in BOOLEAN /\ nav.success \in BOOLEAN /\ nav.current \in Nat
      /\ nav.starts \in Nat /\ nav.committed \in BOOLEAN /\ nav.previous \in BOOLEAN
      /\ nav.failed \in BOOLEAN /\ nav.blocked \in Url \cup {NoUrl}
      /\ load \in LoadOf /\ load.id \in Nat /\ load.url \in Url \cup {NoUrl}
      /\ load.at \in {"none", "started", "committed"}
      /\ (Item = NoUrl <=> doc \notin Url) /\ (doc \in Url => Item = doc)
      /\ NoUrl \notin Url /\ NoUrl \notin Safe /\ Safe \subseteq Url /\ "error" \notin Url /\ "broken" \notin Url
  BY NavFacts
<1>g. nav \in NavOf /\ load \in LoadOf /\ nav.current \in Nat
  BY <1>f
<1>1. /\ stale' = stale \ {id} /\ UNCHANGED <<engine, doc, uri, load, settling, saved, shown>>
      /\ nav' = FinishNav(nav, id, FALSE, uri)
  BY <1>f DEF StaleCompletes
<1>2. nav.pending => id # nav.current
  BY <1>f DEF LoadPends, NavTypes
<1>3. nav' = nav
  BY <1>f, <1>1, <1>2 DEF FinishNav
<1>4. NavTypes' /\ LoadPends'
  BY <1>f, <1>1, <1>3 DEF NavTypes, LoadPends, Loading
<1> QED BY <1>f, <1>1, <1>3, <1>4 DEF SuccessShows, SavedWasShown, GtkRestsSaved, AtRest, Loading

\* The page changes its own URL.
LEMMA SameSteps == ASSUME NavInv, NEW u \in Url, SameDocument(u) PROVE NavInv'
<1> USE DEF NavInv
<1>f. /\ nav \in NavOf /\ nav.pending \in BOOLEAN /\ nav.success \in BOOLEAN /\ nav.current \in Nat
      /\ nav.starts \in Nat /\ nav.committed \in BOOLEAN /\ nav.previous \in BOOLEAN
      /\ nav.failed \in BOOLEAN /\ nav.blocked \in Url \cup {NoUrl}
      /\ load \in LoadOf /\ load.id \in Nat /\ load.url \in Url \cup {NoUrl}
      /\ load.at \in {"none", "started", "committed"}
      /\ (Item = NoUrl <=> doc \notin Url) /\ (doc \in Url => Item = doc)
      /\ NoUrl \notin Url /\ NoUrl \notin Safe /\ Safe \subseteq Url /\ "error" \notin Url /\ "broken" \notin Url
  BY NavFacts
<1>g. nav \in NavOf /\ load \in LoadOf /\ nav.current \in Nat
  BY <1>f
<1>1. /\ doc \in shown /\ load.at # "committed" /\ doc' = u /\ shown' = shown \cup {u}
      /\ uri' = (IF Loading /\ engine # "webview2" THEN uri ELSE u)
      /\ UNCHANGED load /\ UNCHANGED <<engine, stale, nav>>
      /\ settling' = (settling \/ engine = "webkit")
  BY <1>f DEF SameDocument
<1>2. settling' \in BOOLEAN /\ (engine = "gtk" => settling' = settling)
  BY <1>f, <1>1 DEF NavTypes
<1>3. saved' = saved \/ saved' = u
  <2>1. CASE engine = "gtk"
    BY <1>f, <1>1, <2>1 DEF SameDocument, GtkHistory, HistoryUrl
  <2>2. CASE engine = "webview2"
    BY <1>f, <2>2 DEF SameDocument, ObservedUrl
  <2>3. CASE engine \notin {"gtk", "webview2"}
    BY <1>f, <2>3 DEF SameDocument
  <2> QED BY <1>f, <2>1, <2>2, <2>3
<1>4. engine = "gtk" /\ ~Loading /\ AtRest(nav) /\ u \in Safe => saved' = u
  <2> SUFFICES ASSUME engine = "gtk", ~Loading, AtRest(nav), u \in Safe PROVE saved' = u
    OBVIOUS
  <2>1. saved' = GtkHistory(nav) /\ load'.at = "none" /\ uri' = u /\ doc' = u
    BY <1>f, <1>1 DEF SameDocument, Loading
  <2> QED BY <1>f, <2>1 DEF GtkHistory, HistoryUrl
<1>5. NavTypes'
  BY <1>f, <1>1, <1>2, <1>3 DEF NavTypes
<1>6. LoadPends'
  BY <1>f, <1>1 DEF LoadPends, Loading
<1>7. SuccessShows'
  BY <1>f, <1>1 DEF SuccessShows, AtRest, LoadPends
<1> QED BY <1>f, <1>1, <1>2, <1>3, <1>4, <1>5, <1>6, <1>7 DEF SavedWasShown, GtkRestsSaved, AtRest, Loading

\* WebKit reports the URL of the page.
LEMMA UrlSteps == ASSUME NavInv, UrlSettles PROVE NavInv'
<1> USE DEF NavInv
<1>f. /\ nav \in NavOf /\ nav.pending \in BOOLEAN /\ nav.success \in BOOLEAN /\ nav.current \in Nat
      /\ nav.starts \in Nat /\ nav.committed \in BOOLEAN /\ nav.previous \in BOOLEAN
      /\ nav.failed \in BOOLEAN /\ nav.blocked \in Url \cup {NoUrl}
      /\ load \in LoadOf /\ load.id \in Nat /\ load.url \in Url \cup {NoUrl}
      /\ load.at \in {"none", "started", "committed"}
      /\ (Item = NoUrl <=> doc \notin Url) /\ (doc \in Url => Item = doc)
      /\ NoUrl \notin Url /\ NoUrl \notin Safe /\ Safe \subseteq Url /\ "error" \notin Url /\ "broken" \notin Url
  BY NavFacts
<1>g. nav \in NavOf /\ load \in LoadOf /\ nav.current \in Nat
  BY <1>f
<1>1. /\ settling' = FALSE /\ uri' = (IF Loading \/ Item = NoUrl THEN uri ELSE Item)
      /\ UNCHANGED <<engine, doc, load, stale, nav, shown>>
  BY <1>f DEF UrlSettles
<1>2. uri' \in Url \cup {NoUrl} /\ (Loading => uri' = uri) /\ (~Loading /\ doc \in Url => uri' = doc)
      /\ (uri' = uri \/ (uri' = doc /\ ~Loading))
  BY <1>f, <1>1 DEF NavTypes
<1>3. AtRest(nav) => ~Loading /\ doc \in shown /\ doc \in Url /\ uri' = doc
  BY <1>f, <1>2 DEF AtRest, LoadPends, SuccessShows, NavTypes
<1>4. saved' = saved \/ (saved' = uri' /\ AtRest(nav))
  <2>1. CASE engine = "gtk"
    BY <1>f, <2>1 DEF UrlSettles, GtkHistory, HistoryUrl
  <2>2. CASE engine = "webkit" /\ ~Loading
    BY <1>f, <2>2 DEF UrlSettles, ObservedUrl
  <2>3. CASE engine # "gtk" /\ ~(engine = "webkit" /\ ~Loading)
    BY <1>f, <2>3 DEF UrlSettles
  <2> QED BY <1>f, <2>1, <2>2, <2>3
<1>5. engine = "gtk" /\ AtRest(nav) /\ doc \in Safe => saved' = doc
  <2> SUFFICES ASSUME engine = "gtk", AtRest(nav), doc \in Safe PROVE saved' = doc
    OBVIOUS
  <2>1. saved' = GtkHistory(nav) /\ load'.at = "none" /\ uri' = doc /\ doc' = doc
    BY <1>f, <1>1, <1>3 DEF UrlSettles, Loading
  <2> QED BY <1>f, <2>1 DEF GtkHistory, HistoryUrl
<1>6. NavTypes'
  BY <1>f, <1>1, <1>2, <1>3, <1>4 DEF NavTypes
<1>7. LoadPends'
  BY <1>f, <1>1, <1>2 DEF LoadPends, Loading
<1>8. SuccessShows'
  BY <1>f, <1>1, <1>3 DEF SuccessShows, AtRest
<1> QED BY <1>f, <1>1, <1>3, <1>4, <1>5, <1>6, <1>7, <1>8 DEF SavedWasShown, GtkRestsSaved, AtRest, Loading

\* A home is closed: its last page is sampled.
LEMMA LastSteps == ASSUME NavInv, LastSample PROVE NavInv'
<1> USE DEF NavInv
<1>f. /\ nav \in NavOf /\ nav.pending \in BOOLEAN /\ nav.success \in BOOLEAN /\ nav.current \in Nat
      /\ nav.starts \in Nat /\ nav.committed \in BOOLEAN /\ nav.previous \in BOOLEAN
      /\ nav.failed \in BOOLEAN /\ nav.blocked \in Url \cup {NoUrl}
      /\ load \in LoadOf /\ load.id \in Nat /\ load.url \in Url \cup {NoUrl}
      /\ load.at \in {"none", "started", "committed"}
      /\ (Item = NoUrl <=> doc \notin Url) /\ (doc \in Url => Item = doc)
      /\ NoUrl \notin Url /\ NoUrl \notin Safe /\ Safe \subseteq Url /\ "error" \notin Url /\ "broken" \notin Url
  BY NavFacts
<1>g. nav \in NavOf /\ load \in LoadOf /\ nav.current \in Nat
  BY <1>f
<1>1. UNCHANGED <<engine, doc, uri, load, stale, settling, shown, nav>>
  BY <1>f DEF LastSample, pageVars
<1>2. AtRest(nav) => ~Loading /\ doc \in shown /\ doc \in Url
  BY <1>f DEF AtRest, LoadPends, SuccessShows, NavTypes
<1>3. saved' = saved \/ (AtRest(nav) /\ saved' \in shown /\ (engine = "gtk" => saved' = doc))
  <2>1. CASE engine = "webview2" \/ (engine = "webkit" /\ ~Loading)
    <3>1. saved' = ObservedUrl(nav, uri)
      BY <1>f, <2>1 DEF LastSample
    <3> QED BY <1>f, <2>1, <3>1 DEF ObservedUrl, SuccessShows
  <2>2. CASE engine # "webview2" /\ Loading
    <3>1. saved' = saved
      BY <2>2 DEF LastSample
    <3> QED BY <3>1
  <2>3. CASE engine = "gtk" /\ ~Loading
    <3>1. saved' = saved \/ saved' = ObservedUrl(nav, DocumentUrl)
      BY <1>f, <2>3 DEF LastSample
    <3>2. AtRest(nav) => DocumentUrl \in {doc, NoUrl}
      BY <1>f, <1>2 DEF DocumentUrl
    <3> QED BY <1>f, <1>2, <3>1, <3>2 DEF ObservedUrl
  <2> QED BY <1>f, <2>1, <2>2, <2>3 DEF NavTypes
<1>4. NavTypes' /\ LoadPends' /\ SuccessShows'
  <2>1. saved' \in Url \cup {NoUrl}
    BY <1>f, <1>3 DEF NavTypes
  <2> QED BY <1>f, <1>1, <2>1 DEF NavTypes, LoadPends, SuccessShows, AtRest, Loading
<1> QED BY <1>f, <1>1, <1>3, <1>4 DEF SavedWasShown, GtkRestsSaved, AtRest, Loading

\* Every event of the engines keeps it, in every order.
LEMMA NavKept == NavInv /\ [NavNext]_navVars => NavInv'
<1> SUFFICES ASSUME NavInv, [NavNext]_navVars PROVE NavInv'
  OBVIOUS
<1>1. CASE UNCHANGED navVars
  BY <1>1 DEF navVars, NavInv, NavTypes, LoadPends, SuccessShows, SavedWasShown, GtkRestsSaved, AtRest, Loading
<1> QED BY <1>1, StartSteps, CommitSteps, FinishSteps, FailSteps, StockSteps, StaleSteps, SameSteps, UrlSteps,
           LastSteps
        DEF NavNext

\* It is stronger than the two properties of the page recorded.
LEMMA NavShows == NavInv => SavedWasShown /\ GtkRestsSaved
BY DEF NavInv

\* Whatever fails, is superseded or completes late on the three engines, the page recorded is one
\* that was shown, and on GTK a home at rest has recorded the page it shows (resume_navigation.rs).
THEOREM ResumesWhatWasShown == NavSpec => [](SavedWasShown /\ GtkRestsSaved)
BY NavBegins, NavKept, NavShows, PTL DEF NavSpec

------------------------------------------------------------------------------
\* The runtime root and the bundled executables (BrowserSetup).

\* The types of what setup looks at.
SetupTypes == /\ entry \in [Places -> Entries] /\ exe \in [Executables -> {"plain", "link", "gone"}]
              /\ bundled \subseteq Executables /\ swapped \subseteq bundled
              /\ look = [at |-> look.at, on |-> look.on]
              /\ look.on \in Places \cup {NoPlace} /\ root \in Places \cup {NoPlace} /\ fits \subseteq Places
\* While the executables are looked at, a replaced one stays replaced, and one that passed was not.
StillSwapped == /\ look.at \in Executables => \A e \in swapped : exe[e] # "plain"
                /\ look.at = "guard" => "program" \notin swapped
\* The inductive invariant of setup.
SetupInv == SetupTypes /\ StillSwapped /\ RootPrivate /\ SpawnsBundled

\* It holds before the first place is looked at.
LEMMA SetupBegins == SetupInit => SetupInv
<1> SUFFICES ASSUME SetupInit PROVE SetupInv
  OBVIOUS
<1>1. entry \in [Places -> Entries]
  BY DEF SetupInit, Entries
<1>2. /\ fits \subseteq Places /\ exe \in [Executables -> {"plain", "link", "gone"}] /\ swapped = {}
      /\ root = NoPlace
      /\ look = [at |-> "plan", on |-> NoPlace] /\ bundled \subseteq Executables
  BY DEF SetupInit
<1>3. look.at = "plan" /\ look.on = NoPlace /\ look = [at |-> look.at, on |-> look.on]
  BY <1>2
<1> QED BY <1>1, <1>2, <1>3 DEF SetupInv, SetupTypes, StillSwapped, RootPrivate, SpawnsBundled, Executables

\* A look that leaves the file system alone, outside the executables.
LEMMA LooksOn ==
  ASSUME SetupInv, UNCHANGED <<entry, fits, exe, bundled, swapped>>, NEW s, NEW p \in Places \cup {NoPlace},
         look' = [at |-> s, on |-> p],
         s \notin Executables \cup {"spawned"},
         root' = root \/ (root' \in Places \cup {NoPlace} /\ RootUsable(root') /\ root' \in fits)
  PROVE  SetupInv'
<1>1. look'.at = s /\ look'.on = p
  OBVIOUS
<1> QED BY <1>1 DEF SetupInv, SetupTypes, StillSwapped, RootPrivate, SpawnsBundled, RootUsable, Executables

\* Every look, and every change by other programs between two looks, keeps it.
LEMMA SetupKept == SetupInv /\ [SetupNext]_setupVars => SetupInv'
<1> SUFFICES ASSUME SetupInv, [SetupNext]_setupVars PROVE SetupInv'
  OBVIOUS
<1>0. look = [at |-> look.at, on |-> look.on]
  BY DEF SetupInv, SetupTypes
<1>a. ASSUME NEW s PROVE [look EXCEPT !.at = s] = [at |-> s, on |-> look.on] /\ look.on \in Places \cup {NoPlace}
  BY <1>0 DEF SetupInv, SetupTypes
<1>d. Places = {"xdg", "xdg/takosumi-cef", "cache/cef", "given"}
  BY DEF Places
<1>e. Executables = {"program", "guard"}
  BY DEF Executables
<1>1. CASE Planned
  <2>1. PICK p \in Places \cup {NoPlace} : look' = [at |-> "locate", on |-> p]
    BY <1>1, <1>d DEF Planned
  <2> QED BY <1>1, <1>e, <2>1, LooksOn DEF Planned
<1>2. CASE NextCandidate
  <2>1. CASE search = <<>>
    BY <1>2, <1>a, <1>e, <2>1, LooksOn DEF NextCandidate
  <2>2. CASE search # <<>>
    <3>1. PICK s \in {"xdg", "root"}, p \in Places \cup {NoPlace} : look' = [at |-> s, on |-> p]
      BY <1>2, <1>d, <2>2 DEF NextCandidate, RootOf
    <3> QED BY <1>2, <1>e, <3>1, LooksOn DEF NextCandidate
  <2> QED BY <2>1, <2>2
<1>3. CASE XdgDirectory
  <2>1. PICK s \in {"root", "next"} : look' = [look EXCEPT !.at = s]
    BY <1>3 DEF XdgDirectory
  <2> QED BY <1>3, <1>a, <1>e, <2>1, LooksOn DEF XdgDirectory
<1>4. CASE RootEntry
  <2>1. PICK s \in {"create", "recheck", "next"} : look' = [look EXCEPT !.at = s]
    BY <1>4 DEF RootEntry
  <2>2. /\ look' = [at |-> s, on |-> look.on] /\ look.on \in Places \cup {NoPlace}
        /\ s \notin Executables \cup {"spawned"}
    BY <1>a, <1>e, <2>1
  <2>3. UNCHANGED <<entry, fits, exe, bundled, swapped, root>>
    BY <1>4 DEF RootEntry
  <2> QED BY <2>2, <2>3, LooksOn
<1>5. CASE CreateRoot
  <2>1. CASE UNCHANGED entry
    <3>1. PICK s \in {"recheck", "next"} : look' = [look EXCEPT !.at = s]
      BY <1>5, <2>1 DEF CreateRoot
    <3> QED BY <1>5, <1>a, <1>e, <2>1, <3>1, LooksOn DEF CreateRoot
  <2>2. CASE /\ entry[look.on] = "missing" /\ look' = [look EXCEPT !.at = "recheck"]
             /\ entry' = [entry EXCEPT ![look.on] = "private"]
    <3>1. look' = [at |-> "recheck", on |-> look.on]
      BY <1>a, <2>2
    <3>2. look'.at = "recheck" /\ look'.on = look.on /\ look' = [at |-> look'.at, on |-> look'.on]
      BY <3>1
    <3>3. /\ entry' \in [Places -> Entries]
          /\ \A p \in Places : p # look.on => entry'[p] = entry[p]
      BY <2>2 DEF SetupInv, SetupTypes, Entries
    <3>4. UNCHANGED <<asked, fits, search, root, bundled, exe, swapped>>
      BY <1>5 DEF CreateRoot
    <3>5. RootPrivate'
      <4> SUFFICES ASSUME root # NoPlace PROVE RootUsable(root)' /\ root \in fits
        BY <3>4 DEF RootPrivate
      <4>1. RootUsable(root) /\ root \in fits /\ root \in Places
        BY DEF SetupInv, RootPrivate, SetupTypes
      <4>2. root # look.on
        BY <2>2, <4>1 DEF RootUsable
      <4> QED BY <3>3, <3>4, <4>1, <4>2 DEF RootUsable
    <3> QED BY <1>a, <1>e, <3>2, <3>3, <3>4, <3>5 DEF SetupInv, SetupTypes, StillSwapped, SpawnsBundled
  <2> QED BY <1>5, <2>1, <2>2 DEF CreateRoot
<1>6. CASE Recheck
  <2>1. CASE RootUsable(look.on) /\ look.on \in fits
    <3>1. /\ look' = [look EXCEPT !.at = "ready"] /\ root' = look.on
          /\ UNCHANGED <<asked, entry, fits, search, bundled, exe, swapped>>
      BY <1>6, <2>1 DEF Recheck
    <3>2. look' = [at |-> "ready", on |-> look.on] /\ look.on \in Places \cup {NoPlace}
          /\ "ready" \notin Executables \cup {"spawned"}
      BY <1>a, <1>e, <3>1
    <3>3. root' \in Places \cup {NoPlace} /\ RootUsable(root') /\ root' \in fits
      BY <2>1, <3>1, <3>2 DEF RootUsable
    <3> QED BY <3>1, <3>2, <3>3, LooksOn
  <2>2. CASE ~(RootUsable(look.on) /\ look.on \in fits)
    <3>1. PICK s \in {"unavailable", "next"} : look' = [look EXCEPT !.at = s]
      BY <1>6, <2>2 DEF Recheck
    <3> QED BY <1>6, <1>a, <1>e, <2>2, <3>1, LooksOn DEF Recheck
  <2> QED BY <2>1, <2>2
<1>7. CASE Locate
  <2>1. PICK s \in {"unavailable", "recheck", "next"} : look' = [look EXCEPT !.at = s]
    BY <1>7 DEF Locate
  <2> QED BY <1>7, <1>a, <1>e, <2>1, LooksOn DEF Locate
<1>8. CASE SpawnAsked
  <2>1. look' = [at |-> "program", on |-> look.on] /\ UNCHANGED <<asked, entry, fits, search, root, bundled, exe>>
        /\ swapped' = {e \in bundled : exe[e] # "plain"}
    BY <1>8, <1>a DEF SpawnAsked
  <2>2. look'.at = "program" /\ look'.on = look.on /\ look' = [at |-> look'.at, on |-> look'.on]
    BY <2>1
  <2> QED BY <1>a, <2>1, <2>2 DEF SetupInv, SetupTypes, StillSwapped, RootPrivate, SpawnsBundled, RootUsable
<1>9. CASE RecheckExecutable
  <2>1. look.at \in Executables /\ UNCHANGED <<asked, entry, fits, search, root, bundled, exe, swapped>>
    BY <1>9 DEF RecheckExecutable
  <2>2. CASE ~Bundled(look.at)
    <3>1. look' = [look EXCEPT !.at = "refused"]
      BY <1>9, <2>2 DEF RecheckExecutable
    <3>2. look' = [at |-> "refused", on |-> look.on] /\ look.on \in Places \cup {NoPlace}
          /\ "refused" \notin Executables \cup {"spawned"}
      BY <1>a, <1>e, <3>1
    <3> QED BY <2>1, <3>2, LooksOn
  <2>3. CASE Bundled(look.at)
    <3>1. PICK s : s = IF look.at = "program" THEN "guard" ELSE "spawned"
      OBVIOUS
    <3>2. look' = [at |-> s, on |-> look.on]
      BY <1>9, <1>a, <2>3, <3>1 DEF RecheckExecutable
    <3>3. look'.at = s /\ look'.on = look.on /\ look' = [at |-> look'.at, on |-> look'.on]
      BY <3>2
    <3>4. look.at \notin swapped
      BY <2>1, <2>3 DEF SetupInv, SetupTypes, StillSwapped, Bundled
    <3>5. s = "spawned" => swapped = {}
      BY <1>e, <2>1, <3>1, <3>4 DEF SetupInv, SetupTypes, StillSwapped
    <3>6. StillSwapped'
      BY <1>e, <2>1, <3>1, <3>3, <3>4 DEF SetupInv, StillSwapped
    <3> QED BY <1>a, <2>1, <3>3, <3>5, <3>6 DEF SetupInv, SetupTypes, RootPrivate, SpawnsBundled, RootUsable
  <2> QED BY <2>2, <2>3
<1>10. ASSUME NEW p \in Places, Races(p) PROVE SetupInv'
  <2>1. PICK e \in Entries \ {"missing"} : entry' = [entry EXCEPT ![p] = e]
    BY <1>10 DEF Races
  <2>2. entry[p] = "missing" /\ UNCHANGED <<asked, fits, search, look, root, bundled, exe, swapped>>
    BY <1>10 DEF Races
  <2>3. entry' \in [Places -> Entries] /\ \A q \in Places : q # p => entry'[q] = entry[q]
    BY <2>1 DEF SetupInv, SetupTypes
  <2>4. RootPrivate'
    <3> SUFFICES ASSUME root # NoPlace PROVE RootUsable(root)' /\ root \in fits
      BY <2>2 DEF RootPrivate
    <3>1. RootUsable(root) /\ root \in fits /\ root \in Places
      BY DEF SetupInv, RootPrivate, SetupTypes
    <3>2. root # p
      BY <2>2, <3>1 DEF RootUsable
    <3> QED BY <2>2, <2>3, <3>1, <3>2 DEF RootUsable
  <2> QED BY <2>2, <2>3, <2>4 DEF SetupInv, SetupTypes, StillSwapped, SpawnsBundled
<1>11. ASSUME NEW e \in Executables, Swap(e) PROVE SetupInv'
  <2>1. PICK v \in {"plain", "link", "gone"} : /\ (v = "plain" => look.at \notin Executables)
                                               /\ exe' = [exe EXCEPT ![e] = v]
    BY <1>11 DEF Swap
  <2>2. UNCHANGED <<asked, entry, fits, search, look, root, bundled, swapped>>
    BY <1>11 DEF Swap
  <2>3. exe' \in [Executables -> {"plain", "link", "gone"}] /\ exe'[e] = v
        /\ \A f \in Executables \ {e} : exe'[f] = exe[f]
    BY <2>1 DEF SetupInv, SetupTypes
  <2>4. StillSwapped'
    BY <1>e, <2>1, <2>2, <2>3 DEF SetupInv, SetupTypes, StillSwapped
  <2> QED BY <2>2, <2>3, <2>4 DEF SetupInv, SetupTypes, RootPrivate, SpawnsBundled, RootUsable
<1>12. CASE UNCHANGED setupVars
  BY <1>12 DEF setupVars, SetupInv, SetupTypes, StillSwapped, RootPrivate, SpawnsBundled, RootUsable
<1>13. \A c \in {"xdg", "cache"} : RootOf(c) \in Places
  BY DEF RootOf, Places
<1> QED BY <1>1, <1>2, <1>3, <1>4, <1>5, <1>6, <1>7, <1>8, <1>9, <1>10, <1>11, <1>12, <1>13 DEF SetupNext

\* It is stronger than both properties of a spawn.
LEMMA SetupShows == SetupInv => RootPrivate /\ SpawnsBundled /\ SetupTypeOK
BY DEF SetupInv, SetupTypes, SetupTypeOK

\* Whatever other programs create and replace between two looks, the root is private when it is used, and no
\* browser starts from a file that was replaced before the spawn looked at it (process_setup.rs,
\* process_setup_windows.rs).
THEOREM SetupIsTrusted == SetupSpec => [](RootPrivate /\ SpawnsBundled)
BY SetupBegins, SetupKept, SetupShows, PTL DEF SetupSpec

------------------------------------------------------------------------------
\* The process a reply names (OpenedIdentity).

\* The type of a process, and of the answer in progress.
ProcessOf == [born : 0..MaxTime, maker : 0..MaxTime, parent : Number \cup {NoNumber}, image : {"program", "other"},
              ended : BOOLEAN]
IdentityTypes ==
    /\ clock \in 1..MaxTime /\ proc \in [Number -> ProcessOf]
    /\ \A n \in Number : proc[n].born \in 0..clock /\ proc[n].maker \in 0..clock
    /\ guardId \in Number \cup {NoNumber}
    /\ step \in {"ask", "parent", "times", "image", "done"} /\ owned \in BOOLEAN
\* The guard is a process once it was started.
GuardThere == guardId # NoNumber => proc[guardId].born # 0 /\ proc[guardId].parent = NoNumber
\* A process that names the guard's id as its parent and is not older than the guard was started by the guard.
MadeByGuard(n) == guardId # NoNumber /\ proc[n].born # 0 /\ proc[n].parent = guardId
                      /\ proc[n].born >= proc[guardId].born => proc[n].maker = proc[guardId].born
\* What the checks made so far have shown of the process that is held open.
Verified == /\ step # "ask" => guardId # NoNumber /\ native # guardId /\ native \in Number
            /\ owned => step # "ask" /\ proc[native].born # 0 /\ subject = proc[native]
            /\ owned /\ step \in {"times", "image", "done"} => proc[native].parent = guardId
            /\ owned /\ step \in {"image", "done"} => proc[native].born >= proc[guardId].born
            /\ owned /\ step = "done" => proc[native].image = "program"
\* The inductive invariant of the check of a reply.
IdentityInv == IdentityTypes /\ GuardThere /\ (\A n \in Number : MadeByGuard(n)) /\ Verified

\* The processes of these steps.
StartedBy(p, image) == [born |-> clock + 1, maker |-> proc[p].born, parent |-> p, image |-> image, ended |-> FALSE]
\* A process that ended, and one that the system started.
Pinning(q)          == [q EXCEPT !.ended = TRUE]
BornAt(t)           == [NoProcessThere EXCEPT !.born = t]

\* It is the same process.
LEMMA PinningIs ==
  ASSUME NEW q \in ProcessOf
  PROVE  /\ Pinning(q) \in ProcessOf /\ Pinning(q).born = q.born /\ Pinning(q).maker = q.maker
         /\ Pinning(q).parent = q.parent /\ Pinning(q).image = q.image
BY DEF Pinning, ProcessOf

\* No process has no birth and no parent.
LEMMA NoneIs == /\ NoProcessThere \in ProcessOf /\ NoProcessThere.born = 0 /\ NoProcessThere.maker = 0
                /\ NoProcessThere.parent = NoNumber
BY IdentityAssumption DEF NoProcessThere, ProcessOf

\* A process of the system has no maker.
LEMMA BornIs == ASSUME NEW t \in 1..MaxTime
                PROVE  /\ BornAt(t) \in ProcessOf /\ BornAt(t).born = t /\ BornAt(t).maker = 0
                       /\ BornAt(t).parent = NoNumber
BY NoneIs, IdentityAssumption DEF BornAt, ProcessOf

\* It holds before the guard starts.
LEMMA IdentityBegins == IdentityInit => IdentityInv
<1> SUFFICES ASSUME IdentityInit PROVE IdentityInv
  OBVIOUS
<1>1. PICK p \in Number : proc = [n \in Number |-> IF n = p THEN BornAt(1) ELSE NoProcessThere]
  BY DEF IdentityInit, BornAt
<1>2. \A n \in Number : proc[n] = BornAt(1) \/ proc[n] = NoProcessThere
  BY <1>1
<1>3. 1 \in 1..MaxTime
  BY IdentityAssumption
<1>4. guardId = NoNumber /\ native = NoNumber /\ step = "ask" /\ owned = FALSE /\ clock = 1
  BY DEF IdentityInit
<1>5. proc \in [Number -> ProcessOf] /\ \A n \in Number : proc[n].born \in 0..1 /\ proc[n].maker \in 0..1
  BY <1>1, <1>2, <1>3, NoneIs, BornIs
<1> QED BY <1>3, <1>4, <1>5 DEF IdentityInv, IdentityTypes, GuardThere, MadeByGuard, Verified

\* Whatever starts, ends and takes over an id between two looks, it is kept.
LEMMA IdentityKept == IdentityInv /\ [IdentityNext]_identityVars => IdentityInv'
<1> SUFFICES ASSUME IdentityInv, [IdentityNext]_identityVars PROVE IdentityInv'
  OBVIOUS
<1> USE IdentityAssumption
<1>0. /\ clock \in 1..MaxTime /\ proc \in [Number -> ProcessOf] /\ guardId \in Number \cup {NoNumber}
      /\ \A n \in Number : proc[n] \in ProcessOf /\ proc[n].born \in 0..clock /\ proc[n].maker \in 0..clock
      /\ step \in {"ask", "parent", "times", "image", "done"} /\ owned \in BOOLEAN
  BY DEF IdentityInv, IdentityTypes
<1>1. ASSUME NEW n \in Number, NEW p \in Number, NEW image \in {"program", "other"}, StartsAnother(n, p, image)
      PROVE  IdentityInv'
  <2>1. PICK r : r = StartedBy(p, image)
    OBVIOUS
  <2>2. /\ proc[n].born = 0 /\ clock < MaxTime /\ proc[p].born # 0 /\ clock' = clock + 1
        /\ proc' = [proc EXCEPT ![n] = r] /\ UNCHANGED <<guardId, native, step, owned, subject>>
    BY <1>1, <2>1 DEF StartsAnother, StartedBy
  <2>3. r \in ProcessOf /\ r.born = clock + 1 /\ r.maker = proc[p].born /\ r.parent = p
    BY <1>0, <2>1, <2>2 DEF StartedBy, ProcessOf
  <2>4. proc'[n] = r /\ \A i \in Number \ {n} : proc'[i] = proc[i]
    BY <1>0, <2>2
  <2>5. n # guardId /\ (owned => n # native)
    BY <2>2 DEF IdentityInv, GuardThere, Verified
  <2>6. IdentityTypes'
    <3>1. proc' \in [Number -> ProcessOf] /\ clock' \in 1..MaxTime
      BY <1>0, <2>2, <2>3
    <3>2. ASSUME NEW i \in Number PROVE proc'[i].born \in 0..clock' /\ proc'[i].maker \in 0..clock'
      BY <1>0, <2>2, <2>3, <2>4
    <3> QED BY <1>0, <2>2, <3>1, <3>2 DEF IdentityTypes
  <2>7. GuardThere'
    BY <1>0, <2>2, <2>4, <2>5 DEF IdentityInv, GuardThere
  <2>8. ASSUME NEW i \in Number PROVE MadeByGuard(i)'
    BY <1>0, <2>2, <2>3, <2>4, <2>5 DEF IdentityInv, MadeByGuard
  <2>9. Verified'
    BY <1>0, <2>2, <2>4, <2>5 DEF IdentityInv, Verified
  <2> QED BY <2>6, <2>7, <2>8, <2>9 DEF IdentityInv
<1>2. ASSUME NEW n \in Number, EndsProcess(n) PROVE IdentityInv'
  <2>1. PICK r \in ProcessOf : r = (IF Pinned(n) THEN Pinning(proc[n]) ELSE NoProcessThere)
    BY <1>0, PinningIs, NoneIs
  <2>2. /\ proc[n].born # 0 /\ n # guardId /\ proc' = [proc EXCEPT ![n] = r]
        /\ UNCHANGED <<clock, guardId, native, step, owned>>
        /\ subject' = IF Pinned(n) THEN proc'[n] ELSE subject
    BY <1>2, <2>1 DEF EndsProcess, Pinning
  <2>3. proc'[n] = r /\ \A i \in Number \ {n} : proc'[i] = proc[i]
    BY <1>0, <2>2
  <2>4. /\ r.born \in 0..clock /\ r.maker \in 0..clock
        /\ r.born = 0 \/ (r.born = proc[n].born /\ r.parent = proc[n].parent /\ r.maker = proc[n].maker)
    BY <1>0, <2>1, PinningIs, NoneIs
  <2>5. IdentityTypes'
    <3>1. proc' \in [Number -> ProcessOf]
      BY <1>0, <2>2
    <3>2. ASSUME NEW i \in Number PROVE proc'[i].born \in 0..clock' /\ proc'[i].maker \in 0..clock'
      BY <1>0, <2>2, <2>3, <2>4
    <3> QED BY <1>0, <2>2, <3>1, <3>2 DEF IdentityTypes
  <2>6. GuardThere'
    BY <1>0, <2>2, <2>3 DEF IdentityInv, GuardThere
  <2>7. ASSUME NEW i \in Number PROVE MadeByGuard(i)'
    BY <1>0, <2>2, <2>3, <2>4 DEF IdentityInv, MadeByGuard
  <2>8. Verified'
    <3>1. CASE owned /\ n = native
      <4>1. Pinned(n) /\ r = Pinning(proc[n])
        <5>1. subject = proc[n] /\ step # "ask" /\ proc[n] # NoProcessThere
          BY <2>2, <3>1, NoneIs DEF IdentityInv, Verified
        <5> QED BY <2>1, <3>1, <5>1 DEF Pinned
      <4>2. /\ r.born = proc[n].born /\ r.parent = proc[n].parent /\ r.image = proc[n].image
        BY <1>0, <4>1, PinningIs
      <4>3. proc'[guardId] = proc[guardId] /\ subject' = r /\ proc'[native] = r
        BY <1>0, <2>2, <2>3, <3>1, <4>1 DEF IdentityInv, Verified
      <4> QED BY <1>0, <2>2, <3>1, <4>2, <4>3 DEF IdentityInv, Verified
    <3>2. CASE owned /\ n # native
      <4>1. ~Pinned(n) /\ subject' = subject
        BY <2>2, <3>2 DEF Pinned
      <4> QED BY <1>0, <2>2, <2>3, <3>2, <4>1 DEF IdentityInv, Verified
    <3>3. CASE ~owned
      BY <1>0, <2>2, <3>3 DEF IdentityInv, Verified
    <3> QED BY <3>1, <3>2, <3>3
  <2> QED BY <2>5, <2>6, <2>7, <2>8 DEF IdentityInv
<1>3. ASSUME NEW n \in Number, GuardStarts(n) PROVE IdentityInv'
  <2>1. PICK r : r = BornAt(clock + 1)
    OBVIOUS
  <2>2. /\ guardId = NoNumber /\ proc[n].born = 0 /\ clock < MaxTime /\ clock' = clock + 1 /\ guardId' = n
        /\ proc' = [proc EXCEPT ![n] = r] /\ UNCHANGED <<native, step, owned, subject>>
    BY <1>3, <2>1 DEF GuardStarts, BornAt
  <2>3. r \in ProcessOf /\ r.born = clock + 1 /\ r.maker = 0 /\ r.parent = NoNumber
    BY <1>0, <2>1, <2>2, BornIs
  <2>4. proc'[n] = r /\ \A i \in Number \ {n} : proc'[i] = proc[i]
    BY <1>0, <2>2
  <2>5. IdentityTypes'
    <3>1. proc' \in [Number -> ProcessOf] /\ clock' \in 1..MaxTime
      BY <1>0, <2>2, <2>3
    <3>2. ASSUME NEW i \in Number PROVE proc'[i].born \in 0..clock' /\ proc'[i].maker \in 0..clock'
      BY <1>0, <2>2, <2>3, <2>4
    <3> QED BY <1>0, <2>2, <3>1, <3>2 DEF IdentityTypes
  <2>6. GuardThere' /\ Verified'
    BY <1>0, <2>2, <2>3, <2>4 DEF IdentityInv, GuardThere, Verified
  <2>7. ASSUME NEW i \in Number PROVE MadeByGuard(i)'
    <3>1. CASE i = n
      BY <2>2, <2>3, <2>4, <3>1 DEF MadeByGuard
    <3>2. CASE i # n
      <4>1. proc'[i].born \in 0..clock /\ proc'[guardId'].born = clock + 1
        BY <1>0, <2>2, <2>3, <2>4, <3>2
      <4> QED BY <1>0, <4>1 DEF MadeByGuard
    <3> QED BY <3>1, <3>2
  <2> QED BY <2>5, <2>6, <2>7 DEF IdentityInv
<1>4. ASSUME NEW n \in Number, OpenNative(n) PROVE IdentityInv'
  BY <1>0, <1>4 DEF OpenNative, IdentityInv, IdentityTypes, GuardThere, MadeByGuard, Verified
<1>5. CASE ParentOf
  BY <1>0, <1>5 DEF ParentOf, Checks, IdentityInv, IdentityTypes, GuardThere, MadeByGuard, Verified
<1>6. CASE Times
  <2>0. proc[native].born \in Nat /\ proc[guardId].born \in Nat
    <3>1. native \in Number /\ guardId \in Number
      BY <1>0, <1>6 DEF Times, Checks, IdentityInv, Verified
    <3> QED BY <1>0, <3>1
  <2>1. \E v \in BOOLEAN : owned' = v /\ (v => proc[native].born >= proc[guardId].born)
    <3>1. CASE proc[native].born >= proc[guardId].born
      BY <1>6, <2>0, <3>1 DEF Times, Checks
    <3>2. CASE ~(proc[native].born >= proc[guardId].born)
      <4>1. (proc[native].born >= proc[guardId].born) = FALSE
        BY <2>0, <3>2
      <4>2. owned' = (proc[native].born >= proc[guardId].born)
        BY <1>6 DEF Times, Checks
      <4> QED BY <4>1, <4>2
    <3> QED BY <3>1, <3>2
  <2>2. /\ step = "times" /\ owned /\ step' = "image"
        /\ UNCHANGED <<proc, clock, guardId, native, subject>>
    BY <1>6 DEF Times, Checks
  <2>3. IdentityTypes' /\ GuardThere' /\ \A n \in Number : MadeByGuard(n)'
    BY <1>0, <2>1, <2>2 DEF IdentityInv, IdentityTypes, GuardThere, MadeByGuard
  <2>4. Verified'
    BY <2>1, <2>2 DEF IdentityInv, Verified
  <2> QED BY <2>3, <2>4 DEF IdentityInv
<1>7. CASE Image
  BY <1>0, <1>7 DEF Image, Checks, IdentityInv, IdentityTypes, GuardThere, MadeByGuard, Verified
<1>8. CASE UNCHANGED identityVars
  BY <1>8 DEF identityVars, IdentityInv, IdentityTypes, GuardThere, MadeByGuard, Verified
<1> QED BY <1>1, <1>2, <1>3, <1>4, <1>5, <1>6, <1>7, <1>8 DEF IdentityNext

\* It is stronger than what a checked identity promises.
LEMMA IdentityShows == IdentityInv => OwnedIsChild /\ IdentityTypeOK
BY DEF IdentityInv, IdentityTypes, MadeByGuard, Verified, OwnedIsChild, IdentityTypeOK

\* Whatever ids are used again, a process whose reply is accepted was started by this guard and runs the program
\* (process_windows.rs).
THEOREM OwnedIsTheBrowser == IdentitySpec => []OwnedIsChild
BY IdentityBegins, IdentityKept, IdentityShows, PTL DEF IdentitySpec

------------------------------------------------------------------------------
\* The browser experiment (BrowserCandidate).

\* The type of a window, and the windows that are alive.
WindowOf == [own : Request \cup {Unbound}, kind : {"none", "root", "popup"},
             at : {"free", "asked", "open", "closing", "closed"}]
Living   == {w \in Window : window[w].at \in {"open", "closing"}}
CandidateTypes ==
    /\ window \in [Window -> WindowOf] /\ observers \in [Window -> {"none", "silent", "asked", "answered"}]
    /\ context \in [Request -> {"new", "made", "used"}]
    /\ record = [bound |-> record.bound, frames |-> record.frames, ready |-> record.ready, at |-> record.at]
\* The browsers that are counted are those created and not closed.
CountTrue == IsFiniteSet(Living) /\ count = Cardinality(Living)
\* A window that was asked for has an owner that stays, and a profile's only root used its context.
OwnersKept == \A w \in Window :
    /\ window[w].kind = "root" => /\ window[w].at # "free" /\ window[w].own \in Request
                                  /\ context[window[w].own] = "used"
    /\ window[w].at = "open" => window[w].own # Unbound
    /\ observers[w] # "none" => window[w].at = "open"
\* A profile has one root.
OneRoot == \A v, w \in Window : window[v].kind = "root" /\ window[w].kind = "root" /\ window[v].own = window[w].own
                                => v = w
\* The inductive invariant of the experiment.
CandidateInv == CandidateTypes /\ CountTrue /\ OwnersKept /\ OneRoot /\ LoopEndsLast /\ RootsReady

\* A window that was asked for, and one at its next stage.
NewWindow(r, kind) == [own |-> r, kind |-> kind, at |-> "asked"]
Staged(q, s)       == [q EXCEPT !.at = s]

\* Both field by field.
LEMMA NewWindowIs == ASSUME NEW r \in Request \cup {Unbound}, NEW kind \in {"root", "popup"}
                     PROVE  /\ NewWindow(r, kind) \in WindowOf /\ NewWindow(r, kind).at = "asked"
                            /\ NewWindow(r, kind).own = r /\ NewWindow(r, kind).kind = kind
BY DEF NewWindow, WindowOf

\* A window at its next stage keeps its owner and its kind.
LEMMA StagedIs == ASSUME NEW q \in WindowOf, NEW s \in {"open", "closing", "closed"}
                  PROVE  /\ Staged(q, s) \in WindowOf /\ Staged(q, s).at = s
                         /\ Staged(q, s).own = q.own /\ Staged(q, s).kind = q.kind
BY DEF Staged, WindowOf

\* It holds before the first profile is asked for.
LEMMA CandidateBegins == CandidateInit => CandidateInv
<1> SUFFICES ASSUME CandidateInit PROVE CandidateInv
  OBVIOUS
<1>1. \A w \in Window : window[w].at = "free" /\ window[w].kind = "none" /\ window[w].own = Unbound
                              /\ observers[w] = "none"
  BY DEF CandidateInit
<1>2. Living = {}
  BY <1>1 DEF Living
<1>3. CountTrue
  BY <1>2, FS_EmptySet DEF CandidateInit, CountTrue
<1>4. record.ready = FALSE /\ loop = "runs"
  BY DEF CandidateInit
<1>5. CandidateTypes
  BY DEF CandidateInit, CandidateTypes, WindowOf
<1> QED BY <1>1, <1>3, <1>4, <1>5 DEF CandidateInv, OwnersKept, OneRoot, LoopEndsLast, RootsReady

\* A window that is asked for.
LEMMA AsksKeeps ==
  ASSUME CandidateInv, NEW w \in Window, NEW r \in Request \cup {Unbound}, NEW kind \in {"root", "popup"},
         Asks(w, r, kind),
         context' \in [Request -> {"new", "made", "used"}],
         \A q \in Request : context[q] = "used" => context'[q] = "used",
         kind = "root" => r \in Request /\ context[r] = "made" /\ context'[r] = "used"
  PROVE  CandidateInv'
<1>1. PICK n \in WindowOf : n = NewWindow(r, kind) /\ n.at = "asked" /\ n.own = r /\ n.kind = kind
  BY NewWindowIs
<1>2. /\ loop = "runs" /\ window[w].at = "free" /\ window' = [window EXCEPT ![w] = n]
      /\ UNCHANGED <<count, queued, observers, events, record, loop>>
  BY <1>1 DEF Asks, NewWindow
<1>3. window' \in [Window -> WindowOf] /\ window'[w] = n /\ \A v \in Window \ {w} : window'[v] = window[v]
  BY <1>2 DEF CandidateInv, CandidateTypes
<1>4. Living' = Living
  BY <1>1, <1>2, <1>3 DEF Living
<1>5. CountTrue'
  BY <1>2, <1>4 DEF CandidateInv, CountTrue
<1>6. window[w].kind # "root"
  BY <1>2 DEF CandidateInv, OwnersKept
<1>7. CandidateTypes'
  BY <1>2, <1>3 DEF CandidateInv, CandidateTypes
<1>8. OwnersKept'
  <2> SUFFICES ASSUME NEW v \in Window
               PROVE  /\ window'[v].kind = "root" => window'[v].at # "free" /\ window'[v].own \in Request
                                                        /\ context'[window'[v].own] = "used"
                      /\ window'[v].at = "open" => window'[v].own # Unbound
                      /\ observers'[v] # "none" => window'[v].at = "open"
    BY DEF OwnersKept
  <2>1. CASE v = w
    BY <1>1, <1>2, <1>3, <2>1 DEF CandidateInv, OwnersKept
  <2>2. CASE v # w
    BY <1>2, <1>3, <2>2 DEF CandidateInv, OwnersKept
  <2> QED BY <2>1, <2>2
<1>9. OneRoot'
  BY <1>1, <1>3 DEF CandidateInv, OwnersKept, OneRoot
<1>10. LoopEndsLast'
  BY <1>2 DEF LoopEndsLast
<1>11. RootsReady'
  BY <1>2, <1>3, <1>6 DEF CandidateInv, RootsReady
<1> QED BY <1>5, <1>7, <1>8, <1>9, <1>10, <1>11 DEF CandidateInv

\* A window whose stage changes, with the browsers that are counted.
LEMMA StageKeeps ==
  ASSUME CandidateInv, NEW w \in Window, NEW s \in {"open", "closing", "closed"}, loop = "runs",
         window[w].at # "free", window' = [window EXCEPT ![w] = Staged(window[w], s)],
         s = "open" => window[w].own # Unbound,
         CountTrue', observers' \in [Window -> {"none", "silent", "asked", "answered"}],
         \A v \in Window : observers'[v] # "none" => IF v = w THEN s = "open" ELSE observers[v] # "none",
         UNCHANGED <<context, record>>, LoopEndsLast'
  PROVE  CandidateInv'
<1>1. PICK n \in WindowOf : /\ n = Staged(window[w], s) /\ n.at = s /\ n.own = window[w].own
                            /\ n.kind = window[w].kind
  BY StagedIs DEF CandidateInv, CandidateTypes
<1>2. window' \in [Window -> WindowOf] /\ window'[w] = n /\ \A v \in Window \ {w} : window'[v] = window[v]
  BY <1>1 DEF CandidateInv, CandidateTypes
<1>3. \A v \in Window : window'[v].own = window[v].own /\ window'[v].kind = window[v].kind
  BY <1>1, <1>2
<1>4. OwnersKept'
  <2> SUFFICES ASSUME NEW v \in Window
               PROVE  /\ window'[v].kind = "root" => window'[v].at # "free" /\ window'[v].own \in Request
                                                        /\ context'[window'[v].own] = "used"
                      /\ window'[v].at = "open" => window'[v].own # Unbound
                      /\ observers'[v] # "none" => window'[v].at = "open"
    BY DEF OwnersKept
  <2>1. CASE v = w
    BY <1>1, <1>2, <2>1 DEF CandidateInv, OwnersKept
  <2>2. CASE v # w
    BY <1>2, <2>2 DEF CandidateInv, OwnersKept
  <2> QED BY <2>1, <2>2
<1>5. OneRoot' /\ RootsReady'
  BY <1>3 DEF CandidateInv, OneRoot, RootsReady
<1>6. CandidateTypes'
  BY <1>2 DEF CandidateInv, CandidateTypes
<1> QED BY <1>4, <1>5, <1>6 DEF CandidateInv

\* As many framed roots as there are profiles are a root of each of them.
LEMMA AllFramed ==
  ASSUME CandidateInv, NEW frames, ReadyRoots(frames)
  PROVE  \A r \in Request : \E w \in frames : window[w].own = r /\ window[w].kind = "root"
<1> DEFINE F == frames \cap Roots
           f == [w \in F |-> window[w].own]
<1>1. \A w \in F : w \in Window /\ window[w].kind = "root" /\ window[w].own \in Request
  BY DEF CandidateInv, OwnersKept, Roots
<1>2. f \in Injection(F, Request)
  BY <1>1 DEF CandidateInv, OneRoot, Injection, IsInjective
<1>3. f \in Surjection(F, Request)
  BY <1>2, FS_Injection, CandidateAssumption DEF ReadyRoots
<1>4. \A r \in Request : \E w \in F : f[w] = r
  BY <1>3 DEF Surjection
<1> QED BY <1>1, <1>4

\* Every callback and every turn of the recorder keeps it.
LEMMA CandidateKept == CandidateInv /\ [CandidateNext]_candidateVars => CandidateInv'
<1> SUFFICES ASSUME CandidateInv, [CandidateNext]_candidateVars PROVE CandidateInv'
  OBVIOUS
<1>0. window \in [Window -> WindowOf] /\ observers \in [Window -> {"none", "silent", "asked", "answered"}]
      /\ context \in [Request -> {"new", "made", "used"}] /\ IsFiniteSet(Living) /\ count = Cardinality(Living)
  BY DEF CandidateInv, CandidateTypes, CountTrue
<1>1. CASE MakeContexts
  <2>1. \A w \in Window : window[w].kind # "root"
    BY <1>1 DEF MakeContexts, CandidateInv, OwnersKept
  <2>2. context' \in [Request -> {"new", "made", "used"}] /\ loop = "runs"
        /\ UNCHANGED <<window, count, queued, observers, events, record, loop>>
    BY <1>1 DEF MakeContexts
  <2> QED BY <2>1, <2>2 DEF CandidateInv, CandidateTypes, CountTrue, Living, OwnersKept, OneRoot, LoopEndsLast,
             RootsReady
<1>2. ASSUME NEW w \in Window, NEW r \in Request, AsksRoot(r, w) PROVE CandidateInv'
  BY <1>0, <1>2, AsksKeeps DEF AsksRoot
<1>3. ASSUME NEW w \in Window, NEW r \in Request, Popup(r, w) PROVE CandidateInv'
  BY <1>0, <1>3, AsksKeeps DEF Popup
<1>4. ASSUME NEW w \in Window, Stray(w) PROVE CandidateInv'
  BY <1>0, <1>4, AsksKeeps DEF Stray
<1>5. ASSUME NEW w \in Window, Created(w) PROVE CandidateInv'
  <2>1. loop = "runs" /\ window[w].at = "asked" /\ count' = count + 1 /\ UNCHANGED <<context, record, loop>>
    BY <1>5 DEF Created
  <2>2. PICK s \in {"open", "closing"} : /\ window' = [window EXCEPT ![w] = Staged(window[w], s)]
                                        /\ (s = "open" => window[w].own # Unbound)
                                        /\ \/ UNCHANGED observers
                                           \/ s = "open" /\ observers' = [observers EXCEPT ![w] = "silent"]
    BY <1>5 DEF Created, Staged
  <2>3. window'[w].at = s /\ \A v \in Window \ {w} : window'[v] = window[v]
    BY <1>0, <2>2, StagedIs
  <2>4. Living' = Living \cup {w} /\ w \notin Living
    BY <2>1, <2>3 DEF Living
  <2>5. CountTrue'
    BY <1>0, <2>1, <2>4, FS_AddElement DEF CountTrue
  <2>6. observers[w] = "none"
    BY <2>1 DEF CandidateInv, OwnersKept
  <2>7. observers' \in [Window -> {"none", "silent", "asked", "answered"}]
        /\ \A v \in Window : observers'[v] # "none" => IF v = w THEN s = "open" ELSE observers[v] # "none"
    BY <1>0, <2>2, <2>6
  <2>8. LoopEndsLast'
    BY <2>1 DEF LoopEndsLast
  <2>9. window[w].at # "free" /\ loop = "runs" /\ UNCHANGED <<context, record>>
    BY <2>1
  <2> QED BY <2>2, <2>5, <2>7, <2>8, <2>9, StageKeeps
<1>6. ASSUME NEW w \in Window, LoadStart(w) \/ FrameKnown(w) PROVE CandidateInv'
  <2>1. PICK o \in {"asked", "answered"} : observers' = [observers EXCEPT ![w] = o]
    BY <1>6 DEF LoadStart, FrameKnown
  <2>2. window[w].at = "open" /\ loop = "runs" /\ UNCHANGED <<context, window, count, queued, record, loop>>
    BY <1>6 DEF LoadStart, FrameKnown
  <2>3. observers' \in [Window -> {"none", "silent", "asked", "answered"}]
        /\ \A v \in Window : v # w => observers'[v] = observers[v]
    BY <1>0, <2>1
  <2> QED BY <2>2, <2>3 DEF CandidateInv, CandidateTypes, CountTrue, Living, OwnersKept, OneRoot, LoopEndsLast,
             RootsReady
<1>7. ASSUME NEW w \in Window, BeforeClose(w) PROVE CandidateInv'
  <2>1. /\ loop = "runs" /\ window[w].at \in {"open", "closing"} /\ count' = count - 1
        /\ UNCHANGED <<context, queued, record>>
        /\ window' = [window EXCEPT ![w] = Staged(window[w], "closed")]
        /\ loop' = (IF QuitsAtLast(count - 1) THEN "quit" ELSE loop)
    BY <1>7 DEF BeforeClose, Staged
  <2>2. window'[w].at = "closed" /\ \A v \in Window \ {w} : window'[v] = window[v]
    BY <1>0, <2>1, StagedIs
  <2>3. Living' = Living \ {w} /\ w \in Living
    BY <2>1, <2>2 DEF Living
  <2>4. CountTrue'
    BY <1>0, <2>1, <2>3, FS_RemoveElement DEF CountTrue
  <2>5. observers' \in [Window -> {"none", "silent", "asked", "answered"}]
        /\ \A v \in Window : observers'[v] # "none" => v # w /\ observers[v] # "none"
    <3>1. CASE window[w].own = Unbound
      <4>1. UNCHANGED observers /\ window[w].at = "closing"
        BY <1>7, <2>1, <3>1 DEF BeforeClose, CandidateInv, OwnersKept
      <4> QED BY <1>0, <4>1 DEF CandidateInv, OwnersKept
    <3>2. CASE window[w].own # Unbound
      BY <1>0, <1>7, <3>2 DEF BeforeClose
    <3> QED BY <3>1, <3>2
  <2>6. LoopEndsLast'
    <3> SUFFICES ASSUME loop' # "runs"
                 PROVE  /\ queued' = 0 /\ \A v \in Window : window'[v].at \in {"free", "asked", "closed"}
                        /\ \A v \in Window : observers'[v] = "none"
      BY DEF LoopEndsLast
    <3>1. count' = 0 /\ queued' = 0
      BY <2>1 DEF QuitsAtLast
    <3>2. Living' = {}
      BY <2>4, <3>1, FS_EmptySet DEF CountTrue
    <3>3. \A v \in Window : window'[v] \in WindowOf
      BY <1>0, <2>1, StagedIs
    <3>4. \A v \in Window : window'[v].at \in {"free", "asked", "closed"}
      BY <3>2, <3>3 DEF Living, WindowOf
    <3>5. ASSUME NEW v \in Window PROVE observers'[v] = "none"
      <4>1. observers'[v] # "none" => window'[v].at = "open"
        BY <2>2, <2>5 DEF CandidateInv, OwnersKept
      <4> QED BY <3>4, <4>1
    <3> QED BY <3>1, <3>4, <3>5
  <2>7. window[w].at # "free"
    BY <2>1
  <2> QED BY <2>1, <2>4, <2>5, <2>6, <2>7, StageKeeps
<1>8. CASE Records
  <2>1. UNCHANGED <<context, window, count, queued, observers, loop>>
    BY <1>8 DEF Records
  <2>2. record' = [bound |-> record'.bound, frames |-> record'.frames, ready |-> record'.ready, at |-> record'.at]
        /\ record.frames \subseteq record'.frames /\ (record'.ready => record.ready \/ ReadyRoots(record'.frames))
    <3>0. PICK e : e = Head(events)
      OBVIOUS
    <3>1. record = [bound |-> record.bound, frames |-> record.frames, ready |-> record.ready, at |-> record.at]
      BY DEF CandidateInv, CandidateTypes
    <3>2. CASE e.kind = "profile"
      <4>1. record' = [record EXCEPT !.bound = record.bound \cup {e.id}]
        BY <1>8, <3>0, <3>2 DEF Records
      <4> QED BY <3>1, <4>1
    <3>3. CASE e.kind = "frame"
      <4>1. record' = [record EXCEPT !.frames = record.frames \cup {e.id},
                                     !.ready = record.ready \/ ReadyRoots(record.frames \cup {e.id})]
        BY <1>8, <3>0, <3>3 DEF Records
      <4> QED BY <3>1, <4>1
    <3>4. CASE e.kind = "dropped"
      <4>1. record' = [record EXCEPT !.at = "complete"]
        BY <1>8, <3>0, <3>4 DEF Records
      <4> QED BY <3>1, <4>1
    <3>5. CASE e.kind \notin {"profile", "frame", "dropped"}
      <4>1. record' = record
        BY <1>8, <3>0, <3>5 DEF Records
      <4> QED BY <3>1, <4>1
    <3> QED BY <3>2, <3>3, <3>4, <3>5
  <2>3. RootsReady'
    BY <2>1, <2>2, AllFramed DEF CandidateInv, RootsReady
  <2> QED BY <2>1, <2>2, <2>3 DEF CandidateInv, CandidateTypes, CountTrue, Living, OwnersKept, OneRoot,
             LoopEndsLast
<1>9. CASE Returns
  <2>1. loop # "runs" /\ UNCHANGED <<context, window, count, queued, observers, record>>
    BY <1>9 DEF Returns
  <2> QED BY <2>1 DEF CandidateInv, CandidateTypes, CountTrue, Living, OwnersKept, OneRoot, LoopEndsLast,
             RootsReady
<1>10. CASE UNCHANGED candidateVars
  BY <1>10 DEF candidateVars, CandidateInv, CandidateTypes, CountTrue, Living, OwnersKept, OneRoot, LoopEndsLast,
     RootsReady
<1> QED BY <1>1, <1>2, <1>3, <1>4, <1>5, <1>6, <1>7, <1>8, <1>9, <1>10 DEF CandidateNext

\* For any number of profiles, windows and popups, the message loop ends only after every root was created
\* and every browser closed, and the roots are announced when each one's frame is known (main.rs).
THEOREM ExperimentEndsLast == CandidateSpec => [](LoopEndsLast /\ RootsReady)
BY CandidateBegins, CandidateKept, PTL DEF CandidateSpec, CandidateInv

------------------------------------------------------------------------------
\* The writer of the control pipe (PipeWriter).

PipeBusy    == thread \in {"check", "go", "writing"}
LastTaken == given - Len(queue)     \* the request the thread took last

PipeTypes == /\ caller \in {"open", "joining", "cancelling", "gone"}
             /\ thread \in {"idle", "check", "go", "writing", "ended"}
             /\ given \in Nat /\ left \in Nat /\ lateWrites \in Nat
             /\ queue \in Seq(Nat) /\ done \in Seq({"ok", "failed"}) /\ pipe \in Seq(Nat)
             /\ waiting \in BOOLEAN /\ closing \in BOOLEAN
\* A request that is pending is in the queue, being written or answered; without one the thread rests.
OnePending == /\ ~waiting => queue = <<>> /\ done = <<>> /\ ~PipeBusy
              /\ waiting => \/ Len(queue) = 1 /\ done = <<>> /\ ~PipeBusy
                            \/ queue = <<>> /\ done = <<>> /\ PipeBusy
                            \/ queue = <<>> /\ Len(done) = 1 /\ ~PipeBusy
              /\ Len(queue) <= given
\* How much is in the pipe, until a write failed: all the requests taken, less what is left of the last.
PiecesCounted == /\ thread = "idle" => Len(pipe) = LastTaken * Parts
                 /\ PipeBusy => left \in 1..Parts /\ LastTaken \in Nat \ {0} /\ Len(pipe) = LastTaken * Parts - left
\* The flag is set by closing, and read before each write is begun.
FlagRead == /\ closing => caller # "open"
            /\ caller = "joining" => ~waiting
            /\ ~closing => lateWrites = 0
            /\ thread = "go" => lateWrites = 0
            /\ lateWrites <= 1
PipeInv == PipeTypes /\ OnePending /\ PiecesCounted /\ FlagRead /\ RequestsWhole

\* A piece belongs to the request its place in the pipe says.
LEMMA PieceOf ==
  ASSUME NEW n \in Nat \ {0}, NEW p \in Nat \ {0}, NEW l \in 1..p
  PROVE  (n * p - l) \div p = n - 1
<1>1. n * p = (n - 1) * p + p
  OBVIOUS
<1>2. n * p - l = (n - 1) * p + (p - l) /\ p - l \in 0..p - 1
  BY <1>1
<1> QED BY <1>2

\* Requests are counted in pieces.
LEMMA OneLess == ASSUME NEW n \in Nat \ {0} PROVE (n - 1) * Parts = n * Parts - Parts /\ n * Parts \in Nat
BY WriterAssumption

\* The only element of a sequence is its last.
LEMMA LastOut == ASSUME NEW S, NEW s \in Seq(S), Len(s) = 1 PROVE Tail(s) = <<>> /\ Tail(s) \in Seq(S)
<1>1. s # <<>>
  BY EmptySeq
<1>2. Tail(s) \in Seq(S) /\ Len(Tail(s)) = 0
  BY <1>1, HeadTailProperties
<1> QED BY <1>2, EmptySeq

\* Every step of the caller, the thread and the browser's end keeps the invariant.
LEMMA PipeKept == PipeInv /\ [PipeNext]_pipeVars => PipeInv'
<1> SUFFICES ASSUME PipeInv, [PipeNext]_pipeVars PROVE PipeInv'
  OBVIOUS
<1> USE WriterAssumption DEF PipeInv, PipeBusy
<1>1. CASE HandOver
  <2>1. queue = <<>> /\ given' = given + 1 /\ queue' = Append(queue, given + 1)
    BY <1>1 DEF HandOver, OnePending
  <2>2. Len(queue') = 1 /\ queue' \in Seq(Nat) /\ given' - Len(queue') = given - Len(queue)
    BY <2>1 DEF PipeTypes
  <2>3. PipeTypes' /\ OnePending'
    BY <1>1, <2>1, <2>2 DEF HandOver, PipeTypes, OnePending
  <2>4. PiecesCounted'
    BY <1>1, <2>2 DEF HandOver, PiecesCounted, LastTaken
  <2> QED BY <1>1, <2>3, <2>4 DEF HandOver, FlagRead, RequestsWhole
<1>2. CASE Settle
  <2>1. queue = <<>> /\ Len(done) = 1 /\ ~PipeBusy /\ done' = Tail(done)
    BY <1>2 DEF Settle, OnePending
  <2>2. done' = <<>> /\ done' \in Seq({"ok", "failed"})
    BY <2>1, LastOut DEF PipeTypes
  <2>3. PipeTypes' /\ OnePending'
    BY <1>2, <2>1, <2>2 DEF Settle, PipeTypes, OnePending
  <2> QED BY <1>2, <2>3 DEF Settle, PiecesCounted, LastTaken, FlagRead, RequestsWhole
<1>3. CASE Take
  <2>1. Len(queue) = 1 /\ waiting /\ done = <<>> /\ queue' = Tail(queue) /\ left' = Parts /\ thread' = "check"
    BY <1>3 DEF Take, OnePending, PipeTypes
  <2>2. queue' = <<>> /\ Len(queue') = 0 /\ queue' \in Seq(Nat)
    BY <2>1, LastOut DEF PipeTypes
  <2>3. given \in Nat \ {0} /\ thread = "idle" /\ thread' = "check" /\ waiting' = waiting /\ done' = done
        /\ UNCHANGED <<caller, given, pipe, closing, lateWrites>>
    BY <1>3, <2>1 DEF Take, OnePending, PipeTypes
  <2>4. PipeTypes'
    BY <2>1, <2>2, <2>3 DEF PipeTypes
  <2>5. OnePending'
    <3>1. waiting' /\ queue' = <<>> /\ done' = <<>> /\ PipeBusy'
      BY <2>1, <2>2, <2>3
    <3>2. Len(queue') <= given'
      BY <2>2, <2>3
    <3> QED BY <3>1, <3>2 DEF OnePending
  <2>6. Len(pipe) = (given - 1) * Parts
    BY <2>1, <2>3 DEF PiecesCounted, LastTaken
  <2>7. LastTaken' = given /\ Len(pipe') = given * Parts - Parts
    BY <2>2, <2>3, <2>6, OneLess DEF LastTaken
  <2>8. PiecesCounted'
    BY <2>1, <2>3, <2>7 DEF PiecesCounted
  <2> QED BY <2>1, <2>3, <2>4, <2>5, <2>8 DEF FlagRead, RequestsWhole
<1>4. CASE Check
  <2>1. CASE ~closing /\ thread' = "go" /\ UNCHANGED done
    BY <1>4, <2>1 DEF Check, PipeTypes, OnePending, PiecesCounted, LastTaken, FlagRead, RequestsWhole
  <2>2. CASE closing /\ Stops("ended")
    <3>1. done = <<>> /\ done' = Append(done, "failed") /\ thread' = "ended" /\ queue = <<>> /\ waiting
      BY <1>4, <2>2 DEF Check, Stops, OnePending
    <3>2. done' \in Seq({"ok", "failed"}) /\ Len(done') = 1
      BY <3>1
    <3> QED BY <1>4, <3>1, <3>2 DEF Check, PipeTypes, OnePending, PiecesCounted, LastTaken, FlagRead,
               RequestsWhole
  <2> QED BY <1>4, <2>1, <2>2 DEF Check
<1>5. CASE Writes
  <2>1. lateWrites = 0 /\ lateWrites' \in 0..1 /\ (~closing => lateWrites' = 0)
    BY <1>5 DEF Writes, FlagRead
  <2> QED BY <1>5, <2>1 DEF Writes, PipeTypes, OnePending, PiecesCounted, LastTaken, FlagRead, RequestsWhole
<1>6. CASE Wrote
  <2>1. /\ left \in 1..Parts /\ LastTaken \in Nat \ {0} /\ Len(pipe) = LastTaken * Parts - left
        /\ pipe' = Append(pipe, LastTaken) /\ left' = left - 1 /\ queue' = queue /\ given' = given
    BY <1>6 DEF Wrote, PiecesCounted, LastTaken
  <2>2. pipe' \in Seq(Nat) /\ Len(pipe') = Len(pipe) + 1 /\ pipe'[Len(pipe) + 1] = LastTaken
        /\ (\A i \in 1..Len(pipe) : pipe'[i] = pipe[i]) /\ Len(pipe) \in Nat
    BY <2>1 DEF PipeTypes
  <2>3. RequestsWhole'
    <3> SUFFICES ASSUME NEW i \in 1..Len(pipe) + 1 PROVE pipe'[i] = ((i - 1) \div Parts) + 1
      BY <2>2 DEF RequestsWhole
    <3>1. CASE i = Len(pipe) + 1
      <4>1. i - 1 = LastTaken * Parts - left
        BY <2>1, <2>2, <3>1
      <4>2. (i - 1) \div Parts = LastTaken - 1
        BY <2>1, <4>1, PieceOf
      <4> QED BY <2>1, <2>2, <3>1, <4>2
    <3>2. CASE i # Len(pipe) + 1
      BY <2>2, <3>2 DEF RequestsWhole
    <3> QED BY <3>1, <3>2
  <2>4. waiting /\ done = <<>> /\ queue = <<>> /\ waiting' = waiting
    BY <1>6 DEF Wrote, OnePending
  <2>5. Append(done, "ok") \in Seq({"ok", "failed"}) /\ Len(Append(done, "ok")) = 1
    BY <2>4
  <2>6. PipeTypes'
    BY <1>6, <2>1, <2>2, <2>5 DEF Wrote, PipeTypes
  <2>9. OnePending' /\ FlagRead'
    BY <1>6, <2>1, <2>4, <2>5 DEF Wrote, OnePending, FlagRead
  <2>7. LastTaken' = LastTaken /\ Len(pipe') = LastTaken * Parts - left'
    <3>1. LastTaken * Parts \in Int
      BY <2>1
    <3> QED BY <2>1, <2>2, <3>1 DEF LastTaken
  <2>8. PiecesCounted'
    <3>1. CASE left = 1
      <4>1. left' = 0 /\ thread' = "idle" /\ LastTaken * Parts \in Int
        BY <1>6, <2>1, <3>1 DEF Wrote
      <4> QED BY <2>7, <4>1 DEF PiecesCounted
    <3>2. CASE left # 1
      <4>1. thread' = "check" /\ left' \in 1..Parts
        BY <1>6, <2>1, <3>2 DEF Wrote
      <4> QED BY <2>1, <2>7, <4>1 DEF PiecesCounted
    <3> QED BY <3>1, <3>2
  <2> QED BY <2>3, <2>6, <2>8, <2>9
<1>7. CASE WriteFails
  <2>1. done = <<>> /\ done' = Append(done, "failed") /\ thread' = "ended" /\ queue = <<>> /\ waiting
    BY <1>7 DEF WriteFails, Stops, OnePending
  <2>2. done' \in Seq({"ok", "failed"}) /\ Len(done') = 1
    BY <2>1
  <2> QED BY <1>7, <2>1, <2>2 DEF WriteFails, PipeTypes, OnePending, PiecesCounted, LastTaken, FlagRead,
             RequestsWhole
<1>8. CASE DropInput
  BY <1>8 DEF DropInput, PipeTypes, OnePending, PiecesCounted, LastTaken, FlagRead, RequestsWhole
<1>9. CASE ThreadEnds
  BY <1>9 DEF ThreadEnds, PipeTypes, OnePending, PiecesCounted, LastTaken, FlagRead, RequestsWhole
<1>10. CASE Gone
  BY <1>10 DEF Gone, PipeTypes, OnePending, PiecesCounted, LastTaken, FlagRead, RequestsWhole
<1>11. CASE UNCHANGED pipeVars
  BY <1>11 DEF pipeVars, PipeTypes, OnePending, PiecesCounted, LastTaken, FlagRead, RequestsWhole
<1> QED BY <1>1, <1>2, <1>3, <1>4, <1>5, <1>6, <1>7, <1>8, <1>9, <1>10, <1>11 DEF PipeNext

\* It holds at first.
LEMMA PipeBegins == PipeInit => PipeInv
<1> SUFFICES ASSUME PipeInit PROVE PipeInv
  OBVIOUS
<1>1. queue = <<>> /\ Len(queue) = 0 /\ done = <<>> /\ pipe = <<>> /\ Len(pipe) = 0 /\ given = 0
  BY DEF PipeInit
<1>2. LastTaken * Parts = 0
  BY <1>1, WriterAssumption DEF LastTaken
<1>3. PipeTypes
  <2>1. <<>> \in Seq(Nat) /\ <<>> \in Seq({"ok", "failed"})
    BY EmptySeq
  <2>2. queue \in Seq(Nat) /\ done \in Seq({"ok", "failed"}) /\ pipe \in Seq(Nat)
    BY <1>1, <2>1
  <2>3. /\ caller = "open" /\ thread = "idle" /\ given = 0 /\ left = 0 /\ lateWrites = 0
        /\ waiting = FALSE /\ closing = FALSE
    BY DEF PipeInit
  <2> QED BY <2>2, <2>3 DEF PipeTypes
<1>4. OnePending /\ FlagRead
  BY <1>1 DEF PipeInit, OnePending, FlagRead, PipeBusy
<1>5. PiecesCounted
  BY <1>1, <1>2 DEF PipeInit, PiecesCounted, PipeBusy
<1>6. RequestsWhole
  BY <1>1 DEF RequestsWhole
<1> QED BY <1>3, <1>4, <1>5, <1>6 DEF PipeInv

\* It is stronger than what the writer promises.
LEMMA PipeShows == PipeInv => PipeOrderly
BY DEF PipeInv, PipeTypes, OnePending, FlagRead, PipeBusy, PipeOrderly, OneLateWrite, IdleJoinEnds

\* Whatever times out, fails or is cancelled in the middle of a request, the browser reads whole requests
\* in their order, closing begins no second write, and closing an idle end waits for nothing.
THEOREM PipeStaysOrderly == PipeSpec => []PipeOrderly
BY PipeBegins, PipeKept, PipeShows, PTL DEF PipeSpec

------------------------------------------------------------------------------
\* The exit's code and latch (ExitLatch).

ExitTypes == /\ wanted \subseteq Code /\ code \in Code /\ ask.code \in Code /\ ask.at \in {"none", "compare"}
             /\ slipped \in BOOLEAN /\ resetter \in BOOLEAN
             /\ drainer.at \in {"none", "drain", "exit", "reopening"}

Quits == drainer.for = "quit" /\ drainer.at \in {"drain", "exit"}

\* A request that has stored its code was asked for since the last failed drain, and its code stays
\* stored until its latch is compared; a failed drain in between slips.
AskTrue   == ask.at = "compare" /\ ~slipped =>
                 /\ ask.code \in wanted
                 /\ ask.code = 0 \/ (code = ask.code /\ ~resetter)
\* The stored code was asked for, unless a failed command is still to reset it.
CodeTrue  == slipped \/ resetter \/ code = 0 \/ code \in wanted
\* A drain for a quit exits with a code that was asked for.
QuitTrue  == Quits => slipped \/ (code \in wanted /\ ~resetter)
ExitDrain == drainer.at = "exit" => drainer.for = "quit"
ExitInv == ExitTypes /\ AskTrue /\ CodeTrue /\ QuitTrue /\ ExitDrain /\ ExitCodeAsked

\* Every load and store of the three threads keeps the invariant.
LEMMA ExitKept == ExitInv /\ [ExitNext]_exitVars => ExitInv'
<1> SUFFICES ASSUME ExitInv, [ExitNext]_exitVars PROVE ExitInv'
  OBVIOUS
<1> USE ExitAssumption DEF ExitInv, ExitTypes, AskTrue, CodeTrue, QuitTrue, ExitDrain, ExitCodeAsked, Quits, Alive,
                           NoAsk, NoDrain
<1>1. ASSUME NEW c \in Code, RequestExit(c) PROVE ExitInv'
  <2>1. /\ final = {} /\ ask.at = "none" /\ ask' = [code |-> c, at |-> "compare"]
        /\ wanted' = wanted \cup {c} /\ UNCHANGED <<latch, drainer, resetter, final>>
        /\ code' = (IF c = 0 THEN code ELSE c)
        /\ slipped' = (slipped \/ (c # 0 /\ Undoing))
    BY <1>1 DEF RequestExit
  <2>2. ask'.code = c /\ ask'.at = "compare"
    BY <2>1
  <2> QED BY <2>1, <2>2 DEF Undoing
<1>2. CASE CompareLatch
  <2>1. CASE latch = 2 /\ final' = {ask.code} /\ UNCHANGED <<latch, drainer, slipped>>
    <3>1. ask.at = "compare" /\ ask' = [code |-> 0, at |-> "none"] /\ UNCHANGED <<code, asks, resetter, wanted>>
      BY <1>2 DEF CompareLatch
    <3>2. ask'.at = "none" /\ ask'.code = 0
      BY <3>1
    <3>3. {ask.code} \subseteq wanted \/ slipped
      BY <3>1
    <3> QED BY <2>1, <3>1, <3>2, <3>3
  <2>2. CASE UNCHANGED <<latch, drainer, slipped, final>>
    BY <1>2, <2>2 DEF CompareLatch
  <2>3. CASE /\ latch' = 1 /\ drainer' = [at |-> "drain", for |-> "quit"]
             /\ slipped' = (slipped \/ resetter) /\ UNCHANGED final
    <3>1. /\ drainer'.at = "drain" /\ drainer'.for = "quit" /\ ask.at = "compare"
          /\ ask' = [code |-> 0, at |-> "none"]
          /\ UNCHANGED <<code, asks, resetter, wanted>>
      BY <1>2, <2>3 DEF CompareLatch
    <3>2. slipped \/ resetter \/ (code \in wanted /\ ~resetter)
      BY <3>1
    <3>3. ask'.at = "none" /\ ask'.code = 0
      BY <3>1
    <3>4. slipped' \/ (code' \in wanted' /\ ~resetter')
      BY <2>3, <3>1, <3>2
    <3> QED BY <2>3, <3>1, <3>3, <3>4
  <2> QED BY <1>2, <2>1, <2>2, <2>3 DEF CompareLatch
<1>3. CASE ShutdownBrowsers
  <2>1. drainer'.at = "drain" /\ drainer'.for = "command"
    BY <1>3 DEF ShutdownBrowsers
  <2> QED BY <1>3, <2>1 DEF ShutdownBrowsers
<1>4. CASE DrainCloses
  <2>1. CASE drainer.for = "quit"
    <3>1. drainer' = [drainer EXCEPT !.at = "exit"] /\ drainer.at = "drain"
      BY <1>4, <2>1 DEF DrainCloses
    <3>2. Quits /\ (drainer'.at = "exit" => drainer'.for = "quit" \/ drainer'.for # drainer.for)
      BY <2>1, <3>1
    <3> QED BY <1>4, <2>1, <3>1, <3>2 DEF DrainCloses
  <2>2. CASE drainer.for # "quit"
    BY <1>4, <2>2 DEF DrainCloses
  <2> QED BY <2>1, <2>2
<1>5. CASE ExitsWithCode
  BY <1>5 DEF ExitsWithCode
<1>6. CASE ResetsCode
  <2>1. drainer'.at = "reopening"
    BY <1>6 DEF ResetsCode
  <2> QED BY <1>6, <2>1 DEF ResetsCode
<1>7. CASE ReopensLast
  BY <1>7 DEF ReopensLast
<1>8. CASE ReopensFirst
  BY <1>8 DEF ReopensFirst
<1>9. CASE ResetsLast
  BY <1>9 DEF ResetsLast
<1>10. CASE Terminal
  BY <1>10 DEF Terminal
<1>11. CASE UNCHANGED exitVars
  BY <1>11 DEF exitVars
<1> QED BY <1>1, <1>2, <1>3, <1>4, <1>5, <1>6, <1>7, <1>8, <1>9, <1>10, <1>11 DEF ExitNext

\* It holds at first.
LEMMA ExitBegins == ExitInit => ExitInv
<1> SUFFICES ASSUME ExitInit PROVE ExitInv
  OBVIOUS
<1>1. ask.at = "none" /\ ask.code = 0 /\ drainer.at = "none"
  BY DEF ExitInit, NoAsk, NoDrain
<1> QED BY <1>1, ExitAssumption
        DEF ExitInit, ExitInv, ExitTypes, AskTrue, CodeTrue, QuitTrue, ExitDrain, ExitCodeAsked, Quits

\* However the requests, the worker and the command interleave, the App exits with a code that was asked
\* for since the last drain that failed, but for a request between the two stores of a failed drain.
THEOREM ExitsAsAsked == ExitSpec => []ExitCodeAsked
<1>1. ExitInv => ExitCodeAsked
  BY DEF ExitInv
<1> QED BY ExitBegins, <1>1, ExitKept, PTL DEF ExitSpec

------------------------------------------------------------------------------
\* The file of last pages of a profile (ResumeStore).

LastPages == [key : Home, url : Page]
\* What a record leaves in the file: a key once, and no more entries than there may be.
Lists == {s \in Seq(LastPages) : /\ Len(s) <= MaxPages
                               /\ \A i, j \in 1..Len(s) : s[i].key = s[j].key => i = j}
\* The home's page is listed, and every entry after it belongs to one of the others.
Remembers(s, h, u, others) == \E i \in 1..Len(s) : /\ s[i] = Entry(h, u)
                                               /\ \A j \in i + 1..Len(s) : s[j].key \in others
\* The list once the home has recorded the page.
Then(s, h, u) == Cut(Append(Without(s, h), Entry(h, u)))
StoreTypes == /\ file \in Lists \cup {Broken} /\ pending \in [Home -> Lists \cup {Unwritten}]
              /\ stored \in [Home -> Page \cup {Unwritten}] /\ since \in [Home -> SUBSET Home]
              /\ overtaken \in SUBSET Home /\ \A h \in Home : IsFiniteSet(since[h])
\* A record under way ends with its home's page; unless it was overtaken, it is the file's list with that page.
PendingHolds(h) ==
    pending[h] # Unwritten =>
        /\ pending[h] # <<>> /\ pending[h][Len(pending[h])].key = h
        /\ h \notin overtaken => file \in Lists /\ \E u \in Page : pending[h] = Then(file, h, u)
\* The others' entries after a home's page are those of homes that recorded since.
StoredHolds(h) ==
    stored[h] # Unwritten => /\ file \in Lists
                             /\ \/ Cardinality(since[h]) >= MaxPages
                                \/ Remembers(file, h, stored[h], since[h])
StoreInv == StoreTypes /\ \A h \in Home : PendingHolds(h) /\ StoredHolds(h)

\* A list of last pages without one home's entry is a list, and keeps the order of the other homes' entries.
LEMMA WithoutOne ==
  ASSUME NEW s \in Lists, NEW h \in Home
  PROVE  /\ Without(s, h) \in Lists /\ \A i \in 1..Len(Without(s, h)) : Without(s, h)[i].key # h
         /\ \A g \in Home \ {h}, u \in Page, others \in SUBSET Home :
                Remembers(s, g, u, others) => Remembers(Without(s, h), g, u, others)
<1> DEFINE w == Without(s, h)
<1> USE StoreAssumption
<1>1. s \in Seq(LastPages) /\ Len(s) \in Nat /\ Len(s) <= MaxPages /\ \A i \in 1..Len(s) : s[i] \in LastPages
  BY DEF Lists
<1>2. \A i, j \in 1..Len(s) : s[i].key = s[j].key => i = j
  BY DEF Lists
<1>3. CASE At(s, h) = {}
  <2>1. w = s
    BY <1>3 DEF Without
  <2> QED BY <1>3, <1>1, <2>1 DEF At
<1>4. CASE At(s, h) # {}
  <2> DEFINE i == CHOOSE i \in At(s, h) : TRUE
             n == Len(s) - 1
  <2>1. i \in 1..Len(s) /\ s[i].key = h
    BY <1>4 DEF At
  <2>2. w = [j \in 1..n |-> s[IF j < i THEN j ELSE j + 1]]
    BY <1>4 DEF Without
  <2> HIDE DEF i
  <2>3. n \in Nat /\ Len(s) = n + 1
    BY <1>1, <2>1
  <2>4. \A j \in 1..n : (IF j < i THEN j ELSE j + 1) \in 1..Len(s)
    BY <1>1, <2>1
  <2>5. \A j \in 1..n : s[IF j < i THEN j ELSE j + 1] \in LastPages
    BY <1>1, <2>4
  <2> HIDE DEF n
  <2>6. w \in Seq(LastPages) /\ Len(w) = n
    <3> DEFINE f(j) == s[IF j < i THEN j ELSE j + 1]
    <3>1. w = [j \in 1..n |-> f(j)]
      BY <2>2
    <3>2. \A j \in 1..n : f(j) \in LastPages
      BY <2>5
    <3> HIDE DEF w, f
    <3>3. w \in [1..n -> LastPages]
      BY <3>1, <3>2
    <3>4. w \in Seq(LastPages)
      BY <3>3, <2>3, SeqDef
    <3> QED BY <3>3, <3>4, <2>3, LenProperties
  <2>7. \A j \in 1..n : w[j] = s[IF j < i THEN j ELSE j + 1]
    BY <2>2
  <2> HIDE DEF w
  <2>8. \A j \in 1..Len(w) : w[j].key # h
    BY <1>1, <1>2, <2>1, <2>3, <2>4, <2>6, <2>7
  <2>9. w \in Lists
    <3>1. Len(w) <= MaxPages
      BY <1>1, <2>3, <2>6
    <3>2. ASSUME NEW j \in 1..Len(w), NEW k \in 1..Len(w), w[j].key = w[k].key
          PROVE  j = k
      <4> DEFINE jj == IF j < i THEN j ELSE j + 1
                 kk == IF k < i THEN k ELSE k + 1
      <4>1. jj \in 1..Len(s) /\ kk \in 1..Len(s) /\ s[jj].key = s[kk].key
        BY <2>4, <2>6, <2>7, <3>2
      <4> HIDE DEF jj, kk
      <4>2. jj = kk
        BY <4>1, <1>2
      <4> QED BY <4>2, <2>1, <2>3, <2>6, <1>1 DEF jj, kk
    <3> QED BY <3>1, <3>2, <2>6 DEF Lists
  <2>10. ASSUME NEW g \in Home \ {h}, NEW u \in Page, NEW others \in SUBSET Home, Remembers(s, g, u, others)
         PROVE  Remembers(w, g, u, others)
    <3>1. PICK k \in 1..Len(s) : s[k] = Entry(g, u) /\ \A j \in k + 1..Len(s) : s[j].key \in others
      BY <2>10 DEF Remembers
    <3>2. k # i
      BY <3>1, <2>1 DEF Entry
    <3> DEFINE l == IF k < i THEN k ELSE k - 1
    <3>3. l \in 1..n /\ (IF l < i THEN l ELSE l + 1) = k
      BY <3>2, <2>1, <2>3, <1>1
    <3>4. \A j \in l + 1..n : (IF j < i THEN j ELSE j + 1) \in k + 1..Len(s) /\ j \in 1..n
      BY <3>2, <2>1, <2>3, <1>1
    <3> HIDE DEF l
    <3>5. w[l] = Entry(g, u)
      BY <3>1, <3>3, <2>7
    <3>6. \A j \in l + 1..n : w[j].key \in others
      BY <3>1, <3>4, <2>7
    <3> QED BY <3>3, <3>5, <3>6, <2>6 DEF Remembers
  <2> QED BY <2>8, <2>9, <2>10 DEF w
<1> QED BY <1>3, <1>4

\* So many entries of different homes after an entry, so many homes at least have recorded since.
LEMMA AsManyOthers ==
  ASSUME NEW s \in Lists, NEW others, IsFiniteSet(others), NEW k \in Nat,
         \A j \in k + 1..Len(s) : s[j].key \in others
  PROVE  Cardinality(others) >= Len(s) - k
<1> USE StoreAssumption
<1>1. Len(s) \in Nat /\ \A i, j \in 1..Len(s) : s[i].key = s[j].key => i = j
  BY DEF Lists
<1> DEFINE later == k + 1..Len(s)
           key   == [j \in later |-> s[j].key]
<1>2. CASE Len(s) <= k
  BY <1>1, <1>2, FS_CardinalityType
<1>3. CASE Len(s) > k
  <2>1. key \in Injection(later, others)
    <3>1. key \in [later -> others]
      OBVIOUS
    <3>2. \A i, j \in later : key[i] = key[j] => i = j
      BY <1>1
    <3> HIDE DEF key, later
    <3> QED BY <3>1, <3>2 DEF Injection, IsInjective
  <2>2. Cardinality(later) <= Cardinality(others)
    BY <2>1, FS_Injection
  <2>3. Cardinality(later) = Len(s) - k
    BY <1>1, <1>3, FS_Interval
  <2> QED BY <2>2, <2>3, <1>1, FS_CardinalityType
<1> QED BY <1>1, <1>2, <1>3

\* A record leaves a list that ends with its home's page; another home's entry stays, unless as many homes as the
\* list holds have recorded since.
LEMMA ThenOne ==
  ASSUME NEW s \in Lists, NEW h \in Home, NEW u \in Page
  PROVE  /\ Then(s, h, u) \in Lists /\ Then(s, h, u) # <<>>
         /\ Then(s, h, u)[Len(Then(s, h, u))] = Entry(h, u)
         /\ \A g \in Home \ {h}, v \in Page, others \in SUBSET Home :
                IsFiniteSet(others) /\ Remembers(s, g, v, others)
                => \/ Remembers(Then(s, h, u), g, v, others \cup {h})
                   \/ Cardinality(others \cup {h}) >= MaxPages
<1> USE StoreAssumption
<1>1. PICK w \in Lists : /\ w = Without(s, h) /\ \A i \in 1..Len(w) : w[i].key # h
                         /\ \A g \in Home \ {h}, v \in Page, others \in SUBSET Home :
                                Remembers(s, g, v, others) => Remembers(w, g, v, others)
  BY WithoutOne
<1>2. w \in Seq(LastPages) /\ Len(w) \in Nat /\ Len(w) <= MaxPages /\ \A i \in 1..Len(w) : w[i] \in LastPages
  BY DEF Lists
<1>3. \A i, j \in 1..Len(w) : w[i].key = w[j].key => i = j
  BY DEF Lists
<1>4. Entry(h, u) \in LastPages /\ Entry(h, u).key = h
  BY DEF Entry, LastPages
<1>5. PICK t \in Seq(LastPages) : /\ t = Append(w, Entry(h, u)) /\ Len(t) = Len(w) + 1 /\ t[Len(t)] = Entry(h, u)
                                /\ \A i \in 1..Len(w) : t[i] = w[i]
  <2> DEFINE e == Entry(h, u)
  <2>1. e \in LastPages
    BY <1>4
  <2> HIDE DEF e
  <2>2. /\ Append(w, e) \in Seq(LastPages) /\ Len(Append(w, e)) = Len(w) + 1
        /\ \A i \in 1..Len(w) : Append(w, e)[i] = w[i]
        /\ Append(w, e)[Len(w) + 1] = e
    BY <1>2, <2>1, AppendProperties
  <2> QED BY <2>2 DEF e
<1>6. \A i \in 1..Len(t) : i \in 1..Len(w) \/ i = Len(t)
  BY <1>2, <1>5
<1>7. \A i, j \in 1..Len(t) : t[i].key = t[j].key => i = j
  BY <1>1, <1>3, <1>4, <1>5, <1>6
<1>8. ASSUME NEW g \in Home \ {h}, NEW v \in Page, NEW others \in SUBSET Home, Remembers(s, g, v, others)
      PROVE  \E i \in 1..Len(t) : /\ i # Len(t) /\ t[i] = Entry(g, v)
                                  /\ \A j \in i + 1..Len(t) : t[j].key \in others \cup {h}
  <2>1. Remembers(w, g, v, others)
    BY <1>8, <1>1
  <2>2. PICK i \in 1..Len(w) : w[i] = Entry(g, v) /\ \A j \in i + 1..Len(w) : w[j].key \in others
    BY <2>1 DEF Remembers
  <2>3. ASSUME NEW j \in i + 1..Len(t)
        PROVE  t[j].key \in others \cup {h}
    <3>1. j \in i + 1..Len(w) \/ j = Len(t)
      BY <1>2, <1>5
    <3> QED BY <3>1, <2>2, <1>4, <1>5, <1>2
  <2>4. i \in 1..Len(t) /\ i # Len(t)
    BY <1>2, <1>5
  <2> QED BY <2>2, <2>3, <2>4, <1>5
<1>9. Then(s, h, u) = Cut(t)
  BY <1>1, <1>5 DEF Then
<1>10. CASE Len(t) <= MaxPages
  <2>1. Cut(t) = t
    BY <1>10, <1>5, <1>2 DEF Cut
  <2>2. t \in Lists /\ t # <<>>
    <3>1. t \in Seq(LastPages) /\ Len(t) <= MaxPages
      BY <1>10
    <3>2. t \in Lists
      BY <3>1, <1>7 DEF Lists
    <3> QED BY <3>2, <1>5, <1>2
  <2>3. ASSUME NEW g \in Home \ {h}, NEW v \in Page, NEW others \in SUBSET Home, Remembers(s, g, v, others)
        PROVE  Remembers(t, g, v, others \cup {h})
    BY <1>8, <2>3 DEF Remembers
  <2> QED BY <2>1, <2>2, <2>3, <1>9, <1>5
<1>11. CASE Len(t) > MaxPages
  <2>1. Len(t) = MaxPages + 1 /\ Len(t) \in Nat /\ Len(t) > 1
    BY <1>11, <1>5, <1>2
  <2>2. t # <<>>
    BY <2>1
  <2>3. PICK r \in Seq(LastPages) : r = Tail(t) /\ Len(r) = Len(t) - 1 /\ \A i \in 1..Len(r) : r[i] = t[i + 1]
    BY <2>2, HeadTailProperties
  <2>4. Cut(t) = r
    BY <1>11, <1>5, <1>2, <2>3 DEF Cut
  <2>5. \A i \in 1..Len(r) : i + 1 \in 1..Len(t)
    BY <2>1, <2>3
  <2>6. \A i, j \in 1..Len(r) : r[i].key = r[j].key => i = j
    BY <1>7, <2>3, <2>5
  <2>7. r \in Lists
    <3>1. Len(r) <= MaxPages
      BY <2>1, <2>3, <1>2
    <3> QED BY <3>1, <2>6 DEF Lists
  <2>8. r # <<>> /\ r[Len(r)] = Entry(h, u)
    BY <2>1, <2>3, <1>5
  <2>9. ASSUME NEW g \in Home \ {h}, NEW v \in Page, NEW others \in SUBSET Home,
               IsFiniteSet(others), Remembers(s, g, v, others)
        PROVE  \/ Remembers(r, g, v, others \cup {h})
               \/ Cardinality(others \cup {h}) >= MaxPages
    <3> DEFINE since2 == others \cup {h}
    <3>1. PICK i \in 1..Len(t) : /\ i # Len(t) /\ t[i] = Entry(g, v)
                                 /\ \A j \in i + 1..Len(t) : t[j].key \in since2
      BY <1>8, <2>9
    <3>2. CASE i > 1
      <4>1. i - 1 \in 1..Len(r) /\ r[i - 1] = Entry(g, v)
        BY <3>1, <3>2, <2>1, <2>3
      <4>2. ASSUME NEW j \in (i - 1) + 1..Len(r)
            PROVE  r[j].key \in since2
        <5>1. j \in 1..Len(r) /\ j + 1 \in i + 1..Len(t)
          BY <3>1, <3>2, <2>1, <2>3
        <5> QED BY <5>1, <3>1, <2>3
      <4> QED BY <4>1, <4>2 DEF Remembers
    <3>3. CASE i = 1
      <4>1. ASSUME NEW j \in 0 + 1..Len(r)
            PROVE  r[j].key \in since2
        <5>1. j \in 1..Len(r) /\ j + 1 \in i + 1..Len(t)
          BY <3>1, <3>3, <2>1, <2>3
        <5> QED BY <5>1, <3>1, <2>3
      <4>2. IsFiniteSet(since2)
        BY <2>9, FS_AddElement
      <4> HIDE DEF since2
      <4>3. Cardinality(since2) >= Len(r) - 0
        BY <4>1, <4>2, <2>7, AsManyOthers
      <4> QED BY <4>3, <2>1, <2>3 DEF since2
    <3> QED BY <3>1, <3>2, <3>3
  <2> QED BY <2>4, <2>7, <2>8, <2>9, <1>9
<1> QED BY <1>2, <1>5, <1>10, <1>11

\* What the file is changed to when a record is renamed over it.
LEMMA RecordedIs ==
  ASSUME NEW h, NEW u
  PROVE  Recorded(h, u) = Then(file, h, u)
BY DEF Recorded, Then

\* An empty or damaged file, and no record under way.
LEMMA StoreBegins == StoreInit => StoreInv
<1> SUFFICES ASSUME StoreInit PROVE StoreInv
  OBVIOUS
<1> USE StoreAssumption DEF StoreInit
<1>1. <<>> \in Lists
  BY DEF Lists
<1>2. StoreTypes
  BY <1>1, FS_EmptySet DEF StoreTypes
<1>3. \A h \in Home : PendingHolds(h) /\ StoredHolds(h)
  BY DEF PendingHolds, StoredHolds
<1> QED BY <1>2, <1>3 DEF StoreInv

\* A home reads the list and makes its own: no other record is disturbed.
LEMMA ReadsKept ==
  ASSUME StoreInv, NEW h \in Home, NEW u \in Page, ReadsStore(h, u)
  PROVE  StoreInv'
<1>1. file \in Lists /\ StoreTypes
  BY DEF ReadsStore, StoreInv, StoreTypes
<1>2. PICK new \in Lists : /\ new = Then(file, h, u) /\ new # <<>> /\ new[Len(new)] = Entry(h, u)
  BY <1>1, ThenOne
<1>3. /\ pending' = [pending EXCEPT ![h] = new] /\ overtaken' = overtaken \ {h}
      /\ file' = file /\ stored' = stored /\ since' = since
  BY <1>2, RecordedIs DEF ReadsStore
<1>4. StoreTypes'
  BY <1>1, <1>3 DEF StoreTypes
<1>5. ASSUME NEW g \in Home
      PROVE  PendingHolds(g)'
  <2>1. PendingHolds(g)
    BY DEF StoreInv
  <2>2. CASE g = h
    <3>1. pending'[g] = new
      BY <1>1, <1>3, <2>2 DEF StoreTypes
    <3>2. new[Len(new)].key = g
      BY <1>2, <2>2 DEF Entry
    <3> QED BY <3>1, <3>2, <2>2, <1>1, <1>2, <1>3 DEF PendingHolds
  <2>3. CASE g # h
    <3>1. pending'[g] = pending[g] /\ (g \in overtaken' <=> g \in overtaken)
      BY <1>1, <1>3, <2>3 DEF StoreTypes
    <3> QED BY <3>1, <2>1, <1>3 DEF PendingHolds
  <2> QED BY <2>2, <2>3
<1>6. ASSUME NEW g \in Home
      PROVE  StoredHolds(g)'
  <2>1. StoredHolds(g)
    BY DEF StoreInv
  <2> QED BY <2>1, <1>3 DEF StoredHolds
<1> QED BY <1>4, <1>5, <1>6 DEF StoreInv

\* A home's list becomes the file: what others recorded since it was read is taken back, and the other records
\* under way were overtaken.
LEMMA RenamesKept ==
  ASSUME StoreInv, NEW h \in Home, Renames(h)
  PROVE  StoreInv'
<1>1. StoreTypes /\ PendingHolds(h) /\ pending[h] # Unwritten
  BY DEF StoreInv, Renames
<1>2. PICK new \in Lists : new = pending[h] /\ new # <<>> /\ new[Len(new)].key = h
  BY <1>1 DEF StoreTypes, PendingHolds
<1>3. /\ file' = new /\ pending' = [pending EXCEPT ![h] = Unwritten]
      /\ stored' = [g \in Home |-> IF g = h THEN new[Len(new)].url
                                   ELSE IF h \in overtaken THEN Unwritten ELSE stored[g]]
      /\ since' = [g \in Home |-> IF g = h THEN {} ELSE since[g] \cup {h}]
      /\ overtaken' = InProgress \ {h}
  BY <1>2 DEF Renames
<1>4. Len(new) \in Nat /\ Len(new) \in 1..Len(new) /\ new[Len(new)] \in LastPages
  BY <1>2 DEF Lists
<1>5. new[Len(new)].url \in Page /\ new[Len(new)] = Entry(h, new[Len(new)].url)
  BY <1>2, <1>4 DEF LastPages, Entry
<1>6. StoreTypes'
  <2>1. pending' \in [Home -> Lists \cup {Unwritten}] /\ file' \in Lists
    BY <1>1, <1>3 DEF StoreTypes
  <2>2. stored' \in [Home -> Page \cup {Unwritten}]
    BY <1>1, <1>3, <1>5 DEF StoreTypes
  <2>3. since' \in [Home -> SUBSET Home]
    BY <1>1, <1>3 DEF StoreTypes
  <2>4. ASSUME NEW g \in Home
        PROVE  IsFiniteSet(since'[g])
    BY <1>1, <1>3, FS_EmptySet, FS_AddElement DEF StoreTypes
  <2>5. overtaken' \in SUBSET Home
    BY <1>3 DEF InProgress
  <2> QED BY <2>1, <2>2, <2>3, <2>4, <2>5 DEF StoreTypes
<1>7. ASSUME NEW g \in Home
      PROVE  PendingHolds(g)'
  <2>1. PendingHolds(g)
    BY DEF StoreInv
  <2>2. CASE g = h
    BY <1>1, <1>3, <2>2 DEF PendingHolds, StoreTypes
  <2>3. CASE g # h
    <3>1. pending'[g] = pending[g] /\ (pending[g] # Unwritten => g \in overtaken')
      BY <1>1, <1>3, <2>3 DEF StoreTypes, InProgress
    <3> QED BY <3>1, <2>1 DEF PendingHolds
  <2> QED BY <2>2, <2>3
<1>8. ASSUME NEW g \in Home
      PROVE  StoredHolds(g)'
  <2>1. StoredHolds(g)
    BY DEF StoreInv
  <2>2. CASE g = h
    <3>1. stored'[g] = new[Len(new)].url /\ file' = new
      BY <1>3, <2>2
    <3>2. \A j \in Len(new) + 1..Len(new) : new[j].key \in since'[g]
      BY <1>4
    <3>3. Remembers(new, g, new[Len(new)].url, since'[g])
      BY <1>4, <1>5, <2>2, <3>2 DEF Remembers
    <3> QED BY <3>1, <3>3 DEF StoredHolds
  <2>3. CASE g # h /\ h \in overtaken
    BY <1>3, <2>3 DEF StoredHolds
  <2>4. CASE g # h /\ h \notin overtaken /\ stored[g] # Unwritten
    <3>1. /\ stored'[g] = stored[g] /\ since'[g] = since[g] \cup {h} /\ file' = new
          /\ stored[g] \in Page /\ since[g] \in SUBSET Home /\ IsFiniteSet(since[g])
      BY <1>1, <1>3, <2>4 DEF StoreTypes
    <3>2. file \in Lists /\ \E u \in Page : new = Then(file, h, u)
      BY <1>1, <1>2, <2>4 DEF PendingHolds
    <3>3. CASE Cardinality(since[g]) >= MaxPages
      <4>1. PICK before : before = since[g]
        OBVIOUS
      <4>2. IsFiniteSet(before) /\ Cardinality(before) >= MaxPages /\ since'[g] = before \cup {h}
        BY <3>1, <3>3, <4>1
      <4>3. /\ Cardinality(before) \in Nat
            /\ Cardinality(before \cup {h}) \in {Cardinality(before), Cardinality(before) + 1}
        BY <4>2, FS_AddElement, FS_CardinalityType
      <4>4. Cardinality(since'[g]) >= MaxPages
        BY <4>2, <4>3, StoreAssumption
      <4> QED BY <4>4, <1>3, <3>1 DEF StoredHolds
    <3>4. CASE Remembers(file, g, stored[g], since[g])
      <4>1. Remembers(new, g, stored[g], since[g] \cup {h}) \/ Cardinality(since[g] \cup {h}) >= MaxPages
        <5>1. PICK u \in Page, s \in Lists, v \in Page, others \in SUBSET Home :
                      /\ s = file /\ new = Then(s, h, u) /\ v = stored[g] /\ others = since[g]
                      /\ IsFiniteSet(others) /\ Remembers(s, g, v, others)
          BY <3>1, <3>2, <3>4
        <5> QED BY <5>1, <2>4, ThenOne
      <4> QED BY <4>1, <3>1 DEF StoredHolds
    <3> QED BY <3>3, <3>4, <2>1, <2>4 DEF StoredHolds
  <2>5. CASE g # h /\ h \notin overtaken /\ stored[g] = Unwritten
    BY <1>3, <2>5 DEF StoredHolds
  <2> QED BY <2>2, <2>3, <2>4, <2>5
<1> QED BY <1>6, <1>7, <1>8 DEF StoreInv

\* A record that is lost takes nothing back.
LEMMA LostKept ==
  ASSUME StoreInv, NEW h \in Home, WriteLost(h)
  PROVE  StoreInv'
<1>1. StoreTypes
  BY DEF StoreInv
<1>2. StoreTypes'
  BY <1>1 DEF StoreTypes, WriteLost
<1>3. ASSUME NEW g \in Home
      PROVE  PendingHolds(g)' /\ StoredHolds(g)'
  <2>1. PendingHolds(g) /\ StoredHolds(g)
    BY DEF StoreInv
  <2>2. pending'[g] \in {pending[g], Unwritten}
    BY <1>1 DEF StoreTypes, WriteLost
  <2> QED BY <2>1, <2>2 DEF PendingHolds, StoredHolds, WriteLost
<1> QED BY <1>2, <1>3 DEF StoreInv

\* A clearing or damage takes every page back, and overtakes the records under way.
LEMMA ReplacedKept ==
  ASSUME StoreInv, NEW contents \in {<<>>, Broken}, Replaced(contents)
  PROVE  StoreInv'
<1>1. StoreTypes
  BY DEF StoreInv
<1>2. <<>> \in Lists
  BY StoreAssumption DEF Lists
<1>3. StoreTypes'
  BY <1>1, <1>2 DEF StoreTypes, Replaced, InProgress
<1>4. ASSUME NEW g \in Home
      PROVE  PendingHolds(g)' /\ StoredHolds(g)'
  <2>1. PendingHolds(g)
    BY DEF StoreInv
  <2> QED BY <2>1 DEF PendingHolds, StoredHolds, Replaced, InProgress
<1> QED BY <1>3, <1>4 DEF StoreInv

\* Every step of the homes, and what else happens to the file, keeps the invariant.
LEMMA StoreKept == StoreInv /\ [StoreNext]_storeVars => StoreInv'
<1> SUFFICES ASSUME StoreInv, [StoreNext]_storeVars PROVE StoreInv'
  OBVIOUS
<1>1. CASE StoreNext
  BY <1>1, ReadsKept, RenamesKept, LostKept, ReplacedKept DEF StoreNext
<1>2. CASE UNCHANGED storeVars
  BY <1>2 DEF storeVars, StoreInv, StoreTypes, PendingHolds, StoredHolds, Remembers
<1> QED BY <1>1, <1>2

\* Fewer homes than the list holds have recorded since: the home's page is still listed, once.
LEMMA StoreShows == StoreInv => RecordedStays
<1> SUFFICES ASSUME StoreInv, NEW h \in Home, stored[h] # Unwritten, Cardinality(since[h]) < MaxPages
             PROVE  Recall(h) = stored[h]
  BY DEF RecordedStays
<1>1. StoreTypes /\ StoredHolds(h)
  BY DEF StoreInv
<1>2. Cardinality(since[h]) \in Nat
  BY <1>1, FS_CardinalityType DEF StoreTypes
<1>3. file \in Lists /\ Remembers(file, h, stored[h], since[h])
  BY <1>1, <1>2, StoreAssumption DEF StoredHolds
<1>4. PICK i \in 1..Len(file) : file[i] = Entry(h, stored[h])
  BY <1>3 DEF Remembers
<1>5. At(file, h) = {i}
  BY <1>3, <1>4 DEF At, Lists, Entry
<1>6. (CHOOSE k \in At(file, h) : \A j \in At(file, h) : j <= k) = i
  BY <1>5
<1> QED BY <1>4, <1>5, <1>6 DEF Recall, Entry

\* A page once recorded is the one recalled until as many other homes have recorded theirs as the list holds, for
\* any homes that read, change and replace one file without a lock (resume.rs, mod store).
THEOREM RecordsStay == StoreSpec => []RecordedStays
BY StoreBegins, StoreKept, StoreShows, PTL DEF StoreSpec

\* The bounds of each part, for the types of the part that runs.

\* While a drain is under way the latch is taken.
ExitBounds == /\ latch \in 0..2 /\ asks \in 0..MaxAsks /\ final \subseteq Code
              /\ drainer.at # "none" => latch # 0

\* The App's exit.
LEMMA ExitBounded ==
  /\ ExitInit => ExitBounds
  /\ ExitInv /\ ExitBounds /\ [ExitNext]_exitVars => ExitBounds'
  /\ ExitInv /\ ExitBounds => ExitTypeOK
<1>1. ExitInit => ExitBounds
  BY ExitAssumption DEF ExitInit, ExitBounds, NoDrain
<1>2. ASSUME ExitInv, ExitBounds, [ExitNext]_exitVars PROVE ExitBounds'
  <2> USE <1>2, ExitAssumption DEF ExitBounds
  <2>1. ASSUME NEW c \in Code, RequestExit(c) PROVE ExitBounds'
    BY <2>1 DEF RequestExit
  <2>2. CASE CompareLatch
    <3>1. ask.code \in Code /\ UNCHANGED asks
      BY <2>2 DEF CompareLatch, ExitInv, ExitTypes
    <3>2. CASE UNCHANGED <<latch, drainer, slipped>>
      BY <2>2, <3>1, <3>2 DEF CompareLatch
    <3>3. CASE latch' = 1 /\ UNCHANGED final
      BY <3>1, <3>3
    <3> QED BY <2>2, <3>2, <3>3 DEF CompareLatch
  <2>3. CASE ShutdownBrowsers
    BY <2>3 DEF ShutdownBrowsers
  <2>4. CASE DrainCloses
    BY <2>4 DEF DrainCloses
  <2>5. CASE ExitsWithCode
    BY <2>5 DEF ExitsWithCode, ExitInv, ExitTypes
  <2>6. CASE ResetsCode
    BY <2>6 DEF ResetsCode
  <2>7. CASE ReopensLast \/ ReopensFirst
    <3>1. drainer'.at = "none" /\ latch' = 0 /\ UNCHANGED <<asks, final>>
      BY <2>7 DEF ReopensLast, ReopensFirst, NoDrain
    <3> QED BY <3>1
  <2>8. CASE ResetsLast
    BY <2>8 DEF ResetsLast
  <2>a. CASE Terminal
    <3>1. latch' = 1 /\ final' = {0} /\ UNCHANGED <<asks, drainer>>
      BY <2>a DEF Terminal
    <3> QED BY <3>1
  <2>9. CASE UNCHANGED exitVars
    BY <2>9 DEF exitVars
  <2> QED BY <2>1, <2>2, <2>3, <2>4, <2>5, <2>6, <2>7, <2>8, <2>9, <2>a DEF ExitNext
<1>3. ExitInv /\ ExitBounds => ExitTypeOK
  BY DEF ExitInv, ExitTypes, ExitBounds, ExitTypeOK
<1> QED BY <1>1, <1>2, <1>3

\* What is in the queue and in the pipe was handed over.
PipeBounds == /\ given <= MaxRequests /\ left \in 0..Parts
              /\ queue \in Seq(1..MaxRequests) /\ pipe \in Seq(1..MaxRequests)

\* The pipe to a browser on Windows.
LEMMA PipeBounded ==
  /\ PipeInit => PipeBounds
  /\ PipeInv /\ PipeBounds /\ [PipeNext]_pipeVars => PipeBounds'
  /\ PipeInv /\ PipeBounds => PipeTypeOK
<1>1. PipeInit => PipeBounds
  BY WriterAssumption, EmptySeq DEF PipeInit, PipeBounds
<1>2. ASSUME PipeInv, PipeBounds, [PipeNext]_pipeVars PROVE PipeBounds'
  <2> USE <1>2, WriterAssumption DEF PipeBounds, PipeInv, PipeTypes
  <2>1. CASE HandOver
    <3>1. given + 1 \in 1..MaxRequests
      BY <2>1 DEF HandOver
    <3>2. Append(queue, given + 1) \in Seq(1..MaxRequests)
      BY <3>1, AppendProperties
    <3> QED BY <2>1, <3>1, <3>2 DEF HandOver
  <2>2. CASE Take
    <3>1. Tail(queue) \in Seq(1..MaxRequests)
      BY <2>2, HeadTailProperties DEF Take
    <3> QED BY <2>2, <3>1 DEF Take
  <2>3. CASE Wrote
    <3>1. given - Len(queue) \in 1..MaxRequests /\ left \in 1..Parts
      BY <2>3 DEF Wrote, PiecesCounted, PipeBusy, LastTaken
    <3>2. Append(pipe, given - Len(queue)) \in Seq(1..MaxRequests)
      BY <3>1, AppendProperties
    <3> QED BY <2>3, <3>1, <3>2 DEF Wrote
  <2>4. CASE Settle \/ Check \/ Writes \/ WriteFails
    BY <2>4 DEF Settle, Check, Writes, WriteFails, Stops
  <2>5. CASE DropInput \/ ThreadEnds \/ Gone
    BY <2>5 DEF DropInput, ThreadEnds, Gone
  <2>6. CASE UNCHANGED pipeVars
    BY <2>6 DEF pipeVars
  <2> QED BY <2>1, <2>2, <2>3, <2>4, <2>5, <2>6 DEF PipeNext
<1>3. PipeInv /\ PipeBounds => PipeTypeOK
  BY WriterAssumption DEF PipeInv, PipeTypes, FlagRead, PipeBounds, PipeTypeOK
<1> QED BY <1>1, <1>2, <1>3

\* No operation of the code's state counts a load, and only the beginning of one moves to another.
LEMMA BeginMoves == ASSUME NEW n \in NavOf, NEW id
                    PROVE  BeginNav(n, id).current = id /\ BeginNav(n, id).starts = n.starts
BY DEF NavOf, BeginNav

\* A commit counts none.
LEMMA CommitMoves == ASSUME NEW n \in NavOf, NEW id
                     PROVE  /\ CommitNav(n, id, TRUE).current = n.current
                            /\ CommitNav(n, id, TRUE).starts = n.starts
                            /\ CommitNav(n, id, FALSE).current = n.current
                            /\ CommitNav(n, id, FALSE).starts = n.starts
BY DEF NavOf, CommitNav

\* Nor does an end.
LEMMA FinishMoves == ASSUME NEW n \in NavOf, NEW id, NEW u
                     PROVE  /\ FinishNav(n, id, TRUE, u).current = n.current
                            /\ FinishNav(n, id, TRUE, u).starts = n.starts
                            /\ FinishNav(n, id, FALSE, u).current = n.current
                            /\ FinishNav(n, id, FALSE, u).starts = n.starts
BY DEF NavOf, FinishNav

\* Each load is begun once, and on GTK once more for its error page.
NavBounds == /\ nav.starts <= MaxLoads /\ nav.current <= 2 * nav.starts - (IF Loading THEN 1 ELSE 0)
             /\ 0 \notin stale

\* The loads of a home's page.
LEMMA NavBounded ==
  /\ NavInit => NavBounds
  /\ NavInv /\ NavBounds /\ [NavNext]_navVars => NavBounds'
  /\ NavInv /\ NavBounds => NavTypeOK
<1>1. NavInit => NavBounds
  <2> SUFFICES ASSUME NavInit PROVE NavBounds
    OBVIOUS
  <2>1. nav.starts = 0 /\ nav.current = 0 /\ ~Loading /\ stale = {}
    BY DEF NavInit, NoLoad, Loading
  <2> QED BY <2>1, NavigationAssumption DEF NavBounds
<1>2. ASSUME NavInv, NavBounds, [NavNext]_navVars PROVE NavBounds'
  <2>f. /\ nav \in NavOf /\ nav.current \in Nat /\ nav.starts \in Nat /\ load \in LoadOf /\ NoLoad.at = "none"
        /\ MaxLoads \in Nat /\ (nav.pending <=> Loading) /\ (Loading => load.id = nav.starts)
        /\ (engine # "gtk" => nav.current <= nav.starts)
    BY <1>2, NavFacts, NoLoadIs, NavigationAssumption DEF NavInv, LoadPends
  <2>b. /\ nav.starts <= MaxLoads /\ nav.current <= 2 * nav.starts /\ (Loading => nav.current <= 2 * nav.starts - 1)
        /\ 0 \notin stale
    BY <1>2, <2>f DEF NavBounds
  <2>1. ASSUME NEW u \in Url, StartsLoad(u) PROVE NavBounds'
    <3> DEFINE newId == IF engine = "gtk" THEN nav.current + 1 ELSE nav.starts + 1
    <3>1. newId \in Nat /\ newId <= 2 * nav.starts + 1
      BY <2>f, <2>b
    <3>2. PICK b : b = BeginNav(nav, newId) /\ b \in NavOf /\ b.current = newId /\ b.starts = nav.starts
      <4>1. BeginNav(nav, newId) \in NavOf
        <5>1. CASE nav.pending /\ nav.current = newId
          BY <2>f, <5>1 DEF BeginNav
        <5>2. CASE ~(nav.pending /\ nav.current = newId)
          <6> HIDE DEF newId
          <6> QED BY <2>f, <3>1, <5>2, BeginNavIs
        <5> QED BY <5>1, <5>2
      <4> QED BY <2>f, <4>1, BeginMoves
    <3>3. nav' = MoreStarts(b) /\ stale' \subseteq stale \cup {load.id} /\ (stale' # stale => Loading)
          /\ nav.starts < MaxLoads
      BY <2>1, <3>2 DEF StartsLoad, MoreStarts
    <3>4. nav'.current = newId /\ nav'.starts = nav.starts + 1
      BY <3>2, <3>3, MoreStartsIs
    <3>5. 0 \notin stale'
      BY <2>f, <2>b, <3>3
    <3> HIDE DEF newId
    <3> QED BY <2>f, <2>b, <3>1, <3>3, <3>4, <3>5 DEF NavBounds
  <2>2. CASE CommitsLoad
    <3>1. nav'.current = nav.current /\ nav'.starts = nav.starts /\ stale' = stale /\ Loading
      <4>1. PICK id : nav' = CommitNav(nav, id, FALSE) \/ nav' = CommitNav(nav, id, TRUE)
        BY <2>2 DEF CommitsLoad
      <4>2. nav'.current = nav.current /\ nav'.starts = nav.starts
        <5>1. CASE nav' = CommitNav(nav, id, FALSE)
          BY <2>f, <5>1, CommitMoves
        <5>2. CASE nav' = CommitNav(nav, id, TRUE)
          BY <2>f, <5>2, CommitMoves
        <5> QED BY <4>1, <5>1, <5>2
      <4> QED BY <2>2, <2>f, <4>2 DEF CommitsLoad, Loading
    <3> QED BY <2>f, <2>b, <3>1 DEF NavBounds
  <2>3. CASE FinishesLoad
    <3>1. nav'.current = nav.current /\ nav'.starts = nav.starts /\ stale' = stale /\ ~Loading'
      <4>1. PICK id : nav' = FinishNav(nav, id, TRUE, Sample)
        BY <2>3 DEF FinishesLoad
      <4>2. nav'.current = nav.current /\ nav'.starts = nav.starts
        BY <2>f, <4>1, FinishMoves
      <4> QED BY <2>3, <2>f, <4>2 DEF FinishesLoad, Loading
    <3> QED BY <2>f, <2>b, <3>1 DEF NavBounds
  <2>4. CASE FailsLoad
    <3>1. Loading /\ stale' = stale /\ ~Loading'
      BY <2>4, <2>f DEF FailsLoad, Loading
    <3>2. nav'.current = nav.current /\ nav'.starts = nav.starts
      <4>1. CASE engine # "gtk"
        <5>1. PICK id, u : nav' = FinishNav(nav, id, FALSE, u)
          BY <2>4, <4>1 DEF FailsLoad
        <5> QED BY <2>f, <5>1, FinishMoves
      <4>2. CASE engine = "gtk"
        <5>1. nav' = GtkFailed(nav, FALSE, load.url) /\ load.url \in Url \cup {NoUrl} /\ FALSE \in BOOLEAN
          BY <2>4, <2>f, <4>2 DEF FailsLoad, LoadOf
        <5> QED BY <2>f, <3>1, <5>1, GtkFailedIs
      <4> QED BY <4>1, <4>2
    <3> QED BY <2>f, <2>b, <3>1, <3>2 DEF NavBounds
  <2>5. CASE FailsToStockPage
    <3>1. Loading /\ stale' = stale /\ ~Loading' /\ load.url \in Url \cup {NoUrl} /\ TRUE \in BOOLEAN
      BY <2>5, <2>f DEF FailsToStockPage, Loading, LoadOf
    <3>0. load.url \in Url /\ nav.current \in Nat
      BY <1>2, <2>f, <3>1 DEF NavInv, LoadPends
    <3>2. PICK f \in NavOf : /\ f = GtkFailed(nav, TRUE, load.url) /\ f.current = nav.current
                             /\ f.starts = nav.starts /\ f.pending = FALSE
      BY <2>f, <3>1, GtkFailedIs
    <3>3. PICK id \in Nat : id = nav.current + 1
      BY <2>f
    <3>4. PICK b \in NavOf : b = BeginNav(f, id) /\ b.current = id /\ b.starts = nav.starts /\ b.pending = TRUE
      <4>1. ~(f.pending /\ f.current = id)
        BY <3>2
      <4>2. BeginNav(f, id) \in NavOf /\ BeginNav(f, id).current = id /\ BeginNav(f, id).starts = f.starts
            /\ BeginNav(f, id).pending = TRUE
        BY <4>1, BeginNavIs
      <4> QED BY <3>2, <4>2
    <3>5. PICK c \in NavOf : /\ c = CommitNav(b, id, FALSE) /\ c.current = id /\ c.starts = nav.starts
                             /\ c.pending = TRUE
      <4>1. CommitNav(b, b.current, FALSE) = CommitNav(b, id, FALSE)
        BY <3>4
      <4>2. LET d == CommitNav(b, b.current, FALSE) IN d \in NavOf /\ d.current = b.current /\ d.starts = b.starts
                                                      /\ d.pending = TRUE
        BY <3>4, CommitNavIs
      <4> QED BY <3>4, <4>1, <4>2
    <3>6. PICK e \in NavOf : e = FinishNav(c, c.current, FALSE, load.url) /\ e.current = id /\ e.starts = nav.starts
      <4>1. PICK u \in Url \cup {NoUrl} : u = load.url
        BY <3>0
      <4>2. c \in NavOf /\ c.pending
        BY <3>5
      <4>3. /\ FinishNav(c, c.current, FALSE, u) \in NavOf /\ FinishNav(c, c.current, FALSE, u).current = c.current
            /\ FinishNav(c, c.current, FALSE, u).starts = c.starts
        BY <4>2, FinishNavFails
      <4> QED BY <3>5, <4>1, <4>3
    <3>7. nav' \in {e, f}
      BY <2>5, <3>2, <3>3, <3>4, <3>5, <3>6 DEF FailsToStockPage
    <3>8. nav'.current \in {nav.current, nav.current + 1} /\ nav'.starts = nav.starts
      <4>1. CASE nav' = e
        BY <3>3, <3>6, <4>1
      <4>2. CASE nav' = f
        BY <3>2, <4>2
      <4> QED BY <3>7, <4>1, <4>2
    <3> QED BY <2>f, <2>b, <3>1, <3>8 DEF NavBounds
  <2>6. ASSUME NEW id \in stale, StaleCompletes(id) PROVE NavBounds'
    <3>1. nav'.current = nav.current /\ nav'.starts = nav.starts /\ stale' \subseteq stale /\ (Loading' <=> Loading)
      <4>1. nav' = FinishNav(nav, id, FALSE, uri)
        BY <2>6 DEF StaleCompletes
      <4>2. nav'.current = nav.current /\ nav'.starts = nav.starts
        BY <2>f, <4>1, FinishMoves
      <4> QED BY <2>6, <4>2 DEF StaleCompletes, Loading
    <3> QED BY <2>f, <2>b, <3>1 DEF NavBounds
  <2>7. CASE UrlSettles \/ LastSample \/ (\E u \in Url : SameDocument(u)) \/ UNCHANGED navVars
    <3>1. nav' = nav /\ load' = load /\ stale' = stale
      BY <2>7 DEF UrlSettles, LastSample, SameDocument, navVars, pageVars
    <3> QED BY <2>f, <2>b, <3>1 DEF NavBounds, Loading
  <2> QED BY <1>2, <2>1, <2>2, <2>3, <2>4, <2>5, <2>6, <2>7 DEF NavNext
<1>3. ASSUME NavInv, NavBounds PROVE NavTypeOK
  <2>1. nav \in NavOf /\ nav.starts \in 0..MaxLoads /\ nav.current \in 0..2 * MaxLoads
    BY <1>3, NavFacts, NavigationAssumption DEF NavBounds
  <2>2. stale \subseteq 1..MaxLoads
    BY <1>3, <2>1, NavFacts, NavigationAssumption DEF NavBounds, NavInv, NavTypes, LoadPends
  <2>3. nav \in [current : 0..2 * MaxLoads, starts : 0..MaxLoads, pending : BOOLEAN, success : BOOLEAN,
                 previous : BOOLEAN, committed : BOOLEAN, failed : BOOLEAN, blocked : Url \cup {NoUrl}]
    BY <2>1 DEF NavOf
  <2> QED BY <1>3, <2>2, <2>3 DEF NavInv, NavTypes, LoadOf, NavTypeOK
<1> QED BY <1>1, <1>2, <1>3

EventOf == [kind : {"profile", "frame", "closed", "dropped"}, id : Nat]

\* What is told.
LEMMA EventIs == ASSUME NEW kind \in {"profile", "frame", "closed", "dropped"}, NEW n \in Nat
                 PROVE  \E e \in EventOf : e = [kind |-> kind, id |-> n] /\ e.kind = kind /\ e.id = n
<1> DEFINE e == [kind |-> kind, id |-> n]
<1>1. e \in EventOf /\ e.kind = kind /\ e.id = n
  BY DEF EventOf
<1> QED BY <1>1

\* The recorder has bound the window's profile, or will before it reads the event after the n-th.
Told(w, n) == w \in record.bound \/ \E j \in 1..n : events[j].kind = "profile" /\ events[j].id = w
\* A frame is told of after its window, and a window that is open was told of.
AllTold == /\ events \in Seq(EventOf) /\ record.bound \subseteq Window /\ record.frames \subseteq record.bound
           /\ \A i \in 1..Len(events) : /\ events[i].kind = "profile" => events[i].id \in Window
                                        /\ events[i].kind = "frame" => Told(events[i].id, i - 1)
           /\ \A w \in Window : window[w].at = "open" => Told(w, Len(events))

\* Something more is told.
LEMMA TellsMore ==
  ASSUME AllTold, NEW e \in EventOf, events' = Append(events, e), record' = record,
         e.kind = "profile" => e.id \in Window, e.kind = "frame" => Told(e.id, Len(events)),
         \A w \in Window : window'[w].at = "open" => window[w].at = "open" \/ (e.kind = "profile" /\ e.id = w)
  PROVE  AllTold'
<1>1. /\ events' \in Seq(EventOf) /\ Len(events') = Len(events) + 1 /\ events'[Len(events) + 1] = e
      /\ \A i \in 1..Len(events) : events'[i] = events[i]
      /\ Len(events) \in Nat
  <2> HIDE DEF EventOf
  <2> QED BY AppendProperties, LenProperties DEF AllTold
<1>2. ASSUME NEW w, NEW n \in 0..Len(events), Told(w, n), NEW m1 \in n..Len(events) + 1
      PROVE  w \in record.bound \/ \E j \in 1..m1 : events'[j].kind = "profile" /\ events'[j].id = w
  BY <1>1, <1>2 DEF Told
<1>3. ASSUME NEW i \in 1..Len(events')
      PROVE  /\ events'[i].kind = "profile" => events'[i].id \in Window
             /\ events'[i].kind = "frame" =>
                   events'[i].id \in record.bound
                   \/ \E j \in 1..i - 1 : events'[j].kind = "profile" /\ events'[j].id = events'[i].id
  <2>1. CASE i = Len(events) + 1
    BY <1>1, <1>2, <2>1
  <2>2. CASE i \in 1..Len(events)
    <3>1. i - 1 \in 0..Len(events) /\ i - 1 \in i - 1..Len(events) + 1
      BY <1>1, <2>2
    <3> QED BY <1>1, <1>2, <2>2, <3>1 DEF AllTold
  <2> QED BY <1>1, <1>3, <2>1, <2>2
<1>4. ASSUME NEW w \in Window, window'[w].at = "open"
      PROVE  w \in record.bound \/ \E j \in 1..Len(events') : events'[j].kind = "profile" /\ events'[j].id = w
  <2>1. CASE e.kind = "profile" /\ e.id = w
    BY <1>1, <2>1
  <2>2. CASE window[w].at = "open"
    <3>1. Told(w, Len(events)) /\ Len(events) \in 0..Len(events)
      BY <1>1, <2>2 DEF AllTold
    <3> QED BY <1>1, <1>2, <3>1
  <2> QED BY <1>4, <2>1, <2>2
<1> QED BY <1>1, <1>3, <1>4 DEF AllTold, Told

\* The recorder reads the next event.
LEMMA ReadsMore == ASSUME CandidateInv, AllTold, Records PROVE AllTold'
<1>1. /\ events' \in Seq(EventOf) /\ Len(events') = Len(events) - 1 /\ Head(events) = events[1]
      /\ \A i \in 1..Len(events') : events'[i] = events[i + 1] /\ i + 1 \in 1..Len(events)
      /\ Len(events) \in Nat \ {0} /\ 1 \in 1..Len(events)
  <2> HIDE DEF EventOf
  <2>1. events # <<>> /\ events' = Tail(events) /\ events \in Seq(EventOf)
    BY DEF AllTold, Records
  <2>2. Len(events) \in Nat \ {0}
    BY <2>1, LenProperties, EmptySeq
  <2> QED BY <2>1, <2>2, HeadTailProperties
<1>2. PICK e \in EventOf : e = Head(events)
  BY <1>1, HeadTailProperties DEF AllTold
<1>3. UNCHANGED window
  BY DEF Records
<1>4. record = [bound |-> record.bound, frames |-> record.frames, ready |-> record.ready, at |-> record.at]
  BY DEF CandidateInv, CandidateTypes
<1>5. e.kind = "frame" => e.id \in record.bound
  BY <1>1, <1>2 DEF AllTold, Told
<1>6. e.kind = "profile" => e.id \in Window
  BY <1>1, <1>2 DEF AllTold
<1>7. /\ record'.bound = record.bound \cup (IF e.kind = "profile" THEN {e.id} ELSE {})
      /\ record'.frames = record.frames \cup (IF e.kind = "frame" THEN {e.id} ELSE {})
  <2>2. CASE e.kind = "profile"
    <3>1. record' = [record EXCEPT !.bound = record.bound \cup {e.id}]
      BY <1>2, <2>2 DEF Records
    <3> QED BY <1>4, <2>2, <3>1
  <2>3. CASE e.kind = "frame"
    <3>1. record' = [record EXCEPT !.frames = record.frames \cup {e.id},
                                   !.ready = record.ready \/ ReadyRoots(record.frames \cup {e.id})]
      BY <1>2, <2>3 DEF Records
    <3> QED BY <1>4, <2>3, <3>1
  <2>4. CASE e.kind = "dropped"
    <3>1. record' = [record EXCEPT !.at = "complete"]
      BY <1>2, <2>4 DEF Records
    <3> QED BY <1>4, <2>4, <3>1
  <2>5. CASE e.kind \notin {"profile", "frame", "dropped"}
    <3>1. record' = record
      BY <1>2, <2>5 DEF Records
    <3> QED BY <2>5, <3>1
  <2> QED BY <2>2, <2>3, <2>4, <2>5
<1>8. ASSUME NEW w, NEW n \in 0..Len(events'), Told(w, n + 1)
      PROVE  w \in record'.bound \/ \E j \in 1..n : events'[j].kind = "profile" /\ events'[j].id = w
  <2>1. CASE w \in record.bound
    BY <1>7, <2>1
  <2>2. ASSUME NEW j \in 1..n + 1, events[j].kind = "profile", events[j].id = w
        PROVE  w \in record'.bound \/ \E k \in 1..n : events'[k].kind = "profile" /\ events'[k].id = w
    <3>1. CASE j = 1
      BY <1>1, <1>2, <1>7, <2>2, <3>1
    <3>2. CASE j # 1
      <4>1. j - 1 \in 1..n /\ j - 1 \in 1..Len(events') /\ (j - 1) + 1 = j
        BY <1>1, <3>2
      <4>2. events'[j - 1] = events[j]
        BY <1>1, <4>1
      <4> QED BY <2>2, <4>1, <4>2
    <3> QED BY <3>1, <3>2
  <2> QED BY <1>8, <2>1, <2>2 DEF Told
<1>9. ASSUME NEW i \in 1..Len(events')
      PROVE  /\ events'[i].kind = "profile" => events'[i].id \in Window
             /\ events'[i].kind = "frame" =>
                   events'[i].id \in record'.bound
                   \/ \E j \in 1..i - 1 : events'[j].kind = "profile" /\ events'[j].id = events'[i].id
  <2>1. events'[i] = events[i + 1] /\ i + 1 \in 1..Len(events) /\ i - 1 \in 0..Len(events')
        /\ (i - 1) + 1 = i /\ (i + 1) - 1 = i
    BY <1>1
  <2>2. events[i + 1].kind = "frame" => Told(events[i + 1].id, (i - 1) + 1)
    BY <2>1 DEF AllTold
  <2>3. events[i + 1].kind = "profile" => events[i + 1].id \in Window
    BY <2>1 DEF AllTold
  <2> QED BY <1>8, <2>1, <2>2, <2>3
<1>10. ASSUME NEW w \in Window, window'[w].at = "open"
       PROVE  w \in record'.bound \/ \E j \in 1..Len(events') : events'[j].kind = "profile" /\ events'[j].id = w
  <2>1. Told(w, Len(events)) /\ Len(events') \in 0..Len(events') /\ Len(events') + 1 = Len(events)
    BY <1>1, <1>3, <1>10 DEF AllTold
  <2>2. Told(w, Len(events') + 1)
    BY <2>1
  <2> QED BY <1>8, <2>1, <2>2
<1>11. record'.bound \subseteq Window /\ record'.frames \subseteq record'.bound
  BY <1>5, <1>6, <1>7 DEF AllTold
<1> QED BY <1>1, <1>9, <1>10, <1>11 DEF AllTold, Told

\* The roots that were created; those queued are the others.
RootsMade  == {r \in Request :
                   \E w \in Window : window[w].kind = "root" /\ window[w].own = r /\ window[w].at # "asked"}
QueuedTrue == queued = Cardinality(Request \ RootsMade)

\* The windows, roots and frames of the experiment.
LEMMA CandidateBounded ==
  /\ CandidateInit => AllTold /\ QueuedTrue
  /\ CandidateInv /\ AllTold /\ QueuedTrue /\ [CandidateNext]_candidateVars => AllTold' /\ QueuedTrue'
  /\ CandidateInv /\ AllTold /\ QueuedTrue => CandidateTypeOK
<1>1. ASSUME CandidateInit PROVE AllTold /\ QueuedTrue
  <2>1. \A w \in Window : window[w].at = "free" /\ window[w].kind = "none"
    BY <1>1 DEF CandidateInit
  <2>2. RootsMade = {} /\ queued = Cardinality(Request)
    BY <1>1, <2>1 DEF CandidateInit, RootsMade
  <2>3. events = <<>> /\ record.bound = {} /\ record.frames = {}
    BY <1>1 DEF CandidateInit
  <2>4. events \in Seq(EventOf) /\ Len(events) = 0
    BY <2>3
  <2> QED BY <2>1, <2>2, <2>3, <2>4 DEF AllTold, QueuedTrue
<1>2. ASSUME CandidateInv, AllTold, QueuedTrue, [CandidateNext]_candidateVars PROVE AllTold' /\ QueuedTrue'
  <2>0. /\ window \in [Window -> WindowOf] /\ Window \subseteq Nat
        /\ observers \in [Window -> {"none", "silent", "asked", "answered"}]
        /\ \A w \in Window : window[w].kind = "root" => window[w].at # "free" /\ window[w].own \in Request
        /\ Unbound \notin Request
    BY <1>2, CandidateAssumption DEF CandidateInv, CandidateTypes, OwnersKept
  <2>n. \A w \in Window : w \in Nat
    BY <2>0
  <2>1. ASSUME UNCHANGED <<window, queued>> PROVE QueuedTrue'
    BY <1>2, <2>1 DEF QueuedTrue, RootsMade
  <2>2. ASSUME UNCHANGED <<events, record>>, \A w \in Window : window'[w].at = "open" => window[w].at = "open"
        PROVE  AllTold'
    BY <1>2, <2>2 DEF AllTold, Told
  <2>3. CASE MakeContexts \/ (\E w \in Window : LoadStart(w)) \/ UNCHANGED candidateVars
    <3>1. UNCHANGED <<window, queued, events, record>>
      BY <2>3 DEF MakeContexts, LoadStart, candidateVars
    <3> QED BY <2>1, <2>2, <3>1
  <2>4. ASSUME NEW w \in Window, NEW r, NEW kind \in {"root", "popup"}, Asks(w, r, kind) PROVE AllTold' /\ QueuedTrue'
    <3>1. /\ UNCHANGED <<events, record, queued>> /\ window[w].at = "free"
          /\ window' = [window EXCEPT ![w] = NewWindow(r, kind)] /\ NewWindow(r, kind).at = "asked"
      BY <2>4 DEF Asks, NewWindow
    <3>2. window'[w].at = "asked" /\ \A v \in Window \ {w} : window'[v] = window[v]
      BY <2>0, <3>1
    <3>3. window[w].kind # "root"
      BY <2>0, <3>1
    <3>4. RootsMade' = RootsMade
      BY <3>2, <3>3 DEF RootsMade
    <3>5. AllTold'
      BY <2>2, <3>1, <3>2
    <3> QED BY <1>2, <3>1, <3>4, <3>5 DEF QueuedTrue
  <2>5. ASSUME NEW w \in Window, Created(w) PROVE AllTold' /\ QueuedTrue'
    <3>1. window[w].at = "asked" /\ UNCHANGED record
      BY <2>5 DEF Created
    <3>2. CASE window[w].own = Unbound
      <4>1. window' = [window EXCEPT ![w] = Staged(window[w], "closing")] /\ UNCHANGED <<queued, events>>
        BY <2>5, <3>2 DEF Created, Staged
      <4>2. window'[w].at = "closing" /\ (\A v \in Window \ {w} : window'[v] = window[v])
            /\ window'[w].kind = window[w].kind
        BY <2>0, <4>1, StagedIs
      <4>3. window[w].kind # "root"
        BY <2>0, <3>2
      <4>4. RootsMade' = RootsMade
        BY <4>2, <4>3 DEF RootsMade
      <4>5. AllTold'
        BY <2>2, <3>1, <4>1, <4>2
      <4> QED BY <1>2, <4>1, <4>4, <4>5 DEF QueuedTrue
    <3>3. CASE window[w].own # Unbound
      <4>1. /\ window' = [window EXCEPT ![w] = Staged(window[w], "open")]
            /\ queued' = (IF window[w].kind = "root" THEN queued - 1 ELSE queued)
            /\ events' = Append(events, [kind |-> "profile", id |-> w])
        BY <2>5, <3>3 DEF Created, Staged, Say
      <4>2. window'[w].at = "open" /\ (\A v \in Window \ {w} : window'[v] = window[v])
            /\ window'[w].kind = window[w].kind /\ window'[w].own = window[w].own
        BY <2>0, <4>1, StagedIs
      <4>3. PICK e \in EventOf : e = [kind |-> "profile", id |-> w] /\ e.kind = "profile" /\ e.id = w
        BY <2>n, EventIs
      <4>4. AllTold'
        BY <1>2, <3>1, <4>1, <4>2, <4>3, TellsMore
      <4>5. CASE window[w].kind # "root"
        <5>1. RootsMade' = RootsMade
          BY <4>2, <4>5 DEF RootsMade
        <5> QED BY <1>2, <4>1, <4>4, <4>5, <5>1 DEF QueuedTrue
      <4>6. CASE window[w].kind = "root"
        <5>1. window[w].own \in Request
          BY <2>0, <4>6
        <5>2. window[w].own \notin RootsMade
          BY <1>2, <3>1, <4>6 DEF RootsMade, CandidateInv, OneRoot
        <5>3. RootsMade' = RootsMade \cup {window[w].own}
          BY <4>2, <4>6, <5>1 DEF RootsMade
        <5>4. PICK S : S = Request \ RootsMade /\ window[w].own \in S /\ IsFiniteSet(S)
          BY <5>1, <5>2, CandidateAssumption, FS_Subset
        <5>5. Request \ RootsMade' = S \ {window[w].own}
          BY <5>3, <5>4
        <5>6. Cardinality(S \ {window[w].own}) = Cardinality(S) - 1
          BY <5>4, FS_RemoveElement
        <5> QED BY <1>2, <4>1, <4>4, <4>6, <5>4, <5>5, <5>6 DEF QueuedTrue
      <4> QED BY <4>5, <4>6
    <3> QED BY <3>2, <3>3
  <2>6. ASSUME NEW w \in Window, FrameKnown(w) PROVE AllTold' /\ QueuedTrue'
    <3>1. /\ window[w].at = "open" /\ UNCHANGED <<window, queued, record>>
          /\ events' = Append(events, [kind |-> "frame", id |-> w])
      BY <2>6 DEF FrameKnown, Say
    <3>2. PICK e \in EventOf : e = [kind |-> "frame", id |-> w] /\ e.kind = "frame" /\ e.id = w
      BY <2>n, EventIs
    <3>3. Told(w, Len(events))
      BY <1>2, <3>1 DEF AllTold
    <3> QED BY <1>2, <2>1, <3>1, <3>2, <3>3, TellsMore
  <2>7. ASSUME NEW w \in Window, BeforeClose(w) PROVE AllTold' /\ QueuedTrue'
    <3>1. /\ window[w].at \in {"open", "closing"} /\ UNCHANGED <<queued, record>>
          /\ window' = [window EXCEPT ![w] = Staged(window[w], "closed")]
          /\ events' = events \/ events' = Append(events, [kind |-> "closed", id |-> w])
      BY <2>7 DEF BeforeClose, Staged, Say
    <3>2. window'[w].at = "closed" /\ (\A v \in Window \ {w} : window'[v] = window[v])
          /\ window'[w].kind = window[w].kind /\ window'[w].own = window[w].own
      BY <2>0, <3>1, StagedIs
    <3>3. RootsMade' = RootsMade
      BY <3>1, <3>2 DEF RootsMade
    <3>4. PICK e \in EventOf : e = [kind |-> "closed", id |-> w] /\ e.kind = "closed"
      BY <2>n, EventIs
    <3>5. \A v \in Window : window'[v].at = "open" => window[v].at = "open"
      BY <3>2
    <3>6. AllTold'
      <4>1. CASE events' = events
        BY <2>2, <3>1, <3>5, <4>1
      <4>2. CASE events' = Append(events, e)
        BY <1>2, <3>1, <3>4, <3>5, <4>2, TellsMore
      <4> QED BY <3>1, <3>4, <4>1, <4>2
    <3> QED BY <1>2, <3>1, <3>3, <3>6 DEF QueuedTrue
  <2>8. CASE Records
    BY <1>2, <2>1, <2>8, ReadsMore DEF Records
  <2>9. CASE Returns
    <3>1. UNCHANGED <<window, queued, record>> /\ events' = Append(events, [kind |-> "dropped", id |-> 0])
      BY <2>9 DEF Returns, Say
    <3>2. PICK e \in EventOf : e = [kind |-> "dropped", id |-> 0] /\ e.kind = "dropped"
      BY EventIs
    <3> QED BY <1>2, <2>1, <3>1, <3>2, TellsMore
  <2> QED BY <1>2, <2>3, <2>4, <2>5, <2>6, <2>7, <2>8, <2>9 DEF CandidateNext, AsksRoot, Popup, Stray
<1>3. ASSUME CandidateInv, AllTold, QueuedTrue PROVE CandidateTypeOK
  <2>1. Living \subseteq Window /\ Request \ RootsMade \subseteq Request
    BY DEF Living
  <2>2. count \in 0..Cardinality(Window)
    BY <1>3, <2>1, WindowsAssumption, FS_Subset, FS_CardinalityType DEF CandidateInv, CountTrue
  <2>3. queued \in 0..Cardinality(Request)
    BY <1>3, <2>1, CandidateAssumption, FS_Subset, FS_CardinalityType DEF QueuedTrue
  <2> QED BY <1>3, <2>2, <2>3 DEF AllTold, CandidateTypeOK
<1> QED BY <1>1, <1>2, <1>3

\* The places of the handlers that wait for the construction of a screen.
WaitingIn(s) == {i \in 1..Len(s) : IsBuilt(s[i])}

\* They are no more than the handlers.
LEMMA WaitingFew == ASSUME NEW s, Len(s) \in Nat
                    PROVE  /\ IsFiniteSet(WaitingIn(s)) /\ Cardinality(WaitingIn(s)) \in Nat
                           /\ Cardinality(WaitingIn(s)) <= Len(s)
<1>1. PICK n \in Nat : n = Len(s)
  OBVIOUS
<1>2. IsFiniteSet(1..n) /\ Cardinality(1..n) = IF 1 > n THEN 0 ELSE n - 1 + 1
  <2>1. 1 \in Int /\ n \in Int
    OBVIOUS
  <2> QED BY <2>1, FS_Interval
<1>3. Cardinality(1..n) = n
  BY <1>2
<1>4. WaitingIn(s) \in SUBSET (1..n)
  BY <1>1 DEF WaitingIn
<1> QED BY <1>1, <1>2, <1>3, <1>4, FS_Subset, FS_CardinalityType

\* A handler on top of the others.
LEMMA WaitingPushed == ASSUME NEW s \in Seq(FrameOf), NEW f \in FrameOf
                       PROVE  /\ IsBuilt(f) => WaitingIn(Append(s, f)) = WaitingIn(s) \cup {Len(s) + 1}
                              /\ ~IsBuilt(f) => WaitingIn(Append(s, f)) = WaitingIn(s)
<1>1. PICK t : t = Append(s, f)
  OBVIOUS
<1>2. /\ Len(s) \in Nat /\ Len(t) = Len(s) + 1 /\ t[Len(s) + 1] = f /\ \A i \in 1..Len(s) : t[i] = s[i]
  <2> HIDE DEF FrameOf
  <2> QED BY <1>1, AppendProperties, LenProperties
<1>3. 1..Len(t) = (1..Len(s)) \cup {Len(s) + 1}
  BY <1>2
<1>4. \A i \in 1..Len(s) : IsBuilt(t[i]) <=> IsBuilt(s[i])
  BY <1>2 DEF IsBuilt
<1>5. IsBuilt(t[Len(s) + 1]) <=> IsBuilt(f)
  BY <1>2 DEF IsBuilt
<1> QED BY <1>1, <1>3, <1>4, <1>5 DEF WaitingIn

\* The handlers below the top one.
LEMMA WaitingPopped == ASSUME WebTypes, AllNested, stack # <<>>
                      PROVE  WaitingIn(Below) = WaitingIn(stack) \ {Len(stack)}
<1>1. /\ Len(Below) = Len(stack) - 1 /\ Len(stack) \in Nat \ {0}
      /\ \A i \in 1..Len(Below) : i \in 1..Len(stack) /\ Below[i] = stack[i]
  BY FrameTop
<1>2. (1..Len(stack)) \ {Len(stack)} = 1..Len(Below)
  BY <1>1
<1>3. \A i \in 1..Len(Below) : IsBuilt(Below[i]) <=> IsBuilt(stack[i])
  BY <1>1 DEF IsBuilt
<1> QED BY <1>2, <1>3 DEF WaitingIn

\* A screen is only begun with room for it, and at most one is begun by each handler.
WebBounds == /\ Len(stack) <= MaxNested /\ nextId <= MaxIds
             /\ IsFiniteSet(Latched) /\ Cardinality(Latched) <= MaxClears
             /\ IsFiniteSet(live) /\ Cardinality(live) + Cardinality(WaitingIn(stack)) < MaxWindows + MaxNested

\* The screens, handlers and clearings in the web view.
LEMMA WebBounded ==
  /\ WebInit => WebBounds
  /\ WebInv /\ WebBounds /\ [WebNext]_webVars => WebBounds'
  /\ WebInv /\ WebBounds => WebTypeOK
<1>1. ASSUME WebInit PROVE WebBounds
  <2>1. stack = <<>> /\ live = {} /\ nextId = 1 /\ Latched = {}
    BY <1>1 DEF WebInit, Latched, NoOp
  <2>2. Len(stack) = 0
    BY <2>1
  <2>3. Cardinality(WaitingIn(stack)) = 0
    BY <2>2, WaitingFew
  <2> QED BY <2>1, <2>2, <2>3, FS_EmptySet, ScreensAssumption DEF WebBounds
<1>2. ASSUME WebInv, WebBounds, [WebNext]_webVars PROVE WebBounds'
  <2>t. WebTypes /\ AllNested /\ stack \in Seq(FrameOf) /\ Len(stack) \in Nat /\ nextId \in Nat
    BY <1>2 DEF WebInv, WebTypes
  <2>n. /\ MaxNested \in Nat /\ MaxIds \in Nat /\ MaxWindows \in Nat /\ MaxClears \in Nat
        /\ IsFiniteSet(WaitingIn(stack)) /\ Cardinality(WaitingIn(stack)) \in Nat
        /\ Cardinality(WaitingIn(stack)) <= Len(stack)
        /\ IsFiniteSet(live) /\ Cardinality(live) \in Nat /\ IsFiniteSet(Latched) /\ Cardinality(Latched) \in Nat
    BY <1>2, <2>t, WaitingFew, ScreensAssumption, FS_CardinalityType DEF WebBounds
  <2>1. ASSUME Latched' \subseteq Latched PROVE IsFiniteSet(Latched') /\ Cardinality(Latched') <= MaxClears
    <3>1. IsFiniteSet(Latched') /\ Cardinality(Latched') <= Cardinality(Latched) /\ Cardinality(Latched') \in Nat
      BY <2>n, <2>1, FS_Subset, FS_CardinalityType
    <3> QED BY <1>2, <2>n, <3>1 DEF WebBounds
  <2>2. ASSUME live' \subseteq live, Cardinality(WaitingIn(stack')) \in Nat,
               Cardinality(WaitingIn(stack')) <= Cardinality(WaitingIn(stack))
        PROVE  /\ IsFiniteSet(live')
               /\ Cardinality(live') + Cardinality(WaitingIn(stack')) < MaxWindows + MaxNested
    <3>1. IsFiniteSet(live') /\ Cardinality(live') <= Cardinality(live) /\ Cardinality(live') \in Nat
      BY <2>n, <2>2, FS_Subset, FS_CardinalityType
    <3> QED BY <1>2, <2>n, <2>2, <3>1 DEF WebBounds
  <2>3. ASSUME stack # <<>>, NEW f \in FrameOf, IsBuilt(f) <=> IsBuilt(Top), stack' = Append(Below, f)
        PROVE  WaitingIn(stack') = WaitingIn(stack) /\ Len(stack') = Len(stack)
    <3>1. /\ Below \in Seq(FrameOf) /\ Len(Below) = Len(stack) - 1 /\ Len(stack) \in Nat \ {0}
          /\ WaitingIn(Below) = WaitingIn(stack) \ {Len(stack)}
      BY <2>t, <2>3, FrameTop, WaitingPopped
    <3>2. PICK b \in Seq(FrameOf) : b = Below
      BY <3>1
    <3>3. Len(Append(b, f)) = Len(b) + 1 /\ Len(b) + 1 = Len(stack)
      <4> HIDE DEF FrameOf
      <4> QED BY <3>1, <3>2, AppendProperties
    <3>4. /\ IsBuilt(f) => WaitingIn(Append(b, f)) = WaitingIn(b) \cup {Len(stack)}
          /\ ~IsBuilt(f) => WaitingIn(Append(b, f)) = WaitingIn(b)
      BY <3>3, WaitingPushed
    <3>5. Len(stack) \in WaitingIn(stack) <=> IsBuilt(Top)
      BY <3>1 DEF WaitingIn, Top
    <3> QED BY <2>3, <3>1, <3>2, <3>3, <3>4, <3>5
  <2>4. ASSUME stack # <<>>, stack' = Below
        PROVE  /\ WaitingIn(stack') = WaitingIn(stack) \ {Len(stack)} /\ Len(stack') <= MaxNested
               /\ Len(stack') \in Nat
    BY <1>2, <2>t, <2>n, <2>4, FrameTop, WaitingPopped DEF WebBounds
  <2>5. ASSUME Pumps, NEW f \in FrameOf, stack' = Append(stack, f)
        PROVE  /\ Len(stack') = Len(stack) + 1 /\ Len(stack') <= MaxNested
               /\ ~IsBuilt(f) => WaitingIn(stack') = WaitingIn(stack)
    <3>1. Len(Append(stack, f)) = Len(stack) + 1
      <4> HIDE DEF FrameOf
      <4> QED BY <2>t, AppendProperties
    <3> QED BY <2>t, <2>n, <2>5, <3>1, WaitingPushed DEF Pumps
  <2>6. ASSUME NEW k \in HomeKey \cup {NoKey}, NEW p \in WebProfile, CreateAnew(k, p) PROVE WebBounds'
    <3>1. PICK w \in BOOLEAN : w = \E f \in Frames : f.at # "finish" /\ f.key = k
      OBVIOUS
    <3>2. PICK f : f = [at |-> "window", id |-> nextId, key |-> k, prof |-> p, ok |-> FALSE, within |-> w]
      OBVIOUS
    <3>3. f \in FrameOf
      BY <2>t, <3>2 DEF FrameOf
    <3>4. stack' = Append(stack, f) /\ Pumps /\ Cardinality(live) < MaxWindows
          /\ nextId < MaxIds /\ nextId' = nextId + 1 /\ UNCHANGED <<live, ops>>
      BY <2>6, <3>1, <3>2 DEF CreateAnew, Push
    <3>5. Len(stack') = Len(stack) + 1 /\ Len(stack') <= MaxNested
      BY <2>5, <3>3, <3>4
    <3>6. /\ Cardinality(WaitingIn(stack')) \in Nat
          /\ Cardinality(WaitingIn(stack')) <= Len(stack') /\ Len(stack') \in Nat
      BY <2>t, <3>5, WaitingFew
    <3>7. Latched' = Latched
      BY <3>4 DEF Latched
    <3> QED BY <2>1, <2>t, <2>n, <3>4, <3>5, <3>6, <3>7 DEF WebBounds
  <2>7. CASE WindowBuilt
    <3>1. stack # <<>> /\ Top.at = "window" /\ UNCHANGED <<live, ops, kept, nextId>>
      BY <2>7 DEF WindowBuilt
    <3>2. Top \in FrameOf
      BY <2>t, <3>1, FrameTop
    <3>3. PICK f \in FrameOf : f = ViewFrame(Top) /\ f.at = "view"
      BY <3>2, FrameIs
    <3>4. stack' = stack \/ stack' = Append(Below, f)
      BY <2>7, <3>3 DEF WindowBuilt, ViewFrame
    <3>5. WaitingIn(stack') = WaitingIn(stack) /\ Len(stack') = Len(stack)
      BY <2>3, <3>1, <3>3, <3>4 DEF IsBuilt
    <3>6. Latched' = Latched
      BY <3>1 DEF Latched
    <3> QED BY <1>2, <2>1, <3>1, <3>5, <3>6 DEF WebBounds
  <2>8. CASE ViewBuilt
    <3>1. stack # <<>> /\ Top.at = "view" /\ stack' = Below /\ UNCHANGED <<ops, nextId>>
      BY <2>8 DEF ViewBuilt
    <3>2. PICK t : live' = live \/ live' = live \cup {t}
      <4> DEFINE u == [id |-> Top.id, key |-> Top.key, prof |-> Top.prof, within |-> Top.within]
      <4>1. live' = live \/ live' = live \cup {u}
        BY <2>8 DEF ViewBuilt
      <4> HIDE DEF u
      <4> QED BY <4>1
    <3>3. Len(stack) \in WaitingIn(stack)
      BY <2>t, <3>1 DEF WaitingIn, Top, IsBuilt
    <3>4. Cardinality(WaitingIn(stack')) = Cardinality(WaitingIn(stack)) - 1
      BY <2>n, <2>4, <3>1, <3>3, FS_RemoveElement
    <3>5. IsFiniteSet(live') /\ Cardinality(live') <= Cardinality(live) + 1 /\ Cardinality(live') \in Nat
      <4>1. /\ IsFiniteSet(live \cup {t}) /\ Cardinality(live \cup {t}) \in Nat
            /\ Cardinality(live \cup {t}) <= Cardinality(live) + 1
        <5>1. /\ IsFiniteSet(live \cup {t})
              /\ Cardinality(live \cup {t}) = IF t \in live THEN Cardinality(live) ELSE Cardinality(live) + 1
          BY <2>n, FS_AddElement
        <5>2. Cardinality(live \cup {t}) \in Nat /\ Cardinality(live) \in Nat
          BY <2>n, <5>1, FS_CardinalityType
        <5> QED BY <5>1, <5>2
      <4>2. CASE live' = live
        BY <2>n, <4>2
      <4>3. CASE live' = live \cup {t}
        BY <4>1, <4>3
      <4> QED BY <3>2, <4>2, <4>3
    <3>6. Latched' = Latched
      BY <3>1 DEF Latched
    <3>7. Cardinality(live') + Cardinality(WaitingIn(stack')) < MaxWindows + MaxNested
      BY <1>2, <2>n, <3>4, <3>5 DEF WebBounds
    <3> QED BY <1>2, <2>1, <2>4, <3>1, <3>5, <3>6, <3>7 DEF WebBounds
  <2>9. CASE UsesScreen \/ CloseScreen \/ UNCHANGED webVars
    <3>1. UNCHANGED <<stack, ops, nextId>> /\ live' \subseteq live
      BY <2>9 DEF UsesScreen, CloseScreen, webVars
    <3>2. Latched' = Latched
      BY <3>1 DEF Latched
    <3> QED BY <1>2, <2>1, <2>2, <2>n, <3>1, <3>2 DEF WebBounds
  <2>10. ASSUME NEW p \in WebProfile, BeginClear(p) PROVE WebBounds'
    <3>1. /\ p \notin Latched /\ Cardinality(Latched) < MaxClears /\ nextId < MaxIds /\ nextId' = nextId + 1
          /\ Pumps /\ live' = live
      BY <2>10 DEF BeginClear, RequireIdle
    <3>2. Latched' = Latched \cup {p}
      <4>1. PICK e \in BOOLEAN : e = \E f \in Frames : f.prof = p
        OBVIOUS
      <4>2. PICK o : o = [id |-> nextId, at |-> "building", ok |-> FALSE, early |-> e]
        OBVIOUS
      <4>5. o.at = "building"
        BY <4>2
      <4>3. ops' = [ops EXCEPT ![p] = o]
        BY <2>10, <4>1, <4>2 DEF BeginClear
      <4>4. ops' = [q \in WebProfile |-> IF q = p THEN o ELSE ops[q]]
        BY <2>t, <4>3 DEF WebTypes
      <4> QED BY <2>10, <4>4, <4>5 DEF Latched
    <3>3. IsFiniteSet(Latched') /\ Cardinality(Latched') = Cardinality(Latched) + 1
      BY <2>n, <3>1, <3>2, FS_AddElement
    <3>4. WaitingIn(stack') = WaitingIn(stack) /\ Len(stack') <= MaxNested
      <4>1. CASE stack' = stack
        BY <1>2, <4>1 DEF WebBounds
      <4>2. CASE Push([at |-> "helper", id |-> nextId, key |-> NoKey, prof |-> p, ok |-> FALSE, within |-> FALSE])
        <5>1. PICK f : f = [at |-> "helper", id |-> nextId, key |-> NoKey, prof |-> p, ok |-> FALSE, within |-> FALSE]
          OBVIOUS
        <5>2. f \in FrameOf
          BY <2>t, <5>1 DEF FrameOf
        <5>4. f.at = "helper"
          BY <5>1
        <5>3. stack' = Append(stack, f)
          BY <4>2, <5>1 DEF Push
        <5> QED BY <2>5, <3>1, <5>2, <5>3, <5>4 DEF IsBuilt
      <4> QED BY <2>10, <4>1, <4>2 DEF BeginClear
    <3> QED BY <1>2, <2>n, <2>t, <3>1, <3>3, <3>4 DEF WebBounds
  <2>11. CASE HelperBuilt
    <3>1. stack # <<>> /\ Top.at = "helper" /\ UNCHANGED <<live, nextId>>
      BY <2>11 DEF HelperBuilt
    <3>2. Top \in FrameOf /\ Top \in Frames
      BY <2>t, <3>1, FrameTop
    <3>3. CASE stack' = Below /\ ops' = [ops EXCEPT ![Top.prof].at = "native"]
      <4>1. Top.prof \in WebProfile /\ Top.prof \in Latched
        BY <1>2, <3>1, <3>2 DEF WebInv, FrameHolds, Latched, FrameOf
      <4>2. Latched' \subseteq Latched
        BY <2>t, <3>3, <4>1 DEF Latched, WebTypes
      <4>3. Cardinality(WaitingIn(stack')) \in Nat /\ Cardinality(WaitingIn(stack')) <= Cardinality(WaitingIn(stack))
        BY <2>n, <2>4, <3>1, <3>3, FS_Subset, FS_CardinalityType
      <4> QED BY <1>2, <2>1, <2>2, <2>4, <3>1, <3>3, <4>2, <4>3 DEF WebBounds
    <3>4. CASE stack' = Append(Below, [Top EXCEPT !.at = "finish"]) /\ UNCHANGED ops
      <4>1. PICK f \in FrameOf : f = FinishFrame(Top) /\ f.at = "finish"
        BY <3>2, FrameIs
      <4>2. stack' = Append(Below, f)
        BY <3>4, <4>1 DEF FinishFrame
      <4>3. WaitingIn(stack') = WaitingIn(stack) /\ Len(stack') = Len(stack)
        BY <2>3, <3>1, <4>1, <4>2 DEF IsBuilt
      <4>4. Latched' = Latched
        BY <3>4 DEF Latched
      <4> QED BY <1>2, <2>1, <3>1, <4>3, <4>4 DEF WebBounds
    <3> QED BY <2>11, <3>3, <3>4 DEF HelperBuilt
  <2>12. ASSUME NEW p \in WebProfile, NEW ok \in BOOLEAN, NativeDone(p, ok) \/ RemovesPage(p, ok) \/ PageRemoved(p)
         PROVE  WebBounds'
    <3>1. /\ ops[p].at \in {"native", "working", "removed"} /\ UNCHANGED <<live, nextId>>
          /\ \A q \in WebProfile \ {p} : ops'[q] = ops[q]
      BY <2>12, <2>t DEF NativeDone, RemovesPage, PageRemoved, WebTypes
    <3>2. Latched' \subseteq Latched
      BY <3>1 DEF Latched
    <3>3. WaitingIn(stack') = WaitingIn(stack) /\ Len(stack') <= MaxNested
      <4>1. CASE stack' = stack
        BY <1>2, <4>1 DEF WebBounds
      <4>2. ASSUME NEW good \in BOOLEAN, Finish(p, good), Pumps
            PROVE  WaitingIn(stack') = WaitingIn(stack) /\ Len(stack') <= MaxNested
        <5>1. PICK f \in FrameOf : stack' = Append(stack, f) /\ f.at = "finish"
          BY <2>t, <4>2, FinishFrameIs
        <5> QED BY <2>5, <4>2, <5>1 DEF IsBuilt
      <4>3. CASE NativeDone(p, ok)
        BY <4>1, <4>2, <4>3 DEF NativeDone
      <4>4. CASE RemovesPage(p, ok)
        BY <4>1, <4>4 DEF RemovesPage
      <4>5. CASE PageRemoved(p)
        <5>1. ops[p].ok \in BOOLEAN
          BY <2>t DEF WebTypes, OpOf
        <5> QED BY <4>2, <4>5, <5>1 DEF PageRemoved
      <4> QED BY <2>12, <4>3, <4>4, <4>5
    <3> QED BY <1>2, <2>1, <3>1, <3>2, <3>3 DEF WebBounds
  <2>13. CASE FinishEnds
    <3>1. stack # <<>> /\ stack' = Below /\ UNCHANGED <<live, nextId>>
          /\ ops' = [p \in WebProfile |-> IF ops[p].id = Top.id THEN NoOp ELSE ops[p]]
      BY <2>13 DEF FinishEnds
    <3>2. Latched' \subseteq Latched
      BY <3>1 DEF Latched, NoOp
    <3>3. Cardinality(WaitingIn(stack')) \in Nat /\ Cardinality(WaitingIn(stack')) <= Cardinality(WaitingIn(stack))
      BY <2>n, <2>4, <3>1, FS_Subset, FS_CardinalityType
    <3> QED BY <1>2, <2>1, <2>2, <2>4, <3>1, <3>2, <3>3 DEF WebBounds
  <2>14. CASE Shutdown
    <3>1. live' = {} /\ UNCHANGED <<stack, nextId>>
          /\ ops' = [p \in WebProfile |-> IF ops[p].at = "working" THEN ops[p] ELSE NoOp]
      BY <2>14 DEF Shutdown
    <3>2. Latched' \subseteq Latched
      BY <3>1 DEF Latched, NoOp
    <3> QED BY <1>2, <2>1, <2>2, <2>n, <3>1, <3>2 DEF WebBounds
  <2>15. ASSUME NEW p \in WebProfile, OpenPopup(p) \/ \E k \in HomeKey : OpenHome(k, p) PROVE WebBounds'
    BY <2>6, <2>15 DEF OpenPopup, OpenHome
  <2>16. ASSUME NEW p \in WebProfile, PageRemoved(p) PROVE WebBounds'
    BY <2>12, <2>16
  <2> QED BY <1>2, <2>7, <2>8, <2>9, <2>10, <2>11, <2>12, <2>13, <2>14, <2>15, <2>16 DEF WebNext
<1>3. ASSUME WebInv, WebBounds PROVE WebTypeOK
  <2>1. Cardinality(live) \in Nat /\ Cardinality(WaitingIn(stack)) \in Nat /\ MaxWindows \in Nat /\ MaxNested \in Nat
    BY <1>3, WaitingFew, FS_CardinalityType, ScreensAssumption DEF WebInv, WebTypes, WebBounds
  <2>2. Cardinality(live) < MaxWindows + MaxNested
    BY <1>3, <2>1 DEF WebBounds
  <2>3. nextId \in 1..MaxIds
    BY <1>3, ScreensAssumption DEF WebInv, WebTypes, WebBounds
  <2> QED BY <1>3, <2>2, <2>3 DEF WebInv, WebTypes, WebBounds, WebTypeOK
<1> QED BY <1>1, <1>2, <1>3

------------------------------------------------------------------------------
\* The parts together (MCDesktop): a step of the desktop is a step of a part, or leaves it.

\* A part that does not run keeps its variables.
LEMMA PartSteps ==
  ASSUME [DesktopNext]_desktopVars
  PROVE  /\ [JobNext]_jobVars /\ [SetupNext]_setupVars /\ [IdentityNext]_identityVars
         /\ [CandidateNext]_candidateVars /\ [PipeNext]_pipeVars /\ [ExitNext]_exitVars
         /\ [WebNext]_webVars /\ [ClearNext]_clearVars /\ [NavNext]_navVars /\ [StoreNext]_storeVars
         /\ [Next]_vars /\ [RuntimeNext]_dirVars /\ part' = part
<1>1. [JobNext]_jobVars
  BY DEF DesktopNext, desktopVars, Others
<1>2. [SetupNext]_setupVars
  BY DEF DesktopNext, desktopVars, Others
<1>3. [IdentityNext]_identityVars
  BY DEF DesktopNext, desktopVars, Others
<1>4. [CandidateNext]_candidateVars
  BY DEF DesktopNext, desktopVars, Others
<1>5. [PipeNext]_pipeVars
  BY DEF DesktopNext, desktopVars, Others
<1>6. [ExitNext]_exitVars
  BY DEF DesktopNext, desktopVars, Others
<1>7. [WebNext]_webVars
  BY DEF DesktopNext, desktopVars, Others
<1>8. [ClearNext]_clearVars
  BY DEF DesktopNext, desktopVars, Others
<1>9. [NavNext]_navVars
  BY DEF DesktopNext, desktopVars, Others
<1>10. [StoreNext]_storeVars
  BY DEF DesktopNext, desktopVars, Others
<1>11. [Next]_vars
  BY DEF DesktopNext, desktopVars, Others
<1>12. [RuntimeNext]_dirVars
  BY DEF DesktopNext, desktopVars, Others
<1>13. part' = part
  BY DEF DesktopNext, desktopVars, Others
<1> QED BY <1>1, <1>2, <1>3, <1>4, <1>5, <1>6, <1>7, <1>8, <1>9, <1>10, <1>11, <1>12, <1>13

\* What the desktop is started from and with is trusted, whichever part runs and for any places, executables,
\* ids and times (process_setup.rs, process_setup_windows.rs, process_windows.rs).
THEOREM DesktopTrusted == DesktopSpec => []TrustedSpawn
<1> DEFINE Inv == SetupInv /\ IdentityInv
<1>1. DesktopInit => Inv
  BY SetupBegins, IdentityBegins DEF DesktopInit
<1>2. Inv /\ [DesktopNext]_desktopVars => Inv'
  BY PartSteps, SetupKept, IdentityKept
<1>3. Inv => TrustedSpawn
  BY SetupShows, IdentityShows DEF TrustedSpawn
<1> QED BY <1>1, <1>2, <1>3, PTL DEF DesktopSpec

\* A receipt of the Windows guard counts what the termination ended, neither less nor more, and a job found empty
\* stays empty (guard_windows.rs).
THEOREM DesktopCounts == DesktopSpec => []ForcedCounted
<1>1. DesktopInit => JobInv
  BY JobBegins DEF DesktopInit
<1>2. JobInv /\ [DesktopNext]_desktopVars => JobInv'
  BY PartSteps, JobKept
<1> QED BY <1>1, <1>2, JobShows, PTL DEF DesktopSpec

\* The page a home resumes is one it showed, on each engine, and stays listed until as many other homes have recorded
\* theirs as the list holds, for any pages, loads, homes and length of the list (resume_navigation.rs, resume.rs).
THEOREM DesktopResumes == DesktopSpec => []LastPageTrue
<1> DEFINE Inv == NavInv /\ StoreInv
<1>1. DesktopInit => Inv
  BY NavBegins, StoreBegins DEF DesktopInit
<1>2. Inv /\ [DesktopNext]_desktopVars => Inv'
  BY PartSteps, NavKept, StoreKept
<1>3. Inv => LastPageTrue
  BY NavShows, StoreShows DEF LastPageTrue
<1> QED BY <1>1, <1>2, <1>3, PTL DEF DesktopSpec

\* Data is cleared under no screen and no browser that runs, but for the windows the code leaves open, and is gone
\* when a clearing says so, for any number of homes, handlers and Apps
\* (desktop.rs, profile_reset.rs, process_adapter.rs).
THEOREM DesktopClears == DesktopSpec => []ClearsSafely
<1> DEFINE Inv == WebInv /\ ClearInv
<1>1. DesktopInit => Inv
  BY WebBegins, ClearBegins DEF DesktopInit
<1>2. Inv /\ [DesktopNext]_desktopVars => Inv'
  BY PartSteps, WebKept, ClearKept
<1>3. Inv => ClearsSafely
  BY WebShows, ClearShows DEF ClearsSafely
<1> QED BY <1>1, <1>2, <1>3, PTL DEF DesktopSpec

\* The App exits with a code asked for since the last failed drain, and the experiment's loop ends
\* after its last browser, whose roots are announced once each frame is known
\* (process_adapter.rs, main.rs of the candidate).
THEOREM DesktopQuits == DesktopSpec => []QuitsRightly
<1> DEFINE Inv == ExitInv /\ CandidateInv
<1>1. DesktopInit => Inv
  BY ExitBegins, CandidateBegins DEF DesktopInit
<1>2. Inv /\ [DesktopNext]_desktopVars => Inv'
  BY PartSteps, ExitKept, CandidateKept
<1>3. Inv => QuitsRightly
  BY DEF ExitInv, CandidateInv, QuitsRightly
<1> QED BY <1>1, <1>2, <1>3, PTL DEF DesktopSpec

\* The browser reads whole requests in their order, whatever times out, fails or is cancelled (process_windows.rs).
THEOREM DesktopWrites == DesktopSpec => []PipeOrderly
<1>1. DesktopInit => PipeInv
  BY PipeBegins DEF DesktopInit
<1>2. PipeInv /\ [DesktopNext]_desktopVars => PipeInv'
  BY PartSteps, PipeKept
<1> QED BY <1>1, <1>2, PipeShows, PTL DEF DesktopSpec

\* Whatever ids are used again while /proc is read, the Linux guard signals its browser's tree alone, and what it
\* reports of the browser's exit and end is so (guard_main.rs).
THEOREM DesktopSupervises == DesktopSpec => [](SignalsOnlyOwn /\ Supervised)
<1>1. DesktopInit => GInv
  BY GuardBegins DEF DesktopInit
<1>2. GInv /\ [DesktopNext]_desktopVars => GInv'
  BY PartSteps, GuardKept
<1> QED BY <1>1, <1>2, GuardSignals, GuardReports, PTL DEF DesktopSpec

\* A runtime directory locked by its App stays, whatever the other Apps sweep (process_setup.rs).
THEOREM DesktopDirsStay == DesktopSpec => []LockedDirStays
<1>1. DesktopInit => DInv
  BY DirsBegin, RuntimeAssumption DEF DesktopInit
<1>2. DInv /\ [DesktopNext]_desktopVars => DInv'
  BY PartSteps, DirsKept, RuntimeAssumption
<1>3. DInv => LockedDirStays
  BY DEF DInv, Alone, GoodOf, LockedDirStays
<1> QED BY <1>1, <1>2, <1>3, PTL DEF DesktopSpec

------------------------------------------------------------------------------
\* The types of the part that runs: each part's invariant, and the bounds it keeps beside it.

\* The parts whose invariants have their types.
LEMMA ClearTyped == ClearInv => ClearTypeOK
<1> SUFFICES ASSUME ClearInv PROVE ClearTypeOK
  OBVIOUS
<1>1. ClearTypes /\ MaxRoots \in Nat
  BY ClearAssumption DEF ClearInv
<1>2. ASSUME NEW a \in Instance PROVE clear[a].had \cup clear[a].todo \subseteq 1..MaxRoots
  BY <1>1 DEF ClearTypes, Clearing
<1>3. ASSUME NEW b \in BrowserId PROVE browser[b].own \in Instance \cup {Lost} /\ browser[b].base \in 0..MaxRoots
  BY <1>1 DEF ClearTypes, BrowserOf
<1>4. base \in 0..MaxRoots /\ roots \in 0..MaxRoots /\ detached \subseteq 1..MaxRoots
  BY <1>1 DEF ClearTypes
<1> QED BY <1>1, <1>2, <1>3, <1>4 DEF ClearTypes, ClearTypeOK

\* A list of last pages is no longer than the store keeps.
LEMMA StoreTyped == StoreInv => StoreTypeOK
<1> SUFFICES ASSUME StoreInv PROVE StoreTypeOK
  OBVIOUS
<1>1. StoreTypes
  BY DEF StoreInv
<1>2. ASSUME file # Broken
      PROVE  Len(file) <= MaxPages /\ \A i \in 1..Len(file) : file[i] \in [key : Home, url : Page]
  <2>1. file \in Seq(LastPages) /\ Len(file) <= MaxPages
    BY <1>1, <1>2 DEF StoreTypes, Lists
  <2>2. \A i \in 1..Len(file) : file[i] \in LastPages
    BY <2>1
  <2> QED BY <2>1, <2>2 DEF LastPages
<1> QED BY <1>1, <1>2 DEF StoreTypes, StoreTypeOK

DesktopInv == /\ part \in Components
              /\ GInv /\ JobInv /\ DInv /\ SetupInv /\ NavInv /\ WebInv /\ ClearInv /\ PipeInv /\ StoreInv
              /\ CandidateInv /\ ExitInv /\ IdentityInv
DesktopBounds == /\ GuardBounds /\ JobBounds /\ NavBounds /\ WebBounds /\ PipeBounds /\ ExitBounds
                 /\ AllTold /\ QueuedTrue

\* Whichever part runs has its types, and stays within the bounds of its model: what a part has opened, told, counted
\* or nested is no more than the windows, processes, handlers, ids and requests there are.
THEOREM DesktopTypes == DesktopSpec => []DesktopTypeOK
<1>1. DesktopInit => DesktopInv /\ DesktopBounds
  <2> SUFFICES ASSUME DesktopInit PROVE DesktopInv /\ DesktopBounds
    OBVIOUS
  <2>1. DesktopInv
    BY GuardBegins, JobBegins, DirsBegin, RuntimeAssumption, SetupBegins, NavBegins, WebBegins, ClearBegins,
       PipeBegins, StoreBegins, CandidateBegins, ExitBegins, IdentityBegins DEF DesktopInit, DesktopInv
  <2>2. DesktopBounds
    BY GuardBounded, JobBounded, NavBounded, WebBounded, PipeBounded, ExitBounded, CandidateBounded
       DEF DesktopInit, DesktopBounds
  <2> QED BY <2>1, <2>2
<1>2. DesktopInv /\ DesktopBounds /\ [DesktopNext]_desktopVars => DesktopInv' /\ DesktopBounds'
  <2> SUFFICES ASSUME DesktopInv, DesktopBounds, [DesktopNext]_desktopVars PROVE DesktopInv' /\ DesktopBounds'
    OBVIOUS
  <2>1. DesktopInv'
    BY PartSteps, GuardKept, JobKept, DirsKept, RuntimeAssumption, SetupKept, NavKept, WebKept, ClearKept,
       PipeKept, StoreKept, CandidateKept, ExitKept, IdentityKept DEF DesktopInv
  <2>2. DesktopBounds'
    BY PartSteps, GuardBounded, JobBounded, NavBounded, WebBounded, PipeBounded, ExitBounded, CandidateBounded
       DEF DesktopInv, DesktopBounds
  <2> QED BY <2>1, <2>2
<1>3. DesktopInv /\ DesktopBounds => DesktopTypeOK
  <2> SUFFICES ASSUME DesktopInv, DesktopBounds PROVE DesktopTypeOK
    OBVIOUS
  <2>1. TypeOK /\ JobTypeOK /\ NavTypeOK /\ WebTypeOK /\ PipeTypeOK /\ ExitTypeOK /\ CandidateTypeOK
    BY GuardBounded, JobBounded, NavBounded, WebBounded, PipeBounded, ExitBounded, CandidateBounded
       DEF DesktopInv, DesktopBounds
  <2>2. RuntimeTypeOK /\ SetupTypeOK /\ ClearTypeOK /\ StoreTypeOK /\ IdentityTypeOK
    BY SetupShows, ClearTyped, StoreTyped, IdentityShows DEF DesktopInv, DInv, Types
  <2>3. part \in Components
    BY DEF DesktopInv
  <2> QED BY <2>1, <2>2, <2>3 DEF Components, DesktopTypeOK
<1> QED BY <1>1, <1>2, <1>3, PTL DEF DesktopSpec
==============================================================================
