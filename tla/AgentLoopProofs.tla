-------------------------- MODULE AgentLoopProofs --------------------------
(***************************************************************************)
(* Theorems about AgentLoop: the session log is well formed at every prefix*)
(* a crash may keep and after every repair, the live inbox is the replay of*)
(* the log, and a message enters the transcript at most once, for any set  *)
(* of messages and any number of turns, steps, cancels and crashes.        *)
(***************************************************************************)
EXTENDS AgentLoop, FiniteSetTheorems, SequenceTheorems, NaturalsInduction,
        WellFoundedInduction, TLAPS

----------------------------------------------------------------------------
(* The two folds over the log: what a prefix decides stays decided.        *)

\* A non-empty set of naturals has a least element: proofs by induction are
\* written with it, as the search for a least counterexample.
LEMMA LeastNatural ==
    ASSUME NEW S, S \subseteq Nat, S # {}
    PROVE  \E x \in S : \A y \in S : x <= y
<1> DEFINE R == OpToRel(<, Nat)
<1>1. IsWellFoundedOn(R, Nat)
  BY NatLessThanWellFounded, Zenon DEF R
<1> HIDE DEF R
<1>2. PICK x \in S : \A y \in S : ~(<<y, x>> \in R)
  BY <1>1, WFMin
<1>3. \A y \in S : ~(y < x)
  <2> TAKE y \in S
  <2>1. <<y, x>> \in Nat \X Nat
    OBVIOUS
  <2> QED BY <1>2, <2>1 DEF R, OpToRel
<1> QED BY <1>2, <1>3

Cursor0 == [turn |-> 0, open |-> FALSE, step |-> 0]

\* The recursive definition of the cursors has a solution, so it is one.
LEMMA CursorsRec ==
    ASSUME NEW s, Len(s) \in Nat
    PROVE  /\ LogCursors(s)[0] = Cursor0
           /\ \A n \in 1..Len(s) : LogCursors(s)[n] = Moved(LogCursors(s)[n - 1], s[n])
<1> DEFINE Rec(f, n) == f = [k \in 0..n |-> IF k = 0 THEN Cursor0 ELSE Moved(f[k - 1], s[k])]
           Good(n) == \E f : Rec(f, n)
           bad == {n \in Nat : ~Good(n)}
<1>1. Good(0)
  <2> DEFINE f == [k \in 0..0 |-> Cursor0]
  <2>1. \A k \in 0..0 : k = 0
    OBVIOUS
  <2>2. Rec(f, 0)
    BY <2>1
  <2> QED BY <2>2
<1>2. ASSUME NEW n \in Nat, Good(n) PROVE Good(n + 1)
  <2>1. PICK f : Rec(f, n)
    BY <1>2
  <2> DEFINE g == [k \in 0..(n + 1) |-> IF k <= n THEN f[k] ELSE Moved(f[n], s[n + 1])]
  <2>2. ASSUME NEW k \in 0..(n + 1)
        PROVE  g[k] = IF k = 0 THEN Cursor0 ELSE Moved(g[k - 1], s[k])
    <3>1. CASE k = 0
      BY <2>1, <3>1
    <3>2. CASE k \in 1..n
      <4>1. k \in 0..n /\ k - 1 \in 0..n /\ k - 1 \in 0..(n + 1) /\ k # 0
        BY <3>2
      <4>2. f[k] = Moved(f[k - 1], s[k])
        BY <2>1, <4>1
      <4>3. g[k] = f[k] /\ g[k - 1] = f[k - 1]
        BY <4>1
      <4> QED BY <4>1, <4>2, <4>3
    <3>3. CASE k = n + 1
      <4>1. g[k] = Moved(f[n], s[n + 1]) /\ g[n] = f[n] /\ k - 1 = n /\ k # 0
        BY <3>3
      <4> QED BY <3>3, <4>1
    <3> QED BY <3>1, <3>2, <3>3
  <2>3. Rec(g, n + 1)
    <3> DEFINE h == [k \in 0..(n + 1) |-> IF k = 0 THEN Cursor0 ELSE Moved(g[k - 1], s[k])]
    <3>1. \A k \in 0..(n + 1) : g[k] = h[k]
      BY <2>2
    <3>2. g = h
      BY <3>1
    <3> QED BY <3>2
  <2> QED BY <2>3
<1>3. bad = {}
  <2> SUFFICES ASSUME bad # {} PROVE FALSE
    OBVIOUS
  <2>1. PICK n \in bad : \A k \in bad : n <= k
    BY LeastNatural
  <2>2. n \in Nat /\ ~Good(n) /\ n # 0
    BY <1>1
  <2>3. n - 1 \in Nat /\ ~(n <= n - 1) /\ (n - 1) + 1 = n
    BY <2>2
  <2>4. Good(n - 1)
    BY <2>1, <2>3
  <2> HIDE DEF Good
  <2>5. Good((n - 1) + 1)
    BY <1>2, <2>3, <2>4
  <2> QED BY <2>2, <2>3, <2>5
<1>4. Good(Len(s))
  BY <1>3
<1>5. Rec(LogCursors(s), Len(s))
  BY <1>4 DEF LogCursors, Cursor0
<1> HIDE DEF Good
<1>6. 0 \in 0..Len(s) /\ \A n \in 1..Len(s) : n \in 0..Len(s) /\ n # 0
  OBVIOUS
<1> QED BY <1>5, <1>6

LEMMA CursorsAgree ==
    ASSUME NEW s, NEW t, Len(s) \in Nat, Len(t) \in Nat, NEW n \in Nat, n <= Len(s), n <= Len(t),
           \A k \in 1..n : s[k] = t[k]
    PROVE  \A k \in 0..n : LogCursors(s)[k] = LogCursors(t)[k]
<1> DEFINE bad == {k \in 0..n : LogCursors(s)[k] # LogCursors(t)[k]}
<1> SUFFICES ASSUME bad # {} PROVE FALSE
  OBVIOUS
<1>1. bad \subseteq Nat
  OBVIOUS
<1>2. PICK k \in bad : \A j \in bad : k <= j
  BY <1>1, LeastNatural
<1>3. k \in 1..n
  BY <1>2, CursorsRec
<1>4. k - 1 \in 0..n /\ ~(k <= k - 1) /\ k \in 1..Len(s) /\ k \in 1..Len(t)
  BY <1>3
<1>5. LogCursors(s)[k - 1] = LogCursors(t)[k - 1]
  BY <1>2, <1>4
<1> QED BY <1>2, <1>3, <1>4, <1>5, CursorsRec

\* The recursive definition of the projections has a solution, so it is one.
LEMMA ProjectionsRec ==
    ASSUME NEW box, NEW s, Len(s) \in Nat
    PROVE  /\ Projections(box, s)[0] = box
           /\ \A n \in 1..Len(s) : Projections(box, s)[n] = Applied(Projections(box, s)[n - 1], s[n])
<1> DEFINE Rec(f, n) == f = [k \in 0..n |-> IF k = 0 THEN box ELSE Applied(f[k - 1], s[k])]
           Good(n) == \E f : Rec(f, n)
           bad == {n \in Nat : ~Good(n)}
<1>1. Good(0)
  <2> DEFINE f == [k \in 0..0 |-> box]
  <2>1. \A k \in 0..0 : k = 0
    OBVIOUS
  <2>2. Rec(f, 0)
    BY <2>1
  <2> QED BY <2>2
<1>2. ASSUME NEW n \in Nat, Good(n) PROVE Good(n + 1)
  <2>1. PICK f : Rec(f, n)
    BY <1>2
  <2> DEFINE g == [k \in 0..(n + 1) |-> IF k <= n THEN f[k] ELSE Applied(f[n], s[n + 1])]
  <2>2. ASSUME NEW k \in 0..(n + 1)
        PROVE  g[k] = IF k = 0 THEN box ELSE Applied(g[k - 1], s[k])
    <3>1. CASE k = 0
      BY <2>1, <3>1
    <3>2. CASE k \in 1..n
      <4>1. k \in 0..n /\ k - 1 \in 0..n /\ k - 1 \in 0..(n + 1) /\ k # 0
        BY <3>2
      <4>2. f[k] = Applied(f[k - 1], s[k])
        BY <2>1, <4>1
      <4>3. g[k] = f[k] /\ g[k - 1] = f[k - 1]
        BY <4>1
      <4> QED BY <4>1, <4>2, <4>3
    <3>3. CASE k = n + 1
      <4>1. g[k] = Applied(f[n], s[n + 1]) /\ g[n] = f[n] /\ k - 1 = n /\ k # 0
        BY <3>3
      <4> QED BY <3>3, <4>1
    <3> QED BY <3>1, <3>2, <3>3
  <2>3. Rec(g, n + 1)
    <3> DEFINE h == [k \in 0..(n + 1) |-> IF k = 0 THEN box ELSE Applied(g[k - 1], s[k])]
    <3>1. \A k \in 0..(n + 1) : g[k] = h[k]
      BY <2>2
    <3>2. g = h
      BY <3>1
    <3> QED BY <3>2
  <2> QED BY <2>3
<1>3. bad = {}
  <2> SUFFICES ASSUME bad # {} PROVE FALSE
    OBVIOUS
  <2>1. PICK n \in bad : \A k \in bad : n <= k
    BY LeastNatural
  <2>2. n \in Nat /\ ~Good(n) /\ n # 0
    BY <1>1
  <2>3. n - 1 \in Nat /\ ~(n <= n - 1) /\ (n - 1) + 1 = n
    BY <2>2
  <2>4. Good(n - 1)
    BY <2>1, <2>3
  <2> HIDE DEF Good
  <2>5. Good((n - 1) + 1)
    BY <1>2, <2>3, <2>4
  <2> QED BY <2>2, <2>3, <2>5
<1>4. Good(Len(s))
  BY <1>3
<1>5. Rec(Projections(box, s), Len(s))
  BY <1>4 DEF Projections
<1> HIDE DEF Good
<1>6. 0 \in 0..Len(s) /\ \A n \in 1..Len(s) : n \in 0..Len(s) /\ n # 0
  OBVIOUS
<1> QED BY <1>5, <1>6

LEMMA ProjectionsAgree ==
    ASSUME NEW box, NEW s, NEW t, Len(s) \in Nat, Len(t) \in Nat, NEW n \in Nat, n <= Len(s), n <= Len(t),
           \A k \in 1..n : s[k] = t[k]
    PROVE  \A k \in 0..n : Projections(box, s)[k] = Projections(box, t)[k]
<1> DEFINE bad == {k \in 0..n : Projections(box, s)[k] # Projections(box, t)[k]}
<1> SUFFICES ASSUME bad # {} PROVE FALSE
  OBVIOUS
<1>1. bad \subseteq Nat
  OBVIOUS
<1>2. PICK k \in bad : \A j \in bad : k <= j
  BY <1>1, LeastNatural
<1>3. k \in 1..n
  BY <1>2, ProjectionsRec
<1>4. k - 1 \in 0..n /\ ~(k <= k - 1) /\ k \in 1..Len(s) /\ k \in 1..Len(t)
  BY <1>3
<1>5. Projections(box, s)[k - 1] = Projections(box, t)[k - 1]
  BY <1>2, <1>4
<1> QED BY <1>2, <1>3, <1>4, <1>5, ProjectionsRec

\* Folding a log in two parts.
LEMMA ProjectJoin ==
    ASSUME NEW box, NEW S, NEW s \in Seq(S), NEW t \in Seq(S)
    PROVE  /\ \A k \in 0..Len(t) :
                Projections(box, s \o t)[Len(s) + k] = Projections(Project(box, s), t)[k]
           /\ Project(box, s \o t) = Project(Project(box, s), t)
<1> DEFINE u == s \o t
           mid == Project(box, s)
           bad == {k \in 0..Len(t) : Projections(box, u)[Len(s) + k] # Projections(mid, t)[k]}
<1>1. /\ u \in Seq(S) /\ Len(u) = Len(s) + Len(t) /\ Len(s) \in Nat /\ Len(t) \in Nat
      /\ Len(u) \in Nat
      /\ \A k \in 1..Len(u) : u[k] = IF k <= Len(s) THEN s[k] ELSE t[k - Len(s)]
  BY ConcatProperties, LenProperties
<1> HIDE DEF u, mid
<1>2. Projections(box, u)[Len(s)] = mid
  <2>1. \A k \in 1..Len(s) : u[k] = s[k]
    BY <1>1
  <2>2. Len(s) \in 0..Len(s) /\ Len(s) <= Len(u)
    BY <1>1
  <2>3. Len(u) \in Nat /\ Len(s) \in Nat /\ Len(s) <= Len(s)
    BY <1>1
  <2>4. \A k \in 0..Len(s) : Projections(box, u)[k] = Projections(box, s)[k]
    BY <2>1, <2>2, <2>3, ProjectionsAgree
  <2>5. mid = Projections(box, s)[Len(s)]
    BY DEF mid, Project
  <2> QED BY <2>2, <2>4, <2>5
<1>3. bad = {}
  <2> SUFFICES ASSUME bad # {} PROVE FALSE
    OBVIOUS
  <2>1. bad \subseteq Nat
    BY <1>1
  <2>2. PICK k \in bad : \A j \in bad : k <= j
    BY <2>1, LeastNatural
  <2>3. Projections(mid, t)[0] = mid
    BY <1>1, ProjectionsRec
  <2>4. k \in 1..Len(t)
    <3>1. Len(s) + 0 = Len(s)
      BY <1>1
    <3>2. k # 0
      BY <1>2, <2>2, <2>3, <3>1
    <3> QED BY <1>1, <2>2, <3>2
  <2>5. /\ k - 1 \in 0..Len(t) /\ ~(k <= k - 1) /\ Len(s) + k \in 1..Len(u)
        /\ (Len(s) + k) - 1 = Len(s) + (k - 1)
        /\ ~(Len(s) + k <= Len(s)) /\ (Len(s) + k) - Len(s) = k
    BY <1>1, <2>4
  <2>6. u[Len(s) + k] = t[k]
    BY <1>1, <2>5
  <2>7. Projections(box, u)[Len(s) + (k - 1)] = Projections(mid, t)[k - 1]
    BY <2>2, <2>5
  <2>8. Projections(box, u)[Len(s) + k] = Applied(Projections(box, u)[Len(s) + (k - 1)], t[k])
    <3>1. Len(u) \in Nat
      BY <1>1
    <3>2. \A n \in 1..Len(u) :
             Projections(box, u)[n] = Applied(Projections(box, u)[n - 1], u[n])
      BY <3>1, ProjectionsRec
    <3> QED BY <2>5, <2>6, <3>2
  <2>9. Projections(mid, t)[k] = Applied(Projections(mid, t)[k - 1], t[k])
    BY <1>1, <2>4, ProjectionsRec
  <2> QED BY <2>2, <2>7, <2>8, <2>9
<1>4. Len(t) \in 0..Len(t)
  BY <1>1
<1>5. Projections(box, u)[Len(s) + Len(t)] = Projections(mid, t)[Len(t)]
  BY <1>3, <1>4
<1> QED BY <1>1, <1>3, <1>5 DEF Project, u, mid

----------------------------------------------------------------------------
(* Well-formed logs *)

\* No step is open outside a turn.
CursorType == {c \in [turn : Nat, open : BOOLEAN, step : Nat] : ~c.open => c.step = 0}

Has(s, e) == \E k \in 1..Len(s) : s[k] = e

\* Every event is in its place, and no step belongs to a later turn than the current one;
\* stated of all prefixes, so that it survives the loss of a suffix.
GoodLog(s) ==
    /\ s \in Seq(Event)
    /\ \A k \in 0..Len(s) : LogCursors(s)[k] \in CursorType
    /\ \A k \in 1..Len(s) : InPlace(s, k, LogCursors(s)[k - 1])
    /\ \A k \in 0..Len(s) : \A j \in 1..k :
         s[j].type = "step/start" => s[j].turn <= LogCursors(s)[k].turn

\* The event may follow the log.
Fits(s, e) ==
    LET c == LogCursor(s)
    IN  /\ e.type = "turn/start" => ~c.open /\ e.turn = c.turn + 1
        /\ e.type = "turn/end" => c.open /\ c.step = 0 /\ e.turn = c.turn
        /\ e.type = "step/start" =>
             /\ c.open /\ c.step = 0 /\ e.turn = c.turn /\ e.step > 0
             /\ e.step > 1 => Has(s, StepStart(e.turn, e.step - 1))
             /\ ~Has(s, e)
        /\ e.type = "step/end" => c.step # 0 /\ e.turn = c.turn /\ e.step = c.step
        /\ e.type = "user/message" => c.step # 0

LEMMA EventFields ==
    ASSUME NEW e \in Event
    PROVE  /\ e.type = "turn/start" => e.turn \in Nat
           /\ e.type = "step/start" => e.turn \in Nat /\ e.step \in Nat
<1>1. CASE e \in {TurnStart(t) : t \in Nat}
  BY <1>1 DEF TurnStart
<1>2. CASE \E t \in Nat, r \in Reasons : e = TurnEnd(t, r)
  BY <1>2 DEF TurnEnd
<1>3. CASE \E t, s \in Nat : e = StepStart(t, s)
  BY <1>3 DEF StepStart
<1>4. CASE \E t, s \in Nat : e = StepEnd(t, s)
  BY <1>4 DEF StepEnd
<1>5. CASE \E m \in Msgs \cup {CTX} : e = UserMessage(m)
  BY <1>5 DEF UserMessage
<1>6. CASE \E tgt \in Targets, start, removed \in Nat, inserted \in Seq(Msgs), canceled \in BOOLEAN :
             e = Spliced(tgt, start, removed, inserted, canceled)
  BY <1>6 DEF Spliced
<1> QED BY <1>1, <1>2, <1>3, <1>4, <1>5, <1>6 DEF Event

\* The cursor moves within its type, and to a later turn only.
LEMMA MovedType ==
    ASSUME NEW c \in CursorType, NEW e \in Event,
           e.type = "turn/start" => e.turn = c.turn + 1,
           e.type = "step/start" => c.open
    PROVE  /\ Moved(c, e) \in CursorType
           /\ c.turn <= Moved(c, e).turn
           /\ e.type = "step/start" => Moved(c, e).turn = c.turn
<1>1. /\ e.type = "turn/start" => e.turn \in Nat
      /\ e.type = "step/start" => e.step \in Nat
  BY EventFields
<1>2. CASE e.type = "turn/start"
  BY <1>1, <1>2 DEF Moved, CursorType
<1>3. CASE e.type = "turn/end"
  <2>1. Moved(c, e) = [c EXCEPT !.open = FALSE, !.step = 0]
    BY <1>3 DEF Moved
  <2>2. Moved(c, e) = [turn |-> c.turn, open |-> FALSE, step |-> 0]
    BY <2>1 DEF CursorType
  <2> QED BY <1>3, <2>2 DEF CursorType
<1>4. CASE e.type = "step/start"
  BY <1>1, <1>4 DEF Moved, CursorType
<1>5. CASE e.type = "step/end"
  BY <1>5 DEF Moved, CursorType
<1>6. CASE e.type \notin {"turn/start", "turn/end", "step/start", "step/end"}
  BY <1>6 DEF Moved, CursorType
<1> QED BY <1>2, <1>3, <1>4, <1>5, <1>6

LEMMA AddEvent ==
    ASSUME NEW s, GoodLog(s), NEW e \in Event, Fits(s, e)
    PROVE  /\ GoodLog(Append(s, e))
           /\ LogCursor(Append(s, e)) = Moved(LogCursor(s), e)
           /\ \A x : Has(Append(s, e), x) <=> Has(s, x) \/ x = e
<1> DEFINE t == Append(s, e)
<1>1. s \in Seq(Event)
  BY DEF GoodLog
<1>2. /\ t \in Seq(Event) /\ Len(t) = Len(s) + 1 /\ Len(s) \in Nat /\ Len(t) \in Nat
      /\ \A k \in 1..Len(s) : t[k] = s[k]
      /\ t[Len(t)] = e
  BY <1>1, AppendProperties
<1> HIDE DEF t
<1>3. \A k \in 0..Len(s) : LogCursors(t)[k] = LogCursors(s)[k]
  <2>1. Len(s) <= Len(s) /\ Len(s) <= Len(t)
    BY <1>2
  <2> QED BY <1>2, <2>1, CursorsAgree
<1>4. \A k \in 1..Len(t) : LogCursors(t)[k] = Moved(LogCursors(t)[k - 1], t[k])
  BY <1>2, CursorsRec
<1>5. PICK c : c = LogCursor(s)
  OBVIOUS
<1>6. /\ Len(s) \in 0..Len(s) /\ Len(t) \in 1..Len(t) /\ Len(t) - 1 = Len(s)
      /\ c = LogCursors(s)[Len(s)]
  BY <1>2, <1>5 DEF LogCursor
<1>7. LogCursors(t)[Len(s)] = c /\ c \in CursorType
  BY <1>3, <1>6 DEF GoodLog
<1>8. LogCursors(t)[Len(t)] = Moved(c, e)
  BY <1>2, <1>4, <1>6, <1>7
<1>9. /\ Moved(c, e) \in CursorType /\ c.turn <= Moved(c, e).turn
      /\ e.type = "step/start" => Moved(c, e).turn = c.turn
  BY <1>5, <1>7, MovedType DEF Fits
<1>10. \A k \in 0..Len(t) : k \in 0..Len(s) \/ k = Len(t)
  BY <1>2
<1>11. \A k \in 0..Len(t) : LogCursors(t)[k] \in CursorType
  BY <1>3, <1>8, <1>9, <1>10 DEF GoodLog
<1>12. \A x : Has(t, x) <=> Has(s, x) \/ x = e
  <2>1. \A k \in 1..Len(t) : k \in 1..Len(s) \/ k = Len(t)
    BY <1>2
  <2>2. \A k \in 1..Len(s) : k \in 1..Len(t)
    BY <1>2
  <2> QED BY <1>2, <1>6, <2>1, <2>2 DEF Has
<1>13. ASSUME NEW k \in 1..Len(t) PROVE InPlace(t, k, LogCursors(t)[k - 1])
  <2>1. CASE k \in 1..Len(s)
    <3>1. k - 1 \in 0..Len(s) /\ \A j \in 1..(k - 1) : j \in 1..Len(s)
      BY <1>2, <2>1
    <3>2. LogCursors(t)[k - 1] = LogCursors(s)[k - 1] /\ t[k] = s[k]
      BY <1>2, <1>3, <2>1, <3>1
    <3>3. \A j \in 1..(k - 1) : t[j] = s[j]
      BY <1>2, <3>1
    <3>4. InPlace(s, k, LogCursors(s)[k - 1])
      BY <2>1 DEF GoodLog
    <3> QED BY <3>2, <3>3, <3>4 DEF InPlace
  <2>2. CASE k = Len(t)
    <3>1. t[k] = e /\ LogCursors(t)[k - 1] = c /\ k - 1 = Len(s)
      BY <1>2, <1>6, <1>7, <2>2
    <3>2. \A x : Has(s, x) <=> \E j \in 1..(k - 1) : t[j] = x
      BY <1>2, <3>1 DEF Has
    <3>3. Fits(s, e) /\ c = LogCursor(s)
      BY <1>5
    <3> QED BY <3>1, <3>2, <3>3 DEF Fits, InPlace
  <2> QED BY <1>2, <2>1, <2>2
<1>14. ASSUME NEW k \in 0..Len(t), NEW j \in 1..k, t[j].type = "step/start"
       PROVE  t[j].turn <= LogCursors(t)[k].turn
  <2>1. CASE k \in 0..Len(s)
    <3>1. j \in 1..Len(s) /\ t[j] = s[j] /\ LogCursors(t)[k] = LogCursors(s)[k]
      BY <1>2, <1>3, <2>1
    <3> QED BY <1>14, <2>1, <3>1 DEF GoodLog
  <2>2. CASE k = Len(t) /\ j \in 1..Len(s)
    <3>1. t[j] = s[j] /\ s[j].type = "step/start" /\ s[j] \in Event
      BY <1>1, <1>2, <1>14, <2>2, ElementOfSeq
    <3>2. s[j].turn <= c.turn
      BY <1>6, <2>2, <3>1 DEF GoodLog
    <3>3. s[j].turn \in Nat /\ c.turn \in Nat /\ Moved(c, e).turn \in Nat
      BY <1>7, <1>9, <3>1, EventFields DEF CursorType
    <3>4. s[j].turn <= Moved(c, e).turn
      BY <1>9, <3>2, <3>3
    <3> QED BY <1>8, <2>2, <3>1, <3>4
  <2>3. CASE k = Len(t) /\ j = Len(t)
    <3>1. t[j] = e /\ e.turn = c.turn /\ Moved(c, e).turn = c.turn /\ c.turn \in Nat
      BY <1>2, <1>5, <1>7, <1>9, <1>14, <2>3 DEF Fits, CursorType
    <3>2. c.turn <= c.turn
      BY <3>1
    <3> QED BY <1>8, <2>3, <3>1, <3>2
  <2> QED BY <1>2, <1>10, <2>1, <2>2, <2>3
<1>15. GoodLog(t)
  BY <1>2, <1>11, <1>13, <1>14 DEF GoodLog
<1>16. LogCursor(t) = Moved(LogCursor(s), e)
  BY <1>5, <1>8 DEF LogCursor
<1> QED BY <1>12, <1>15, <1>16 DEF t

\* What a crash leaves of a well-formed log is well formed.
LEMMA KeepPrefix ==
    ASSUME NEW s, GoodLog(s), NEW n \in 0..Len(s)
    PROVE  GoodLog(SubSeq(s, 1, n))
<1> DEFINE t == SubSeq(s, 1, n)
<1>1. s \in Seq(Event) /\ Len(s) \in Nat /\ n \in Nat
  BY LenProperties DEF GoodLog
<1>2. \A k \in 1..n : k \in 1..Len(s) /\ s[k] \in Event
  BY <1>1, ElementOfSeq
<1>3. t \in Seq(Event) /\ Len(t) = n /\ \A k \in 1..n : t[k] = s[k]
  BY <1>1, <1>2, SubSeqProperties
<1> HIDE DEF t
<1>4. \A k \in 0..n : k \in 0..Len(s) /\ LogCursors(t)[k] = LogCursors(s)[k]
  <2>1. n <= Len(s) /\ n <= Len(t) /\ Len(t) \in Nat
    BY <1>1, <1>3
  <2>2. \A k \in 0..n : LogCursors(t)[k] = LogCursors(s)[k]
    BY <1>1, <1>3, <2>1, CursorsAgree
  <2> QED BY <1>1, <2>2
<1>5. \A k \in 0..Len(t) : LogCursors(t)[k] \in CursorType
  BY <1>3, <1>4 DEF GoodLog
<1>6. ASSUME NEW k \in 1..Len(t) PROVE InPlace(t, k, LogCursors(t)[k - 1])
  <2>1. k - 1 \in 0..n /\ k \in 1..Len(s) /\ \A j \in 1..(k - 1) : j \in 1..n
    BY <1>1, <1>3
  <2>2. LogCursors(t)[k - 1] = LogCursors(s)[k - 1] /\ t[k] = s[k]
    BY <1>3, <1>4, <2>1
  <2>3. \A j \in 1..(k - 1) : t[j] = s[j]
    BY <1>3, <2>1
  <2>4. InPlace(s, k, LogCursors(s)[k - 1])
    BY <2>1 DEF GoodLog
  <2> QED BY <2>2, <2>3, <2>4 DEF InPlace
<1>7. ASSUME NEW k \in 0..Len(t), NEW j \in 1..k, t[j].type = "step/start"
      PROVE  t[j].turn <= LogCursors(t)[k].turn
  <2>1. k \in 0..Len(s) /\ j \in 1..n /\ t[j] = s[j] /\ LogCursors(t)[k] = LogCursors(s)[k]
    BY <1>1, <1>3, <1>4
  <2> QED BY <1>7, <2>1 DEF GoodLog
<1>8. GoodLog(t)
  BY <1>3, <1>5, <1>6, <1>7 DEF GoodLog
<1> QED BY <1>8 DEF t

----------------------------------------------------------------------------
(* The inbox as a projection of the log *)

Box == [Targets -> Seq(Msgs)]
Inj(l) == \A i, j \in 1..Len(l) : l[i] = l[j] => i = j

\* A message is pending in one place at most.
Distinct(b) ==
    /\ \A t \in Targets : Inj(b[t])
    /\ ToSet(b["next-turn"]) \cap ToSet(b["next-step"]) = {}

\* At every prefix of the log the pending messages were sent (S), are pending once and have not
\* entered the transcript yet; a message enters at most once.
GoodInbox(s, S) ==
    /\ s \in Seq(Event)
    /\ \A k \in 0..Len(s) :
         LET b == Projections(EmptyInbox, s)[k]
         IN  /\ b \in Box /\ Distinct(b)
             /\ \A m \in Msgs : m \in Pending(b) => m \in S /\ \A j \in 1..k : s[j] # UserMessage(m)
    /\ \A m \in Msgs : Has(s, UserMessage(m)) => m \in S
    /\ \A j, k \in 1..Len(s), m \in Msgs : s[j] = UserMessage(m) /\ s[k] = UserMessage(m) => j = k

LEMMA LastProjection ==
    ASSUME NEW s, NEW S, GoodInbox(s, S)
    PROVE  /\ Replay(s) = Projections(EmptyInbox, s)[Len(s)]
           /\ Replay(s) \in Box /\ Distinct(Replay(s))
           /\ \A m \in Msgs : m \in Pending(Replay(s)) => m \in S /\ ~Has(s, UserMessage(m))
<1>1. Replay(s) = Projections(EmptyInbox, s)[Len(s)]
  BY DEF Replay, Project
<1>2. Len(s) \in 0..Len(s)
  BY LenProperties DEF GoodInbox
<1> QED BY <1>1, <1>2 DEF GoodInbox, Has

LEMMA AddInbox ==
    ASSUME NEW s, NEW S, GoodInbox(s, S), NEW T, S \subseteq T, NEW e \in Event,
           NEW b \in Box, b = Applied(Replay(s), e), Distinct(b),
           \A m \in Msgs : m \in Pending(b) => m \in T /\ ~Has(s, UserMessage(m)) /\ e # UserMessage(m),
           \A m \in Msgs : e = UserMessage(m) => m \in T /\ ~Has(s, UserMessage(m))
    PROVE  GoodInbox(Append(s, e), T) /\ Replay(Append(s, e)) = b
<1> DEFINE t == Append(s, e)
<1>1. s \in Seq(Event)
  BY DEF GoodInbox
<1>2. /\ t \in Seq(Event) /\ Len(t) = Len(s) + 1 /\ Len(s) \in Nat /\ Len(t) \in Nat
      /\ \A k \in 1..Len(s) : t[k] = s[k]
      /\ t[Len(t)] = e
  BY <1>1, AppendProperties
<1> HIDE DEF t
<1>3. \A k \in 0..Len(s) : Projections(EmptyInbox, t)[k] = Projections(EmptyInbox, s)[k]
  <2>1. Len(s) <= Len(s) /\ Len(s) <= Len(t)
    BY <1>2
  <2> QED BY <1>2, <2>1, ProjectionsAgree
<1>4. \A k \in 1..Len(t) :
         Projections(EmptyInbox, t)[k] = Applied(Projections(EmptyInbox, t)[k - 1], t[k])
  BY <1>2, ProjectionsRec
<1>5. Len(s) \in 0..Len(s) /\ Len(t) \in 1..Len(t) /\ Len(t) - 1 = Len(s)
  BY <1>2
<1>6. Projections(EmptyInbox, t)[Len(t)] = b
  <2>1. Projections(EmptyInbox, t)[Len(s)] = Replay(s)
    BY <1>3, <1>5, LastProjection
  <2> QED BY <1>2, <1>4, <1>5, <2>1
<1>7. ASSUME NEW k \in 0..Len(t)
      PROVE  /\ Projections(EmptyInbox, t)[k] \in Box /\ Distinct(Projections(EmptyInbox, t)[k])
             /\ \A m \in Msgs : m \in Pending(Projections(EmptyInbox, t)[k]) =>
                  m \in T /\ \A j \in 1..k : t[j] # UserMessage(m)
  <2>1. CASE k \in 0..Len(s)
    <3>1. Projections(EmptyInbox, t)[k] = Projections(EmptyInbox, s)[k]
      BY <1>3, <2>1
    <3>2. \A j \in 1..k : t[j] = s[j]
      BY <1>2, <2>1
    <3> QED BY <2>1, <3>1, <3>2 DEF GoodInbox
  <2>2. CASE k = Len(t)
    <3>1. \A j \in 1..Len(t) : j \in 1..Len(s) \/ j = Len(t)
      BY <1>2
    <3> QED BY <1>2, <1>6, <2>2, <3>1 DEF Has
  <2> QED BY <1>2, <2>1, <2>2
<1>8. \A k \in 1..Len(t) : (k \in 1..Len(s) /\ t[k] = s[k]) \/ (k = Len(t) /\ t[k] = e)
  <2>1. \A k \in 1..Len(t) : k \in 1..Len(s) \/ k = Len(t)
    BY <1>2
  <2> QED BY <1>2, <2>1
<1>9. \A m \in Msgs : Has(t, UserMessage(m)) => m \in T
  BY <1>8 DEF Has, GoodInbox
<1>10. ASSUME NEW j \in 1..Len(t), NEW k \in 1..Len(t), NEW m \in Msgs,
              t[j] = UserMessage(m), t[k] = UserMessage(m)
       PROVE  j = k
  BY <1>8, <1>10 DEF Has, GoodInbox
<1>11. GoodInbox(t, T)
  BY <1>2, <1>7, <1>9, <1>10 DEF GoodInbox
<1>12. Replay(t) = b
  BY <1>6 DEF Replay, Project
<1> QED BY <1>11, <1>12 DEF t

LEMMA PrefixInbox ==
    ASSUME NEW s, NEW S, GoodInbox(s, S), NEW n \in 0..Len(s)
    PROVE  GoodInbox(SubSeq(s, 1, n), S)
<1> DEFINE t == SubSeq(s, 1, n)
<1>1. s \in Seq(Event) /\ Len(s) \in Nat /\ n \in Nat
  BY LenProperties DEF GoodInbox
<1>2. \A k \in 1..n : k \in 1..Len(s) /\ s[k] \in Event
  BY <1>1, ElementOfSeq
<1>3. t \in Seq(Event) /\ Len(t) = n /\ \A k \in 1..n : t[k] = s[k]
  BY <1>1, <1>2, SubSeqProperties
<1> HIDE DEF t
<1>4. \A k \in 0..n : k \in 0..Len(s) /\ Projections(EmptyInbox, t)[k] = Projections(EmptyInbox, s)[k]
  <2>1. n <= Len(s) /\ n <= Len(t) /\ Len(t) \in Nat
    BY <1>1, <1>3
  <2>2. \A k \in 0..n : Projections(EmptyInbox, t)[k] = Projections(EmptyInbox, s)[k]
    BY <1>1, <1>3, <2>1, ProjectionsAgree
  <2> QED BY <1>1, <2>2
<1>5. ASSUME NEW k \in 0..Len(t)
      PROVE  /\ Projections(EmptyInbox, t)[k] \in Box /\ Distinct(Projections(EmptyInbox, t)[k])
             /\ \A m \in Msgs : m \in Pending(Projections(EmptyInbox, t)[k]) =>
                  m \in S /\ \A j \in 1..k : t[j] # UserMessage(m)
  <2>1. k \in 0..Len(s) /\ \A j \in 1..k : t[j] = s[j]
    BY <1>1, <1>3
  <2>2. Projections(EmptyInbox, t)[k] = Projections(EmptyInbox, s)[k]
    BY <1>3, <1>4
  <2> QED BY <2>1, <2>2 DEF GoodInbox
<1>6. /\ \A m \in Msgs : Has(t, UserMessage(m)) => m \in S
      /\ \A j, k \in 1..Len(t), m \in Msgs :
           t[j] = UserMessage(m) /\ t[k] = UserMessage(m) => j = k
  BY <1>2, <1>3 DEF Has, GoodInbox
<1>7. GoodInbox(t, S)
  BY <1>3, <1>5, <1>6 DEF GoodInbox
<1> QED BY <1>7 DEF t

----------------------------------------------------------------------------
(* Splices *)

Splice(l, a, n, ins) == SubSeq(l, 1, a) \o ins \o SubSeq(l, a + n + 1, Len(l))

SpliceOf(r, l, a, n, ins) ==
    /\ r \in Seq(Msgs) /\ Len(r) = a + Len(ins) + (Len(l) - (a + n))
    /\ \A i \in 1..Len(r) :
         r[i] = IF i <= a THEN l[i]
                ELSE IF i <= a + Len(ins) THEN ins[i - a]
                ELSE l[i - Len(ins) + n]

LEMMA SpliceList ==
    ASSUME NEW l \in Seq(Msgs), NEW a \in Nat, NEW n \in Nat, a + n <= Len(l),
           NEW ins \in Seq(Msgs),
           NEW r, r = Splice(l, a, n, ins)
    PROVE  SpliceOf(r, l, a, n, ins)
<1> DEFINE p == SubSeq(l, 1, a)
           q == SubSeq(l, a + n + 1, Len(l))
<1>0. r = p \o ins \o q
  BY DEF Splice
<1>1. Len(l) \in Nat /\ Len(ins) \in Nat
  BY LenProperties
<1>2. \A i \in 1..Len(l) : l[i] \in Msgs
  BY ElementOfSeq
<1>3. p \in Seq(Msgs) /\ Len(p) = a /\ \A i \in 1..a : p[i] = l[i]
  <2>1. \A i \in 1..a : l[i] \in Msgs
    BY <1>1, <1>2
  <2> QED BY <2>1, SubSeqProperties
<1>4. /\ q \in Seq(Msgs) /\ Len(q) = Len(l) - (a + n)
      /\ \A i \in 1..(Len(l) - (a + n)) : q[i] = l[a + n + i]
  <2>1. \A i \in (a + n + 1)..Len(l) : l[i] \in Msgs
    BY <1>1, <1>2
  <2>2. /\ q \in Seq(Msgs)
        /\ Len(q) = IF a + n + 1 <= Len(l) THEN Len(l) - (a + n + 1) + 1 ELSE 0
        /\ \A i \in 1..(Len(l) - (a + n + 1) + 1) : q[i] = l[(a + n + 1) + i - 1]
    BY <1>1, <2>1, SubSeqProperties
  <2>3. Len(l) - (a + n + 1) + 1 = Len(l) - (a + n)
    BY <1>1
  <2>4. \A i \in 1..(Len(l) - (a + n)) : (a + n + 1) + i - 1 = a + n + i
    BY <1>1
  <2> HIDE DEF q
  <2>5. Len(q) = Len(l) - (a + n)
    BY <1>1, <2>2
  <2> QED BY <2>2, <2>3, <2>4, <2>5
<1> HIDE DEF p, q
<1>5. /\ p \o ins \in Seq(Msgs) /\ Len(p \o ins) = a + Len(ins)
      /\ \A i \in 1..(a + Len(ins)) : (p \o ins)[i] = IF i <= a THEN l[i] ELSE ins[i - a]
  <2>1. /\ p \o ins \in Seq(Msgs) /\ Len(p \o ins) = Len(p) + Len(ins)
        /\ \A i \in 1..(Len(p) + Len(ins)) : (p \o ins)[i] = IF i <= Len(p) THEN p[i] ELSE ins[i - Len(p)]
    BY <1>3, ConcatProperties
  <2>2. \A i \in 1..(a + Len(ins)) : i <= a => p[i] = l[i]
    BY <1>1, <1>3
  <2>3. Len(p) = a
    BY <1>3
  <2> QED BY <2>1, <2>2, <2>3
<1>6. /\ r \in Seq(Msgs) /\ Len(r) = a + Len(ins) + (Len(l) - (a + n))
      /\ \A i \in 1..Len(r) : r[i] = IF i <= a + Len(ins) THEN (p \o ins)[i] ELSE q[i - (a + Len(ins))]
  <2> DEFINE f == p \o ins
  <2>1. f \in Seq(Msgs) /\ Len(f) = a + Len(ins)
    BY <1>5
  <2> HIDE DEF f
  <2>2. f \in Seq(Msgs) /\ q \in Seq(Msgs)
    BY <1>4, <2>1
  <2>3. /\ f \o q \in Seq(Msgs) /\ Len(f \o q) = Len(f) + Len(q)
        /\ \A i \in 1..(Len(f) + Len(q)) : (f \o q)[i] = IF i <= Len(f) THEN f[i] ELSE q[i - Len(f)]
    BY <2>2, ConcatProperties
  <2>4. Len(q) = Len(l) - (a + n) /\ r = f \o q
    BY <1>0, <1>4 DEF f
  <2>5. r \in Seq(Msgs) /\ Len(r) = a + Len(ins) + (Len(l) - (a + n))
    BY <2>1, <2>3, <2>4
  <2>6. 1..Len(r) = 1..(Len(f) + Len(q))
    BY <2>3, <2>4
  <2>7. \A i \in 1..Len(r) : r[i] = IF i <= a + Len(ins) THEN f[i] ELSE q[i - (a + Len(ins))]
    BY <2>1, <2>3, <2>4, <2>6
  <2> QED BY <2>5, <2>7 DEF f
<1>7. ASSUME NEW i \in 1..Len(r), ~(i <= a + Len(ins))
      PROVE  q[i - (a + Len(ins))] = l[i - Len(ins) + n]
  <2>0. Len(r) = a + Len(ins) + (Len(l) - (a + n))
    BY <1>6
  <2>1. i - (a + Len(ins)) \in 1..(Len(l) - (a + n))
    BY <1>1, <1>7, <2>0
  <2>2. a + n + (i - (a + Len(ins))) = i - Len(ins) + n
    BY <1>1
  <2> QED BY <1>4, <2>1, <2>2
<1>8. \A i \in 1..Len(r) :
         r[i] = IF i <= a THEN l[i]
                ELSE IF i <= a + Len(ins) THEN ins[i - a]
                ELSE l[i - Len(ins) + n]
  <2> TAKE i \in 1..Len(r)
  <2>1. CASE i <= a + Len(ins)
    <3>1. i \in 1..(a + Len(ins))
      BY <1>1, <1>6, <2>1
    <3> QED BY <1>5, <1>6, <2>1, <3>1
  <2>2. CASE ~(i <= a + Len(ins))
    <3>1. ~(i <= a)
      BY <1>1, <1>6, <2>2
    <3> QED BY <1>6, <1>7, <2>2, <3>1
  <2> QED BY <2>1, <2>2
<1> QED BY <1>6, <1>8 DEF SpliceOf

LEMMA Items ==
    ASSUME NEW l \in Seq(Msgs)
    PROVE  /\ Len(l) \in Nat
           /\ \A i \in 1..Len(l) : l[i] \in ToSet(l)
           /\ \A m : m \in ToSet(l) => m \in Msgs /\ \E i \in 1..Len(l) : l[i] = m
<1>1. DOMAIN l = 1..Len(l) /\ Len(l) \in Nat /\ \A i \in 1..Len(l) : l[i] \in Msgs
  BY LenProperties, ElementOfSeq
<1> QED BY <1>1 DEF ToSet

\* Removing a stretch of a list.
LEMMA CutList ==
    ASSUME NEW l \in Seq(Msgs), Inj(l), NEW a \in Nat, NEW n \in Nat, a + n <= Len(l),
           NEW r, r = Splice(l, a, n, <<>>)
    PROVE  /\ r \in Seq(Msgs) /\ Inj(r) /\ Len(r) = Len(l) - n
           /\ ToSet(r) \subseteq ToSet(l)
           /\ \A i \in (a + 1)..(a + n) : l[i] \notin ToSet(r)
<1>1. PICK none \in Seq(Msgs) : none = <<>> /\ Len(none) = 0
  BY EmptySeq
<1>2. Len(l) \in Nat
  BY LenProperties
<1>3. r = Splice(l, a, n, none)
  BY <1>1
<1>4. /\ r \in Seq(Msgs) /\ Len(r) = a + Len(none) + (Len(l) - (a + n))
      /\ \A i \in 1..Len(r) :
           r[i] = IF i <= a THEN l[i]
                  ELSE IF i <= a + Len(none) THEN none[i - a]
                  ELSE l[i - Len(none) + n]
  <2>1. SpliceOf(r, l, a, n, none)
    BY <1>3, SpliceList
  <2> QED BY <2>1 DEF SpliceOf
<1>5. Len(r) = Len(l) - n /\ Len(r) \in Nat
  BY <1>1, <1>2, <1>4
<1>6. \A i \in 1..Len(r) : r[i] = IF i <= a THEN l[i] ELSE l[i + n]
  <2> TAKE i \in 1..Len(r)
  <2>1. a + Len(none) = a /\ i - Len(none) + n = i + n
    BY <1>1, <1>5
  <2> QED BY <1>4, <2>1
<1> DEFINE f == [i \in 1..Len(r) |-> IF i <= a THEN i ELSE i + n]
<1>7. f \in [1..Len(r) -> 1..Len(l)]
  BY <1>2, <1>5
<1>8. \A i \in 1..Len(r) : r[i] = l[f[i]]
  BY <1>6
<1>9. \A i, j \in 1..Len(r) : f[i] = f[j] => i = j
  BY <1>5
<1>10. \A i \in 1..Len(r) : f[i] \notin (a + 1)..(a + n)
  BY <1>5
<1> HIDE DEF f
<1>11. Inj(r)
  <2> SUFFICES ASSUME NEW i \in 1..Len(r), NEW j \in 1..Len(r), r[i] = r[j] PROVE i = j
    BY DEF Inj
  <2>1. l[f[i]] = l[f[j]] /\ f[i] \in 1..Len(l) /\ f[j] \in 1..Len(l)
    BY <1>7, <1>8
  <2>2. f[i] = f[j]
    BY <2>1 DEF Inj
  <2> QED BY <1>9, <2>2
<1>12. ToSet(r) \subseteq ToSet(l)
  <2> SUFFICES ASSUME NEW m \in ToSet(r) PROVE m \in ToSet(l)
    OBVIOUS
  <2>1. PICK i \in 1..Len(r) : r[i] = m
    BY <1>4, Items
  <2>2. f[i] \in 1..Len(l) /\ l[f[i]] = m
    BY <1>7, <1>8, <2>1
  <2> QED BY <2>2, Items
<1>13. ASSUME NEW i \in (a + 1)..(a + n), l[i] \in ToSet(r) PROVE FALSE
  <2>1. PICK k \in 1..Len(r) : r[k] = l[i]
    BY <1>4, <1>13, Items
  <2>2. f[k] \in 1..Len(l) /\ l[f[k]] = l[i] /\ i \in 1..Len(l)
    BY <1>2, <1>7, <1>8, <2>1
  <2>3. f[k] = i
    BY <2>2 DEF Inj
  <2> QED BY <1>10, <2>3
<1> QED BY <1>4, <1>5, <1>11, <1>12, <1>13

\* Putting a new message at the end of a list.
LEMMA InsertList ==
    ASSUME NEW l \in Seq(Msgs), Inj(l), NEW m \in Msgs, m \notin ToSet(l),
           NEW r, r = Splice(l, Len(l), 0, <<m>>)
    PROVE  r \in Seq(Msgs) /\ Inj(r) /\ ToSet(r) \subseteq ToSet(l) \cup {m}
<1>1. PICK one \in Seq(Msgs), a \in Nat, n \in Nat :
         one = <<m>> /\ Len(one) = 1 /\ one[1] = m /\ a = Len(l) /\ n = 0
  <2>1. <<m>> \in Seq(Msgs) /\ Len(<<m>>) = 1 /\ <<m>>[1] = m
    OBVIOUS
  <2>2. Len(l) \in Nat
    BY LenProperties
  <2> QED BY <2>1, <2>2
<1>2. a + n <= Len(l) /\ Len(l) \in Nat
  BY <1>1
<1>3. r = Splice(l, a, n, one)
  BY <1>1
<1>4. /\ r \in Seq(Msgs) /\ Len(r) = a + Len(one) + (Len(l) - (a + n))
      /\ \A i \in 1..Len(r) :
           r[i] = IF i <= a THEN l[i]
                  ELSE IF i <= a + Len(one) THEN one[i - a]
                  ELSE l[i - Len(one) + n]
  <2>1. SpliceOf(r, l, a, n, one)
    BY <1>2, <1>3, SpliceList
  <2> QED BY <2>1 DEF SpliceOf
<1>5. Len(r) = Len(l) + 1
  BY <1>1, <1>2, <1>4
<1>6. \A i \in 1..Len(r) : (i \in 1..Len(l) /\ r[i] = l[i]) \/ (i = Len(l) + 1 /\ r[i] = m)
  <2> TAKE i \in 1..Len(r)
  <2>1. CASE i <= Len(l)
    BY <1>1, <1>2, <1>4, <1>5, <2>1
  <2>2. CASE i = Len(l) + 1
    <3>1. ~(i <= a) /\ i <= a + Len(one) /\ i - a = 1
      BY <1>1, <1>2, <2>2
    <3> QED BY <1>1, <1>4, <2>2, <3>1
  <2> QED BY <1>2, <1>5, <2>1, <2>2
<1>7. \A i \in 1..Len(l) : l[i] # m /\ l[i] \in ToSet(l)
  BY Items
<1>8. Inj(r)
  BY <1>6, <1>7 DEF Inj
<1>9. \A x : x \in ToSet(r) => \E i \in 1..Len(r) : r[i] = x
  BY <1>4, Items
<1>10. ToSet(r) \subseteq ToSet(l) \cup {m}
  BY <1>6, <1>7, <1>9
<1> QED BY <1>4, <1>8, <1>10

LEMMA TargetsAre == Targets = {"next-turn", "next-step"}
  BY DEF Targets

LEMMA PendingAre ==
    ASSUME NEW b
    PROVE  Pending(b) = ToSet(b["next-turn"]) \cup ToSet(b["next-step"])
  BY TargetsAre DEF Pending

\* A splice changes one list; what keeps that list a part of what it was keeps the inbox.
CutFrom(b, tgt, a, n, d) ==
    /\ d \in Box /\ Distinct(d)
    /\ \A u \in Targets : u # tgt => d[u] = b[u]
    /\ Pending(d) \subseteq Pending(b)
    /\ \A i \in (a + 1)..(a + n) : b[tgt][i] \notin Pending(d)

LEMMA CutBox ==
    ASSUME NEW b \in Box, Distinct(b), NEW tgt \in Targets, NEW a \in Nat, NEW n \in Nat,
           a + n <= Len(b[tgt]), NEW canceled,
           NEW d, d = Apply(b, Spliced(tgt, a, n, <<>>, canceled))
    PROVE  CutFrom(b, tgt, a, n, d)
<1>1. PICK l \in Seq(Msgs) : l = b[tgt]
  BY DEF Box
<1>2. PICK r : r = Splice(l, a, n, <<>>)
  OBVIOUS
<1>3. d = [b EXCEPT ![tgt] = r]
  BY <1>1, <1>2 DEF Apply, Spliced, Splice
<1>4. Inj(l) /\ a + n <= Len(l)
  BY <1>1 DEF Distinct
<1>5. /\ r \in Seq(Msgs) /\ Inj(r) /\ Len(r) = Len(l) - n
      /\ ToSet(r) \subseteq ToSet(l)
      /\ \A i \in (a + 1)..(a + n) : l[i] \notin ToSet(r)
  BY <1>2, <1>4, CutList
<1>6. d \in Box /\ d[tgt] = r /\ \A u \in Targets : u # tgt => d[u] = b[u]
  BY <1>3, <1>5 DEF Box
<1>7. \A u \in Targets : ToSet(d[u]) \subseteq ToSet(b[u]) /\ Inj(d[u])
  BY <1>1, <1>5, <1>6 DEF Distinct
<1>8. Distinct(d) /\ Pending(d) \subseteq Pending(b)
  BY <1>7, TargetsAre, PendingAre DEF Distinct
<1>9. ASSUME NEW i \in (a + 1)..(a + n) PROVE l[i] \notin Pending(d)
  <2>1. i \in 1..Len(l)
    <3>1. Len(l) \in Nat
      BY LenProperties
    <3> QED BY <1>4, <3>1
  <2>2. l[i] \in ToSet(b[tgt])
    BY <1>1, <2>1, Items
  <2>3. l[i] \notin ToSet(r)
    BY <1>5
  <2> QED BY <1>6, <2>2, <2>3, TargetsAre, PendingAre DEF Distinct
<1> QED BY <1>1, <1>6, <1>8, <1>9 DEF CutFrom

LEMMA InsertBox ==
    ASSUME NEW b \in Box, Distinct(b), NEW tgt \in Targets, NEW m \in Msgs, m \notin Pending(b),
           NEW d, d = Apply(b, Spliced(tgt, Len(b[tgt]), 0, <<m>>, FALSE))
    PROVE  d \in Box /\ Distinct(d) /\ Pending(d) \subseteq Pending(b) \cup {m}
<1>1. PICK l \in Seq(Msgs) : l = b[tgt]
  BY DEF Box
<1>2. PICK r : r = Splice(l, Len(l), 0, <<m>>)
  OBVIOUS
<1>3. d = [b EXCEPT ![tgt] = r]
  BY <1>1, <1>2 DEF Apply, Spliced, Splice
<1>4. Inj(l) /\ m \notin ToSet(l)
  BY <1>1, TargetsAre, PendingAre DEF Distinct
<1>5. r \in Seq(Msgs) /\ Inj(r) /\ ToSet(r) \subseteq ToSet(l) \cup {m}
  BY <1>2, <1>4, InsertList
<1>6. d \in Box /\ d[tgt] = r /\ \A u \in Targets : u # tgt => d[u] = b[u]
  BY <1>3, <1>5 DEF Box
<1>7. \A u \in Targets :
         Inj(d[u]) /\ ToSet(d[u]) \subseteq ToSet(b[u]) \cup (IF u = tgt THEN {m} ELSE {})
  BY <1>1, <1>5, <1>6 DEF Distinct
<1>8. m \notin ToSet(b["next-turn"]) /\ m \notin ToSet(b["next-step"])
  BY PendingAre
<1>9. Distinct(d) /\ Pending(d) \subseteq Pending(b) \cup {m}
  BY <1>7, <1>8, TargetsAre, PendingAre DEF Distinct
<1> QED BY <1>6, <1>9

----------------------------------------------------------------------------
(* One event more: what each kind of event does to a log that is in order. *)

LogOK(s, S) == GoodLog(s) /\ GoodInbox(s, S)

\* What is left alone by events other than boundaries and messages.
Same(s, t) ==
    /\ LogCursor(t) = LogCursor(s)
    /\ \A u, n : Has(t, StepStart(u, n)) <=> Has(s, StepStart(u, n))
    /\ \A m : Has(t, UserMessage(m)) <=> Has(s, UserMessage(m))

LEMMA EventsAre ==
    /\ \A t \in Nat : TurnStart(t) \in Event
    /\ \A t \in Nat, r \in Reasons : TurnEnd(t, r) \in Event
    /\ \A t, n \in Nat : StepStart(t, n) \in Event /\ StepEnd(t, n) \in Event
    /\ \A m \in Msgs \cup {CTX} : UserMessage(m) \in Event
    /\ \A tgt \in Targets, a, n \in Nat, ins \in Seq(Msgs), can \in BOOLEAN :
         Spliced(tgt, a, n, ins, can) \in Event
<1>1. \A tgt \in Targets, a, n \in Nat, ins \in Seq(Msgs), can \in BOOLEAN :
         Spliced(tgt, a, n, ins, can) \in
           {Spliced(tg, start, removed, inserted, canceled) :
              tg \in Targets, start, removed \in Nat, inserted \in Seq(Msgs), canceled \in BOOLEAN}
  OBVIOUS
<1> QED BY <1>1 DEF Event

LEMMA TypesAre ==
    /\ \A t : TurnStart(t).type = "turn/start" /\ TurnStart(t).turn = t
    /\ \A t, r : TurnEnd(t, r).type = "turn/end" /\ TurnEnd(t, r).turn = t
    /\ \A t, n : /\ StepStart(t, n).type = "step/start" /\ StepStart(t, n).turn = t
                 /\ StepStart(t, n).step = n
    /\ \A t, n : StepEnd(t, n).type = "step/end" /\ StepEnd(t, n).turn = t /\ StepEnd(t, n).step = n
    /\ \A m : UserMessage(m).type = "user/message" /\ UserMessage(m).msg = m
    /\ \A tgt, a, n, ins, can : Spliced(tgt, a, n, ins, can).type = "spliced"
  BY DEF TurnStart, TurnEnd, StepStart, StepEnd, UserMessage, Spliced

LEMMA AddSplice ==
    ASSUME NEW s, NEW S, LogOK(s, S), NEW T, S \subseteq T,
           NEW e \in Event, e.type = "spliced",
           NEW b \in Box, b = Apply(Replay(s), e), Distinct(b),
           \A m \in Msgs : m \in Pending(b) => m \in T /\ ~Has(s, UserMessage(m))
    PROVE  /\ LogOK(Append(s, e), T)
           /\ Same(s, Append(s, e)) /\ Replay(Append(s, e)) = b
<1>1. GoodLog(s) /\ GoodInbox(s, S)
  BY DEF LogOK
<1>2. Fits(s, e)
  BY DEF Fits
<1>3. /\ GoodLog(Append(s, e))
      /\ LogCursor(Append(s, e)) = Moved(LogCursor(s), e)
      /\ \A x : Has(Append(s, e), x) <=> Has(s, x) \/ x = e
  BY <1>1, <1>2, AddEvent
<1>4. /\ \A m : e # UserMessage(m)
      /\ \A u, n : e # StepStart(u, n)
  BY TypesAre
<1>5. GoodInbox(Append(s, e), T) /\ Replay(Append(s, e)) = b
  <2>1. b = Applied(Replay(s), e)
    BY DEF Applied
  <2>2. \A m \in Msgs : m \in Pending(b) => m \in T /\ ~Has(s, UserMessage(m)) /\ e # UserMessage(m)
    BY <1>4
  <2> QED BY <1>1, <1>4, <2>1, <2>2, AddInbox
<1>6. Moved(LogCursor(s), e) = LogCursor(s)
  BY DEF Moved
<1> QED BY <1>3, <1>4, <1>5, <1>6 DEF LogOK, Same

\* A boundary of a turn or of a step.
LEMMA AddMark ==
    ASSUME NEW s, NEW S, LogOK(s, S),
           NEW e \in Event, e.type \in {"turn/start", "turn/end", "step/start", "step/end"},
           Fits(s, e)
    PROVE  /\ LogOK(Append(s, e), S)
           /\ LogCursor(Append(s, e)) = Moved(LogCursor(s), e)
           /\ \A x : Has(Append(s, e), x) <=> Has(s, x) \/ x = e
           /\ Replay(Append(s, e)) = Replay(s)
<1>1. GoodLog(s) /\ GoodInbox(s, S)
  BY DEF LogOK
<1>2. /\ GoodLog(Append(s, e))
      /\ LogCursor(Append(s, e)) = Moved(LogCursor(s), e)
      /\ \A x : Has(Append(s, e), x) <=> Has(s, x) \/ x = e
  BY <1>1, AddEvent
<1>3. PICK b : b = Replay(s)
  OBVIOUS
<1>4. b \in Box /\ Distinct(b) /\ \A m \in Msgs : m \in Pending(b) => m \in S /\ ~Has(s, UserMessage(m))
  BY <1>1, <1>3, LastProjection
<1>5. \A m : e # UserMessage(m)
  BY TypesAre
<1>6. GoodInbox(Append(s, e), S) /\ Replay(Append(s, e)) = b
  <2>1. b = Applied(Replay(s), e)
    BY <1>3 DEF Applied
  <2>2. \A m \in Msgs : m \in Pending(b) => m \in S /\ ~Has(s, UserMessage(m)) /\ e # UserMessage(m)
    BY <1>4, <1>5
  <2> QED BY <1>1, <1>4, <1>5, <2>1, <2>2, AddInbox
<1> QED BY <1>2, <1>3, <1>6 DEF LogOK

\* A message entering the transcript.
LEMMA AddUser ==
    ASSUME NEW s, NEW S, LogOK(s, S), NEW m \in Msgs \cup {CTX}, LogCursor(s).step # 0,
           m \in Msgs => m \in S /\ m \notin Pending(Replay(s)) /\ ~Has(s, UserMessage(m))
    PROVE  /\ LogOK(Append(s, UserMessage(m)), S)
           /\ LogCursor(Append(s, UserMessage(m))) = LogCursor(s)
           /\ \A x : Has(Append(s, UserMessage(m)), x) <=> Has(s, x) \/ x = UserMessage(m)
           /\ Replay(Append(s, UserMessage(m))) = Replay(s)
<1>0. PICK e \in Event : e = UserMessage(m) /\ e.type = "user/message"
  BY EventsAre, TypesAre
<1>1. GoodLog(s) /\ GoodInbox(s, S)
  BY DEF LogOK
<1>2. Fits(s, e)
  BY <1>0 DEF Fits
<1>3. /\ GoodLog(Append(s, e))
      /\ LogCursor(Append(s, e)) = Moved(LogCursor(s), e)
      /\ \A x : Has(Append(s, e), x) <=> Has(s, x) \/ x = e
  BY <1>1, <1>2, AddEvent
<1>4. PICK b : b = Replay(s)
  OBVIOUS
<1>5. b \in Box /\ Distinct(b) /\ \A x \in Msgs : x \in Pending(b) => x \in S /\ ~Has(s, UserMessage(x))
  BY <1>1, <1>4, LastProjection
<1>6. \A x : e = UserMessage(x) => x = m
  <2>1. e.msg = m
    BY <1>0, TypesAre
  <2>2. \A x : UserMessage(x).msg = x
    BY TypesAre
  <2> QED BY <2>1, <2>2
<1>7. GoodInbox(Append(s, e), S) /\ Replay(Append(s, e)) = b
  <2>1. b = Applied(Replay(s), e)
    BY <1>0, <1>4 DEF Applied
  <2>2. \A x \in Msgs : x \in Pending(b) => x \in S /\ ~Has(s, UserMessage(x)) /\ e # UserMessage(x)
    BY <1>4, <1>5, <1>6
  <2>3. \A x \in Msgs : e = UserMessage(x) => x \in S /\ ~Has(s, UserMessage(x))
    BY <1>6
  <2> QED BY <1>1, <1>5, <2>1, <2>2, <2>3, AddInbox
<1>8. Moved(LogCursor(s), e) = LogCursor(s)
  BY <1>0 DEF Moved
<1> QED BY <1>0, <1>3, <1>4, <1>7, <1>8 DEF LogOK

----------------------------------------------------------------------------
(* The batches of events an operation logs at once. *)

\* The event of send().
Insertion(box, tgt, m) == Spliced(tgt, Len(box[tgt]), 0, <<m>>, FALSE)

LEMMA SendLog ==
    ASSUME NEW s, NEW S, LogOK(s, S), NEW m \in Msgs \ S, NEW tgt \in Targets,
           NEW T, T = S \cup {m},
           NEW e, e = Insertion(Replay(s), tgt, m)
    PROVE  /\ e \in Event
           /\ LogOK(Append(s, e), T) /\ Same(s, Append(s, e))
           /\ Pending(Replay(Append(s, e))) \subseteq Pending(Replay(s)) \cup {m}
<1>1. PICK b \in Box : /\ b = Replay(s) /\ Distinct(b)
                       /\ \A x \in Msgs : x \in Pending(b) => x \in S /\ ~Has(s, UserMessage(x))
  BY LastProjection DEF LogOK
<1>2. e \in Event /\ e.type = "spliced"
  <2>1. Len(b[tgt]) \in Nat
    BY LenProperties DEF Box
  <2>a. PICK a \in Nat, n \in Nat : a = Len(b[tgt]) /\ n = 0
    BY <2>1
  <2>b. PICK one \in Seq(Msgs) : one = <<m>>
    <3>1. <<m>> \in Seq(Msgs)
      OBVIOUS
    <3> QED BY <3>1
  <2>c. PICK no \in BOOLEAN : no = FALSE
    OBVIOUS
  <2>3. e = Spliced(tgt, a, n, one, no)
    BY <1>1, <2>a, <2>b, <2>c DEF Insertion
  <2>4. Spliced(tgt, a, n, one, no) \in Event /\ Spliced(tgt, a, n, one, no).type = "spliced"
    BY EventsAre, TypesAre
  <2> QED BY <2>3, <2>4
<1>3. m \notin Pending(b)
  BY <1>1
<1>4. PICK d : d = Apply(b, e)
  OBVIOUS
<1>5. d \in Box /\ Distinct(d) /\ Pending(d) \subseteq Pending(b) \cup {m}
  BY <1>1, <1>3, <1>4, InsertBox DEF Insertion
<1>6. ~Has(s, UserMessage(m))
  BY DEF LogOK, GoodInbox
<1>8. \A x \in Msgs : x \in Pending(d) => x \in T /\ ~Has(s, UserMessage(x))
  BY <1>1, <1>5, <1>6
<1>9. d = Apply(Replay(s), e) /\ S \subseteq T
  BY <1>1, <1>4
<1>10. /\ LogOK(Append(s, e), T)
       /\ Same(s, Append(s, e)) /\ Replay(Append(s, e)) = d
  BY <1>2, <1>5, <1>8, <1>9, AddSplice
<1> QED BY <1>1, <1>2, <1>5, <1>10

\* A stretch of one list is taken out of the inbox.
LEMMA CutLog ==
    ASSUME NEW s, NEW S, LogOK(s, S), NEW tgt \in Targets, NEW a \in Nat, NEW n \in Nat,
           a + n <= Len(Replay(s)[tgt]), NEW can \in BOOLEAN,
           NEW e, e = Spliced(tgt, a, n, <<>>, can)
    PROVE  /\ e \in Event
           /\ LogOK(Append(s, e), S) /\ Same(s, Append(s, e))
           /\ Pending(Replay(Append(s, e))) \subseteq Pending(Replay(s))
           /\ \A u \in Targets : u # tgt => Replay(Append(s, e))[u] = Replay(s)[u]
           /\ \A i \in (a + 1)..(a + n) : Replay(s)[tgt][i] \notin Pending(Replay(Append(s, e)))
<1>1. PICK b \in Box : /\ b = Replay(s) /\ Distinct(b)
                       /\ \A x \in Msgs : x \in Pending(b) => x \in S /\ ~Has(s, UserMessage(x))
  BY LastProjection DEF LogOK
<1>2. e \in Event /\ e.type = "spliced"
  <2>1. PICK none \in Seq(Msgs) : none = <<>>
    BY EmptySeq
  <2>2. Spliced(tgt, a, n, none, can) \in Event /\ Spliced(tgt, a, n, none, can).type = "spliced"
    BY EventsAre, TypesAre
  <2> QED BY <2>1, <2>2
<1>3. PICK d : d = Apply(b, e)
  OBVIOUS
<1>4. /\ d \in Box /\ Distinct(d)
      /\ \A u \in Targets : u # tgt => d[u] = b[u]
      /\ Pending(d) \subseteq Pending(b)
      /\ \A i \in (a + 1)..(a + n) : b[tgt][i] \notin Pending(d)
  <2>1. Distinct(b) /\ a + n <= Len(b[tgt])
    BY <1>1
  <2>2. d = Apply(b, Spliced(tgt, a, n, <<>>, can))
    BY <1>3
  <2>3. CutFrom(b, tgt, a, n, d)
    BY <2>1, <2>2, CutBox
  <2> QED BY <2>3 DEF CutFrom
<1>5. \A x \in Msgs : x \in Pending(d) => x \in S /\ ~Has(s, UserMessage(x))
  BY <1>1, <1>4
<1>6. d = Apply(Replay(s), e) /\ S \subseteq S
  BY <1>1, <1>3
<1>7. /\ LogOK(Append(s, e), S)
      /\ Same(s, Append(s, e)) /\ Replay(Append(s, e)) = d
  BY <1>2, <1>4, <1>5, <1>6, AddSplice
<1> QED BY <1>1, <1>2, <1>4, <1>7

LEMMA RemoveLog ==
    ASSUME NEW s, NEW S, LogOK(s, S), NEW m \in Pending(Replay(s)),
           NEW e, e = RemoveEvent(Replay(s), m)
    PROVE  /\ e \in Event
           /\ LogOK(Append(s, e), S) /\ Same(s, Append(s, e))
           /\ Pending(Replay(Append(s, e))) \subseteq Pending(Replay(s))
<1>1. PICK b \in Box : b = Replay(s)
  BY LastProjection DEF LogOK
<1>2. PICK tgt : tgt = CHOOSE t \in Targets : m \in ToSet(b[t])
  OBVIOUS
<1>3. tgt \in Targets /\ m \in ToSet(b[tgt])
  <2>1. \E t \in Targets : m \in ToSet(b[t])
    BY <1>1 DEF Pending
  <2> QED BY <1>2, <2>1
<1>4. PICK l \in Seq(Msgs) : l = b[tgt] /\ DOMAIN l = 1..Len(l) /\ Len(l) \in Nat
  BY <1>3, LenProperties DEF Box
<1>5. PICK at : at = CHOOSE i \in DOMAIN l : l[i] = m
  OBVIOUS
<1>6. at \in 1..Len(l)
  <2>1. \E i \in 1..Len(l) : l[i] = m
    BY <1>3, <1>4, Items
  <2> QED BY <1>4, <1>5, <2>1
<1>7. PICK a \in Nat, n \in Nat : a = at - 1 /\ n = 1
  <2>1. at - 1 \in Nat /\ 1 \in Nat
    BY <1>4, <1>6
  <2> QED BY <2>1
<1>c. PICK can \in BOOLEAN : can = TRUE
  OBVIOUS
<1>8. e = Spliced(tgt, a, n, <<>>, can)
  BY <1>1, <1>2, <1>4, <1>5, <1>7, <1>c DEF RemoveEvent
<1>9. a + n <= Len(Replay(s)[tgt])
  BY <1>1, <1>4, <1>6, <1>7
<1> QED BY <1>3, <1>8, <1>9, CutLog

\* mutate() on the front of one list: the log t is the log s with the events of the removal.
Dropped(s, S, tgt, count, ev, t) ==
    /\ ev \in Seq(Event) /\ LogOK(t, S) /\ Same(s, t)
    /\ Pending(Replay(t)) \subseteq Pending(Replay(s))
    /\ \A u \in Targets : u # tgt => Replay(t)[u] = Replay(s)[u]
    /\ \A i \in 1..Len(Replay(s)[tgt]) :
         i <= count => Replay(s)[tgt][i] \notin Pending(Replay(t))

LEMMA DropFront ==
    ASSUME NEW s, NEW S, LogOK(s, S), NEW tgt \in Targets, NEW count \in Nat, NEW can \in BOOLEAN,
           NEW ev, ev = Removal(Replay(s), tgt, count, can), NEW t, t = s \o ev
    PROVE  Dropped(s, S, tgt, count, ev, t)
<1>1. PICK b \in Box : b = Replay(s)
  BY LastProjection DEF LogOK
<1>2. Len(b[tgt]) \in Nat
  BY LenProperties DEF Box
<1>3. s \in Seq(Event)
  BY DEF LogOK, GoodLog
<1>4. PICK n \in Nat : n = IF count < Len(b[tgt]) THEN count ELSE Len(b[tgt])
  BY <1>2
<1>5. ev = IF n = 0 THEN <<>> ELSE <<Spliced(tgt, 0, n, <<>>, can)>>
  BY <1>1, <1>4 DEF Removal
<1>6. CASE n = 0
  <2>1. t = s
    BY <1>3, <1>5, <1>6, ConcatEmptySeq
  <2>2. \A i \in 1..Len(b[tgt]) : ~(i <= count)
    BY <1>2, <1>4, <1>6
  <2>3. ev \in Seq(Event)
    BY <1>5, <1>6
  <2> QED BY <1>1, <2>1, <2>2, <2>3 DEF Same, Dropped
<1>7. CASE n # 0
  <2>1. PICK a \in Nat : a = 0
    OBVIOUS
  <2>2. PICK e : e = Spliced(tgt, a, n, <<>>, can)
    OBVIOUS
  <2>3. a + n <= Len(Replay(s)[tgt])
    BY <1>1, <1>2, <1>4, <2>1
  <2>4. /\ e \in Event
        /\ LogOK(Append(s, e), S) /\ Same(s, Append(s, e))
        /\ Pending(Replay(Append(s, e))) \subseteq Pending(Replay(s))
        /\ \A u \in Targets : u # tgt => Replay(Append(s, e))[u] = Replay(s)[u]
        /\ \A i \in (a + 1)..(a + n) : Replay(s)[tgt][i] \notin Pending(Replay(Append(s, e)))
    BY <2>2, <2>3, CutLog
  <2>5. ev = <<e>>
    BY <1>5, <1>7, <2>1, <2>2
  <2>6. t = Append(s, e)
    BY <1>3, <2>4, <2>5, AppendIsConcat
  <2>7. \A i \in 1..Len(b[tgt]) : i <= count => i \in (a + 1)..(a + n)
    BY <1>2, <1>4, <2>1
  <2>8. ev \in Seq(Event)
    BY <2>4, <2>5
  <2> QED BY <1>1, <2>4, <2>6, <2>7, <2>8 DEF Dropped
<1> QED BY <1>6, <1>7

LEMMA SameTwice ==
    ASSUME NEW s, NEW t, NEW u, Same(s, t), Same(t, u)
    PROVE  Same(s, u)
  BY DEF Same

\* Inbox.clear.
LEMMA ClearLog ==
    ASSUME NEW s, NEW S, LogOK(s, S), NEW ev, ev = ClearEvents(Replay(s)), NEW t, t = s \o ev
    PROVE  /\ ev \in Seq(Event) /\ LogOK(t, S) /\ Same(s, t)
           /\ Pending(Replay(t)) \subseteq Pending(Replay(s))
<1>1. PICK b \in Box : b = Replay(s)
  BY LastProjection DEF LogOK
<1>2. PICK p \in Nat, q \in Nat, can \in BOOLEAN :
        p = Len(b["next-step"]) /\ q = Len(b["next-turn"]) /\ can = TRUE
  BY LenProperties, TargetsAre DEF Box
<1>t. PICK ns \in Targets, nt \in Targets : ns = "next-step" /\ nt = "next-turn"
  BY TargetsAre
<1>3. PICK v, w : v = Removal(b, ns, p, can) /\ w = Removal(b, nt, q, can)
  OBVIOUS
<1>4. PICK r : r = s \o v
  OBVIOUS
<1>5. /\ v \in Seq(Event) /\ LogOK(r, S) /\ Same(s, r)
      /\ Pending(Replay(r)) \subseteq Pending(Replay(s))
      /\ \A u \in Targets : u # ns => Replay(r)[u] = Replay(s)[u]
  <2>1. v = Removal(Replay(s), ns, p, can)
    BY <1>1, <1>3
  <2>2. Dropped(s, S, ns, p, v, r)
    BY <1>4, <2>1, DropFront
  <2> QED BY <2>2 DEF Dropped
<1>6. w = Removal(Replay(r), nt, q, can)
  <2>1. Replay(r)[nt] = b[nt]
    BY <1>1, <1>t, <1>5
  <2> QED BY <1>3, <2>1 DEF Removal
<1>7. PICK x : x = r \o w
  OBVIOUS
<1>8. /\ w \in Seq(Event) /\ LogOK(x, S) /\ Same(r, x)
      /\ Pending(Replay(x)) \subseteq Pending(Replay(r))
  <2>1. LogOK(r, S)
    BY <1>5
  <2>2. Dropped(r, S, nt, q, w, x)
    BY <1>6, <1>7, <2>1, DropFront
  <2> QED BY <2>2 DEF Dropped
<1>9. ev = v \o w
  BY <1>1, <1>2, <1>t, <1>3 DEF ClearEvents
<1>10. s \in Seq(Event)
  BY DEF LogOK, GoodLog
<1>11. ev \in Seq(Event) /\ x = t
  BY <1>4, <1>5, <1>7, <1>8, <1>9, <1>10, ConcatAssociative, ConcatProperties
<1> QED BY <1>5, <1>8, <1>11, SameTwice

\* Inbox.claim: the batch leaves the inbox with the events of the claim.
ClaimedFrom(s, S, ev, t, batch) ==
    /\ ev \in Seq(Event) /\ LogOK(t, S) /\ Same(s, t)
    /\ batch \in Seq(Msgs) /\ Inj(batch)
    /\ \A i \in 1..Len(batch) :
         batch[i] \in Pending(Replay(s)) /\ batch[i] \notin Pending(Replay(t))

LEMMA ClaimLog ==
    ASSUME NEW s, NEW S, LogOK(s, S), NEW tgt \in Targets,
           NEW ev, ev = ClaimEvents(Replay(s), tgt), NEW t, t = s \o ev,
           NEW batch, batch = ClaimBatch(Replay(s), tgt)
    PROVE  ClaimedFrom(s, S, ev, t, batch)
<1>1. PICK b \in Box : b = Replay(s) /\ Distinct(b)
  BY LastProjection DEF LogOK
<1>t. PICK ns \in Targets, nt \in Targets : ns = "next-step" /\ nt = "next-turn"
  BY TargetsAre
<1>l. PICK l \in Seq(Msgs), h \in Seq(Msgs) : l = b[ns] /\ h = b[nt]
  BY DEF Box
<1>n. /\ Len(l) \in Nat /\ Len(h) \in Nat
      /\ \A i \in 1..Len(l) : l[i] \in Msgs /\ l[i] \in Pending(b) /\ l[i] \in ToSet(l)
      /\ \A i \in 1..Len(h) : h[i] \in Msgs /\ h[i] \in Pending(b) /\ h[i] \in ToSet(h)
  BY <1>t, <1>l, Items, PendingAre, ElementOfSeq
<1>d. Inj(l) /\ Inj(h) /\ ToSet(h) \cap ToSet(l) = {}
  BY <1>1, <1>t, <1>l DEF Distinct
<1>2. PICK p \in Nat, q \in Nat : p = Len(l) /\ q = 1
  BY <1>n
<1>c. PICK can \in BOOLEAN : can = FALSE
  OBVIOUS
<1>3. PICK v, w : v = Removal(b, ns, p, can) /\ w = Removal(b, nt, q, can)
  OBVIOUS
<1>4. PICK r : r = s \o v
  OBVIOUS
<1>s. s \in Seq(Event)
  BY DEF LogOK, GoodLog
<1>5. /\ v \in Seq(Event) /\ LogOK(r, S) /\ Same(s, r)
      /\ Pending(Replay(r)) \subseteq Pending(Replay(s))
      /\ \A u \in Targets : u # ns => Replay(r)[u] = Replay(s)[u]
      /\ \A i \in 1..Len(l) : l[i] \notin Pending(Replay(r))
  <2>1. v = Removal(Replay(s), ns, p, can)
    BY <1>1, <1>3
  <2>2. Dropped(s, S, ns, p, v, r)
    BY <1>4, <2>1, DropFront
  <2>3. \A i \in 1..Len(l) : i <= p
    BY <1>n, <1>2
  <2> QED BY <1>1, <1>l, <2>2, <2>3 DEF Dropped
<1>6. CASE ~(tgt = "next-turn" /\ h # <<>>)
  <2>1. batch = l
    <3>1. batch = l \o <<>>
      BY <1>1, <1>t, <1>l, <1>6 DEF ClaimBatch
    <3> QED BY <3>1, ConcatEmptySeq
  <2>2. ev = v
    <3>1. tgt = "next-turn" => w = <<>>
      <4>1. tgt = "next-turn" => Len(h) = 0
        BY <1>6, EmptySeq
      <4> QED BY <1>n, <1>l, <1>2, <1>3, <4>1 DEF Removal
    <3>2. ev = v \o <<>>
      BY <1>1, <1>t, <1>l, <1>2, <1>c, <1>3, <3>1 DEF ClaimEvents
    <3> QED BY <1>5, <3>2, ConcatEmptySeq
  <2> QED BY <1>1, <1>n, <1>d, <1>4, <1>5, <2>1, <2>2 DEF ClaimedFrom
<1>7. CASE tgt = "next-turn" /\ h # <<>>
  <2>1. 1 \in 1..Len(h) /\ Head(h) = h[1]
    BY <1>n, <1>7, EmptySeq, HeadTailProperties
  <2>2. PICK x \in Msgs : x = h[1] /\ x \in Pending(b) /\ x \notin ToSet(l)
    BY <1>n, <1>d, <2>1
  <2>3. batch = l \o <<x>>
    BY <1>1, <1>t, <1>l, <1>7, <2>1, <2>2 DEF ClaimBatch
  <2>4. batch = Append(l, x)
    BY <2>3, AppendIsConcat
  <2>5. /\ batch \in Seq(Msgs) /\ Len(batch) = Len(l) + 1
        /\ \A i \in 1..Len(l) : batch[i] = l[i]
        /\ batch[Len(l) + 1] = x
    BY <2>4, AppendProperties
  <2>6. \A i \in 1..Len(batch) : i \in 1..Len(l) \/ i = Len(l) + 1
    BY <1>n, <2>5
  <2>7. Inj(batch)
    BY <1>n, <1>d, <2>2, <2>5, <2>6 DEF Inj
  <2>8. w = Removal(Replay(r), nt, q, can)
    <3>1. Replay(r)[nt] = b[nt]
      BY <1>1, <1>t, <1>5
    <3> QED BY <1>3, <3>1 DEF Removal
  <2>9. PICK y : y = r \o w
    OBVIOUS
  <2>10. /\ w \in Seq(Event) /\ LogOK(y, S) /\ Same(r, y)
         /\ Pending(Replay(y)) \subseteq Pending(Replay(r))
         /\ x \notin Pending(Replay(y))
    <3>1. LogOK(r, S)
      BY <1>5
    <3>2. Dropped(r, S, nt, q, w, y)
      BY <2>8, <2>9, <3>1, DropFront
    <3>3. Replay(r)[nt] = h /\ 1 \in 1..Len(h) /\ 1 <= q
      BY <1>1, <1>t, <1>l, <1>2, <1>5, <2>1
    <3> QED BY <2>2, <3>2, <3>3 DEF Dropped
  <2>11. ev = v \o w
    BY <1>1, <1>t, <1>l, <1>2, <1>c, <1>3, <1>7 DEF ClaimEvents
  <2>12. ev \in Seq(Event) /\ y = t
    BY <1>s, <1>4, <1>5, <2>9, <2>10, <2>11, ConcatAssociative, ConcatProperties
  <2>13. ASSUME NEW i \in 1..Len(batch)
         PROVE  batch[i] \in Pending(Replay(s)) /\ batch[i] \notin Pending(Replay(t))
    <3>1. CASE i \in 1..Len(l)
      BY <1>1, <1>n, <1>5, <2>5, <2>10, <2>12, <3>1
    <3>2. CASE i = Len(l) + 1
      BY <1>1, <2>2, <2>5, <2>10, <2>12, <3>2
    <3> QED BY <2>6, <3>1, <3>2
  <2>14. Same(s, t) /\ LogOK(t, S)
    BY <1>5, <2>10, <2>12, SameTwice
  <2> QED BY <2>5, <2>7, <2>12, <2>13, <2>14 DEF ClaimedFrom
<1> QED BY <1>6, <1>7

\* The claimed batch enters the transcript, message by message.
Entered(s, S, ms, t) ==
    /\ LogOK(t, S) /\ LogCursor(t) = LogCursor(s) /\ Replay(t) = Replay(s)
    /\ \A u, n : Has(t, StepStart(u, n)) <=> Has(s, StepStart(u, n))
    /\ \A m : Has(t, UserMessage(m)) => Has(s, UserMessage(m)) \/ \E i \in 1..Len(ms) : ms[i] = m

LEMMA AddUsers ==
    ASSUME NEW s, NEW S, LogOK(s, S), LogCursor(s).step # 0,
           NEW ms \in Seq(Msgs \cup {CTX}), Inj(ms),
           \A i \in 1..Len(ms) : ms[i] \in Msgs =>
             ms[i] \in S /\ ms[i] \notin Pending(Replay(s)) /\ ~Has(s, UserMessage(ms[i])),
           NEW ev, ev = [i \in DOMAIN ms |-> UserMessage(ms[i])], NEW t, t = s \o ev
    PROVE  ev \in Seq(Event) /\ Entered(s, S, ms, t)
<1>1. s \in Seq(Event)
  BY DEF LogOK, GoodLog
<1>2. /\ Len(ms) \in Nat /\ DOMAIN ms = 1..Len(ms)
      /\ \A i \in 1..Len(ms) : ms[i] \in Msgs \cup {CTX}
  BY LenProperties, ElementOfSeq
<1>3. \A i \in 1..Len(ms) : UserMessage(ms[i]) \in Event
  BY <1>2, EventsAre
<1> DEFINE pre(n) == [i \in 1..n |-> UserMessage(ms[i])]
           Good(n) ==
             /\ LogOK(s \o pre(n), S) /\ LogCursor(s \o pre(n)) = LogCursor(s)
             /\ Replay(s \o pre(n)) = Replay(s)
             /\ \A u, k : Has(s \o pre(n), StepStart(u, k)) <=> Has(s, StepStart(u, k))
             /\ \A m : Has(s \o pre(n), UserMessage(m)) =>
                  Has(s, UserMessage(m)) \/ \E i \in 1..n : ms[i] = m
           bad == {n \in 0..Len(ms) : ~Good(n)}
<1>4. \A n \in 0..Len(ms) : pre(n) \in Seq(Event) /\ Len(pre(n)) = n
  <2> TAKE n \in 0..Len(ms)
  <2>1. \A i \in 1..n : i \in 1..Len(ms)
    BY <1>2
  <2>2. n \in Nat
    BY <1>2
  <2>3. pre(n) \in [1..n -> Event]
    BY <1>3, <2>1
  <2> HIDE DEF pre
  <2> QED BY <2>2, <2>3, SeqDef, LenProperties
<1>5. Good(0)
  <2>1. pre(0) = <<>>
    <3>1. 0 \in 0..Len(ms)
      BY <1>2
    <3>2. pre(0) \in Seq(Event) /\ Len(pre(0)) = 0
      BY <1>4, <3>1
    <3> HIDE DEF pre
    <3> QED BY <3>2, EmptySeq
  <2>2. s \o pre(0) = s
    BY <1>1, <2>1, ConcatEmptySeq
  <2> HIDE DEF pre
  <2> QED BY <2>2
<1>6. ASSUME NEW n \in Nat, n + 1 <= Len(ms), Good(n) PROVE Good(n + 1)
  <2>1. n + 1 \in 1..Len(ms) /\ n \in 0..Len(ms) /\ n + 1 \in 0..Len(ms)
    BY <1>2, <1>6
  <2>2. PICK m \in Msgs \cup {CTX} : m = ms[n + 1]
    BY <1>2, <2>1
  <2>3. pre(n + 1) = Append(pre(n), UserMessage(m))
    <3>1. /\ pre(n) \in Seq(Event) /\ Len(pre(n)) = n /\ UserMessage(m) \in Event
          /\ pre(n + 1) \in Seq(Event) /\ Len(pre(n + 1)) = n + 1
      BY <1>3, <1>4, <2>1, <2>2
    <3>2. \A i \in 1..n : pre(n)[i] = UserMessage(ms[i])
      OBVIOUS
    <3>3. \A i \in 1..(n + 1) : pre(n + 1)[i] = UserMessage(ms[i])
      OBVIOUS
    <3> HIDE DEF pre
    <3>4. PICK x, y : x = pre(n) /\ y = pre(n + 1)
      OBVIOUS
    <3>5. PICK z : z = Append(x, UserMessage(m))
      OBVIOUS
    <3>6. /\ z \in Seq(Event) /\ Len(z) = n + 1
          /\ \A i \in 1..n : z[i] = x[i]
          /\ z[n + 1] = UserMessage(m)
      BY <3>1, <3>4, <3>5, AppendProperties
    <3>7. \A i \in 1..(n + 1) : i \in 1..n \/ i = n + 1
      OBVIOUS
    <3>8. n + 1 \in 1..(n + 1) /\ \A i \in 1..n : i \in 1..(n + 1)
      OBVIOUS
    <3>9. \A i \in 1..(n + 1) : z[i] = y[i]
      BY <2>2, <3>2, <3>3, <3>4, <3>6, <3>7, <3>8
    <3>10. y \in Seq(Event) /\ Len(y) = n + 1
      BY <3>1, <3>4
    <3>11. z = y
      BY <3>6, <3>9, <3>10, SeqEqual
    <3> QED BY <3>4, <3>5, <3>11
  <2>4. s \o pre(n + 1) = Append(s \o pre(n), UserMessage(m))
    <3>1. PICK x \in Seq(Event) : x = pre(n)
      BY <1>4, <2>1
    <3>2. PICK e \in Event : e = UserMessage(m)
      BY EventsAre
    <3>3. pre(n + 1) = x \o <<e>> /\ s \o x \in Seq(Event)
      BY <1>1, <2>3, <3>1, <3>2, AppendIsConcat, ConcatProperties
    <3>4. <<e>> \in Seq(Event)
      OBVIOUS
    <3>5. s \o (x \o <<e>>) = (s \o x) \o <<e>>
      BY <1>1, <3>4, ConcatAssociative
    <3>6. Append(s \o x, e) = (s \o x) \o <<e>>
      BY <3>3, AppendIsConcat
    <3> HIDE DEF pre
    <3> QED BY <3>1, <3>2, <3>3, <3>5, <3>6
  <2>5. PICK r : r = s \o pre(n)
    OBVIOUS
  <2>6. /\ LogOK(r, S) /\ LogCursor(r) = LogCursor(s) /\ Replay(r) = Replay(s)
        /\ \A u, k : Has(r, StepStart(u, k)) <=> Has(s, StepStart(u, k))
        /\ \A x : Has(r, UserMessage(x)) => Has(s, UserMessage(x)) \/ \E i \in 1..n : ms[i] = x
    BY <1>6, <2>5
  <2> HIDE DEF pre
  <2>7. m \in Msgs => m \in S /\ m \notin Pending(Replay(r)) /\ ~Has(r, UserMessage(m))
    <3>1. \A i \in 1..n : i \in 1..Len(ms) /\ i # n + 1
      BY <1>2, <1>6
    <3>2. \A i \in 1..n : ms[i] # m
      BY <2>1, <2>2, <3>1 DEF Inj
    <3> QED BY <2>1, <2>2, <2>6, <3>2
  <2>8. /\ LogOK(Append(r, UserMessage(m)), S)
        /\ LogCursor(Append(r, UserMessage(m))) = LogCursor(r)
        /\ \A x : Has(Append(r, UserMessage(m)), x) <=> Has(r, x) \/ x = UserMessage(m)
        /\ Replay(Append(r, UserMessage(m))) = Replay(r)
    <3>1. LogOK(r, S) /\ LogCursor(r).step # 0
      BY <2>6
    <3> QED BY <2>7, <3>1, AddUser
  <2>9. PICK y : y = s \o pre(n + 1) /\ y = Append(r, UserMessage(m))
    BY <2>4, <2>5
  <2>10. \A u, k : StepStart(u, k) # UserMessage(m)
    BY TypesAre
  <2>11. \A x : UserMessage(x) = UserMessage(m) => x = m
    <3>1. \A x : UserMessage(x).msg = x
      BY TypesAre
    <3> QED BY <3>1
  <2>12. \A i \in 1..n : i \in 1..(n + 1)
    OBVIOUS
  <2>13. n + 1 \in 1..(n + 1)
    OBVIOUS
  <2>14. /\ LogOK(y, S) /\ LogCursor(y) = LogCursor(s) /\ Replay(y) = Replay(s)
         /\ \A u, k : Has(y, StepStart(u, k)) <=> Has(s, StepStart(u, k))
    BY <2>6, <2>8, <2>9, <2>10
  <2>15. \A x : Has(y, UserMessage(x)) => Has(s, UserMessage(x)) \/ \E i \in 1..(n + 1) : ms[i] = x
    BY <2>2, <2>6, <2>8, <2>9, <2>11, <2>12, <2>13
  <2> QED BY <2>9, <2>14, <2>15
<1> HIDE DEF Good
<1>7. bad = {}
  <2> SUFFICES ASSUME bad # {} PROVE FALSE
    OBVIOUS
  <2>1. bad \subseteq Nat
    BY <1>2
  <2>2. PICK n \in bad : \A k \in bad : n <= k
    BY <2>1, LeastNatural
  <2>3. n \in 0..Len(ms) /\ ~Good(n) /\ n # 0
    BY <1>5
  <2>4. n - 1 \in Nat /\ n - 1 \in 0..Len(ms) /\ ~(n <= n - 1) /\ (n - 1) + 1 = n /\ (n - 1) + 1 <= Len(ms)
    BY <1>2, <2>3
  <2>5. Good(n - 1)
    BY <2>2, <2>4
  <2>6. Good((n - 1) + 1)
    BY <1>6, <2>4, <2>5
  <2> QED BY <2>3, <2>4, <2>6
<1>8. Len(ms) \in 0..Len(ms)
  BY <1>2
<1>9. Good(Len(ms)) /\ pre(Len(ms)) \in Seq(Event)
  BY <1>4, <1>7, <1>8
<1>10. ev = pre(Len(ms))
  BY <1>2
<1> HIDE DEF pre
<1> QED BY <1>9, <1>10 DEF Good, Entered

\* The end of a turn, after the end of its open step if there is one: what the driver logs when
\* it closes a turn and what the repair appends to a log that was cut inside one.
Ends(c, r) ==
    (IF c.step # 0 THEN <<StepEnd(c.turn, c.step)>> ELSE <<>>) \o <<TurnEnd(c.turn, r)>>

Ended(s, S, ev, t) ==
    /\ ev \in Seq(Event) /\ LogOK(t, S) /\ Replay(t) = Replay(s)
    /\ LogCursor(t) = [turn |-> LogCursor(s).turn, open |-> FALSE, step |-> 0]
    /\ \A m : Has(t, UserMessage(m)) <=> Has(s, UserMessage(m))

LEMMA EndLog ==
    ASSUME NEW s, NEW S, LogOK(s, S), NEW c, c = LogCursor(s), c.open, NEW r \in Reasons,
           NEW ev, ev = Ends(c, r),
           NEW t, t = s \o ev
    PROVE  Ended(s, S, ev, t)
<1>1. s \in Seq(Event) /\ c \in CursorType
  <2>1. Len(s) \in 0..Len(s)
    BY LenProperties DEF LogOK, GoodLog
  <2> QED BY <2>1 DEF LogOK, GoodLog, LogCursor
<1>2. c.turn \in Nat /\ c.step \in Nat
  BY <1>1 DEF CursorType
<1>3. PICK f \in Event, e \in Event :
         /\ f = StepEnd(c.turn, c.step) /\ f.type = "step/end" /\ f.turn = c.turn /\ f.step = c.step
         /\ e = TurnEnd(c.turn, r) /\ e.type = "turn/end" /\ e.turn = c.turn
  BY <1>2, EventsAre, TypesAre
<1>4. \A m : f # UserMessage(m) /\ e # UserMessage(m)
  BY <1>3, TypesAre
<1>5. <<f>> \in Seq(Event) /\ <<e>> \in Seq(Event)
  OBVIOUS
<1>6. CASE c.step = 0
  <2>1. ev = <<>> \o <<e>>
    BY <1>3, <1>6 DEF Ends
  <2>2. ev = <<e>>
    BY <1>5, <2>1, ConcatEmptySeq
  <2>3. t = Append(s, e)
    BY <1>1, <2>2, AppendIsConcat
  <2>4. Fits(s, e)
    BY <1>3, <1>6 DEF Fits
  <2>5. /\ LogOK(t, S) /\ LogCursor(t) = Moved(c, e) /\ Replay(t) = Replay(s)
        /\ \A x : Has(t, x) <=> Has(s, x) \/ x = e
    <3>1. e.type \in {"turn/start", "turn/end", "step/start", "step/end"}
      BY <1>3
    <3>2. /\ LogOK(Append(s, e), S)
          /\ LogCursor(Append(s, e)) = Moved(LogCursor(s), e)
          /\ \A x : Has(Append(s, e), x) <=> Has(s, x) \/ x = e
          /\ Replay(Append(s, e)) = Replay(s)
      BY <2>4, <3>1, AddMark
    <3> QED BY <2>3, <3>2
  <2>6. Moved(c, e) = [c EXCEPT !.open = FALSE, !.step = 0]
    BY <1>3 DEF Moved
  <2>7. Moved(c, e) = [turn |-> c.turn, open |-> FALSE, step |-> 0]
    BY <1>1, <2>6 DEF CursorType
  <2> QED BY <1>4, <1>5, <2>2, <2>5, <2>7 DEF Ended
<1>7. CASE c.step # 0
  <2>1. ev = <<f>> \o <<e>>
    BY <1>3, <1>7 DEF Ends
  <2>2. PICK q : q = Append(s, f)
    OBVIOUS
  <2>3. Fits(s, f)
    BY <1>3, <1>7 DEF Fits
  <2>4. /\ LogOK(q, S) /\ LogCursor(q) = Moved(c, f) /\ Replay(q) = Replay(s)
        /\ \A x : Has(q, x) <=> Has(s, x) \/ x = f
    BY <1>3, <2>2, <2>3, AddMark
  <2>5. PICK d : d = Moved(c, f)
    OBVIOUS
  <2>6. d.open /\ d.step = 0 /\ d.turn = c.turn /\ d \in [turn : Nat, open : BOOLEAN, step : Nat]
    <3>1. d = [c EXCEPT !.step = 0]
      BY <1>3, <2>5 DEF Moved
    <3> QED BY <1>1, <3>1 DEF CursorType
  <2>7. Fits(q, e)
    BY <1>3, <2>4, <2>5, <2>6 DEF Fits
  <2>8. PICK p : p = Append(q, e)
    OBVIOUS
  <2>9. /\ LogOK(p, S) /\ LogCursor(p) = Moved(d, e) /\ Replay(p) = Replay(q)
        /\ \A x : Has(p, x) <=> Has(q, x) \/ x = e
    BY <1>3, <2>4, <2>5, <2>7, <2>8, AddMark
  <2>10. p = t
    <3>1. q \in Seq(Event) /\ q = s \o <<f>>
      BY <1>1, <2>2, AppendProperties, AppendIsConcat
    <3>2. p = (s \o <<f>>) \o <<e>>
      BY <2>8, <3>1, AppendIsConcat
    <3>3. PICK u \in Seq(Event), v \in Seq(Event) : u = <<f>> /\ v = <<e>>
      BY <1>5
    <3>4. (s \o u) \o v = s \o (u \o v)
      BY <1>1, ConcatAssociative
    <3> QED BY <2>1, <3>2, <3>3, <3>4
  <2>11. ev \in Seq(Event)
    BY <1>5, <2>1, ConcatProperties
  <2>12. Moved(d, e) = [d EXCEPT !.open = FALSE, !.step = 0]
    BY <1>3 DEF Moved
  <2>13. Moved(d, e) = [turn |-> c.turn, open |-> FALSE, step |-> 0]
    BY <2>6, <2>12
  <2> QED BY <1>4, <2>4, <2>9, <2>10, <2>11, <2>13 DEF Ended
<1> QED BY <1>6, <1>7

----------------------------------------------------------------------------
(* The inductive invariant *)

OpenPlaces == {"loop", "preStep", "model", "stopping"}

\* Where the driver is and what the log says of the open turn and step.
CtlAt(place, tn, st, s) ==
    /\ LogCursor(s).turn = tn
    /\ LogCursor(s).open <=> place \in OpenPlaces
    /\ LogCursor(s).step = IF place = "model" THEN st ELSE 0
    /\ place = "model" => st > 0
    /\ place \in OpenPlaces => \A n \in Nat : Has(s, StepStart(tn, n)) <=> n \in 1..st

\* A batch a claim holds: sent, no longer pending, not entered.
HeldAt(batch, S, s) ==
    /\ Inj(batch)
    /\ \A i \in 1..Len(batch) :
         /\ batch[i] \in S /\ batch[i] \notin Pending(Replay(s))
         /\ ~Has(s, UserMessage(batch[i]))

LogInv == LogOK(log, sent) /\ (life # "gone" => inbox = Replay(log))

CtlInv ==
    /\ life = "gone" => pc = "off" /\ phase = "idle"
    /\ phase = "running" <=> pc # "off"
    /\ life # "gone" => CtlAt(pc, turn, step, log)
    /\ pc = "turn" \/ (pc = "returned" /\ ret = "again") => step = 0
    /\ pc = "stopping" => turnEnds # "null"

ClaimInv == HeldAt(claimed, sent, log) /\ (pc # "preStep" => claimed = <<>>)

Inv == TypeOK /\ LogInv /\ CtlInv /\ ClaimInv

LEMMA LogTypes ==
    ASSUME NEW s, NEW S, LogOK(s, S)
    PROVE  /\ s \in Seq(Event) /\ Replay(s) \in [Targets -> Seq(Msgs)]
           /\ LogCursor(s) \in CursorType
<1>1. Len(s) \in 0..Len(s)
  BY LenProperties DEF LogOK, GoodLog
<1> QED BY <1>1, LastProjection DEF LogOK, GoodLog, LogCursor, Box

LEMMA SameCtl ==
    ASSUME NEW s, NEW t, Same(s, t), NEW p, NEW tn, NEW st, CtlAt(p, tn, st, s)
    PROVE  CtlAt(p, tn, st, t)
  BY DEF Same, CtlAt

LEMMA ClosedCtl ==
    ASSUME NEW s, NEW p, NEW q, NEW tn, NEW st, NEW st2, CtlAt(p, tn, st, s),
           p \notin OpenPlaces, q \notin OpenPlaces
    PROVE  CtlAt(q, tn, st2, s)
  BY DEF CtlAt, OpenPlaces

LEMMA OpenCtl ==
    ASSUME NEW s, NEW p, NEW q, NEW tn, NEW st, CtlAt(p, tn, st, s),
           p \in OpenPlaces \ {"model"}, q \in OpenPlaces \ {"model"}
    PROVE  CtlAt(q, tn, st, s)
  BY DEF CtlAt, OpenPlaces

LEMMA HeldNone ==
    ASSUME NEW S, NEW s
    PROVE  HeldAt(<<>>, S, s)
<1>1. 1..Len(<<>>) = {}
  OBVIOUS
<1> QED BY <1>1 DEF HeldAt, Inj

LEMMA SameHeld ==
    ASSUME NEW s, NEW t, Same(s, t), NEW batch, NEW S, NEW T, HeldAt(batch, S, s), S \subseteq T,
           \A m \in S : m \in Pending(Replay(t)) => m \in Pending(Replay(s))
    PROVE  HeldAt(batch, T, t)
  BY DEF HeldAt, Same

\* A commit keeps the live projection the replay of the log.
LEMMA CommitReplay ==
    ASSUME LogOK(log, sent), inbox = Replay(log), NEW ev, ev \in Seq(Event), Commit(ev)
    PROVE  log' = log \o ev /\ inbox' = Replay(log')
<1>1. log \in Seq(Event)
  BY LogTypes
<1>2. log' = log \o ev /\ inbox' = Project(inbox, ev)
  BY DEF Commit
<1>3. Project(EmptyInbox, log \o ev) = Project(Project(EmptyInbox, log), ev)
  BY <1>1, ProjectJoin
<1> QED BY <1>2, <1>3 DEF Replay

\* A commit of splices moves neither the cursor nor the claimed batch.
LEMMA SpliceKeeps ==
    ASSUME Inv, life # "gone", NEW ev, ev \in Seq(Event), Commit(ev), NEW T, sent \subseteq T,
           LogOK(log \o ev, T), Same(log, log \o ev),
           \A m \in sent : m \in Pending(Replay(log \o ev)) => m \in Pending(Replay(log))
    PROVE  /\ log' \in Seq(Event) /\ inbox' \in [Targets -> Seq(Msgs)]
           /\ LogOK(log', T) /\ inbox' = Replay(log')
           /\ CtlAt(pc, turn, step, log') /\ HeldAt(claimed, T, log')
<1>1. LogOK(log, sent) /\ inbox = Replay(log)
  BY DEF Inv, LogInv
<1>2. log' = log \o ev /\ inbox' = Replay(log')
  BY <1>1, CommitReplay
<1>3. LogOK(log', T) /\ Same(log, log')
  BY <1>2
<1>4. log' \in Seq(Event) /\ Replay(log') \in [Targets -> Seq(Msgs)]
  BY <1>3, LogTypes
<1>5. CtlAt(pc, turn, step, log')
  BY <1>3, SameCtl DEF Inv, CtlInv
<1>6. HeldAt(claimed, T, log')
  BY <1>2, <1>3, SameHeld DEF Inv, ClaimInv
<1> QED BY <1>2, <1>3, <1>4, <1>5, <1>6

LEMMA SendStep ==
    ASSUME Inv, NEW m \in Msgs, NEW tgt \in Targets, NEW wakeup \in BOOLEAN, Send(m, tgt, wakeup)
    PROVE  Inv'
<1> DEFINE waa == wakeup /\ phase # "idle" /\ abort # "none"
           res == IF waa THEN "next-turn" ELSE tgt
<1>1. /\ Free /\ life # "gone" /\ m \in Msgs \ sent /\ sent' = sent \cup {m}
      /\ Commit(<<Spliced(res, Len(inbox[res]), 0, <<m>>, FALSE)>>)
      /\ UNCHANGED <<life, ops>>
  BY DEF Send
<1>2. \/ wakeup /\ phase = "idle" /\ StartDriver
      \/ /\ wakeRequested' = TRUE /\ owed' = owed \cup {m}
         /\ UNCHANGED <<phase, pc, abort, turn, step, turnEnds, target, claimed, ret>>
      \/ UNCHANGED <<driver, owed>>
  BY DEF Send
<1>3. PICK tg \in Targets : tg = res
  BY TargetsAre
<1> HIDE DEF waa, res
<1>4. PICK e : e = Spliced(tg, Len(inbox[tg]), 0, <<m>>, FALSE)
  OBVIOUS
<1>5. LogOK(log, sent) /\ inbox = Replay(log)
  BY <1>1 DEF Inv, LogInv
<1>6. PICK T : T = sent \cup {m}
  OBVIOUS
<1>7. /\ e \in Event
      /\ LogOK(Append(log, e), T) /\ Same(log, Append(log, e))
      /\ Pending(Replay(Append(log, e))) \subseteq Pending(Replay(log)) \cup {m}
  <2>1. e = Insertion(Replay(log), tg, m)
    BY <1>4, <1>5 DEF Insertion
  <2>2. m \in Msgs \ sent /\ LogOK(log, sent)
    BY <1>1, <1>5
  <2> QED BY <1>6, <2>1, <2>2, SendLog
<1>8. PICK ev : ev = <<e>>
  OBVIOUS
<1>9. ev \in Seq(Event) /\ log \o ev = Append(log, e) /\ Commit(ev)
  <2>1. log \in Seq(Event)
    BY <1>5, LogTypes
  <2>2. ev \in Seq(Event) /\ log \o ev = Append(log, e)
    BY <1>7, <1>8, <2>1, AppendIsConcat
  <2>3. Commit(ev)
    BY <1>1, <1>3, <1>4, <1>8, Zenon
  <2> QED BY <2>2, <2>3
<1>10. /\ log' \in Seq(Event) /\ inbox' \in [Targets -> Seq(Msgs)]
       /\ LogOK(log', T) /\ inbox' = Replay(log')
       /\ CtlAt(pc, turn, step, log') /\ HeldAt(claimed, T, log')
  <2>1. \A x \in sent : x \in Pending(Replay(log \o ev)) => x \in Pending(Replay(log))
    BY <1>1, <1>7, <1>9
  <2>2. ev \in Seq(Event) /\ Commit(ev) /\ sent \subseteq T /\ LogOK(log \o ev, T) /\ Same(log, log \o ev)
    BY <1>6, <1>7, <1>9
  <2> QED BY <1>1, <2>1, <2>2, SpliceKeeps
<1>11. T = sent'
  BY <1>1, <1>6
<1>12. CASE wakeup /\ phase = "idle" /\ StartDriver
  <2>1. pc = "off"
    BY <1>12 DEF Inv, CtlInv
  <2>2. /\ pc' = "turn" /\ step' = 0 /\ phase' = "running"
        /\ UNCHANGED <<life, turn, turnEnds, target, claimed, ret, ops>>
    BY <1>1, <1>12 DEF StartDriver
  <2>3. CtlAt(pc', turn', step', log')
    BY <1>10, <2>1, <2>2, ClosedCtl DEF OpenPlaces
  <2>4. TypeOK'
    BY <1>1, <1>10, <1>12 DEF Inv, TypeOK, StartDriver, AwaitPoints
  <2>5. claimed' = claimed /\ claimed = <<>>
    BY <2>1, <2>2 DEF Inv, ClaimInv
  <2>6. LogInv' /\ ClaimInv'
    BY <1>10, <1>11, <2>5 DEF LogInv, ClaimInv
  <2>7. CtlInv'
    BY <1>1, <2>2, <2>3 DEF CtlInv
  <2> QED BY <2>4, <2>6, <2>7 DEF Inv
<1>13. CASE UNCHANGED <<life, phase, pc, turn, step, turnEnds, target, claimed, ret>>
            /\ abort' = abort /\ wakeRequested' \in BOOLEAN /\ owed' \subseteq Msgs
  <2>1. TypeOK'
    BY <1>1, <1>10, <1>13 DEF Inv, TypeOK
  <2>2. LogInv' /\ ClaimInv'
    BY <1>10, <1>11, <1>13 DEF Inv, LogInv, ClaimInv
  <2>3. CtlInv'
    BY <1>1, <1>10, <1>13 DEF Inv, CtlInv
  <2> QED BY <2>1, <2>2, <2>3 DEF Inv
<1> QED BY <1>1, <1>2, <1>12, <1>13 DEF Inv, TypeOK, driver

\* The effect of the cancels of cancel() and of dispose() on the invariant.
LEMMA CancelKeeps ==
    ASSUME Inv, life # "gone", NEW cause \in {"user", "disposed"}, NEW keep \in BOOLEAN,
           CancelDriver(cause, keep), life' \in {"live", "disposing"},
           ops' \in Nat, UNCHANGED <<sent, owed>>
    PROVE  Inv'
<1>1. LogOK(log, sent) /\ inbox = Replay(log)
  BY DEF Inv, LogInv
<1>2. log \in Seq(Event)
  BY <1>1, LogTypes
<1>3. PICK ev : ev = IF keep THEN <<>> ELSE ClearEvents(inbox)
  OBVIOUS
<1>4. /\ Commit(ev) /\ wakeRequested' = (wakeRequested /\ (keep \/ phase = "idle"))
      /\ abort' = (IF phase # "idle" /\ abort = "none" THEN cause ELSE abort)
      /\ UNCHANGED <<phase, pc, turn, step, turnEnds, target, claimed, ret>>
  BY <1>3 DEF CancelDriver
<1>5. /\ ev \in Seq(Event) /\ LogOK(log \o ev, sent) /\ Same(log, log \o ev)
      /\ Pending(Replay(log \o ev)) \subseteq Pending(Replay(log))
  <2>1. CASE keep
    <3>1. ev = <<>> /\ ev \in Seq(Event)
      BY <1>3, <2>1, EmptySeq
    <3>2. log \o ev = log
      BY <1>2, <3>1, ConcatEmptySeq
    <3> QED BY <1>1, <3>1, <3>2 DEF Same
  <2>2. CASE ~keep
    <3>1. ev = ClearEvents(Replay(log))
      BY <1>1, <1>3, <2>2
    <3> QED BY <1>1, <3>1, ClearLog
  <2> QED BY <2>1, <2>2
<1>6. /\ log' \in Seq(Event) /\ inbox' \in [Targets -> Seq(Msgs)]
      /\ LogOK(log', sent) /\ inbox' = Replay(log')
      /\ CtlAt(pc, turn, step, log') /\ HeldAt(claimed, sent, log')
  <2>1. \A x \in sent : x \in Pending(Replay(log \o ev)) => x \in Pending(Replay(log))
    BY <1>5
  <2> QED BY <1>4, <1>5, <2>1, SpliceKeeps
<1>7. wakeRequested' \in BOOLEAN
  BY <1>4
<1>8. TypeOK'
  BY <1>4, <1>6, <1>7 DEF Inv, TypeOK
<1>9. LogInv' /\ ClaimInv'
  BY <1>4, <1>6 DEF Inv, LogInv, ClaimInv
<1>10. CtlInv'
  BY <1>4, <1>6 DEF Inv, CtlInv
<1> QED BY <1>8, <1>9, <1>10 DEF Inv

LEMMA RemoveStep ==
    ASSUME Inv, NEW m \in Msgs, RemovePending(m)
    PROVE  Inv'
<1>1. /\ life # "gone" /\ m \in Pending(inbox) /\ ops' = ops + 1
      /\ Commit(<<RemoveEvent(inbox, m)>>) /\ UNCHANGED <<life, driver, sent, owed>>
  BY DEF RemovePending, Count
<1>2. LogOK(log, sent) /\ inbox = Replay(log)
  BY <1>1 DEF Inv, LogInv
<1>3. PICK e : e = RemoveEvent(Replay(log), m)
  OBVIOUS
<1>4. /\ e \in Event
      /\ LogOK(Append(log, e), sent) /\ Same(log, Append(log, e))
      /\ Pending(Replay(Append(log, e))) \subseteq Pending(Replay(log))
  BY <1>1, <1>2, <1>3, RemoveLog
<1>5. PICK ev : ev = <<e>>
  OBVIOUS
<1>6. ev \in Seq(Event) /\ log \o ev = Append(log, e) /\ Commit(ev)
  <2>1. log \in Seq(Event)
    BY <1>2, LogTypes
  <2> QED BY <1>1, <1>2, <1>3, <1>4, <1>5, <2>1, AppendIsConcat
<1>7. /\ log' \in Seq(Event) /\ inbox' \in [Targets -> Seq(Msgs)]
      /\ LogOK(log', sent) /\ inbox' = Replay(log')
      /\ CtlAt(pc, turn, step, log') /\ HeldAt(claimed, sent, log')
  <2>1. \A x \in sent : x \in Pending(Replay(log \o ev)) => x \in Pending(Replay(log))
    BY <1>4, <1>6
  <2>2. LogOK(log \o ev, sent) /\ Same(log, log \o ev)
    BY <1>4, <1>6
  <2> QED BY <1>1, <1>6, <2>1, <2>2, SpliceKeeps
<1>8. TypeOK'
  BY <1>1, <1>7 DEF Inv, TypeOK, driver
<1>9. LogInv' /\ ClaimInv'
  BY <1>1, <1>7 DEF Inv, LogInv, ClaimInv, driver
<1>10. CtlInv'
  BY <1>1, <1>7 DEF Inv, CtlInv, driver
<1> QED BY <1>8, <1>9, <1>10 DEF Inv

LEMMA CancelStep ==
    ASSUME Inv, NEW keep \in BOOLEAN, Cancel(keep)
    PROVE  Inv'
<1>1. life # "gone" /\ CancelDriver("user", keep) /\ ops' = ops + 1 /\ UNCHANGED <<life, sent, owed>>
  BY DEF Cancel, Count
<1>2. life' \in {"live", "disposing"} /\ ops' \in Nat
  BY <1>1 DEF Inv, TypeOK
<1> QED BY <1>1, <1>2, CancelKeeps

LEMMA DisposeStep ==
    ASSUME Inv, Dispose
    PROVE  Inv'
<1>1. /\ life # "gone" /\ CancelDriver("disposed", FALSE) /\ ops' = ops + 1 /\ life' = "disposing"
      /\ UNCHANGED <<sent, owed>>
  BY DEF Dispose, Count
<1>2. life' \in {"live", "disposing"} /\ ops' \in Nat
  BY <1>1 DEF Inv, TypeOK
<1> QED BY <1>1, <1>2, CancelKeeps

LEMMA MaintenanceStep ==
    ASSUME Inv, runMaintenance
    PROVE  Inv'
<1>1. /\ phase = "idle" /\ ops' = ops + 1
      /\ phase' = "maintenance" /\ abort' = "none" /\ wakeRequested' = FALSE
      /\ UNCHANGED <<life, pc, turn, step, turnEnds, target, claimed, ret, inbox, log, sent, owed>>
      /\ life = "live"
  BY DEF runMaintenance, Count
<1>2. TypeOK'
  <2>1. ops' \in Nat
    BY <1>1 DEF Inv, TypeOK
  <2>2. wakeRequested' \in BOOLEAN
    BY <1>1
  <2> QED BY <1>1, <2>1, <2>2 DEF Inv, TypeOK
<1>3. LogInv' /\ ClaimInv'
  BY <1>1 DEF Inv, LogInv, ClaimInv
<1>4. CtlInv'
  BY <1>1 DEF Inv, CtlInv
<1> QED BY <1>2, <1>3, <1>4 DEF Inv

\* The finally of runMaintenance and of kick.
LEMMA IdleKeeps ==
    ASSUME Inv, life # "gone", pc \in {"off", "returned"}, BecomeIdle,
           UNCHANGED <<life, inbox, log, sent, ops>>
    PROVE  Inv'
<1>1. /\ turn' = turn /\ turnEnds' = turnEnds /\ target' = target /\ claimed' = claimed /\ ret' = ret
      /\ \/ phase' = "running" /\ pc' = "turn" /\ step' = 0 /\ owed' = {}
         \/ phase' = "idle" /\ pc' = "off" /\ step' = step /\ owed' = owed
      /\ abort' = "none" /\ wakeRequested' = FALSE
  BY DEF BecomeIdle, StartDriver
<1>2. TypeOK'
  <2>1. step' \in Nat /\ owed' \subseteq Msgs
    BY <1>1 DEF Inv, TypeOK
  <2>2. wakeRequested' \in BOOLEAN
    BY <1>1
  <2>3. pc' \in AwaitPoints \cup {"turn", "loop"} /\ phase' \in {"idle", "maintenance", "running"}
    BY <1>1 DEF AwaitPoints
  <2> QED BY <1>1, <2>1, <2>2, <2>3 DEF Inv, TypeOK
<1>3. LogInv' /\ ClaimInv'
  <2>1. claimed = <<>>
    BY DEF Inv, ClaimInv
  <2> QED BY <1>1, <2>1 DEF Inv, LogInv, ClaimInv
<1>4. CtlAt(pc', turn', step', log')
  <2>1. CtlAt(pc, turn, step, log) /\ pc \notin OpenPlaces /\ pc' \notin OpenPlaces
    BY <1>1 DEF Inv, CtlInv, OpenPlaces
  <2>2. CtlAt(pc', turn, step', log)
    BY <2>1, ClosedCtl
  <2> QED BY <1>1, <2>2
<1>5. CtlInv'
  BY <1>1, <1>4 DEF CtlInv
<1> QED BY <1>2, <1>3, <1>5 DEF Inv

LEMMA MaintenanceDoneStep ==
    ASSUME Inv, life # "gone", MaintenanceDone
    PROVE  Inv'
<1>1. pc = "off" /\ BecomeIdle /\ UNCHANGED <<life, inbox, log, sent, ops>>
  BY DEF Inv, CtlInv, MaintenanceDone
<1> QED BY <1>1, IdleKeeps

LEMMA KickStep ==
    ASSUME Inv, life # "gone", Kick
    PROVE  Inv'
<1>1. pc = "returned" /\ UNCHANGED <<life, inbox, log, sent, ops>>
  BY DEF Kick
<1>2. CASE ret # "again" /\ BecomeIdle
  BY <1>1, <1>2, IdleKeeps
<1>3. CASE /\ ret = "again" /\ pc' = "turn"
           /\ UNCHANGED <<phase, abort, wakeRequested, turn, step, turnEnds, target, claimed, ret, owed>>
  <2>1. TypeOK'
    BY <1>1, <1>3 DEF Inv, TypeOK
  <2>2. LogInv' /\ ClaimInv'
    BY <1>1, <1>3 DEF Inv, LogInv, ClaimInv
  <2>3. CtlAt(pc', turn', step', log')
    <3>1. CtlAt(pc, turn, step, log) /\ pc \notin OpenPlaces /\ pc' \notin OpenPlaces
      BY <1>1, <1>3 DEF Inv, CtlInv, OpenPlaces
    <3>2. CtlAt(pc', turn, step, log)
      BY <3>1, ClosedCtl
    <3> QED BY <1>1, <1>3, <3>2
  <2>4. CtlInv'
    BY <1>1, <1>3, <2>3 DEF Inv, CtlInv
  <2> QED BY <2>1, <2>2, <2>4 DEF Inv
<1> QED BY <1>2, <1>3 DEF Kick

----------------------------------------------------------------------------
(* Crashes and restarts *)

LEMMA EmptyBox == EmptyInbox \in [Targets -> Seq(Msgs)]
<1>1. <<>> \in Seq(Msgs)
  BY EmptySeq
<1> QED BY <1>1 DEF EmptyInbox

LEMMA DetachStep ==
    ASSUME Inv, Detach
    PROVE  Inv'
<1>1. /\ life' = "gone" /\ inbox' = EmptyInbox /\ UNCHANGED <<log, sent, ops>>
      /\ phase' = "idle" /\ pc' = "off" /\ abort' = "none" /\ wakeRequested' = FALSE
      /\ turn' = turn /\ step' = 0 /\ turnEnds' = "null" /\ target' = "next-turn"
      /\ claimed' = <<>> /\ ret' = "stop" /\ owed' = {}
  BY DEF Detach, FreshDriver
<1>2. TypeOK'
  <2>1. <<>> \in Seq(Msgs)
    BY EmptySeq
  <2> QED BY <1>1, <2>1, EmptyBox DEF Inv, TypeOK, AwaitPoints, Targets
<1>3. LogInv'
  BY <1>1 DEF Inv, LogInv
<1>4. ClaimInv'
  BY <1>1, HeldNone DEF ClaimInv
<1>5. CtlInv'
  BY <1>1 DEF CtlInv
<1> QED BY <1>2, <1>3, <1>4, <1>5 DEF Inv

LEMMA CrashStep ==
    ASSUME Inv, Crash
    PROVE  Inv'
<1>1. /\ life' = "gone" /\ inbox' = EmptyInbox /\ sent' = sent /\ ops' = ops + 1
      /\ phase' = "idle" /\ pc' = "off" /\ abort' = "none" /\ wakeRequested' = FALSE
      /\ turn' = 0 /\ step' = 0 /\ turnEnds' = "null" /\ target' = "next-turn"
      /\ claimed' = <<>> /\ ret' = "stop" /\ owed' = {}
  BY DEF Crash, Count, FreshDriver
<1>2. PICK k \in 0..Len(log) : log' = SubSeq(log, 1, k)
  BY DEF Crash
<1>3. LogOK(log', sent)
  <2>1. GoodLog(log) /\ GoodInbox(log, sent)
    BY DEF Inv, LogInv, LogOK
  <2>2. GoodLog(SubSeq(log, 1, k)) /\ GoodInbox(SubSeq(log, 1, k), sent)
    BY <2>1, KeepPrefix, PrefixInbox
  <2> QED BY <1>2, <2>2 DEF LogOK
<1>4. TypeOK'
  <2>1. <<>> \in Seq(Msgs)
    BY EmptySeq
  <2>2. log' \in Seq(Event)
    BY <1>3, LogTypes
  <2>3. ops' \in Nat
    BY <1>1 DEF Inv, TypeOK
  <2>4. wakeRequested' \in BOOLEAN
    BY <1>1
  <2> QED BY <1>1, <2>1, <2>2, <2>3, <2>4, EmptyBox DEF Inv, TypeOK, AwaitPoints, Targets
<1>5. LogInv'
  BY <1>1, <1>3 DEF LogInv
<1>6. ClaimInv'
  BY <1>1, HeldNone DEF ClaimInv
<1>7. CtlInv'
  BY <1>1 DEF CtlInv
<1> QED BY <1>4, <1>5, <1>6, <1>7 DEF Inv

\* The repaired log is well formed, ends outside a turn and has the inbox of what was stored.
LEMMA ResumeStep ==
    ASSUME Inv, Resume
    PROVE  Inv'
<1>1. /\ log' = log \o interruptedTurnClosers(log) /\ inbox' = Replay(log')
      /\ phase' = "idle" /\ pc' = "off" /\ abort' = "none" /\ wakeRequested' = FALSE
      /\ turn' = LogCursor(log').turn /\ step' = 0 /\ turnEnds' = "null" /\ target' = "next-turn"
      /\ claimed' = <<>> /\ ret' = "stop" /\ owed' = {}
      /\ life' = "live" /\ UNCHANGED <<sent, ops>>
  BY DEF Resume, FreshDriver
<1>2. LogOK(log, sent)
  BY DEF Inv, LogInv
<1>3. PICK c : c = LogCursor(log)
  OBVIOUS
<1>4. log \in Seq(Event) /\ c \in CursorType
  BY <1>2, <1>3, LogTypes
<1>5. LogOK(log', sent) /\ ~LogCursor(log').open /\ LogCursor(log').step = 0
  <2>1. CASE ~c.open
    <3>1. interruptedTurnClosers(log) = <<>>
      BY <1>3, <2>1 DEF interruptedTurnClosers
    <3>2. log' = log
      BY <1>1, <1>4, <3>1, ConcatEmptySeq
    <3>3. c.step = 0
      BY <1>4, <2>1 DEF CursorType
    <3> QED BY <1>2, <1>3, <2>1, <3>2, <3>3
  <2>2. CASE c.open
    <3>1. PICK r \in Reasons : r = "interrupted"
      BY DEF Reasons
    <3>2. PICK ev : ev = Ends(c, r)
      OBVIOUS
    <3>3. log' = log \o ev
      BY <1>1, <1>3, <2>2, <3>1, <3>2 DEF interruptedTurnClosers, Ends
    <3>4. Ended(log, sent, ev, log')
      BY <1>2, <1>3, <2>2, <3>2, <3>3, EndLog
    <3> QED BY <3>4 DEF Ended
  <2> QED BY <2>1, <2>2
<1>6. log' \in Seq(Event) /\ inbox' \in [Targets -> Seq(Msgs)] /\ LogCursor(log').turn \in Nat
  <2>1. /\ log' \in Seq(Event) /\ Replay(log') \in [Targets -> Seq(Msgs)]
        /\ LogCursor(log') \in CursorType
    BY <1>5, LogTypes
  <2> QED BY <1>1, <2>1 DEF CursorType
<1>7. TypeOK'
  <2>1. <<>> \in Seq(Msgs)
    BY EmptySeq
  <2> QED BY <1>1, <1>6, <2>1 DEF Inv, TypeOK, AwaitPoints, Targets
<1>8. LogInv'
  BY <1>1, <1>5 DEF LogInv
<1>9. ClaimInv'
  BY <1>1, HeldNone DEF ClaimInv
<1>10. CtlInv'
  BY <1>1, <1>5 DEF CtlInv, CtlAt, OpenPlaces
<1> QED BY <1>7, <1>8, <1>9, <1>10 DEF Inv

----------------------------------------------------------------------------
(* The driver *)

\* One boundary event is logged.
LEMMA MarkKeeps ==
    ASSUME LogOK(log, sent), inbox = Replay(log), sent' = sent,
           NEW e \in Event, e.type \in {"turn/start", "turn/end", "step/start", "step/end"},
           Fits(log, e), Commit(<<e>>)
    PROVE  /\ log' = Append(log, e)
           /\ log' \in Seq(Event) /\ inbox' \in [Targets -> Seq(Msgs)]
           /\ LogOK(log', sent') /\ inbox' = Replay(log') /\ Replay(log') = Replay(log)
           /\ LogCursor(log') = Moved(LogCursor(log), e)
           /\ \A x : Has(log', x) <=> Has(log, x) \/ x = e
<1>1. log \in Seq(Event)
  BY LogTypes
<1>2. PICK ev : ev = <<e>>
  OBVIOUS
<1>3. ev \in Seq(Event) /\ log \o ev = Append(log, e) /\ Commit(ev)
  BY <1>1, <1>2, AppendIsConcat
<1>4. log' = log \o ev /\ inbox' = Replay(log')
  BY <1>3, CommitReplay
<1>5. /\ LogOK(Append(log, e), sent)
      /\ LogCursor(Append(log, e)) = Moved(LogCursor(log), e)
      /\ \A x : Has(Append(log, e), x) <=> Has(log, x) \/ x = e
      /\ Replay(Append(log, e)) = Replay(log)
  BY AddMark
<1>6. log' = Append(log, e)
  BY <1>3, <1>4
<1>7. LogOK(log', sent)
  BY <1>5, <1>6
<1>8. log' \in Seq(Event) /\ Replay(log') \in [Targets -> Seq(Msgs)]
  BY <1>7, LogTypes
<1> QED BY <1>4, <1>5, <1>6, <1>7, <1>8

LEMMA TurnStep ==
    ASSUME Inv, life # "gone", Turn
    PROVE  Inv'
<1>1. /\ pc = "turn" /\ claimed = <<>> /\ step = 0 /\ CtlAt(pc, turn, step, log)
      /\ LogOK(log, sent) /\ inbox = Replay(log) /\ turn \in Nat
      /\ UNCHANGED <<life, phase, abort, wakeRequested, step, claimed, sent, owed, ops>>
  BY DEF Turn, Inv, TypeOK, LogInv, CtlInv, ClaimInv
<1>2. CASE /\ ret' = "throw" /\ pc' = "returned" /\ UNCHANGED <<turn, turnEnds, target, inbox, log>>
  <2>1. TypeOK'
    BY <1>1, <1>2 DEF Inv, TypeOK, AwaitPoints
  <2>2. LogInv' /\ ClaimInv'
    BY <1>1, <1>2 DEF Inv, LogInv, ClaimInv
  <2>3. CtlAt(pc', turn', step', log')
    <3>1. pc \notin OpenPlaces /\ pc' \notin OpenPlaces
      BY <1>1, <1>2 DEF OpenPlaces
    <3>2. CtlAt(pc', turn, step, log)
      BY <1>1, <3>1, ClosedCtl
    <3> QED BY <1>1, <1>2, <3>2
  <2>4. CtlInv'
    BY <1>1, <1>2, <2>3 DEF Inv, CtlInv
  <2> QED BY <2>1, <2>2, <2>4 DEF Inv
<1>3. CASE /\ Commit(<<TurnStart(turn + 1)>>)
           /\ turn' = turn + 1 /\ turnEnds' = "null" /\ target' = "next-turn"
           /\ pc' = "loop" /\ ret' = ret
  <2>1. PICK e \in Event : e = TurnStart(turn + 1) /\ e.type = "turn/start" /\ e.turn = turn + 1
    <3>1. turn + 1 \in Nat
      BY <1>1
    <3> QED BY <3>1, EventsAre, TypesAre
  <2>2. PICK c : c = LogCursor(log) /\ ~c.open /\ c.turn = turn
    BY <1>1 DEF CtlAt, OpenPlaces
  <2>3. Fits(log, e)
    BY <2>1, <2>2 DEF Fits
  <2>4. /\ log' \in Seq(Event) /\ inbox' \in [Targets -> Seq(Msgs)]
        /\ LogOK(log', sent') /\ inbox' = Replay(log') /\ Replay(log') = Replay(log)
        /\ LogCursor(log') = Moved(c, e)
        /\ \A x : Has(log', x) <=> Has(log, x) \/ x = e
    <3>1. e.type \in {"turn/start", "turn/end", "step/start", "step/end"} /\ Commit(<<e>>) /\ sent' = sent
      BY <1>1, <1>3, <2>1
    <3> QED BY <1>1, <2>2, <2>3, <3>1, MarkKeeps
  <2>5. Moved(c, e) = [turn |-> turn + 1, open |-> TRUE, step |-> 0]
    BY <2>1 DEF Moved
  <2>6. \A n \in Nat : ~Has(log', StepStart(turn + 1, n))
    <3> SUFFICES ASSUME NEW n \in Nat, Has(log', StepStart(turn + 1, n)) PROVE FALSE
      OBVIOUS
    <3>1. StepStart(turn + 1, n) # e
      BY <2>1, TypesAre
    <3>2. Has(log, StepStart(turn + 1, n))
      BY <2>4, <3>1
    <3>3. PICK j \in 1..Len(log) : log[j] = StepStart(turn + 1, n)
      BY <3>2 DEF Has
    <3>4. log[j].type = "step/start" /\ log[j].turn = turn + 1
      BY <3>3, TypesAre
    <3>5. Len(log) \in 0..Len(log)
      <4>1. Len(log) \in Nat
        BY <1>1, LogTypes, LenProperties
      <4> QED BY <4>1
    <3>6. log[j].turn <= LogCursor(log).turn
      BY <1>1, <3>4, <3>5 DEF LogOK, GoodLog, LogCursor
    <3>7. turn + 1 <= turn
      BY <2>2, <3>4, <3>6
    <3> QED BY <1>1, <3>7
  <2>7. CtlAt(pc', turn', step', log')
    <3>1. \A n \in Nat : n \notin 1..0
      OBVIOUS
    <3>2. pc' = "loop" /\ turn' = turn + 1 /\ step' = 0 /\ "loop" \in OpenPlaces
      BY <1>1, <1>3 DEF OpenPlaces
    <3> QED BY <2>4, <2>5, <2>6, <3>1, <3>2 DEF CtlAt
  <2>8. TypeOK'
    <3>1. turn' \in Nat
      BY <1>1, <1>3
    <3> QED BY <1>1, <1>3, <2>4, <3>1 DEF Inv, TypeOK, Targets
  <2>9. LogInv' /\ ClaimInv'
    <3>1. claimed' = <<>>
      BY <1>1
    <3> QED BY <2>4, <3>1, HeldNone DEF LogInv, ClaimInv
  <2>10. CtlInv'
    BY <1>1, <1>3, <2>7 DEF Inv, CtlInv
  <2> QED BY <2>8, <2>9, <2>10 DEF Inv
<1> QED BY <1>2, <1>3 DEF Turn, Suspend

LEMMA ClaimStep ==
    ASSUME Inv, life # "gone", Claim
    PROVE  Inv'
<1>1. /\ pc = "loop" /\ pc' = "preStep" /\ claimed' = ClaimBatch(inbox, target)
      /\ Commit(ClaimEvents(inbox, target))
      /\ UNCHANGED <<life, phase, abort, wakeRequested, turn, step, turnEnds, target, ret, sent, owed, ops>>
  BY DEF Claim
<1>2. LogOK(log, sent) /\ inbox = Replay(log) /\ CtlAt(pc, turn, step, log) /\ target \in Targets
  BY DEF Inv, LogInv, CtlInv, TypeOK
<1>3. PICK ev : ev = ClaimEvents(Replay(log), target)
  OBVIOUS
<1>4. PICK batch : batch = ClaimBatch(Replay(log), target) /\ batch = claimed'
  BY <1>1, <1>2
<1>5. PICK t : t = log \o ev
  OBVIOUS
<1>6. /\ ev \in Seq(Event) /\ LogOK(t, sent) /\ Same(log, t)
      /\ batch \in Seq(Msgs) /\ Inj(batch)
      /\ \A i \in 1..Len(batch) :
           batch[i] \in Pending(Replay(log)) /\ batch[i] \notin Pending(Replay(t))
  <2>1. ClaimedFrom(log, sent, ev, t, batch)
    BY <1>2, <1>3, <1>4, <1>5, ClaimLog
  <2> QED BY <2>1 DEF ClaimedFrom
<1>7. t = log' /\ inbox' = Replay(log')
  <2>1. Commit(ev)
    BY <1>1, <1>2, <1>3
  <2> QED BY <1>2, <1>5, <1>6, <2>1, CommitReplay
<1>8. log' \in Seq(Event) /\ inbox' \in [Targets -> Seq(Msgs)]
  BY <1>6, <1>7, LogTypes
<1>9. HeldAt(batch, sent, t)
  <2>1. /\ \A m \in Msgs : m \in Pending(Replay(log)) => m \in sent /\ ~Has(log, UserMessage(m))
    BY <1>2, LastProjection DEF LogOK
  <2>2. \A i \in 1..Len(batch) : batch[i] \in Msgs
    BY <1>6, ElementOfSeq
  <2> QED BY <1>6, <2>1, <2>2 DEF HeldAt, Same
<1>10. CtlAt(pc', turn', step', log')
  <2>1. CtlAt(pc, turn, step, t)
    BY <1>2, <1>6, SameCtl
  <2>2. pc \in OpenPlaces \ {"model"} /\ pc' \in OpenPlaces \ {"model"}
    BY <1>1 DEF OpenPlaces
  <2>3. CtlAt(pc', turn, step, t)
    BY <2>1, <2>2, OpenCtl
  <2> QED BY <1>1, <1>7, <2>3
<1>11. TypeOK'
  BY <1>1, <1>4, <1>6, <1>8 DEF Inv, TypeOK, AwaitPoints
<1>12. LogInv' /\ ClaimInv'
  BY <1>1, <1>4, <1>6, <1>7, <1>9 DEF LogInv, ClaimInv
<1>13. CtlInv'
  BY <1>1, <1>10 DEF Inv, CtlInv
<1> QED BY <1>11, <1>12, <1>13 DEF Inv

\* Every way out of a turn.
LEMMA CloseKeeps ==
    ASSUME Inv, life # "gone", pc \in OpenPlaces,
           NEW events, events = IF pc = "model" THEN <<StepEnd(turn, step)>> ELSE <<>>,
           NEW r \in Reasons, NEW how \in {"drain", "stop", "throw"}, CloseTurn(events, r, how)
    PROVE  Inv'
<1>1. /\ Commit(events \o <<TurnEnd(turn, r)>>) /\ claimed' = <<>> /\ turnEnds' = "null"
      /\ pc' = "returned" /\ UNCHANGED <<life, phase, turn, target, sent, ops>>
  BY DEF CloseTurn, Suspend
<1>2. \/ /\ abort' = "none" /\ wakeRequested' = FALSE /\ step' = 0 /\ owed' = {} /\ ret' = "again"
      \/ ret' \in {"stop", "throw"} /\ UNCHANGED <<abort, wakeRequested, step, owed>>
  BY DEF CloseTurn, Suspend
<1>3. LogOK(log, sent) /\ inbox = Replay(log) /\ CtlAt(pc, turn, step, log)
  BY DEF Inv, LogInv, CtlInv
<1>4. PICK c : c = LogCursor(log) /\ c.open /\ c.turn = turn /\ c.step = IF pc = "model" THEN step ELSE 0
  BY <1>3 DEF CtlAt
<1>5. PICK ev : ev = Ends(c, r)
  OBVIOUS
<1>6. ev = events \o <<TurnEnd(turn, r)>>
  <2>1. pc = "model" => step # 0
    BY <1>3 DEF CtlAt, Inv, TypeOK
  <2> QED BY <1>4, <1>5, <2>1 DEF Ends
<1>7. PICK t : t = log \o ev
  OBVIOUS
<1>8. Ended(log, sent, ev, t)
  BY <1>3, <1>4, <1>5, <1>7, EndLog
<1>9. /\ ev \in Seq(Event) /\ LogOK(t, sent)
      /\ LogCursor(t) = [turn |-> turn, open |-> FALSE, step |-> 0]
  BY <1>4, <1>8 DEF Ended
<1>10. t = log' /\ inbox' = Replay(log')
  <2>1. Commit(ev)
    BY <1>1, <1>6
  <2> QED BY <1>3, <1>7, <1>9, <2>1, CommitReplay
<1>11. log' \in Seq(Event) /\ inbox' \in [Targets -> Seq(Msgs)]
  BY <1>9, <1>10, LogTypes
<1>12. CtlAt(pc', turn', step', log')
  <2>1. pc' = "returned" /\ turn' = turn /\ "returned" \notin OpenPlaces
    BY <1>1 DEF OpenPlaces
  <2> QED BY <1>9, <1>10, <2>1 DEF CtlAt
<1>13. TypeOK'
  <2>1. step' \in Nat /\ owed' \subseteq Msgs
    BY <1>2 DEF Inv, TypeOK
  <2>2. wakeRequested' \in BOOLEAN
    BY <1>2 DEF Inv, TypeOK
  <2>3. <<>> \in Seq(Msgs)
    BY EmptySeq
  <2>4. ret' \in {"again", "stop", "throw"} /\ abort' \in {"none", "user", "disposed"}
    BY <1>2 DEF Inv, TypeOK
  <2> QED BY <1>1, <1>11, <2>1, <2>2, <2>3, <2>4 DEF Inv, TypeOK, AwaitPoints
<1>14. LogInv' /\ ClaimInv'
  BY <1>1, <1>9, <1>10, HeldNone DEF LogInv, ClaimInv
<1>15. CtlInv'
  <2>1. phase = "running" /\ phase' = phase /\ life' = life
    BY <1>1 DEF Inv, CtlInv, OpenPlaces
  <2>2. ret' = "again" => step' = 0
    BY <1>2
  <2> QED BY <1>1, <1>12, <2>1, <2>2 DEF CtlInv
<1> QED BY <1>13, <1>14, <1>15 DEF Inv

LEMMA PreStepEndStep ==
    ASSUME Inv, life # "gone", PreStepFails \/ PreStepRejects
    PROVE  Inv'
<1>1. PICK r \in Reasons, how \in {"drain", "stop", "throw"} : pc = "preStep" /\ CloseTurn(<<>>, r, how)
  BY DEF PreStepFails, PreStepRejects, Reasons
<1>2. PICK events : events = <<>>
  OBVIOUS
<1>3. pc \in OpenPlaces /\ events = (IF pc = "model" THEN <<StepEnd(turn, step)>> ELSE <<>>)
  BY <1>1, <1>2 DEF OpenPlaces
<1> QED BY <1>1, <1>2, <1>3, CloseKeeps

\* The step starts and its batch enters.
LEMMA EnterKeeps ==
    ASSUME Inv, life # "gone", pc = "preStep", NEW ms, ms \in {claimed, <<>>, <<CTX>>},
           Commit(<<StepStart(turn, step + 1)>> \o [i \in DOMAIN ms |-> UserMessage(ms[i])]),
           step' = step + 1, claimed' = <<>>, pc' = "model",
           UNCHANGED <<life, phase, abort, wakeRequested, turn, turnEnds, target, ret, sent, owed, ops>>
    PROVE  Inv'
<1>1. /\ LogOK(log, sent) /\ inbox = Replay(log) /\ CtlAt(pc, turn, step, log)
      /\ turn \in Nat /\ step \in Nat /\ claimed \in Seq(Msgs) /\ HeldAt(claimed, sent, log)
  BY DEF Inv, LogInv, CtlInv, ClaimInv, TypeOK
<1>2. PICK n \in Nat : n = step + 1
  BY <1>1
<1>3. PICK e \in Event : /\ e = StepStart(turn, n) /\ e.type = "step/start"
                         /\ e.turn = turn /\ e.step = n
  BY <1>1, EventsAre, TypesAre
<1>4. PICK c : c = LogCursor(log)
  OBVIOUS
<1>5. /\ c.open /\ c.step = 0 /\ c.turn = turn /\ c \in CursorType
      /\ \A k \in Nat : Has(log, StepStart(turn, k)) <=> k \in 1..step
  BY <1>1, <1>4, LogTypes DEF CtlAt, OpenPlaces
<1>6. Fits(log, e)
  <2>1. n > 0 /\ n \notin 1..step
    BY <1>1, <1>2
  <2>2. ~Has(log, e)
    BY <1>3, <1>5, <2>1
  <2>3. n > 1 => Has(log, StepStart(turn, n - 1))
    <3>1. n - 1 = step /\ (n > 1 => step \in 1..step)
      BY <1>1, <1>2
    <3> QED BY <1>1, <1>5, <3>1
  <2> QED BY <1>3, <1>4, <1>5, <2>1, <2>2, <2>3 DEF Fits
<1>7. PICK q : q = Append(log, e)
  OBVIOUS
<1>8. /\ LogOK(q, sent) /\ LogCursor(q) = Moved(c, e)
      /\ \A x : Has(q, x) <=> Has(log, x) \/ x = e
      /\ Replay(q) = Replay(log)
  <2>1. e.type \in {"turn/start", "turn/end", "step/start", "step/end"}
    BY <1>3
  <2> QED BY <1>1, <1>4, <1>6, <1>7, <2>1, AddMark
<1>9. /\ LogCursor(q).open /\ LogCursor(q).turn = turn /\ LogCursor(q).step = n
      /\ LogCursor(q).step # 0
  <2>1. Moved(c, e) = [c EXCEPT !.step = n]
    BY <1>3 DEF Moved
  <2>2. n # 0
    BY <1>1, <1>2
  <2> QED BY <1>5, <1>8, <2>1, <2>2 DEF CursorType
<1>10. /\ ms \in Seq(Msgs \cup {CTX}) /\ Inj(ms)
       /\ \A i \in 1..Len(ms) : ms[i] \in Msgs =>
            ms[i] \in sent /\ ms[i] \notin Pending(Replay(q)) /\ ~Has(q, UserMessage(ms[i]))
  <2>1. CASE ms = claimed
    <3>1. ms \in Seq(Msgs \cup {CTX})
      <4>1. Len(ms) \in Nat /\ DOMAIN ms = 1..Len(ms) /\ \A i \in 1..Len(ms) : ms[i] \in Msgs
        BY <1>1, <2>1, LenProperties, ElementOfSeq
      <4> QED BY <1>1, <2>1
    <3>2. \A m : UserMessage(m) # e
      BY <1>3, TypesAre
    <3> QED BY <1>1, <1>8, <2>1, <3>1, <3>2 DEF HeldAt
  <2>2. CASE ms = <<>>
    <3>1. ms \in Seq(Msgs \cup {CTX}) /\ Len(ms) = 0
      BY <2>2, EmptySeq
    <3>2. 1..Len(ms) = {}
      BY <3>1
    <3> QED BY <3>1, <3>2 DEF Inj
  <2>3. CASE ms = <<CTX>>
    <3>1. ms \in Seq(Msgs \cup {CTX}) /\ Len(ms) = 1 /\ ms[1] = CTX
      BY <2>3
    <3>2. \A i \in 1..Len(ms) : i = 1
      BY <3>1
    <3> QED BY <3>1, <3>2, CtxAssumption DEF Inj
  <2> QED BY <2>1, <2>2, <2>3
<1>11. PICK ev : ev = [i \in DOMAIN ms |-> UserMessage(ms[i])]
  OBVIOUS
<1>12. PICK t : t = q \o ev
  OBVIOUS
<1>13. ev \in Seq(Event) /\ Entered(q, sent, ms, t)
  BY <1>8, <1>9, <1>10, <1>11, <1>12, AddUsers
<1>14. PICK all : all = <<e>> \o ev
  OBVIOUS
<1>15. all \in Seq(Event) /\ t = log \o all
  <2>1. log \in Seq(Event)
    BY <1>1, LogTypes
  <2>2. PICK one \in Seq(Event) : one = <<e>>
    <3>1. <<e>> \in Seq(Event)
      OBVIOUS
    <3> QED BY <3>1
  <2>3. q = log \o one
    BY <1>7, <2>1, <2>2, AppendIsConcat
  <2>4. (log \o one) \o ev = log \o (one \o ev) /\ one \o ev \in Seq(Event)
    BY <1>13, <2>1, ConcatAssociative, ConcatProperties
  <2> QED BY <1>12, <1>14, <2>2, <2>3, <2>4
<1>16. t = log' /\ inbox' = Replay(log')
  <2>1. Commit(all)
    BY <1>2, <1>3, <1>11, <1>14
  <2> QED BY <1>1, <1>15, <2>1, CommitReplay
<1>17. /\ LogOK(log', sent) /\ LogCursor(log') = LogCursor(q)
       /\ \A k : Has(log', StepStart(turn, k)) <=> Has(q, StepStart(turn, k))
  BY <1>13, <1>16 DEF Entered
<1>18. log' \in Seq(Event) /\ inbox' \in [Targets -> Seq(Msgs)]
  BY <1>16, <1>17, LogTypes
<1>19. CtlAt(pc', turn', step', log')
  <2>1. \A k \in Nat : Has(log', StepStart(turn, k)) <=> k \in 1..n
    <3> TAKE k \in Nat
    <3>1. StepStart(turn, k) = e <=> k = n
      <4>1. StepStart(turn, k).step = k
        BY TypesAre
      <4> QED BY <1>3, <4>1
    <3>2. Has(log', StepStart(turn, k)) <=> k \in 1..step \/ k = n
      BY <1>5, <1>8, <1>17, <3>1
    <3>3. k \in 1..step \/ k = n <=> k \in 1..n
      BY <1>1, <1>2
    <3> QED BY <3>2, <3>3
  <2>2. pc' = "model" /\ turn' = turn /\ step' = n /\ n > 0 /\ "model" \in OpenPlaces
    BY <1>1, <1>2 DEF OpenPlaces
  <2> QED BY <1>9, <1>17, <2>1, <2>2 DEF CtlAt
<1>20. TypeOK'
  <2>1. step' \in Nat
    BY <1>1
  <2>2. <<>> \in Seq(Msgs)
    BY EmptySeq
  <2> QED BY <1>18, <2>1, <2>2 DEF Inv, TypeOK, AwaitPoints
<1>21. LogInv' /\ ClaimInv'
  BY <1>16, <1>17, HeldNone DEF LogInv, ClaimInv
<1>22. CtlInv'
  BY <1>19 DEF Inv, CtlInv
<1> QED BY <1>20, <1>21, <1>22 DEF Inv

LEMMA PreStepEntersStep ==
    ASSUME Inv, life # "gone", PreStepEnters
    PROVE  Inv'
<1>1. PICK ms \in {claimed, <<>>} \cup (IF claimed = <<>> THEN {<<CTX>>} ELSE {}) :
        \/ /\ ms = <<>> /\ turnEnds # "null"
           /\ CloseTurn(<<>>, turnEnds, "drain")
        \/ /\ ms = <<>> /\ turnEnds = "null" /\ step = 0
           /\ CloseTurn(<<>>, "completed", "stop")
        \/ /\ Commit(<<StepStart(turn, step + 1)>> \o [i \in DOMAIN ms |-> UserMessage(ms[i])])
           /\ step' = step + 1 /\ claimed' = <<>> /\ pc' = "model"
           /\ UNCHANGED <<life, phase, abort, wakeRequested, turn, turnEnds, target, ret, sent,
                          owed, ops>>
  BY DEF PreStepEnters
<1>2. pc = "preStep"
  BY DEF PreStepEnters
<1>3. ms \in {claimed, <<>>, <<CTX>>}
  BY <1>1
<1>4. CASE \E r \in Reasons, how \in {"drain", "stop", "throw"} : CloseTurn(<<>>, r, how)
  <2>1. PICK r \in Reasons, how \in {"drain", "stop", "throw"} : CloseTurn(<<>>, r, how)
    BY <1>4
  <2>2. PICK events : events = <<>>
    OBVIOUS
  <2>3. pc \in OpenPlaces /\ events = (IF pc = "model" THEN <<StepEnd(turn, step)>> ELSE <<>>)
    BY <1>2, <2>2 DEF OpenPlaces
  <2> QED BY <2>1, <2>2, <2>3, CloseKeeps
<1>5. CASE /\ Commit(<<StepStart(turn, step + 1)>> \o [i \in DOMAIN ms |-> UserMessage(ms[i])])
           /\ step' = step + 1 /\ claimed' = <<>> /\ pc' = "model"
           /\ UNCHANGED <<life, phase, abort, wakeRequested, turn, turnEnds, target, ret, sent,
                          owed, ops>>
  BY <1>2, <1>3, <1>5, EnterKeeps
<1>6. turnEnds # "null" => turnEnds \in Reasons
  BY DEF Inv, TypeOK
<1>7. "completed" \in Reasons
  BY DEF Reasons
<1> QED BY <1>1, <1>4, <1>5, <1>6, <1>7

LEMMA StepFailsStep ==
    ASSUME Inv, life # "gone", StepFails
    PROVE  Inv'
<1>1. PICK r \in Reasons, how \in {"drain", "stop", "throw"} :
        pc = "model" /\ CloseTurn(<<StepEnd(turn, step)>>, r, how)
  BY DEF StepFails, Reasons
<1>2. PICK events : events = <<StepEnd(turn, step)>>
  OBVIOUS
<1>3. pc \in OpenPlaces /\ events = (IF pc = "model" THEN <<StepEnd(turn, step)>> ELSE <<>>)
  BY <1>1, <1>2 DEF OpenPlaces
<1> QED BY <1>1, <1>2, <1>3, CloseKeeps

LEMMA StepSettlesStep ==
    ASSUME Inv, life # "gone", NEW stepEnd \in {"completed", "max-tokens", "null"}, StepSettles(stepEnd)
    PROVE  Inv'
<1>1. /\ pc = "model" /\ Commit(<<StepEnd(turn, step)>>)
      /\ turnEnds' = TurnEndsAfter(stepEnd)
      /\ \/ pc' = "stopping" /\ target' = target /\ turnEnds' # "null"
         \/ pc' = "loop" /\ target' = "next-step"
      /\ UNCHANGED <<life, phase, abort, wakeRequested, turn, step, claimed, ret, sent, owed, ops>>
  BY DEF StepSettles
<1>2. /\ LogOK(log, sent) /\ inbox = Replay(log) /\ CtlAt(pc, turn, step, log) /\ claimed = <<>>
      /\ turn \in Nat /\ step \in Nat
  BY <1>1 DEF Inv, LogInv, CtlInv, ClaimInv, TypeOK
<1>3. PICK e \in Event : /\ e = StepEnd(turn, step) /\ e.type = "step/end"
                         /\ e.turn = turn /\ e.step = step
  BY <1>2, EventsAre, TypesAre
<1>4. PICK c : c = LogCursor(log)
  OBVIOUS
<1>5. /\ c.open /\ c.step = step /\ c.turn = turn /\ c \in CursorType /\ step > 0
      /\ \A k \in Nat : Has(log, StepStart(turn, k)) <=> k \in 1..step
  BY <1>1, <1>2, <1>4, LogTypes DEF CtlAt, OpenPlaces
<1>6. Fits(log, e)
  <2>1. step # 0
    BY <1>2, <1>5
  <2> QED BY <1>3, <1>4, <1>5, <2>1 DEF Fits
<1>7. /\ log' \in Seq(Event) /\ inbox' \in [Targets -> Seq(Msgs)]
      /\ LogOK(log', sent') /\ inbox' = Replay(log')
      /\ LogCursor(log') = Moved(c, e)
      /\ \A x : Has(log', x) <=> Has(log, x) \/ x = e
  <2>1. e.type \in {"turn/start", "turn/end", "step/start", "step/end"} /\ Commit(<<e>>) /\ sent' = sent
    BY <1>1, <1>3
  <2> QED BY <1>2, <1>4, <1>6, <2>1, MarkKeeps
<1>8. LogCursor(log').open /\ LogCursor(log').turn = turn /\ LogCursor(log').step = 0
  <2>1. Moved(c, e) = [c EXCEPT !.step = 0]
    BY <1>3 DEF Moved
  <2> QED BY <1>5, <1>7, <2>1 DEF CursorType
<1>9. \A k \in Nat : Has(log', StepStart(turn, k)) <=> k \in 1..step
  <2>1. \A k : StepStart(turn, k) # e
    BY <1>3, TypesAre
  <2> QED BY <1>5, <1>7, <2>1
<1>10. CtlAt(pc', turn', step', log')
  <2>1. pc' \in OpenPlaces /\ pc' # "model" /\ turn' = turn /\ step' = step
    BY <1>1 DEF OpenPlaces
  <2> QED BY <1>8, <1>9, <2>1 DEF CtlAt
<1>11. TypeOK'
  <2>1. turnEnds' \in Reasons \cup {"null"}
    BY <1>1 DEF TurnEndsAfter, Reasons
  <2>2. target' \in Targets /\ pc' \in AwaitPoints \cup {"turn", "loop"}
    BY <1>1, TargetsAre DEF Inv, TypeOK, AwaitPoints
  <2> QED BY <1>1, <1>7, <2>1, <2>2 DEF Inv, TypeOK
<1>12. LogInv' /\ ClaimInv'
  <2>1. claimed' = <<>>
    BY <1>1, <1>2
  <2> QED BY <1>7, <2>1, HeldNone DEF LogInv, ClaimInv
<1>13. CtlInv'
  BY <1>1, <1>10 DEF Inv, CtlInv
<1> QED BY <1>11, <1>12, <1>13 DEF Inv

LEMMA StoppingStep ==
    ASSUME Inv, life # "gone", StoppingSettles
    PROVE  Inv'
<1>1. pc = "stopping" /\ turnEnds # "null" /\ turnEnds \in Reasons
  BY DEF Inv, CtlInv, TypeOK, StoppingSettles
<1>2. CASE \E r \in Reasons, how \in {"drain", "stop", "throw"} : CloseTurn(<<>>, r, how)
  <2>1. PICK r \in Reasons, how \in {"drain", "stop", "throw"} : CloseTurn(<<>>, r, how)
    BY <1>2
  <2>2. PICK events : events = <<>>
    OBVIOUS
  <2>3. pc \in OpenPlaces /\ events = (IF pc = "model" THEN <<StepEnd(turn, step)>> ELSE <<>>)
    BY <1>1, <2>2 DEF OpenPlaces
  <2> QED BY <2>1, <2>2, <2>3, CloseKeeps
<1>3. CASE /\ pc' = "loop" /\ target' = "next-step"
           /\ UNCHANGED <<life, phase, abort, wakeRequested, turn, step, turnEnds, claimed, ret,
                          inbox, log, sent, owed, ops>>
  <2>1. TypeOK'
    BY <1>3, TargetsAre DEF Inv, TypeOK
  <2>2. LogInv' /\ ClaimInv'
    BY <1>1, <1>3 DEF Inv, LogInv, ClaimInv
  <2>3. CtlAt(pc', turn', step', log')
    <3>1. pc \in OpenPlaces \ {"model"} /\ pc' \in OpenPlaces \ {"model"}
      BY <1>1, <1>3 DEF OpenPlaces
    <3>2. CtlAt(pc, turn, step, log)
      BY DEF Inv, CtlInv
    <3>3. CtlAt(pc', turn, step, log)
      BY <3>1, <3>2, OpenCtl
    <3> QED BY <1>3, <3>3
  <2>4. CtlInv'
    BY <1>1, <1>3, <2>3 DEF Inv, CtlInv
  <2> QED BY <2>1, <2>2, <2>4 DEF Inv
<1>4. "aborted" \in Reasons /\ "error" \in Reasons
  BY DEF Reasons
<1> QED BY <1>1, <1>2, <1>3, <1>4 DEF StoppingSettles

----------------------------------------------------------------------------
(* Theorems *)

LEMMA EmptyLog == LogOK(<<>>, {}) /\ Replay(<<>>) = EmptyInbox /\ LogCursor(<<>>) = Cursor0
<1>1. PICK s \in Seq(Event) : s = <<>> /\ Len(s) = 0
  BY EmptySeq
<1>2. /\ \A k \in 0..Len(s) : k = 0
      /\ 1..Len(s) = {} /\ \A k \in 0..Len(s) : 1..k = {}
  BY <1>1
<1>3. LogCursors(s)[0] = Cursor0 /\ Projections(EmptyInbox, s)[0] = EmptyInbox
  BY <1>1, CursorsRec, ProjectionsRec
<1>4. Cursor0 \in CursorType
  BY DEF Cursor0, CursorType
<1>5. GoodLog(s)
  BY <1>2, <1>3, <1>4 DEF GoodLog
<1>6. \A t \in Targets : EmptyInbox[t] = <<>> /\ EmptyInbox[t] = s
  BY <1>1 DEF EmptyInbox
<1>7. ToSet(s) = {}
  BY <1>1 DEF ToSet
<1>8. EmptyInbox \in Box /\ Distinct(EmptyInbox) /\ Pending(EmptyInbox) = {}
  <2>1. Inj(s)
    BY <1>2 DEF Inj
  <2> QED BY <1>6, <1>7, <2>1, EmptyBox, TargetsAre, PendingAre DEF Box, Distinct
<1>9. GoodInbox(s, {})
  BY <1>2, <1>3, <1>8 DEF GoodInbox, Has
<1> QED BY <1>1, <1>3, <1>5, <1>9 DEF LogOK, Replay, Project, LogCursor

LEMMA InitInv == Init => Inv
<1> SUFFICES ASSUME Init PROVE Inv
  OBVIOUS
<1>1. TypeOK
  <2>1. <<>> \in Seq(Msgs) /\ <<>> \in Seq(Event)
    BY EmptySeq
  <2> QED BY <2>1, EmptyBox DEF Init, TypeOK, AwaitPoints, Targets
<1>2. LogInv
  BY EmptyLog DEF Init, LogInv
<1>3. ClaimInv
  BY HeldNone DEF Init, ClaimInv
<1>4. CtlInv
  BY EmptyLog DEF Init, CtlInv, CtlAt, OpenPlaces, Cursor0
<1> QED BY <1>1, <1>2, <1>3, <1>4 DEF Inv

LEMMA NextInv == Inv /\ [Next]_vars => Inv'
<1> SUFFICES ASSUME Inv, [Next]_vars PROVE Inv'
  OBVIOUS
<1>1. CASE Driver
  <2>1. life # "gone"
    BY <1>1 DEF Driver
  <2>2. CASE Turn
    BY <2>1, <2>2, TurnStep
  <2>3. CASE Claim
    BY <2>1, <2>3, ClaimStep
  <2>4. CASE Kick
    BY <2>1, <2>4, KickStep
  <2>5. CASE PreStepFails \/ PreStepRejects
    BY <2>1, <2>5, PreStepEndStep
  <2>6. CASE PreStepEnters
    BY <2>1, <2>6, PreStepEntersStep
  <2>7. CASE StepFails
    BY <2>1, <2>7, StepFailsStep
  <2>8. CASE \E e \in {"completed", "max-tokens", "null"} : StepSettles(e)
    BY <2>1, <2>8, StepSettlesStep
  <2>9. CASE StoppingSettles
    BY <2>1, <2>9, StoppingStep
  <2> QED BY <1>1, <2>2, <2>3, <2>4, <2>5, <2>6, <2>7, <2>8, <2>9 DEF Driver
<1>2. CASE Callers
  <2>1. ASSUME NEW m \in Msgs, followup(m) \/ steer(m) \/ inject(m) PROVE Inv'
    <3>1. PICK tgt \in Targets, wakeup \in BOOLEAN : Send(m, tgt, wakeup)
      BY <2>1, TargetsAre DEF followup, steer, inject
    <3> QED BY <3>1, SendStep
  <2>2. ASSUME NEW m \in Msgs, RemovePending(m) PROVE Inv'
    BY <2>2, RemoveStep
  <2>3. ASSUME NEW keep \in BOOLEAN, Cancel(keep) PROVE Inv'
    BY <2>3, CancelStep
  <2>4. CASE runMaintenance
    BY <2>4, MaintenanceStep
  <2> QED BY <1>2, <2>1, <2>2, <2>3, <2>4 DEF Callers
<1>3. CASE Lifecycle
  BY <1>3, DisposeStep, DetachStep, CrashStep, ResumeStep DEF Lifecycle
<1>4. CASE life # "gone" /\ MaintenanceDone
  BY <1>4, MaintenanceDoneStep
<1>5. CASE UNCHANGED vars
  <2>1. UNCHANGED <<life, phase, pc, abort, wakeRequested, turn, step, turnEnds, target, claimed,
                    ret, inbox, log, sent, owed, ops>>
    BY <1>5 DEF vars, driver
  <2>2. TypeOK'
    BY <2>1 DEF Inv, TypeOK
  <2>3. LogInv' /\ CtlInv' /\ ClaimInv'
    BY <2>1 DEF Inv, LogInv, CtlInv, ClaimInv
  <2> QED BY <2>2, <2>3 DEF Inv
<1> QED BY <1>1, <1>2, <1>3, <1>4, <1>5 DEF Next

LEMMA AlwaysInv == Spec => []Inv
  BY InitInv, NextInv, PTL DEF Spec

\* Every reachable state of the agent, its inbox and its log is well typed, for any set of
\* messages: no splice leaves its list and no event its set (agent.ts, inbox.ts).
THEOREM TypeCorrect == Spec => []TypeOK
<1>1. Inv => TypeOK
  BY DEF Inv
<1> QED BY <1>1, AlwaysInv, PTL

\* Turn and step boundaries nest and count in the live log, in any prefix a crash leaves and in
\* the repaired log, for any number of turns, steps, crashes and messages (agent.ts turn(),
\* repair.ts interruptedTurnClosers).
THEOREM BoundariesNest == Spec => []LogWellFormed
<1>1. Inv => LogWellFormed
  <2> SUFFICES ASSUME Inv PROVE LogWellFormed
    OBVIOUS
  <2>1. GoodLog(log)
    BY DEF Inv, LogInv, LogOK
  <2>2. DOMAIN log = 1..Len(log)
    BY <2>1, LenProperties DEF GoodLog
  <2>3. \A k \in DOMAIN log : InPlace(log, k, LogCursors(log)[k - 1])
    BY <2>1, <2>2 DEF GoodLog
  <2>4. life # "gone" /\ phase # "running" => ~LogCursor(log).open
    BY DEF Inv, CtlInv, CtlAt, OpenPlaces
  <2> QED BY <2>3, <2>4 DEF LogWellFormed
<1> QED BY <1>1, AlwaysInv, PTL

\* The live inbox is the replay of the splices of the log after any sends, claims, cancels,
\* removals, crashes and resumes (inbox.ts mutate, apply and the constructor).
THEOREM InboxReplays == Spec => []InboxIsReplay
<1>1. Inv => InboxIsReplay
  BY DEF Inv, LogInv, InboxIsReplay
<1> QED BY <1>1, AlwaysInv, PTL

\* A message enters the transcript at most once over all crashes and resumes, and one that
\* entered or that a claim holds is not pending (agent.ts preStep, inbox.ts claim).
THEOREM MessagesEnterOnce == Spec => []EntersOnce
<1>1. Inv => EntersOnce
  <2> SUFFICES ASSUME Inv, NEW m \in Msgs
               PROVE  LET entered == Where(LAMBDA e : e = UserMessage(m))
                      IN  /\ Cardinality(entered) <= 1
                          /\ life # "gone" /\ (entered # {} \/ m \in ToSet(claimed))
                               => m \notin Pending(inbox)
    BY DEF EntersOnce
  <2> DEFINE entered == {i \in DOMAIN log : log[i] = UserMessage(m)}
  <2>1. LogOK(log, sent) /\ claimed \in Seq(Msgs) /\ HeldAt(claimed, sent, log)
    BY DEF Inv, LogInv, TypeOK, ClaimInv
  <2>2. DOMAIN log = 1..Len(log)
    BY <2>1, LenProperties DEF LogOK, GoodLog
  <2>3. Cardinality(entered) <= 1
    <3>1. \A i, j \in entered : i = j
      BY <2>1, <2>2 DEF LogOK, GoodInbox
    <3>2. CASE entered = {}
      BY <3>2, FS_EmptySet
    <3>3. CASE entered # {}
      <4>1. PICK i : entered = {i}
        BY <3>1, <3>3
      <4>2. Cardinality(entered) = 1
        BY <4>1, FS_Singleton
      <4> QED BY <4>2
    <3> QED BY <3>2, <3>3
  <2>4. ASSUME life # "gone", entered # {} \/ m \in ToSet(claimed) PROVE m \notin Pending(inbox)
    <3>1. inbox = Replay(log)
      BY <2>4 DEF Inv, LogInv
    <3>2. CASE entered # {}
      <4>1. Has(log, UserMessage(m))
        BY <2>2, <3>2 DEF Has
      <4> QED BY <2>1, <3>1, <4>1, LastProjection DEF LogOK
    <3>3. CASE m \in ToSet(claimed)
      <4>1. PICK i \in 1..Len(claimed) : claimed[i] = m
        BY <2>1, <3>3, Items
      <4> QED BY <2>1, <3>1, <4>1 DEF HeldAt
    <3> QED BY <2>4, <3>2, <3>3
  <2>5. Where(LAMBDA e : e = UserMessage(m)) = entered
    BY DEF Where
  <2> HIDE DEF entered
  <2> QED BY <2>3, <2>4, <2>5
<1> QED BY <1>1, AlwaysInv, PTL
=============================================================================
