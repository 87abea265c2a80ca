----------------------------- MODULE TextProofs -----------------------------
(***************************************************************************)
(* What the readers of a text promise for every text: the scanner of       *)
(* formatting loses nothing, the regions of a document share it out, and   *)
(* a cursor is in the statement that the document has there.               *)
(***************************************************************************)
EXTENDS FormattedStatements, FiniteSetTheorems, TLAPS

(* Counting, and loops over lists, are as in the other proofs over data.   *)
Lists == INSTANCE RelationshipProofs

-----------------------------------------------------------------------------
(* A loop whose every round changes nothing or moves on.                   *)
MovesOn(S, at, step) ==
  /\ at \in [S -> Nat]
  /\ step \in [S -> S]
  /\ \A x \in S : step[x] = x \/ at[step[x]] > at[x]

(* f is what the state of a loop is after each number of rounds: it never  *)
(* goes back, and it has moved on by as much as there were rounds or       *)
(* stands still.                                                           *)
Ran(f, count, S, at, step, start) ==
  /\ f \in [0..count -> S]
  /\ f[0] = start
  /\ \A n \in 1..count : f[n] = step[f[n - 1]]
  /\ \A n \in 0..count : step[f[n]] = f[n] \/ at[f[n]] >= at[start] + n
  /\ \A m \in 0..count : \A n \in m..count :
       at[f[m]] <= at[f[n]] /\ (step[f[m]] = f[m] => f[n] = f[m])

Loops(f, count, S, step, start) ==
  f \in [0..count -> S] /\ \A n \in 0..count : f[n] = IF n = 0 THEN start ELSE step[f[n - 1]]

LEMMA LoopExists ==
  ASSUME NEW S, NEW step \in [S -> S], NEW start \in S, NEW count \in Nat
  PROVE  \E f : Loops(f, count, S, step, start)
<1> DEFINE steps == [n \in 1..count |-> step]
<1>1. steps \in [1..count -> [S -> S]]
  OBVIOUS
<1>2. PICK f : Lists!Steps(f, count, S, start, steps)
  <2> HIDE DEF steps
  <2> QED BY <1>1, Lists!Iterated
<1>3. \A n \in 1..count : steps[n] = step
  OBVIOUS
<1>4. f \in [0..count -> S] /\ \A n \in 0..count : f[n] = IF n = 0 THEN start ELSE steps[n][f[n - 1]]
  BY <1>2 DEF Lists!Steps
<1>5. \A n \in 0..count : f[n] = IF n = 0 THEN start ELSE step[f[n - 1]]
  <2> HIDE DEF steps
  <2> QED BY <1>3, <1>4
<1> QED BY <1>4, <1>5 DEF Loops

LEMMA LoopRan ==
  ASSUME NEW S, NEW at, NEW step, MovesOn(S, at, step), NEW start \in S, NEW count \in Nat,
         NEW f, DOMAIN f = 0..count, f = [n \in DOMAIN f |-> f[n]], f[0] = start,
         \A n \in 1..count : f[n - 1] \in S => f[n] = step[f[n - 1]]
  PROVE  Ran(f, count, S, at, step, start)
<1> DEFINE in == {n \in 0..count : f[n] \in S}
           moved == {n \in 0..count : step[f[n]] = f[n] \/ at[f[n]] >= at[start] + n}
<1>1. at \in [S -> Nat] /\ step \in [S -> S] /\ \A x \in S : step[x] = x \/ at[step[x]] > at[x]
  BY DEF MovesOn
<1>2. \A n \in 0..count : f[n] \in S
  <2>1. 0 \in in
    OBVIOUS
  <2>2. ASSUME NEW n \in 0..(count - 1), n \in in
        PROVE  n + 1 \in in
    <3>1. n + 1 \in 1..count /\ (n + 1) - 1 = n /\ f[n] \in S
      BY <2>2
    <3> QED BY <1>1, <3>1
  <2>3. \A n \in 0..count : n \in in
    <3> HIDE DEF in
    <3> QED BY <2>1, <2>2, Lists!Counting
  <2> QED BY <2>3
<1>3. \A n \in 1..count : f[n] = step[f[n - 1]]
  BY <1>2
<1>7. ASSUME NEW n \in 0..(count - 1)
      PROVE  /\ n + 1 \in 0..count /\ n \in 0..count /\ f[n] \in S /\ f[n + 1] \in S
             /\ f[n + 1] = step[f[n]]
  <2>1. n + 1 \in 1..count /\ (n + 1) - 1 = n /\ n \in 0..count
    OBVIOUS
  <2>2. f[n + 1] = step[f[(n + 1) - 1]]
    BY <1>3, <2>1
  <2> QED BY <1>2, <2>1, <2>2
<1>4. \A n \in 0..count : step[f[n]] = f[n] \/ at[f[n]] >= at[start] + n
  <2>1. 0 \in moved
    BY <1>1
  <2>2. ASSUME NEW n \in 0..(count - 1), n \in moved
        PROVE  n + 1 \in moved
    <3>1. n + 1 \in 0..count /\ n \in 0..count /\ f[n] \in S /\ f[n + 1] \in S /\ f[n + 1] = step[f[n]]
      BY <1>7
    <3>2. at[f[n]] \in Nat /\ at[f[n + 1]] \in Nat /\ at[start] \in Nat
      BY <1>1, <3>1
    <3>3. step[f[n + 1]] = f[n + 1] \/ at[f[n + 1]] >= at[start] + (n + 1)
      BY <1>1, <2>2, <3>1, <3>2
    <3> QED BY <3>1, <3>3
  <2>3. \A n \in 0..count : n \in moved
    <3> HIDE DEF moved
    <3> QED BY <2>1, <2>2, Lists!Counting
  <2> QED BY <2>3
<1>5. ASSUME NEW m \in 0..count
      PROVE  \A n \in m..count : at[f[m]] <= at[f[n]] /\ (step[f[m]] = f[m] => f[n] = f[m])
  <2> DEFINE on == {n \in 0..count : n < m \/ (at[f[m]] <= at[f[n]] /\ (step[f[m]] = f[m] => f[n] = f[m]))}
  <2>0. f[m] \in S /\ at[f[m]] \in Nat
    BY <1>1, <1>2
  <2>1. 0 \in on
    BY <2>0
  <2>2. ASSUME NEW n \in 0..(count - 1), n \in on
        PROVE  n + 1 \in on
    <3>1. n + 1 \in 0..count /\ n \in 0..count /\ f[n] \in S /\ f[n + 1] \in S /\ f[n + 1] = step[f[n]]
      BY <1>7
    <3>2. at[f[n]] \in Nat /\ at[f[n + 1]] \in Nat /\ at[f[n]] <= at[f[n + 1]]
      BY <1>1, <3>1
    <3>3. CASE n + 1 < m
      BY <3>1, <3>3
    <3>4. CASE n + 1 = m
      BY <2>0, <3>1, <3>4
    <3>5. CASE n >= m
      <4>1. at[f[m]] <= at[f[n]] /\ (step[f[m]] = f[m] => f[n] = f[m])
        BY <2>2, <3>5
      <4>2. at[f[m]] <= at[f[n + 1]] /\ (step[f[m]] = f[m] => f[n + 1] = f[m])
        BY <2>0, <3>1, <3>2, <4>1
      <4> QED BY <3>1, <4>2
    <3> QED BY <3>3, <3>4, <3>5
  <2>3. \A n \in 0..count : n \in on
    <3> HIDE DEF on
    <3> QED BY <2>1, <2>2, Lists!Counting
  <2> QED BY <2>3
<1>6. f \in [0..count -> S]
  BY <1>2
<1> QED BY <1>3, <1>4, <1>5, <1>6 DEF Ran

-----------------------------------------------------------------------------
LEMMA MinIsLeast ==
  ASSUME NEW S \in SUBSET Nat, S # {}
  PROVE  Min(S) \in S /\ \A n \in S : Min(S) <= n
BY Lists!LeastExists DEF Min

(* The symbols before the end of a run are of the run, and the one at its  *)
(* end is not.                                                             *)
LEMMA RunEndFacts ==
  ASSUME NEW T, NEW text \in Seq(T), NEW run, NEW i \in Nat
  PROVE  LET end == RunEnd(text, i, run)
         IN  /\ end \in Nat /\ end >= i
             /\ i <= Len(text) + 1 => end <= Len(text) + 1
             /\ \A j \in i..(end - 1) : j <= Len(text) /\ text[j] \in run
             /\ end <= Len(text) => text[end] \notin run
             /\ i > Len(text) => end = i
<1> DEFINE stops == {j \in i..Len(text) : text[j] \notin run}
           final == IF i > Len(text) THEN i ELSE Len(text) + 1
           end == Min(stops \cup {final})
<1>1. Len(text) \in Nat /\ final \in Nat /\ stops \cup {final} \in SUBSET Nat
  OBVIOUS
<1>2. end \in stops \cup {final} /\ \A j \in stops \cup {final} : end <= j
  <2> HIDE DEF stops, final
  <2> QED BY <1>1, MinIsLeast
<1>3. RunEnd(text, i, run) = end
  BY DEF RunEnd
<1> HIDE DEF end
<1>4. end \in Nat /\ end >= i /\ end <= final
  BY <1>1, <1>2
<1>5. ASSUME NEW j \in i..(end - 1)
      PROVE  j <= Len(text) /\ text[j] \in run
  BY <1>1, <1>2, <1>4
<1>6. ASSUME end <= Len(text)
      PROVE  text[end] \notin run
  BY <1>1, <1>2, <1>4, <1>6
<1> QED BY <1>3, <1>4, <1>5, <1>6

(* A text between two places of another one.                               *)
Cut(text, s, t) == SubSeq(text, s, t - 1)
IsCut(text, s, t) == s \in 1..(Len(text) + 1) /\ t \in s..(Len(text) + 1)

LEMMA CutFacts ==
  ASSUME NEW T, NEW text \in Seq(T), NEW s, NEW t, IsCut(text, s, t)
  PROVE  /\ Cut(text, s, t) \in Seq(T)
         /\ Len(Cut(text, s, t)) = t - s
         /\ s \in Nat /\ t \in Nat /\ 1 <= s /\ s <= t /\ t <= Len(text) + 1 /\ Len(text) \in Nat
         /\ At(Cut(text, s, t), t + 1 - s) = NoSymbol
<1>1. s \in Nat /\ t \in Nat /\ 1 <= s /\ s <= t /\ t <= Len(text) + 1 /\ Len(text) \in Nat
  BY DEF IsCut
<1>2. Cut(text, s, t) \in Seq(T) /\ Len(Cut(text, s, t)) = t - s
  BY <1>1 DEF Cut
<1>3. t + 1 - s \notin 1..(t - s)
  BY <1>1
<1> QED BY <1>1, <1>2, <1>3 DEF At

LEMMA CutAt ==
  ASSUME NEW T, NEW text \in Seq(T), NEW s, NEW t, IsCut(text, s, t), NEW i \in s..(t - 1)
  PROVE  /\ Cut(text, s, t)[i + 1 - s] = text[i]
         /\ At(Cut(text, s, t), i + 1 - s) = text[i]
         /\ At(text, i) = text[i]
<1>1. s \in Nat /\ t \in Nat /\ 1 <= s /\ s <= t /\ t <= Len(text) + 1 /\ Len(text) \in Nat
  BY DEF IsCut
<1>2. Len(Cut(text, s, t)) = t - s
  BY <1>1 DEF Cut
<1>3. Cut(text, s, t)[i + 1 - s] = text[i] /\ i + 1 - s \in 1..(t - s) /\ i \in 1..Len(text)
  BY <1>1 DEF Cut
<1> QED BY <1>1, <1>2, <1>3 DEF At

LEMMA RunEndCut ==
  ASSUME NEW T, NEW text \in Seq(T), NEW s, NEW t, IsCut(text, s, t), NEW run, NEW i \in s..t
  PROVE  LET end == RunEnd(text, i, run)
         IN  RunEnd(Cut(text, s, t), i + 1 - s, run) = IF end <= t THEN end + 1 - s ELSE t + 1 - s
<1> DEFINE cut == Cut(text, s, t)
           end == RunEnd(text, i, run)
           near == RunEnd(cut, i + 1 - s, run)
<1>1. /\ cut \in Seq(T) /\ Len(cut) = t - s
      /\ s \in Nat /\ t \in Nat /\ 1 <= s /\ s <= t /\ t <= Len(text) + 1 /\ Len(text) \in Nat
      /\ \A j \in s..(t - 1) : cut[j + 1 - s] = text[j]
  <2>1. ASSUME NEW j \in s..(t - 1)
        PROVE  Cut(text, s, t)[j + 1 - s] = text[j]
    BY CutAt
  <2>2. Cut(text, s, t) \in Seq(T) /\ Len(Cut(text, s, t)) = t - s
    BY CutFacts
  <2>3. s \in Nat /\ t \in Nat /\ 1 <= s /\ s <= t /\ t <= Len(text) + 1 /\ Len(text) \in Nat
    BY CutFacts
  <2> QED BY <2>1, <2>2, <2>3
<1>2. i \in Nat /\ i + 1 - s \in Nat /\ i <= Len(text) + 1
  BY <1>1
<1>3. /\ end \in Nat /\ end >= i
      /\ \A j \in i..(end - 1) : j <= Len(text) /\ text[j] \in run
      /\ end <= Len(text) => text[end] \notin run
  BY <1>2, RunEndFacts
<1>4. /\ near \in Nat /\ near >= i + 1 - s
      /\ near <= t + 1 - s
      /\ \A j \in (i + 1 - s)..(near - 1) : j <= Len(cut) /\ cut[j] \in run
      /\ near <= Len(cut) => cut[near] \notin run
  <2> HIDE DEF cut
  <2>1. near \in Nat /\ near >= i + 1 - s
      /\ (i + 1 - s <= Len(cut) + 1 => near <= Len(cut) + 1)
      /\ (\A j \in (i + 1 - s)..(near - 1) : j <= Len(cut) /\ cut[j] \in run)
      /\ (near <= Len(cut) => cut[near] \notin run)
    BY <1>1, <1>2, RunEndFacts
  <2> QED BY <1>1, <2>1
<1> HIDE DEF near, end, cut
<1> DEFINE far == near + s - 1
<1>5. far \in Nat /\ far >= i /\ far <= t /\ near = far + 1 - s
  BY <1>1, <1>2, <1>4
<1>6. \A j \in i..(far - 1) : text[j] \in run
  <2> TAKE j \in i..(far - 1)
  <2>1. j \in s..(t - 1) /\ j + 1 - s \in (i + 1 - s)..(near - 1)
    BY <1>1, <1>2, <1>5
  <2> QED BY <1>1, <1>4, <2>1
<1>7. far < t => text[far] \notin run
  <2> HAVE far < t
  <2>1. far \in s..(t - 1) /\ near <= Len(cut)
    BY <1>1, <1>2, <1>5
  <2> QED BY <1>1, <1>4, <1>5, <2>1
<1> HIDE DEF far
<1>8. ASSUME end <= t
      PROVE  near = end + 1 - s
  <2>1. ~(end < far)
    BY <1>1, <1>2, <1>3, <1>5, <1>6, <1>8
  <2>2. ~(far < end)
    BY <1>1, <1>2, <1>3, <1>5, <1>7, <1>8
  <2> QED BY <1>1, <1>3, <1>5, <1>8, <2>1, <2>2
<1>9. ASSUME end > t
      PROVE  near = t + 1 - s
  <2>1. ~(far < t)
    BY <1>1, <1>2, <1>3, <1>5, <1>6, <1>7, <1>9
  <2> QED BY <1>1, <1>3, <1>5, <1>9, <2>1
<1>10. near = IF end <= t THEN end + 1 - s ELSE t + 1 - s
  BY <1>1, <1>3, <1>8, <1>9
<1> QED BY <1>10 DEF near, end, cut

-----------------------------------------------------------------------------
(* The loop over a quoted text.                                            *)
Places(text, i) == i..(Len(text) + 1)
Place(text, i) == [j \in Places(text, i) |-> j]
Quoting(text, quote, i) == [j \in Places(text, i) |-> QuoteRound(text, quote, j)]
QuoteRan(f, text, quote, i) == Ran(f, Len(text), Places(text, i), Place(text, i), Quoting(text, quote, i), i)

LEMMA QuotingMoves ==
  ASSUME NEW T, NEW text \in Seq(T), NEW quote, quote # NoSymbol, NEW i \in 1..(Len(text) + 1)
  PROVE  MovesOn(Places(text, i), Place(text, i), Quoting(text, quote, i))
<1> DEFINE S == Places(text, i)
<1>1. Len(text) \in Nat /\ i \in Nat
  OBVIOUS
<1>2. ASSUME NEW j \in S
      PROVE  /\ QuoteRound(text, quote, j) \in S /\ j \in Nat
             /\ QuoteRound(text, quote, j) = j \/ QuoteRound(text, quote, j) > j
  BY <1>1, <1>2 DEF QuoteRound, Places, At
<1>3. \A j \in S : Place(text, i)[j] = j /\ Quoting(text, quote, i)[j] = QuoteRound(text, quote, j)
  BY DEF Place, Quoting
<1>4. Quoting(text, quote, i) \in [S -> S] /\ Place(text, i) \in [S -> Nat]
  BY <1>2 DEF Quoting, Place
<1> HIDE DEF S
<1> QED BY <1>2, <1>3, <1>4 DEF MovesOn, S

LEMMA ClosingQuoteRan ==
  ASSUME NEW T, NEW text \in Seq(T), NEW quote, quote # NoSymbol, NEW i \in 1..(Len(text) + 1)
  PROVE  \E f : QuoteRan(f, text, quote, i) /\ ClosingQuote(text, i, quote) = f[Len(text)]
<1> DEFINE S == Places(text, i)
           count == Len(text)
           step == Quoting(text, quote, i)
           IsLoop(f) == f = [n \in 0..count |-> IF n = 0 THEN i ELSE QuoteRound(text, quote, f[n - 1])]
           after == CHOOSE f : IsLoop(f)
<1>1. MovesOn(S, Place(text, i), step) /\ count \in Nat /\ i \in S
  BY QuotingMoves DEF Places
<1>2. \A j \in S : step[j] = QuoteRound(text, quote, j)
  BY DEF Quoting
<1>3. step \in [S -> S]
  BY <1>1 DEF MovesOn
<1>4. \E f : IsLoop(f)
  <2>0. PICK f : Loops(f, count, S, step, i)
    <3>1. count \in Nat /\ i \in S
      BY <1>1
    <3> HIDE DEF S, count, step
    <3> QED BY <1>3, <3>1, LoopExists
  <2>1. f \in [0..count -> S] /\ \A n \in 0..count : f[n] = IF n = 0 THEN i ELSE step[f[n - 1]]
    BY <2>0 DEF Loops
  <2>2. ASSUME NEW n \in 0..count
        PROVE  f[n] = IF n = 0 THEN i ELSE QuoteRound(text, quote, f[n - 1])
    <3>1. n # 0 => f[n - 1] \in S
      BY <1>1, <2>1
    <3> HIDE DEF S, step
    <3> QED BY <1>2, <2>1, <3>1
  <2>3. IsLoop(f)
    BY <2>1, <2>2
  <2> QED BY <2>3
<1>5. IsLoop(after)
  BY <1>4
<1>6. ClosingQuote(text, i, quote) = after[count]
  BY DEF ClosingQuote, Rounds
<1> HIDE DEF after
<1>7. /\ DOMAIN after = 0..count /\ after = [n \in DOMAIN after |-> after[n]] /\ after[0] = i
      /\ \A n \in 1..count : after[n] = QuoteRound(text, quote, after[n - 1])
  BY <1>1, <1>5
<1>8. Ran(after, count, S, Place(text, i), step, i)
  <2> HIDE DEF S, count, step
  <2>1. \A n \in 1..count : after[n - 1] \in S => after[n] = step[after[n - 1]]
    BY <1>2, <1>7
  <2> QED BY <1>1, <1>7, <2>1, LoopRan
<1> QED BY <1>6, <1>8 DEF QuoteRan

(* f is where the loop is after each number of rounds.                     *)
QuoteSeen(f, text, quote, i) ==
  /\ f[0] = i
  /\ \A n \in 1..Len(text) : f[n] = QuoteRound(text, quote, f[n - 1])
  /\ \A n \in 0..Len(text) : /\ f[n] \in i..(Len(text) + 1) /\ f[n] <= f[Len(text)]
                             /\ f[n] = f[Len(text)] \/ f[n] >= i + n

LEMMA QuoteSteps ==
  ASSUME NEW T, NEW text \in Seq(T), NEW quote, quote # NoSymbol, NEW i \in 1..(Len(text) + 1),
         NEW f, QuoteRan(f, text, quote, i)
  PROVE  QuoteSeen(f, text, quote, i)
<1> DEFINE S == Places(text, i)
           count == Len(text)
<1>1. /\ f \in [0..count -> S]
      /\ f[0] = i
      /\ \A n \in 1..count : f[n] = Quoting(text, quote, i)[f[n - 1]]
      /\ \A n \in 0..count : \/ Quoting(text, quote, i)[f[n]] = f[n]
                             \/ Place(text, i)[f[n]] >= Place(text, i)[i] + n
      /\ \A m \in 0..count : \A n \in m..count :
           /\ Place(text, i)[f[m]] <= Place(text, i)[f[n]]
           /\ Quoting(text, quote, i)[f[m]] = f[m] => f[n] = f[m]
  BY DEF QuoteRan, Ran
<1>2. count \in Nat /\ i \in S
  BY DEF Places
<1>3. \A j \in S : Place(text, i)[j] = j /\ Quoting(text, quote, i)[j] = QuoteRound(text, quote, j)
  BY DEF Place, Quoting
<1>4. \A n \in 0..count : f[n] \in S /\ count \in n..count
  BY <1>1, <1>2
<1> HIDE DEF S, count
<1>5. ASSUME NEW n \in 0..count
      PROVE  /\ f[n] <= f[count]
             /\ f[n] = f[count] \/ f[n] >= i + n
  <2>1. f[n] \in S /\ f[count] \in S /\ count \in n..count /\ count \in 0..count
    BY <1>2, <1>4
  <2>2. /\ Place(text, i)[f[n]] <= Place(text, i)[f[count]]
        /\ Quoting(text, quote, i)[f[n]] = f[n] => f[count] = f[n]
    BY <1>1, <2>1
  <2>3. \/ Quoting(text, quote, i)[f[n]] = f[n]
        \/ Place(text, i)[f[n]] >= Place(text, i)[i] + n
    BY <1>1
  <2> QED BY <1>2, <1>3, <2>1, <2>2, <2>3
<1>6. ASSUME NEW n \in 1..count
      PROVE  f[n] = QuoteRound(text, quote, f[n - 1])
  <2>1. n - 1 \in 0..count
    BY <1>2
  <2> QED BY <1>1, <1>3, <1>4, <2>1
<1> QED BY <1>1, <1>4, <1>5, <1>6 DEF S, count, Places, QuoteSeen

(* The end of a quoted text is after its beginning and in the text.        *)
LEMMA QuoteEndFacts ==
  ASSUME NEW T, NEW text \in Seq(T), NEW quote, quote # NoSymbol, NEW i \in 1..(Len(text) + 1)
  PROVE  QuoteEnd(text, i, quote) \in {Unterminated} \cup (i + 1)..(Len(text) + 1)
<1>1. PICK f : QuoteRan(f, text, quote, i) /\ ClosingQuote(text, i, quote) = f[Len(text)]
  BY ClosingQuoteRan
<1>2. Len(text) \in 0..Len(text)
  OBVIOUS
<1>4. QuoteSeen(f, text, quote, i)
  BY <1>1, QuoteSteps
<1>3. f[Len(text)] \in i..(Len(text) + 1)
  BY <1>2, <1>4 DEF QuoteSeen
<1> QED BY <1>1, <1>3 DEF QuoteEnd

(* What is cut out with its closing quote ends there too.                  *)
LEMMA QuoteEndCut ==
  ASSUME NEW T, NEW text \in Seq(T), NEW s, NEW t, IsCut(text, s, t), NEW quote, quote # NoSymbol,
         NEW i \in s..t, QuoteEnd(text, i, quote) # Unterminated, QuoteEnd(text, i, quote) <= t
  PROVE  QuoteEnd(Cut(text, s, t), i + 1 - s, quote) = QuoteEnd(text, i, quote) + 1 - s
<1> DEFINE cut == Cut(text, s, t)
           j == i + 1 - s
<1>1. /\ cut \in Seq(T) /\ Len(cut) = t - s
      /\ s \in Nat /\ t \in Nat /\ 1 <= s /\ s <= t /\ t <= Len(text) + 1 /\ Len(text) \in Nat
      /\ At(cut, t + 1 - s) = NoSymbol
  BY CutFacts
<1>2. \A p \in s..(t - 1) : At(cut, p + 1 - s) = At(text, p)
  <2> TAKE p \in s..(t - 1)
  <2> QED BY CutAt
<1>3. i \in 1..(Len(text) + 1) /\ j \in 1..(Len(cut) + 1) /\ Len(cut) \in 0..Len(text)
  BY <1>1
<1> HIDE DEF cut, j
<1>4. PICK f : QuoteRan(f, text, quote, i) /\ ClosingQuote(text, i, quote) = f[Len(text)]
  BY <1>3, ClosingQuoteRan
<1>5. PICK g : QuoteRan(g, cut, quote, j) /\ ClosingQuote(cut, j, quote) = g[Len(cut)]
  BY <1>1, <1>3, ClosingQuoteRan
<1> DEFINE c == f[Len(text)]
<1>6. /\ \A n \in 0..Len(text) : f[n] \in i..(Len(text) + 1) /\ f[n] <= c
      /\ f[0] = i
      /\ \A n \in 1..Len(text) : f[n] = QuoteRound(text, quote, f[n - 1])
      /\ \A n \in 0..Len(text) : f[n] = c \/ f[n] >= i + n
  <2>1. QuoteSeen(f, text, quote, i)
    BY <1>3, <1>4, QuoteSteps
  <2> QED BY <2>1 DEF QuoteSeen
<1>7. /\ g[0] = j
      /\ \A n \in 1..Len(cut) : g[n] = QuoteRound(cut, quote, g[n - 1])
  <2>1. QuoteSeen(g, cut, quote, j)
    BY <1>1, <1>3, <1>5, QuoteSteps
  <2> QED BY <2>1 DEF QuoteSeen
<1>8. c \in i..Len(text) /\ c + 1 <= t /\ QuoteEnd(text, i, quote) = c + 1
  BY <1>1, <1>3, <1>4, <1>6 DEF QuoteEnd
<1> HIDE DEF c
<1> DEFINE same == {n \in 0..Len(cut) : g[n] = f[n] + 1 - s}
<1>9. 0 \in same
  BY <1>3, <1>6, <1>7 DEF j
<1>10. ASSUME NEW n \in 0..(Len(cut) - 1), n \in same
       PROVE  n + 1 \in same
  <2> DEFINE p == f[n]
  <2>1. n \in 0..Len(text) /\ n + 1 \in 1..Len(text) /\ n + 1 \in 1..Len(cut) /\ (n + 1) - 1 = n
    BY <1>3
  <2>2. p \in i..c /\ p \in s..(t - 1) /\ p <= Len(text) /\ f[n + 1] <= c
    BY <1>1, <1>3, <1>6, <1>8, <2>1
  <2>3. f[n + 1] = QuoteRound(text, quote, p)
    BY <1>6, <2>1
  <2>4. g[n + 1] = QuoteRound(cut, quote, p + 1 - s)
    BY <1>7, <1>10, <2>1
  <2>5. At(cut, p + 1 - s) = At(text, p)
    BY <1>2, <2>2
  <2>6. p + 1 < t => At(cut, (p + 1 - s) + 1) = At(text, p + 1)
    <3> HAVE p + 1 < t
    <3>1. p + 1 \in s..(t - 1) /\ (p + 1) + 1 - s = (p + 1 - s) + 1
      BY <1>1, <1>3, <2>2
    <3> QED BY <1>2, <3>1
  <2>7. p + 1 = t => At(cut, (p + 1 - s) + 1) = NoSymbol /\ p = c
    <3> HAVE p + 1 = t
    <3>1. (p + 1 - s) + 1 = t + 1 - s
      BY <1>1, <1>3, <2>2
    <3> QED BY <1>1, <1>3, <1>8, <2>2, <3>1
  <2> HIDE DEF p
  <2>8. g[n + 1] = f[n + 1] + 1 - s
    BY <1>1, <1>3, <1>8, <2>2, <2>3, <2>4, <2>5, <2>6, <2>7 DEF QuoteRound
  <2> QED BY <2>1, <2>8
<1>11. Len(cut) \in same
  <2>1. \A n \in 0..Len(cut) : n \in same
    <3> HIDE DEF same
    <3>1. Len(cut) \in Nat
      BY <1>1, <1>3
    <3> QED BY <1>9, <1>10, <3>1, Lists!Counting
  <2> QED BY <1>3, <2>1
<1>12. f[Len(cut)] = c
  <2>1. f[Len(cut)] \in i..(Len(text) + 1) /\ f[Len(cut)] <= c /\ (f[Len(cut)] = c \/ f[Len(cut)] >= i + (t - s))
    BY <1>1, <1>3, <1>6
  <2> QED BY <1>1, <1>3, <1>8, <2>1
<1>13. ClosingQuote(cut, j, quote) = c + 1 - s
  BY <1>5, <1>11, <1>12
<1>14. QuoteEnd(cut, j, quote) = c + 1 - s + 1
  BY <1>1, <1>3, <1>8, <1>13 DEF QuoteEnd
<1>15. QuoteEnd(cut, j, quote) = QuoteEnd(text, i, quote) + 1 - s
  BY <1>1, <1>3, <1>8, <1>14
<1> QED BY <1>15 DEF cut, j

-----------------------------------------------------------------------------
(* The end of a text is none of its symbols.                               *)
LEMMA NoSymbolIsNone ==
  /\ NoSymbol \notin Special /\ NoSymbol \notin {"x", "N", "e"}
  /\ NoSymbol \notin Digit /\ NoSymbol \notin HexDigit /\ NoSymbol \notin Blank
  /\ NoSymbol \notin IdentifierStart /\ NoSymbol \notin IdentifierPart
BY DEF NoSymbol, Special, Digit, HexDigit, Blank, IdentifierStart, IdentifierPart

(* The loop over a block comment.                                          *)
Depths(text, i) == [at : Places(text, i), depth : Nat]
DepthPlace(text, i) == [seen \in Depths(text, i) |-> seen.at]
Commenting(text, i) == [seen \in Depths(text, i) |-> CommentRound(text, seen)]
Opening(i) == [at |-> i, depth |-> 1]

LEMMA CommentingMoves ==
  ASSUME NEW T, NEW text \in Seq(T), NEW i \in 1..(Len(text) + 1)
  PROVE  MovesOn(Depths(text, i), DepthPlace(text, i), Commenting(text, i))
<1> DEFINE S == Depths(text, i)
<1>1. Len(text) \in Nat /\ i \in Nat
  OBVIOUS
<1>2. ASSUME NEW seen \in S
      PROVE  /\ CommentRound(text, seen) \in S /\ seen.at \in Nat
             /\ CommentRound(text, seen) = seen \/ CommentRound(text, seen).at > seen.at
  <2>1. seen.at \in i..(Len(text) + 1) /\ seen.depth \in Nat
    BY DEF Depths, Places
  <2>2. ASSUME seen.depth # 0, ~(seen.at > Len(text))
        PROVE  CommentRound(text, seen) \in S /\ CommentRound(text, seen).at > seen.at
    <3> DEFINE pair == <<At(text, seen.at), At(text, seen.at + 1)>>
    <3>1. pair = <<"/", "*">> \/ pair = <<"*", "/">> => seen.at + 1 <= Len(text)
      <4>1. At(text, seen.at + 1) # NoSymbol => seen.at + 1 <= Len(text)
        BY <1>1, <2>1 DEF At
      <4>2. "*" # NoSymbol /\ "/" # NoSymbol
        BY NoSymbolIsNone DEF Special
      <4> QED BY <4>1, <4>2
    <3>2. /\ pair = <<"/", "*">> => CommentRound(text, seen) = [at |-> seen.at + 2, depth |-> seen.depth + 1]
          /\ pair = <<"*", "/">> => CommentRound(text, seen) = [at |-> seen.at + 2, depth |-> seen.depth - 1]
          /\ (pair # <<"/", "*">> /\ pair # <<"*", "/">>) =>
               CommentRound(text, seen) = [at |-> seen.at + 1, depth |-> seen.depth]
      BY <2>2 DEF CommentRound
    <3> HIDE DEF pair
    <3> QED BY <1>1, <2>1, <2>2, <3>1, <3>2 DEF Depths, Places
  <2>3. seen.depth = 0 \/ seen.at > Len(text) => CommentRound(text, seen) = seen
    BY DEF CommentRound
  <2> QED BY <1>1, <2>1, <2>2, <2>3
<1>3. \A seen \in S : DepthPlace(text, i)[seen] = seen.at /\ Commenting(text, i)[seen] = CommentRound(text, seen)
  BY DEF DepthPlace, Commenting
<1>4. Commenting(text, i) \in [S -> S] /\ DepthPlace(text, i) \in [S -> Nat]
  BY <1>2 DEF Commenting, DepthPlace
<1> HIDE DEF S
<1> QED BY <1>2, <1>3, <1>4 DEF MovesOn, S

(* f is what the loop has seen after each number of rounds.                *)
CommentSeen(f, text, i) ==
  /\ f[0] = Opening(i)
  /\ \A n \in 1..Len(text) : f[n] = CommentRound(text, f[n - 1])
  /\ \A n \in 0..Len(text) : /\ f[n] \in Depths(text, i) /\ f[n].at <= f[Len(text)].at
                             /\ f[n] = f[Len(text)] \/ f[n].at >= i + n
                             /\ CommentRound(text, f[n]) = f[n] => f[n] = f[Len(text)]

LEMMA CommentRan ==
  ASSUME NEW T, NEW text \in Seq(T), NEW i \in 1..(Len(text) + 1)
  PROVE  \E f : /\ CommentSeen(f, text, i)
                /\ CommentEnd(text, i) = IF f[Len(text)].depth > 0 THEN Unterminated ELSE f[Len(text)].at
<1> DEFINE S == Depths(text, i)
           count == Len(text)
           step == Commenting(text, i)
           at == DepthPlace(text, i)
           start == Opening(i)
           IsLoop(f) == f = [n \in 0..count |-> IF n = 0 THEN Opening(i) ELSE CommentRound(text, f[n - 1])]
           after == CHOOSE f : IsLoop(f)
<1>1. MovesOn(S, at, step) /\ count \in Nat /\ start \in S
  BY CommentingMoves DEF Depths, Places, Opening
<1>2. \A x \in S : step[x] = CommentRound(text, x) /\ at[x] = x.at
  BY DEF Commenting, DepthPlace
<1>3. step \in [S -> S]
  BY <1>1 DEF MovesOn
<1>4. \E f : IsLoop(f)
  <2>0. PICK f : Loops(f, count, S, step, start)
    <3>1. count \in Nat /\ start \in S
      BY <1>1
    <3> HIDE DEF S, count, step, start
    <3> QED BY <1>3, <3>1, LoopExists
  <2>1. f \in [0..count -> S] /\ \A n \in 0..count : f[n] = IF n = 0 THEN start ELSE step[f[n - 1]]
    BY <2>0 DEF Loops
  <2>2. ASSUME NEW n \in 0..count
        PROVE  f[n] = IF n = 0 THEN Opening(i) ELSE CommentRound(text, f[n - 1])
    <3>1. n # 0 => f[n - 1] \in S
      BY <1>1, <2>1
    <3> HIDE DEF S, step
    <3> QED BY <1>2, <2>1, <3>1
  <2>3. IsLoop(f)
    BY <2>1, <2>2
  <2> QED BY <2>3
<1>5. IsLoop(after)
  BY <1>4
<1>6. CommentEnd(text, i) = IF after[count].depth > 0 THEN Unterminated ELSE after[count].at
  BY DEF CommentEnd, Rounds, Opening
<1> HIDE DEF after
<1>7. /\ DOMAIN after = 0..count /\ after = [n \in DOMAIN after |-> after[n]] /\ after[0] = start
      /\ \A n \in 1..count : after[n] = CommentRound(text, after[n - 1])
  BY <1>1, <1>5
<1>8. Ran(after, count, S, at, step, start)
  <2> HIDE DEF S, count, step, at, start
  <2>1. \A n \in 1..count : after[n - 1] \in S => after[n] = step[after[n - 1]]
    BY <1>2, <1>7
  <2> QED BY <1>1, <1>7, <2>1, LoopRan
<1>9. start.at = i /\ at[start] = i
  BY <1>1, <1>2 DEF Opening
<1> HIDE DEF S, count, step, at, start
<1>10. ASSUME NEW n \in 0..count
       PROVE  /\ after[n] \in S /\ after[n].at <= after[count].at
              /\ after[n] = after[count] \/ after[n].at >= i + n
              /\ CommentRound(text, after[n]) = after[n] => after[n] = after[count]
  <2>1. n \in 0..count /\ count \in n..count /\ count \in 0..count
    BY <1>1
  <2>2. after \in [0..count -> S]
    BY <1>8 DEF Ran
  <2>3. /\ after[n] \in S /\ after[count] \in S
    BY <2>1, <2>2
  <2>4. /\ at[after[n]] <= at[after[count]]
        /\ step[after[n]] = after[n] => after[count] = after[n]
        /\ step[after[n]] = after[n] \/ at[after[n]] >= at[start] + n
    BY <1>8, <2>1 DEF Ran
  <2> QED BY <1>2, <1>9, <2>3, <2>4
<1>11. CommentSeen(after, text, i)
  BY <1>7, <1>10 DEF CommentSeen, S, count, start
<1> QED BY <1>6, <1>11 DEF count

LEMMA CommentEndFacts ==
  ASSUME NEW T, NEW text \in Seq(T), NEW i \in 1..(Len(text) + 1)
  PROVE  CommentEnd(text, i) \in {Unterminated} \cup i..(Len(text) + 1)
<1>1. PICK f : /\ CommentSeen(f, text, i)
               /\ CommentEnd(text, i) = IF f[Len(text)].depth > 0 THEN Unterminated ELSE f[Len(text)].at
  BY CommentRan
<1>2. Len(text) \in 0..Len(text)
  OBVIOUS
<1>3. f[Len(text)] \in Depths(text, i)
  BY <1>1, <1>2 DEF CommentSeen
<1> QED BY <1>1, <1>3 DEF Depths, Places

(* What is cut out with the end of its comment ends there too.             *)
LEMMA CommentEndCut ==
  ASSUME NEW T, NEW text \in Seq(T), NEW s, NEW t, IsCut(text, s, t),
         NEW i \in s..t, CommentEnd(text, i) # Unterminated, CommentEnd(text, i) <= t
  PROVE  CommentEnd(Cut(text, s, t), i + 1 - s) = CommentEnd(text, i) + 1 - s
<1> DEFINE cut == Cut(text, s, t)
           j == i + 1 - s
<1>1. /\ cut \in Seq(T) /\ Len(cut) = t - s
      /\ s \in Nat /\ t \in Nat /\ 1 <= s /\ s <= t /\ t <= Len(text) + 1 /\ Len(text) \in Nat
      /\ At(cut, t + 1 - s) = NoSymbol
  BY CutFacts
<1>2. \A p \in s..(t - 1) : At(cut, p + 1 - s) = At(text, p)
  <2> TAKE p \in s..(t - 1)
  <2> QED BY CutAt
<1>3. i \in 1..(Len(text) + 1) /\ j \in 1..(Len(cut) + 1) /\ Len(cut) \in 0..Len(text)
  BY <1>1
<1> HIDE DEF cut, j
<1>4. PICK f : /\ CommentSeen(f, text, i)
               /\ CommentEnd(text, i) = IF f[Len(text)].depth > 0 THEN Unterminated ELSE f[Len(text)].at
  BY <1>3, CommentRan
<1>5. PICK g : /\ CommentSeen(g, cut, j)
               /\ CommentEnd(cut, j) = IF g[Len(cut)].depth > 0 THEN Unterminated ELSE g[Len(cut)].at
  BY <1>1, <1>3, CommentRan
<1> DEFINE end == f[Len(text)].at
<1>6. /\ \A n \in 0..Len(text) : /\ f[n].at \in i..(Len(text) + 1) /\ f[n].depth \in Nat
                                 /\ f[n].at <= end
                                 /\ f[n] = [at |-> f[n].at, depth |-> f[n].depth]
                                 /\ f[n] = f[Len(text)] \/ f[n].at >= i + n
                                 /\ CommentRound(text, f[n]) = f[n] => f[n] = f[Len(text)]
      /\ f[0] = Opening(i)
      /\ \A n \in 1..Len(text) : f[n] = CommentRound(text, f[n - 1])
  BY <1>4 DEF CommentSeen, Depths, Places
<1>7. /\ g[0] = Opening(j)
      /\ \A n \in 1..Len(cut) : g[n] = CommentRound(cut, g[n - 1])
  BY <1>5 DEF CommentSeen
<1>8. f[Len(text)].depth = 0 /\ end \in i..t /\ CommentEnd(text, i) = end
  <2>1. Len(text) \in 0..Len(text)
    BY <1>1
  <2>2. f[Len(text)].depth \in Nat /\ end \in i..(Len(text) + 1)
    BY <1>6, <2>1
  <2> QED BY <1>1, <1>3, <1>4, <2>2
<1>9. ASSUME NEW n \in 0..Len(text), f[n].depth # 0
      PROVE  f[n].at < end
  <2>1. f[n].at \in i..(Len(text) + 1) /\ f[n].depth \in Nat /\ f[n].at <= end
    BY <1>6
  <2>2. f[n] # f[Len(text)]
    BY <1>8, <1>9
  <2>3. n + 1 \in 0..Len(text) /\ n + 1 \in 1..Len(text) /\ (n + 1) - 1 = n
    <3>1. n # Len(text)
      BY <2>2
    <3> QED BY <1>1, <3>1
  <2>4. f[n + 1] = CommentRound(text, f[n]) /\ f[n + 1] # f[n] /\ f[n + 1].at <= end
    BY <1>6, <2>2, <2>3
  <2>5. ~(f[n].at > Len(text))
    BY <1>9, <2>4 DEF CommentRound
  <2>6. f[n + 1].at > f[n].at
    BY <1>9, <2>1, <2>4, <2>5 DEF CommentRound
  <2>7. f[n + 1].at \in i..(Len(text) + 1)
    BY <1>6, <2>3
  <2> QED BY <1>1, <1>3, <1>8, <2>1, <2>4, <2>6, <2>7
<1> HIDE DEF end
<1> DEFINE same == {n \in 0..Len(cut) : g[n] = [at |-> f[n].at + 1 - s, depth |-> f[n].depth]}
<1>10. 0 \in same
  BY <1>1, <1>3, <1>6, <1>7 DEF j, Opening
<1>11. ASSUME NEW n \in 0..(Len(cut) - 1), n \in same
       PROVE  n + 1 \in same
  <2> DEFINE p == f[n].at
             d == f[n].depth
             q == p + 1 - s
             one == [at |-> p, depth |-> d]
             two == [at |-> q, depth |-> d]
  <2>1. n \in 0..Len(text) /\ n + 1 \in 1..Len(text) /\ n + 1 \in 1..Len(cut) /\ (n + 1) - 1 = n /\ n + 1 \in 0..Len(text)
    BY <1>1, <1>3
  <2>2. p \in i..end /\ d \in Nat /\ f[n + 1].at <= end /\ p \in Nat /\ p >= s
    <3>1. p \in i..(Len(text) + 1) /\ d \in Nat /\ p <= end
      BY <1>6, <2>1
    <3>2. f[n + 1].at <= end
      BY <1>6, <2>1
    <3> QED BY <1>1, <1>3, <1>8, <3>1, <3>2
  <2>3. f[n + 1] = CommentRound(text, one) /\ one = f[n]
    BY <1>6, <2>1
  <2>4. g[n + 1] = CommentRound(cut, two)
    BY <1>7, <1>11, <2>1
  <2>5. d # 0 => p < end
    BY <1>9, <2>1
  <2> HIDE DEF p, d, q
  <2>6. CASE d = 0
    <3>1. f[n + 1] = one /\ g[n + 1] = two
      BY <2>3, <2>4, <2>6 DEF CommentRound
    <3> QED BY <2>1, <3>1 DEF q
  <2>7. CASE d # 0
    <3>1. p \in s..(t - 1) /\ p <= Len(text) /\ q <= Len(cut)
      BY <1>1, <1>3, <1>8, <2>2, <2>5, <2>7 DEF q
    <3>2. At(cut, q) = At(text, p)
      BY <1>2, <3>1 DEF q
    <3>3. p + 1 < t => At(cut, q + 1) = At(text, p + 1)
      <4> HAVE p + 1 < t
      <4>1. p + 1 \in s..(t - 1) /\ (p + 1) + 1 - s = q + 1
        BY <1>1, <2>2, <3>1 DEF q
      <4> QED BY <1>2, <4>1
    <3>4. p + 1 = t => At(cut, q + 1) = NoSymbol /\ f[n + 1].at < p + 2
      <4> HAVE p + 1 = t
      <4>1. q + 1 = t + 1 - s
        BY <1>1, <2>2 DEF q
      <4>2. f[n + 1].at \in i..(Len(text) + 1)
        BY <1>6, <2>1
      <4> QED BY <1>1, <1>3, <1>8, <2>2, <4>1, <4>2
    <3>5. "*" # NoSymbol /\ "/" # NoSymbol
      BY NoSymbolIsNone DEF Special
    <3> DEFINE pair == <<At(text, p), At(text, p + 1)>>
               near == <<At(cut, q), At(cut, q + 1)>>
    <3>6. /\ pair = <<"/", "*">> => f[n + 1] = [at |-> p + 2, depth |-> d + 1]
          /\ pair = <<"*", "/">> => f[n + 1] = [at |-> p + 2, depth |-> d - 1]
          /\ (pair # <<"/", "*">> /\ pair # <<"*", "/">>) => f[n + 1] = [at |-> p + 1, depth |-> d]
      BY <2>2, <2>3, <2>7, <3>1 DEF CommentRound
    <3>7. /\ near = <<"/", "*">> => g[n + 1] = [at |-> q + 2, depth |-> d + 1]
          /\ near = <<"*", "/">> => g[n + 1] = [at |-> q + 2, depth |-> d - 1]
          /\ (near # <<"/", "*">> /\ near # <<"*", "/">>) => g[n + 1] = [at |-> q + 1, depth |-> d]
      BY <1>1, <2>2, <2>4, <2>7, <3>1 DEF CommentRound, q
    <3>8. CASE p + 1 < t
      <4>1. near = pair
        BY <3>2, <3>3, <3>8
      <4> HIDE DEF near, pair
      <4>3. q \in Nat /\ s \in Nat /\ q = p + 1 - s /\ p \in Nat /\ d \in Nat /\ p >= s
        BY <1>1, <2>2 DEF q
      <4>4. CASE pair = <<"/", "*">>
        <5>1. f[n + 1] = [at |-> p + 2, depth |-> d + 1] /\ g[n + 1] = [at |-> q + 2, depth |-> d + 1]
          BY <3>6, <3>7, <4>1, <4>4
        <5> QED BY <2>1, <4>3, <5>1
      <4>5. CASE pair = <<"*", "/">>
        <5>1. f[n + 1] = [at |-> p + 2, depth |-> d - 1] /\ g[n + 1] = [at |-> q + 2, depth |-> d - 1]
          BY <3>6, <3>7, <4>1, <4>5
        <5> QED BY <2>1, <4>3, <5>1
      <4>6. CASE pair # <<"/", "*">> /\ pair # <<"*", "/">>
        <5>1. f[n + 1] = [at |-> p + 1, depth |-> d] /\ g[n + 1] = [at |-> q + 1, depth |-> d]
          BY <3>6, <3>7, <4>1, <4>6
        <5> QED BY <2>1, <4>3, <5>1
      <4> QED BY <4>4, <4>5, <4>6
    <3>9. CASE p + 1 = t
      <4>1. near # <<"/", "*">> /\ near # <<"*", "/">>
        BY <3>4, <3>5, <3>9
      <4>2. pair # <<"/", "*">> /\ pair # <<"*", "/">>
        BY <2>2, <3>4, <3>6, <3>9
      <4> HIDE DEF near, pair
      <4>3. g[n + 1] = [at |-> f[n + 1].at + 1 - s, depth |-> f[n + 1].depth]
        BY <1>1, <2>2, <3>6, <3>7, <4>1, <4>2 DEF q
      <4> QED BY <2>1, <4>3
    <3> QED BY <1>1, <3>1, <3>8, <3>9
  <2> QED BY <2>2, <2>6, <2>7
<1>12. Len(cut) \in same
  <2>1. \A n \in 0..Len(cut) : n \in same
    <3> HIDE DEF same
    <3>1. Len(cut) \in Nat
      BY <1>1, <1>3
    <3> QED BY <1>10, <1>11, <3>1, Lists!Counting
  <2> QED BY <1>1, <1>3, <2>1
<1>13. f[Len(cut)] = f[Len(text)]
  <2>1. /\ f[Len(cut)].at \in i..(Len(text) + 1) /\ f[Len(cut)].at <= end
        /\ f[Len(cut)] = f[Len(text)] \/ f[Len(cut)].at >= i + (t - s)
        /\ CommentRound(text, f[Len(cut)]) = f[Len(cut)] => f[Len(cut)] = f[Len(text)]
    BY <1>1, <1>3, <1>6
  <2>2. ASSUME f[Len(cut)].at >= i + (t - s)
        PROVE  f[Len(cut)].depth = 0
    <3>1. ~(f[Len(cut)].at < end)
      BY <1>1, <1>3, <1>8, <2>1, <2>2
    <3> QED BY <1>3, <1>9, <3>1
  <2>3. f[Len(cut)].depth = 0 => CommentRound(text, f[Len(cut)]) = f[Len(cut)]
    BY DEF CommentRound
  <2> QED BY <2>1, <2>2, <2>3
<1>14. g[Len(cut)] = [at |-> end + 1 - s, depth |-> 0]
  BY <1>8, <1>12, <1>13 DEF end
<1>15. CommentEnd(cut, j) = CommentEnd(text, i) + 1 - s
  BY <1>1, <1>5, <1>8, <1>14
<1> QED BY <1>15 DEF cut, j

-----------------------------------------------------------------------------
LEMMA AtCut ==
  ASSUME NEW T, NEW text \in Seq(T), NEW s, NEW t, IsCut(text, s, t), NEW i \in s..t
  PROVE  At(Cut(text, s, t), i + 1 - s) = IF i < t THEN At(text, i) ELSE NoSymbol
<1>1. s \in Nat /\ t \in Nat /\ At(Cut(text, s, t), t + 1 - s) = NoSymbol
  BY CutFacts
<1>2. i = t \/ i \in s..(t - 1)
  BY <1>1
<1>3. ASSUME i \in s..(t - 1)
      PROVE  At(Cut(text, s, t), i + 1 - s) = At(text, i)
  BY <1>3, CutAt
<1> QED BY <1>1, <1>2, <1>3

LEMMA AtIsThere ==
  ASSUME NEW T, NEW text \in Seq(T), NEW i \in Nat \ {0}
  PROVE  At(text, i) # NoSymbol => i <= Len(text) /\ At(text, i) = text[i]
BY DEF At

(* The symbols of a token of one line.                                     *)
OneLine(text, i, end) == \A j \in i..(end - 1) : text[j] # "\n"
(* A token that starts at i ends after it, or not at all.                  *)
EndsAfter(text, i, end) == end \in {Unterminated} \cup (i + 1)..(Len(text) + 1)

LEMMA SignedEndFacts ==
  ASSUME NEW T, NEW text \in Seq(T), NEW i \in 1..Len(text), NEW sign \in {"@", "#"}, text[i] = sign
  PROVE  EndsAfter(text, i, SignedEnd(text, i, sign)) /\ OneLine(text, i, SignedEnd(text, i, sign))
<1> DEFINE name == IF At(text, i + 1) = sign THEN i + 2 ELSE i + 1
           end == NameEnd(text, name)
<1>1. sign # NoSymbol /\ sign # "\n"
  BY NoSymbolIsNone DEF Special
<1>2. Len(text) \in Nat /\ name \in (i + 1)..(Len(text) + 1) /\ i \in Nat
      /\ \A j \in i..(name - 1) : text[j] = sign
  <2>1. At(text, i + 1) = sign => i + 1 <= Len(text) /\ text[i + 1] = sign
    BY <1>1, AtIsThere
  <2> QED BY <2>1
<1> HIDE DEF name
<1>3. end \in name..(Len(text) + 1) /\ \A j \in name..(end - 1) : text[j] \in IdentifierPart
  <2>1. name \in Nat /\ name <= Len(text) + 1
    BY <1>2
  <2> QED BY <1>2, <2>1, RunEndFacts DEF NameEnd
<1>4. "\n" \notin IdentifierPart
  BY DEF IdentifierPart, IdentifierStart, Special, Digit, Blank
<1> HIDE DEF end
<1>5. SignedEnd(text, i, sign) = Unterminated \/ SignedEnd(text, i, sign) = end
  BY DEF SignedEnd, name, end
<1>6. OneLine(text, i, end)
  <2> SUFFICES ASSUME NEW j \in i..(end - 1) PROVE text[j] # "\n"
    BY DEF OneLine
  <2>1. j \in i..(name - 1) \/ j \in name..(end - 1)
    BY <1>2, <1>3
  <2> QED BY <1>1, <1>2, <1>3, <1>4, <2>1
<1>7. OneLine(text, i, Unterminated)
  BY <1>2 DEF OneLine, Unterminated
<1> QED BY <1>2, <1>3, <1>5, <1>6, <1>7 DEF EndsAfter

LEMMA SignedEndCut ==
  ASSUME NEW T, NEW text \in Seq(T), NEW s, NEW t, IsCut(text, s, t), NEW i \in s..(t - 1),
         NEW sign \in {"@", "#"}, text[i] = sign,
         SignedEnd(text, i, sign) # Unterminated, SignedEnd(text, i, sign) <= t
  PROVE  SignedEnd(Cut(text, s, t), i + 1 - s, sign) = SignedEnd(text, i, sign) + 1 - s
<1> DEFINE cut == Cut(text, s, t)
           k == i + 1 - s
           name == IF At(text, i + 1) = sign THEN i + 2 ELSE i + 1
           end == NameEnd(text, name)
           near == IF At(cut, k + 1) = sign THEN k + 2 ELSE k + 1
<1>1. s \in Nat /\ t \in Nat /\ 1 <= s /\ s <= t /\ t <= Len(text) + 1 /\ Len(text) \in Nat
      /\ i \in Nat /\ i + 1 \in s..t /\ k \in Nat /\ (i + 1) + 1 - s = k + 1
  BY CutFacts
<1>2. sign # NoSymbol
  BY NoSymbolIsNone DEF Special
<1>3. name \in (i + 1)..(Len(text) + 1) /\ name \in Nat
  <2>1. At(text, i + 1) = sign => i + 1 <= Len(text)
    BY <1>1, <1>2, AtIsThere
  <2> QED BY <1>1, <2>1
<1>4. end >= name /\ end \in Nat
  BY <1>3, RunEndFacts DEF NameEnd
<1>5. SignedEnd(text, i, sign) = end /\ end <= t /\ end # IF sign = "@" THEN i + 1 ELSE name
  BY DEF SignedEnd
<1>6. name \in s..t
  BY <1>1, <1>3, <1>4, <1>5
<1>7. At(cut, k + 1) = IF i + 1 < t THEN At(text, i + 1) ELSE NoSymbol
  BY <1>1, AtCut
<1>8. near = name + 1 - s
  BY <1>1, <1>2, <1>6, <1>7
<1>9. NameEnd(cut, near) = end + 1 - s
  <2> HIDE DEF name
  <2>1. RunEnd(cut, name + 1 - s, IdentifierPart) = IF end <= t THEN end + 1 - s ELSE t + 1 - s
    BY <1>6, RunEndCut DEF NameEnd
  <2> HIDE DEF end, near
  <2> QED BY <1>5, <1>8, <2>1 DEF NameEnd
<1>10. SignedEnd(cut, k, sign) = IF NameEnd(cut, near) = (IF sign = "@" THEN k + 1 ELSE near)
                                 THEN Unterminated ELSE NameEnd(cut, near)
  BY DEF SignedEnd
<1>11. (end + 1 - s = (IF sign = "@" THEN k + 1 ELSE name + 1 - s)) <=> end = (IF sign = "@" THEN i + 1 ELSE name)
  <2> HIDE DEF end, name
  <2> QED BY <1>1, <1>3, <1>4
<1> HIDE DEF name, end, near
<1>12. SignedEnd(cut, k, sign) = end + 1 - s
  BY <1>5, <1>8, <1>9, <1>10, <1>11
<1> QED BY <1>5, <1>12

LEMMA HexadecimalEndFacts ==
  ASSUME NEW T, NEW text \in Seq(T), NEW i \in 1..Len(text), text[i] = "0", At(text, i + 1) = "x"
  PROVE  EndsAfter(text, i, HexadecimalEnd(text, i)) /\ OneLine(text, i, HexadecimalEnd(text, i))
<1> DEFINE end == RunEnd(text, i + 2, HexDigit)
<1>1. Len(text) \in Nat /\ i \in Nat /\ i + 1 <= Len(text) /\ text[i + 1] = "x"
  <2>1. "x" # NoSymbol
    BY NoSymbolIsNone
  <2> QED BY <2>1, AtIsThere
<1>2. end \in (i + 2)..(Len(text) + 1) /\ \A j \in (i + 2)..(end - 1) : text[j] \in HexDigit
  <2>1. i + 2 \in Nat /\ i + 2 <= Len(text) + 1
    BY <1>1
  <2> QED BY <1>1, <2>1, RunEndFacts
<1>3. "\n" \notin HexDigit /\ "\n" # "0" /\ "\n" # "x"
  BY DEF HexDigit, Digit
<1> HIDE DEF end
<1>4. HexadecimalEnd(text, i) = Unterminated \/ HexadecimalEnd(text, i) = end
  BY DEF HexadecimalEnd, end
<1>5. OneLine(text, i, end)
  <2> SUFFICES ASSUME NEW j \in i..(end - 1) PROVE text[j] # "\n"
    BY DEF OneLine
  <2>1. j = i \/ j = i + 1 \/ j \in (i + 2)..(end - 1)
    BY <1>1, <1>2
  <2> QED BY <1>1, <1>2, <1>3, <2>1
<1>6. OneLine(text, i, Unterminated)
  BY <1>1 DEF OneLine, Unterminated
<1> QED BY <1>1, <1>2, <1>4, <1>5, <1>6 DEF EndsAfter

LEMMA HexadecimalEndCut ==
  ASSUME NEW T, NEW text \in Seq(T), NEW s, NEW t, IsCut(text, s, t), NEW i \in s..(t - 1),
         text[i] = "0", At(text, i + 1) = "x",
         HexadecimalEnd(text, i) # Unterminated, HexadecimalEnd(text, i) <= t
  PROVE  HexadecimalEnd(Cut(text, s, t), i + 1 - s) = HexadecimalEnd(text, i) + 1 - s
<1> DEFINE cut == Cut(text, s, t)
           k == i + 1 - s
           end == RunEnd(text, i + 2, HexDigit)
<1>1. s \in Nat /\ t \in Nat /\ 1 <= s /\ s <= t /\ t <= Len(text) + 1 /\ Len(text) \in Nat
      /\ i \in Nat /\ i + 2 \in Nat /\ k \in Nat /\ (i + 2) + 1 - s = k + 2
  BY CutFacts
<1>2. end >= i + 2 /\ end \in Nat
  BY <1>1, RunEndFacts
<1>3. HexadecimalEnd(text, i) = end /\ end <= t /\ end # i + 2
  BY DEF HexadecimalEnd
<1>4. RunEnd(cut, k + 2, HexDigit) = end + 1 - s
  <2>1. i + 2 \in s..t
    BY <1>1, <1>2, <1>3
  <2>2. RunEnd(cut, (i + 2) + 1 - s, HexDigit) = IF end <= t THEN end + 1 - s ELSE t + 1 - s
    BY <2>1, RunEndCut
  <2> HIDE DEF end
  <2> QED BY <1>1, <1>3, <2>2
<1> HIDE DEF end, cut
<1>5. HexadecimalEnd(cut, k) = end + 1 - s
  BY <1>1, <1>2, <1>3, <1>4 DEF HexadecimalEnd
<1> QED BY <1>3, <1>5 DEF cut

LEMMA DigitsEndFacts ==
  ASSUME NEW T, NEW text \in Seq(T), NEW i \in 1..(Len(text) + 1)
  PROVE  /\ DigitsEnd(text, i) \in i..(Len(text) + 1)
         /\ \A j \in i..(DigitsEnd(text, i) - 1) : text[j] \in Digit
         /\ At(text, i) \in Digit => DigitsEnd(text, i) > i
<1>1. i \in Nat /\ i <= Len(text) + 1 /\ Len(text) \in Nat
  OBVIOUS
<1> DEFINE end == DigitsEnd(text, i)
<1>2. /\ end \in Nat /\ end >= i /\ end <= Len(text) + 1
      /\ \A j \in i..(end - 1) : text[j] \in Digit
      /\ end <= Len(text) => text[end] \notin Digit
  BY <1>1, RunEndFacts DEF DigitsEnd
<1> HIDE DEF end
<1>3. At(text, i) \in Digit => end > i
  <2> HAVE At(text, i) \in Digit
  <2>1. At(text, i) # NoSymbol
    BY NoSymbolIsNone
  <2>2. i <= Len(text) /\ At(text, i) = text[i]
    BY <1>1, <2>1, AtIsThere
  <2> QED BY <1>1, <1>2, <2>2
<1> QED BY <1>1, <1>2, <1>3 DEF end

LEMMA DigitsEndCut ==
  ASSUME NEW T, NEW text \in Seq(T), NEW s, NEW t, IsCut(text, s, t), NEW i \in s..t
  PROVE  DigitsEnd(Cut(text, s, t), i + 1 - s) =
           IF DigitsEnd(text, i) <= t THEN DigitsEnd(text, i) + 1 - s ELSE t + 1 - s
BY RunEndCut DEF DigitsEnd

(* The places a decimal number is read through: after its whole digits,    *)
(* after its fraction, and where the digits of its exponent begin.         *)
FromDigits(text, i) == IF text[i] = "." THEN i + 1 ELSE i
WholeEnd(text, i) == DigitsEnd(text, FromDigits(text, i))
FractionEnd(text, i) ==
  IF At(text, WholeEnd(text, i)) = "." THEN DigitsEnd(text, WholeEnd(text, i) + 1) ELSE WholeEnd(text, i)
PowerStart(text, i) ==
  IF At(text, FractionEnd(text, i) + 1) \in {"+", "-"} THEN FractionEnd(text, i) + 2 ELSE FractionEnd(text, i) + 1
StartsDecimal(text, i) == text[i] \in Digit \/ (text[i] = "." /\ At(text, i + 1) \in Digit)

LEMMA DecimalPlaces ==
  ASSUME NEW T, NEW text \in Seq(T), NEW i \in 1..Len(text), StartsDecimal(text, i)
  PROVE  /\ FromDigits(text, i) \in i..Len(text) /\ FromDigits(text, i) <= i + 1
         /\ WholeEnd(text, i) \in (i + 1)..(Len(text) + 1) /\ WholeEnd(text, i) > FromDigits(text, i)
         /\ FractionEnd(text, i) \in WholeEnd(text, i)..(Len(text) + 1)
         /\ At(text, FractionEnd(text, i)) = "e" =>
              PowerStart(text, i) \in (FractionEnd(text, i) + 1)..(Len(text) + 1)
<1> DEFINE from == FromDigits(text, i)
           whole == WholeEnd(text, i)
           fraction == FractionEnd(text, i)
<1>1. /\ Len(text) \in Nat /\ i \in Nat /\ "." \notin Digit
      /\ "." # NoSymbol /\ "e" # NoSymbol /\ "+" # NoSymbol /\ "-" # NoSymbol /\ NoSymbol \notin Digit
  <2>1. "." # NoSymbol /\ "+" # NoSymbol /\ "-" # NoSymbol
    BY NoSymbolIsNone DEF Special
  <2>2. "e" # NoSymbol /\ NoSymbol \notin Digit
    BY NoSymbolIsNone
  <2>3. "." \notin Digit
    BY DEF Digit
  <2> QED BY <2>1, <2>2, <2>3
<1>2. from \in i..Len(text) /\ from <= i + 1 /\ At(text, from) \in Digit
  <2>1. CASE text[i] = "."
    <3>1. At(text, i + 1) \in Digit
      BY <1>1, <2>1 DEF StartsDecimal
    <3>2. i + 1 <= Len(text)
      BY <1>1, <3>1, AtIsThere
    <3> QED BY <1>1, <2>1, <3>1, <3>2 DEF FromDigits
  <2>2. CASE text[i] # "."
    BY <1>1, <2>2 DEF FromDigits, StartsDecimal, At
  <2> QED BY <2>1, <2>2
<1> HIDE DEF from
<1>3. whole \in (i + 1)..(Len(text) + 1) /\ whole > from
  <2>1. from \in 1..(Len(text) + 1)
    BY <1>1, <1>2
  <2>2. DigitsEnd(text, from) \in from..(Len(text) + 1) /\ DigitsEnd(text, from) > from
    BY <1>2, <2>1, DigitsEndFacts
  <2> QED BY <1>1, <1>2, <2>2 DEF WholeEnd, from
<1> HIDE DEF whole
<1>4. fraction \in whole..(Len(text) + 1)
  <2>1. CASE At(text, whole) = "."
    <3>1. whole <= Len(text)
      BY <1>1, <1>3, <2>1, AtIsThere
    <3>2. whole + 1 \in 1..(Len(text) + 1)
      BY <1>1, <1>3, <3>1
    <3>3. DigitsEnd(text, whole + 1) \in (whole + 1)..(Len(text) + 1)
      BY <3>2, DigitsEndFacts
    <3> QED BY <1>1, <1>3, <2>1, <3>3 DEF FractionEnd, whole
  <2>2. CASE At(text, whole) # "."
    BY <1>1, <1>3, <2>2 DEF FractionEnd, whole
  <2> QED BY <2>1, <2>2
<1> HIDE DEF fraction
<1>5. ASSUME At(text, fraction) = "e"
      PROVE  PowerStart(text, i) \in (fraction + 1)..(Len(text) + 1)
  <2>1. fraction <= Len(text) /\ fraction \in Nat \ {0} /\ fraction + 1 \in Nat \ {0}
    BY <1>1, <1>3, <1>4, <1>5, AtIsThere
  <2>2. At(text, fraction + 1) \in {"+", "-"} => fraction + 1 <= Len(text)
    BY <1>1, <2>1, AtIsThere
  <2> QED BY <1>1, <2>1, <2>2 DEF PowerStart, fraction
<1> QED BY <1>2, <1>3, <1>4, <1>5 DEF from, whole, fraction

LEMMA DecimalEndFacts ==
  ASSUME NEW T, NEW text \in Seq(T), NEW i \in 1..Len(text), StartsDecimal(text, i)
  PROVE  EndsAfter(text, i, DecimalEnd(text, i)) /\ OneLine(text, i, DecimalEnd(text, i))
<1> DEFINE from == FromDigits(text, i)
           whole == WholeEnd(text, i)
           fraction == FractionEnd(text, i)
           power == PowerStart(text, i)
           end == DigitsEnd(text, power)
           signs == Digit \cup {".", "e", "+", "-"}
           Signs(a, b) == \A j \in a..(b - 1) : text[j] \in signs
<1>1. /\ from \in i..Len(text) /\ from <= i + 1
      /\ whole \in (i + 1)..(Len(text) + 1) /\ whole > from
      /\ fraction \in whole..(Len(text) + 1)
      /\ At(text, fraction) = "e" => power \in (fraction + 1)..(Len(text) + 1)
      /\ Len(text) \in Nat /\ i \in Nat
  BY DecimalPlaces
<1>2. DecimalEnd(text, i) = IF At(text, fraction) # "e" THEN fraction
                            ELSE IF end = power THEN Unterminated ELSE end
  BY DEF DecimalEnd, FromDigits, WholeEnd, FractionEnd, PowerStart
<1>3. "\n" \notin signs /\ "." \in signs /\ "e" \in signs /\ "+" \in signs /\ "-" \in signs /\ Digit \subseteq signs
  BY DEF Digit
<1>4. "e" # NoSymbol /\ "." # NoSymbol /\ "+" # NoSymbol /\ "-" # NoSymbol
  BY NoSymbolIsNone DEF Special
<1> HIDE DEF signs
<1>5. Signs(i, whole)
  <2>1. \A j \in from..(whole - 1) : text[j] \in Digit
    <3>1. from \in 1..(Len(text) + 1)
      BY <1>1
    <3> QED BY <3>1, DigitsEndFacts DEF WholeEnd
  <2>2. from = i \/ (from = i + 1 /\ text[i] = ".")
    BY DEF FromDigits
  <2> HIDE DEF from, whole
  <2> QED BY <1>1, <1>3, <2>1, <2>2
<1>6. Signs(whole, fraction)
  <2>1. ASSUME At(text, whole) = "."
        PROVE  fraction = DigitsEnd(text, whole + 1) /\ text[whole] = "." /\ whole + 1 \in 1..(Len(text) + 1)
    BY <1>1, <1>4, <2>1, AtIsThere DEF FractionEnd
  <2>2. At(text, whole) # "." => fraction = whole
    BY DEF FractionEnd
  <2>3. ASSUME At(text, whole) = "."
        PROVE  \A j \in (whole + 1)..(fraction - 1) : text[j] \in Digit
    BY <2>1, <2>3, DigitsEndFacts
  <2> HIDE DEF fraction, whole
  <2> QED BY <1>1, <1>3, <2>1, <2>2, <2>3
<1>7. ASSUME At(text, fraction) = "e"
      PROVE  Signs(fraction, end) /\ end \in power..(Len(text) + 1) /\ power \in (fraction + 1)..(Len(text) + 1)
  <2>1. fraction <= Len(text) /\ text[fraction] = "e"
    BY <1>1, <1>4, <1>7, AtIsThere
  <2>2. power = fraction + 1 \/ (power = fraction + 2 /\ text[fraction + 1] \in {"+", "-"})
    <3>1. At(text, fraction + 1) \in {"+", "-"} => text[fraction + 1] = At(text, fraction + 1)
      BY <1>1, <1>4, AtIsThere
    <3> QED BY <3>1 DEF PowerStart
  <2>3. power \in 1..(Len(text) + 1) /\ power \in (fraction + 1)..(Len(text) + 1)
    BY <1>1, <1>7
  <2>4. end \in power..(Len(text) + 1) /\ \A j \in power..(end - 1) : text[j] \in Digit
    BY <2>3, DigitsEndFacts
  <2> HIDE DEF fraction, power, end, whole
  <2>5. Signs(fraction, end)
    BY <1>1, <1>3, <2>1, <2>2, <2>3, <2>4
  <2> QED BY <2>3, <2>4, <2>5
<1> HIDE DEF from, whole, fraction, power, end
<1>8. Signs(i, fraction)
  BY <1>1, <1>5, <1>6
<1>9. CASE At(text, fraction) # "e"
  <2>1. DecimalEnd(text, i) = fraction
    BY <1>2, <1>9
  <2>2. fraction \in (i + 1)..(Len(text) + 1)
    BY <1>1
  <2> QED BY <1>3, <1>8, <2>1, <2>2 DEF EndsAfter, OneLine
<1>10. CASE At(text, fraction) = "e" /\ end # power
  <2>1. DecimalEnd(text, i) = end
    BY <1>2, <1>10
  <2>2. end \in (i + 1)..(Len(text) + 1) /\ Signs(i, end)
    BY <1>1, <1>7, <1>8, <1>10
  <2> QED BY <1>3, <2>1, <2>2 DEF EndsAfter, OneLine
<1>11. CASE At(text, fraction) = "e" /\ end = power
  BY <1>1, <1>2, <1>11 DEF EndsAfter, OneLine, Unterminated
<1> QED BY <1>9, <1>10, <1>11

LEMMA DecimalEndCut ==
  ASSUME NEW T, NEW text \in Seq(T), NEW s, NEW t, IsCut(text, s, t), NEW i \in s..(t - 1),
         StartsDecimal(text, i), DecimalEnd(text, i) # Unterminated, DecimalEnd(text, i) <= t
  PROVE  DecimalEnd(Cut(text, s, t), i + 1 - s) = DecimalEnd(text, i) + 1 - s
<1> DEFINE cut == Cut(text, s, t)
           k == i + 1 - s
           from == FromDigits(text, i)
           whole == WholeEnd(text, i)
           fraction == FractionEnd(text, i)
           power == PowerStart(text, i)
           end == DigitsEnd(text, power)
<1>1. s \in Nat /\ t \in Nat /\ 1 <= s /\ s <= t /\ t <= Len(text) + 1 /\ Len(text) \in Nat
      /\ i \in 1..Len(text) /\ i \in Nat /\ k \in Nat
  BY CutFacts
<1>2. /\ from \in i..Len(text) /\ from <= i + 1
      /\ whole \in (i + 1)..(Len(text) + 1) /\ whole > from
      /\ fraction \in whole..(Len(text) + 1)
      /\ At(text, fraction) = "e" => power \in (fraction + 1)..(Len(text) + 1)
  BY <1>1, DecimalPlaces
<1>3. DecimalEnd(text, i) = IF At(text, fraction) # "e" THEN fraction
                            ELSE IF end = power THEN Unterminated ELSE end
  BY DEF DecimalEnd, FromDigits, WholeEnd, FractionEnd, PowerStart
<1>4. DecimalEnd(cut, k) = IF At(cut, FractionEnd(cut, k)) # "e" THEN FractionEnd(cut, k)
                           ELSE IF DigitsEnd(cut, PowerStart(cut, k)) = PowerStart(cut, k)
                                THEN Unterminated ELSE DigitsEnd(cut, PowerStart(cut, k))
  BY DEF DecimalEnd, FromDigits, WholeEnd, FractionEnd, PowerStart
<1>5. "e" # NoSymbol /\ "." # NoSymbol /\ NoSymbol \notin {"+", "-"}
  BY NoSymbolIsNone DEF Special
<1>6. At(text, fraction) = "e" => end \in Nat /\ end > power /\ end <= t /\ power >= fraction + 1
  <2> HAVE At(text, fraction) = "e"
  <2>1. power \in 1..(Len(text) + 1) /\ power >= fraction + 1
    BY <1>1, <1>2
  <2>2. end \in power..(Len(text) + 1)
    BY <2>1, DigitsEndFacts
  <2>3. end # power /\ end <= t
    BY <1>3
  <2> HIDE DEF end, power, fraction
  <2> QED BY <1>1, <2>1, <2>2, <2>3
<1>7. fraction \in s..t /\ whole \in s..t /\ from \in s..t
  <2>1. fraction <= t
    <3>1. CASE At(text, fraction) = "e"
      <4> HIDE DEF end, power, fraction
      <4> QED BY <1>1, <1>2, <1>6, <3>1
    <3>2. CASE At(text, fraction) # "e"
      BY <1>3, <3>2
    <3> QED BY <3>1, <3>2
  <2> HIDE DEF whole, fraction, from
  <2> QED BY <1>1, <1>2, <2>1
<1>8. FromDigits(cut, k) = from + 1 - s
  <2>1. cut[k] = text[i]
    BY CutAt
  <2> QED BY <1>1, <2>1 DEF FromDigits
<1>9. WholeEnd(cut, k) = whole + 1 - s
  <2>1. DigitsEnd(cut, from + 1 - s) = IF DigitsEnd(text, from) <= t THEN DigitsEnd(text, from) + 1 - s ELSE t + 1 - s
    BY <1>7, DigitsEndCut
  <2> HIDE DEF from
  <2> QED BY <1>1, <1>7, <1>8, <2>1 DEF WholeEnd, from
<1>10. FractionEnd(cut, k) = fraction + 1 - s
  <2>1. At(cut, whole + 1 - s) = IF whole < t THEN At(text, whole) ELSE NoSymbol
    BY <1>7, AtCut
  <2>2. CASE At(text, whole) = "."
    <3>1. fraction = DigitsEnd(text, whole + 1)
      BY <2>2 DEF FractionEnd
    <3>2. whole + 1 \in 1..(Len(text) + 1)
      BY <1>1, <1>2, <1>5, <2>2, AtIsThere
    <3>3. fraction >= whole + 1
      BY <3>1, <3>2, DigitsEndFacts
    <3> HIDE DEF whole, fraction
    <3>4. whole + 1 \in s..t /\ whole < t
      BY <1>1, <1>7, <3>3
    <3> DEFINE next == whole + 1
    <3>a. next \in s..t
      BY <3>4
    <3> HIDE DEF next
    <3>b. DigitsEnd(cut, next + 1 - s) = IF DigitsEnd(text, next) <= t THEN DigitsEnd(text, next) + 1 - s ELSE t + 1 - s
      BY <3>a, DigitsEndCut
    <3>6. next + 1 - s = (whole + 1 - s) + 1 /\ fraction = DigitsEnd(text, next) /\ fraction <= t
      BY <1>1, <1>7, <3>1, <3>4 DEF next
    <3>7. DigitsEnd(cut, (whole + 1 - s) + 1) = fraction + 1 - s
      BY <3>b, <3>6
    <3> HIDE DEF cut, k
    <3> QED BY <1>9, <2>1, <2>2, <3>4, <3>7 DEF FractionEnd
  <2>3. CASE At(text, whole) # "."
    <3>1. fraction = whole
      BY <2>3 DEF FractionEnd
    <3> HIDE DEF whole, fraction, cut, k
    <3> QED BY <1>5, <1>9, <2>1, <2>3, <3>1 DEF FractionEnd
  <2> QED BY <2>2, <2>3
<1>11. At(cut, fraction + 1 - s) = IF fraction < t THEN At(text, fraction) ELSE NoSymbol
  BY <1>7, AtCut
<1>12. CASE At(text, fraction) # "e"
  <2>1. At(cut, FractionEnd(cut, k)) # "e"
    <3> HIDE DEF fraction, cut, k
    <3> QED BY <1>5, <1>10, <1>11, <1>12
  <2>2. DecimalEnd(cut, k) = FractionEnd(cut, k)
    <3> HIDE DEF cut, k
    <3> QED BY <1>4, <2>1
  <2>3. DecimalEnd(text, i) = fraction
    <3> HIDE DEF fraction, end, power
    <3> QED BY <1>3, <1>12
  <2> HIDE DEF fraction, cut, k
  <2> QED BY <1>10, <2>2, <2>3 DEF cut, k
<1>13. CASE At(text, fraction) = "e"
  <2>1. end \in Nat /\ end > power /\ end <= t /\ power \in (fraction + 1)..(Len(text) + 1)
    BY <1>2, <1>6, <1>13
  <2>2. fraction < t /\ fraction + 1 \in s..t /\ power \in s..t /\ power < t
        /\ (fraction + 1) + 1 - s = (fraction + 1 - s) + 1 /\ power \in Nat
    <3> HIDE DEF fraction, end, power
    <3> QED BY <1>1, <1>7, <2>1
  <2>3. At(cut, (fraction + 1) + 1 - s) = IF fraction + 1 < t THEN At(text, fraction + 1) ELSE NoSymbol
    BY <2>2, AtCut
  <2>4. PowerStart(cut, k) = power + 1 - s
    <3>1. At(cut, (fraction + 1 - s) + 1) = At(text, fraction + 1)
      <4>1. fraction + 1 < t
        <5> HIDE DEF fraction, power
        <5> QED BY <1>1, <1>7, <2>1, <2>2
      <4> QED BY <2>2, <2>3, <4>1
    <3>2. power = IF At(text, fraction + 1) \in {"+", "-"} THEN fraction + 2 ELSE fraction + 1
      BY DEF PowerStart
    <3> HIDE DEF fraction, power, cut, k
    <3> QED BY <1>1, <1>7, <1>10, <3>1, <3>2 DEF PowerStart
  <2>5. DigitsEnd(cut, power + 1 - s) = end + 1 - s
    BY <2>1, <2>2, DigitsEndCut
  <2>6. At(cut, FractionEnd(cut, k)) = "e"
    BY <1>10, <1>11, <1>13, <2>2
  <2>7. end + 1 - s # power + 1 - s
    <3> HIDE DEF end, power
    <3> QED BY <1>1, <2>1, <2>2
  <2>8. DecimalEnd(text, i) = end
    <3> HIDE DEF end, power, fraction
    <3> QED BY <1>3, <1>13, <2>1, <2>2
  <2> HIDE DEF end, power, fraction, cut, k
  <2> QED BY <1>4, <2>4, <2>5, <2>6, <2>7, <2>8 DEF cut, k
<1> QED BY <1>12, <1>13

-----------------------------------------------------------------------------
(* What starts at a place: one fact for each kind of token.                *)
Reads(text, i, kind, end) == Lexeme(text, i) = <<kind, end>>
TwoSigns(c, d) == <<c, d>> \in CompoundOperators
(* The provers are given a name for it.                                    *)
DoubleQuote == "\""
Opens(c, d) == <<c, d>> \in {<<"-", "-">>, <<"/", "*">>}

(* Where a token can start.                                                *)
Starts ==
  {"'", "[", DoubleQuote, "@", "#", "?"}
    \cup UNION {Blank, IdentifierStart, Digit, SingleOperators, Punctuation}

LEMMA LexemeArms ==
  ASSUME NEW text, NEW i, NEW c, NEW d, c = text[i], d = At(text, i + 1)
  PROVE  /\ c \in Blank => Reads(text, i, "whitespace", RunEnd(text, i, Blank))
         /\ c = "-" /\ d = "-" => Reads(text, i, "lineComment", LineEnd(text, i + 2))
         /\ c = "/" /\ d = "*" => Reads(text, i, "blockComment", CommentEnd(text, i + 2))
         /\ c = "'" => Reads(text, i, "string", QuoteEnd(text, i + 1, "'"))
         /\ c = "N" /\ d = "'" => Reads(text, i, "string", QuoteEnd(text, i + 2, "'"))
         /\ c = "[" => Reads(text, i, "quotedIdentifier", QuoteEnd(text, i + 1, "]"))
         /\ c = DoubleQuote => Reads(text, i, "quotedIdentifier", QuoteEnd(text, i + 1, DoubleQuote))
         /\ c = "@" => Reads(text, i, "variable", SignedEnd(text, i, "@"))
         /\ c = "#" => Reads(text, i, "tempIdentifier", SignedEnd(text, i, "#"))
         /\ c = "?" => Reads(text, i, "positionalParameter", i + 1)
         /\ c \in IdentifierStart /\ ~(c = "N" /\ d = "'") => Reads(text, i, "word", NameEnd(text, i))
         /\ c = "0" /\ d = "x" => Reads(text, i, "number", HexadecimalEnd(text, i))
         /\ (c \in Digit /\ ~(c = "0" /\ d = "x")) \/ (c = "." /\ d \in Digit) =>
              Reads(text, i, "number", DecimalEnd(text, i))
         /\ TwoSigns(c, d) => Reads(text, i, "operator", i + 2)
         /\ c \in SingleOperators /\ ~TwoSigns(c, d) /\ ~Opens(c, d) => Reads(text, i, "operator", i + 1)
         /\ c \in Punctuation /\ ~TwoSigns(c, d) /\ ~(c = "." /\ d \in Digit) =>
              Reads(text, i, "punctuation", i + 1)
         /\ c \notin Starts /\ ~(c = "N" /\ d = "'") => Reads(text, i, "unsupported", Unterminated)
<1> USE DEF DoubleQuote, Reads, Lexeme, Blank, CompoundOperators, SingleOperators, Punctuation, IdentifierStart,
            Digit, Special, TwoSigns, Opens
<1>1. c \in Blank => Reads(text, i, "whitespace", RunEnd(text, i, Blank))
  OBVIOUS
<1>2. c = "-" /\ d = "-" => Reads(text, i, "lineComment", LineEnd(text, i + 2))
  OBVIOUS
<1>3. c = "/" /\ d = "*" => Reads(text, i, "blockComment", CommentEnd(text, i + 2))
  OBVIOUS
<1>4. c = "'" => Reads(text, i, "string", QuoteEnd(text, i + 1, "'"))
  OBVIOUS
<1>5. c = "N" /\ d = "'" => Reads(text, i, "string", QuoteEnd(text, i + 2, "'"))
  OBVIOUS
<1>6. c = "[" => Reads(text, i, "quotedIdentifier", QuoteEnd(text, i + 1, "]"))
  OBVIOUS
<1>7. c = DoubleQuote => Reads(text, i, "quotedIdentifier", QuoteEnd(text, i + 1, DoubleQuote))
  OBVIOUS
<1>8. c = "@" => Reads(text, i, "variable", SignedEnd(text, i, "@"))
  OBVIOUS
<1>9. c = "#" => Reads(text, i, "tempIdentifier", SignedEnd(text, i, "#"))
  OBVIOUS
<1>10. c = "?" => Reads(text, i, "positionalParameter", i + 1)
  OBVIOUS
<1>11. c \in IdentifierStart /\ ~(c = "N" /\ d = "'") => Reads(text, i, "word", NameEnd(text, i))
  OBVIOUS
<1>12. c = "0" /\ d = "x" => Reads(text, i, "number", HexadecimalEnd(text, i))
  OBVIOUS
<1>13. (c \in Digit /\ ~(c = "0" /\ d = "x")) \/ (c = "." /\ d \in Digit) =>
          Reads(text, i, "number", DecimalEnd(text, i))
  OBVIOUS
<1>14. TwoSigns(c, d) => Reads(text, i, "operator", i + 2)
  OBVIOUS
<1>15. c \in SingleOperators /\ ~TwoSigns(c, d) /\ ~Opens(c, d) => Reads(text, i, "operator", i + 1)
  OBVIOUS
<1>16. c \in Punctuation /\ ~TwoSigns(c, d) /\ ~(c = "." /\ d \in Digit) =>
          Reads(text, i, "punctuation", i + 1)
  OBVIOUS
<1> HIDE DEF DoubleQuote, Reads, Lexeme, Blank, CompoundOperators, SingleOperators, Punctuation, IdentifierStart,
             Digit, Special, TwoSigns, Opens
<1>17. c \notin Starts /\ ~(c = "N" /\ d = "'") => Reads(text, i, "unsupported", Unterminated)
  <2> HAVE c \notin Starts /\ ~(c = "N" /\ d = "'")
  <2>1. /\ c \notin Blank /\ c \notin IdentifierStart /\ c \notin Digit /\ c \notin SingleOperators
        /\ c \notin Punctuation
        /\ c # "'" /\ c # "[" /\ c # DoubleQuote /\ c # "@" /\ c # "#" /\ c # "?"
    BY DEF Starts
  <2>5. "-" \in SingleOperators /\ "/" \in SingleOperators /\ "." \in Punctuation /\ "0" \in Digit
    BY DEF SingleOperators, Punctuation, Digit
  <2>2. c # "-" /\ c # "/" /\ c # "." /\ c # "0"
    BY <2>1, <2>5
  <2>3. <<c, d>> \notin CompoundOperators
    BY <2>1 DEF CompoundOperators, SingleOperators, Punctuation
  <2> QED BY <2>1, <2>2, <2>3 DEF DoubleQuote, Reads, Lexeme
<1> QED BY <1>1, <1>2, <1>3, <1>4, <1>5, <1>6, <1>7, <1>8, <1>9, <1>10, <1>11, <1>12, <1>13, <1>14, <1>15, <1>16, <1>17

LEMMA DecimalArm ==
  ASSUME NEW text, NEW i, text[i] \in Digit, ~(text[i] = "0" /\ At(text, i + 1) = "x")
  PROVE  Reads(text, i, "number", DecimalEnd(text, i))
BY LexemeArms

(* Every start of a token is one of these.                                 *)
LEMMA LexemeStarts ==
  ASSUME NEW c, NEW d
  PROVE  \/ c \in Blank
         \/ c = "-" /\ d = "-"
         \/ c = "/" /\ d = "*"
         \/ c = "'"
         \/ c = "N" /\ d = "'"
         \/ c \in {"[", DoubleQuote, "@", "#", "?"}
         \/ c \in IdentifierStart /\ ~(c = "N" /\ d = "'")
         \/ c = "0" /\ d = "x"
         \/ (c \in Digit /\ ~(c = "0" /\ d = "x")) \/ (c = "." /\ d \in Digit)
         \/ TwoSigns(c, d)
         \/ c \in SingleOperators /\ ~TwoSigns(c, d) /\ ~Opens(c, d)
         \/ c \in Punctuation /\ ~TwoSigns(c, d) /\ ~(c = "." /\ d \in Digit)
         \/ c \notin Starts /\ ~(c = "N" /\ d = "'")
<1>1. Opens(c, d) => (c = "-" /\ d = "-") \/ (c = "/" /\ d = "*")
  BY DEF Opens
<1>2. c \in Starts => \/ c = "'"
                      \/ c \in {"[", DoubleQuote, "@", "#", "?"} \/ c \in Blank \/ c \in IdentifierStart
                      \/ c \in Digit \/ c \in SingleOperators \/ c \in Punctuation
  BY DEF Starts
<1>4. CASE c \notin Starts
  BY <1>4
<1>5. CASE c \in Starts
  <2>1. CASE c \in SingleOperators
    BY <1>1, <2>1
  <2>2. CASE c \in Punctuation
    BY <2>2
  <2>3. CASE c \in IdentifierStart \/ c \in Digit
    BY <2>3
  <2> QED BY <1>2, <1>5, <2>1, <2>2, <2>3
<1> QED BY <1>4, <1>5

(* The kinds of tokens, and those that may be on more than one line.       *)
Kinds == {"whitespace", "lineComment", "blockComment", "string", "quotedIdentifier", "variable",
          "tempIdentifier", "positionalParameter", "word", "number", "operator", "punctuation",
          "unsupported"}
ManyLines == {"whitespace", "blockComment", "string", "quotedIdentifier"}

(* A lexeme ends after its start and in the text, or not at all; only some *)
(* kinds hold a line break; a number that begins with two signs has both.  *)
LexemeIs(text, i) ==
  LET lexeme == Lexeme(text, i)
  IN  \E kind \in Kinds, end \in {Unterminated} \cup (i + 1)..(Len(text) + 1) :
        lexeme = <<kind, end>> /\ (kind \notin ManyLines => OneLine(text, i, end))

LEMMA LexemeFacts ==
  ASSUME NEW T, NEW text \in Seq(T), NEW i \in 1..Len(text)
  PROVE  LexemeIs(text, i)
<1> DEFINE c == text[i]
           d == At(text, i + 1)
<1>1. Len(text) \in Nat /\ i \in Nat /\ i + 1 \in 1..(Len(text) + 1) /\ i + 1 \in Nat \ {0}
  OBVIOUS
<1>2. d # NoSymbol => i + 2 \in 1..(Len(text) + 1) /\ d = text[i + 1]
  <2>1. d # NoSymbol => i + 1 <= Len(text) /\ At(text, i + 1) = text[i + 1]
    BY <1>1, AtIsThere
  <2> QED BY <1>1, <2>1
<1>3. ASSUME NEW kind \in Kinds, NEW end, Reads(text, i, kind, end), EndsAfter(text, i, end),
             kind \notin ManyLines => OneLine(text, i, end)
      PROVE  LexemeIs(text, i)
  BY <1>3 DEF Reads, LexemeIs, EndsAfter
<1>4. CASE c \in Blank
  <2>1. Reads(text, i, "whitespace", RunEnd(text, i, Blank))
    BY <1>4, LexemeArms
  <2>2. EndsAfter(text, i, RunEnd(text, i, Blank))
    BY <1>1, <1>4, RunEndFacts DEF EndsAfter
  <2> QED BY <1>3, <2>1, <2>2 DEF Kinds, ManyLines
<1>5. CASE c = "-" /\ d = "-"
  <2>1. Reads(text, i, "lineComment", LineEnd(text, i + 2))
    <3>1. c = text[i] /\ d = At(text, i + 1)
      OBVIOUS
    <3> HIDE DEF c, d
    <3> QED BY <1>5, <3>1, LexemeArms
  <2>5. "-" # NoSymbol
    BY NoSymbolIsNone DEF Special
  <2>2. d = text[i + 1] /\ i + 2 \in 1..(Len(text) + 1) /\ i + 2 \in Nat
    <3> HIDE DEF d
    <3> QED BY <1>1, <1>2, <1>5, <2>5
  <2>3. /\ LineEnd(text, i + 2) \in (i + 2)..(Len(text) + 1)
        /\ \A j \in (i + 2)..(LineEnd(text, i + 2) - 1) : text[j] \in STRING \ LineBreak
    BY <2>2, RunEndFacts DEF LineEnd
  <2> HIDE DEF c, d
  <2>4. OneLine(text, i, LineEnd(text, i + 2))
    BY <1>1, <1>5, <2>2, <2>3 DEF OneLine, LineBreak, c
  <2> QED BY <1>1, <1>3, <2>1, <2>3, <2>4 DEF Kinds, ManyLines, EndsAfter
<1>6. CASE c = "/" /\ d = "*"
  <2>1. Reads(text, i, "blockComment", CommentEnd(text, i + 2))
    BY <1>6, LexemeArms
  <2>2. i + 2 \in 1..(Len(text) + 1)
    BY <1>2, <1>6, NoSymbolIsNone DEF Special
  <2>3. EndsAfter(text, i, CommentEnd(text, i + 2))
    BY <1>1, <2>2, CommentEndFacts DEF EndsAfter
  <2> QED BY <1>3, <2>1, <2>3 DEF Kinds, ManyLines
<1>7. CASE c = "'"
  <2>1. Reads(text, i, "string", QuoteEnd(text, i + 1, "'"))
    BY <1>7, LexemeArms
  <2>2. "'" # NoSymbol
    BY NoSymbolIsNone DEF Special
  <2>3. EndsAfter(text, i, QuoteEnd(text, i + 1, "'"))
    BY <1>1, <2>2, QuoteEndFacts DEF EndsAfter
  <2> QED BY <1>3, <2>1, <2>3 DEF Kinds, ManyLines
<1>8. CASE c = "N" /\ d = "'"
  <2>1. Reads(text, i, "string", QuoteEnd(text, i + 2, "'"))
    BY <1>8, LexemeArms
  <2>2. "'" # NoSymbol /\ i + 2 \in 1..(Len(text) + 1)
    BY <1>2, <1>8, NoSymbolIsNone DEF Special
  <2>3. EndsAfter(text, i, QuoteEnd(text, i + 2, "'"))
    BY <1>1, <2>2, QuoteEndFacts DEF EndsAfter
  <2> QED BY <1>3, <2>1, <2>3 DEF Kinds, ManyLines
<1>9. CASE c = "["
  <2>1. Reads(text, i, "quotedIdentifier", QuoteEnd(text, i + 1, "]"))
    BY <1>9, LexemeArms
  <2>2. "]" # NoSymbol
    BY NoSymbolIsNone DEF Special
  <2>3. EndsAfter(text, i, QuoteEnd(text, i + 1, "]"))
    BY <1>1, <2>2, QuoteEndFacts DEF EndsAfter
  <2> QED BY <1>3, <2>1, <2>3 DEF Kinds, ManyLines
<1>10. CASE c = DoubleQuote
  <2>1. Reads(text, i, "quotedIdentifier", QuoteEnd(text, i + 1, DoubleQuote))
    BY <1>10, LexemeArms
  <2>2. DoubleQuote # NoSymbol
    <3>1. DoubleQuote \in Special
      BY DEF Special, DoubleQuote
    <3> QED BY <3>1, NoSymbolIsNone
  <2>3. EndsAfter(text, i, QuoteEnd(text, i + 1, DoubleQuote))
    BY <1>1, <2>2, QuoteEndFacts DEF EndsAfter
  <2> QED BY <1>3, <2>1, <2>3 DEF Kinds, ManyLines
<1>11. CASE c = "@"
  <2>1. Reads(text, i, "variable", SignedEnd(text, i, "@"))
    BY <1>11, LexemeArms
  <2>2. EndsAfter(text, i, SignedEnd(text, i, "@")) /\ OneLine(text, i, SignedEnd(text, i, "@"))
    BY <1>11, SignedEndFacts
  <2> QED BY <1>3, <2>1, <2>2 DEF Kinds, ManyLines
<1>12. CASE c = "#"
  <2>1. Reads(text, i, "tempIdentifier", SignedEnd(text, i, "#"))
    BY <1>12, LexemeArms
  <2>2. EndsAfter(text, i, SignedEnd(text, i, "#")) /\ OneLine(text, i, SignedEnd(text, i, "#"))
    BY <1>12, SignedEndFacts
  <2> QED BY <1>3, <2>1, <2>2 DEF Kinds, ManyLines
<1>13. ASSUME NEW kind \in Kinds, kind # "unsupported", Reads(text, i, kind, i + 1), c # "\n"
       PROVE  LexemeIs(text, i)
  BY <1>1, <1>3, <1>13 DEF EndsAfter, OneLine
<1>14. CASE c = "?"
  <2>1. Reads(text, i, "positionalParameter", i + 1)
    BY <1>14, LexemeArms
  <2> QED BY <1>13, <1>14, <2>1 DEF Kinds
<1>15. CASE c \in IdentifierStart /\ ~(c = "N" /\ d = "'")
  <2>1. Reads(text, i, "word", NameEnd(text, i))
    BY <1>15, LexemeArms
  <2>2. c \in IdentifierPart /\ "\n" \notin IdentifierPart
    BY <1>15 DEF IdentifierPart, IdentifierStart, Special, Blank, Digit
  <2>3. /\ NameEnd(text, i) \in (i + 1)..(Len(text) + 1)
        /\ \A j \in i..(NameEnd(text, i) - 1) : text[j] \in IdentifierPart
    BY <1>1, <2>2, RunEndFacts DEF NameEnd
  <2> QED BY <1>3, <2>1, <2>2, <2>3 DEF Kinds, EndsAfter, OneLine
<1>16. CASE c = "0" /\ d = "x"
  <2>1. Reads(text, i, "number", HexadecimalEnd(text, i))
    BY <1>16, LexemeArms
  <2>2. EndsAfter(text, i, HexadecimalEnd(text, i)) /\ OneLine(text, i, HexadecimalEnd(text, i))
    BY <1>16, HexadecimalEndFacts
  <2> QED BY <1>3, <2>1, <2>2 DEF Kinds
<1>17. CASE (c \in Digit /\ ~(c = "0" /\ d = "x")) \/ (c = "." /\ d \in Digit)
  <2>1. Reads(text, i, "number", DecimalEnd(text, i))
    BY <1>17, LexemeArms
  <2>2. StartsDecimal(text, i)
    BY <1>17 DEF StartsDecimal
  <2>3. EndsAfter(text, i, DecimalEnd(text, i)) /\ OneLine(text, i, DecimalEnd(text, i))
    BY <2>2, DecimalEndFacts
  <2> QED BY <1>3, <2>1, <2>3 DEF Kinds
<1>18. CASE TwoSigns(c, d)
  <2>1. Reads(text, i, "operator", i + 2)
    BY <1>18, LexemeArms
  <2>2. c \in Special \ {"\n"} /\ d \in Special \ {"\n"}
    BY <1>18 DEF TwoSigns, CompoundOperators, Special
  <2>3. d = text[i + 1] /\ i + 2 \in 1..(Len(text) + 1)
    BY <1>2, <2>2, NoSymbolIsNone
  <2>4. OneLine(text, i, i + 2)
    BY <1>1, <2>2, <2>3 DEF OneLine
  <2>5. EndsAfter(text, i, i + 2)
    BY <1>1, <2>3 DEF EndsAfter
  <2> QED BY <1>3, <2>1, <2>4, <2>5 DEF Kinds
<1>19. CASE c \in SingleOperators /\ ~TwoSigns(c, d) /\ ~Opens(c, d)
  <2>1. Reads(text, i, "operator", i + 1)
    BY <1>19, LexemeArms
  <2> QED BY <1>13, <1>19, <2>1 DEF Kinds, SingleOperators
<1>20. CASE c \in Punctuation /\ ~TwoSigns(c, d) /\ ~(c = "." /\ d \in Digit)
  <2>1. Reads(text, i, "punctuation", i + 1)
    BY <1>20, LexemeArms
  <2> QED BY <1>13, <1>20, <2>1 DEF Kinds, Punctuation
<1>21. CASE c \notin Starts /\ ~(c = "N" /\ d = "'")
  <2>1. Reads(text, i, "unsupported", Unterminated)
    <3>1. c = text[i] /\ d = At(text, i + 1)
      OBVIOUS
    <3> HIDE DEF c, d
    <3> QED BY <1>21, <3>1, LexemeArms
  <2>2. EndsAfter(text, i, Unterminated) /\ OneLine(text, i, Unterminated)
    BY <1>1 DEF EndsAfter, OneLine, Unterminated
  <2> QED BY <1>3, <2>1, <2>2 DEF Kinds
<1> HIDE DEF c, d
<1> QED BY <1>4, <1>5, <1>6, <1>7, <1>8, <1>9, <1>10, <1>11, <1>12, <1>14, <1>15, <1>16, <1>17,
           <1>18, <1>19, <1>20, <1>21, LexemeStarts

(* A token that ends in a cut is the same token there.                     *)
SameLexeme(text, s, t, i) ==
  LET lexeme == Lexeme(text, i)
  IN  Lexeme(Cut(text, s, t), i + 1 - s) = <<lexeme[1], lexeme[2] + 1 - s>>

LEMMA LexemeCut ==
  ASSUME NEW T, NEW text \in Seq(T), NEW s, NEW t, IsCut(text, s, t), NEW i \in s..(t - 1),
         Lexeme(text, i)[2] # Unterminated, Lexeme(text, i)[2] <= t
  PROVE  SameLexeme(text, s, t, i)
<1> DEFINE cut == Cut(text, s, t)
           k == i + 1 - s
           c == text[i]
           d == At(text, i + 1)
           e == At(cut, k + 1)
           end == Lexeme(text, i)[2]
           next == i + 1
           after == i + 2
<1>1. s \in Nat /\ t \in Nat /\ 1 <= s /\ s <= t /\ t <= Len(text) + 1 /\ Len(text) \in Nat
      /\ i \in 1..Len(text) /\ i \in Nat /\ k \in Nat /\ i >= s /\ i < t
  BY CutFacts
<1>2. c = cut[k]
  BY CutAt
<1>3. next \in s..t /\ next + 1 - s = k + 1 /\ i \in s..t /\ next \in 1..(Len(text) + 1)
  BY <1>1
<1>4. e = IF next < t THEN d ELSE NoSymbol
  <2>1. At(cut, next + 1 - s) = IF next < t THEN At(text, next) ELSE NoSymbol
    <3> HIDE DEF next
    <3> QED BY <1>3, AtCut
  <2> HIDE DEF k, cut
  <2> QED BY <1>3, <2>1
<1>5. (after <= t => e = d /\ after \in s..t /\ after + 1 - s = k + 2) /\ after \in Nat
  <2> HIDE DEF d, e, k
  <2> QED BY <1>1, <1>4 DEF k
<1>6. ASSUME NEW kind, NEW f, NEW g, Reads(text, i, kind, f), Reads(cut, k, kind, g), g = f + 1 - s
      PROVE  SameLexeme(text, s, t, i)
  BY <1>6 DEF Reads, SameLexeme
<1>7. ASSUME NEW kind, NEW f, Reads(text, i, kind, f)
      PROVE  f # Unterminated /\ f <= t
  BY <1>7 DEF Reads
<1>8. c = text[i] /\ d = At(text, i + 1) /\ e = At(cut, k + 1) /\ next = i + 1 /\ after = i + 2
  OBVIOUS
<1>9. /\ NoSymbol # "-" /\ NoSymbol # "*" /\ NoSymbol # "'" /\ NoSymbol # "x" /\ NoSymbol \notin Digit
      /\ ~TwoSigns(c, NoSymbol) /\ ~Opens(c, NoSymbol)
      /\ "'" # NoSymbol /\ "]" # NoSymbol /\ DoubleQuote # NoSymbol
  <2>1. NoSymbol \notin Special /\ NoSymbol # "x" /\ NoSymbol \notin Digit
    BY NoSymbolIsNone
  <2>2. /\ "-" \in Special /\ "*" \in Special /\ "'" \in Special /\ "]" \in Special
        /\ "=" \in Special /\ "<" \in Special /\ ">" \in Special /\ ":" \in Special
    BY DEF Special
  <2>3. DoubleQuote \in Special
    BY DEF Special, DoubleQuote
  <2>4. ~TwoSigns(c, NoSymbol)
    BY <2>1, <2>2 DEF TwoSigns, CompoundOperators
  <2> QED BY <2>1, <2>2, <2>3, <2>4 DEF Opens
<1> HIDE DEF cut, k, c, d, e, end, next, after
<1>10. CASE c \in Blank
  <2>1. Reads(text, i, "whitespace", RunEnd(text, i, Blank)) /\ Reads(cut, k, "whitespace", RunEnd(cut, k, Blank))
    BY <1>2, <1>8, <1>10, LexemeArms
  <2>2. RunEnd(cut, k, Blank) = RunEnd(text, i, Blank) + 1 - s
    BY <1>3, <1>7, <2>1, RunEndCut DEF k, cut
  <2> QED BY <1>6, <2>1, <2>2
<1>11. CASE c = "-" /\ d = "-"
  <2>1. Reads(text, i, "lineComment", LineEnd(text, after))
    BY <1>8, <1>11, LexemeArms
  <2>2. LineEnd(text, after) \in Nat /\ LineEnd(text, after) >= after
    BY <1>5, RunEndFacts DEF LineEnd
  <2>3. after <= t
    BY <1>1, <1>5, <1>7, <2>1, <2>2
  <2>4. Reads(cut, k, "lineComment", LineEnd(cut, k + 2))
    BY <1>2, <1>5, <1>8, <1>11, <2>3, LexemeArms
  <2>5. LineEnd(cut, after + 1 - s) = IF LineEnd(text, after) <= t THEN LineEnd(text, after) + 1 - s ELSE t + 1 - s
    BY <1>5, <2>3, RunEndCut DEF LineEnd, cut
  <2> QED BY <1>5, <1>6, <1>7, <2>1, <2>3, <2>4, <2>5
<1>12. CASE c = "/" /\ d = "*"
  <2>1. Reads(text, i, "blockComment", CommentEnd(text, after))
    BY <1>8, <1>12, LexemeArms
  <2>2. after \in 1..(Len(text) + 1)
    <3>1. next \in Nat \ {0} /\ d = At(text, next) /\ d # NoSymbol
      BY <1>1, <1>8, <1>9, <1>12
    <3>2. next <= Len(text)
      BY <3>1, AtIsThere
    <3> QED BY <1>1, <1>8, <3>2
  <2>3. after <= t
    <3>1. CommentEnd(text, after) \in {Unterminated} \cup after..(Len(text) + 1)
      BY <2>2, CommentEndFacts
    <3> QED BY <1>1, <1>5, <1>7, <2>1, <3>1
  <2>4. Reads(cut, k, "blockComment", CommentEnd(cut, k + 2))
    BY <1>2, <1>5, <1>8, <1>12, <2>3, LexemeArms
  <2>5. CommentEnd(cut, after + 1 - s) = CommentEnd(text, after) + 1 - s
    BY <1>5, <1>7, <2>1, <2>3, CommentEndCut DEF cut
  <2> QED BY <1>5, <1>6, <2>1, <2>3, <2>4, <2>5
<1>13. ASSUME NEW kind, NEW quote, quote # NoSymbol,
              Reads(text, i, kind, QuoteEnd(text, next, quote)),
              Reads(cut, k, kind, QuoteEnd(cut, k + 1, quote))
       PROVE  SameLexeme(text, s, t, i)
  <2>1. QuoteEnd(text, next, quote) # Unterminated /\ QuoteEnd(text, next, quote) <= t
    BY <1>7, <1>13
  <2>2. QuoteEnd(cut, next + 1 - s, quote) = QuoteEnd(text, next, quote) + 1 - s
    BY <1>3, <1>13, <2>1, QuoteEndCut DEF cut
  <2> QED BY <1>3, <1>6, <1>13, <2>2
<1>14. CASE c = "'"
  <2>1. Reads(text, i, "string", QuoteEnd(text, next, "'")) /\ Reads(cut, k, "string", QuoteEnd(cut, k + 1, "'"))
    BY <1>2, <1>8, <1>14, LexemeArms
  <2> QED BY <1>9, <1>13, <2>1
<1>15. CASE c = "N" /\ d = "'"
  <2>1. Reads(text, i, "string", QuoteEnd(text, after, "'"))
    BY <1>8, <1>15, LexemeArms
  <2>2. after \in 1..(Len(text) + 1)
    <3>1. next \in Nat \ {0} /\ d = At(text, next) /\ d # NoSymbol
      BY <1>1, <1>8, <1>9, <1>15
    <3>2. next <= Len(text)
      BY <3>1, AtIsThere
    <3> QED BY <1>1, <1>8, <3>2
  <2>3. after <= t /\ QuoteEnd(text, after, "'") # Unterminated /\ QuoteEnd(text, after, "'") <= t
    <3>1. QuoteEnd(text, after, "'") \in {Unterminated} \cup (after + 1)..(Len(text) + 1)
      BY <1>9, <2>2, QuoteEndFacts
    <3> QED BY <1>1, <1>5, <1>7, <2>1, <3>1
  <2>4. Reads(cut, k, "string", QuoteEnd(cut, k + 2, "'"))
    BY <1>2, <1>5, <1>8, <1>15, <2>3, LexemeArms
  <2>5. QuoteEnd(cut, after + 1 - s, "'") = QuoteEnd(text, after, "'") + 1 - s
    BY <1>5, <1>9, <2>3, QuoteEndCut DEF cut
  <2> QED BY <1>5, <1>6, <2>1, <2>3, <2>4, <2>5
<1>16. CASE c = "["
  <2>1. /\ Reads(text, i, "quotedIdentifier", QuoteEnd(text, next, "]"))
        /\ Reads(cut, k, "quotedIdentifier", QuoteEnd(cut, k + 1, "]"))
    BY <1>2, <1>8, <1>16, LexemeArms
  <2> QED BY <1>9, <1>13, <2>1
<1>17. CASE c = DoubleQuote
  <2>1. /\ Reads(text, i, "quotedIdentifier", QuoteEnd(text, next, DoubleQuote))
        /\ Reads(cut, k, "quotedIdentifier", QuoteEnd(cut, k + 1, DoubleQuote))
    BY <1>2, <1>8, <1>17, LexemeArms
  <2> QED BY <1>9, <1>13, <2>1
<1>17a. ASSUME NEW sign \in {"@", "#"}, text[i] = sign, NEW kind, Reads(text, i, kind, SignedEnd(text, i, sign))
        PROVE  SignedEnd(cut, k, sign) = SignedEnd(text, i, sign) + 1 - s
  <2>1. SignedEnd(text, i, sign) # Unterminated /\ SignedEnd(text, i, sign) <= t
    BY <1>7, <1>17a
  <2>2. SignedEnd(Cut(text, s, t), i + 1 - s, sign) = SignedEnd(text, i, sign) + 1 - s
    BY <1>17a, <2>1, SignedEndCut
  <2> QED BY <2>2 DEF cut, k
<1>18. CASE c = "@"
  <2>1. /\ Reads(text, i, "variable", SignedEnd(text, i, "@"))
        /\ Reads(cut, k, "variable", SignedEnd(cut, k, "@"))
    BY <1>2, <1>8, <1>18, LexemeArms
  <2>2. SignedEnd(cut, k, "@") = SignedEnd(text, i, "@") + 1 - s
    BY <1>8, <1>18, <2>1, <1>17a
  <2> QED BY <1>6, <2>1, <2>2
<1>19. CASE c = "#"
  <2>1. /\ Reads(text, i, "tempIdentifier", SignedEnd(text, i, "#"))
        /\ Reads(cut, k, "tempIdentifier", SignedEnd(cut, k, "#"))
    BY <1>2, <1>8, <1>19, LexemeArms
  <2>2. SignedEnd(cut, k, "#") = SignedEnd(text, i, "#") + 1 - s
    BY <1>8, <1>19, <2>1, <1>17a
  <2> QED BY <1>6, <2>1, <2>2
<1>20. ASSUME NEW kind, Reads(text, i, kind, i + 1), Reads(cut, k, kind, k + 1)
       PROVE  SameLexeme(text, s, t, i)
  <2>1. k + 1 = (i + 1) + 1 - s
    BY <1>1 DEF k
  <2> QED BY <1>6, <1>20, <2>1
<1>21. CASE c = "?"
  <2>1. Reads(text, i, "positionalParameter", i + 1) /\ Reads(cut, k, "positionalParameter", k + 1)
    BY <1>2, <1>8, <1>21, LexemeArms
  <2> QED BY <1>20, <2>1
<1>22. CASE c \in IdentifierStart /\ ~(c = "N" /\ d = "'")
  <2>1. Reads(text, i, "word", NameEnd(text, i))
    BY <1>8, <1>22, LexemeArms
  <2>2. ~(c = "N" /\ e = "'")
    BY <1>4, <1>9, <1>22
  <2>3. Reads(cut, k, "word", NameEnd(cut, k))
    BY <1>2, <1>8, <1>22, <2>2, LexemeArms
  <2>4. NameEnd(cut, k) = NameEnd(text, i) + 1 - s
    BY <1>3, <1>7, <2>1, RunEndCut DEF k, cut, NameEnd
  <2> QED BY <1>6, <2>1, <2>3, <2>4
<1>23. CASE c = "0" /\ d = "x"
  <2>1. Reads(text, i, "number", HexadecimalEnd(text, i))
    BY <1>8, <1>23, LexemeArms
  <2>2. after <= t
    <3>1. HexadecimalEnd(text, i) # Unterminated /\ HexadecimalEnd(text, i) <= t
      BY <1>7, <2>1
    <3>2. HexadecimalEnd(text, i) = RunEnd(text, after, HexDigit)
      BY <1>8, <3>1 DEF HexadecimalEnd
    <3>3. RunEnd(text, after, HexDigit) \in Nat /\ RunEnd(text, after, HexDigit) >= after
      BY <1>5, RunEndFacts
    <3> QED BY <1>1, <1>5, <3>1, <3>2, <3>3
  <2>3. Reads(cut, k, "number", HexadecimalEnd(cut, k))
    BY <1>2, <1>5, <1>8, <1>23, <2>2, LexemeArms
  <2>4. HexadecimalEnd(cut, k) = HexadecimalEnd(text, i) + 1 - s
    <3>1. /\ text[i] = "0" /\ At(text, i + 1) = "x"
          /\ HexadecimalEnd(text, i) # Unterminated /\ HexadecimalEnd(text, i) <= t
      BY <1>7, <1>8, <1>23, <2>1
    <3>2. HexadecimalEnd(Cut(text, s, t), i + 1 - s) = HexadecimalEnd(text, i) + 1 - s
      BY <3>1, HexadecimalEndCut
    <3> QED BY <3>2 DEF cut, k
  <2> QED BY <1>6, <2>1, <2>3, <2>4
<1>24. CASE (c \in Digit /\ ~(c = "0" /\ d = "x")) \/ (c = "." /\ d \in Digit)
  <2>1. Reads(text, i, "number", DecimalEnd(text, i))
    BY <1>8, <1>24, LexemeArms
  <2>2. StartsDecimal(text, i)
    BY <1>8, <1>24 DEF StartsDecimal
  <2>3. c = "." => after <= t
    <3> HAVE c = "."
    <3>1. DecimalEnd(text, i) # Unterminated /\ DecimalEnd(text, i) <= t
      BY <1>7, <2>1
    <3> DEFINE whole == WholeEnd(text, i)
               fraction == FractionEnd(text, i)
               power == PowerStart(text, i)
    <3>2. FromDigits(text, i) = i + 1
      BY <1>8 DEF FromDigits
    <3>3. /\ whole \in (i + 1)..(Len(text) + 1) /\ whole > FromDigits(text, i)
          /\ fraction \in whole..(Len(text) + 1)
          /\ At(text, fraction) = "e" => power \in (fraction + 1)..(Len(text) + 1)
      BY <1>1, <2>2, DecimalPlaces
    <3>4. DecimalEnd(text, i) = fraction \/ (DecimalEnd(text, i) = DigitsEnd(text, power) /\ At(text, fraction) = "e")
      BY <3>1 DEF DecimalEnd, FromDigits, WholeEnd, FractionEnd, PowerStart
    <3>5. ASSUME At(text, fraction) = "e"
          PROVE  DigitsEnd(text, power) \in power..(Len(text) + 1)
      <4> HIDE DEF power, fraction, whole
      <4>1. power \in 1..(Len(text) + 1)
        BY <1>1, <3>3, <3>5
      <4> QED BY <4>1, DigitsEndFacts
    <3> HIDE DEF whole, fraction, power
    <3> QED BY <1>1, <1>8, <3>1, <3>2, <3>3, <3>4, <3>5
  <2>4. (c \in Digit /\ ~(c = "0" /\ e = "x")) \/ (c = "." /\ e \in Digit)
    BY <1>4, <1>5, <1>9, <1>24, <2>3
  <2>5. Reads(cut, k, "number", DecimalEnd(cut, k))
    <3>1. CASE c \in Digit /\ ~(c = "0" /\ e = "x")
      <4>1. cut[k] \in Digit /\ ~(cut[k] = "0" /\ At(cut, k + 1) = "x")
        BY <1>2, <1>8, <3>1
      <4> QED BY <4>1, DecimalArm
    <3>2. CASE c = "." /\ e \in Digit
      BY <1>2, <1>8, <3>2, LexemeArms
    <3> QED BY <2>4, <3>1, <3>2
  <2>6. DecimalEnd(cut, k) = DecimalEnd(text, i) + 1 - s
    <3>1. DecimalEnd(text, i) # Unterminated /\ DecimalEnd(text, i) <= t
      BY <1>7, <2>1
    <3>2. DecimalEnd(Cut(text, s, t), i + 1 - s) = DecimalEnd(text, i) + 1 - s
      BY <2>2, <3>1, DecimalEndCut
    <3> QED BY <3>2 DEF cut, k
  <2> QED BY <1>6, <2>1, <2>5, <2>6
<1>25. CASE TwoSigns(c, d)
  <2>1. Reads(text, i, "operator", after)
    BY <1>8, <1>25, LexemeArms
  <2>2. after <= t
    BY <1>7, <2>1
  <2>3. Reads(cut, k, "operator", k + 2)
    BY <1>2, <1>5, <1>8, <1>25, <2>2, LexemeArms
  <2> QED BY <1>5, <1>6, <2>1, <2>2, <2>3
<1>26. CASE c \in SingleOperators /\ ~TwoSigns(c, d) /\ ~Opens(c, d)
  <2>1. Reads(text, i, "operator", i + 1)
    BY <1>8, <1>26, LexemeArms
  <2>2. Reads(cut, k, "operator", k + 1)
    BY <1>2, <1>4, <1>8, <1>9, <1>26, LexemeArms
  <2> QED BY <1>20, <2>1, <2>2
<1>27. CASE c \in Punctuation /\ ~TwoSigns(c, d) /\ ~(c = "." /\ d \in Digit)
  <2>1. Reads(text, i, "punctuation", i + 1)
    BY <1>8, <1>27, LexemeArms
  <2>2. Reads(cut, k, "punctuation", k + 1)
    BY <1>2, <1>4, <1>8, <1>9, <1>27, LexemeArms
  <2> QED BY <1>20, <2>1, <2>2
<1>28. CASE c \notin Starts /\ ~(c = "N" /\ d = "'")
  <2>1. Reads(text, i, "unsupported", Unterminated)
    BY <1>8, <1>28, LexemeArms
  <2> QED BY <1>7, <2>1
<1> QED BY <1>10, <1>11, <1>12, <1>14, <1>15, <1>16, <1>17, <1>18, <1>19, <1>21, <1>22, <1>23, <1>24,
           <1>25, <1>26, <1>27, <1>28, LexemeStarts

-----------------------------------------------------------------------------
(* Tokens that follow each other from the start of a text, each what the   *)
(* rules read where it starts.                                             *)
StartAt(tokens, k) == IF k = 1 THEN 1 ELSE tokens[k - 1].end
TokenOf(text, token) ==
  /\ token.start \in 1..Len(text)
  /\ token.end \in (token.start + 1)..(Len(text) + 1)
  /\ token.kind \in Kinds
  /\ Lexeme(text, token.start) = <<token.kind, token.end>>
  /\ token = Token(text, token.start, token.kind, token.end)
Tokens(text) ==
  {Token(text, start, kind, end) : start \in 1..Len(text), kind \in Kinds, end \in 1..(Len(text) + 1)}
Tiled(text, tokens) ==
  /\ tokens \in Seq(Tokens(text))
  /\ \A k \in 1..Len(tokens) : TokenOf(text, tokens[k]) /\ tokens[k].start = StartAt(tokens, k)

(* The states of the scanner: it stops where it cannot read on.            *)
Scans(text) ==
  {scan \in [ok : BOOLEAN, next : 1..(Len(text) + 1), tokens : Seq(Tokens(text))] :
     /\ Tiled(text, scan.tokens)
     /\ scan.next = StartAt(scan.tokens, Len(scan.tokens) + 1)
     /\ ~scan.ok => scan.next <= Len(text) /\ Lexeme(text, scan.next)[2] = Unterminated}
Reach(text) == [scan \in Scans(text) |-> IF scan.ok THEN scan.next ELSE scan.next + 1]
Scanning(text) == [scan \in Scans(text) |-> ScanRound(text, scan)]
Unread == [ok |-> TRUE, next |-> 1, tokens |-> <<>>]

LEMMA TokenIsItself ==
  ASSUME NEW text, NEW start, NEW kind, NEW end
  PROVE  /\ Token(text, start, kind, end).start = start
         /\ Token(text, start, kind, end).kind = kind
         /\ Token(text, start, kind, end).end = end
         /\ Token(text, start, kind, end).text = SubSeq(text, start, end - 1)
BY DEF Token

(* One more token keeps the tokens tiled.                                  *)
LEMMA OneMoreToken ==
  ASSUME NEW T, NEW text \in Seq(T), NEW tokens, Tiled(text, tokens),
         NEW token, TokenOf(text, token), token.start = StartAt(tokens, Len(tokens) + 1)
  PROVE  /\ Tiled(text, Append(tokens, token))
         /\ StartAt(Append(tokens, token), Len(Append(tokens, token)) + 1) = token.end
<1> DEFINE more == Append(tokens, token)
           m == Len(tokens)
<1>1. tokens \in Seq(Tokens(text)) /\ m \in Nat
  BY DEF Tiled
<1>2. token \in Tokens(text)
  BY DEF TokenOf, Tokens
<1>3. more \in Seq(Tokens(text)) /\ Len(more) = m + 1 /\ more[m + 1] = token
      /\ \A k \in 1..m : more[k] = tokens[k]
  BY <1>1, <1>2
<1>4. ASSUME NEW k \in 1..(m + 1)
      PROVE  TokenOf(text, more[k]) /\ more[k].start = StartAt(more, k)
  <2>1. StartAt(more, k) = StartAt(tokens, k)
    BY <1>1, <1>3 DEF StartAt
  <2>2. CASE k = m + 1
    BY <1>3, <2>1, <2>2
  <2>3. CASE k # m + 1
    <3>1. k \in 1..m
      BY <1>1, <2>3
    <3> QED BY <1>3, <2>1, <3>1 DEF Tiled
  <2> QED BY <2>2, <2>3
<1>5. StartAt(more, Len(more) + 1) = token.end
  BY <1>1, <1>3 DEF StartAt
<1> QED BY <1>3, <1>4, <1>5 DEF Tiled

LEMMA ScanningStays ==
  ASSUME NEW T, NEW text \in Seq(T), NEW scan \in Scans(text)
  PROVE  /\ ScanRound(text, scan) \in Scans(text)
         /\ \/ ScanRound(text, scan) = scan
            \/ Reach(text)[ScanRound(text, scan)] > Reach(text)[scan]
         /\ ScanRound(text, scan) = scan => ~scan.ok \/ scan.next = Len(text) + 1
<1> DEFINE lexeme == Lexeme(text, scan.next)
           token == Token(text, scan.next, lexeme[1], lexeme[2])
           last == Len(text) + 1
<1>1. /\ scan.ok \in BOOLEAN /\ scan.next \in 1..last /\ scan.tokens \in Seq(Tokens(text))
      /\ scan = [ok |-> scan.ok, next |-> scan.next, tokens |-> scan.tokens]
      /\ Tiled(text, scan.tokens) /\ scan.next = StartAt(scan.tokens, Len(scan.tokens) + 1)
      /\ Len(text) \in Nat
  BY DEF Scans
<1>2. CASE ~scan.ok \/ scan.next > Len(text)
  <2>1. ScanRound(text, scan) = scan
    BY <1>2 DEF ScanRound
  <2> QED BY <1>1, <1>2, <2>1
<1>3. CASE scan.ok /\ scan.next <= Len(text) /\ lexeme[2] = Unterminated
  <2> DEFINE stop == [scan EXCEPT !.ok = FALSE]
  <2>1. ScanRound(text, scan) = stop
    BY <1>1, <1>3 DEF ScanRound
  <2>2. stop.ok = FALSE /\ stop.next = scan.next /\ stop.tokens = scan.tokens
        /\ stop \in [ok : BOOLEAN, next : 1..last, tokens : Seq(Tokens(text))]
    BY <1>1
  <2>3. stop \in Scans(text)
    <3> HIDE DEF stop
    <3> QED BY <1>1, <1>3, <2>2 DEF Scans
  <2>4. Reach(text)[stop] > Reach(text)[scan]
    <3> HIDE DEF stop
    <3> QED BY <1>1, <1>3, <2>2, <2>3 DEF Reach
  <2>5. stop # scan
    BY <1>3, <2>2
  <2> HIDE DEF stop
  <2> QED BY <2>1, <2>3, <2>4, <2>5
<1>4. CASE scan.ok /\ scan.next <= Len(text) /\ lexeme[2] # Unterminated
  <2> DEFINE more == [scan EXCEPT !.next = lexeme[2], !.tokens = Append(@, token)]
  <2>1. ScanRound(text, scan) = more
    BY <1>1, <1>4 DEF ScanRound
  <2>2. more.ok = scan.ok /\ more.next = lexeme[2] /\ more.tokens = Append(scan.tokens, token)
    BY <1>1
  <2>3. PICK kind \in Kinds, end \in {Unterminated} \cup (scan.next + 1)..last : lexeme = <<kind, end>>
    <3>1. scan.next \in 1..Len(text)
      BY <1>1, <1>4
    <3> QED BY <3>1, LexemeFacts DEF LexemeIs
  <2>4. end \in (scan.next + 1)..last /\ lexeme[1] = kind /\ lexeme[2] = end
    BY <1>4, <2>3
  <2>5. TokenOf(text, token) /\ token.start = scan.next /\ token.end = end
    <3>1. token = Token(text, scan.next, kind, end)
      BY <2>4
    <3>2. token.start = scan.next /\ token.kind = kind /\ token.end = end
      BY <3>1, TokenIsItself
    <3> HIDE DEF token
    <3> QED BY <1>1, <1>4, <2>3, <2>4, <3>1, <3>2 DEF TokenOf
  <2> HIDE DEF token, lexeme
  <2>6. /\ Tiled(text, Append(scan.tokens, token))
        /\ StartAt(Append(scan.tokens, token), Len(Append(scan.tokens, token)) + 1) = token.end
    BY <1>1, <2>5, OneMoreToken
  <2>7. more \in [ok : BOOLEAN, next : 1..last, tokens : Seq(Tokens(text))]
    <3>1. Append(scan.tokens, token) \in Seq(Tokens(text)) /\ end \in 1..last
      BY <1>1, <2>4, <2>6 DEF Tiled
    <3> QED BY <1>1, <2>4, <3>1
  <2>8. more \in Scans(text)
    <3> HIDE DEF more
    <3> QED BY <1>4, <2>2, <2>4, <2>5, <2>6, <2>7 DEF Scans
  <2> HIDE DEF more
  <2>9. Reach(text)[more] > Reach(text)[scan] /\ more # scan
    BY <1>1, <1>4, <2>2, <2>4, <2>8 DEF Reach
  <2> QED BY <2>1, <2>8, <2>9
<1> QED BY <1>1, <1>2, <1>3, <1>4

LEMMA ScanFacts ==
  ASSUME NEW T, NEW text \in Seq(T)
  PROVE  /\ ScanFormattingSql(text) \in Scans(text)
         /\ ScanFormattingSql(text).ok => ScanFormattingSql(text).next = Len(text) + 1
<1> DEFINE S == Scans(text)
           count == Len(text)
           at == Reach(text)
           step == Scanning(text)
           IsLoop(f) == f = [n \in 0..count |-> IF n = 0 THEN Unread ELSE ScanRound(text, f[n - 1])]
           after == CHOOSE f : IsLoop(f)
<1>1. count \in Nat
  OBVIOUS
<1>2. Unread \in S
  <2>1. Unread.ok = TRUE /\ Unread.next = 1 /\ Unread.tokens = <<>> /\ Len(<<>>) = 0
        /\ Unread \in [ok : BOOLEAN, next : 1..(Len(text) + 1), tokens : Seq(Tokens(text))]
    BY <1>1 DEF Unread
  <2>2. Tiled(text, <<>>) /\ StartAt(<<>>, 0 + 1) = 1
    BY DEF Tiled, StartAt
  <2> HIDE DEF Unread
  <2> QED BY <2>1, <2>2 DEF Scans
<1>3. \A scan \in S : step[scan] = ScanRound(text, scan)
  BY DEF Scanning
<1>4. step \in [S -> S]
  BY ScanningStays DEF Scanning
<1>5. MovesOn(S, at, step)
  <2>1. at \in [S -> Nat]
    <3>1. \A scan \in S : scan.next \in Nat
      BY <1>1 DEF Scans
    <3> HIDE DEF S
    <3> QED BY <3>1 DEF Reach, S
  <2>2. \A scan \in S : step[scan] = scan \/ at[step[scan]] > at[scan]
    <3> HIDE DEF at, step, S
    <3> QED BY <1>3, ScanningStays DEF at, S
  <2> HIDE DEF S, at, step
  <2> QED BY <1>4, <2>1, <2>2 DEF MovesOn
<1>6. \E f : IsLoop(f)
  <2>1. PICK f : Loops(f, count, S, step, Unread)
    <3> HIDE DEF S, count, step, Unread
    <3> QED BY <1>1, <1>2, <1>4, LoopExists
  <2>2. f \in [0..count -> S] /\ \A n \in 0..count : f[n] = IF n = 0 THEN Unread ELSE step[f[n - 1]]
    BY <2>1 DEF Loops
  <2>3. ASSUME NEW n \in 0..count
        PROVE  f[n] = IF n = 0 THEN Unread ELSE ScanRound(text, f[n - 1])
    <3>1. n # 0 => f[n - 1] \in S
      BY <1>1, <2>2
    <3> HIDE DEF S, step, Unread
    <3> QED BY <1>3, <2>2, <3>1
  <2> HIDE DEF Unread
  <2>4. IsLoop(f)
    BY <2>2, <2>3
  <2> QED BY <2>4
<1>7. IsLoop(after)
  BY <1>6
<1>8. ScanFormattingSql(text) = after[count]
  BY DEF ScanFormattingSql, Rounds, Unread
<1> HIDE DEF after, Unread
<1>9. /\ DOMAIN after = 0..count /\ after = [n \in DOMAIN after |-> after[n]] /\ after[0] = Unread
      /\ \A n \in 1..count : after[n] = ScanRound(text, after[n - 1])
  BY <1>1, <1>7
<1>10. Ran(after, count, S, at, step, Unread)
  <2> HIDE DEF S, count, step, at
  <2>1. \A n \in 1..count : after[n - 1] \in S => after[n] = step[after[n - 1]]
    BY <1>3, <1>9
  <2> QED BY <1>1, <1>2, <1>5, <1>9, <2>1, LoopRan
<1>11. /\ after \in [0..count -> S]
       /\ \A n \in 0..count : step[after[n]] = after[n] \/ at[after[n]] >= at[Unread] + n
  BY <1>10 DEF Ran
<1>12. after[count] \in S /\ (step[after[count]] = after[count] \/ at[after[count]] >= at[Unread] + count)
  BY <1>1, <1>11
<1>13. after[count].ok => after[count].next = count + 1
  <2> HAVE after[count].ok
  <2>1. CASE ScanRound(text, after[count]) = after[count]
    BY <1>12, <2>1, ScanningStays
  <2>2. CASE at[after[count]] >= at[Unread] + count
    <3>1. at[after[count]] = after[count].next
      BY <1>12 DEF Reach
    <3>2. at[Unread] = 1
      BY <1>2 DEF Reach, Unread
    <3>3. after[count].next \in 1..(count + 1)
      BY <1>12 DEF Scans
    <3> HIDE DEF at
    <3> QED BY <1>1, <2>2, <3>1, <3>2, <3>3
  <2> QED BY <1>3, <1>12, <2>1, <2>2
<1> QED BY <1>8, <1>12, <1>13

(* The state of a scanner that has read all of the text.                   *)
ReadAll(text, tokens) ==
  Tiled(text, tokens) /\ StartAt(tokens, Len(tokens) + 1) = Len(text) + 1

LEMMA ScanReadsAll ==
  ASSUME NEW T, NEW text \in Seq(T), ScanFormattingSql(text).ok
  PROVE  ReadAll(text, ScanFormattingSql(text).tokens)
<1> DEFINE scan == ScanFormattingSql(text)
<1>1. scan \in Scans(text) /\ scan.next = Len(text) + 1
  BY ScanFacts
<1> HIDE DEF scan
<1>2. Tiled(text, scan.tokens) /\ scan.next = StartAt(scan.tokens, Len(scan.tokens) + 1)
  BY <1>1 DEF Scans
<1> QED BY <1>1, <1>2 DEF ReadAll, scan

(* Tiled tokens are in the order of the text.                              *)
InOrder(text, tokens) ==
  /\ tokens \in Seq(Tokens(text))
  /\ \A k \in 1..Len(tokens) :
       /\ tokens[k].start \in 1..Len(text) /\ tokens[k].end \in (tokens[k].start + 1)..(Len(text) + 1)
       /\ tokens[k].start = StartAt(tokens, k)
  /\ \A k \in 1..Len(tokens) : \A j \in 1..(k - 1) : tokens[j].end <= tokens[k].start

LEMMA TokensInOrder ==
  ASSUME NEW T, NEW text \in Seq(T), NEW tokens, Tiled(text, tokens)
  PROVE  InOrder(text, tokens)
<1> DEFINE m == Len(tokens)
           before == {k \in 0..m : \A j \in 1..(k - 1) : tokens[j].end <= tokens[k].start}
<1>1. m \in Nat /\ Len(text) \in Nat /\ tokens \in Seq(Tokens(text))
  BY DEF Tiled
<1>2. \A k \in 1..m : /\ tokens[k].start \in 1..Len(text)
                      /\ tokens[k].end \in (tokens[k].start + 1)..(Len(text) + 1)
                      /\ tokens[k].start = StartAt(tokens, k)
  BY DEF Tiled, TokenOf
<1>3. 0 \in before
  BY <1>1
<1>4. ASSUME NEW k \in 0..(m - 1), k \in before
      PROVE  k + 1 \in before
  <2>1. \A j \in 1..(k - 1) : tokens[j].end <= tokens[k].start
    BY <1>4
  <2>2. ASSUME NEW j \in 1..k
        PROVE  tokens[j].end <= tokens[k + 1].start
    <3>1. k + 1 \in 1..m /\ k \in 1..m /\ (k + 1) - 1 = k /\ k + 1 # 1 /\ j \in 1..m
      BY <1>1, <2>2
    <3>2. tokens[k + 1].start = tokens[k].end
      BY <1>2, <3>1 DEF StartAt
    <3>3. /\ tokens[j].end \in 1..(Len(text) + 1) /\ tokens[k].start \in 1..Len(text)
          /\ tokens[k].end \in (tokens[k].start + 1)..(Len(text) + 1)
      BY <1>1, <1>2, <3>1
    <3>4. j = k \/ j \in 1..(k - 1)
      BY <2>2
    <3> QED BY <1>1, <2>1, <3>2, <3>3, <3>4
  <2> QED BY <1>1, <2>2
<1>5. \A k \in 0..m : k \in before
  <2> HIDE DEF before, m
  <2> QED BY <1>1, <1>3, <1>4, Lists!Counting
<1> QED BY <1>1, <1>2, <1>5 DEF InOrder

(* Every place of a text that was read is in a token.                      *)
LEMMA TokenThere ==
  ASSUME NEW T, NEW text \in Seq(T), NEW tokens, ReadAll(text, tokens), NEW place \in 1..Len(text)
  PROVE  \E k \in 1..Len(tokens) : tokens[k].start <= place /\ place < tokens[k].end
<1> DEFINE m == Len(tokens)
           There(k) == \E j \in 1..k : tokens[j].start <= place /\ place < tokens[j].end
           seen == {k \in 0..m : place < StartAt(tokens, k + 1) => There(k)}
<1>1. InOrder(text, tokens) /\ StartAt(tokens, m + 1) = Len(text) + 1
  BY TokensInOrder DEF ReadAll
<1>2. m \in Nat /\ Len(text) \in Nat /\ place \in Nat
      /\ \A k \in 1..m : /\ tokens[k].start \in 1..Len(text)
                         /\ tokens[k].end \in (tokens[k].start + 1)..(Len(text) + 1)
                         /\ tokens[k].start = StartAt(tokens, k)
  BY <1>1 DEF InOrder
<1>3. 0 \in seen
  BY <1>2 DEF StartAt
<1>4. ASSUME NEW k \in 0..(m - 1), k \in seen
      PROVE  k + 1 \in seen
  <2>1. k + 1 \in 1..m /\ k + 1 \in 1..(k + 1) /\ k + 1 \in 0..m /\ (k + 1) + 1 # 1 /\ ((k + 1) + 1) - 1 = k + 1
    BY <1>2
  <2>2. StartAt(tokens, (k + 1) + 1) = tokens[k + 1].end
    BY <2>1 DEF StartAt
  <2>3. SUFFICES ASSUME place < tokens[k + 1].end PROVE There(k + 1)
    BY <2>1, <2>2
  <2>4. CASE place < StartAt(tokens, k + 1)
    <3>1. There(k)
      BY <1>4, <2>4
    <3>2. \A j \in 1..k : j \in 1..(k + 1)
      OBVIOUS
    <3> QED BY <3>1, <3>2
  <2>5. CASE ~(place < StartAt(tokens, k + 1))
    <3>1. tokens[k + 1].start <= place
      BY <1>2, <2>1, <2>5
    <3> QED BY <2>1, <2>3, <3>1
  <2> QED BY <2>4, <2>5
<1>5. \A k \in 0..m : k \in seen
  <2> HIDE DEF seen, m
  <2> QED BY <1>2, <1>3, <1>4, Lists!Counting
<1>6. m \in seen
  BY <1>2, <1>5
<1> QED BY <1>1, <1>2, <1>6

(* The tokens that one place is in are one.                                *)
LEMMA OneTokenThere ==
  ASSUME NEW text, NEW tokens, InOrder(text, tokens), Len(text) \in Nat, NEW place \in Nat,
         NEW j \in 1..Len(tokens), tokens[j].start <= place, place < tokens[j].end,
         NEW k \in 1..Len(tokens), tokens[k].start <= place, place < tokens[k].end
  PROVE  j = k
<1>1. Len(tokens) \in Nat
  BY DEF InOrder
<1>2. /\ tokens[j].start \in Nat /\ tokens[j].end \in Nat
      /\ tokens[k].start \in Nat /\ tokens[k].end \in Nat
  BY DEF InOrder
<1>3. j \in 1..(k - 1) => tokens[j].end <= tokens[k].start
  BY DEF InOrder
<1>4. k \in 1..(j - 1) => tokens[k].end <= tokens[j].start
  BY DEF InOrder
<1>5. j = k \/ j \in 1..(k - 1) \/ k \in 1..(j - 1)
  BY <1>1
<1> QED BY <1>2, <1>3, <1>4, <1>5

(* The scanner of formatting loses nothing: of a text that it accepts,     *)
(* every symbol is in exactly one token, which has it at its place, and    *)
(* the tokens are in the order of the text (LosslessSqlScanner.ts:100).    *)
THEOREM ScanIsLossless ==
  ASSUME NEW T, NEW source \in Seq(T), ScanFormattingSql(source).ok
  PROVE  LET tokens == ScanFormattingSql(source).tokens
             Holds(token, place) == token.start <= place /\ place < token.end
         IN  /\ \A place \in 1..Len(source) : \E k \in 1..Len(tokens) :
                  /\ Holds(tokens[k], place)
                  /\ \A j \in 1..Len(tokens) : Holds(tokens[j], place) => j = k
                  /\ tokens[k].text[place + 1 - tokens[k].start] = source[place]
             /\ \A k \in 1..Len(tokens) : \A j \in 1..(k - 1) : tokens[j].end <= tokens[k].start
<1> DEFINE tokens == ScanFormattingSql(source).tokens
<1>1. ReadAll(source, tokens) /\ Tiled(source, tokens) /\ InOrder(source, tokens) /\ Len(source) \in Nat
  <2>1. ReadAll(source, tokens)
    BY ScanReadsAll
  <2> HIDE DEF tokens
  <2>2. Tiled(source, tokens)
    BY <2>1 DEF ReadAll
  <2> QED BY <2>1, <2>2, TokensInOrder
<1> HIDE DEF tokens
<1>2. ASSUME NEW place \in 1..Len(source)
      PROVE  \E k \in 1..Len(tokens) :
               /\ tokens[k].start <= place /\ place < tokens[k].end
               /\ \A j \in 1..Len(tokens) : tokens[j].start <= place /\ place < tokens[j].end => j = k
               /\ tokens[k].text[place + 1 - tokens[k].start] = source[place]
  <2>1. PICK k \in 1..Len(tokens) : tokens[k].start <= place /\ place < tokens[k].end
    BY <1>1, TokenThere
  <2>2. ASSUME NEW j \in 1..Len(tokens), tokens[j].start <= place, place < tokens[j].end
        PROVE  j = k
    BY <1>1, <2>1, <2>2, OneTokenThere
  <2>3. /\ tokens[k].start \in 1..Len(source) /\ tokens[k].end \in (tokens[k].start + 1)..(Len(source) + 1)
        /\ tokens[k].text = SubSeq(source, tokens[k].start, tokens[k].end - 1)
    <3>1. TokenOf(source, tokens[k])
      BY <1>1, <2>1 DEF Tiled
    <3> QED BY <3>1, TokenIsItself DEF TokenOf
  <2>4. tokens[k].text[place + 1 - tokens[k].start] = source[place]
    <3> DEFINE start == tokens[k].start
               end == tokens[k].end
    <3>1. start \in 1..Len(source) /\ end \in (start + 1)..(Len(source) + 1) /\ start <= place /\ place < end
      BY <2>1, <2>3
    <3> HIDE DEF start, end
    <3>2. SubSeq(source, start, end - 1)[place + 1 - start] = source[place]
      BY <1>1, <3>1
    <3> QED BY <2>3, <3>2 DEF start, end
  <2> QED BY <2>1, <2>2, <2>4
<1>3. \A k \in 1..Len(tokens) : \A j \in 1..(k - 1) : tokens[j].end <= tokens[k].start
  BY <1>1 DEF InOrder
<1> QED BY <1>2, <1>3 DEF tokens

-----------------------------------------------------------------------------
(* There is one way to read a text: tiled tokens are the first of those    *)
(* that read all of it.                                                    *)
FirstOf(a, b) == Len(a) <= Len(b) /\ \A k \in 1..Len(a) : a[k] = b[k]

LEMMA TokenIsRead ==
  ASSUME NEW text, NEW a, NEW b, TokenOf(text, a), TokenOf(text, b), a.start = b.start
  PROVE  a = b
<1>1. <<a.kind, a.end>> = <<b.kind, b.end>>
  BY DEF TokenOf
<1>2. a.kind = b.kind /\ a.end = b.end
  BY <1>1
<1>3. a = Token(text, a.start, a.kind, a.end) /\ b = Token(text, b.start, b.kind, b.end)
  BY DEF TokenOf
<1> QED BY <1>2, <1>3

LEMMA ReadOnce ==
  ASSUME NEW T, NEW text \in Seq(T), NEW a, Tiled(text, a), NEW b, ReadAll(text, b)
  PROVE  FirstOf(a, b)
<1> DEFINE m == Len(a)
           Agrees(k) == k <= Len(b) /\ StartAt(a, k + 1) = StartAt(b, k + 1) /\ \A j \in 1..k : a[j] = b[j]
           same == {k \in 0..m : Agrees(k)}
<1>1. m \in Nat /\ Len(b) \in Nat /\ Len(text) \in Nat /\ StartAt(b, Len(b) + 1) = Len(text) + 1
  BY DEF Tiled, ReadAll
<1>2. \A k \in 1..m : TokenOf(text, a[k]) /\ a[k].start = StartAt(a, k) /\ a[k].start \in 1..Len(text)
  BY DEF Tiled, TokenOf
<1>3. \A k \in 1..Len(b) : TokenOf(text, b[k]) /\ b[k].start = StartAt(b, k)
  BY DEF Tiled, ReadAll
<1>4. 0 \in same
  BY <1>1 DEF StartAt
<1>5. ASSUME NEW k \in 0..(m - 1), k \in same
      PROVE  k + 1 \in same
  <2>1. k \in Nat /\ k + 1 \in 1..m /\ k + 1 \in 0..m /\ (k + 1) + 1 # 1 /\ ((k + 1) + 1) - 1 = k + 1
    BY <1>1
  <2>2. k <= Len(b) /\ StartAt(a, k + 1) = StartAt(b, k + 1) /\ \A j \in 1..k : a[j] = b[j]
    BY <1>5
  <2>3. k # Len(b)
    <3>1. a[k + 1].start = StartAt(b, k + 1) /\ a[k + 1].start \in 1..Len(text)
      BY <1>2, <2>1, <2>2
    <3>2. k = Len(b) => StartAt(b, k + 1) = Len(text) + 1
      BY <1>1
    <3> QED BY <1>1, <3>1, <3>2
  <2>4. k + 1 \in 1..Len(b) /\ k + 1 <= Len(b)
    BY <1>1, <2>1, <2>2, <2>3
  <2>5. a[k + 1] = b[k + 1]
    BY <1>2, <1>3, <2>1, <2>2, <2>4, TokenIsRead
  <2>6. StartAt(a, (k + 1) + 1) = StartAt(b, (k + 1) + 1)
    BY <2>1, <2>5 DEF StartAt
  <2>7. \A j \in 1..(k + 1) : j = k + 1 \/ j \in 1..k
    BY <2>1
  <2>8. \A j \in 1..(k + 1) : a[j] = b[j]
    BY <2>2, <2>5, <2>7
  <2>9. Agrees(k + 1)
    BY <2>4, <2>6, <2>8
  <2> HIDE DEF Agrees
  <2> QED BY <2>1, <2>9
<1>6. \A k \in 0..m : k \in same
  <2> HIDE DEF same, m
  <2> QED BY <1>1, <1>4, <1>5, Lists!Counting
<1>7. m \in same
  BY <1>1, <1>6
<1> QED BY <1>7 DEF FirstOf

(* So tokens that read all of a text are what the scanner returns.         *)
LEMMA ScanIs ==
  ASSUME NEW T, NEW text \in Seq(T), NEW tokens, ReadAll(text, tokens)
  PROVE  ScanFormattingSql(text).ok /\ ScanFormattingSql(text).tokens = tokens
<1> DEFINE scan == ScanFormattingSql(text)
           m == Len(scan.tokens)
<1>1. /\ scan.ok \in BOOLEAN /\ Tiled(text, scan.tokens) /\ scan.next = StartAt(scan.tokens, m + 1)
      /\ ~scan.ok => scan.next <= Len(text) /\ Lexeme(text, scan.next)[2] = Unterminated
      /\ scan.next \in 1..(Len(text) + 1)
  BY ScanFacts DEF Scans
<1>2. Tiled(text, tokens) /\ StartAt(tokens, Len(tokens) + 1) = Len(text) + 1
  BY DEF ReadAll
<1>3. tokens \in Seq(Tokens(text)) /\ scan.tokens \in Seq(Tokens(text)) /\ Len(text) \in Nat
  BY <1>1, <1>2 DEF Tiled
<1>4. FirstOf(scan.tokens, tokens)
  <2> HIDE DEF scan
  <2> QED BY <1>1, ReadOnce
<1> HIDE DEF scan
<1>5. m \in Nat /\ m <= Len(tokens) /\ Len(tokens) \in Nat /\ \A k \in 1..m : scan.tokens[k] = tokens[k]
  BY <1>3, <1>4 DEF FirstOf
<1>6. StartAt(tokens, m + 1) = scan.next
  <2>1. m + 1 # 1 => m \in 1..m /\ (m + 1) - 1 = m
    BY <1>5
  <2> QED BY <1>1, <1>5, <2>1 DEF StartAt
<1>7. ASSUME ~scan.ok
      PROVE  FALSE
  <2>1. scan.next <= Len(text) /\ Lexeme(text, scan.next)[2] = Unterminated
    BY <1>1, <1>7
  <2>2. m # Len(tokens)
    BY <1>2, <1>3, <1>6, <2>1
  <2>3. m + 1 \in 1..Len(tokens)
    BY <1>5, <2>2
  <2>4. TokenOf(text, tokens[m + 1]) /\ tokens[m + 1].start = scan.next
    BY <1>2, <1>6, <2>3 DEF Tiled
  <2>5. Lexeme(text, scan.next)[2] = tokens[m + 1].end /\ tokens[m + 1].end >= 1
    BY <1>3, <2>4 DEF TokenOf
  <2> QED BY <2>1, <2>5 DEF Unterminated
<1>8. scan.ok
  BY <1>1, <1>7
<1>9. scan.next = Len(text) + 1
  BY <1>8, ScanFacts DEF scan
<1>10. ReadAll(text, scan.tokens)
  BY <1>1, <1>9 DEF ReadAll
<1>11. FirstOf(tokens, scan.tokens)
  BY <1>2, <1>10, ReadOnce
<1>12. m = Len(tokens)
  BY <1>5, <1>11 DEF FirstOf
<1>13. scan.tokens = tokens
  BY <1>3, <1>5, <1>12
<1> QED BY <1>8, <1>13 DEF scan

-----------------------------------------------------------------------------
(* Part of a cut is part of the text.                                      *)
LEMMA CutOfCut ==
  ASSUME NEW T, NEW text \in Seq(T), NEW s, NEW t, IsCut(text, s, t),
         NEW from \in s..t, NEW to \in from..t
  PROVE  Cut(Cut(text, s, t), from + 1 - s, to + 1 - s) = Cut(text, from, to)
<1> DEFINE cut == Cut(text, s, t)
           p == from + 1 - s
           q == to + 1 - s
           inner == Cut(cut, p, q)
           outer == Cut(text, from, to)
<1>1. cut \in Seq(T) /\ Len(cut) = t - s /\ s \in Nat /\ t \in Nat /\ 1 <= s /\ s <= t
      /\ t <= Len(text) + 1 /\ Len(text) \in Nat /\ from \in Nat /\ to \in Nat
  BY CutFacts
<1>2. IsCut(cut, p, q) /\ IsCut(text, from, to)
  <2> HIDE DEF cut
  <2> QED BY <1>1 DEF IsCut
<1> HIDE DEF cut, p, q
<1>3. inner \in Seq(T) /\ Len(inner) = q - p
  BY <1>1, <1>2, CutFacts
<1>4. outer \in Seq(T) /\ Len(outer) = to - from
  BY <1>2, CutFacts
<1>5. q - p = to - from
  BY <1>1 DEF p, q
<1> HIDE DEF inner, outer
<1>6. ASSUME NEW n \in 1..Len(outer)
      PROVE  inner[n] = outer[n]
  <2> DEFINE i == from + (n - 1)
             j == p + (n - 1)
  <2>1. i \in from..(to - 1) /\ i \in s..(t - 1) /\ j \in p..(q - 1) /\ i + 1 - from = n /\ j + 1 - p = n
        /\ j = i + 1 - s
    BY <1>1, <1>4, <1>5 DEF p, q
  <2> HIDE DEF i, j
  <2>2. outer[i + 1 - from] = text[i]
    BY <1>2, <2>1, CutAt DEF outer
  <2>3. inner[j + 1 - p] = cut[j]
    BY <1>1, <1>2, <2>1, CutAt DEF inner
  <2>4. cut[i + 1 - s] = text[i]
    BY <2>1, CutAt DEF cut
  <2> QED BY <2>1, <2>2, <2>3, <2>4
<1>7. inner = outer
  BY <1>3, <1>4, <1>5, <1>6
<1> QED BY <1>7 DEF inner, outer, p, q, cut

(* A part of a text from the start of a token to the end of one has the    *)
(* tokens that it has in the text.                                         *)
CutReads(text, tokens, a, b) ==
  LET alone == ScanFormattingSql(Cut(text, tokens[a].start, tokens[b].end))
  IN  /\ alone.ok
      /\ Len(alone.tokens) = b + 1 - a
      /\ \A k \in 1..(b + 1 - a) : /\ alone.tokens[k].kind = tokens[k + a - 1].kind
                                   /\ alone.tokens[k].text = tokens[k + a - 1].text

LEMMA PartIsRead ==
  ASSUME NEW T, NEW text \in Seq(T), NEW tokens, ReadAll(text, tokens),
         NEW a \in 1..Len(tokens), NEW b \in a..Len(tokens)
  PROVE  CutReads(text, tokens, a, b)
<1> DEFINE s == tokens[a].start
           t == tokens[b].end
           cut == Cut(text, s, t)
           m == b + 1 - a
           Shifted(k) == Token(cut, tokens[k + a - 1].start + 1 - s, tokens[k + a - 1].kind,
                               tokens[k + a - 1].end + 1 - s)
           shifted == [k \in 1..m |-> Shifted(k)]
<1>1. /\ Tiled(text, tokens) /\ InOrder(text, tokens) /\ Len(tokens) \in Nat /\ Len(text) \in Nat
      /\ a \in Nat /\ b \in Nat /\ a >= 1 /\ b >= a /\ b <= Len(tokens) /\ m \in Nat /\ m >= 1
      /\ b \in 1..Len(tokens)
  <2>1. Tiled(text, tokens) /\ InOrder(text, tokens)
    BY TokensInOrder DEF ReadAll
  <2>2. tokens \in Seq(Tokens(text)) /\ Len(text) \in Nat
    BY <2>1 DEF Tiled
  <2> QED BY <2>1, <2>2
<1>2. \A k \in 1..Len(tokens) :
        /\ TokenOf(text, tokens[k]) /\ tokens[k].start = StartAt(tokens, k)
        /\ tokens[k].start \in 1..Len(text) /\ tokens[k].end \in (tokens[k].start + 1)..(Len(text) + 1)
        /\ Lexeme(text, tokens[k].start) = <<tokens[k].kind, tokens[k].end>> /\ tokens[k].kind \in Kinds
        /\ \A j \in 1..(k - 1) : tokens[j].end <= tokens[k].start
  BY <1>1 DEF Tiled, TokenOf, InOrder
<1>3. s \in 1..Len(text) /\ t \in (s + 1)..(Len(text) + 1)
  <2>1. a = b \/ a \in 1..(b - 1)
    BY <1>1
  <2>2. /\ tokens[a].start \in 1..Len(text) /\ tokens[a].end \in (tokens[a].start + 1)..(Len(text) + 1)
        /\ tokens[b].start \in 1..Len(text) /\ tokens[b].end \in (tokens[b].start + 1)..(Len(text) + 1)
        /\ a \in 1..(b - 1) => tokens[a].end <= tokens[b].start
    BY <1>1, <1>2
  <2>3. CASE a = b
    BY <1>1, <2>2, <2>3
  <2>4. CASE a \in 1..(b - 1)
    <3>1. s \in 1..Len(text) /\ tokens[a].end > s /\ tokens[a].end <= tokens[b].start
          /\ tokens[b].start < t /\ t \in 1..(Len(text) + 1) /\ tokens[b].start \in Nat /\ tokens[a].end \in Nat
      BY <1>1, <2>2, <2>4
    <3> HIDE DEF s, t
    <3> QED BY <1>1, <3>1
  <2> QED BY <2>1, <2>3, <2>4
<1>4. IsCut(text, s, t)
  <2> HIDE DEF s, t
  <2> QED BY <1>1, <1>3 DEF IsCut
<1>5. cut \in Seq(T) /\ Len(cut) = t - s
  BY <1>4, CutFacts
<1> HIDE DEF s, t, cut, m
<1>6. ASSUME NEW k \in 1..m
      PROVE  LET j == k + a - 1
             IN  /\ j \in 1..Len(tokens)
                 /\ tokens[j].start \in s..(t - 1)
                 /\ tokens[j].end \in (tokens[j].start + 1)..t
  <2> DEFINE j == k + a - 1
  <2>1. j \in a..b /\ j \in 1..Len(tokens)
    BY <1>1 DEF m
  <2> HIDE DEF j
  <2>2. /\ tokens[j].start \in 1..Len(text) /\ tokens[j].end \in (tokens[j].start + 1)..(Len(text) + 1)
    BY <1>2, <2>1
  <2>3. tokens[j].start >= s
    <3>1. j = a \/ a \in 1..(j - 1)
      BY <1>1, <2>1
    <3>2. a \in 1..(j - 1) => tokens[a].end <= tokens[j].start
      BY <1>2, <2>1
    <3>3. tokens[a].start = s /\ tokens[a].end >= s /\ tokens[a].end \in Nat
      BY <1>1, <1>2, <1>3 DEF s
    <3> QED BY <1>3, <2>2, <3>1, <3>2, <3>3 DEF s
  <2>4. tokens[j].end <= t
    <3>1. j = b \/ j \in 1..(b - 1)
      BY <1>1, <2>1
    <3>2. j \in 1..(b - 1) => tokens[j].end <= tokens[b].start
      BY <1>1, <1>2
    <3>3. tokens[b].end = t /\ tokens[b].start <= t /\ tokens[b].start \in Nat
      BY <1>1, <1>2, <1>3 DEF t
    <3> QED BY <1>3, <2>2, <3>1, <3>2, <3>3 DEF t
  <2>5. tokens[j].start \in s..(t - 1) /\ tokens[j].end \in (tokens[j].start + 1)..t
    BY <1>1, <1>3, <2>2, <2>3, <2>4
  <2> QED BY <2>1, <2>5 DEF j
<1>7. ASSUME NEW k \in 1..m
      PROVE  /\ TokenOf(cut, Shifted(k))
             /\ Shifted(k).start = tokens[k + a - 1].start + 1 - s
             /\ Shifted(k).end = tokens[k + a - 1].end + 1 - s
             /\ Shifted(k).kind = tokens[k + a - 1].kind
             /\ Shifted(k).text = tokens[k + a - 1].text
  <2> DEFINE j == k + a - 1
             x == tokens[j].start
             y == tokens[j].end
             kind == tokens[j].kind
  <2>1. j \in 1..Len(tokens) /\ x \in s..(t - 1) /\ y \in (x + 1)..t
    BY <1>6
  <2>2. Lexeme(text, x) = <<kind, y>> /\ kind \in Kinds /\ TokenOf(text, tokens[j])
    BY <1>2, <2>1
  <2> HIDE DEF x, y, kind, j
  <2>3. Lexeme(text, x)[2] = y /\ Lexeme(text, x)[1] = kind /\ y # Unterminated /\ y <= t
    BY <1>1, <1>3, <2>1, <2>2 DEF Unterminated
  <2>4. Lexeme(cut, x + 1 - s) = <<kind, y + 1 - s>>
    <3>1. SameLexeme(text, s, t, x)
      BY <1>4, <2>1, <2>3, LexemeCut
    <3> QED BY <2>3, <3>1 DEF SameLexeme, cut
  <2>5. /\ x + 1 - s \in 1..Len(cut) /\ y + 1 - s \in ((x + 1 - s) + 1)..(Len(cut) + 1)
    BY <1>1, <1>3, <1>5, <2>1
  <2>6. Shifted(k) = Token(cut, x + 1 - s, kind, y + 1 - s)
    BY DEF x, y, kind, j
  <2> HIDE DEF Shifted
  <2>7. /\ Shifted(k).start = x + 1 - s /\ Shifted(k).end = y + 1 - s /\ Shifted(k).kind = kind
        /\ Shifted(k).text = SubSeq(cut, x + 1 - s, (y + 1 - s) - 1)
    BY <2>6, TokenIsItself
  <2>8. TokenOf(cut, Shifted(k))
    BY <2>2, <2>4, <2>5, <2>6, <2>7 DEF TokenOf
  <2>9. tokens[j].text = SubSeq(text, x, y - 1)
    <3>1. tokens[j] = Token(text, x, kind, y)
      BY <2>2 DEF TokenOf, x, y, kind
    <3> QED BY <3>1, TokenIsItself
  <2>10. Cut(cut, x + 1 - s, y + 1 - s) = Cut(text, x, y)
    <3>1. x \in s..t /\ y \in x..t
      BY <1>1, <1>3, <2>1
    <3> QED BY <1>4, <3>1, CutOfCut DEF cut
  <2> QED BY <2>7, <2>8, <2>9, <2>10 DEF Cut, x, y, kind, j
<1> HIDE DEF Shifted
<1>8. shifted \in Seq(Tokens(cut)) /\ Len(shifted) = m /\ \A k \in 1..m : shifted[k] = Shifted(k)
  <2>1. ASSUME NEW k \in 1..m
        PROVE  Shifted(k) \in Tokens(cut)
    <3>1. TokenOf(cut, Shifted(k))
      BY <1>7
    <3>2. Len(cut) \in Nat
      BY <1>5
    <3> QED BY <3>1, <3>2 DEF TokenOf, Tokens
  <2> QED BY <1>1, <2>1
<1> HIDE DEF shifted
<1>9. ASSUME NEW k \in 1..m
      PROVE  shifted[k].start = StartAt(shifted, k)
  <2>1. CASE k = 1
    <3>1. k + a - 1 = a /\ tokens[a].start = s
      BY <1>1, <2>1 DEF s
    <3>2. shifted[k].start = s + 1 - s
      BY <1>7, <1>8, <3>1
    <3> QED BY <1>3, <2>1, <3>2 DEF StartAt
  <2>2. CASE k # 1
    <3> DEFINE j == k + a - 1
    <3>1. k - 1 \in 1..m /\ (k - 1) + a - 1 = j - 1 /\ j \in 1..Len(tokens) /\ j # 1
      BY <1>1, <2>2, <1>6
    <3> HIDE DEF j
    <3>2. tokens[j].start = tokens[j - 1].end
      BY <1>2, <3>1 DEF StartAt
    <3>3. shifted[k].start = tokens[j].start + 1 - s
      BY <1>7, <1>8 DEF j
    <3>4. shifted[k - 1].end = tokens[j - 1].end + 1 - s
      <4>1. Shifted(k - 1).end = tokens[(k - 1) + a - 1].end + 1 - s
        BY <1>7, <3>1
      <4> QED BY <1>8, <3>1, <4>1
    <3> QED BY <2>2, <3>2, <3>3, <3>4 DEF StartAt
  <2> QED BY <2>1, <2>2
<1>10. StartAt(shifted, Len(shifted) + 1) = Len(cut) + 1
  <2>1. m \in 1..m /\ m + a - 1 = b /\ m + 1 # 1 /\ (m + 1) - 1 = m
    BY <1>1 DEF m
  <2>2. shifted[m].end = t + 1 - s
    <3>1. Shifted(m).end = tokens[m + a - 1].end + 1 - s
      BY <1>7, <2>1
    <3> QED BY <1>8, <2>1, <3>1 DEF t
  <2>3. StartAt(shifted, m + 1) = shifted[m].end
    BY <2>1 DEF StartAt
  <2> QED BY <1>3, <1>5, <1>8, <2>2, <2>3
<1>11. ReadAll(cut, shifted)
  <2>1. \A k \in 1..m : TokenOf(cut, shifted[k])
    BY <1>7, <1>8
  <2>2. Tiled(cut, shifted)
    BY <1>8, <1>9, <2>1 DEF Tiled
  <2> QED BY <1>10, <2>2 DEF ReadAll
<1>12. ScanFormattingSql(cut).ok /\ ScanFormattingSql(cut).tokens = shifted
  BY <1>5, <1>11, ScanIs
<1>13. \A k \in 1..m : shifted[k].kind = tokens[k + a - 1].kind /\ shifted[k].text = tokens[k + a - 1].text
  BY <1>7, <1>8
<1> QED BY <1>8, <1>12, <1>13 DEF CutReads, cut, s, t, m

-----------------------------------------------------------------------------
(* What is chosen of a list, after each of its places.                     *)
Choosing(list, places, f) ==
  f = [n \in 0..Len(list) |->
        IF n = 0 THEN <<>> ELSE IF n \in places THEN Append(f[n - 1], list[n]) ELSE f[n - 1]]
IsChoosing(T, list, places, f) ==
  /\ f \in [0..Len(list) -> Seq(T)]
  /\ f[0] = <<>>
  /\ \A n \in 1..Len(list) : f[n] = IF n \in places THEN Append(f[n - 1], list[n]) ELSE f[n - 1]
  /\ Chosen(list, places) = f[Len(list)]

LEMMA ChoosingExists ==
  ASSUME NEW T, NEW list \in Seq(T), NEW places
  PROVE  \E f : IsChoosing(T, list, places, f)
<1> DEFINE S == Seq(T)
           count == Len(list)
           Step(n) == [c \in S |-> IF n \in places THEN Append(c, list[n]) ELSE c]
           steps == [n \in 1..count |-> Step(n)]
           after == CHOOSE f : Choosing(list, places, f)
<1>1. count \in Nat /\ \A n \in 1..count : list[n] \in T
  OBVIOUS
<1>2. steps \in [1..count -> [S -> S]] /\ <<>> \in S
  <2>1. ASSUME NEW n \in 1..count PROVE Step(n) \in [S -> S]
    <3>1. \A c \in S : Append(c, list[n]) \in S
      BY <1>1
    <3> HIDE DEF S
    <3> QED BY <3>1
  <2> HIDE DEF S, Step
  <2> QED BY <2>1 DEF S
<1>3. \A n \in 1..count : \A c \in S : steps[n][c] = IF n \in places THEN Append(c, list[n]) ELSE c
  OBVIOUS
<1>4. PICK f : Lists!Steps(f, count, S, <<>>, steps)
  <2> HIDE DEF S, count, steps
  <2> QED BY <1>1, <1>2, Lists!Iterated
<1>5. f \in [0..count -> S] /\ \A n \in 0..count : f[n] = IF n = 0 THEN <<>> ELSE steps[n][f[n - 1]]
  BY <1>4 DEF Lists!Steps
<1> HIDE DEF steps, S
<1>6. \A n \in 0..count : f[n] = IF n = 0 THEN <<>> ELSE IF n \in places THEN Append(f[n - 1], list[n]) ELSE f[n - 1]
  <2> SUFFICES ASSUME NEW n \in 0..count, n # 0
               PROVE  f[n] = IF n \in places THEN Append(f[n - 1], list[n]) ELSE f[n - 1]
    BY <1>5
  <2>1. n \in 1..count /\ n - 1 \in 0..count
    BY <1>1
  <2> QED BY <1>3, <1>5, <2>1
<1>7. Choosing(list, places, f)
  BY <1>5, <1>6 DEF Choosing
<1>8. Choosing(list, places, after)
  BY <1>7
<1>9. Chosen(list, places) = after[count]
  BY DEF Chosen, Choosing
<1> HIDE DEF after
<1>10. /\ DOMAIN after = 0..count /\ after[0] = <<>>
       /\ \A n \in 1..count : after[n] = IF n \in places THEN Append(after[n - 1], list[n]) ELSE after[n - 1]
       /\ after = [n \in 0..count |-> after[n]]
  <2>1. after = [n \in 0..count |->
                  IF n = 0 THEN <<>> ELSE IF n \in places THEN Append(after[n - 1], list[n]) ELSE after[n - 1]]
    BY <1>8 DEF Choosing
  <2>2. \A n \in 0..count : after[n] = IF n = 0 THEN <<>>
                                        ELSE IF n \in places THEN Append(after[n - 1], list[n]) ELSE after[n - 1]
    BY <2>1
  <2>3. DOMAIN after = 0..count /\ after = [n \in 0..count |-> after[n]]
    BY <2>1
  <2>4. 0 \in 0..count /\ \A n \in 1..count : n \in 0..count /\ n # 0
    BY <1>1
  <2> HIDE DEF count
  <2> QED BY <2>2, <2>3, <2>4
<1>11. \A n \in 0..count : after[n] \in S
  <2> DEFINE in == {n \in 0..count : after[n] \in S}
  <2>1. 0 \in in
    BY <1>1, <1>2, <1>10
  <2>2. ASSUME NEW n \in 0..(count - 1), n \in in PROVE n + 1 \in in
    <3>1. n + 1 \in 1..count /\ (n + 1) - 1 = n /\ after[n] \in S
      BY <1>1, <2>2
    <3>2. after[n + 1] = IF n + 1 \in places THEN Append(after[n], list[n + 1]) ELSE after[n]
      BY <1>10, <3>1
    <3>3. Append(after[n], list[n + 1]) \in S
      BY <1>1, <3>1 DEF S
    <3> QED BY <3>1, <3>2, <3>3
  <2>3. \A n \in 0..count : n \in in
    <3> HIDE DEF in, count
    <3> QED BY <1>1, <2>1, <2>2, Lists!Counting
  <2> QED BY <2>3
<1>12. after \in [0..count -> S]
  BY <1>10, <1>11
<1> QED BY <1>9, <1>10, <1>12 DEF IsChoosing, S

(* The chosen elements are those at the places, in their order.            *)
PickedBy(list, places, upTo, chosen, at) ==
  /\ at \in [1..Len(chosen) -> places \cap 1..upTo]
  /\ \A k \in 1..Len(chosen) : chosen[k] = list[at[k]]
  /\ \A k \in 1..Len(chosen) : \A j \in 1..(k - 1) : at[j] < at[k]
  /\ \A p \in places \cap 1..upTo : \E k \in 1..Len(chosen) : at[k] = p
Picked(list, places, upTo, chosen) == \E at : PickedBy(list, places, upTo, chosen, at)

LEMMA OneMorePicked ==
  ASSUME NEW T, NEW list \in Seq(T), NEW places, NEW n \in 1..Len(list),
         NEW chosen \in Seq(T), Picked(list, places, n - 1, chosen)
  PROVE  Picked(list, places, n, IF n \in places THEN Append(chosen, list[n]) ELSE chosen)
<1> DEFINE m == Len(chosen)
<1>1. PICK at : PickedBy(list, places, n - 1, chosen, at)
  BY DEF Picked
<1>2. /\ at \in [1..m -> places \cap 1..(n - 1)]
      /\ \A k \in 1..m : chosen[k] = list[at[k]]
      /\ \A k \in 1..m : \A j \in 1..(k - 1) : at[j] < at[k]
      /\ \A p \in places \cap 1..(n - 1) : \E k \in 1..m : at[k] = p
      /\ m \in Nat /\ Len(list) \in Nat /\ n \in Nat
  BY <1>1 DEF PickedBy
<1>3. CASE n \notin places
  <2>1. places \cap 1..n = places \cap 1..(n - 1)
    BY <1>2, <1>3
  <2>2. PickedBy(list, places, n, chosen, at)
    BY <1>1, <2>1 DEF PickedBy
  <2> QED BY <1>3, <2>2 DEF Picked
<1>4. CASE n \in places
  <2> DEFINE more == Append(chosen, list[n])
             now == [k \in 1..(m + 1) |-> IF k = m + 1 THEN n ELSE at[k]]
  <2>1. Len(more) = m + 1 /\ more[m + 1] = list[n] /\ \A k \in 1..m : more[k] = chosen[k]
    OBVIOUS
  <2>2. \A k \in 1..m : at[k] \in places /\ at[k] \in 1..(n - 1) /\ now[k] = at[k] /\ k \in 1..(m + 1)
    BY <1>2
  <2>3. now[m + 1] = n /\ n \in places \cap 1..n
    BY <1>2, <1>4
  <2>4. \A k \in 1..(m + 1) : k = m + 1 \/ k \in 1..m
    BY <1>2
  <2>5. now \in [1..(m + 1) -> places \cap 1..n]
    BY <1>2, <2>2, <2>3, <2>4
  <2> HIDE DEF more, now, m
  <2>6. \A k \in 1..(m + 1) : more[k] = list[now[k]]
    BY <1>2, <2>1, <2>2, <2>3, <2>4
  <2>7. ASSUME NEW k \in 1..(m + 1), NEW j \in 1..(k - 1)
        PROVE  now[j] < now[k]
    <3>1. j \in 1..m
      BY <1>2
    <3>2. k \in 1..m => at[j] < at[k]
      BY <1>2
    <3>3. now[j] = at[j] /\ at[j] \in 1..(n - 1)
      BY <2>2, <3>1
    <3>4. CASE k = m + 1
      BY <1>2, <2>3, <3>3, <3>4
    <3>5. CASE k \in 1..m
      BY <2>2, <3>2, <3>3, <3>5
    <3> QED BY <2>4, <3>4, <3>5
  <2>8. ASSUME NEW p \in places \cap 1..n
        PROVE  \E k \in 1..(m + 1) : now[k] = p
    <3>1. CASE p = n
      <4>1. m + 1 \in 1..(m + 1)
        BY <1>2
      <4> QED BY <2>3, <3>1, <4>1
    <3>2. CASE p # n
      <4>1. p \in places \cap 1..(n - 1)
        BY <1>2, <3>2
      <4>2. PICK k \in 1..m : at[k] = p
        BY <1>2, <4>1
      <4> QED BY <2>2, <4>2
    <3> QED BY <3>1, <3>2
  <2>9. PickedBy(list, places, n, more, now)
    BY <2>1, <2>5, <2>6, <2>7, <2>8 DEF PickedBy
  <2> QED BY <1>4, <2>9 DEF Picked, more
<1> QED BY <1>3, <1>4

LEMMA ChosenFacts ==
  ASSUME NEW T, NEW list \in Seq(T), NEW places
  PROVE  Chosen(list, places) \in Seq(T) /\ Picked(list, places, Len(list), Chosen(list, places))
<1> DEFINE m == Len(list)
<1>1. PICK f : IsChoosing(T, list, places, f)
  BY ChoosingExists
<1>2. /\ f \in [0..m -> Seq(T)] /\ f[0] = <<>> /\ Chosen(list, places) = f[m] /\ m \in Nat
      /\ \A n \in 1..m : f[n] = IF n \in places THEN Append(f[n - 1], list[n]) ELSE f[n - 1]
  BY <1>1 DEF IsChoosing
<1> DEFINE good == {n \in 0..m : Picked(list, places, n, f[n])}
<1>3. 0 \in good
  <2> DEFINE none == [k \in 1..0 |-> k]
  <2>1. Len(f[0]) = 0 /\ 1..0 = {} /\ places \cap 1..0 = {}
    BY <1>2
  <2>2. none \in [1..0 -> places \cap 1..0]
    BY <2>1
  <2> HIDE DEF none
  <2>3. PickedBy(list, places, 0, f[0], none)
    BY <2>1, <2>2 DEF PickedBy
  <2> QED BY <1>2, <2>3 DEF Picked
<1>4. ASSUME NEW n \in 0..(m - 1), n \in good
      PROVE  n + 1 \in good
  <2>1. n + 1 \in 1..m /\ (n + 1) - 1 = n /\ n \in 0..m /\ f[n] \in Seq(T) /\ Picked(list, places, n, f[n])
    BY <1>2, <1>4
  <2>2. Picked(list, places, n + 1, IF n + 1 \in places THEN Append(f[n], list[n + 1]) ELSE f[n])
    <3> DEFINE k == n + 1
    <3>1. k \in 1..Len(list) /\ Picked(list, places, k - 1, f[n])
      BY <2>1
    <3> HIDE DEF k
    <3>2. Picked(list, places, k, IF k \in places THEN Append(f[n], list[k]) ELSE f[n])
      BY <2>1, <3>1, OneMorePicked
    <3> QED BY <3>2 DEF k
  <2>3. f[n + 1] = IF n + 1 \in places THEN Append(f[n], list[n + 1]) ELSE f[n]
    BY <1>2, <2>1
  <2> QED BY <2>1, <2>2, <2>3
<1>5. \A n \in 0..m : n \in good
  <2> HIDE DEF good, m
  <2> QED BY <1>2, <1>3, <1>4, Lists!Counting
<1>6. m \in good /\ f[m] \in Seq(T)
  BY <1>2, <1>5
<1> QED BY <1>2, <1>6

LEMMA MaxIsGreatest ==
  ASSUME NEW bound \in Nat, NEW S \in SUBSET (0..bound), S # {}
  PROVE  Max(S) \in S /\ \A n \in S : n <= Max(S)
<1> DEFINE below == {bound - n : n \in S}
<1>1. below \in SUBSET Nat /\ below # {}
  OBVIOUS
<1>2. PICK b \in below : \A c \in below : b <= c
  <2> HIDE DEF below
  <2> QED BY <1>1, Lists!LeastExists
<1>3. PICK n \in S : b = bound - n
  BY <1>2
<1>4. ASSUME NEW k \in S PROVE n >= k
  <2>1. bound - k \in below
    OBVIOUS
  <2>2. bound - n <= bound - k
    BY <1>2, <1>3, <2>1
  <2> QED BY <2>2
<1>5. \E x \in S : \A y \in S : x >= y
  BY <1>4
<1> DEFINE x == CHOOSE x \in S : \A y \in S : x >= y
<1>6. x \in S /\ \A y \in S : x >= y
  BY <1>5
<1>7. Max(S) = x
  BY DEF Max
<1> HIDE DEF x
<1> QED BY <1>6, <1>7

(* Places in their order.                                                  *)
InRow(order, places) ==
  /\ order \in Seq(places)
  /\ \A k \in 1..Len(order) : \A j \in 1..(k - 1) : order[j] < order[k]
  /\ \A p \in places : \E k \in 1..Len(order) : order[k] = p

LEMMA AscendingFacts ==
  ASSUME NEW bound \in Nat, NEW places \in SUBSET (1..bound)
  PROVE  InRow(Ascending(places), places)
<1>1. CASE places = {}
  <2>1. Ascending(places) = <<>>
    BY <1>1 DEF Ascending
  <2>2. <<>> \in Seq(places) /\ Len(<<>>) = 0 /\ 1..0 = {}
    OBVIOUS
  <2> QED BY <1>1, <2>1, <2>2 DEF InRow
<1>2. CASE places # {}
  <2> DEFINE top == Max(places)
             list == [i \in 1..top |-> i]
             order == Chosen(list, places)
  <2>1. top \in places /\ (\A p \in places : p <= top)
    BY <1>2, MaxIsGreatest
  <2> HIDE DEF top
  <2>0. places \subseteq 1..top /\ top \in Nat
    BY <2>1
  <2>2. list \in Seq(Nat) /\ Len(list) = top /\ \A i \in 1..top : list[i] = i
    BY <2>0
  <2>3. places \cap 1..top = places
    BY <2>0
  <2> HIDE DEF list
  <2>4. order \in Seq(Nat) /\ Picked(list, places, top, order)
    BY <2>2, ChosenFacts
  <2> HIDE DEF order
  <2>5. PICK at : PickedBy(list, places, top, order, at)
    BY <2>4 DEF Picked
  <2>6. /\ at \in [1..Len(order) -> places]
        /\ \A k \in 1..Len(order) : order[k] = at[k]
        /\ \A k \in 1..Len(order) : \A j \in 1..(k - 1) : at[j] < at[k]
        /\ \A p \in places : \E k \in 1..Len(order) : at[k] = p
    BY <2>2, <2>3, <2>5 DEF PickedBy
  <2>7. Len(order) \in Nat /\ order \in Seq(places)
    BY <2>4, <2>6
  <2>8. \A k \in 1..Len(order) : \A j \in 1..(k - 1) : order[j] < order[k]
    <3> SUFFICES ASSUME NEW k \in 1..Len(order), NEW j \in 1..(k - 1) PROVE order[j] < order[k]
      OBVIOUS
    <3>1. j \in 1..Len(order)
      BY <2>7
    <3> QED BY <2>6, <3>1
  <2>9. InRow(order, places)
    BY <2>6, <2>7, <2>8 DEF InRow
  <2> QED BY <1>2, <2>9 DEF Ascending, order, list, top
<1> QED BY <1>1, <1>2

(* What is chosen of a list from one place to another.                     *)
LEMMA ChosenPart ==
  ASSUME NEW T, NEW list \in Seq(T), NEW a \in 1..Len(list), NEW b \in a..Len(list)
  PROVE  /\ Len(Chosen(list, a..b)) = b + 1 - a
         /\ \A k \in 1..(b + 1 - a) : Chosen(list, a..b)[k] = list[k + a - 1]
<1> DEFINE part == Chosen(list, a..b)
           m == Len(part)
<1>1. part \in Seq(T) /\ Picked(list, a..b, Len(list), part)
  BY ChosenFacts
<1> HIDE DEF part
<1>2. PICK at : PickedBy(list, a..b, Len(list), part, at)
  BY <1>1 DEF Picked
<1>3. (a..b) \cap 1..Len(list) = a..b /\ a \in a..b /\ b \in a..b /\ a \in Nat /\ b \in Nat /\ m \in Nat
  BY <1>1
<1>4. /\ at \in [1..m -> a..b]
      /\ \A k \in 1..m : part[k] = list[at[k]]
      /\ \A k \in 1..m : \A j \in 1..(k - 1) : at[j] < at[k]
      /\ \A p \in a..b : \E k \in 1..m : at[k] = p
  BY <1>2, <1>3 DEF PickedBy
<1> HIDE DEF m
<1> DEFINE level == {k \in 0..m : k # 0 => at[k] = k + a - 1}
<1>5. ASSUME NEW k \in 0..(m - 1), k \in level
      PROVE  k + 1 \in level
  <2>1. k + 1 \in 1..m /\ k \in Nat /\ at[k + 1] \in a..b /\ (k + 1) - 1 = k
    BY <1>3, <1>4
  <2>2. at[k + 1] >= k + a
    <3>1. CASE k = 0
      BY <1>3, <2>1, <3>1
    <3>2. CASE k # 0
      <4>1. k \in 1..m /\ k \in 1..((k + 1) - 1) /\ at[k] = k + a - 1
        BY <1>3, <1>5, <2>1, <3>2
      <4>2. at[k] < at[k + 1]
        BY <1>4, <2>1, <4>1
      <4> QED BY <1>3, <2>1, <4>1, <4>2
    <3> QED BY <3>1, <3>2
  <2>3. k + a \in a..b
    BY <1>3, <2>1, <2>2
  <2>4. PICK j \in 1..m : at[j] = k + a
    BY <1>4, <2>3
  <2>5. CASE j = k + 1
    BY <1>3, <2>1, <2>4, <2>5
  <2>6. CASE j > k + 1
    <3>1. k + 1 \in 1..(j - 1)
      BY <1>3, <2>1, <2>6
    <3>2. at[k + 1] < at[j]
      BY <1>4, <3>1
    <3> QED BY <1>3, <2>1, <2>2, <2>4, <3>2
  <2>7. CASE j <= k
    <3>1. k \in 1..m /\ at[k] = k + a - 1 /\ (j = k \/ j \in 1..(k - 1))
      BY <1>3, <1>5, <2>1, <2>7
    <3>2. j \in 1..(k - 1) => at[j] < at[k]
      BY <1>4, <3>1
    <3> QED BY <1>3, <2>1, <2>4, <3>1, <3>2
  <2> QED BY <1>3, <2>1, <2>5, <2>6, <2>7
<1>6. 0 \in level
  BY <1>3
<1>7. \A k \in 0..m : k \in level
  <2> HIDE DEF level
  <2> QED BY <1>3, <1>5, <1>6, Lists!Counting
<1>8. \A k \in 1..m : at[k] = k + a - 1
  BY <1>3, <1>7
<1>9. m = b + 1 - a
  <2>1. PICK j \in 1..m : at[j] = b
    BY <1>3, <1>4
  <2>2. m \in 1..m /\ at[m] \in a..b
    BY <1>3, <1>4, <2>1
  <2> QED BY <1>3, <1>8, <2>1, <2>2
<1> QED BY <1>3, <1>4, <1>8, <1>9 DEF m, part

(* A set of places without gaps before them has the first ones.            *)
LEMMA FirstPlaces ==
  ASSUME NEW bound \in Nat, NEW D \in SUBSET (1..bound),
         \A i \in D : \A j \in 1..(i - 1) : j \in D
  PROVE  Cardinality(D) \in 0..bound /\ D = 1..Cardinality(D)
<1>1. CASE D = {}
  <2>1. Cardinality(D) = 0 /\ 1..0 = {}
    BY <1>1, FS_EmptySet
  <2> QED BY <1>1, <2>1
<1>2. CASE D # {}
  <2> DEFINE top == Max(D)
  <2>1. D \in SUBSET (0..bound)
    OBVIOUS
  <2>2. top \in D /\ \A n \in D : n <= top
    BY <1>2, <2>1, MaxIsGreatest
  <2> HIDE DEF top
  <2>3. top \in 1..bound
    BY <2>2
  <2>4. ASSUME NEW j \in 1..top PROVE j \in D
    <3>1. j = top \/ j \in 1..(top - 1)
      BY <2>3
    <3> QED BY <2>2, <3>1
  <2>7. D \subseteq 1..top /\ 1..top \subseteq D
    BY <2>2, <2>3, <2>4
  <2>5. D = 1..top
    BY <2>7
  <2>6. Cardinality(1..top) = top
    <3>1. 1 \in Int /\ top \in Int /\ 1 <= top
      BY <2>3
    <3>2. Cardinality(1..top) = IF 1 > top THEN 0 ELSE top - 1 + 1
      BY <3>1, FS_Interval
    <3> QED BY <3>1, <3>2
  <2> QED BY <2>3, <2>5, <2>6
<1> QED BY <1>1, <1>2

-----------------------------------------------------------------------------
(* The tokens a part of the source touches are those that neither end      *)
(* before it nor start after it.                                           *)
TouchesFrom(tokens, start, end) ==
  LET touched == TokensIn(tokens, start, end)
  IN  /\ touched.from \in 1..(Len(tokens) + 1)
      /\ touched.to \in 1..(Len(tokens) + 1)
      /\ \A p \in 1..Len(tokens) : /\ p < touched.from <=> tokens[p].end <= start
                                   /\ p < touched.to <=> tokens[p].start < end

LEMMA TokensInFacts ==
  ASSUME NEW text, NEW tokens, InOrder(text, tokens), Len(text) \in Nat, NEW x \in Nat, NEW y \in Nat
  PROVE  TouchesFrom(tokens, x, y)
<1> DEFINE m == Len(tokens)
           D == {i \in 1..m : tokens[i].end <= x}
           E == {i \in 1..m : tokens[i].start < y}
<1>1. /\ m \in Nat /\ DOMAIN tokens = 1..m
      /\ \A k \in 1..m : /\ tokens[k].start \in 1..Len(text)
                         /\ tokens[k].end \in (tokens[k].start + 1)..(Len(text) + 1)
                         /\ \A j \in 1..(k - 1) : tokens[j].end <= tokens[k].start
  BY DEF InOrder
<1>2. ASSUME NEW i \in 1..m, NEW j \in 1..(i - 1)
      PROVE  /\ j \in 1..m
             /\ tokens[j].end < tokens[i].end /\ tokens[j].start < tokens[i].start
             /\ tokens[i].end \in Nat /\ tokens[j].end \in Nat /\ tokens[i].start \in Nat /\ tokens[j].start \in Nat
  <2>1. j \in 1..m
    BY <1>1
  <2>2. /\ tokens[j].start \in Nat /\ tokens[j].end \in Nat /\ tokens[j].start < tokens[j].end
        /\ tokens[i].start \in Nat /\ tokens[i].end \in Nat /\ tokens[i].start < tokens[i].end
        /\ tokens[j].end <= tokens[i].start
    BY <1>1, <2>1
  <2> QED BY <2>1, <2>2
<1>3. D \in SUBSET (1..m) /\ \A i \in D : \A j \in 1..(i - 1) : j \in D
  BY <1>2
<1>4. E \in SUBSET (1..m) /\ \A i \in E : \A j \in 1..(i - 1) : j \in E
  BY <1>2
<1>5. TokensIn(tokens, x, y).from = 1 + Cardinality(D) /\ TokensIn(tokens, x, y).to = 1 + Cardinality(E)
  BY <1>1 DEF TokensIn
<1>6. \A i \in 1..m : (i \in D <=> tokens[i].end <= x) /\ (i \in E <=> tokens[i].start < y)
  OBVIOUS
<1> HIDE DEF m, D, E
<1>7. Cardinality(D) \in 0..m /\ D = 1..Cardinality(D)
  BY <1>1, <1>3, FirstPlaces
<1>8. Cardinality(E) \in 0..m /\ E = 1..Cardinality(E)
  BY <1>1, <1>4, FirstPlaces
<1>9. \A i \in 1..m : (i < 1 + Cardinality(D) <=> i \in D) /\ (i < 1 + Cardinality(E) <=> i \in E)
  BY <1>1, <1>7, <1>8
<1>10. 1 + Cardinality(D) \in 1..(m + 1) /\ 1 + Cardinality(E) \in 1..(m + 1)
  BY <1>1, <1>7, <1>8
<1> QED BY <1>5, <1>6, <1>9, <1>10 DEF TouchesFrom, m

(* Skipping stops at the first token of another kind.                      *)
LEMMA SkipKindsFacts ==
  ASSUME NEW tokens, NEW i \in Nat, NEW to \in Nat, NEW kinds
  PROVE  LET k == SkipKinds(tokens, i, to, kinds)
         IN  /\ k \in Nat /\ k >= i
             /\ i <= to => k <= to
             /\ \A j \in i..(to - 1) : tokens[j].kind \notin kinds => k <= j
             /\ k < to => tokens[k].kind \notin kinds
<1> DEFINE last == IF i > to THEN i ELSE to
           found == {j \in i..(to - 1) : tokens[j].kind \notin kinds}
           S == found \cup {last}
           k == Min(S)
<1>1. S \in SUBSET Nat /\ S # {}
  OBVIOUS
<1>2. k \in S /\ \A j \in S : k <= j
  <2> HIDE DEF S
  <2> QED BY <1>1, MinIsLeast
<1>3. SkipKinds(tokens, i, to, kinds) = k
  BY DEF SkipKinds
<1> HIDE DEF k
<1>4. k \in Nat /\ k >= i
  BY <1>2
<1>5. i <= to => k <= to
  BY <1>2
<1>6. \A j \in i..(to - 1) : tokens[j].kind \notin kinds => k <= j
  BY <1>2
<1>7. k < to => tokens[k].kind \notin kinds
  BY <1>2
<1> QED BY <1>3, <1>4, <1>5, <1>6, <1>7

(* A line ends after a line break, or where the source ends.               *)
LEMMA LineFacts ==
  ASSUME NEW T, NEW source \in Seq(T), NEW start \in LineStarts(source)
  PROVE  LET end == LineEndOf(source, start)
         IN  /\ start \in 1..Len(source)
             /\ start # 1 => source[start - 1] = "\n"
             /\ end \in (start + 1)..(Len(source) + 1)
             /\ end # Len(source) + 1 => source[end - 1] = "\n"
             /\ \A other \in LineStarts(source) : start < other => end <= other
<1> DEFINE breaks == {j \in start..Len(source) : source[j] = "\n"}
           S == {j + 1 : j \in breaks} \cup {Len(source) + 1}
           end == Min(S)
<1>1. start \in 1..Len(source) /\ (start # 1 => source[start - 1] = "\n") /\ Len(source) \in Nat
  BY DEF LineStarts
<1>2. S \in SUBSET Nat /\ S # {}
  BY <1>1
<1>3. end \in S /\ \A j \in S : end <= j
  <2> HIDE DEF S
  <2> QED BY <1>2, MinIsLeast
<1>4. LineEndOf(source, start) = end
  BY DEF LineEndOf
<1> HIDE DEF end
<1>5. end \in (start + 1)..(Len(source) + 1) /\ (end # Len(source) + 1 => source[end - 1] = "\n")
  <2>1. CASE end = Len(source) + 1
    BY <1>1, <2>1
  <2>2. CASE end # Len(source) + 1
    <3>1. PICK j \in breaks : end = j + 1
      BY <1>3, <2>2
    <3> QED BY <1>1, <3>1
  <2> QED BY <2>1, <2>2
<1>6. ASSUME NEW other \in LineStarts(source), start < other
      PROVE  end <= other
  <2>1. other \in 1..Len(source) /\ source[other - 1] = "\n"
    BY <1>1, <1>6 DEF LineStarts
  <2>2. other - 1 \in breaks /\ (other - 1) + 1 = other
    BY <1>1, <1>6, <2>1
  <2> QED BY <1>3, <2>2
<1> QED BY <1>1, <1>4, <1>5, <1>6

-----------------------------------------------------------------------------
(* No token that means something is on both sides of a place.              *)
Clean(tokens, place) ==
  \A p \in 1..Len(tokens) : ~Trivia(tokens[p]) => tokens[p].end <= place \/ place <= tokens[p].start

(* A token with a line break in it is a comment, white space or quoted.    *)
LEMMA BreaksAreQuoted ==
  ASSUME NEW T, NEW text \in Seq(T), NEW token, TokenOf(text, token), ~Trivia(token),
         NEW j \in token.start..(token.end - 1), text[j] = "\n"
  PROVE  token.kind \in {"string", "quotedIdentifier"}
<1>1. LexemeIs(text, token.start) /\ Lexeme(text, token.start) = <<token.kind, token.end>>
  BY LexemeFacts DEF TokenOf
<1>2. PICK kind \in Kinds, end \in {Unterminated} \cup (token.start + 1)..(Len(text) + 1) :
        <<token.kind, token.end>> = <<kind, end>> /\ (kind \notin ManyLines => OneLine(text, token.start, end))
  BY <1>1 DEF LexemeIs
<1>3. token.kind = kind /\ token.end = end
  BY <1>2
<1>4. token.kind \in ManyLines
  BY <1>2, <1>3 DEF OneLine
<1> QED BY <1>4 DEF ManyLines, Trivia, Comment

LEMMA SeparatorIsClean ==
  ASSUME NEW T, NEW source \in Seq(T), NEW tokens, ReadAll(source, tokens), NEW depths,
         NEW start \in LineStarts(source), SeparatorOf(source, tokens, depths, start) = "separator"
  PROVE  Clean(tokens, start) /\ Clean(tokens, LineEndOf(source, start))
<1> DEFINE end == LineEndOf(source, start)
           line == TokensIn(tokens, start, end)
           inside == /\ line.from <= Len(tokens) /\ Protected(tokens[line.from])
                     /\ tokens[line.from].start < start /\ tokens[line.from].end > start
           go == SkipKinds(tokens, line.from, line.to, {"whitespace"})
           count == SkipKinds(tokens, go + 1, line.to, {"whitespace"})
           counts == count <= Len(tokens) /\ tokens[count].kind = "number"
           rest == IF counts THEN count + 1 ELSE count
           last == SkipKinds(tokens, rest, line.to, Comment \cup {"whitespace"})
           Spills == \E i \in rest..(last - 1) : Protected(tokens[i]) /\ tokens[i].end > end
           fails == (counts /\ ~RepeatCount(tokens[count])) \/ Spills \/ last # line.to
           idle == Word(tokens[go]) # "go" \/ depths[go] # 0
<1>1. SeparatorOf(source, tokens, depths, start) =
        CASE inside \/ go > Len(tokens) -> "none"
          [] ~inside /\ go <= Len(tokens) /\ idle -> "none"
          [] OTHER -> IF fails THEN "failed" ELSE "separator"
  BY DEF SeparatorOf
<1>2. /\ InOrder(source, tokens) /\ Tiled(source, tokens) /\ Len(source) \in Nat /\ Len(tokens) \in Nat
      /\ \A k \in 1..Len(tokens) : /\ tokens[k].start \in 1..Len(source)
                                   /\ tokens[k].end \in (tokens[k].start + 1)..(Len(source) + 1)
                                   /\ TokenOf(source, tokens[k])
                                   /\ \A j \in 1..(k - 1) : tokens[j].end <= tokens[k].start
  <2>1. Tiled(source, tokens) /\ InOrder(source, tokens)
    BY TokensInOrder DEF ReadAll
  <2> QED BY <2>1 DEF Tiled, InOrder
<1>3. /\ start \in 1..Len(source)
      /\ start # 1 => source[start - 1] = "\n"
      /\ end \in (start + 1)..(Len(source) + 1)
      /\ end # Len(source) + 1 => source[end - 1] = "\n"
  BY LineFacts
<1> HIDE DEF end
<1>4. /\ line.from \in 1..(Len(tokens) + 1)
      /\ line.to \in 1..(Len(tokens) + 1)
      /\ \A p \in 1..Len(tokens) : /\ p < line.from <=> tokens[p].end <= start
                                   /\ p < line.to <=> tokens[p].start < end
  <2>1. start \in Nat /\ end \in Nat
    BY <1>2, <1>3
  <2> QED BY <1>2, <2>1, TokensInFacts DEF TouchesFrom
<1>5. ~inside /\ ~(go > Len(tokens)) /\ Word(tokens[go]) = "go" /\ last = line.to
  <2>1. CASE inside \/ go > Len(tokens)
    <3> HIDE DEF inside, go, idle, fails
    <3> QED BY <1>1, <2>1
  <2>2. CASE ~inside /\ ~(go > Len(tokens)) /\ idle
    <3>1. go <= Len(tokens)
      <4>1. go \in Nat
        <5>1. line.from \in Nat /\ line.to \in Nat
          BY <1>2, <1>4
        <5> HIDE DEF line
        <5> QED BY <5>1, SkipKindsFacts
      <4> HIDE DEF go
      <4> QED BY <1>2, <2>2, <4>1
    <3> HIDE DEF inside, go, idle, fails
    <3> QED BY <1>1, <2>2, <3>1
  <2>3. CASE ~inside /\ ~(go > Len(tokens)) /\ ~idle
    <3>1. ~fails
      <4> HIDE DEF inside, go, idle, fails
      <4> QED BY <1>1, <2>3
    <3>2. last = line.to
      <4> HIDE DEF last, line, count, counts, rest, Spills
      <4> QED BY <3>1
    <3>3. Word(tokens[go]) = "go"
      <4> HIDE DEF go
      <4> QED BY <2>3
    <3> QED BY <2>3, <3>2, <3>3
  <2> QED BY <2>1, <2>2, <2>3
<1> HIDE DEF line
<1>6. Clean(tokens, start)
  <2> SUFFICES ASSUME NEW p \in 1..Len(tokens), ~Trivia(tokens[p]),
                      ~(tokens[p].end <= start), ~(start <= tokens[p].start)
               PROVE  FALSE
    BY DEF Clean
  <2>1. /\ tokens[p].start \in 1..Len(source) /\ tokens[p].end \in (tokens[p].start + 1)..(Len(source) + 1)
        /\ tokens[p].start < start /\ start < tokens[p].end /\ start \in Nat
    BY <1>2, <1>3
  <2>2. line.from = p
    <3>1. line.from <= p
      BY <1>4, <2>1
    <3>2. ASSUME line.from < p
          PROVE  FALSE
      <4>1. line.from \in 1..Len(tokens) /\ line.from \in 1..(p - 1)
        BY <1>4, <3>2
      <4>2. \A j \in 1..(p - 1) : tokens[j].end <= tokens[p].start
        BY <1>2
      <4>3. tokens[line.from].end <= tokens[p].start /\ tokens[line.from].end \in Nat
        <5>1. tokens[line.from].end \in Nat
          <6> HIDE DEF line
          <6>1. \A j \in 1..Len(tokens) : tokens[j].end \in Nat
            BY <1>2
          <6> QED BY <4>1, <6>1
        <5> QED BY <4>1, <4>2, <5>1
      <4>4. line.from < line.from <=> tokens[line.from].end <= start
        BY <1>4, <4>1
      <4>5. ~(line.from < line.from)
        BY <1>2, <4>1
      <4>6. ~(tokens[line.from].end <= start) /\ tokens[line.from].end <= tokens[p].start
            /\ tokens[line.from].end \in Nat
        BY <4>3, <4>4, <4>5
      <4> QED BY <2>1, <4>6
    <3> QED BY <1>2, <1>4, <3>1, <3>2
  <2>3. start # 1 /\ start - 1 \in tokens[p].start..(tokens[p].end - 1)
    BY <1>2, <2>1
  <2>4. tokens[p].kind \in {"string", "quotedIdentifier"}
    BY <1>2, <1>3, <2>3, BreaksAreQuoted
  <2>5. Protected(tokens[p])
    BY <2>4 DEF Protected
  <2>6. inside
    BY <1>2, <1>4, <2>1, <2>2, <2>5
  <2> QED BY <1>5, <2>6
<1>7. Clean(tokens, end)
  <2> SUFFICES ASSUME NEW p \in 1..Len(tokens), ~Trivia(tokens[p]),
                      ~(tokens[p].end <= end), ~(end <= tokens[p].start)
               PROVE  FALSE
    BY DEF Clean
  <2>1. /\ tokens[p].start \in 1..Len(source) /\ tokens[p].end \in (tokens[p].start + 1)..(Len(source) + 1)
        /\ tokens[p].start < end /\ end < tokens[p].end /\ end \in Nat /\ start < end /\ start \in Nat
    BY <1>2, <1>3
  <2>2. tokens[p].kind \in {"string", "quotedIdentifier"}
    <3>1. end # Len(source) + 1 /\ end - 1 \in tokens[p].start..(tokens[p].end - 1)
      BY <1>2, <2>1
    <3> QED BY <1>2, <1>3, <3>1, BreaksAreQuoted
  <2>3. line.from <= p /\ p < line.to
    BY <1>4, <2>1
  <2>4. line.to = p + 1
    <3>1. ASSUME p + 1 < line.to
          PROVE  FALSE
      <4>1. p + 1 \in 1..Len(tokens) /\ p \in 1..((p + 1) - 1)
        BY <1>2, <1>4, <3>1
      <4>2. tokens[p + 1].start < end /\ tokens[p].end <= tokens[p + 1].start /\ tokens[p + 1].start \in Nat
        BY <1>2, <1>4, <3>1, <4>1
      <4> QED BY <2>1, <4>2
    <3> QED BY <1>2, <1>4, <2>3, <3>1
  <2>5. /\ tokens[p].kind \notin {"whitespace"} /\ tokens[p].kind \notin Comment \cup {"whitespace"}
        /\ tokens[p].kind # "number" /\ tokens[p].kind # "word"
    BY <2>2 DEF Comment
  <2>6. line.from \in Nat /\ line.to \in Nat /\ p \in line.from..(line.to - 1) /\ p \in Nat
    BY <1>2, <1>4, <2>3
  <2>7. go \in Nat /\ go <= p
    BY <2>5, <2>6, SkipKindsFacts
  <2> HIDE DEF go
  <2>8. go # p
    <3>1. "" # "go"
      OBVIOUS
    <3>2. tokens[go].kind = "word"
      BY <1>5, <3>1 DEF Word
    <3> QED BY <2>5, <3>2
  <2>9. go + 1 \in Nat /\ p \in (go + 1)..(line.to - 1)
    BY <2>6, <2>7, <2>8
  <2>10. count \in Nat /\ count <= p
    BY <2>5, <2>6, <2>9, SkipKindsFacts
  <2> HIDE DEF count
  <2>11. rest \in Nat /\ rest <= p
    <3>1. counts => count # p
      BY <2>5
    <3> HIDE DEF counts
    <3> QED BY <2>6, <2>10, <3>1
  <2> HIDE DEF rest
  <2>12. last <= p /\ last \in Nat
    <3>1. p \in rest..(line.to - 1)
      BY <2>6, <2>11
    <3> QED BY <2>5, <2>6, <2>11, <3>1, SkipKindsFacts
  <2> HIDE DEF last
  <2> QED BY <1>5, <2>4, <2>6, <2>12
<1> QED BY <1>6, <1>7 DEF end

(* The separators of a document are in its order, and no token that means  *)
(* something is on both sides of one of their ends.                        *)
SeparatorsShare(source, tokens, separators) ==
  /\ Len(separators) \in Nat
  /\ DOMAIN separators = 1..Len(separators)
  /\ \A i \in 1..Len(separators) :
       /\ separators[i].start \in 1..Len(source)
       /\ separators[i].end \in (separators[i].start + 1)..(Len(source) + 1)
       /\ Clean(tokens, separators[i].start) /\ Clean(tokens, separators[i].end)
       /\ \A j \in 1..(i - 1) : separators[j].end <= separators[i].start

LEMMA SeparatorsAreShared ==
  ASSUME NEW T, NEW source \in Seq(T), NEW tokens, ReadAll(source, tokens)
  PROVE  SeparatorsShare(source, tokens, SeparatorLines(source, tokens))
<1> DEFINE places == LinesThat(source, tokens, "separator")
           starts == Ascending(places)
           Line(i) == [start |-> starts[i], end |-> LineEndOf(source, starts[i])]
           separators == SeparatorLines(source, tokens)
<1>1. Len(source) \in Nat
  OBVIOUS
<1>2. \A s \in places : /\ s \in LineStarts(source)
                        /\ SeparatorOf(source, tokens, SyntaxDepths(tokens), s) = "separator"
  BY DEF LinesThat
<1>3. places \in SUBSET (1..Len(source))
  BY <1>2 DEF LineStarts
<1> HIDE DEF places
<1>4. InRow(starts, places)
  BY <1>1, <1>3, AscendingFacts
<1>5. separators = [i \in DOMAIN starts |-> Line(i)]
  BY DEF SeparatorLines, places
<1> HIDE DEF starts, separators
<1>6. /\ starts \in Seq(places) /\ DOMAIN starts = 1..Len(starts) /\ Len(starts) \in Nat
      /\ \A i \in 1..Len(starts) : starts[i] \in places
      /\ \A k \in 1..Len(starts) : \A j \in 1..(k - 1) : starts[j] < starts[k]
  BY <1>4 DEF InRow
<1>7. /\ DOMAIN separators = 1..Len(starts) /\ Len(separators) = Len(starts)
      /\ \A i \in 1..Len(starts) : separators[i].start = starts[i] /\ separators[i].end = LineEndOf(source, starts[i])
  <2>1. separators \in Seq({Line(i) : i \in 1..Len(starts)}) /\ Len(separators) = Len(starts)
    <3> HIDE DEF Line
    <3> QED BY <1>5, <1>6
  <2> QED BY <1>5, <1>6, <2>1
<1>8. ASSUME NEW i \in 1..Len(starts)
      PROVE  /\ starts[i] \in 1..Len(source)
             /\ LineEndOf(source, starts[i]) \in (starts[i] + 1)..(Len(source) + 1)
             /\ Clean(tokens, starts[i]) /\ Clean(tokens, LineEndOf(source, starts[i]))
             /\ \A j \in 1..(i - 1) : LineEndOf(source, starts[j]) <= starts[i]
  <2>1. starts[i] \in LineStarts(source)
    BY <1>2, <1>6
  <2>2. SeparatorOf(source, tokens, SyntaxDepths(tokens), starts[i]) = "separator"
    BY <1>2, <1>6
  <2>3. Clean(tokens, starts[i]) /\ Clean(tokens, LineEndOf(source, starts[i]))
    BY <2>1, <2>2, SeparatorIsClean
  <2>4. starts[i] \in 1..Len(source) /\ LineEndOf(source, starts[i]) \in (starts[i] + 1)..(Len(source) + 1)
    BY <2>1, LineFacts
  <2>5. ASSUME NEW j \in 1..(i - 1)
        PROVE  LineEndOf(source, starts[j]) <= starts[i]
    <3>1. j \in 1..Len(starts) /\ starts[j] < starts[i]
      BY <1>6
    <3>2. starts[j] \in LineStarts(source)
      BY <1>2, <1>6, <3>1
    <3> QED BY <2>1, <3>1, <3>2, LineFacts
  <2> QED BY <2>3, <2>4, <2>5
<1>9. ASSUME NEW i \in 1..Len(starts), NEW j \in 1..(i - 1)
      PROVE  separators[j].end <= separators[i].start
  <2>1. j \in 1..Len(starts)
    BY <1>6
  <2> QED BY <1>7, <1>8, <2>1
<1> QED BY <1>6, <1>7, <1>8, <1>9 DEF SeparatorsShare, separators

(* Where a batch begins and ends.                                          *)
BatchStart(separators, i) == IF i = 1 THEN 1 ELSE separators[i - 1].end
BatchEnd(source, separators, i) ==
  IF i = Len(separators) + 1 THEN Len(source) + 1 ELSE separators[i].start
Within(token, x, y) == x <= token.start /\ token.end <= y

(* Every token that means something is in a separator or in a batch.       *)
LEMMA SeparatorOrBatch ==
  ASSUME NEW source, Len(source) \in Nat, NEW tokens, InOrder(source, tokens), NEW separators,
         SeparatorsShare(source, tokens, separators),
         NEW p \in 1..Len(tokens), ~Trivia(tokens[p])
  PROVE  \/ \E i \in 1..Len(separators) : Within(tokens[p], separators[i].start, separators[i].end)
         \/ \E i \in 1..(Len(separators) + 1) :
              Within(tokens[p], BatchStart(separators, i), BatchEnd(source, separators, i))
<1> DEFINE n == Len(separators)
           token == tokens[p]
           D == {i \in 1..n : separators[i].start <= token.start}
<1>1. token.start \in 1..Len(source) /\ token.end \in (token.start + 1)..(Len(source) + 1)
  BY DEF InOrder
<1>2. n \in Nat /\ \A i \in 1..n :
        /\ separators[i].start \in 1..Len(source)
        /\ separators[i].end \in (separators[i].start + 1)..(Len(source) + 1)
        /\ token.end <= separators[i].start \/ separators[i].start <= token.start
        /\ token.end <= separators[i].end \/ separators[i].end <= token.start
  BY DEF SeparatorsShare, Clean
<1> HIDE DEF token, n
<1>3. CASE D = {}
  <2>1. BatchStart(separators, 1) = 1
    BY DEF BatchStart
  <2>2. token.end <= BatchEnd(source, separators, 1)
    <3>1. CASE n = 0
      BY <1>1, <3>1 DEF BatchEnd, n
    <3>2. CASE n # 0
      <4>1. 1 \in 1..n /\ 1 # n + 1
        BY <1>2, <3>2
      <4>2. token.end <= separators[1].start
        BY <1>2, <1>3, <4>1
      <4> QED BY <4>1, <4>2 DEF BatchEnd, n
    <3> QED BY <3>1, <3>2
  <2>3. 1 \in 1..(n + 1) /\ 1 <= token.start
    BY <1>1, <1>2
  <2> QED BY <2>1, <2>2, <2>3 DEF Within, n, token
<1>4. CASE D # {}
  <2> DEFINE k == Max(D)
  <2>1. D \in SUBSET (0..n)
    BY <1>2
  <2>2. k \in D /\ \A i \in D : i <= k
    <3> HIDE DEF D
    <3> QED BY <1>2, <1>4, <2>1, MaxIsGreatest
  <2> HIDE DEF k
  <2>3. k \in 1..n /\ separators[k].start <= token.start
    BY <2>2
  <2>4. CASE token.end <= separators[k].end
    BY <2>3, <2>4 DEF Within, n, token
  <2>5. CASE ~(token.end <= separators[k].end)
    <3>1. k + 1 \in 1..(n + 1) /\ k + 1 # 1 /\ (k + 1) - 1 = k
      BY <1>2, <2>3
    <3>2. BatchStart(separators, k + 1) <= token.start
      BY <1>2, <2>3, <2>5, <3>1 DEF BatchStart
    <3>3. token.end <= BatchEnd(source, separators, k + 1)
      <4>1. CASE k = n
        BY <1>1, <4>1 DEF BatchEnd, n
      <4>2. CASE k # n
        <5>1. k + 1 \in 1..n /\ k + 1 # n + 1 /\ ~(k + 1 <= k)
          BY <1>2, <2>3, <4>2
        <5>2. ~(separators[k + 1].start <= token.start)
          BY <2>2, <5>1
        <5>3. token.end <= separators[k + 1].start
          BY <1>2, <5>1, <5>2
        <5> QED BY <5>1, <5>3 DEF BatchEnd, n
      <4> QED BY <4>1, <4>2
    <3> QED BY <3>1, <3>2, <3>3 DEF Within, n, token
  <2> QED BY <2>4, <2>5
<1> QED BY <1>3, <1>4

(* And it is in no other one.                                              *)
LEMMA OneSeparatorOrBatch ==
  ASSUME NEW source, Len(source) \in Nat, NEW tokens, NEW separators,
         SeparatorsShare(source, tokens, separators),
         NEW token, token.start \in Nat, token.end \in Nat, token.start < token.end
  PROVE  /\ \A i \in 1..Len(separators) : \A j \in 1..Len(separators) :
              Within(token, separators[i].start, separators[i].end)
                /\ Within(token, separators[j].start, separators[j].end) => i = j
         /\ \A i \in 1..Len(separators) : \A j \in 1..(Len(separators) + 1) :
              Within(token, separators[i].start, separators[i].end) =>
                ~Within(token, BatchStart(separators, j), BatchEnd(source, separators, j))
         /\ \A i \in 1..(Len(separators) + 1) : \A j \in 1..(Len(separators) + 1) :
              Within(token, BatchStart(separators, i), BatchEnd(source, separators, i))
                /\ Within(token, BatchStart(separators, j), BatchEnd(source, separators, j)) => i = j
<1> DEFINE n == Len(separators)
           x == token.start
           y == token.end
<1>1. n \in Nat /\ \A i \in 1..n :
        /\ separators[i].start \in Nat /\ separators[i].end \in Nat
        /\ separators[i].start < separators[i].end /\ separators[i].end <= Len(source) + 1
        /\ \A j \in 1..(i - 1) : separators[j].end <= separators[i].start
  BY DEF SeparatorsShare
<1>2. x \in Nat /\ y \in Nat /\ x < y
  OBVIOUS
<1> HIDE DEF n, x, y
<1>3. ASSUME NEW i \in 1..n, NEW j \in 1..n, j < i
      PROVE  separators[j].end <= separators[i].start /\ separators[j].end < separators[i].end
  <2>1. j \in 1..(i - 1)
    BY <1>1, <1>3
  <2> QED BY <1>1, <2>1
<1>4. ASSUME NEW i \in 1..(n + 1), NEW j \in 1..n
      PROVE  /\ i <= j => BatchEnd(source, separators, i) <= separators[j].start
             /\ i > j => separators[j].end <= BatchStart(separators, i)
             /\ BatchEnd(source, separators, i) \in Nat /\ BatchStart(separators, i) \in Nat
  <2>1. ASSUME i <= j
        PROVE  BatchEnd(source, separators, i) <= separators[j].start
    <3>1. i \in 1..n /\ i # n + 1 /\ (i = j \/ i < j)
      BY <1>1, <2>1
    <3>2. BatchEnd(source, separators, i) = separators[i].start
      BY <3>1 DEF BatchEnd, n
    <3>3. i < j => separators[i].end <= separators[j].start
      BY <1>3, <3>1
    <3> QED BY <1>1, <3>1, <3>2, <3>3
  <2>2. ASSUME i > j
        PROVE  separators[j].end <= BatchStart(separators, i)
    <3>1. i # 1 /\ i - 1 \in 1..n /\ (i - 1 = j \/ j < i - 1)
      BY <1>1, <2>2
    <3>2. BatchStart(separators, i) = separators[i - 1].end
      BY <3>1 DEF BatchStart
    <3>3. j < i - 1 => separators[j].end < separators[i - 1].end
      BY <1>3, <3>1
    <3> QED BY <1>1, <3>1, <3>2, <3>3
  <2>3. BatchEnd(source, separators, i) \in Nat
    <3>1. i = n + 1 \/ i \in 1..n
      BY <1>1
    <3> QED BY <1>1, <3>1 DEF BatchEnd, n
  <2>4. BatchStart(separators, i) \in Nat
    <3>1. i = 1 \/ i - 1 \in 1..n
      BY <1>1
    <3> QED BY <1>1, <3>1 DEF BatchStart
  <2> QED BY <2>1, <2>2, <2>3, <2>4
<1>5. ASSUME NEW i \in 1..n, NEW j \in 1..n, j < i,
             separators[i].start <= x, y <= separators[j].end
      PROVE  FALSE
  BY <1>1, <1>2, <1>3, <1>5
<1>6. ASSUME NEW i \in 1..n, NEW j \in 1..(n + 1),
             separators[i].start <= x, y <= separators[i].end,
             BatchStart(separators, j) <= x, y <= BatchEnd(source, separators, j)
      PROVE  FALSE
  <2>1. CASE j <= i
    <3>1. BatchEnd(source, separators, j) <= separators[i].start /\ BatchEnd(source, separators, j) \in Nat
      BY <1>4, <2>1
    <3> QED BY <1>1, <1>2, <1>6, <3>1
  <2>2. CASE j > i
    <3>1. separators[i].end <= BatchStart(separators, j) /\ BatchStart(separators, j) \in Nat
      BY <1>4, <2>2
    <3> QED BY <1>1, <1>2, <1>6, <3>1
  <2> QED BY <1>1, <2>1, <2>2
<1>7. ASSUME NEW i \in 1..(n + 1), NEW j \in 1..(n + 1), j < i,
             BatchStart(separators, i) <= x, y <= BatchEnd(source, separators, j)
      PROVE  FALSE
  <2>1. j \in 1..n
    BY <1>1, <1>7
  <2>2. BatchEnd(source, separators, j) <= separators[j].start /\ separators[j].end <= BatchStart(separators, i)
        /\ BatchEnd(source, separators, j) \in Nat /\ BatchStart(separators, i) \in Nat
    BY <1>1, <1>4, <1>7, <2>1
  <2> QED BY <1>1, <1>2, <1>7, <2>1, <2>2
<1>8. \A i \in 1..n : \A j \in 1..n :
        Within(token, separators[i].start, separators[i].end)
          /\ Within(token, separators[j].start, separators[j].end) => i = j
  <2> SUFFICES ASSUME NEW i \in 1..n, NEW j \in 1..n,
                      Within(token, separators[i].start, separators[i].end),
                      Within(token, separators[j].start, separators[j].end)
               PROVE  i = j
    OBVIOUS
  <2>1. ~(j < i) /\ ~(i < j)
    BY <1>5 DEF Within, x, y
  <2> QED BY <1>1, <2>1
<1>9. \A i \in 1..n : \A j \in 1..(n + 1) :
        Within(token, separators[i].start, separators[i].end) =>
          ~Within(token, BatchStart(separators, j), BatchEnd(source, separators, j))
  BY <1>6 DEF Within, x, y
<1>10. \A i \in 1..(n + 1) : \A j \in 1..(n + 1) :
         Within(token, BatchStart(separators, i), BatchEnd(source, separators, i))
           /\ Within(token, BatchStart(separators, j), BatchEnd(source, separators, j)) => i = j
  <2> SUFFICES ASSUME NEW i \in 1..(n + 1), NEW j \in 1..(n + 1),
                      Within(token, BatchStart(separators, i), BatchEnd(source, separators, i)),
                      Within(token, BatchStart(separators, j), BatchEnd(source, separators, j))
               PROVE  i = j
    OBVIOUS
  <2>1. ~(j < i) /\ ~(i < j)
    BY <1>7 DEF Within, x, y
  <2> QED BY <1>1, <2>1
<1> QED BY <1>8, <1>9, <1>10 DEF n

-----------------------------------------------------------------------------
(* The regions of a batch share out the tokens of it that mean something.  *)
SharedBy(tokens, first, last, regions, places) ==
  /\ DOMAIN places = 1..Len(regions)
  /\ \A k \in 1..Len(regions) :
       /\ \E kind : regions[k] = Region(tokens, places[k], kind)
       /\ places[k] # {}
       /\ \E lo \in first..last, hi \in first..last : places[k] = MeaningfulPlaces(tokens, lo, hi)
  /\ \A p \in MeaningfulPlaces(tokens, first, last) : \E k \in 1..Len(regions) : p \in places[k]
  /\ \A k \in 1..Len(regions) : \A j \in 1..(k - 1) : places[j] \cap places[k] = {}
BatchShared(tokens, first, last, regions) ==
  /\ Len(regions) \in Nat
  /\ DOMAIN regions = 1..Len(regions)
  /\ regions \in Seq({regions[k] : k \in 1..Len(regions)})
  /\ \E places : SharedBy(tokens, first, last, regions, places)

LEMMA BatchIsShared ==
  ASSUME NEW tokens, Len(tokens) \in Nat, NEW depths, NEW batch,
         batch.from \in 1..(Len(tokens) + 1), batch.to \in 1..(Len(tokens) + 1)
  PROVE  BatchShared(tokens, batch.from, batch.to - 1, BatchRegions(tokens, depths, batch))
<1> DEFINE m == Len(tokens)
           first == batch.from
           last == batch.to - 1
           ends == {i \in first..last : IsPunctuation(tokens[i], ";") /\ depths[i] = 0} \cup {last}
           First(end) == Max({first} \cup {e + 1 : e \in {i \in ends : i < end}})
           Segment(end) == MeaningfulPlaces(tokens, First(end), end)
           whole == {e \in ends : /\ Segment(e) # {}
                                  /\ Word(tokens[Min(Segment(e))]) \in WholeBatchStarters}
           Rest(e) == MeaningfulPlaces(tokens, First(e), last)
           RegionAt(e) == IF e \in whole THEN Region(tokens, Rest(e), Declined)
                          ELSE Region(tokens, Segment(e), ClassifyUnit(Chosen(tokens, Segment(e))))
           used == {e \in ends : Segment(e) # {} /\ \A w \in whole : e <= w}
           order == Ascending(used)
           PlacesOf(e) == IF e \in whole THEN Rest(e) ELSE Segment(e)
           regions == BatchRegions(tokens, depths, batch)
           places == [k \in 1..Len(order) |-> PlacesOf(order[k])]
<1>1. regions = [i \in DOMAIN order |-> RegionAt(order[i])]
  BY DEF BatchRegions
<1>2. /\ first \in Nat /\ first >= 1 /\ last \in 0..m /\ m \in Nat
      /\ ends \in SUBSET (0..m) /\ last \in ends
      /\ \A e \in ends : e <= last /\ (e = last \/ e >= first)
  <2>1. first \in Nat /\ first >= 1 /\ last \in 0..m /\ m \in Nat
    OBVIOUS
  <2> HIDE DEF first, last, m
  <2>2. \A e \in ends : e = last \/ e \in first..last
    OBVIOUS
  <2>3. last \in ends
    OBVIOUS
  <2> HIDE DEF ends
  <2>4. \A e \in ends : e \in 0..m /\ e <= last /\ (e = last \/ e >= first)
    BY <2>1, <2>2
  <2> QED BY <2>1, <2>3, <2>4
<1> HIDE DEF first, last, ends, m
<1>3. ASSUME NEW e \in ends
      PROVE  /\ First(e) \in Nat /\ First(e) >= first
             /\ First(e) = first \/ First(e) <= e
             /\ \A i \in ends : i < e => i + 1 <= First(e)
             /\ \A p \in Nat : (first <= p /\ \A i \in ends : i < e => i < p) => First(e) <= p
  <2> DEFINE S == {first} \cup {i + 1 : i \in {j \in ends : j < e}}
  <2>1. S \in SUBSET (0..(m + 1 + first)) /\ S # {} /\ m + 1 + first \in Nat
    BY <1>2
  <2>2. Max(S) \in S /\ \A n \in S : n <= Max(S)
    <3> HIDE DEF S
    <3> QED BY <2>1, MaxIsGreatest
  <2>3. First(e) = Max(S)
    OBVIOUS
  <2> DEFINE top == Max(S)
  <2>4. top \in S /\ \A n \in S : n <= top
    BY <2>2
  <2> HIDE DEF top
  <2>5. top \in Nat /\ top >= first
    BY <1>2, <2>1, <2>4
  <2>6. top = first \/ \E i \in ends : i < e /\ top = i + 1
    BY <2>4
  <2>7. \A i \in ends : i < e => i + 1 <= top
    BY <2>4
  <2>8. top = first \/ top <= e
    BY <1>2, <2>6
  <2>9. \A p \in Nat : (first <= p /\ \A i \in ends : i < e => i < p) => top <= p
    BY <1>2, <2>6
  <2> HIDE DEF First
  <2> QED BY <2>3, <2>5, <2>7, <2>8, <2>9 DEF top
<1> HIDE DEF First
<1>4. ASSUME NEW e \in ends, NEW p
      PROVE  /\ p \in Segment(e) <=> p \in First(e)..e /\ ~Trivia(tokens[p])
             /\ p \in Rest(e) <=> p \in First(e)..last /\ ~Trivia(tokens[p])
  BY DEF MeaningfulPlaces
<1>5. used \in SUBSET (1..m)
  <2> SUFFICES ASSUME NEW e \in used PROVE e \in 1..m
    OBVIOUS
  <2>1. PICK p \in Segment(e) : TRUE
    OBVIOUS
  <2>2. e \in ends
    OBVIOUS
  <2>3. p \in First(e)..e
    BY <1>4, <2>1, <2>2
  <2> QED BY <1>2, <1>3, <2>2, <2>3
<1>6. \A e \in used : e \in ends /\ Segment(e) # {} /\ \A w \in whole : e <= w
  OBVIOUS
<1>7. \A w \in whole : w \in ends /\ Segment(w) # {}
  OBVIOUS
<1>8. \A e \in ends : (Segment(e) # {} /\ \A w \in whole : e <= w) => e \in used
  OBVIOUS
<1>9. InRow(order, used)
  <2> HIDE DEF used
  <2> QED BY <1>2, <1>5, AscendingFacts
<1>10. /\ order \in Seq(used) /\ DOMAIN order = 1..Len(order) /\ Len(order) \in Nat
       /\ \A k \in 1..Len(order) : order[k] \in used
       /\ \A k \in 1..Len(order) : \A j \in 1..(k - 1) : order[j] < order[k]
       /\ \A e \in used : \E k \in 1..Len(order) : order[k] = e
  <2> HIDE DEF order, used
  <2> QED BY <1>9 DEF InRow
<1>11. /\ DOMAIN regions = 1..Len(order) /\ Len(regions) = Len(order)
       /\ \A k \in 1..Len(order) : regions[k] = RegionAt(order[k])
       /\ regions \in Seq({regions[k] : k \in 1..Len(order)})
  <2> HIDE DEF order, regions, RegionAt
  <2>1. DOMAIN regions = 1..Len(order) /\ \A k \in 1..Len(order) : regions[k] = RegionAt(order[k])
    BY <1>1, <1>10
  <2>2. regions \in Seq({regions[k] : k \in 1..Len(order)}) /\ Len(regions) = Len(order)
    BY <1>1, <1>10
  <2> QED BY <2>1, <2>2
<1>12. \A e : \E kind : RegionAt(e) = Region(tokens, PlacesOf(e), kind)
  <2> HIDE DEF whole, Rest, Segment
  <2> QED OBVIOUS
<1>13. ASSUME NEW e \in used
       PROVE  /\ PlacesOf(e) # {}
              /\ \E lo \in first..last, hi \in first..last : PlacesOf(e) = MeaningfulPlaces(tokens, lo, hi)
  <2>1. PICK p : p \in Segment(e)
    BY <1>6
  <2>2. e \in ends /\ p \in First(e)..e /\ ~Trivia(tokens[p])
    BY <1>4, <1>6, <2>1
  <2>3. First(e) \in first..last /\ e \in first..last /\ last \in first..last /\ p \in First(e)..last
    BY <1>2, <1>3, <2>2
  <2>4. p \in Rest(e)
    BY <1>4, <2>2, <2>3
  <2>5. PlacesOf(e) = MeaningfulPlaces(tokens, First(e), IF e \in whole THEN last ELSE e)
    <3> HIDE DEF whole
    <3> QED OBVIOUS
  <2>6. PlacesOf(e) # {}
    <3> HIDE DEF whole, Segment, Rest
    <3> QED BY <2>1, <2>4
  <2>7. (IF e \in whole THEN last ELSE e) \in first..last
    <3> HIDE DEF whole
    <3> QED BY <2>3
  <2> HIDE DEF PlacesOf, whole
  <2> QED BY <2>3, <2>5, <2>6, <2>7
<1>14. ASSUME NEW e \in used, NEW f \in used, e < f, NEW p, p \in PlacesOf(e), p \in PlacesOf(f)
       PROVE  FALSE
  <2>1. e \notin whole
    <3> HIDE DEF whole, used
    <3>1. e \in Nat /\ f \in Nat
      BY <1>5
    <3> QED BY <1>6, <1>14, <3>1
  <2> HIDE DEF whole
  <2>2. p \in Segment(e)
    <3> HIDE DEF Segment, Rest
    <3> QED BY <1>14, <2>1
  <2>3. p \in Segment(f) \/ p \in Rest(f)
    <3> HIDE DEF Segment, Rest
    <3> QED BY <1>14
  <2>4. e \in ends /\ f \in ends
    BY <1>6
  <2> HIDE DEF PlacesOf, used
  <2>5. p \in First(e)..e /\ p >= First(f)
    <3>1. p \in First(e)..e
      BY <1>4, <2>2, <2>4
    <3>2. p \in First(f)..f \/ p \in First(f)..last
      BY <1>4, <2>3, <2>4
    <3> QED BY <3>1, <3>2
  <2>6. First(f) >= e + 1 /\ First(f) \in Nat /\ e \in Nat /\ First(e) \in Nat
    BY <1>2, <1>3, <1>14, <2>4
  <2> QED BY <2>5, <2>6
<1>15. ASSUME NEW p \in MeaningfulPlaces(tokens, first, last)
       PROVE  \E e \in used : p \in PlacesOf(e)
  <2> DEFINE later == {i \in ends : i >= p}
             e == Min(later)
  <2>1. p \in first..last /\ ~Trivia(tokens[p])
    BY DEF MeaningfulPlaces
  <2>2. later \in SUBSET Nat /\ later # {}
    <3>1. last \in later
      BY <1>2, <2>1
    <3>2. \A i \in ends : i \in Nat
      BY <1>2
    <3> QED BY <3>1, <3>2
  <2>3. e \in later /\ \A i \in later : e <= i
    <3> HIDE DEF later
    <3> QED BY <2>2, MinIsLeast
  <2> HIDE DEF e
  <2>4. e \in ends /\ e >= p /\ e \in Nat /\ p \in Nat
        /\ \A i \in ends : (i < e => i < p) /\ i \in Nat
    BY <1>2, <2>1, <2>3
  <2> HIDE DEF later
  <2>5. First(e) <= p
    BY <1>3, <2>1, <2>4, <1>2
  <2>6. p \in First(e)..e /\ p \in First(e)..last
    BY <1>2, <1>3, <2>1, <2>4, <2>5
  <2>7. p \in Segment(e) /\ p \in Rest(e)
    BY <1>4, <2>1, <2>4, <2>6
  <2>8. CASE \A w \in whole : e <= w
    <3>1. e \in used
      <4> HIDE DEF used, whole, Segment
      <4> QED BY <1>8, <2>4, <2>7, <2>8
    <3>2. p \in PlacesOf(e)
      <4> HIDE DEF whole, Segment, Rest
      <4> QED BY <2>7
    <3> QED BY <3>1, <3>2
  <2>9. CASE ~\A w \in whole : e <= w
    <3> DEFINE least == Min(whole)
    <3>1. whole \in SUBSET Nat /\ whole # {}
      <4> HIDE DEF whole, Segment
      <4>1. \A w \in whole : w \in Nat
        <5>1. \A i \in ends : i \in Nat
          BY <1>2
        <5> QED BY <1>7, <5>1
      <4> QED BY <2>9, <4>1
    <3>2. least \in whole /\ \A w \in whole : least <= w
      <4> HIDE DEF whole
      <4> QED BY <3>1, MinIsLeast
    <3> HIDE DEF least, whole, Segment, used
    <3>3. least \in ends /\ Segment(least) # {} /\ least \in Nat
      BY <1>7, <2>4, <3>2
    <3>4. least < e
      BY <2>4, <2>9, <3>1, <3>2
    <3>5. least \in used
      BY <1>8, <3>2, <3>3
    <3>6. First(least) \in Nat /\ (First(least) = first \/ First(least) <= least)
      BY <1>3, <3>3
    <3>7. least < p
      BY <2>4, <3>3, <3>4
    <3>8. p \in First(least)..last
      BY <1>2, <2>1, <2>4, <3>3, <3>6, <3>7
    <3>9. p \in Rest(least)
      BY <1>4, <2>1, <3>3, <3>8
    <3>10. p \in PlacesOf(least)
      <4> HIDE DEF Rest
      <4> QED BY <3>2, <3>9
    <3> QED BY <3>5, <3>10
  <2> QED BY <2>8, <2>9
<1> HIDE DEF used, order, regions, PlacesOf, RegionAt
<1>16. SharedBy(tokens, first, last, regions, places)
  <2>1. DOMAIN places = 1..Len(regions) /\ \A k \in 1..Len(regions) : places[k] = PlacesOf(order[k])
    BY <1>11
  <2> HIDE DEF places
  <2>2. \A k \in 1..Len(regions) : \E kind : regions[k] = Region(tokens, places[k], kind)
    BY <1>11, <1>12, <2>1
  <2>3. ASSUME NEW k \in 1..Len(regions)
        PROVE  /\ places[k] # {}
               /\ \E lo \in first..last, hi \in first..last : places[k] = MeaningfulPlaces(tokens, lo, hi)
    <3>1. order[k] \in used
      BY <1>10, <1>11
    <3> QED BY <1>13, <2>1, <3>1
  <2>4. \A p \in MeaningfulPlaces(tokens, first, last) : \E k \in 1..Len(regions) : p \in places[k]
    <3> SUFFICES ASSUME NEW p \in MeaningfulPlaces(tokens, first, last)
                 PROVE  \E k \in 1..Len(regions) : p \in places[k]
      OBVIOUS
    <3>1. PICK e \in used : p \in PlacesOf(e)
      BY <1>15
    <3>2. PICK k \in 1..Len(order) : order[k] = e
      BY <1>10
    <3> QED BY <1>11, <2>1, <3>1, <3>2
  <2>5. \A k \in 1..Len(regions) : \A j \in 1..(k - 1) : places[j] \cap places[k] = {}
    <3> SUFFICES ASSUME NEW k \in 1..Len(regions), NEW j \in 1..(k - 1), NEW p \in places[j], p \in places[k]
                 PROVE  FALSE
      OBVIOUS
    <3>1. j \in 1..Len(regions) /\ order[j] < order[k] /\ order[j] \in used /\ order[k] \in used
      BY <1>10, <1>11
    <3> QED BY <1>14, <2>1, <3>1
  <2> QED BY <2>1, <2>2, <2>3, <2>4, <2>5 DEF SharedBy
<1>17. BatchShared(tokens, first, last, regions)
  <2> HIDE DEF places
  <2> QED BY <1>10, <1>11, <1>16 DEF BatchShared
<1> QED BY <1>17 DEF first, last, regions

-----------------------------------------------------------------------------
(* A region begins with a token and ends with one, and the tokens in it    *)
(* that mean something are its own.                                        *)
RegionOf(tokens, places, region) ==
  \E a \in 1..Len(tokens) : \E b \in a..Len(tokens) :
    /\ a \in places /\ b \in places
    /\ region.start = tokens[a].start /\ region.end = tokens[b].end
    /\ \A p \in 1..Len(tokens) : Within(tokens[p], region.start, region.end) <=> p \in a..b
    /\ \A p \in 1..Len(tokens) : ~Trivia(tokens[p]) => (p \in a..b <=> p \in places)

LEMMA RegionHolds ==
  ASSUME NEW text, Len(text) \in Nat, NEW tokens, InOrder(text, tokens),
         NEW lo \in Nat, lo >= 1, NEW hi \in 0..Len(tokens),
         MeaningfulPlaces(tokens, lo, hi) # {}, NEW kind
  PROVE  RegionOf(tokens, MeaningfulPlaces(tokens, lo, hi), Region(tokens, MeaningfulPlaces(tokens, lo, hi), kind))
<1> DEFINE m == Len(tokens)
           P == MeaningfulPlaces(tokens, lo, hi)
           a == Min(P)
           b == Max(P)
           region == Region(tokens, P, kind)
<1>1. m \in Nat /\ hi \in 0..m /\ \A k \in 1..m : /\ tokens[k].start \in Nat /\ tokens[k].end \in Nat
                                    /\ tokens[k].start < tokens[k].end
                                    /\ \A j \in 1..(k - 1) : tokens[j].end <= tokens[k].start
  BY DEF InOrder
<1> HIDE DEF m
<1>2. \A p : p \in P <=> p \in lo..hi /\ ~Trivia(tokens[p])
  BY DEF MeaningfulPlaces
<1>3. region.start = tokens[a].start /\ region.end = tokens[b].end
  BY DEF Region
<1>4. P # {}
  OBVIOUS
<1> HIDE DEF P, region
<1>5. P \in SUBSET Nat /\ P \in SUBSET (0..m)
  BY <1>1, <1>2
<1>6. a \in P /\ b \in P /\ \A p \in P : a <= p /\ p <= b
  BY <1>1, <1>4, <1>5, MinIsLeast, MaxIsGreatest
<1> HIDE DEF a, b
<1>7. a \in 1..m /\ b \in a..m /\ a >= lo /\ b <= hi /\ a \in Nat /\ b \in Nat
  <2>1. a \in lo..hi /\ b \in lo..hi /\ a <= b
    BY <1>2, <1>6
  <2> QED BY <1>1, <2>1
<1>8. ASSUME NEW p \in 1..m
      PROVE  Within(tokens[p], tokens[a].start, tokens[b].end) <=> p \in a..b
  <2>1. CASE p < a
    <3>1. p \in 1..(a - 1) /\ p \notin a..b
      BY <1>7, <2>1
    <3>2. tokens[p].start < tokens[a].start /\ tokens[p].start \in Nat /\ tokens[a].start \in Nat
      BY <1>1, <1>7, <3>1
    <3> QED BY <3>1, <3>2 DEF Within
  <2>2. CASE p > b
    <3>1. b \in 1..(p - 1) /\ p \notin a..b /\ b \in 1..m
      BY <1>7, <2>2
    <3>2. tokens[b].end < tokens[p].end /\ tokens[p].end \in Nat /\ tokens[b].end \in Nat
      BY <1>1, <3>1
    <3> QED BY <3>1, <3>2 DEF Within
  <2>3. CASE p \in a..b
    <3>1. (p = a \/ a \in 1..(p - 1)) /\ (p = b \/ p \in 1..(b - 1)) /\ b \in 1..m
      BY <1>7, <2>3
    <3>2. tokens[a].start <= tokens[p].start
      BY <1>1, <1>7, <3>1
    <3>3. tokens[p].end <= tokens[b].end
      BY <1>1, <3>1
    <3> QED BY <2>3, <3>2, <3>3 DEF Within
  <2> QED BY <1>7, <2>1, <2>2, <2>3
<1>9. ASSUME NEW p \in 1..m, ~Trivia(tokens[p])
      PROVE  p \in a..b <=> p \in P
  <2>1. p \in P => p \in a..b
    BY <1>6, <1>7
  <2>2. p \in a..b => p \in lo..hi
    BY <1>1, <1>7
  <2> QED BY <1>2, <1>9, <2>1, <2>2
<1>10. RegionOf(tokens, P, region)
  BY <1>3, <1>6, <1>7, <1>8, <1>9 DEF RegionOf, m
<1> QED BY <1>10 DEF P, region

-----------------------------------------------------------------------------
(* The regions of a document are those of its batches.                     *)
PartOf(tokens, batches, i) == BatchRegions(tokens, SyntaxDepths(tokens), batches[i])
Joining(tokens, batches, f) ==
  f = [i \in 0..Len(batches) |->
        IF i = 0 THEN <<>> ELSE f[i - 1] \o BatchRegions(tokens, SyntaxDepths(tokens), batches[i])]
IsJoining(T, tokens, batches, f) ==
  /\ f \in [0..Len(batches) -> Seq(T)]
  /\ f[0] = <<>>
  /\ \A i \in 1..Len(batches) : f[i] = f[i - 1] \o PartOf(tokens, batches, i)

LEMMA JoiningExists ==
  ASSUME NEW T, NEW source, NEW tokens, NEW batches, batches = IndexedBatches(source, tokens),
         Len(batches) \in Nat, \A i \in 1..Len(batches) : PartOf(tokens, batches, i) \in Seq(T)
  PROVE  \E f : IsJoining(T, tokens, batches, f) /\ CollectRegions(source, tokens) = f[Len(batches)]
<1> DEFINE S == Seq(T)
           count == Len(batches)
           Part(i) == PartOf(tokens, batches, i)
           Step(i) == [c \in S |-> c \o Part(i)]
           steps == [i \in 1..count |-> Step(i)]
           after == CHOOSE f : Joining(tokens, batches, f)
<1>1. count \in Nat /\ \A i \in 1..count : Part(i) \in S
  OBVIOUS
<1>2. steps \in [1..count -> [S -> S]] /\ <<>> \in S
  <2>1. ASSUME NEW i \in 1..count PROVE Step(i) \in [S -> S]
    <3>1. \A c \in S : c \o Part(i) \in S
      <4> HIDE DEF Part
      <4> QED BY <1>1
    <3> HIDE DEF S
    <3> QED BY <3>1
  <2> HIDE DEF S, Step
  <2> QED BY <2>1 DEF S
<1>3. \A i \in 1..count : \A c \in S : steps[i][c] = c \o Part(i)
  OBVIOUS
<1>4. PICK f : Lists!Steps(f, count, S, <<>>, steps)
  <2> HIDE DEF S, count, steps
  <2> QED BY <1>1, <1>2, Lists!Iterated
<1>5. f \in [0..count -> S] /\ \A i \in 0..count : f[i] = IF i = 0 THEN <<>> ELSE steps[i][f[i - 1]]
  BY <1>4 DEF Lists!Steps
<1> HIDE DEF steps, S, Part
<1>6. \A i \in 0..count : f[i] = IF i = 0 THEN <<>> ELSE f[i - 1] \o Part(i)
  <2> SUFFICES ASSUME NEW i \in 0..count, i # 0
               PROVE  f[i] = f[i - 1] \o Part(i)
    BY <1>5
  <2>1. i \in 1..count /\ i - 1 \in 0..count
    BY <1>1
  <2> QED BY <1>3, <1>5, <2>1
<1>7. Joining(tokens, batches, f)
  BY <1>5, <1>6 DEF Joining, Part, PartOf
<1>8. Joining(tokens, batches, after)
  BY <1>7
<1>9. CollectRegions(source, tokens) = after[count]
  BY DEF CollectRegions, Joining
<1> HIDE DEF after
<1>10. /\ DOMAIN after = 0..count /\ after[0] = <<>>
       /\ \A i \in 1..count : after[i] = after[i - 1] \o Part(i)
       /\ after = [i \in 0..count |-> after[i]]
  <2>1. after = [i \in 0..count |-> IF i = 0 THEN <<>> ELSE after[i - 1] \o Part(i)]
    BY <1>8 DEF Joining, Part, PartOf
  <2>2. \A i \in 0..count : after[i] = IF i = 0 THEN <<>> ELSE after[i - 1] \o Part(i)
    BY <2>1
  <2>3. DOMAIN after = 0..count /\ after = [i \in 0..count |-> after[i]]
    BY <2>1
  <2>4. 0 \in 0..count /\ \A i \in 1..count : i \in 0..count /\ i # 0
    BY <1>1
  <2> HIDE DEF count
  <2> QED BY <2>2, <2>3, <2>4
<1>11. \A i \in 0..count : after[i] \in S
  <2> DEFINE in == {i \in 0..count : after[i] \in S}
  <2>1. 0 \in in
    BY <1>1, <1>2, <1>10
  <2>2. ASSUME NEW i \in 0..(count - 1), i \in in PROVE i + 1 \in in
    <3>1. i + 1 \in 1..count /\ i + 1 \in 0..count /\ (i + 1) - 1 = i /\ after[i] \in S
      BY <1>1, <2>2
    <3>2. after[i + 1] = after[i] \o Part(i + 1) /\ Part(i + 1) \in S
      BY <1>1, <1>10, <3>1
    <3>3. after[i] \o Part(i + 1) \in S
      BY <3>1, <3>2 DEF S
    <3> QED BY <3>1, <3>2, <3>3
  <2>3. \A i \in 0..count : i \in in
    <3> HIDE DEF in, count
    <3> QED BY <1>1, <2>1, <2>2, Lists!Counting
  <2> QED BY <2>3
<1>12. after \in [0..count -> S]
  BY <1>10, <1>11
<1> QED BY <1>9, <1>10, <1>12 DEF IsJoining, S, Part

(* What is in a list that is joined is in one of its parts, and the other  *)
(* way round.                                                              *)
JoinedOf(T, tokens, batches, regions) ==
  /\ regions \in Seq(T)
  /\ \A r : (\E k \in 1..Len(regions) : regions[k] = r)
              <=> \E i \in 1..Len(batches) : \E k \in 1..Len(PartOf(tokens, batches, i)) :
                    PartOf(tokens, batches, i)[k] = r

LEMMA CollectedAreParts ==
  ASSUME NEW T, NEW source, NEW tokens, NEW batches, batches = IndexedBatches(source, tokens),
         Len(batches) \in Nat, \A i \in 1..Len(batches) : PartOf(tokens, batches, i) \in Seq(T)
  PROVE  JoinedOf(T, tokens, batches, CollectRegions(source, tokens))
<1> DEFINE count == Len(batches)
           Part(i) == PartOf(tokens, batches, i)
           In(list, r) == \E k \in 1..Len(list) : list[k] = r
<1>1. PICK f : IsJoining(T, tokens, batches, f) /\ CollectRegions(source, tokens) = f[count]
  BY JoiningExists
<1>2. count \in Nat /\ \A i \in 1..count : Part(i) \in Seq(T)
  OBVIOUS
<1>3. /\ \A i \in 0..count : f[i] \in Seq(T)
      /\ f[0] = <<>>
      /\ \A i \in 1..count : f[i] = f[i - 1] \o Part(i)
  BY <1>1 DEF IsJoining
<1> HIDE DEF Part, count
<1>4. ASSUME NEW x \in Seq(T), NEW y \in Seq(T), NEW r
      PROVE  In(x \o y, r) <=> In(x, r) \/ In(y, r)
  <2> DEFINE z == x \o y
  <2>1. Len(z) = Len(x) + Len(y) /\ Len(x) \in Nat /\ Len(y) \in Nat
    OBVIOUS
  <2>2. \A k \in 1..Len(x) : z[k] = x[k]
    OBVIOUS
  <2>3. \A k \in 1..Len(y) : z[Len(x) + k] = y[k]
    OBVIOUS
  <2> HIDE DEF z
  <2>4. ASSUME NEW k \in 1..Len(z), z[k] = r PROVE In(x, r) \/ In(y, r)
    <3>1. CASE k <= Len(x)
      BY <2>1, <2>2, <2>4, <3>1
    <3>2. CASE k > Len(x)
      <4>1. k - Len(x) \in 1..Len(y) /\ Len(x) + (k - Len(x)) = k
        BY <2>1, <3>2
      <4> QED BY <2>3, <2>4, <4>1
    <3> QED BY <2>1, <3>1, <3>2
  <2>5. ASSUME NEW k \in 1..Len(x), x[k] = r PROVE In(z, r)
    <3>1. k \in 1..Len(z)
      BY <2>1
    <3> QED BY <2>2, <2>5, <3>1
  <2>6. ASSUME NEW k \in 1..Len(y), y[k] = r PROVE In(z, r)
    <3>1. Len(x) + k \in 1..Len(z)
      BY <2>1
    <3> QED BY <2>3, <2>6, <3>1
  <2> QED BY <2>4, <2>5, <2>6 DEF z
<1> DEFINE good == {i \in 0..count : \A r : In(f[i], r) <=> \E j \in 1..i : In(Part(j), r)}
<1>5. 0 \in good
  <2>1. 0 \in 0..count /\ 1..0 = {} /\ Len(f[0]) = 0
    BY <1>2, <1>3
  <2> QED BY <2>1
<1> HIDE DEF In
<1>6. ASSUME NEW i \in 0..(count - 1), i \in good
      PROVE  i + 1 \in good
  <2>1. i + 1 \in 1..count /\ i + 1 \in 0..count /\ i \in 0..count /\ (i + 1) - 1 = i
    BY <1>2
  <2>2. f[i + 1] = f[i] \o Part(i + 1) /\ f[i] \in Seq(T) /\ Part(i + 1) \in Seq(T)
    BY <1>2, <1>3, <2>1
  <2>3. \A r : In(f[i], r) <=> \E j \in 1..i : In(Part(j), r)
    BY <1>6
  <2>4. \A j : j \in 1..(i + 1) <=> j \in 1..i \/ j = i + 1
    BY <2>1
  <2>5. ASSUME NEW r PROVE In(f[i + 1], r) <=> \E j \in 1..(i + 1) : In(Part(j), r)
    <3>1. In(f[i + 1], r) <=> In(f[i], r) \/ In(Part(i + 1), r)
      BY <1>4, <2>2
    <3> QED BY <2>3, <2>4, <3>1
  <2> QED BY <2>1, <2>5
<1>7. \A i \in 0..count : i \in good
  <2> HIDE DEF good
  <2> QED BY <1>2, <1>5, <1>6, Lists!Counting
<1>8. count \in good /\ f[count] \in Seq(T)
  BY <1>2, <1>3, <1>7
<1>9. \A r : In(f[count], r) <=> \E j \in 1..count : In(Part(j), r)
  BY <1>8
<1>10. CollectRegions(source, tokens) = f[count]
  BY <1>1
<1> DEFINE all == CollectRegions(source, tokens)
<1> HIDE DEF good, all
<1>11. all \in Seq(T) /\ \A r : In(all, r) <=> \E j \in 1..count : In(Part(j), r)
  BY <1>8, <1>9, <1>10 DEF all
<1>12. all \in Seq(T)
  BY <1>11
<1>13. \A r : (\E k \in 1..Len(all) : all[k] = r)
               <=> \E i \in 1..count : \E k \in 1..Len(Part(i)) : Part(i)[k] = r
  BY <1>11, Zenon DEF In
<1>14. JoinedOf(T, tokens, batches, all)
  BY <1>12, <1>13, Zenon DEF JoinedOf, count, Part
<1> QED BY <1>14 DEF all

-----------------------------------------------------------------------------
(* The tokens of a batch that mean something are those between its ends.   *)
BatchHolds(source, tokens, separators, batches) ==
  /\ Len(batches) = Len(separators) + 1
  /\ \A i \in 1..(Len(separators) + 1) :
       /\ batches[i].from \in 1..(Len(tokens) + 1)
       /\ batches[i].to \in 1..(Len(tokens) + 1)
       /\ \A p \in 1..Len(tokens) :
            ~Trivia(tokens[p]) =>
              (p \in batches[i].from..(batches[i].to - 1)
                 <=> Within(tokens[p], BatchStart(separators, i), BatchEnd(source, separators, i)))

LEMMA BatchesHoldTheirTokens ==
  ASSUME NEW source, Len(source) \in Nat, NEW tokens, InOrder(source, tokens),
         SeparatorsShare(source, tokens, SeparatorLines(source, tokens))
  PROVE  BatchHolds(source, tokens, SeparatorLines(source, tokens), IndexedBatches(source, tokens))
<1> DEFINE separators == SeparatorLines(source, tokens)
           n == Len(separators)
           m == Len(tokens)
           batches == IndexedBatches(source, tokens)
           Touched(i) == TokensIn(tokens, BatchStart(separators, i), BatchEnd(source, separators, i))
<1>1. batches = [i \in 1..(n + 1) |-> Touched(i)]
  BY DEF IndexedBatches, BatchStart, BatchEnd
<1>2. /\ n \in Nat /\ DOMAIN separators = 1..n
      /\ \A i \in 1..n : /\ separators[i].start \in Nat /\ separators[i].end \in Nat
                         /\ Clean(tokens, separators[i].start) /\ Clean(tokens, separators[i].end)
  <2>1. /\ n \in Nat /\ DOMAIN separators = 1..n
        /\ \A i \in 1..n : /\ separators[i].start \in 1..Len(source)
                           /\ separators[i].end \in (separators[i].start + 1)..(Len(source) + 1)
                           /\ Clean(tokens, separators[i].start) /\ Clean(tokens, separators[i].end)
    BY DEF SeparatorsShare
  <2> HIDE DEF n, separators
  <2>2. ASSUME NEW i \in 1..n PROVE separators[i].start \in Nat /\ separators[i].end \in Nat
    BY <2>1
  <2> QED BY <2>1, <2>2
<1>3. m \in Nat /\ \A k \in 1..m : /\ tokens[k].start \in 1..Len(source)
                                   /\ tokens[k].end \in (tokens[k].start + 1)..(Len(source) + 1)
  BY DEF InOrder
<1>4. Clean(tokens, 1) /\ Clean(tokens, Len(source) + 1)
  BY <1>3 DEF Clean, m
<1> HIDE DEF separators, n, batches
<1>5. Len(batches) = n + 1 /\ \A i \in 1..(n + 1) : batches[i] = Touched(i)
  <2> HIDE DEF Touched
  <2>1. n + 1 \in Nat /\ batches \in Seq({Touched(i) : i \in 1..(n + 1)})
    BY <1>1, <1>2
  <2> QED BY <1>1, <1>2, <2>1
<1>6. ASSUME NEW i \in 1..(n + 1)
      PROVE  /\ BatchStart(separators, i) \in Nat /\ Clean(tokens, BatchStart(separators, i))
             /\ BatchEnd(source, separators, i) \in Nat /\ Clean(tokens, BatchEnd(source, separators, i))
  <2>1. BatchStart(separators, i) \in Nat /\ Clean(tokens, BatchStart(separators, i))
    <3>1. CASE i = 1
      BY <1>4, <3>1 DEF BatchStart
    <3>2. CASE i # 1
      <4>1. i - 1 \in 1..n
        BY <1>2, <3>2
      <4> QED BY <1>2, <3>2, <4>1 DEF BatchStart
    <3> QED BY <3>1, <3>2
  <2>2. BatchEnd(source, separators, i) \in Nat /\ Clean(tokens, BatchEnd(source, separators, i))
    <3>1. CASE i = n + 1
      <4>1. BatchEnd(source, separators, i) = Len(source) + 1
        BY <3>1 DEF BatchEnd, n
      <4> QED BY <1>4, <4>1
    <3>2. CASE i # n + 1
      <4>1. i \in 1..n
        BY <1>2, <3>2
      <4>2. BatchEnd(source, separators, i) = separators[i].start
        BY <3>2 DEF BatchEnd, n
      <4> QED BY <1>2, <4>1, <4>2
    <3> QED BY <3>1, <3>2
  <2> QED BY <2>1, <2>2
<1>7. ASSUME NEW i \in 1..(n + 1)
      PROVE  /\ batches[i].from \in 1..(m + 1)
             /\ batches[i].to \in 1..(m + 1)
             /\ \A p \in 1..m :
                  ~Trivia(tokens[p]) =>
                    (p \in batches[i].from..(batches[i].to - 1)
                       <=> Within(tokens[p], BatchStart(separators, i), BatchEnd(source, separators, i)))
  <2> DEFINE x == BatchStart(separators, i)
             y == BatchEnd(source, separators, i)
             range == TokensIn(tokens, x, y)
  <2>1. x \in Nat /\ Clean(tokens, x) /\ y \in Nat /\ Clean(tokens, y)
    BY <1>6
  <2>2. batches[i] = range
    BY <1>5
  <2> HIDE DEF x, y
  <2>3. TouchesFrom(tokens, x, y)
    BY <2>1, TokensInFacts
  <2>4. /\ range.from \in 1..(m + 1) /\ range.to \in 1..(m + 1)
        /\ \A p \in 1..m : /\ p < range.from <=> tokens[p].end <= x
                           /\ p < range.to <=> tokens[p].start < y
    BY <2>3 DEF TouchesFrom
  <2> HIDE DEF range
  <2>5. ASSUME NEW p \in 1..m, ~Trivia(tokens[p])
        PROVE  p \in range.from..(range.to - 1) <=> Within(tokens[p], x, y)
    <3>1. /\ tokens[p].end <= x \/ x <= tokens[p].start
          /\ tokens[p].end <= y \/ y <= tokens[p].start
      BY <2>1, <2>5 DEF Clean
    <3>2. tokens[p].start \in Nat /\ tokens[p].end \in Nat /\ tokens[p].start < tokens[p].end
      BY <1>3
    <3>3. p \in range.from..(range.to - 1) <=> ~(p < range.from) /\ p < range.to
      BY <1>3, <2>4
    <3> QED BY <2>1, <2>4, <3>1, <3>2, <3>3 DEF Within
  <2> QED BY <2>2, <2>4, <2>5 DEF x, y
<1> QED BY <1>5, <1>7 DEF BatchHolds, separators, n, batches

(* The regions of one batch hold each its tokens, and no two hold the same.*)
BatchRegionFacts(tokens, first, last, regions) ==
  /\ \A k \in 1..Len(regions) :
       \E places \in SUBSET MeaningfulPlaces(tokens, first, last) : RegionOf(tokens, places, regions[k])
  /\ \A p \in MeaningfulPlaces(tokens, first, last) :
       \E k \in 1..Len(regions) : Within(tokens[p], regions[k].start, regions[k].end)
  /\ \A k \in 1..Len(regions) : \A j \in 1..Len(regions) : \A p \in 1..Len(tokens) :
       (/\ ~Trivia(tokens[p])
        /\ Within(tokens[p], regions[k].start, regions[k].end)
        /\ Within(tokens[p], regions[j].start, regions[j].end)) => k = j

LEMMA RegionsOfABatch ==
  ASSUME NEW source, Len(source) \in Nat, NEW tokens, InOrder(source, tokens), NEW regions,
         NEW first \in 1..(Len(tokens) + 1), NEW last \in 0..Len(tokens),
         BatchShared(tokens, first, last, regions)
  PROVE  BatchRegionFacts(tokens, first, last, regions)
<1> DEFINE m == Len(tokens)
           n == Len(regions)
           all == MeaningfulPlaces(tokens, first, last)
<1>1. n \in Nat /\ m \in Nat
  BY DEF BatchShared, InOrder
<1>2. PICK places : SharedBy(tokens, first, last, regions, places)
  BY DEF BatchShared
<1>3. \A k \in 1..n :
        /\ \E kind : regions[k] = Region(tokens, places[k], kind)
        /\ places[k] # {}
        /\ \E lo \in first..last : \E hi \in first..last : places[k] = MeaningfulPlaces(tokens, lo, hi)
  BY <1>2 DEF SharedBy
<1>4. /\ \A p \in all : \E k \in 1..n : p \in places[k]
      /\ \A k \in 1..n : \A j \in 1..(k - 1) : places[j] \cap places[k] = {}
  BY <1>2 DEF SharedBy
<1> HIDE DEF m, n
<1>5. ASSUME NEW k \in 1..n
      PROVE  RegionOf(tokens, places[k], regions[k]) /\ places[k] \subseteq all
  <2>1. PICK kind : regions[k] = Region(tokens, places[k], kind)
    BY <1>3
  <2>2. PICK lo \in first..last, hi \in first..last : places[k] = MeaningfulPlaces(tokens, lo, hi)
    BY <1>3
  <2>3. lo \in Nat /\ lo >= 1 /\ hi \in 0..Len(tokens) /\ first \in Nat /\ hi \in Nat /\ last \in Nat
        /\ lo >= first /\ hi <= last
    BY <1>1 DEF m
  <2>4. MeaningfulPlaces(tokens, lo, hi) # {}
    BY <1>3, <2>2
  <2>5. RegionOf(tokens, MeaningfulPlaces(tokens, lo, hi), Region(tokens, MeaningfulPlaces(tokens, lo, hi), kind))
    BY <2>3, <2>4, RegionHolds
  <2>6. places[k] \subseteq all
    <3>1. \A p : p \in lo..hi => p \in first..last
      BY <2>3
    <3> QED BY <2>2, <3>1 DEF MeaningfulPlaces
  <2> QED BY <2>1, <2>2, <2>5, <2>6
<1>6. ASSUME NEW k \in 1..n, NEW p \in 1..m, ~Trivia(tokens[p])
      PROVE  Within(tokens[p], regions[k].start, regions[k].end) <=> p \in places[k]
  <2>1. PICK a \in 1..m : \E b \in a..m :
          /\ Within(tokens[p], regions[k].start, regions[k].end) <=> p \in a..b
          /\ p \in a..b <=> p \in places[k]
    BY <1>5, <1>6 DEF RegionOf, m
  <2> QED BY <2>1
<1>7. ASSUME NEW p \in all
      PROVE  \E k \in 1..n : Within(tokens[p], regions[k].start, regions[k].end)
  <2>1. PICK k \in 1..n : p \in places[k]
    BY <1>4
  <2>2. p \in first..last /\ ~Trivia(tokens[p])
    BY DEF MeaningfulPlaces
  <2>3. p \in 1..m
    BY <1>1, <2>2 DEF m
  <2> QED BY <1>6, <2>1, <2>2, <2>3
<1>8. ASSUME NEW k \in 1..n, NEW j \in 1..n, NEW p \in 1..m, ~Trivia(tokens[p]),
             Within(tokens[p], regions[k].start, regions[k].end),
             Within(tokens[p], regions[j].start, regions[j].end)
      PROVE  k = j
  <2>1. p \in places[k] /\ p \in places[j]
    BY <1>6, <1>8
  <2>2. ~(k \in 1..(j - 1)) /\ ~(j \in 1..(k - 1))
    BY <1>4, <2>1
  <2> QED BY <1>1, <2>2
<1>9. \A k \in 1..n : \E some \in SUBSET all : RegionOf(tokens, some, regions[k])
  BY <1>5
<1> QED BY <1>7, <1>8, <1>9 DEF BatchRegionFacts, m, n

-----------------------------------------------------------------------------
(* The regions of a document: each is a row of tokens, and what means      *)
(* something is in one of them exactly where it is in a batch.             *)
InABatch(source, token, separators) ==
  \E i \in 1..(Len(separators) + 1) :
    Within(token, BatchStart(separators, i), BatchEnd(source, separators, i))
DocumentShared(source, tokens, separators, regions) ==
  /\ regions \in Seq({regions[k] : k \in 1..Len(regions)})
  /\ \A r \in Range(regions) : \E places :
       /\ RegionOf(tokens, places, r)
       /\ \A p \in places : p \in 1..Len(tokens) /\ ~Trivia(tokens[p])
  /\ \A p \in 1..Len(tokens) : ~Trivia(tokens[p]) =>
       (InABatch(source, tokens[p], separators)
          <=> \E r \in Range(regions) : Within(tokens[p], r.start, r.end))
  /\ \A r \in Range(regions) : \A s \in Range(regions) : \A p \in 1..Len(tokens) :
       (/\ ~Trivia(tokens[p])
        /\ Within(tokens[p], r.start, r.end)
        /\ Within(tokens[p], s.start, s.end)) => r = s

LEMMA RegionsOfADocument ==
  ASSUME NEW T, NEW source \in Seq(T), NEW tokens, ReadAll(source, tokens)
  PROVE  DocumentShared(source, tokens, SeparatorLines(source, tokens), CollectRegions(source, tokens))
<1> DEFINE separators == SeparatorLines(source, tokens)
           batches == IndexedBatches(source, tokens)
           regions == CollectRegions(source, tokens)
           n == Len(separators)
           m == Len(tokens)
           Part(i) == PartOf(tokens, batches, i)
           From(i) == batches[i].from
           Until(i) == batches[i].to - 1
           R == UNION {{Part(i)[k] : k \in 1..Len(Part(i))} : i \in 1..(n + 1)}
           Inside(i, p) == Within(tokens[p], BatchStart(separators, i), BatchEnd(source, separators, i))
<1>1. InOrder(source, tokens) /\ Len(source) \in Nat /\ m \in Nat
  <2>1. InOrder(source, tokens)
    BY TokensInOrder DEF ReadAll
  <2> QED BY <2>1 DEF InOrder
<1>2. SeparatorsShare(source, tokens, separators)
  BY SeparatorsAreShared
<1>3. BatchHolds(source, tokens, separators, batches) /\ n \in Nat
  <2>1. n \in Nat
    BY <1>2 DEF SeparatorsShare
  <2> QED BY <1>1, <1>2, <2>1, BatchesHoldTheirTokens
<1>4. \A p \in 1..m : /\ tokens[p].start \in Nat /\ tokens[p].end \in Nat
                      /\ tokens[p].start < tokens[p].end
  BY <1>1 DEF InOrder
<1> HIDE DEF separators, batches, regions, n, m
<1>5. /\ Len(batches) = n + 1
      /\ \A i \in 1..(n + 1) :
           /\ batches[i].from \in 1..(m + 1) /\ batches[i].to \in 1..(m + 1)
           /\ \A p \in 1..m : ~Trivia(tokens[p]) => (p \in From(i)..Until(i) <=> Inside(i, p))
  BY <1>3 DEF BatchHolds, n, m
<1>6. ASSUME NEW i \in 1..(n + 1)
      PROVE  /\ From(i) \in 1..(Len(tokens) + 1) /\ Until(i) \in 0..Len(tokens)
             /\ BatchShared(tokens, From(i), Until(i), Part(i))
             /\ BatchRegionFacts(tokens, From(i), Until(i), Part(i))
  <2> DEFINE batch == batches[i]
  <2>1. batch.from \in 1..(Len(tokens) + 1) /\ batch.to \in 1..(Len(tokens) + 1) /\ Len(tokens) \in Nat
    BY <1>1, <1>5 DEF m
  <2> HIDE DEF batch
  <2>2. BatchShared(tokens, batch.from, batch.to - 1, BatchRegions(tokens, SyntaxDepths(tokens), batch))
    BY <2>1, BatchIsShared
  <2> DEFINE part == BatchRegions(tokens, SyntaxDepths(tokens), batch)
             last == batch.to - 1
  <2>3. last \in 0..Len(tokens)
    BY <2>1
  <2>4. BatchShared(tokens, batch.from, last, part)
    BY <2>2
  <2> HIDE DEF part, last
  <2>5. BatchRegionFacts(tokens, batch.from, last, part)
    BY <1>1, <2>1, <2>3, <2>4, RegionsOfABatch
  <2> QED BY <2>1, <2>3, <2>4, <2>5 DEF batch, part, last, PartOf
<1> HIDE DEF Part
<1>7. ASSUME NEW i \in 1..(n + 1) PROVE Part(i) \in Seq(R)
  <2>1. Part(i) \in Seq({Part(i)[k] : k \in 1..Len(Part(i))})
    BY <1>6 DEF BatchShared
  <2>2. {Part(i)[k] : k \in 1..Len(Part(i))} \subseteq R
    OBVIOUS
  <2> DEFINE own == {Part(i)[k] : k \in 1..Len(Part(i))}
             list == Part(i)
  <2>3. list \in Seq(own) /\ own \subseteq R
    BY <2>1, <2>2
  <2> HIDE DEF own, R, list
  <2>4. list \in Seq(R)
    BY <2>3
  <2> QED BY <2>4 DEF list
<1>8. /\ regions \in Seq(R)
      /\ \A r : (\E k \in 1..Len(regions) : regions[k] = r)
                  <=> \E i \in 1..(n + 1) : \E k \in 1..Len(Part(i)) : Part(i)[k] = r
  <2> HIDE DEF R
  <2>1. \A i \in 1..Len(batches) : PartOf(tokens, batches, i) \in Seq(R)
    BY <1>5, <1>7 DEF Part
  <2>2. Len(batches) \in Nat
    BY <1>3, <1>5
  <2>3. batches = IndexedBatches(source, tokens) /\ regions = CollectRegions(source, tokens)
    BY DEF batches, regions
  <2>4. JoinedOf(R, tokens, batches, CollectRegions(source, tokens))
    BY <2>1, <2>2, <2>3, CollectedAreParts
  <2>5. JoinedOf(R, tokens, batches, regions)
    BY <2>3, <2>4
  <2> QED BY <1>5, <2>5 DEF Part, JoinedOf
<1>9. regions \in Seq({regions[k] : k \in 1..Len(regions)})
      /\ \A r : r \in Range(regions) <=> \E k \in 1..Len(regions) : regions[k] = r
  <2> HIDE DEF R
  <2>1. regions \in Seq(R)
    BY <1>8
  <2>2. DOMAIN regions = 1..Len(regions)
    BY <2>1
  <2>3. regions \in Seq({regions[k] : k \in 1..Len(regions)})
    BY <2>1
  <2> QED BY <2>2, <2>3 DEF Range
<1> HIDE DEF R
<1>10. ASSUME NEW r \in Range(regions)
       PROVE  \E i \in 1..(n + 1) : \E k \in 1..Len(Part(i)) : Part(i)[k] = r
  BY <1>8, <1>9
<1>11. ASSUME NEW i \in 1..(n + 1), NEW k \in 1..Len(Part(i))
       PROVE  /\ Part(i)[k] \in Range(regions)
              /\ \E places \in SUBSET MeaningfulPlaces(tokens, From(i), Until(i)) :
                   RegionOf(tokens, places, Part(i)[k])
  BY <1>6, <1>8, <1>9 DEF BatchRegionFacts
<1>12. ASSUME NEW i \in 1..(n + 1), NEW p
       PROVE  p \in MeaningfulPlaces(tokens, From(i), Until(i))
                <=> p \in 1..m /\ ~Trivia(tokens[p]) /\ Inside(i, p)
  <2>1. From(i) \in 1..(m + 1) /\ Until(i) \in 0..m
    BY <1>6 DEF m
  <2>2. p \in MeaningfulPlaces(tokens, From(i), Until(i)) <=> p \in From(i)..Until(i) /\ ~Trivia(tokens[p])
    BY DEF MeaningfulPlaces
  <2>3. p \in From(i)..Until(i) => p \in 1..m
    <3> HIDE DEF From, Until
    <3> QED BY <1>1, <2>1
  <2>4. p \in 1..m /\ ~Trivia(tokens[p]) => (p \in From(i)..Until(i) <=> Inside(i, p))
    BY <1>5
  <2> HIDE DEF From, Until, Inside
  <2> QED BY <2>2, <2>3, <2>4
<1> HIDE DEF From, Until
<1>13. ASSUME NEW i \in 1..(n + 1), NEW k \in 1..Len(Part(i)), NEW p \in 1..m, ~Trivia(tokens[p]),
              Within(tokens[p], Part(i)[k].start, Part(i)[k].end)
       PROVE  Inside(i, p)
  <2>1. PICK places \in SUBSET MeaningfulPlaces(tokens, From(i), Until(i)) :
          RegionOf(tokens, places, Part(i)[k])
    BY <1>11
  <2>2. p \in places
    BY <1>13, <2>1 DEF RegionOf, m
  <2> QED BY <1>12, <2>1, <2>2
<1>14. ASSUME NEW r \in Range(regions)
       PROVE  \E places : RegionOf(tokens, places, r) /\ \A p \in places : p \in 1..m /\ ~Trivia(tokens[p])
  <2>1. PICK i \in 1..(n + 1) : \E k \in 1..Len(Part(i)) : Part(i)[k] = r
    BY <1>10
  <2>2. PICK places \in SUBSET MeaningfulPlaces(tokens, From(i), Until(i)) : RegionOf(tokens, places, r)
    <3>1. PICK k \in 1..Len(Part(i)) : Part(i)[k] = r
      BY <2>1
    <3> QED BY <1>11, <3>1
  <2>3. \A p \in places : p \in 1..m /\ ~Trivia(tokens[p])
    BY <1>12, <2>2
  <2> QED BY <2>2, <2>3
<1>15. ASSUME NEW p \in 1..m, ~Trivia(tokens[p])
       PROVE  InABatch(source, tokens[p], separators)
                <=> \E r \in Range(regions) : Within(tokens[p], r.start, r.end)
  <2>1. InABatch(source, tokens[p], separators) <=> \E i \in 1..(n + 1) : Inside(i, p)
    BY DEF InABatch, n
  <2>2. ASSUME NEW i \in 1..(n + 1), Inside(i, p)
        PROVE  \E r \in Range(regions) : Within(tokens[p], r.start, r.end)
    <3>1. p \in MeaningfulPlaces(tokens, From(i), Until(i))
      BY <1>12, <1>15, <2>2
    <3>2. PICK k \in 1..Len(Part(i)) : Within(tokens[p], Part(i)[k].start, Part(i)[k].end)
      BY <1>6, <3>1 DEF BatchRegionFacts
    <3> QED BY <1>11, <3>2
  <2>3. ASSUME NEW r \in Range(regions), Within(tokens[p], r.start, r.end)
        PROVE  \E i \in 1..(n + 1) : Inside(i, p)
    <3>1. PICK i \in 1..(n + 1) : \E k \in 1..Len(Part(i)) : Part(i)[k] = r
      BY <1>10
    <3>2. PICK k \in 1..Len(Part(i)) : Part(i)[k] = r
      BY <3>1
    <3>3. Within(tokens[p], Part(i)[k].start, Part(i)[k].end)
      BY <2>3, <3>2
    <3>4. Inside(i, p)
      <4> HIDE DEF Inside
      <4> QED BY <1>13, <1>15, <3>3
    <3> QED BY <3>4
  <2> HIDE DEF Inside
  <2> QED BY <2>1, <2>2, <2>3
<1>16. ASSUME NEW r \in Range(regions), NEW s \in Range(regions), NEW p \in 1..m, ~Trivia(tokens[p]),
              Within(tokens[p], r.start, r.end), Within(tokens[p], s.start, s.end)
       PROVE  r = s
  <2>1. PICK i \in 1..(n + 1) : \E k \in 1..Len(Part(i)) : Part(i)[k] = r
    BY <1>10
  <2>2. PICK j \in 1..(n + 1) : \E l \in 1..Len(Part(j)) : Part(j)[l] = s
    BY <1>10
  <2>3. PICK k \in 1..Len(Part(i)) : Part(i)[k] = r
    BY <2>1
  <2>4. PICK l \in 1..Len(Part(j)) : Part(j)[l] = s
    BY <2>2
  <2>5. Inside(i, p) /\ Inside(j, p)
    BY <1>13, <1>16, <2>3, <2>4
  <2>6. i = j
    <3> DEFINE token == tokens[p]
    <3>1. token.start \in Nat /\ token.end \in Nat /\ token.start < token.end
      BY <1>4
    <3>2. /\ i \in 1..(Len(separators) + 1) /\ j \in 1..(Len(separators) + 1)
          /\ Within(token, BatchStart(separators, i), BatchEnd(source, separators, i))
          /\ Within(token, BatchStart(separators, j), BatchEnd(source, separators, j))
      BY <2>5 DEF n
    <3> HIDE DEF token
    <3> QED BY <1>1, <1>2, <3>1, <3>2, OneSeparatorOrBatch
  <2>7. k \in 1..Len(Part(i)) /\ l \in 1..Len(Part(i)) /\ Part(i)[k] = r /\ Part(i)[l] = s
    BY <2>3, <2>4, <2>6
  <2>8. k = l
    <3>1. BatchRegionFacts(tokens, From(i), Until(i), Part(i))
      BY <1>6
    <3> QED BY <1>16, <2>7, <3>1 DEF BatchRegionFacts, m
  <2> QED BY <2>7, <2>8
<1>17. DocumentShared(source, tokens, separators, regions)
  BY <1>9, <1>14, <1>15, <1>16 DEF DocumentShared, m
<1> QED BY <1>17 DEF separators, regions

(* What is chosen of a list is in the list, at one of the places.          *)
LEMMA ChosenAreThere ==
  ASSUME NEW T, NEW list \in Seq(T), NEW places
  PROVE  \A t \in Range(Chosen(list, places)) : \E p \in places \cap 1..Len(list) : t = list[p]
<1> DEFINE chosen == Chosen(list, places)
<1>1. chosen \in Seq(T) /\ Picked(list, places, Len(list), chosen)
  BY ChosenFacts
<1> HIDE DEF chosen
<1>2. PICK at : PickedBy(list, places, Len(list), chosen, at)
  BY <1>1 DEF Picked
<1>3. ASSUME NEW t \in Range(chosen)
      PROVE  \E p \in places \cap 1..Len(list) : t = list[p]
  <2>1. PICK k \in 1..Len(chosen) : t = chosen[k]
    BY <1>1 DEF Range
  <2>2. at[k] \in places \cap 1..Len(list) /\ chosen[k] = list[at[k]]
    BY <1>2, <2>1 DEF PickedBy
  <2> QED BY <2>1, <2>2
<1> QED BY <1>3 DEF chosen

(* The regions of a document and its separators share its text out: every  *)
(* token that is not trivia is in exactly one of them; a unit that is      *)
(* scanned on its own has the tokens that it has in the document; and the  *)
(* range of a unit selects that unit and no other.                         *)
THEOREM RegionsShareTheText ==
  ASSUME NEW T, NEW source \in Seq(T)
  PROVE  RegionsTile(source)
<1> DEFINE prepared == PrepareFormattingDocument(source)
           tokens == prepared.tokens
           separators == prepared.separators
           regions == prepared.regions
           m == Len(tokens)
           Go(s) == [start |-> s.start, end |-> s.end, kind |-> "go"]
           gos == {[start |-> s.start, end |-> s.end, kind |-> "go"] : s \in Range(separators)}
           spans == Range(regions) \cup gos
           Holds(span, t) == span.start <= t.start /\ t.end <= span.end
           Alone(u) == ScanFormattingSql(TextOf(source, u))
           Inside(u) == {i \in DOMAIN tokens : Holds(u, tokens[i])}
<1>1. SUFFICES ASSUME prepared.ok
               PROVE  /\ \A t \in Range(MeaningfulTokens(tokens)) :
                           Cardinality({span \in spans : Holds(span, t)}) = 1
                      /\ \A u \in Range(Units(prepared)) :
                           /\ Alone(u).ok
                           /\ Spellings(Alone(u).tokens) = Spellings(Chosen(tokens, Inside(u)))
                           /\ SelectExactFormattingUnit(prepared, u.start, u.end) = {u}
  BY DEF RegionsTile
<1>2. /\ ScanFormattingSql(source).ok
      /\ tokens = ScanFormattingSql(source).tokens
      /\ separators = SeparatorLines(source, tokens)
      /\ regions = CollectRegions(source, tokens)
  BY <1>1 DEF PrepareFormattingDocument
<1> HIDE DEF tokens, separators, regions
<1>3. ReadAll(source, tokens)
  BY <1>2, ScanReadsAll
<1>4. /\ InOrder(source, tokens) /\ Len(source) \in Nat /\ m \in Nat /\ tokens \in Seq(Tokens(source))
      /\ \A k \in 1..m : /\ tokens[k].start \in Nat /\ tokens[k].end \in Nat
                         /\ tokens[k].start < tokens[k].end
  <2>1. InOrder(source, tokens)
    BY <1>3, TokensInOrder DEF ReadAll
  <2> QED BY <2>1 DEF InOrder
<1>5. SeparatorsShare(source, tokens, separators)
  BY <1>2, <1>3, SeparatorsAreShared
<1>6. DocumentShared(source, tokens, separators, regions)
  BY <1>2, <1>3, RegionsOfADocument
<1>7. DOMAIN separators = 1..Len(separators)
      /\ gos = {Go(separators[i]) : i \in 1..Len(separators)}
      /\ \A i \in 1..Len(separators) : Go(separators[i]).start = separators[i].start
                                        /\ Go(separators[i]).end = separators[i].end
  <2>1. DOMAIN separators = 1..Len(separators)
    BY <1>5 DEF SeparatorsShare
  <2> QED BY <2>1 DEF Range
<1> HIDE DEF gos, Go, prepared
<1>8. ASSUME NEW t \in Range(MeaningfulTokens(tokens))
      PROVE  \E p \in 1..m : t = tokens[p] /\ ~Trivia(tokens[p])
  <2> DEFINE places == {i \in DOMAIN tokens : ~Trivia(tokens[i])}
  <2>1. MeaningfulTokens(tokens) = Chosen(tokens, places)
    BY DEF MeaningfulTokens
  <2>2. \A p \in places : ~Trivia(tokens[p])
    OBVIOUS
  <2> HIDE DEF places
  <2>3. \E p \in places \cap 1..Len(tokens) : t = tokens[p]
    BY <1>4, <2>1, ChosenAreThere
  <2> QED BY <2>2, <2>3
<1>9. ASSUME NEW p \in 1..m, ~Trivia(tokens[p])
      PROVE  \E x \in spans : Holds(x, tokens[p])
  <2>1. CASE \E i \in 1..Len(separators) : Within(tokens[p], separators[i].start, separators[i].end)
    <3>1. PICK i \in 1..Len(separators) : Within(tokens[p], separators[i].start, separators[i].end)
      BY <2>1
    <3>2. Go(separators[i]) \in spans /\ Holds(Go(separators[i]), tokens[p])
      BY <1>7, <3>1 DEF Within
    <3> QED BY <3>2
  <2>2. CASE \E i \in 1..(Len(separators) + 1) :
               Within(tokens[p], BatchStart(separators, i), BatchEnd(source, separators, i))
    <3>1. InABatch(source, tokens[p], separators)
      BY <2>2 DEF InABatch
    <3>2. PICK r \in Range(regions) : Within(tokens[p], r.start, r.end)
      BY <1>6, <1>9, <3>1 DEF DocumentShared
    <3> QED BY <3>2 DEF Within
  <2> QED BY <1>4, <1>5, <1>9, <2>1, <2>2, SeparatorOrBatch
<1>10. ASSUME NEW p \in 1..m, ~Trivia(tokens[p]), NEW i \in 1..Len(separators), NEW r \in Range(regions),
              Within(tokens[p], separators[i].start, separators[i].end), Within(tokens[p], r.start, r.end)
       PROVE  FALSE
  <2> DEFINE token == tokens[p]
  <2>1. InABatch(source, tokens[p], separators)
    BY <1>6, <1>10 DEF DocumentShared
  <2>2. PICK j \in 1..(Len(separators) + 1) :
          Within(tokens[p], BatchStart(separators, j), BatchEnd(source, separators, j))
    BY <2>1 DEF InABatch
  <2>3. token.start \in Nat /\ token.end \in Nat /\ token.start < token.end
    BY <1>4
  <2>4. /\ Within(token, separators[i].start, separators[i].end)
        /\ Within(token, BatchStart(separators, j), BatchEnd(source, separators, j))
    BY <1>10, <2>2
  <2> HIDE DEF token
  <2> QED BY <1>4, <1>5, <2>3, <2>4, OneSeparatorOrBatch
<1>11. ASSUME NEW p \in 1..m, ~Trivia(tokens[p]), NEW i \in 1..Len(separators), NEW j \in 1..Len(separators),
              Within(tokens[p], separators[i].start, separators[i].end),
              Within(tokens[p], separators[j].start, separators[j].end)
       PROVE  i = j
  <2> DEFINE token == tokens[p]
  <2>1. token.start \in Nat /\ token.end \in Nat /\ token.start < token.end
    BY <1>4
  <2>2. /\ Within(token, separators[i].start, separators[i].end)
        /\ Within(token, separators[j].start, separators[j].end)
    BY <1>11
  <2> HIDE DEF token
  <2> QED BY <1>4, <1>5, <2>1, <2>2, OneSeparatorOrBatch
<1>12. ASSUME NEW p \in 1..m, ~Trivia(tokens[p]), NEW x \in spans, NEW y \in spans,
              Holds(x, tokens[p]), Holds(y, tokens[p])
       PROVE  x = y
  <2>1. Within(tokens[p], x.start, x.end) /\ Within(tokens[p], y.start, y.end)
    BY <1>12 DEF Within
  <2>2. ASSUME NEW z \in gos, Within(tokens[p], z.start, z.end)
        PROVE  \E i \in 1..Len(separators) :
                 z = Go(separators[i]) /\ Within(tokens[p], separators[i].start, separators[i].end)
    <3>1. PICK i \in 1..Len(separators) : z = Go(separators[i])
      BY <1>7
    <3>2. Within(tokens[p], separators[i].start, separators[i].end)
      BY <1>7, <2>2, <3>1
    <3> QED BY <3>1, <3>2
  <2>3. CASE x \in gos /\ y \in gos
    BY <1>11, <1>12, <2>1, <2>2, <2>3
  <2>4. CASE x \in Range(regions) /\ y \in Range(regions)
    BY <1>6, <1>12, <2>1, <2>4 DEF DocumentShared
  <2>5. CASE x \in gos /\ y \in Range(regions)
    BY <1>10, <1>12, <2>1, <2>2, <2>5
  <2>6. CASE x \in Range(regions) /\ y \in gos
    BY <1>10, <1>12, <2>1, <2>2, <2>6
  <2> QED BY <2>3, <2>4, <2>5, <2>6
<1>13. ASSUME NEW t \in Range(MeaningfulTokens(tokens))
       PROVE  Cardinality({span \in spans : Holds(span, t)}) = 1
  <2>1. PICK p \in 1..m : t = tokens[p] /\ ~Trivia(tokens[p])
    BY <1>8
  <2>2. PICK x \in spans : Holds(x, tokens[p])
    BY <1>9, <2>1
  <2>3. \A y \in spans : Holds(y, tokens[p]) => y = x
    BY <1>12, <2>1, <2>2
  <2> HIDE DEF spans, Holds
  <2>4. {span \in spans : Holds(span, t)} = {x}
    BY <2>1, <2>2, <2>3
  <2>5. Cardinality({x}) = 1
    BY FS_Singleton
  <2> QED BY <2>4, <2>5
<1>14. Range(Units(prepared)) \subseteq Range(regions)
  <2> DEFINE own == {regions[k] : k \in 1..Len(regions)}
             places == {i \in DOMAIN regions : regions[i].kind # Declined}
  <2>1. Units(prepared) = Chosen(regions, places)
    BY DEF Units, regions
  <2>2. regions \in Seq(own)
    BY <1>6 DEF DocumentShared
  <2> HIDE DEF own, places
  <2>3. \A t \in Range(Chosen(regions, places)) : \E k \in places \cap 1..Len(regions) : t = regions[k]
    BY <2>2, ChosenAreThere
  <2>4. DOMAIN regions = 1..Len(regions)
    BY <2>2
  <2>5. \A t \in Range(Chosen(regions, places)) : t \in Range(regions)
    BY <2>3, <2>4 DEF Range
  <2> QED BY <2>1, <2>5
<1>15. ASSUME NEW u \in Range(Units(prepared))
       PROVE  /\ Alone(u).ok
              /\ Spellings(Alone(u).tokens) = Spellings(Chosen(tokens, Inside(u)))
              /\ SelectExactFormattingUnit(prepared, u.start, u.end) = {u}
  <2>1. PICK places : /\ RegionOf(tokens, places, u)
                      /\ \A p \in places : p \in 1..m /\ ~Trivia(tokens[p])
    BY <1>6, <1>14 DEF DocumentShared
  <2>2. PICK a \in 1..m : \E b \in a..m :
          /\ a \in places /\ b \in places
          /\ u.start = tokens[a].start /\ u.end = tokens[b].end
          /\ \A p \in 1..m : Within(tokens[p], u.start, u.end) <=> p \in a..b
    BY <2>1 DEF RegionOf
  <2>3. PICK b \in a..m :
          /\ a \in places
          /\ u.start = tokens[a].start /\ u.end = tokens[b].end
          /\ \A p \in 1..m : Within(tokens[p], u.start, u.end) <=> p \in a..b
    BY <2>2
  <2>4. Inside(u) = a..b
    <3>1. DOMAIN tokens = 1..m
      BY <1>4
    <3>2. \A p \in a..b : p \in 1..m
      BY <1>4, <2>3
    <3>3. \A p \in 1..m : Holds(u, tokens[p]) <=> p \in a..b
      BY <2>3 DEF Within
    <3> HIDE DEF Holds
    <3> QED BY <3>1, <3>2, <3>3
  <2>5. TextOf(source, u) = Cut(source, tokens[a].start, tokens[b].end)
    BY <2>3 DEF TextOf, Cut
  <2>6. CutReads(source, tokens, a, b)
    BY <1>3, PartIsRead
  <2> DEFINE alone == Alone(u).tokens
             chosen == Chosen(tokens, a..b)
             size == b + 1 - a
  <2>7. /\ Alone(u).ok /\ Len(alone) = size
        /\ \A k \in 1..size : alone[k].kind = tokens[k + a - 1].kind /\ alone[k].text = tokens[k + a - 1].text
    BY <2>5, <2>6 DEF CutReads
  <2>8. DOMAIN alone = 1..size
    <3>1. TextOf(source, u) \in Seq(T)
      <4>1. source \in Seq(T) /\ tokens[a].start \in 1..Len(source) /\ tokens[b].end \in 1..(Len(source) + 1)
        BY <1>4, <2>3 DEF InOrder
      <4> QED BY <2>5, <4>1 DEF Cut
    <3>2. ReadAll(TextOf(source, u), alone)
      BY <2>7, <3>1, ScanReadsAll
    <3>3. alone \in Seq(Tokens(TextOf(source, u)))
      BY <3>2 DEF ReadAll, Tiled
    <3> HIDE DEF alone
    <3> QED BY <2>7, <3>3
  <2>9. /\ chosen \in Seq(Tokens(source)) /\ Len(chosen) = size
        /\ \A k \in 1..size : chosen[k] = tokens[k + a - 1]
    BY <1>4, ChosenFacts, ChosenPart
  <2> HIDE DEF alone, chosen, Alone
  <2>10. DOMAIN chosen = 1..size
    BY <2>9
  <2>11. Spellings(alone) = Spellings(chosen)
    <3>1. Spellings(alone) = [i \in 1..size |-> <<alone[i].kind, alone[i].text>>]
      BY <2>8 DEF Spellings
    <3>2. Spellings(chosen) = [i \in 1..size |-> <<chosen[i].kind, chosen[i].text>>]
      BY <2>10 DEF Spellings
    <3>3. \A i \in 1..size : <<alone[i].kind, alone[i].text>> = <<chosen[i].kind, chosen[i].text>>
      BY <2>7, <2>9
    <3> HIDE DEF size
    <3> QED BY <3>1, <3>2, <3>3
  <2>12. SelectExactFormattingUnit(prepared, u.start, u.end) = {u}
    <3>1. ASSUME NEW v \in Range(Units(prepared)), v.start = u.start, v.end = u.end
          PROVE  v = u
      <4>1. Within(tokens[a], u.start, u.end)
        <5>1. a \in a..b
          BY <1>4, <2>3
        <5> QED BY <2>3, <5>1
      <4>2. Within(tokens[a], v.start, v.end)
        BY <3>1, <4>1
      <4>3. a \in 1..m /\ ~Trivia(tokens[a]) /\ u \in Range(regions) /\ v \in Range(regions)
        BY <1>14, <2>1, <2>3
      <4> QED BY <1>6, <4>1, <4>2, <4>3 DEF DocumentShared
    <3> QED BY <3>1 DEF SelectExactFormattingUnit
  <2> QED BY <2>4, <2>7, <2>11, <2>12 DEF alone, chosen
<1> QED BY <1>13, <1>15

-----------------------------------------------------------------------------
(* What every step of a loop keeps in S stays in S.                        *)
LEMMA StepsStay ==
  ASSUME NEW S, NEW count \in Nat, NEW start \in S, NEW steps \in [1..count -> [S -> S]],
         NEW f, DOMAIN f = 0..count, f = [n \in DOMAIN f |-> f[n]], f[0] = start,
         \A n \in 1..count : f[n - 1] \in S => f[n] = steps[n][f[n - 1]]
  PROVE  Lists!Steps(f, count, S, start, steps)
<1> DEFINE in == {n \in 0..count : f[n] \in S}
<1>1. 0 \in in
  OBVIOUS
<1>2. ASSUME NEW n \in 0..(count - 1), n \in in
      PROVE  n + 1 \in in
  <2>1. n + 1 \in 1..count /\ (n + 1) - 1 = n /\ f[n] \in S
    BY <1>2
  <2>2. steps[n + 1] \in [S -> S]
    BY <2>1
  <2>3. f[n + 1] = steps[n + 1][f[n]]
    BY <2>1
  <2> QED BY <2>1, <2>2, <2>3
<1>3. \A n \in 0..count : n \in in
  <2> HIDE DEF in
  <2> QED BY <1>1, <1>2, Lists!Counting
<1>4. \A n \in 0..count : f[n] \in S
  BY <1>3
<1>5. f \in [0..count -> S]
  BY <1>4
<1>6. ASSUME NEW n \in 0..count PROVE f[n] = IF n = 0 THEN start ELSE steps[n][f[n - 1]]
  <2>1. n = 0 \/ (n \in 1..count /\ n - 1 \in 0..count)
    OBVIOUS
  <2> QED BY <1>4, <2>1
<1> QED BY <1>5, <1>6 DEF Lists!Steps

(* What the tokenizer reads ends after its beginning.                      *)
LEMMA CommentCloseFacts ==
  ASSUME NEW T, NEW sql \in Seq(T), NEW i \in Nat, i <= Len(sql) + 2
  PROVE  CommentClose(sql, i) \in Nat /\ CommentClose(sql, i) + 1 >= i
<1> DEFINE ends == {j + 2 : j \in {k \in i..(Len(sql) - 1) : sql[k] = "*" /\ sql[k + 1] = "/"}}
                     \cup {Len(sql) + 1}
<1>1. ends \in SUBSET Nat /\ ends # {} /\ \A e \in ends : e + 1 >= i
  OBVIOUS
<1>2. CommentClose(sql, i) = Min(ends)
  BY DEF CommentClose
<1> HIDE DEF ends
<1> QED BY <1>1, <1>2, MinIsLeast

LEMMA ClosedAtFacts ==
  ASSUME NEW T, NEW sql \in Seq(T), NEW quote, quote # NoSymbol, NEW i \in 1..(Len(sql) + 1)
  PROVE  ClosedAt(sql, i, quote) \in Nat /\ ClosedAt(sql, i, quote) >= i
<1>1. PICK f : QuoteRan(f, sql, quote, i) /\ ClosingQuote(sql, i, quote) = f[Len(sql)]
  BY ClosingQuoteRan
<1>2. Len(sql) \in 0..Len(sql) /\ Len(sql) \in Nat
  OBVIOUS
<1>3. QuoteSeen(f, sql, quote, i)
  BY <1>1, QuoteSteps
<1>4. f[Len(sql)] \in i..(Len(sql) + 1)
  BY <1>2, <1>3 DEF QuoteSeen
<1>5. ClosedAt(sql, i, quote) = IF f[Len(sql)] > Len(sql) THEN Len(sql) + 1 ELSE f[Len(sql)] + 1
  BY <1>1 DEF ClosedAt
<1> QED BY <1>2, <1>4, <1>5

(* What starts at a place, by its first two symbols.                       *)
SqlArms(sql, i, c, d, name, word, lexeme) ==
  /\ c \in Blank => lexeme = <<"", i + 1>>
  /\ c = "-" /\ d = "-" => lexeme = <<"", RunEnd(sql, i + 2, STRING \ {"\n"})>>
  /\ c = "/" /\ d = "*" => lexeme = <<"", CommentClose(sql, i + 2)>>
  /\ c = "'" => lexeme = <<"string", ClosedAt(sql, i + 1, "'")>>
  /\ c = "[" => lexeme = <<"delimited", ClosedAt(sql, i + 1, "]")>>
  /\ c = DoubleQuote => lexeme = <<"delimited", ClosedAt(sql, i + 1, DoubleQuote)>>
  /\ c \in IdentifierStart => lexeme = <<word, name>>
  /\ c = "@" => lexeme = <<"variable", name>>
  /\ c = "#" => lexeme = <<"temp", IF d = "#" THEN RunEnd(sql, i + 2, IdentifierPart) ELSE name>>
  /\ c \in Digit => lexeme = <<"number", RunEnd(sql, i, Digit \cup {"."})>>
  /\ \/ c \in Blank \cup IdentifierStart \cup Digit \cup {"'", "[", DoubleQuote, "@", "#"}
     \/ c = "-" /\ d = "-"
     \/ c = "/" /\ d = "*"
     \/ lexeme = <<"symbol", i + 1>>

LEMMA SqlLexemeArms ==
  ASSUME NEW sql, NEW i, NEW c, NEW d, c = sql[i], d = At(sql, i + 1), NEW name, NEW word,
         name = RunEnd(sql, i + 1, IdentifierPart),
         word = IF IsStandaloneGo(sql, i) THEN "batchSeparator" ELSE "identifier"
  PROVE  SqlArms(sql, i, c, d, name, word, SqlLexeme(sql, i))
<1> USE DEF DoubleQuote, SqlLexeme, Blank, IdentifierStart, Digit, Special
<1>1. c \in Blank => SqlLexeme(sql, i) = <<"", i + 1>>
  OBVIOUS
<1>2. c = "-" /\ d = "-" => SqlLexeme(sql, i) = <<"", RunEnd(sql, i + 2, STRING \ {"\n"})>>
  OBVIOUS
<1>3. c = "/" /\ d = "*" => SqlLexeme(sql, i) = <<"", CommentClose(sql, i + 2)>>
  OBVIOUS
<1>4. c = "'" => SqlLexeme(sql, i) = <<"string", ClosedAt(sql, i + 1, "'")>>
  OBVIOUS
<1>5. c = "[" => SqlLexeme(sql, i) = <<"delimited", ClosedAt(sql, i + 1, "]")>>
  OBVIOUS
<1>6. c = DoubleQuote => SqlLexeme(sql, i) = <<"delimited", ClosedAt(sql, i + 1, DoubleQuote)>>
  OBVIOUS
<1>7. c \in IdentifierStart => SqlLexeme(sql, i) = <<word, name>>
  OBVIOUS
<1>8. c = "@" => SqlLexeme(sql, i) = <<"variable", name>>
  OBVIOUS
<1>9. c = "#" => SqlLexeme(sql, i) = <<"temp", IF d = "#" THEN RunEnd(sql, i + 2, IdentifierPart) ELSE name>>
  OBVIOUS
<1>10. c \in Digit => SqlLexeme(sql, i) = <<"number", RunEnd(sql, i, Digit \cup {"."})>>
  OBVIOUS
<1> HIDE DEF Blank, IdentifierStart, Digit, Special
<1>11. \/ c \in Blank \cup IdentifierStart \cup Digit \cup {"'", "[", DoubleQuote, "@", "#"}
       \/ c = "-" /\ d = "-"
       \/ c = "/" /\ d = "*"
       \/ SqlLexeme(sql, i) = <<"symbol", i + 1>>
  OBVIOUS
<1> HIDE DEF SqlLexeme, DoubleQuote
<1> QED BY <1>1, <1>2, <1>3, <1>4, <1>5, <1>6, <1>7, <1>8, <1>9, <1>10, <1>11 DEF SqlArms

LEMMA SqlLexemeMovesOn ==
  ASSUME NEW T, NEW sql \in Seq(T), NEW i \in 1..Len(sql)
  PROVE  SqlLexeme(sql, i)[2] \in Nat /\ SqlLexeme(sql, i)[2] > i
<1> DEFINE c == sql[i]
           d == At(sql, i + 1)
           end == SqlLexeme(sql, i)[2]
<1>0. Len(sql) \in Nat /\ i \in Nat
  OBVIOUS
<1>1. ASSUME NEW run, NEW k \in Nat, k >= i + 1
      PROVE  RunEnd(sql, k, run) \in Nat /\ RunEnd(sql, k, run) > i
  BY <1>0, <1>1, RunEndFacts
<1>2. c \in Digit => LET e == RunEnd(sql, i, Digit \cup {"."}) IN e \in Nat /\ e > i
  <2> DEFINE e == RunEnd(sql, i, Digit \cup {"."})
  <2>1. e \in Nat /\ e >= i /\ (e <= Len(sql) => sql[e] \notin Digit \cup {"."})
    BY <1>0, RunEndFacts
  <2> HIDE DEF e
  <2>2. c \in Digit => e # i
    BY <1>0, <2>1
  <2> QED BY <1>0, <2>1, <2>2 DEF e
<1>3. ASSUME NEW quote, quote # NoSymbol
      PROVE  ClosedAt(sql, i + 1, quote) \in Nat /\ ClosedAt(sql, i + 1, quote) > i
  <2>1. i + 1 \in 1..(Len(sql) + 1)
    BY <1>0
  <2>2. ClosedAt(sql, i + 1, quote) \in Nat /\ ClosedAt(sql, i + 1, quote) >= i + 1
    BY <1>3, <2>1, ClosedAtFacts
  <2> QED BY <1>0, <2>2
<1>4. ClosedAt(sql, i + 1, "'") > i /\ ClosedAt(sql, i + 1, "]") > i /\ ClosedAt(sql, i + 1, "\"") > i
      /\ ClosedAt(sql, i + 1, "'") \in Nat /\ ClosedAt(sql, i + 1, "]") \in Nat
      /\ ClosedAt(sql, i + 1, "\"") \in Nat
  <2>1. "'" # NoSymbol /\ "]" # NoSymbol /\ "\"" # NoSymbol
    BY DEF NoSymbol
  <2> QED BY <1>3, <2>1
<1>5. CommentClose(sql, i + 2) \in Nat /\ CommentClose(sql, i + 2) > i
  <2>1. i + 2 \in Nat /\ i + 2 <= Len(sql) + 2
    BY <1>0
  <2>2. CommentClose(sql, i + 2) \in Nat /\ CommentClose(sql, i + 2) + 1 >= i + 2
    BY <2>1, CommentCloseFacts
  <2> QED BY <1>0, <2>2
<1>6. i + 1 \in Nat /\ i + 2 \in Nat /\ i + 1 >= i + 1 /\ i + 2 >= i + 1 /\ i + 1 > i
  BY <1>0
<1>7. \/ end = i + 1
      \/ \E run : end = RunEnd(sql, i + 1, run) \/ end = RunEnd(sql, i + 2, run)
      \/ end = CommentClose(sql, i + 2)
      \/ end \in {ClosedAt(sql, i + 1, "'"), ClosedAt(sql, i + 1, "]"), ClosedAt(sql, i + 1, "\"")}
      \/ c \in Digit /\ end = RunEnd(sql, i, Digit \cup {"."})
  <2> DEFINE name == RunEnd(sql, i + 1, IdentifierPart)
             word == IF IsStandaloneGo(sql, i) THEN "batchSeparator" ELSE "identifier"
             lexeme == SqlLexeme(sql, i)
  <2> HIDE DEF c, d, name, word, lexeme
  <2>1. \/ \E kind : \/ lexeme = <<kind, i + 1>> \/ lexeme = <<kind, name>>
                     \/ lexeme = <<kind, CommentClose(sql, i + 2)>>
                     \/ lexeme = <<kind, RunEnd(sql, i + 2, STRING \ {"\n"})>>
                     \/ lexeme = <<kind, RunEnd(sql, i + 2, IdentifierPart)>>
                     \/ lexeme = <<kind, ClosedAt(sql, i + 1, "'")>>
                     \/ lexeme = <<kind, ClosedAt(sql, i + 1, "]")>>
                     \/ lexeme = <<kind, ClosedAt(sql, i + 1, DoubleQuote)>>
        \/ c \in Digit /\ lexeme = <<"number", RunEnd(sql, i, Digit \cup {"."})>>
    <3>0. c = sql[i] /\ d = At(sql, i + 1) /\ name = RunEnd(sql, i + 1, IdentifierPart)
          /\ word = IF IsStandaloneGo(sql, i) THEN "batchSeparator" ELSE "identifier"
      BY DEF c, d, name, word
    <3>1. SqlArms(sql, i, c, d, name, word, lexeme)
      BY <3>0, SqlLexemeArms DEF lexeme
    <3> USE DEF SqlArms
    <3>2. CASE c \in IdentifierStart
      BY <3>1, <3>2
    <3>3. CASE c \in Digit
      BY <3>1, <3>3
    <3>4. CASE c \in Blank
      BY <3>1, <3>4
    <3>5. CASE c = "-" /\ d = "-"
      BY <3>1, <3>5
    <3>6. CASE c = "/" /\ d = "*"
      BY <3>1, <3>6
    <3>7. CASE c = "'"
      BY <3>1, <3>7
    <3>10. CASE c = "["
      BY <3>1, <3>10
    <3>11. CASE c = DoubleQuote
      BY <3>1, <3>11
    <3>8. CASE c = "@"
      <4>1. lexeme = <<"variable", name>>
        BY <3>1, <3>8
      <4> QED BY <4>1
    <3>12. CASE c = "#"
      <4>1. lexeme = <<"temp", RunEnd(sql, i + 2, IdentifierPart)>> \/ lexeme = <<"temp", name>>
        BY <3>1, <3>12
      <4> QED BY <4>1
    <3>9. CASE lexeme = <<"symbol", i + 1>>
      BY <3>9
    <3> QED BY <3>1, <3>2, <3>3, <3>4, <3>5, <3>6, <3>7, <3>8, <3>9, <3>10, <3>11, <3>12
  <2>2. end = lexeme[2]
    BY DEF lexeme
  <2> HIDE DEF end
  <2>3. \/ end \in {i + 1, name, CommentClose(sql, i + 2), RunEnd(sql, i + 2, STRING \ {"\n"}),
                    RunEnd(sql, i + 2, IdentifierPart), ClosedAt(sql, i + 1, "'"),
                    ClosedAt(sql, i + 1, "]"), ClosedAt(sql, i + 1, DoubleQuote)}
        \/ c \in Digit /\ end = RunEnd(sql, i, Digit \cup {"."})
    BY <2>1, <2>2
  <2> QED BY <2>3 DEF name, DoubleQuote
<1> QED BY <1>1, <1>2, <1>4, <1>5, <1>6, <1>7

-----------------------------------------------------------------------------
(* The tokens of a text are in its order and are not empty.                *)
SqlTokenAt(sql, i) ==
  [kind |-> SqlLexeme(sql, i)[1], start |-> i, end |-> SqlLexeme(sql, i)[2],
   text |-> Normalized(sql, SqlLexeme(sql, i)[1], i, SqlLexeme(sql, i)[2])]
SqlTokens(sql) == {SqlTokenAt(sql, i) : i \in 1..Len(sql)}
SqlOrdered(tokens) ==
  /\ \A k \in 1..Len(tokens) : /\ tokens[k].start \in Nat /\ tokens[k].end \in Nat
                               /\ tokens[k].start < tokens[k].end
  /\ \A k \in 1..Len(tokens) : \A j \in 1..(k - 1) : tokens[j].end <= tokens[k].start
SqlReads(sql) ==
  {read \in [next : Nat \ {0}, tokens : Seq(SqlTokens(sql))] :
     /\ SqlOrdered(read.tokens)
     /\ \A k \in 1..Len(read.tokens) : read.tokens[k].end <= read.next}

LEMMA OneMoreSqlToken ==
  ASSUME NEW T, NEW sql \in Seq(T), NEW read \in SqlReads(sql)
  PROVE  TokenRound(sql, read) \in SqlReads(sql)
<1> DEFINE tokens == read.tokens
           m == Len(tokens)
           i == read.next
           lexeme == SqlLexeme(sql, i)
           token == SqlTokenAt(sql, i)
           more == Append(tokens, token)
<1>1. /\ read \in [next : Nat \ {0}, tokens : Seq(SqlTokens(sql))]
      /\ tokens \in Seq(SqlTokens(sql)) /\ i \in Nat /\ i >= 1 /\ m \in Nat /\ Len(sql) \in Nat
      /\ \A k \in 1..m : /\ tokens[k].start \in Nat /\ tokens[k].end \in Nat
                         /\ tokens[k].start < tokens[k].end /\ tokens[k].end <= i
      /\ \A k \in 1..m : \A j \in 1..(k - 1) : tokens[j].end <= tokens[k].start
  BY DEF SqlReads, SqlOrdered
<1>2. CASE i > Len(sql)
  BY <1>2 DEF TokenRound
<1>3. CASE i <= Len(sql)
  <2>1. i \in 1..Len(sql)
    BY <1>1, <1>3
  <2>2. lexeme[2] \in Nat /\ lexeme[2] > i
    BY <2>1, SqlLexemeMovesOn
  <2>3. TokenRound(sql, read) = [next |-> lexeme[2], tokens |-> IF lexeme[1] = "" THEN tokens ELSE more]
    <3>1. ~(i > Len(sql))
      BY <1>1, <1>3
    <3> QED BY <3>1, Zenon DEF TokenRound, SqlTokenAt
  <2>4. token \in SqlTokens(sql) /\ token.start = i /\ token.end = lexeme[2]
    BY <2>1 DEF SqlTokens, SqlTokenAt
  <2> HIDE DEF lexeme, token
  <2>5. more \in Seq(SqlTokens(sql)) /\ Len(more) = m + 1 /\ more[m + 1] = token
        /\ \A k \in 1..m : more[k] = tokens[k]
    BY <1>1, <2>4
  <2> HIDE DEF more
  <2>6. \A k \in 1..(m + 1) : k = m + 1 \/ k \in 1..m
    BY <1>1
  <2>7. \A k \in 1..(m + 1) : /\ more[k].start \in Nat /\ more[k].end \in Nat
                              /\ more[k].start < more[k].end /\ more[k].end <= lexeme[2]
    <3> SUFFICES ASSUME NEW k \in 1..(m + 1)
                 PROVE  /\ more[k].start \in Nat /\ more[k].end \in Nat
                        /\ more[k].start < more[k].end /\ more[k].end <= lexeme[2]
      OBVIOUS
    <3>1. CASE k = m + 1
      BY <1>1, <2>2, <2>4, <2>5, <3>1
    <3>2. CASE k \in 1..m
      <4>1. more[k] = tokens[k] /\ tokens[k].end <= i
        BY <1>1, <2>5, <3>2
      <4> QED BY <1>1, <2>2, <3>2, <4>1
    <3> QED BY <2>6, <3>1, <3>2
  <2>8. \A k \in 1..(m + 1) : \A j \in 1..(k - 1) : more[j].end <= more[k].start
    <3> SUFFICES ASSUME NEW k \in 1..(m + 1), NEW j \in 1..(k - 1)
                 PROVE  more[j].end <= more[k].start
      OBVIOUS
    <3>0. j \in 1..m /\ more[j] = tokens[j]
      BY <1>1, <2>5
    <3>1. CASE k = m + 1
      BY <1>1, <2>4, <2>5, <3>0, <3>1
    <3>2. CASE k \in 1..m
      <4>1. more[k] = tokens[k] /\ tokens[j].end <= tokens[k].start
        BY <1>1, <2>5, <3>2
      <4> QED BY <3>0, <4>1
    <3> QED BY <2>6, <3>1, <3>2
  <2>9. SqlOrdered(more)
    BY <2>5, <2>7, <2>8 DEF SqlOrdered
  <2>10. SqlOrdered(tokens) /\ \A k \in 1..m : tokens[k].end <= lexeme[2]
    BY <1>1, <2>2 DEF SqlOrdered
  <2>11. [next |-> lexeme[2], tokens |-> tokens] \in SqlReads(sql)
    <3> DEFINE x == [next |-> lexeme[2], tokens |-> tokens]
    <3>1. x \in [next : Nat \ {0}, tokens : Seq(SqlTokens(sql))] /\ x.tokens = tokens /\ x.next = lexeme[2]
      BY <1>1, <2>2
    <3> HIDE DEF x
    <3> QED BY <2>10, <3>1 DEF SqlReads, x
  <2>12. [next |-> lexeme[2], tokens |-> more] \in SqlReads(sql)
    <3> DEFINE x == [next |-> lexeme[2], tokens |-> more]
    <3>1. x \in [next : Nat \ {0}, tokens : Seq(SqlTokens(sql))] /\ x.tokens = more /\ x.next = lexeme[2]
      BY <1>1, <2>2, <2>5
    <3>2. \A k \in 1..Len(more) : more[k].end <= lexeme[2]
      BY <2>5, <2>7
    <3> HIDE DEF x
    <3> QED BY <2>9, <3>1, <3>2 DEF SqlReads, x
  <2> QED BY <2>3, <2>11, <2>12
<1> QED BY <1>1, <1>2, <1>3

LEMMA TokenizeSqlFacts ==
  ASSUME NEW T, NEW sql \in Seq(T)
  PROVE  TokenizeSql(sql) \in Seq(SqlTokens(sql)) /\ SqlOrdered(TokenizeSql(sql))
<1> DEFINE S == SqlReads(sql)
           count == Len(sql)
           begin == [next |-> 1, tokens |-> <<>>]
           step == [read \in S |-> TokenRound(sql, read)]
           steps == [n \in 1..count |-> step]
           IsLoop(f) == f = [n \in 0..count |-> IF n = 0 THEN begin ELSE TokenRound(sql, f[n - 1])]
           after == CHOOSE f : IsLoop(f)
<1>1. count \in Nat /\ begin \in S
  <2>1. begin \in [next : Nat \ {0}, tokens : Seq(SqlTokens(sql))] /\ begin.tokens = <<>>
        /\ Len(<<>>) = 0 /\ 1..0 = {}
    OBVIOUS
  <2> HIDE DEF begin
  <2> QED BY <2>1 DEF SqlReads, SqlOrdered
<1>2. step \in [S -> S] /\ \A read \in S : step[read] = TokenRound(sql, read)
  BY OneMoreSqlToken
<1>3. steps \in [1..count -> [S -> S]] /\ \A n \in 1..count : steps[n] = step
  <2> HIDE DEF step, S
  <2> QED BY <1>2
<1> HIDE DEF S, step, steps, begin
<1>4. \E f : IsLoop(f)
  <2>1. PICK f : Loops(f, count, S, step, begin)
    BY <1>1, <1>2, LoopExists
  <2>2. f \in [0..count -> S] /\ \A n \in 0..count : f[n] = IF n = 0 THEN begin ELSE step[f[n - 1]]
    BY <2>1 DEF Loops
  <2>3. ASSUME NEW n \in 0..count
        PROVE  f[n] = IF n = 0 THEN begin ELSE TokenRound(sql, f[n - 1])
    <3>1. n # 0 => f[n - 1] \in S
      BY <1>1, <2>2
    <3> QED BY <1>2, <2>2, <3>1
  <2>4. IsLoop(f)
    BY <2>2, <2>3
  <2> QED BY <2>4
<1>5. IsLoop(after)
  BY <1>4
<1>6. TokenizeSql(sql) = after[count].tokens
  BY DEF TokenizeSql, Rounds, begin
<1> HIDE DEF after
<1>7. /\ DOMAIN after = 0..count /\ after = [n \in DOMAIN after |-> after[n]] /\ after[0] = begin
      /\ \A n \in 1..count : after[n] = TokenRound(sql, after[n - 1])
  BY <1>1, <1>5
<1>8. Lists!Steps(after, count, S, begin, steps)
  <2>1. \A n \in 1..count : after[n - 1] \in S => after[n] = steps[n][after[n - 1]]
    BY <1>2, <1>3, <1>7
  <2> QED BY <1>1, <1>3, <1>7, <2>1, StepsStay
<1>9. after[count] \in S
  BY <1>1, <1>8 DEF Lists!Steps
<1> QED BY <1>6, <1>9 DEF S, SqlReads

-----------------------------------------------------------------------------
(* The first token of a segment is in no parentheses of it.                *)
DepthAfter(token, d) ==
  CASE Spells(token, "(") -> d + 1
    [] Spells(token, ")") /\ d > 0 -> d - 1
    [] OTHER -> d

LEMMA SegmentStartsOutside ==
  ASSUME NEW tokens, NEW start \in Nat, NEW end \in Nat, start <= end
  PROVE  TokenDepths(tokens, start, end)[start] = 0
<1> DEFINE count == end - start
           step(n) == [d \in Int |-> DepthAfter(tokens[start + n - 1], d)]
           steps == [n \in 1..count |-> step(n)]
           IsDepth(D) ==
             D = [i \in start..end |->
                   IF i = start THEN 0
                   ELSE CASE Spells(tokens[i - 1], "(") -> D[i - 1] + 1
                          [] Spells(tokens[i - 1], ")") /\ D[i - 1] > 0 -> D[i - 1] - 1
                          [] OTHER -> D[i - 1]]
           depth == CHOOSE D : IsDepth(D)
<1>1. count \in Nat
  OBVIOUS
<1>2. steps \in [1..count -> [Int -> Int]]
  <2>1. ASSUME NEW n \in 1..count PROVE step(n) \in [Int -> Int]
    <3>1. \A d \in Int : DepthAfter(tokens[start + n - 1], d) \in Int
      <4> SUFFICES ASSUME NEW d \in Int, NEW token PROVE DepthAfter(token, d) \in Int
        OBVIOUS
      <4> QED BY DEF DepthAfter, Spells
    <3> QED BY <3>1
  <2> HIDE DEF step
  <2> QED BY <2>1
<1>3. \A n \in 1..count : \A d \in Int : steps[n][d] = DepthAfter(tokens[start + n - 1], d)
  OBVIOUS
<1>4. PICK f : Lists!Steps(f, count, Int, 0, steps)
  <2> DEFINE S == Int
  <2>1. 0 \in S /\ steps \in [1..count -> [S -> S]]
    BY <1>2
  <2> HIDE DEF steps, count, S
  <2>2. \E f : Lists!Steps(f, count, S, 0, steps)
    BY <1>1, <2>1, Lists!Iterated
  <2> QED BY <2>2 DEF S
<1>5. f \in [0..count -> Int] /\ \A n \in 0..count : f[n] = IF n = 0 THEN 0 ELSE steps[n][f[n - 1]]
  BY <1>4 DEF Lists!Steps
<1> HIDE DEF steps
<1>6. \E D : IsDepth(D)
  <2> DEFINE D == [i \in start..end |-> f[i - start]]
  <2>1. ASSUME NEW i \in start..end, i # start
        PROVE  D[i] = DepthAfter(tokens[i - 1], D[i - 1])
    <3> DEFINE n == i - start
    <3>1. n \in 1..count /\ n - 1 \in 0..count /\ n \in 0..count /\ n # 0 /\ start + n - 1 = i - 1
      BY <2>1
    <3>2. D[i] = f[n] /\ D[i - 1] = f[n - 1]
      BY <2>1
    <3>3. f[n] = steps[n][f[n - 1]] /\ f[n - 1] \in Int
      BY <1>5, <3>1
    <3> HIDE DEF D, n
    <3> QED BY <1>3, <3>1, <3>2, <3>3
  <2>2. D[start] = 0
    BY <1>1, <1>5
  <2>3. D = [i \in start..end |-> D[i]]
    OBVIOUS
  <2> HIDE DEF D
  <2>4. D = [i \in start..end |-> IF i = start THEN 0 ELSE DepthAfter(tokens[i - 1], D[i - 1])]
    BY <2>1, <2>2, <2>3
  <2>5. IsDepth(D)
    BY <2>4 DEF DepthAfter
  <2> QED BY <2>5
<1>7. IsDepth(depth)
  BY <1>6
<1>8. TokenDepths(tokens, start, end) = depth
  BY DEF TokenDepths
<1> HIDE DEF depth
<1>9. depth[start] = 0
  BY <1>7
<1> QED BY <1>8, <1>9

(* What is known after some tokens of a segment, the first of them of a    *)
(* kind.                                                                   *)
Knowing(kind) ==
  [starts : Seq(Nat), kind : {kind} \cup {<<w>> : w \in Starters}, sourced : BOOLEAN]

LEMMA StarterFacts ==
  ASSUME NEW token
  PROVE  /\ StatementStarter(token) \in Starters \cup {NoSymbol}
         /\ StatementStarter(token) # NoSymbol =>
              /\ Plain(token) = <<StatementStarter(token)>> /\ token.text = Plain(token)
              /\ StatementStarter(token) \in Starters
<1>1. CASE Plain(token) \in {<<w>> : w \in Starters}
  <2>1. PICK w \in Starters : Plain(token) = <<w>>
    BY <1>1
  <2>2. token.text = <<w>>
    <3>1. <<>> # <<w>>
      OBVIOUS
    <3> QED BY <2>1, <3>1 DEF Plain
  <2>3. StatementStarter(token) = w
    BY <1>1, <2>2 DEF StatementStarter, NoSymbol
  <2> QED BY <2>1, <2>2, <2>3
<1>2. CASE Plain(token) \notin {<<w>> : w \in Starters}
  BY <1>2 DEF StatementStarter, NoSymbol
<1> QED BY <1>1, <1>2

(* A token starts a statement only if it is a starter, and then it is the  *)
(* last one so far.                                                        *)
LEMMA AdvanceFacts ==
  ASSUME NEW tokens, NEW kind, NEW seen \in Knowing(kind), NEW i \in Nat
  PROVE  LET starter == StatementStarter(tokens[i])
             next == Advance(tokens, seen, i)
         IN  /\ next \in Knowing(kind)
             /\ \/ next.starts = seen.starts
                \/ starter # NoSymbol /\ next.starts = Append(seen.starts, i)
             /\ (starter # NoSymbol /\ seen.kind = Plain(tokens[i]) /\ ~ContinuesSetExpression(tokens, i)) =>
                  next.starts = Append(seen.starts, i)
<1> DEFINE starter == StatementStarter(tokens[i])
           values == seen.kind = <<"insert">> /\ Plain(tokens[i]) = <<"values">>
           now == [seen EXCEPT !.sourced = @ \/ values]
           New == [starts |-> Append(seen.starts, i), kind |-> <<starter>>, sourced |-> FALSE]
           next == Advance(tokens, seen, i)
<1>1. /\ seen = [starts |-> seen.starts, kind |-> seen.kind, sourced |-> seen.sourced]
      /\ seen.starts \in Seq(Nat) /\ seen.sourced \in BOOLEAN
      /\ seen.kind \in {kind} \cup {<<w>> : w \in Starters}
  BY DEF Knowing
<1>2. values \in BOOLEAN
  OBVIOUS
<1>3. now \in Knowing(kind) /\ now.starts = seen.starts
  <2> HIDE DEF values
  <2>1. now = [starts |-> seen.starts, kind |-> seen.kind, sourced |-> seen.sourced \/ values]
    BY <1>1
  <2>2. (seen.sourced \/ values) \in BOOLEAN
    BY <1>2
  <2> QED BY <1>1, <2>1, <2>2 DEF Knowing
<1>4. starter # NoSymbol => starter \in Starters /\ Plain(tokens[i]) = <<starter>>
  BY StarterFacts
<1>5. starter # NoSymbol => New \in Knowing(kind) /\ New.starts = Append(seen.starts, i)
  <2> HAVE starter # NoSymbol
  <2>1. starter \in Starters
    BY <1>4
  <2> HIDE DEF starter
  <2>2. <<starter>> \in {<<w>> : w \in Starters}
    BY <2>1
  <2>3. Append(seen.starts, i) \in Seq(Nat)
    BY <1>1
  <2> QED BY <2>2, <2>3 DEF Knowing
<1>6. [now EXCEPT !.kind = <<"select">>] \in Knowing(kind)
      /\ [now EXCEPT !.kind = <<"select">>].starts = seen.starts
  <2>1. "select" \in Starters
    BY DEF Starters
  <2> HIDE DEF now
  <2> QED BY <1>3, <2>1 DEF Knowing
<1>7. [now EXCEPT !.sourced = TRUE] \in Knowing(kind)
      /\ [now EXCEPT !.sourced = TRUE].starts = seen.starts
  <2> HIDE DEF now
  <2> QED BY <1>3 DEF Knowing
<1> DEFINE joined == [now EXCEPT !.kind = <<"select">>]
           sourced == [now EXCEPT !.sourced = TRUE]
           continues == ContinuesSetExpression(tokens, i)
           other == CASE starter = "select" /\ seen.kind = <<"with">> -> joined
                      [] starter \in {"select", "exec", "execute"} /\ seen.kind = <<"insert">> /\ ~now.sourced ->
                           sourced
                      [] starter = "set" /\ seen.kind = <<"update">> -> now
                      [] seen.kind = <<"merge">> /\ starter \in {"select", "insert", "update", "delete", "set"} ->
                           now
                      [] OTHER -> New
<1>8. next = CASE starter = NoSymbol -> now
               [] starter # NoSymbol /\ seen.kind = <<>> -> New
               [] starter = "select" /\ seen.kind # <<>> /\ continues -> now
               [] OTHER -> other
  BY DEF Advance, NoSymbol
<1> HIDE DEF next, joined, sourced, now, New, continues
<1>9. other \in {joined, sourced, now, New}
  OBVIOUS
<1>10. (starter # NoSymbol /\ seen.kind = Plain(tokens[i])) => other = New /\ seen.kind # <<>>
  <2> HAVE starter # NoSymbol /\ seen.kind = Plain(tokens[i])
  <2>1. seen.kind = <<starter>> /\ starter \in Starters
    BY <1>4
  <2> HIDE DEF starter
  <2>2. seen.kind # <<>> /\ seen.kind[1] = starter
    BY <2>1
  <2>3. seen.kind # <<>> /\ \A v : seen.kind = <<v>> => v = starter
    BY <2>2
  <2>4. /\ ~(starter = "select" /\ seen.kind = <<"with">>)
        /\ ~(starter \in {"select", "exec", "execute"} /\ seen.kind = <<"insert">>)
        /\ ~(starter = "set" /\ seen.kind = <<"update">>)
        /\ ~(seen.kind = <<"merge">> /\ starter \in {"select", "insert", "update", "delete", "set"})
    BY <2>3
  <2> HIDE DEF starter
  <2> QED BY <2>3, <2>4
<1>11. starter = NoSymbol => next = now
  <2> HIDE DEF other, starter
  <2> QED BY <1>8
<1>12. starter # NoSymbol => next \in {now, New, other}
  <2> HIDE DEF other, starter
  <2> QED BY <1>8
<1>13. (starter # NoSymbol /\ ~continues /\ other = New) => next = New
  <2> HIDE DEF other, starter
  <2> QED BY <1>8
<1>14. next \in {joined, sourced, now} \/ (starter # NoSymbol /\ next = New)
  <2> HIDE DEF other, starter
  <2> QED BY <1>9, <1>11, <1>12
<1>15. (starter # NoSymbol /\ seen.kind = Plain(tokens[i]) /\ ~continues) => next = New
  BY <1>10, <1>13
<1>16. \A x \in {joined, sourced, now} : x \in Knowing(kind) /\ x.starts = seen.starts
  BY <1>3, <1>6, <1>7 DEF joined, sourced
<1> QED
  <2> HIDE DEF starter
  <2> QED BY <1>5, <1>14, <1>15, <1>16 DEF next, continues, starter

(* Starts in their order, all of the segment.                              *)
InSegment(starts, start, end) ==
  /\ starts \in Seq(start..(end - 1))
  /\ \A k \in 1..Len(starts) : \A j \in 1..(k - 1) : starts[j] < starts[k]

LEMMA OneMoreStart ==
  ASSUME NEW start \in Nat, NEW end \in Nat, NEW starts, InSegment(starts, start, end),
         NEW i \in start..(end - 1), \A k \in 1..Len(starts) : starts[k] < i
  PROVE  LET more == Append(starts, i)
         IN  /\ InSegment(more, start, end)
             /\ \A k \in 1..Len(more) : more[k] < i + 1
             /\ \E k \in 1..Len(more) : more[k] = i
             /\ \A k \in 1..Len(starts) : k \in 1..Len(more) /\ more[k] = starts[k]
<1> DEFINE m == Len(starts)
           more == Append(starts, i)
<1>1. /\ starts \in Seq(start..(end - 1)) /\ m \in Nat /\ i \in Nat
      /\ \A k \in 1..m : \A j \in 1..(k - 1) : starts[j] < starts[k]
      /\ \A k \in 1..m : starts[k] < i /\ starts[k] \in start..(end - 1)
  BY DEF InSegment
<1>2. more \in Seq(start..(end - 1)) /\ Len(more) = m + 1 /\ more[m + 1] = i
      /\ \A k \in 1..m : k \in 1..(m + 1) /\ more[k] = starts[k]
  BY <1>1
<1> HIDE DEF m, more
<1>3. \A k \in 1..(m + 1) : k = m + 1 \/ k \in 1..m
  BY <1>1
<1>4. ASSUME NEW k \in 1..(m + 1)
      PROVE  more[k] < i + 1 /\ \A j \in 1..(k - 1) : more[j] < more[k]
  <2>1. \A j \in 1..(k - 1) : j \in 1..m
    BY <1>1
  <2>2. CASE k = m + 1
    BY <1>1, <1>2, <2>1, <2>2
  <2>3. CASE k \in 1..m
    <3>1. more[k] = starts[k] /\ starts[k] < i /\ starts[k] \in Int
      BY <1>1, <1>2, <2>3
    <3>2. ASSUME NEW j \in 1..(k - 1) PROVE more[j] < more[k]
      <4>1. more[j] = starts[j] /\ starts[j] < starts[k]
        BY <1>1, <1>2, <2>1, <2>3
      <4> QED BY <3>1, <4>1
    <3> QED BY <1>1, <3>1, <3>2
  <2> QED BY <1>3, <2>2, <2>3
<1>5. m + 1 \in 1..(m + 1)
  BY <1>1
<1> QED BY <1>2, <1>4, <1>5 DEF InSegment, m, more

(* What is true after n tokens of a segment.                               *)
StartsSoFar(tokens, start, end, seen, n) ==
  /\ InSegment(seen.starts, start, end)
  /\ n = 0 => /\ seen.kind = Plain(tokens[start])
              /\ seen.starts = <<>>
                 \/ (StatementStarter(tokens[start]) = NoSymbol /\ seen.starts = <<start>>)
  /\ n > 0 => /\ \A k \in 1..Len(seen.starts) : seen.starts[k] < start + n
              /\ (StatementStarter(tokens[start]) # NoSymbol /\ ~ContinuesSetExpression(tokens, start)) =>
                   \E k \in 1..Len(seen.starts) : seen.starts[k] = start

LEMMA OneMoreToRead ==
  ASSUME NEW tokens, NEW start \in Nat, NEW end \in Nat, NEW n \in Nat, start + n < end,
         NEW depth, n = 0 => depth = 0,
         NEW kind, NEW seen \in Knowing(kind), StartsSoFar(tokens, start, end, seen, n)
  PROVE  StartsSoFar(tokens, start, end,
                     IF depth # 0 THEN seen ELSE Advance(tokens, seen, start + n), n + 1)
<1> DEFINE i == start + n
           starter == StatementStarter(tokens[i])
           first == StatementStarter(tokens[start]) # NoSymbol /\ ~ContinuesSetExpression(tokens, start)
           read == IF depth # 0 THEN seen ELSE Advance(tokens, seen, i)
           starts == seen.starts
           more == Append(starts, i)
<1>1. /\ InSegment(starts, start, end)
      /\ n = 0 => /\ seen.kind = Plain(tokens[start])
                  /\ starts = <<>> \/ (StatementStarter(tokens[start]) = NoSymbol /\ starts = <<start>>)
      /\ n > 0 => /\ \A k \in 1..Len(starts) : starts[k] < i
                  /\ first => \E k \in 1..Len(starts) : starts[k] = start
  BY DEF StartsSoFar
<1>2. i \in start..(end - 1) /\ i \in Nat /\ i + 1 = start + (n + 1) /\ n + 1 > 0 /\ n + 1 # 0
      /\ (n = 0 => i = start)
  OBVIOUS
<1>3. \/ read.starts = starts
      \/ starter # NoSymbol /\ read.starts = more
  BY <1>2, AdvanceFacts
<1>4. (n = 0 /\ first) => read.starts = more
  <2> HAVE n = 0 /\ first
  <2>1. read = Advance(tokens, seen, i) /\ seen.kind = Plain(tokens[i]) /\ starter # NoSymbol
        /\ ~ContinuesSetExpression(tokens, i)
    BY <1>1, <1>2
  <2> QED BY <1>2, <2>1, AdvanceFacts
<1> HIDE DEF starter, read, first, starts
<1>5. \A k \in 1..Len(starts) : starts[k] < i + 1
  <2>1. starts \in Seq(start..(end - 1))
    BY <1>1 DEF InSegment
  <2>2. CASE n = 0
    <3>1. \A k \in 1..Len(starts) : starts[k] = start
      BY <1>1, <2>2
    <3> QED BY <1>2, <2>2, <3>1
  <2>3. CASE n > 0
    <3>1. \A k \in 1..Len(starts) : starts[k] \in start..(end - 1)
      BY <2>1
    <3> QED BY <1>1, <1>2, <2>3, <3>1
  <2> QED BY <2>2, <2>3
<1>6. CASE starter # NoSymbol /\ read.starts = more
  <2>1. \A k \in 1..Len(starts) : starts[k] < i
    <3>1. CASE n = 0
      <4>1. starts = <<>>
        BY <1>1, <1>2, <1>6, <3>1 DEF starter
      <4> QED BY <4>1
    <3> QED BY <1>1, <3>1
  <2>2. /\ InSegment(more, start, end)
        /\ \A k \in 1..Len(more) : more[k] < i + 1
        /\ \E k \in 1..Len(more) : more[k] = i
        /\ \A k \in 1..Len(starts) : k \in 1..Len(more) /\ more[k] = starts[k]
    BY <1>1, <1>2, <2>1, OneMoreStart
  <2> HIDE DEF more
  <2>3. first => \E k \in 1..Len(more) : more[k] = start
    <3>1. CASE n = 0
      BY <1>2, <2>2, <3>1
    <3>2. CASE n > 0
      BY <1>1, <2>2, <3>2
    <3> QED BY <3>1, <3>2
  <2> HIDE DEF i
  <2> QED BY <1>2, <1>6, <2>2, <2>3 DEF StartsSoFar, first, read, i
<1>7. CASE read.starts = starts
  <2>1. first => \E k \in 1..Len(starts) : starts[k] = start
    <3>1. CASE n = 0
      <4> HAVE first
      <4>1. starts = more
        BY <1>4, <1>7, <3>1
      <4>2. starts \in Seq(start..(end - 1))
        BY <1>1 DEF InSegment
      <4>3. Len(starts) \in Nat /\ Len(more) = Len(starts) + 1
        BY <4>2
      <4> QED BY <4>1, <4>3
    <3> QED BY <1>1, <3>1
  <2> QED BY <1>1, <1>2, <1>5, <1>7, <2>1 DEF StartsSoFar, first, read, i
<1> QED BY <1>3, <1>6, <1>7 DEF read, i

LEMMA ImplicitStartsFacts ==
  ASSUME NEW tokens, NEW start \in Nat, NEW end \in Nat, start < end
  PROVE  LET starts == ImplicitStatementStarts(tokens, start, end)
         IN  /\ InSegment(starts, start, end)
             /\ (StatementStarter(tokens[start]) # NoSymbol /\ ~ContinuesSetExpression(tokens, start)) =>
                  \E k \in 1..Len(starts) : starts[k] = start
<1> DEFINE depths == TokenDepths(tokens, start, end)
           kind == Plain(tokens[start])
           count == end - start
           S == Knowing(kind)
           begin == [starts |-> IF kind = <<"with">> THEN <<start>> ELSE <<>>, kind |-> kind, sourced |-> FALSE]
           Read(n, x) == IF depths[start + n - 1] # 0 THEN x ELSE Advance(tokens, x, start + n - 1)
           steps == [n \in 1..count |-> [x \in S |-> Read(n, x)]]
           IsSeen(f) == f = [n \in 0..count |->
                              IF n = 0 THEN begin
                              ELSE IF depths[start + n - 1] # 0 THEN f[n - 1]
                              ELSE Advance(tokens, f[n - 1], start + n - 1)]
           seen == CHOOSE f : IsSeen(f)
<1>1. count \in Nat /\ count > 0
  OBVIOUS
<1>2. begin \in S /\ StartsSoFar(tokens, start, end, begin, 0)
  <2>1. <<start>> \in Seq(Nat) /\ <<>> \in Seq(Nat)
    OBVIOUS
  <2>2. begin \in S
    BY <2>1 DEF Knowing
  <2>3. InSegment(<<>>, start, end)
    BY DEF InSegment
  <2>4. InSegment(<<start>>, start, end)
    <3>1. start \in start..(end - 1)
      OBVIOUS
    <3>2. <<start>> \in Seq(start..(end - 1)) /\ Len(<<start>>) = 1 /\ 1..(1 - 1) = {}
      BY <3>1
    <3> QED BY <3>2 DEF InSegment
  <2>5. kind = <<"with">> => StatementStarter(tokens[start]) = NoSymbol
    <3> HAVE kind = <<"with">>
    <3>1. "with" \notin Starters
      BY DEF Starters
    <3>2. \A w \in Starters : <<w>> # <<"with">>
      <4> SUFFICES ASSUME NEW w \in Starters, <<w>> = <<"with">> PROVE FALSE
        OBVIOUS
      <4>1. w = "with"
        BY <<w>>[1] = w, <<"with">>[1] = "with"
      <4> QED BY <3>1, <4>1
    <3> QED BY <3>2, StarterFacts
  <2>6. begin.kind = kind /\ begin.starts = IF kind = <<"with">> THEN <<start>> ELSE <<>>
    OBVIOUS
  <2> HIDE DEF begin
  <2> QED BY <2>2, <2>3, <2>4, <2>5, <2>6 DEF StartsSoFar
<1>3. steps \in [1..count -> [S -> S]]
  <2>1. ASSUME NEW n \in 1..count PROVE [x \in S |-> Read(n, x)] \in [S -> S]
    <3>1. ASSUME NEW x \in S PROVE Read(n, x) \in S
      <4>1. start + n - 1 \in Nat
        OBVIOUS
      <4> HIDE DEF depths, kind
      <4> QED BY <4>1, AdvanceFacts
    <3> HIDE DEF Read, S
    <3> QED BY <3>1
  <2> HIDE DEF Read, S
  <2> QED BY <2>1
<1>4. \A n \in 1..count : \A x \in S : steps[n][x] = Read(n, x)
  OBVIOUS
<1>5. PICK f : Lists!Steps(f, count, S, begin, steps)
  <2> HIDE DEF steps, count, S, begin
  <2> QED BY <1>1, <1>2, <1>3, Lists!Iterated
<1>6. f \in [0..count -> S] /\ \A n \in 0..count : f[n] = IF n = 0 THEN begin ELSE steps[n][f[n - 1]]
  BY <1>5 DEF Lists!Steps
<1> HIDE DEF steps, S, begin, depths, count
<1>7. IsSeen(f)
  <2>1. ASSUME NEW n \in 0..count PROVE f[n] = IF n = 0 THEN begin ELSE Read(n, f[n - 1])
    <3>1. n = 0 \/ (n \in 1..count /\ n - 1 \in 0..count)
      BY <1>1
    <3> QED BY <1>4, <1>6, <3>1
  <2> QED BY <1>6, <2>1
<1>8. IsSeen(seen)
  BY <1>7
<1>9. ImplicitStatementStarts(tokens, start, end) = seen[count].starts
  BY DEF ImplicitStatementStarts, begin, depths, count
<1> HIDE DEF seen
<1>10. /\ DOMAIN seen = 0..count /\ seen = [n \in DOMAIN seen |-> seen[n]] /\ seen[0] = begin
       /\ \A n \in 1..count : seen[n] = Read(n, seen[n - 1])
  <2>1. seen = [n \in 0..count |-> IF n = 0 THEN begin ELSE Read(n, seen[n - 1])]
    BY <1>8
  <2> HIDE DEF Read
  <2>2. DOMAIN seen = 0..count /\ \A n \in 0..count : seen[n] = IF n = 0 THEN begin ELSE Read(n, seen[n - 1])
    BY <2>1
  <2>3. seen = [n \in 0..count |-> seen[n]]
    BY <2>1
  <2>4. 0 \in 0..count /\ \A n \in 1..count : n \in 0..count /\ n # 0
    BY <1>1
  <2> QED BY <2>2, <2>3, <2>4
<1>11. Lists!Steps(seen, count, S, begin, steps)
  <2>1. \A n \in 1..count : seen[n - 1] \in S => seen[n] = steps[n][seen[n - 1]]
    BY <1>4, <1>10
  <2> HIDE DEF Read
  <2> QED BY <1>1, <1>2, <1>3, <1>10, <2>1, StepsStay
<1>12. seen \in [0..count -> S]
  BY <1>11 DEF Lists!Steps
<1> DEFINE good == {n \in 0..count : StartsSoFar(tokens, start, end, seen[n], n)}
<1>13. 0 \in good
  BY <1>1, <1>2, <1>10
<1>14. ASSUME NEW n \in 0..(count - 1), n \in good
       PROVE  n + 1 \in good
  <2>1. n + 1 \in 1..count /\ (n + 1) - 1 = n /\ n \in Nat /\ start + n < end /\ start + (n + 1) - 1 = start + n
        /\ n + 1 \in 0..count /\ n \in 0..count
    BY <1>1 DEF count
  <2>2. seen[n + 1] = IF depths[start + n] # 0 THEN seen[n] ELSE Advance(tokens, seen[n], start + n)
    BY <1>10, <2>1
  <2>3. n = 0 => depths[start + n] = 0
    BY SegmentStartsOutside DEF depths
  <2>4. seen[n] \in Knowing(kind) /\ StartsSoFar(tokens, start, end, seen[n], n)
    BY <1>12, <1>14, <2>1 DEF S
  <2>5. StartsSoFar(tokens, start, end, seen[n + 1], n + 1)
    <3> DEFINE depth == depths[start + n]
               x == seen[n]
    <3>1. StartsSoFar(tokens, start, end, IF depth # 0 THEN x ELSE Advance(tokens, x, start + n), n + 1)
      <4>1. (n = 0 => depth = 0) /\ x \in Knowing(kind) /\ StartsSoFar(tokens, start, end, x, n)
        BY <2>3, <2>4
      <4> HIDE DEF depth, x, kind
      <4> QED BY <2>1, <4>1, OneMoreToRead
    <3> QED BY <2>2, <3>1
  <2> QED BY <2>1, <2>5
<1>15. count \in good
  <2> HIDE DEF good
  <2> QED BY <1>1, <1>13, <1>14, Lists!Counting
<1>16. StartsSoFar(tokens, start, end, seen[count], count)
  BY <1>15
<1> QED BY <1>1, <1>9, <1>16 DEF StartsSoFar

-----------------------------------------------------------------------------
(* Tokens between two boundaries, and no boundary among them.              *)
IsSegment(tokens, first, last) ==
  /\ first \in 1..Len(tokens) /\ last \in (first + 1)..(Len(tokens) + 1)
  /\ first = 1 \/ IsExplicitBoundary(tokens[first - 1])
  /\ last = Len(tokens) + 1 \/ IsExplicitBoundary(tokens[last])
  /\ \A i \in first..(last - 1) : ~IsExplicitBoundary(tokens[i])

(* A statement reaches from a start of a segment to the next one.          *)
IsStatement(s, first, last, starts) ==
  /\ s = [start |-> s.start, end |-> s.end]
  /\ s.start = first \/ \E k \in 1..Len(starts) : starts[k] = s.start
  /\ s.end = Min({c \in {first} \cup Range(starts) : c > s.start} \cup {last})

LEMMA StatementIsInASegment ==
  ASSUME NEW R, NEW tokens \in Seq(R), NEW s \in DocumentStatementTokenRanges(tokens)
  PROVE  \E first, last :
           /\ IsSegment(tokens, first, last)
           /\ IsStatement(s, first, last, ImplicitStatementStarts(tokens, first, last))
<1> DEFINE n == Len(tokens)
           bounds == {0, n + 1} \cup {i \in DOMAIN tokens : IsExplicitBoundary(tokens[i])}
           Next(b) == Min({c \in bounds : c > b})
           Segments == {[start |-> b + 1, end |-> Next(b)] : b \in bounds \ {n + 1}}
           StartsOf(g) == {g.start} \cup Range(ImplicitStatementStarts(tokens, g.start, g.end))
           Of(g) == {[start |-> b, end |-> Min({c \in StartsOf(g) : c > b} \cup {g.end})] : b \in StartsOf(g)}
<1>1. n \in Nat /\ DOMAIN tokens = 1..n
  OBVIOUS
<1>2. s \in UNION {Of(g) : g \in {t \in Segments : t.start < t.end}}
  BY DEF DocumentStatementTokenRanges
<1>3. PICK g \in Segments : g.start < g.end /\ s \in Of(g)
  <2> HIDE DEF Segments, Of
  <2> QED BY <1>2
<1>4. PICK b \in bounds \ {n + 1} : g = [start |-> b + 1, end |-> Next(b)]
  <2> HIDE DEF Next
  <2> QED BY <1>3
<1>5. b \in Nat /\ b <= n /\ (b = 0 \/ (b \in 1..n /\ IsExplicitBoundary(tokens[b])))
  BY <1>1, <1>4
<1>6. Next(b) \in bounds /\ Next(b) > b /\ \A c \in bounds : c > b => Next(b) <= c
  <2> DEFINE later == {c \in bounds : c > b}
  <2>1. later \in SUBSET Nat /\ n + 1 \in later
    BY <1>1, <1>5
  <2> HIDE DEF later
  <2>2. Min(later) \in later /\ \A c \in later : Min(later) <= c
    BY <2>1, MinIsLeast
  <2> QED BY <2>2 DEF later
<1> DEFINE first == b + 1
           last == Next(b)
           starts == ImplicitStatementStarts(tokens, first, last)
<1>7. first < last /\ g.start = first /\ g.end = last
  BY <1>3, <1>4
<1> HIDE DEF Next
<1>8. last \in Nat /\ last <= n + 1 /\ (last = n + 1 \/ (last \in 1..n /\ IsExplicitBoundary(tokens[last])))
  BY <1>1, <1>5, <1>6
<1>9. \A i \in first..(last - 1) : ~IsExplicitBoundary(tokens[i])
  <2> SUFFICES ASSUME NEW i \in first..(last - 1), IsExplicitBoundary(tokens[i]) PROVE FALSE
    OBVIOUS
  <2>1. i \in 1..n /\ i > b /\ i < last
    BY <1>1, <1>5, <1>8
  <2>2. i \in bounds
    BY <1>1, <2>1
  <2> QED BY <1>6, <1>8, <2>1, <2>2
<1>10. IsSegment(tokens, first, last)
  <2>1. first \in 1..n /\ last \in (first + 1)..(n + 1) /\ first - 1 = b /\ (b = 0 => first = 1)
    BY <1>1, <1>5, <1>7, <1>8
  <2> HIDE DEF first, last
  <2> QED BY <1>5, <1>8, <1>9, <2>1 DEF IsSegment
<1>11. PICK a \in {first} \cup Range(starts) :
         s = [start |-> a, end |-> Min({c \in {first} \cup Range(starts) : c > a} \cup {last})]
  <2> HIDE DEF first, last
  <2> QED BY <1>3, <1>7 DEF Of, StartsOf
<1>12. IsStatement(s, first, last, starts)
  <2> HIDE DEF first, last, starts
  <2>1. s = [start |-> s.start, end |-> s.end]
        /\ s.start = a /\ s.end = Min({c \in {first} \cup Range(starts) : c > a} \cup {last})
    <3> DEFINE e == Min({c \in {first} \cup Range(starts) : c > a} \cup {last})
    <3> HIDE DEF e
    <3>1. s = [start |-> a, end |-> e]
      BY <1>11 DEF e
    <3> QED BY <3>1 DEF e
  <2>2. a = first \/ \E k \in 1..Len(starts) : starts[k] = a
    <3>1. DOMAIN starts = 1..Len(starts)
      <4>1. first \in Nat /\ last \in Nat /\ first < last
        BY <1>5, <1>7, <1>8 DEF first
      <4>2. starts \in Seq(first..(last - 1))
        BY <4>1, ImplicitStartsFacts DEF starts, InSegment
      <4> QED BY <4>2
    <3> QED BY <1>11, <3>1 DEF Range
  <2> QED BY <2>1, <2>2 DEF IsStatement
<1> QED BY <1>10, <1>12

(* A cursor in a statement is after what is before the statement, and      *)
(* before what is after it.                                                *)
CursorSplits(tokens, cursor, p, q) ==
  /\ \A i \in 1..Len(tokens) : i <= p => tokens[i].start < cursor
  /\ \A i \in 1..Len(tokens) : i < p => tokens[i].end <= cursor
  /\ \A i \in 1..Len(tokens) : i >= q => tokens[i].start >= cursor /\ tokens[i].end > cursor

LEMMA CursorInAStatement ==
  ASSUME NEW R, NEW tokens \in Seq(R), SqlOrdered(tokens),
         NEW p \in 1..Len(tokens), NEW q \in (p + 1)..(Len(tokens) + 1), NEW cursor \in Nat,
         tokens[p].start < cursor, cursor <= tokens[q - 1].end
  PROVE  CursorSplits(tokens, cursor, p, q)
<1> DEFINE n == Len(tokens)
<1>1. /\ n \in Nat /\ p \in Nat /\ q \in Nat /\ q - 1 \in 1..n
      /\ \A k \in 1..n : tokens[k].start \in Nat /\ tokens[k].end \in Nat /\ tokens[k].start < tokens[k].end
      /\ \A k \in 1..n : \A j \in 1..(k - 1) : tokens[j].end <= tokens[k].start
  BY DEF SqlOrdered
<1> HIDE DEF n
<1>2. ASSUME NEW i \in 1..n, i < p PROVE tokens[i].end <= cursor /\ tokens[i].start < cursor
  <2>1. i \in 1..(p - 1)
    BY <1>1, <1>2
  <2>2. tokens[i].end <= tokens[p].start
    BY <1>1, <2>1 DEF n
  <2>3. tokens[p].start \in Nat /\ tokens[i].end \in Nat /\ tokens[i].start \in Nat /\ tokens[i].start < tokens[i].end
    BY <1>1 DEF n
  <2> QED BY <2>2, <2>3
<1>3. ASSUME NEW i \in 1..n, i >= q PROVE tokens[i].start >= cursor /\ tokens[i].end > cursor
  <2>1. q - 1 \in 1..(i - 1)
    BY <1>1, <1>3
  <2>2. tokens[q - 1].end <= tokens[i].start
    BY <1>1, <2>1
  <2>3. tokens[q - 1].end \in Nat /\ tokens[i].end \in Nat /\ tokens[i].start \in Nat /\ tokens[i].start < tokens[i].end
    BY <1>1
  <2> QED BY <2>2, <2>3
<1>4. \A i \in 1..n : i <= p => i < p \/ i = p
  BY <1>1
<1> QED BY <1>2, <1>3, <1>4 DEF CursorSplits, n

(* The nearest of some places before and after.                            *)
LEMMA NearestBefore ==
  ASSUME NEW low \in Nat, NEW first \in Nat, low <= first, NEW B \in SUBSET (low..(first - 1))
  PROVE  LET x == Max({low} \cup {i + 1 : i \in B})
         IN  x \in low..first /\ (x = low \/ x - 1 \in B) /\ \A i \in B : i < x
<1> DEFINE ends == {low} \cup {i + 1 : i \in B}
           x == Max(ends)
<1>1. ends \in SUBSET (0..first) /\ ends # {} /\ ends \subseteq low..first
  OBVIOUS
<1>2. x \in ends /\ \A e \in ends : e <= x
  <2> HIDE DEF ends
  <2> QED BY <1>1, MaxIsGreatest
<1> HIDE DEF x
<1>3. x \in low..first
  BY <1>1, <1>2
<1>4. x = low \/ x - 1 \in B
  BY <1>2
<1>5. ASSUME NEW i \in B PROVE i < x
  <2>1. i + 1 \in ends /\ i \in Nat
    OBVIOUS
  <2>2. i + 1 <= x
    BY <1>2, <2>1
  <2> QED BY <1>3, <2>1, <2>2
<1> QED BY <1>3, <1>4, <1>5 DEF x

LEMMA NearestAfter ==
  ASSUME NEW high \in Nat, NEW last \in Nat, last <= high, NEW B \in SUBSET (last..(high - 1))
  PROVE  LET x == Min({high} \cup B)
         IN  x \in last..high /\ (x = high \/ x \in B) /\ \A i \in B : x <= i
<1> DEFINE begins == {high} \cup B
<1>1. begins \in SUBSET Nat /\ begins # {} /\ begins \subseteq last..high
  OBVIOUS
<1>2. Min(begins) \in begins /\ \A e \in begins : Min(begins) <= e
  <2> HIDE DEF begins
  <2> QED BY <1>1, MinIsLeast
<1> QED BY <1>1, <1>2

(* The batch of the cursor is the one that the segment is in.              *)
LEMMA BatchOfASegment ==
  ASSUME NEW R, NEW tokens \in Seq(R), SqlOrdered(tokens), NEW first, NEW last, IsSegment(tokens, first, last),
         NEW p \in first..(last - 1), NEW q \in (p + 1)..last, NEW cursor \in Nat,
         CursorSplits(tokens, cursor, p, q)
  PROVE  LET batch == BatchTokenRangeAtCursor(tokens, cursor)
         IN  /\ batch = [start |-> batch.start, end |-> batch.end]
             /\ batch.start \in 1..first /\ batch.end \in last..(Len(tokens) + 1)
             /\ batch.start = 1 \/ IsBatchSeparator(tokens[batch.start - 1])
             /\ batch.end = Len(tokens) + 1 \/ IsBatchSeparator(tokens[batch.end])
             /\ \A i \in batch.start..(batch.end - 1) : ~IsBatchSeparator(tokens[i])
<1> DEFINE n == Len(tokens)
           separators == {i \in DOMAIN tokens : IsBatchSeparator(tokens[i])}
           before == {i \in separators : i < first}
           after == {i \in separators : i >= last}
           start == Max({1} \cup {i + 1 : i \in before})
           end == Min({n + 1} \cup after)
           batch == BatchTokenRangeAtCursor(tokens, cursor)
<1>1. /\ n \in Nat /\ DOMAIN tokens = 1..n /\ separators \subseteq 1..n
      /\ first \in 1..n /\ last \in (first + 1)..(n + 1)
  BY DEF IsSegment
<1>0. \A k \in 1..n : tokens[k].start \in Nat /\ tokens[k].end \in Nat
  BY DEF SqlOrdered
<1>2. p \in 1..n /\ p >= first /\ q > p /\ q <= last
  BY <1>1
<1>3. \A i \in separators : i < first \/ i >= last
  <2>1. \A i \in first..(last - 1) : ~IsBatchSeparator(tokens[i])
    BY DEF IsSegment, IsExplicitBoundary
  <2> QED BY <1>1, <2>1
<1>4. /\ \A i \in 1..n : i <= p => tokens[i].start < cursor
      /\ \A i \in 1..n : i < p => tokens[i].end <= cursor
      /\ \A i \in 1..n : i >= q => tokens[i].start >= cursor /\ tokens[i].end > cursor
  BY DEF CursorSplits
<1>5. {i \in DOMAIN tokens : IsBatchSeparator(tokens[i]) /\ tokens[i].end <= cursor} = before
  <2>1. ASSUME NEW i \in separators PROVE i < first <=> tokens[i].end <= cursor
    <3>1. CASE i < first
      BY <1>1, <1>2, <1>4, <3>1
    <3>2. CASE i >= last
      <4>1. tokens[i].end > cursor
        BY <1>1, <1>2, <1>4, <3>2
      <4>2. tokens[i].end \in Nat
        BY <1>0, <1>1
      <4> QED BY <1>1, <3>2, <4>1, <4>2
    <3> QED BY <1>3, <3>1, <3>2
  <2> QED BY <2>1
<1>6. {i \in DOMAIN tokens : IsBatchSeparator(tokens[i]) /\ tokens[i].start >= cursor} = after
  <2>1. ASSUME NEW i \in separators PROVE i >= last <=> tokens[i].start >= cursor
    <3>1. CASE i < first
      <4>1. tokens[i].start < cursor /\ tokens[i].start \in Nat
        BY <1>0, <1>1, <1>2, <1>4, <3>1
      <4> QED BY <1>1, <3>1, <4>1
    <3>2. CASE i >= last
      BY <1>1, <1>2, <1>4, <3>2
    <3> QED BY <1>3, <3>1, <3>2
  <2> QED BY <2>1
<1>7. batch = [start |-> start, end |-> end]
  BY <1>5, <1>6 DEF BatchTokenRangeAtCursor
<1>8. start \in 1..first /\ (start = 1 \/ start - 1 \in before) /\ \A i \in before : i < start
  <2>1. before \in SUBSET (1..(first - 1)) /\ 1 \in Nat /\ first \in Nat /\ 1 <= first
    BY <1>1
  <2> HIDE DEF before
  <2> QED BY <2>1, NearestBefore
<1>9. end \in last..(n + 1) /\ (end = n + 1 \/ end \in after) /\ \A i \in after : end <= i
  <2>1. after \in SUBSET (last..((n + 1) - 1)) /\ last \in Nat /\ n + 1 \in Nat /\ last <= n + 1
    BY <1>1
  <2> HIDE DEF after, n
  <2> QED BY <2>1, NearestAfter
<1> HIDE DEF start, end
<1>10. \A i \in start..(end - 1) : ~IsBatchSeparator(tokens[i])
  <2> SUFFICES ASSUME NEW i \in start..(end - 1), IsBatchSeparator(tokens[i]) PROVE FALSE
    OBVIOUS
  <2>1. i \in separators
    BY <1>1, <1>8, <1>9
  <2>2. i \in before \/ i \in after
    BY <1>3, <2>1
  <2>3. start \in Nat /\ end \in Nat /\ i >= start /\ i < end
    BY <1>1, <1>8, <1>9
  <2> HIDE DEF before, after
  <2> QED BY <1>1, <1>8, <1>9, <2>2, <2>3
<1>11. (start = 1 \/ IsBatchSeparator(tokens[start - 1])) /\ (end = n + 1 \/ IsBatchSeparator(tokens[end]))
  BY <1>8, <1>9
<1> HIDE DEF batch
<1>12. batch.start = start /\ batch.end = end
  BY <1>7
<1> QED BY <1>7, <1>8, <1>9, <1>10, <1>11, <1>12 DEF batch

SegmentAt(tokens, cursor, first, last) ==
  LET batch  == BatchTokenRangeAtCursor(tokens, cursor)
      bounds == {i \in batch.start..(batch.end - 1) : IsExplicitBoundary(tokens[i])}
  IN  /\ Max({batch.start} \cup {i + 1 : i \in {b \in bounds : tokens[b].end <= cursor}}) = first
      /\ Min({batch.end} \cup {b \in bounds : tokens[b].start >= cursor}) = last

(* The segment of the cursor is the one that its statement is in.          *)
LEMMA SegmentOfACursor ==
  ASSUME NEW R, NEW tokens \in Seq(R), SqlOrdered(tokens),
         NEW first, NEW last, IsSegment(tokens, first, last),
         NEW p \in first..(last - 1), NEW q \in (p + 1)..last, NEW cursor \in Nat,
         CursorSplits(tokens, cursor, p, q)
  PROVE  SegmentAt(tokens, cursor, first, last)
<1> DEFINE n == Len(tokens)
           batch == BatchTokenRangeAtCursor(tokens, cursor)
           low == batch.start
           high == batch.end
           bounds == {i \in low..(high - 1) : IsExplicitBoundary(tokens[i])}
           before == {b \in bounds : b < first}
           after == {b \in bounds : b >= last}
<1>1. n \in Nat /\ first \in 1..n /\ last \in (first + 1)..(n + 1)
  BY DEF IsSegment
<1>2. low \in 1..first /\ high \in last..(n + 1)
  BY BatchOfASegment
<1> HIDE DEF batch, low, high, n
<1>3. p \in 1..n /\ p >= first /\ q > p /\ q <= last /\ low \in Nat /\ high \in Nat /\ bounds \subseteq 1..n
  BY <1>1, <1>2
<1>4. \A i \in bounds : i < first \/ i >= last
  <2>1. \A i \in first..(last - 1) : ~IsExplicitBoundary(tokens[i])
    BY DEF IsSegment
  <2> QED BY <1>1, <1>3, <2>1
<1>5. /\ \A i \in 1..n : i <= p => tokens[i].start < cursor
      /\ \A i \in 1..n : i < p => tokens[i].end <= cursor
      /\ \A i \in 1..n : i >= q => tokens[i].start >= cursor /\ tokens[i].end > cursor
      /\ \A k \in 1..n : tokens[k].start \in Nat /\ tokens[k].end \in Nat
  BY DEF CursorSplits, SqlOrdered, n
<1>6. {b \in bounds : tokens[b].end <= cursor} = before
  <2>1. ASSUME NEW i \in bounds PROVE i < first <=> tokens[i].end <= cursor
    <3>0. i \in 1..n
      BY <1>3
    <3> HIDE DEF bounds
    <3>1. CASE i < first
      BY <1>1, <1>3, <1>5, <3>0, <3>1
    <3>2. CASE i >= last
      <4>1. tokens[i].end > cursor /\ tokens[i].end \in Nat
        BY <1>1, <1>3, <1>5, <3>0, <3>2
      <4> QED BY <1>1, <3>0, <3>2, <4>1
    <3> QED BY <1>4, <3>1, <3>2
  <2> HIDE DEF bounds
  <2> QED BY <2>1
<1>7. {b \in bounds : tokens[b].start >= cursor} = after
  <2>1. ASSUME NEW i \in bounds PROVE i >= last <=> tokens[i].start >= cursor
    <3>0. i \in 1..n
      BY <1>3
    <3> HIDE DEF bounds
    <3>1. CASE i < first
      <4>1. tokens[i].start < cursor /\ tokens[i].start \in Nat
        BY <1>1, <1>3, <1>5, <3>0, <3>1
      <4> QED BY <1>1, <3>0, <3>1, <4>1
    <3>2. CASE i >= last
      BY <1>1, <1>3, <1>5, <3>0, <3>2
    <3> QED BY <1>4, <3>1, <3>2
  <2> HIDE DEF bounds
  <2> QED BY <2>1
<1>8. Max({low} \cup {i + 1 : i \in before}) = first
  <2> DEFINE x == Max({low} \cup {i + 1 : i \in before})
  <2>1. x \in low..first /\ \A i \in before : i < x
    <3>1. before \in SUBSET (low..(first - 1)) /\ first \in Nat /\ low <= first
      BY <1>1, <1>2
    <3> HIDE DEF before
    <3> QED BY <1>3, <3>1, NearestBefore
  <2> HIDE DEF x
  <2>2. CASE low = first
    BY <1>1, <2>1, <2>2 DEF x
  <2>3. CASE low < first
    <3>1. first # 1 /\ first - 1 \in low..(high - 1) /\ first - 1 < first
      BY <1>1, <1>2, <2>3
    <3>2. IsExplicitBoundary(tokens[first - 1])
      BY <3>1 DEF IsSegment
    <3>3. first - 1 \in before
      BY <3>1, <3>2
    <3>4. first - 1 < x
      BY <2>1, <3>3
    <3> QED BY <1>1, <1>3, <2>1, <3>4 DEF x
  <2> QED BY <1>1, <1>2, <2>2, <2>3
<1>9. Min({high} \cup after) = last
  <2> DEFINE x == Min({high} \cup after)
  <2>1. x \in last..high /\ \A i \in after : x <= i
    <3>1. after \in SUBSET (last..(high - 1)) /\ last \in Nat /\ last <= high
      BY <1>1, <1>2
    <3> HIDE DEF after
    <3> QED BY <1>3, <3>1, NearestAfter
  <2> HIDE DEF x
  <2>2. CASE high = last
    BY <1>1, <2>1, <2>2 DEF x
  <2>3. CASE high > last
    <3>1. last # n + 1 /\ last \in low..(high - 1)
      BY <1>1, <1>2, <2>3
    <3>2. IsExplicitBoundary(tokens[last])
      BY <3>1 DEF IsSegment, n
    <3>3. last \in after
      BY <1>1, <3>1, <3>2
    <3>4. x <= last
      BY <2>1, <3>3
    <3> QED BY <1>1, <1>3, <2>1, <3>4 DEF x
  <2> QED BY <1>1, <1>2, <2>2, <2>3
<1> QED BY <1>6, <1>7, <1>8, <1>9 DEF low, high, batch, SegmentAt

(* What a statement of a segment reaches to.                               *)
LEMMA StatementEnds ==
  ASSUME NEW first \in Nat, NEW last \in Nat, first < last,
         NEW starts, InSegment(starts, first, last), NEW s, IsStatement(s, first, last, starts)
  PROVE  /\ s.start \in first..(last - 1) /\ s.end \in (s.start + 1)..last
         /\ \A k \in 1..Len(starts) : starts[k] > s.start => s.end <= starts[k]
         /\ \A k \in 1..Len(starts) : starts[k] = s.start =>
              s.end = IF k < Len(starts) THEN starts[k + 1] ELSE last
<1> DEFINE m == Len(starts)
           p == s.start
           q == s.end
           All == {first} \cup Range(starts)
           later == {c \in All : c > p}
<1>1. /\ starts \in Seq(first..(last - 1)) /\ m \in Nat /\ DOMAIN starts = 1..m
      /\ \A k \in 1..m : starts[k] \in first..(last - 1)
      /\ \A k \in 1..m : \A j \in 1..(k - 1) : starts[j] < starts[k]
  BY DEF InSegment
<1>2. All \subseteq first..(last - 1) /\ \A k \in 1..m : starts[k] \in All
  BY <1>1 DEF Range
<1>3. p \in All /\ q = Min(later \cup {last})
  <2>1. (p = first \/ \E k \in 1..m : starts[k] = p) /\ q = Min(later \cup {last})
    BY DEF IsStatement
  <2> QED BY <1>2, <2>1
<1>4. \A c \in All : c = first \/ \E k \in 1..m : c = starts[k]
  BY <1>1 DEF Range
<1> HIDE DEF All, p, q, m
<1>5. p \in first..(last - 1)
  BY <1>2, <1>3
<1>6. q \in later \cup {last} /\ \A c \in later \cup {last} : q <= c
  <2>1. later \cup {last} \in SUBSET Nat /\ later \cup {last} # {}
    <3>1. later \subseteq All
      OBVIOUS
    <3>2. All \subseteq Nat
      BY <1>2
    <3> HIDE DEF later
    <3> QED BY <3>1, <3>2
  <2> HIDE DEF later
  <2> QED BY <1>3, <2>1, MinIsLeast
<1>7. q \in (p + 1)..last
  BY <1>2, <1>5, <1>6
<1>8. \A k \in 1..m : starts[k] > p => q <= starts[k]
  BY <1>2, <1>6
<1>9. ASSUME NEW k \in 1..m, starts[k] = p
      PROVE  q = IF k < m THEN starts[k + 1] ELSE last
  <2>1. q = last \/ \E j \in 1..m : q = starts[j]
    BY <1>4, <1>5, <1>6
  <2>2. ASSUME NEW j \in 1..m, q = starts[j] PROVE j > k
    <3>1. j # k
      BY <1>5, <1>7, <1>9, <2>2
    <3>2. CASE j < k
      <4>1. j \in 1..(k - 1)
        BY <1>1, <3>2
      <4>2. starts[j] < starts[k]
        BY <1>1, <4>1
      <4> QED BY <1>5, <1>7, <1>9, <2>2, <4>2
    <3> QED BY <1>1, <3>1, <3>2
  <2>3. CASE k < m
    <3>1. k + 1 \in 1..m /\ k \in 1..((k + 1) - 1)
      BY <1>1, <2>3
    <3>2. starts[k + 1] > p
      BY <1>1, <1>5, <1>9, <3>1
    <3>3. q <= starts[k + 1] /\ starts[k + 1] \in first..(last - 1)
      BY <1>1, <1>8, <3>1, <3>2
    <3>4. q # last
      BY <1>7, <3>3
    <3>5. PICK j \in 1..m : q = starts[j]
      BY <2>1, <3>4
    <3>6. j > k
      BY <2>2, <3>5
    <3>7. j = k + 1 \/ k + 1 \in 1..(j - 1)
      BY <1>1, <3>1, <3>6
    <3>8. j = k + 1 \/ starts[k + 1] < starts[j]
      BY <1>1, <3>7
    <3> QED BY <1>7, <2>3, <3>3, <3>5, <3>8
  <2>4. CASE ~(k < m)
    <3>1. ~\E j \in 1..m : q = starts[j]
      BY <1>1, <2>2, <2>4
    <3> QED BY <2>1, <2>4, <3>1
  <2> QED BY <2>3, <2>4
<1> QED BY <1>5, <1>7, <1>8, <1>9 DEF p, q, m

(* The first word of a segment does not continue a set expression.         *)
LEMMA SegmentsDoNotContinue ==
  ASSUME NEW R, NEW tokens \in Seq(R), SeparatorsAreGo(tokens),
         NEW first, NEW last, IsSegment(tokens, first, last)
  PROVE  ~ContinuesSetExpression(tokens, first)
<1>1. SUFFICES ASSUME ContinuesSetExpression(tokens, first) PROVE FALSE
  OBVIOUS
<1>2. first > 1 /\ \E w \in {"union", "intersect", "except", "all"} : tokens[first - 1].text = <<w>>
  BY <1>1 DEF ContinuesSetExpression, Spells, IsSegment
<1>3. first - 1 \in 1..Len(tokens) /\ IsExplicitBoundary(tokens[first - 1])
  BY <1>2 DEF IsSegment
<1>4. tokens[first - 1] \in Range(tokens)
  BY <1>3 DEF Range
<1>5. tokens[first - 1].text \in {<<";">>, <<"go">>}
  BY <1>3, <1>4 DEF IsExplicitBoundary, SeparatorsAreGo, Spells
<1>6. PICK w \in {"union", "intersect", "except", "all"}, v \in {";", "go"} : <<w>> = <<v>>
  BY <1>2, <1>5
<1>7. w = v
  BY <1>6, <<w>>[1] = w, <<v>>[1] = v
<1> QED BY <1>7

(* The statement at a cursor is the statement of the document that the     *)
(* cursor is in, and both lie in the batch of the cursor; before the first *)
(* statement of a segment it is all of the segment                         *)
(* (StatementBoundary.ts:155).                                             *)
THEOREM CursorsAreInTheirStatements ==
  ASSUME NEW T, NEW sql \in Seq(T)
  PROVE  CursorAgrees(sql)
<1> DEFINE tokens == TokenizeSql(sql)
           n == Len(tokens)
<1>1. tokens \in Seq(SqlTokens(sql)) /\ SqlOrdered(tokens) /\ n \in Nat /\ DOMAIN tokens = 1..n
  BY TokenizeSqlFacts
<1> DEFINE Batch(c) == BatchTokenRangeAtCursor(tokens, c)
           Here(c) == StatementTokenRangeAtCursor(tokens, c)
           InBatch(c, s) == \E batch \in DocumentBatchTokenRanges(tokens) :
                              /\ batch = Batch(c) /\ batch.start <= s.start /\ s.end <= batch.end
           IsHere(c, s) == \/ Here(c) = s
                           \/ /\ StatementStarter(tokens[s.start]) = NoSymbol
                              /\ Here(c).start = s.start /\ s.end <= Here(c).end
<1>2. SUFFICES ASSUME SeparatorsAreGo(tokens), NEW c \in Nat, NEW s \in DocumentStatementTokenRanges(tokens),
                      tokens[s.start].start < c, c <= tokens[s.end - 1].end
               PROVE  InBatch(c, s) /\ IsHere(c, s)
  <2>1. Len(sql) \in Nat
    OBVIOUS
  <2>2. \A c \in 1..(Len(sql) + 1) : c \in Nat
    BY <2>1
  <2> HIDE DEF tokens
  <2> QED BY <2>2 DEF CursorAgrees, tokens, NoSymbol
<1> HIDE DEF tokens
<1>3. PICK first, last :
        /\ IsSegment(tokens, first, last)
        /\ IsStatement(s, first, last, ImplicitStatementStarts(tokens, first, last))
  BY <1>1, <1>2, StatementIsInASegment
<1> DEFINE starts == ImplicitStatementStarts(tokens, first, last)
           m == Len(starts)
           p == s.start
           q == s.end
<1>4. first \in 1..n /\ last \in (first + 1)..(n + 1) /\ first \in Nat /\ last \in Nat /\ first < last
  BY <1>1, <1>3 DEF IsSegment
<1>5. InSegment(starts, first, last)
      /\ (StatementStarter(tokens[first]) # NoSymbol => \E k \in 1..m : starts[k] = first)
  <2>1. ~ContinuesSetExpression(tokens, first)
    BY <1>1, <1>2, <1>3, SegmentsDoNotContinue
  <2> QED BY <1>4, <2>1, ImplicitStartsFacts
<1> HIDE DEF starts
<1>6. IsStatement(s, first, last, starts)
  BY <1>3 DEF starts
<1>7. /\ p \in first..(last - 1) /\ q \in (p + 1)..last
      /\ \A k \in 1..m : starts[k] > p => q <= starts[k]
      /\ \A k \in 1..m : starts[k] = p => q = IF k < m THEN starts[k + 1] ELSE last
  BY <1>4, <1>5, <1>6, StatementEnds
<1>8. s = [start |-> p, end |-> q]
  BY <1>6 DEF IsStatement
<1> HIDE DEF p, q
<1>9. p \in 1..n /\ q \in (p + 1)..(n + 1) /\ tokens[p].start < c /\ c <= tokens[q - 1].end
  BY <1>2, <1>4, <1>7 DEF p, q
<1>10. CursorSplits(tokens, c, p, q)
  BY <1>1, <1>2, <1>9, CursorInAStatement
<1>11. InBatch(c, s)
  <2> DEFINE batch == Batch(c)
  <2>1. /\ batch = [start |-> batch.start, end |-> batch.end]
        /\ batch.start \in 1..first /\ batch.end \in last..(n + 1)
        /\ batch.start = 1 \/ IsBatchSeparator(tokens[batch.start - 1])
        /\ batch.end = n + 1 \/ IsBatchSeparator(tokens[batch.end])
        /\ \A i \in batch.start..(batch.end - 1) : ~IsBatchSeparator(tokens[i])
    BY <1>1, <1>2, <1>3, <1>7, <1>10, BatchOfASegment
  <2> HIDE DEF batch
  <2>2. batch.start \in 1..n /\ batch.end \in 2..(n + 1) /\ batch.start < batch.end
        /\ batch.start <= p /\ q <= batch.end
    BY <1>1, <1>4, <1>7, <2>1
  <2>3. batch \in [start : DOMAIN tokens, end : 2..(Len(tokens) + 1)]
    BY <1>1, <2>1, <2>2
  <2>4. batch \in DocumentBatchTokenRanges(tokens)
    BY <2>1, <2>2, <2>3 DEF DocumentBatchTokenRanges
  <2> QED BY <2>2, <2>4 DEF batch, p, q
<1>12. Here(c) = LET before == {i \in DOMAIN starts : tokens[starts[i]].start < c}
                     active == IF before = {} THEN 0 ELSE Max(before)
                 IN  IF active = 0 THEN [start |-> first, end |-> last]
                     ELSE [start |-> starts[active],
                           end |-> IF active < Len(starts) THEN starts[active + 1] ELSE last]
  <2> DEFINE batch == BatchTokenRangeAtCursor(tokens, c)
             bounds == {i \in batch.start..(batch.end - 1) : IsExplicitBoundary(tokens[i])}
             f == Max({batch.start} \cup {i + 1 : i \in {b \in bounds : tokens[b].end <= c}})
             l == Min({batch.end} \cup {b \in bounds : tokens[b].start >= c})
  <2>1. f = first /\ l = last
    <3>1. /\ tokens \in Seq(SqlTokens(sql)) /\ SqlOrdered(tokens) /\ IsSegment(tokens, first, last)
          /\ p \in first..(last - 1) /\ q \in (p + 1)..last /\ c \in Nat /\ CursorSplits(tokens, c, p, q)
      BY <1>1, <1>2, <1>3, <1>7, <1>10
    <3>2. SegmentAt(tokens, c, first, last)
      BY <3>1, SegmentOfACursor
    <3> QED BY <3>2, Zenon DEF SegmentAt
  <2>2. Here(c) = LET all == ImplicitStatementStarts(tokens, f, l)
                      before == {i \in DOMAIN all : tokens[all[i]].start < c}
                      active == IF before = {} THEN 0 ELSE Max(before)
                  IN  IF active = 0 THEN [start |-> f, end |-> l]
                      ELSE [start |-> all[active],
                            end |-> IF active < Len(all) THEN all[active + 1] ELSE l]
    BY DEF StatementTokenRangeAtCursor
  <2> HIDE DEF f, l
  <2> QED BY <2>1, <2>2 DEF starts
<1> DEFINE before == {i \in DOMAIN starts : tokens[starts[i]].start < c}
           active == IF before = {} THEN 0 ELSE Max(before)
<1>13. /\ m \in Nat /\ DOMAIN starts = 1..m /\ \A k \in 1..m : starts[k] \in first..(last - 1)
       /\ \A k \in 1..m : \A j \in 1..(k - 1) : starts[j] < starts[k]
  <2>1. starts \in Seq(first..(last - 1)) /\ \A k \in 1..m : \A j \in 1..(k - 1) : starts[j] < starts[k]
    BY <1>5 DEF InSegment
  <2> QED BY <1>4, <2>1
<1>14. \A i \in 1..m : i \in before <=> starts[i] <= p
  <2> SUFFICES ASSUME NEW i \in 1..m PROVE tokens[starts[i]].start < c <=> starts[i] <= p
    BY <1>13
  <2>1. starts[i] \in 1..n /\ starts[i] \in Nat /\ p \in Nat /\ q \in Nat
    BY <1>4, <1>7, <1>13
  <2>2. CASE starts[i] <= p
    BY <1>10, <2>1, <2>2 DEF CursorSplits
  <2>3. CASE starts[i] > p
    <3>1. starts[i] >= q
      BY <1>7, <2>1, <2>3
    <3>2. tokens[starts[i]].start >= c /\ tokens[starts[i]].start \in Nat
      BY <1>1, <1>10, <2>1, <3>1 DEF CursorSplits, SqlOrdered
    <3> QED BY <1>2, <2>1, <2>3, <3>2
  <2> QED BY <2>1, <2>2, <2>3
<1> HIDE DEF m
<1>15. CASE \E k \in 1..m : starts[k] = p
  <2>1. PICK k \in 1..m : starts[k] = p
    BY <1>15
  <2>2. before = 1..k
    <3>1. ASSUME NEW i \in 1..m PROVE starts[i] <= p <=> i <= k
      <4>1. i < k => starts[i] < starts[k]
        BY <1>13
      <4>2. k < i => starts[k] < starts[i]
        BY <1>13
      <4>3. starts[i] \in Nat /\ p \in Nat
        BY <1>4, <1>7, <1>13
      <4> QED BY <1>13, <2>1, <4>1, <4>2, <4>3
    <3>2. \A i \in before : i \in 1..m
      BY <1>13
    <3> HIDE DEF before
    <3>3. \A i \in 1..k : i \in 1..m /\ i <= k
      BY <1>13
    <3>4. \A i \in before : i \in 1..k
      BY <1>13, <1>14, <3>1, <3>2
    <3>5. \A i \in 1..k : i \in before
      BY <1>14, <3>1, <3>3
    <3> QED BY <3>4, <3>5
  <2> HIDE DEF before
  <2>3. active = k
    <3>0. k \in Nat /\ k >= 1 /\ k <= m /\ m \in Nat
      BY <1>13
    <3>1. k \in 1..k /\ \A i \in 1..k : i \in 0..m
      BY <3>0
    <3>2. Max(1..k) \in 1..k /\ \A i \in 1..k : i <= Max(1..k)
      <4> DEFINE S == 1..k
      <4>1. S \in SUBSET (0..m) /\ S # {}
        BY <3>1
      <4> HIDE DEF S
      <4>2. Max(S) \in S /\ \A i \in S : i <= Max(S)
        BY <1>13, <4>1, MaxIsGreatest
      <4> QED BY <4>2 DEF S
    <3>3. Max(1..k) = k
      BY <3>1, <3>2
    <3> QED BY <2>2, <3>1, <3>3
  <2> HIDE DEF active
  <2>4. Here(c) = [start |-> starts[k], end |-> IF k < m THEN starts[k + 1] ELSE last]
    <3>1. k # 0
      BY <1>13
    <3> QED BY <1>12, <2>3, <3>1 DEF before, active, m
  <2>5. q = IF k < m THEN starts[k + 1] ELSE last
    BY <1>7, <2>1
  <2>6. Here(c) = s
    BY <1>8, <2>1, <2>4, <2>5
  <2> QED BY <1>11, <2>6
<1>16. CASE ~\E k \in 1..m : starts[k] = p
  <2>1. p = first
    BY <1>6, <1>16 DEF IsStatement, p, m
  <2>2. StatementStarter(tokens[p]) = NoSymbol
    BY <1>5, <1>16, <2>1 DEF m
  <2>3. before = {}
    <3>1. ASSUME NEW i \in 1..m PROVE ~(starts[i] <= p)
      BY <1>4, <1>13, <1>16, <2>1
    <3> QED BY <1>13, <1>14, <3>1
  <2>4. Here(c) = [start |-> first, end |-> last]
    <3>1. active = 0
      BY <2>3
    <3> HIDE DEF active
    <3> QED BY <1>12, <3>1 DEF active
  <2>5. Here(c).start = p /\ q <= Here(c).end
    BY <1>4, <1>7, <2>1, <2>4
  <2>6. IsHere(c, s)
    BY <2>2, <2>5 DEF p, q
  <2> QED BY <1>11, <2>6
<1> QED BY <1>15, <1>16
=============================================================================
