---------------------------- MODULE Screen_proofs ----------------------------
(***************************************************************************)
(* What the transcript on the screen promises (TranscriptDisplay), for any *)
(* messages, texts, printed outputs and widths: a screen that needs no     *)
(* rebuild is what a rebuild from nothing would draw, says each text of    *)
(* the transcript once and whole, and keeps what was printed in its place. *)
(* It is not promised while a block is open whose placeholder a message    *)
(* came in behind, or messages were taken back or reset since it began     *)
(* (Screen!Calm; `mixed` is that history): the code does not hold it then. *)
(*                                                                         *)
(* What the cache serves is what would be drawn, as its key tells all that *)
(* the lines of a unit depend on.  A printed line goes where a rebuild     *)
(* puts it, a text that grows moves nothing around it, and the screen      *)
(* knows where the text that streams, and what trails it, begin.           *)
(*                                                                         *)
(* A rebuild draws unit after unit: before each go the outputs printed     *)
(* before it, and what is drawn so far says what the messages so far say,  *)
(* and each output once, below what came before it and above what came     *)
(* after (InPlace).                                                        *)
(***************************************************************************)
EXTENDS Shell, SequenceTheorems, FiniteSetTheorems, WellFoundedInduction, TLAPS

----------------------------------------------------------------------------
(* Induction over the numbers: the library states it for an operator, which *)
(* the provers cannot instantiate, and well-foundedness for a set.          *)

\* A set of numbers has a least.
LEMMA LeastNumber ==
  ASSUME NEW S, S \subseteq Nat, S # {}
  PROVE  \E x \in S : \A y \in S : x <= y
<1>. DEFINE Less == {ss \in Nat \X Nat : ss[1] < ss[2]}
<1>1. IsWellFoundedOn(Less, Nat)
  BY NatLessThanWellFounded, Zenon DEF OpToRel
<1>2. \E x \in S : \A y \in S : ~(<<y, x>> \in Less)
  <2>. HIDE DEF Less
  <2>. QED  BY <1>1, WFMin
<1>3. PICK x \in S : \A y \in S : ~(y < x)
  BY <1>2
<1>4. \A y \in S : x <= y
  BY <1>3
<1>. QED  BY <1>4

\* A set that holds 0, and with a number below n the next one, holds all up to n.
LEMMA SetInduction ==
  ASSUME NEW n \in Nat, NEW S, 0 \in S, \A i \in 0..(n - 1) : i \in S => i + 1 \in S
  PROVE  0..n \subseteq S
<1>. SUFFICES ASSUME (0..n) \ S # {}  PROVE FALSE
  OBVIOUS
<1>1. PICK x \in (0..n) \ S : \A y \in (0..n) \ S : x <= y
  <2>1. (0..n) \ S \subseteq Nat
    OBVIOUS
  <2>. QED  BY <2>1, LeastNumber
<1>2. x # 0 /\ x - 1 \in 0..(n - 1)
  BY <1>1
<1>3. x - 1 \in S
  BY <1>1, <1>2
<1>4. x = (x - 1) + 1
  BY <1>1
<1>. QED  BY <1>1, <1>2, <1>3, <1>4

\* The greatest and the least of a set of positions.
LEMMA MaxOf ==
  ASSUME NEW n \in Nat, NEW S, S \subseteq 0..n, S # {}
  PROVE  Screen!Max(S) \in S /\ \A y \in S : y <= Screen!Max(S)
<1>. DEFINE Above == {b \in Nat : \A y \in S : y <= b}
<1>1. n \in Above
  OBVIOUS
<1>2. PICK b \in Above : \A c \in Above : b <= c
  <2>1. Above \subseteq Nat /\ Above # {}
    BY <1>1
  <2>. HIDE DEF Above
  <2>. QED  BY <2>1, LeastNumber
<1>3. b \in S
  <2>. SUFFICES ASSUME b \notin S  PROVE FALSE
    OBVIOUS
  <2>1. \A y \in S : y <= b - 1
    BY <1>2
  <2>2. b - 1 \in Nat
    <3>1. PICK y \in S : TRUE
      OBVIOUS
    <3>2. y \in 0..n /\ b \in Nat
      BY <1>2
    <3>3. y <= b - 1
      BY <2>1
    <3>. QED  BY <3>2, <3>3
  <2>3. b - 1 \in Above
    BY <2>1, <2>2
  <2>. QED  BY <1>2, <2>3
<1>4. \E x \in S : \A y \in S : x >= y
  BY <1>2, <1>3
<1>5. PICK x \in S : x = Screen!Max(S) /\ \A y \in S : x >= y
  BY <1>4 DEF Screen!Max
<1>. QED  BY <1>5

\* A set of numbers has a minimum.
LEMMA MinOf ==
  ASSUME NEW S, S \subseteq Nat, S # {}
  PROVE  Screen!Min(S) \in S /\ \A y \in S : Screen!Min(S) <= y
<1>1. \E x \in S : \A y \in S : x <= y
  BY LeastNumber
<1>2. PICK x \in S : x = Screen!Min(S) /\ \A y \in S : x <= y
  BY <1>1 DEF Screen!Min
<1>. QED  BY <1>2

----------------------------------------------------------------------------
(* The units of a transcript.                                               *)

Texts == Seq(Screen!Messages)

\* What a message is.
LEMMA RoleType ==
  ASSUME NEW msgs \in Texts, NEW i \in DOMAIN msgs
  PROVE  /\ msgs[i] \in Screen!Messages
         /\ msgs[i].role \in {"user", "assistant", "notice"} /\ msgs[i].text \in Nat
         /\ i \in 1..Len(msgs) /\ DOMAIN msgs = 1..Len(msgs)
<1>1. /\ DOMAIN msgs = 1..Len(msgs) /\ i \in 1..Len(msgs)
      /\ msgs[i] \in Screen!Messages
  BY DEF Texts
<1>2. /\ msgs[i].role \in {"user", "assistant", "notice"}
      /\ msgs[i].text \in 0..MaxLines
  BY <1>1 DEF Screen!Messages
<1>. QED  BY <1>1, <1>2, RoomAssumption

\* A turn ends with the last message of the assistant before the next question.
LEMMA TurnEndIs ==
  ASSUME NEW msgs \in Texts, NEW i \in DOMAIN msgs, Screen!Is(msgs, i, "assistant")
  PROVE  LET e == Screen!TurnEnd(msgs, i)
         IN  /\ e \in i..Len(msgs) /\ e \in Screen!Stretch(msgs, i)
             /\ Screen!Is(msgs, e, "assistant")
<1>. DEFINE S == {j \in Screen!Stretch(msgs, i) : Screen!Is(msgs, j, "assistant")}
<1>1. i \in 1..Len(msgs) /\ Len(msgs) \in Nat
  BY RoleType DEF Texts
<1>2. S \subseteq 1..Len(msgs) /\ i \in S
  BY <1>1 DEF Screen!Stretch, Screen!Is
<1>3. Screen!Max(S) \in S
  <2>1. S \subseteq 0..Len(msgs)
    BY <1>2
  <2>. HIDE DEF S
  <2>. QED  BY <1>1, <1>2, <2>1, MaxOf
<1>. QED  BY <1>1, <1>3 DEF Screen!TurnEnd, Screen!Stretch

\* A unit ends in the transcript, at its first message or below.
LEMMA UnitEndIs ==
  ASSUME NEW msgs \in Texts, NEW i \in DOMAIN msgs
  PROVE  Screen!UnitEnd(msgs, i) \in i..Len(msgs)
<1>1. i \in 1..Len(msgs) /\ Len(msgs) \in Nat
  BY RoleType DEF Texts
<1>. QED  BY <1>1, TurnEndIs DEF Screen!UnitEnd

\* A unit ends before the next one begins.
LEMMA UnitsInTurn ==
  ASSUME NEW msgs \in Texts, NEW i \in Screen!Heads(msgs), NEW j \in Screen!Heads(msgs), i < j
  PROVE  Screen!UnitEnd(msgs, i) < j
<1>1. /\ i \in DOMAIN msgs /\ j \in DOMAIN msgs /\ j \notin Screen!Inside(msgs)
      /\ i \in 1..(j - 1) /\ j \in 1..Len(msgs) /\ Len(msgs) \in Nat
  BY RoleType DEF Screen!Heads, Texts
<1>2. CASE Screen!Is(msgs, i, "assistant")
  <2>1. /\ Screen!TurnEnd(msgs, i) \in i..Len(msgs)
        /\ Screen!TurnEnd(msgs, i) \in Screen!Stretch(msgs, i)
    BY <1>1, <1>2, TurnEndIs
  <2>2. ASSUME j <= Screen!TurnEnd(msgs, i)  PROVE FALSE
    <3>1. j \in Screen!Stretch(msgs, i)
      BY <1>1, <2>1, <2>2 DEF Screen!Stretch
    <3>. QED  BY <1>1, <1>2, <2>2, <3>1 DEF Screen!Inside
  <2>. QED  BY <1>1, <1>2, <2>1, <2>2 DEF Screen!UnitEnd
<1>3. CASE ~Screen!Is(msgs, i, "assistant")
  BY <1>1, <1>3 DEF Screen!UnitEnd
<1>. QED  BY <1>2, <1>3

----------------------------------------------------------------------------
(* What the cache serves.                                                   *)

\* A rebuild draws an answer that streams, or none, in a place of its own.
Placed(msgs, at) ==
    at = Screen!None \/ (at \in DOMAIN msgs /\ Screen!Is(msgs, at, "assistant"))

\* The lines of a unit are a function of what the cache compares.
LEMMA KeyTells ==
  ASSUME NEW m \in Texts, NEW n \in Texts, NEW i \in DOMAIN m, i \in DOMAIN n,
         NEW a, NEW b, Placed(m, a), Placed(n, b), NEW w \in {1, 2}, NEW v \in {1, 2},
         Screen!Key(w, m, i, a) = Screen!Key(v, n, i, b)
  PROVE  Screen!DrawUnit(w, m, i, a) = Screen!DrawUnit(v, n, i, b)
<1>1. /\ Screen!UnitEnd(m, i) \in i..Len(m) /\ Screen!UnitEnd(n, i) \in i..Len(n)
      /\ i \in Nat /\ Len(m) \in Nat /\ Len(n) \in Nat
      /\ a \in Nat /\ b \in Nat
  BY UnitEndIs, RoleType DEF Texts, Placed, Screen!None
<1>2. /\ w = v
      /\ Screen!Streams(m, i, a) = Screen!Streams(n, i, b)
      /\ [j \in i..Screen!UnitEnd(m, i) |-> IF j = a THEN [m[j] EXCEPT !.text = 0] ELSE m[j]]
         = [j \in i..Screen!UnitEnd(n, i) |-> IF j = b THEN [n[j] EXCEPT !.text = 0] ELSE n[j]]
  BY DEF Screen!Key
<1>3. i..Screen!UnitEnd(m, i) = i..Screen!UnitEnd(n, i)
  BY <1>2
<1>4. Screen!UnitEnd(m, i) = Screen!UnitEnd(n, i)
  BY <1>1, <1>3
<1>. DEFINE e == Screen!UnitEnd(m, i)
<1>5. \A j \in i..e : (IF j = a THEN [m[j] EXCEPT !.text = 0] ELSE m[j])
                      = (IF j = b THEN [n[j] EXCEPT !.text = 0] ELSE n[j])
  BY <1>2, <1>4, Zenon
<1>6. \A j \in i..e : j \in DOMAIN m /\ j \in DOMAIN n
                      /\ m[j] \in Screen!Messages /\ n[j] \in Screen!Messages
  BY <1>1, <1>4, RoleType DEF Texts
<1>7. ASSUME NEW j \in i..e
      PROVE  /\ m[j].role = n[j].role
             /\ j # a /\ j # b => m[j].text = n[j].text
             /\ j = a /\ j # b => n[j].text = 0
             /\ j = b /\ j # a => m[j].text = 0
  BY <1>5, <1>6 DEF Screen!Messages
<1>8. \A role : Screen!Is(m, i, role) = Screen!Is(n, i, role)
  BY <1>1, <1>7 DEF Screen!Is
<1>9. CASE Screen!Is(m, i, "notice")
  <2>1. ~Screen!Is(m, i, "user") /\ ~Screen!Is(n, i, "user") /\ Screen!Is(n, i, "notice")
    BY <1>8, <1>9 DEF Screen!Is
  <2>. QED  BY <1>9, <2>1 DEF Screen!DrawUnit
<1>10. CASE Screen!Is(m, i, "user")
  <2>1. ~Screen!Is(m, i, "notice") /\ ~Screen!Is(n, i, "notice") /\ Screen!Is(n, i, "user")
        /\ ~Screen!Is(m, i, "assistant") /\ ~Screen!Is(n, i, "assistant")
    BY <1>8, <1>10 DEF Screen!Is
  <2>2. i # a /\ i # b
    BY <1>1, <2>1 DEF Placed, Screen!None
  <2>3. m[i].text = n[i].text
    BY <1>1, <1>7, <2>2
  <2>. QED  BY <1>2, <1>10, <2>1, <2>3 DEF Screen!DrawUnit
<1>11. CASE Screen!Is(m, i, "assistant")
  <2>. DEFINE Part(x, c, k) ==
         LET j == i + k - 1
         IN  IF Screen!Is(x, j, "assistant") /\ j # c
             THEN Screen!TextLines(w, j, x[j].text) ELSE <<>>
  <2>1. Screen!TurnEnd(m, i) = e /\ Screen!TurnEnd(n, i) = e
    BY <1>4, <1>8, <1>11 DEF Screen!UnitEnd
  <2>2. ASSUME NEW k \in 1..(e - i + 1)
        PROVE  Part(m, a, k) = Part(n, b, k)
    <3>. DEFINE j == i + k - 1
    <3>1. j \in i..e
      <4>1. e \in Nat /\ i \in Nat
        BY <1>1
      <4>. HIDE DEF e
      <4>. QED  BY <4>1
    <3>2. Screen!TextLines(w, j, 0) = <<>>
      BY DEF Screen!TextLines
    <3>3. m[j].role = n[j].role
      <4>. HIDE DEF e, j
      <4>. QED  BY <1>7, <3>1
    <3>4. CASE j # a /\ j # b
      BY <1>7, <3>1, <3>3, <3>4 DEF Screen!Is
    <3>5. CASE j = a /\ j # b
      BY <1>7, <3>1, <3>2, <3>5
    <3>6. CASE j = b /\ j # a
      BY <1>7, <3>1, <3>2, <3>6
    <3>7. CASE j = a /\ j = b
      BY <3>7
    <3>. HIDE DEF j
    <3>. QED  BY <3>4, <3>5, <3>6, <3>7
  <2>3. [k \in 1..(e - i + 1) |-> Part(m, a, k)] = [k \in 1..(e - i + 1) |-> Part(n, b, k)]
    <3>. HIDE DEF Part
    <3>. QED  BY <2>2
  <2>4. /\ ~Screen!Is(m, i, "notice") /\ ~Screen!Is(n, i, "notice")
        /\ ~Screen!Is(m, i, "user") /\ ~Screen!Is(n, i, "user")
    BY <1>8, <1>11 DEF Screen!Is
  <2>. DEFINE Drawn(x, c) ==
         <<Screen!Line("head", i, 0)>> \o Screen!FlattenSeq([k \in 1..(e - i + 1) |-> Part(x, c, k)])
         \o (IF Screen!Streams(x, i, c) THEN <<>> ELSE <<Screen!Line("blank", i, 0)>>)
  <2>5. Screen!DrawUnit(w, m, i, a) = Drawn(m, a)
    BY <2>1, <2>4, Zenon DEF Screen!DrawUnit
  <2>6. Screen!DrawUnit(w, n, i, b) = Drawn(n, b)
    BY <2>1, <2>4, Zenon DEF Screen!DrawUnit
  <2>7. Drawn(m, a) = Drawn(n, b)
    <3>. HIDE DEF Part
    <3>. QED  BY <1>2, <2>3, Zenon
  <2>. QED  BY <1>2, <2>5, <2>6, <2>7
<1>. QED  BY <1>9, <1>10, <1>11, RoleType DEF Screen!Is

----------------------------------------------------------------------------
(* Lines.                                                                   *)

Lines == [of : {"text", "head", "blank", "print", "splash"}, at : Nat, n : Nat]

\* What a flattening adds up: the first, then each to what comes before it.
SumsUp(f, seqs) ==
    \A i \in 1..Len(seqs) : f[i] = IF i = 1 THEN seqs[i] ELSE f[i - 1] \o seqs[i]

\* What is flattened is what is added up last: the recursion of the flattening is one.
LEMMA FlattenIs ==
  ASSUME NEW S, NEW seqs \in Seq(Seq(S)), Len(seqs) # 0
  PROVE  \E f : SumsUp(f, seqs) /\ Screen!FlattenSeq(seqs) = f[Len(seqs)]
<1>. DEFINE N == Len(seqs)
            Step(x, i) == IF i = 1 THEN seqs[i] ELSE x \o seqs[i]
            Rec(g, k) == g = [i \in 1..k |-> Step(g[i - 1], i)]
            Good == {k \in 0..N : \E g : Rec(g, k)}
            flat == CHOOSE g : Rec(g, N)
<1>1. N \in Nat /\ N > 0
  OBVIOUS
<1>2. 0..N \subseteq Good
  <2>1. 0 \in Good
    <3>1. Rec([i \in 1..0 |-> 0], 0)
      OBVIOUS
    <3>. HIDE DEF Rec
    <3>. QED  BY <1>1, <3>1
  <2>2. ASSUME NEW k \in 0..(N - 1), k \in Good  PROVE k + 1 \in Good
    <3>. HIDE DEF Step
    <3>1. PICK g : Rec(g, k)
      BY <2>2
    <3>4. \A i \in 1..k : g[i] = Step(g[i - 1], i)
      BY <3>1
    <3>. DEFINE h == [i \in 1..(k + 1) |-> IF i <= k THEN g[i] ELSE Step(g[i - 1], i)]
    <3>2. ASSUME NEW i \in 1..(k + 1)  PROVE h[i] = Step(h[i - 1], i)
      <4>1. CASE i = 1
        BY <3>1, <4>1, <1>1 DEF Step
      <4>2. CASE i # 1
        <5>1. i - 1 \in 1..(k + 1) /\ i - 1 <= k /\ h[i - 1] = g[i - 1]
          BY <4>2, <1>1
        <5>2. CASE i <= k
          <6>1. g[i] = Step(g[i - 1], i)
            BY <3>4, <5>2, <1>1
          <6>2. h[i] = g[i]
            BY <5>2, <1>1
          <6>. QED  BY <5>1, <6>1, <6>2
        <5>3. CASE i > k
          BY <5>1, <5>3, <1>1
        <5>. QED  BY <5>2, <5>3, <1>1
      <4>. QED  BY <4>1, <4>2
    <3>3. Rec(h, k + 1)
      <4>. DEFINE r == [i \in 1..(k + 1) |-> Step(h[i - 1], i)]
      <4>1. h = [i \in 1..(k + 1) |-> h[i]]
        OBVIOUS
      <4>. HIDE DEF h
      <4>2. h = r
        BY <3>2, <4>1
      <4>. QED  BY <4>2
    <3>. HIDE DEF Rec
    <3>. QED  BY <3>3, <1>1
  <2>. HIDE DEF Good
  <2>. QED  BY <1>1, <2>1, <2>2, SetInduction
<1>3. Rec(flat, N)
  <2>. HIDE DEF Rec
  <2>1. N \in Good
    <3>. HIDE DEF Good
    <3>. QED  BY <1>1, <1>2
  <2>2. \E g : Rec(g, N)
    BY <2>1
  <2>. QED  BY <2>2
<1>4. Screen!FlattenSeq(seqs) = flat[N]
  BY Zenon DEF Screen!FlattenSeq
<1>. HIDE DEF flat, Step, N
<1>5. \A i \in 1..N : flat[i] = Step(flat[i - 1], i)
  <2>1. flat = [i \in 1..N |-> Step(flat[i - 1], i)]
    BY <1>3
  <2>. QED  BY <2>1, Zenon
<1>6. SumsUp(flat, seqs)
  BY <1>5 DEF SumsUp, Step, N
<1>. QED  BY <1>4, <1>6 DEF N

\* Sequences one behind the other are a sequence of what they hold.
LEMMA FlattenIn ==
  ASSUME NEW S, NEW seqs \in Seq(Seq(S))
  PROVE  Screen!FlattenSeq(seqs) \in Seq(S)
<1>1. CASE Len(seqs) = 0
  BY <1>1 DEF Screen!FlattenSeq
<1>2. CASE Len(seqs) # 0
  <2>. DEFINE N == Len(seqs)
  <2>1. N \in Nat /\ N > 0
    BY <1>2
  <2>2. PICK f : SumsUp(f, seqs) /\ Screen!FlattenSeq(seqs) = f[N]
    BY <1>2, FlattenIs
  <2>. DEFINE T == {k \in 0..N : k = 0 \/ f[k] \in Seq(S)}
  <2>3. 0 \in T
    BY <2>1
  <2>4. ASSUME NEW k \in 0..(N - 1), k \in T  PROVE k + 1 \in T
    <3>1. seqs[k + 1] \in Seq(S)
      BY <2>1
    <3>2. f[k + 1] = IF k = 0 THEN seqs[k + 1] ELSE f[k] \o seqs[k + 1]
      BY <2>1, <2>2 DEF SumsUp
    <3>3. CASE k = 0
      BY <3>1, <3>2, <3>3, <2>1
    <3>4. CASE k # 0
      <4>1. f[k] \in Seq(S) /\ k + 1 \in 0..N
        BY <2>4, <3>4, <2>1
      <4>2. f[k + 1] = f[k] \o seqs[k + 1]
        BY <3>2, <3>4
      <4>3. f[k + 1] \in Seq(S)
        BY <3>1, <4>1, <4>2
      <4>. QED  BY <4>1, <4>3
    <3>. QED  BY <3>3, <3>4
  <2>5. N \in T
    <3>. HIDE DEF T, N
    <3>1. 0..N \subseteq T
      BY <2>1, <2>3, <2>4, SetInduction
    <3>. QED  BY <2>1, <3>1
  <2>. QED  BY <2>1, <2>2, <2>5
<1>. QED  BY <1>1, <1>2

\* Sequences of lines, one behind the other, are a sequence of lines.
LEMMA FlattenType ==
  ASSUME NEW seqs \in Seq(Seq(Lines))
  PROVE  Screen!FlattenSeq(seqs) \in Seq(Lines)
<1>. DEFINE S == Lines
<1>. HIDE DEF S
<1>1. ASSUME NEW e \in Seq(Seq(S))  PROVE Screen!FlattenSeq(e) \in Seq(S)
  BY FlattenIn, Zenon
<1>. QED  BY <1>1 DEF S

\* A text is lines.
LEMMA TextType ==
  ASSUME NEW w \in {1, 2}, NEW at \in Nat, NEW text \in Nat
  PROVE  Screen!TextLines(w, at, text) \in Seq(Lines)
<1>1. text * w \in Nat
  OBVIOUS
<1>2. \A n \in 1..(text * w) : Screen!Line("text", at, n) \in Lines
  BY <1>1 DEF Screen!Line, Lines
<1>. QED  BY <1>1, <1>2 DEF Screen!TextLines

\* Printed outputs are a line each.
LEMMA PrintedType ==
  ASSUME NEW from \in Nat \ {0}, NEW to \in Nat, from <= to + 1
  PROVE  Screen!Printed(from, to) \in Seq(Lines) /\ Len(Screen!Printed(from, to)) = to - from + 1
<1>1. \A k \in 1..(to - from + 1) : Screen!Line("print", from + k - 1, 0) \in Lines
  BY DEF Screen!Line, Lines
<1>. QED  BY <1>1 DEF Screen!Printed

\* A unit is lines.
LEMMA UnitType ==
  ASSUME NEW w \in {1, 2}, NEW msgs \in Texts, NEW i \in DOMAIN msgs, NEW at
  PROVE  Screen!DrawUnit(w, msgs, i, at) \in Seq(Lines)
<1>. DEFINE blank == IF Screen!Streams(msgs, i, at) THEN <<>> ELSE <<Screen!Line("blank", i, 0)>>
<1>1. i \in Nat /\ msgs[i].text \in Nat
  BY RoleType DEF Texts
<1>2. blank \in Seq(Lines) /\ <<Screen!Line("head", i, 0)>> \in Seq(Lines)
  <2>1. Screen!Line("blank", i, 0) \in Lines /\ Screen!Line("head", i, 0) \in Lines
    BY <1>1 DEF Screen!Line, Lines
  <2>. QED  BY <2>1
<1>3. CASE Screen!Is(msgs, i, "notice")
  BY <1>3 DEF Screen!DrawUnit, Screen!Is
<1>4. CASE Screen!Is(msgs, i, "user")
  <2>1. ~Screen!Is(msgs, i, "notice")
    BY <1>4 DEF Screen!Is
  <2>2. Screen!DrawUnit(w, msgs, i, at) = Screen!TextLines(w, i, msgs[i].text) \o blank
    BY <1>4, <2>1 DEF Screen!DrawUnit
  <2>. HIDE DEF blank
  <2>3. Screen!TextLines(w, i, msgs[i].text) \in Seq(Lines)
    BY <1>1, TextType
  <2>. QED  BY <1>2, <2>2, <2>3
<1>5. CASE Screen!Is(msgs, i, "assistant")
  <2>. DEFINE e == Screen!TurnEnd(msgs, i)
              Part(k) == LET j == i + k - 1
                         IN  IF Screen!Is(msgs, j, "assistant") /\ j # at
                             THEN Screen!TextLines(w, j, msgs[j].text) ELSE <<>>
              parts == [k \in 1..(e - i + 1) |-> Part(k)]
  <2>1. e \in i..Len(msgs) /\ i \in 1..Len(msgs) /\ Len(msgs) \in Nat
    BY <1>5, TurnEndIs, RoleType DEF Texts
  <2>2. ASSUME NEW k \in 1..(e - i + 1)  PROVE Part(k) \in Seq(Lines)
    <3>1. i + k - 1 \in DOMAIN msgs /\ i + k - 1 \in Nat
      BY <2>1, RoleType
    <3>2. msgs[i + k - 1].text \in Nat
      BY <3>1, RoleType
    <3>3. Screen!TextLines(w, i + k - 1, msgs[i + k - 1].text) \in Seq(Lines)
      BY <3>1, <3>2, TextType
    <3>. QED  BY <3>3
  <2>3. parts \in Seq(Seq(Lines))
    <3>. HIDE DEF Part
    <3>1. e - i + 1 \in Nat
      BY <2>1
    <3>. QED  BY <2>2, <3>1
  <2>4. ~Screen!Is(msgs, i, "notice") /\ ~Screen!Is(msgs, i, "user")
    BY <1>5 DEF Screen!Is
  <2>5. Screen!DrawUnit(w, msgs, i, at)
        = <<Screen!Line("head", i, 0)>> \o Screen!FlattenSeq(parts) \o blank
    BY <2>4, Zenon DEF Screen!DrawUnit
  <2>. HIDE DEF parts, blank
  <2>. QED  BY <1>2, <2>3, <2>5, FlattenType
<1>. QED  BY <1>3, <1>4, <1>5, RoleType DEF Screen!Is

----------------------------------------------------------------------------
(* The rebuild.                                                             *)

RenderStep(drawn, outputs, cache, w, msgs, at, i) ==
    IF i = 0 THEN [lines |-> Screen!Printed(1, Screen!Through(outputs, 1, 0) - 1), next |-> Screen!Through(outputs, 1, 0)]
    ELSE IF i \in Screen!Heads(msgs) THEN Screen!AddUnit(drawn, outputs, cache, w, msgs, i, at)
                                     ELSE drawn

\* What is drawn after each message comes from what is drawn after the one before.
LEMMA RenderIs ==
  ASSUME NEW outputs, NEW cache, NEW w, NEW msgs \in Texts, NEW at,
         NEW R, R = Screen!RenderInto(outputs, cache, w, msgs, at)
  PROVE  \A i \in 0..Len(msgs) : R[i] = RenderStep(R[i - 1], outputs, cache, w, msgs, at, i)
<1>. DEFINE N == Len(msgs)
            Step(x, i) == RenderStep(x, outputs, cache, w, msgs, at, i)
            Rec(g, k) == g = [i \in 0..k |-> Step(g[i - 1], i)]
            Good == {k \in 0..N : \E g : Rec(g, k)}
<1>1. N \in Nat
  BY DEF Texts
<1>2. 0..N \subseteq Good
  <2>1. 0 \in Good
    <3>. DEFINE g == [i \in 0..0 |-> Step(0, 0)]
    <3>1. \A i \in 0..0 : g[i] = Step(g[i - 1], i)
      BY DEF RenderStep
    <3>2. Rec(g, 0)
      <4>1. g = [i \in 0..0 |-> g[i]]
        OBVIOUS
      <4>. HIDE DEF g, Step
      <4>. QED  BY <3>1, <4>1
    <3>. HIDE DEF Rec, g
    <3>. QED  BY <1>1, <3>2
  <2>2. ASSUME NEW k \in 0..(N - 1), k \in Good  PROVE k + 1 \in Good
    <3>1. PICK g : Rec(g, k)
      BY <2>2
    <3>. DEFINE h == [i \in 0..(k + 1) |-> IF i <= k THEN g[i] ELSE Step(g[i - 1], i)]
    <3>2. \A i \in 0..k : g[i] = Step(g[i - 1], i)
      <4>. HIDE DEF Step
      <4>. QED  BY <3>1
    <3>3. \A x, y : Step(x, 0) = Step(y, 0)
      BY DEF RenderStep
    <3>. HIDE DEF Step
    <3>4. ASSUME NEW i \in 0..(k + 1)  PROVE h[i] = Step(h[i - 1], i)
      <4>1. CASE i = 0
        <5>1. h[0] = g[0] /\ g[0] = Step(g[0 - 1], 0)
          BY <1>1, <3>2
        <5>. HIDE DEF h
        <5>. QED  BY <3>3, <4>1, <5>1
      <4>2. CASE i # 0
        <5>1. i - 1 \in 0..(k + 1) /\ i - 1 <= k /\ h[i - 1] = g[i - 1]
          BY <4>2, <1>1
        <5>2. CASE i <= k
          <6>1. g[i] = Step(g[i - 1], i)
            BY <3>2, <5>2, <1>1
          <6>2. h[i] = g[i]
            BY <5>2, <1>1
          <6>. QED  BY <5>1, <6>1, <6>2
        <5>3. CASE i > k
          BY <5>1, <5>3, <1>1
        <5>. QED  BY <5>2, <5>3, <1>1
      <4>. QED  BY <4>1, <4>2
    <3>5. Rec(h, k + 1)
      <4>. DEFINE r == [i \in 0..(k + 1) |-> Step(h[i - 1], i)]
      <4>1. h = [i \in 0..(k + 1) |-> h[i]]
        OBVIOUS
      <4>. HIDE DEF h
      <4>2. h = r
        BY <3>4, <4>1
      <4>. QED  BY <4>2
    <3>. HIDE DEF Rec
    <3>. QED  BY <3>5, <1>1
  <2>. HIDE DEF Good
  <2>. QED  BY <1>1, <2>1, <2>2, SetInduction
<1>3. R = CHOOSE g : Rec(g, N)
  BY Zenon DEF Screen!RenderInto, RenderStep
<1>4. Rec(R, N)
  <2>1. N \in Good
    BY <1>1, <1>2
  <2>. HIDE DEF Rec
  <2>. QED  BY <1>3, <2>1
<1>. HIDE DEF Step
<1>5. \A i \in 0..N : R[i] = Step(R[i - 1], i)
  BY <1>4
<1>. QED  BY <1>5 DEF Step

\* The lines the cache keeps are those of some transcript with the key it keeps.
CacheIsSound(cache) ==
    \A i \in DOMAIN cache :
        \E w \in {1, 2}, msgs \in Texts, at \in Nat :
            /\ i \in DOMAIN msgs /\ Placed(msgs, at)
            /\ cache[i].key = Screen!Key(w, msgs, i, at)
            /\ cache[i].lines = Screen!DrawUnit(w, msgs, i, at)

\* So what it serves is what would be drawn.
LEMMA ServedIsDrawn ==
  ASSUME NEW cache, CacheIsSound(cache), NEW w \in {1, 2}, NEW msgs \in Texts,
         NEW i \in DOMAIN msgs, NEW at \in Nat, Placed(msgs, at)
  PROVE  Screen!UnitLines(cache, w, msgs, i, at) = Screen!DrawUnit(w, msgs, i, at)
<1>1. CASE Screen!Served(cache, w, msgs, i, at)
  <2>1. /\ i \in DOMAIN cache /\ cache[i].key = Screen!Key(w, msgs, i, at)
        /\ Screen!UnitLines(cache, w, msgs, i, at) = cache[i].lines
    BY <1>1 DEF Screen!Served, Screen!UnitLines
  <2>2. PICK v \in {1, 2}, n \in Texts, b \in Nat :
            /\ i \in DOMAIN n /\ Placed(n, b)
            /\ cache[i].key = Screen!Key(v, n, i, b)
            /\ cache[i].lines = Screen!DrawUnit(v, n, i, b)
    BY <2>1 DEF CacheIsSound
  <2>3. Screen!Key(w, msgs, i, at) = Screen!Key(v, n, i, b)
    BY <2>1, <2>2
  <2>4. Screen!DrawUnit(w, msgs, i, at) = Screen!DrawUnit(v, n, i, b)
    BY <2>2, <2>3, KeyTells
  <2>. QED  BY <2>1, <2>2, <2>4
<1>2. CASE ~Screen!Served(cache, w, msgs, i, at)
  BY <1>2 DEF Screen!UnitLines
<1>. QED  BY <1>1, <1>2

\* A cache that holds nothing serves nothing.
LEMMA NoCacheIsSound == CacheIsSound(Screen!NoLines)
  BY DEF CacheIsSound, Screen!NoLines

\* "A cache-served rebuild is byte-identical to a cold rebuild."
LEMMA RenderedAsCold ==
  ASSUME NEW outputs, NEW cache, CacheIsSound(cache), NEW w, w \in {1, 2}, NEW msgs \in Texts,
         NEW at \in Nat, Placed(msgs, at)
  PROVE  \A i \in 0..Len(msgs) : Screen!RenderInto(outputs, cache, w, msgs, at)[i]
                               = Screen!RenderInto(outputs, Screen!NoLines, w, msgs, at)[i]
<1>. DEFINE R == Screen!RenderInto(outputs, cache, w, msgs, at)
            Q == Screen!RenderInto(outputs, Screen!NoLines, w, msgs, at)
<1>1. /\ \A k \in 0..Len(msgs) : R[k] = RenderStep(R[k - 1], outputs, cache, w, msgs, at, k)
      /\ \A k \in 0..Len(msgs) : Q[k] = RenderStep(Q[k - 1], outputs, Screen!NoLines, w, msgs, at, k)
  BY RenderIs
<1>2. Len(msgs) \in Nat /\ DOMAIN msgs = 1..Len(msgs)
  BY DEF Texts
<1>. HIDE DEF R, Q
<1>3. R[0] = Q[0]
  BY <1>1, <1>2 DEF RenderStep
<1>. DEFINE Same == {k \in 0..Len(msgs) : R[k] = Q[k]}
<1>4. 0 \in Same
  BY <1>2, <1>3
<1>5. ASSUME NEW k \in 0..(Len(msgs) - 1), k \in Same  PROVE k + 1 \in Same
  <2>1. k + 1 \in 0..Len(msgs) /\ k + 1 # 0 /\ (k + 1) - 1 = k /\ k + 1 \in DOMAIN msgs
    BY <1>2
  <2>2. Screen!UnitLines(cache, w, msgs, k + 1, at)
        = Screen!UnitLines(Screen!NoLines, w, msgs, k + 1, at)
    BY <2>1, NoCacheIsSound, ServedIsDrawn
  <2>3. R[k] = Q[k]
    BY <1>5
  <2>4. R[k + 1] = Q[k + 1]
    BY <1>1, <2>1, <2>2, <2>3 DEF RenderStep, Screen!AddUnit
  <2>. QED  BY <2>1, <2>4
<1>6. 0..Len(msgs) \subseteq Same
  <2>. HIDE DEF Same
  <2>. QED  BY <1>2, <1>4, <1>5, SetInduction
<1>7. \A i \in 0..Len(msgs) : R[i] = Q[i]
  BY <1>6
<1>. QED  BY <1>7 DEF R, Q

\* Outputs are drawn from the next one on.
LEMMA ThroughIs ==
  ASSUME NEW outputs \in Seq(Nat), NEW next \in 1..(Len(outputs) + 1), NEW last \in Nat
  PROVE  Screen!Through(outputs, next, last) \in next..(Len(outputs) + 1)
<1>. DEFINE later == {k \in next..Len(outputs) : outputs[k] > last}
<1>1. later \subseteq Nat
  OBVIOUS
<1>2. later # {} => Screen!Min(later) \in later
  <2>. HIDE DEF later
  <2>. QED  BY <1>1, MinOf
<1>. QED  BY <1>2 DEF Screen!Through

\* Drawn from nothing, a unit is lines.
LEMMA UnitLinesType ==
  ASSUME NEW w \in {1, 2}, NEW msgs \in Texts, NEW i \in DOMAIN msgs, NEW at
  PROVE  Screen!UnitLines(Screen!NoLines, w, msgs, i, at) \in Seq(Lines)
<1>1. Screen!UnitLines(Screen!NoLines, w, msgs, i, at) = Screen!DrawUnit(w, msgs, i, at)
  BY DEF Screen!UnitLines, Screen!Served, Screen!NoLines
<1>. QED  BY <1>1, UnitType

Drawings(outputs) == [lines : Seq(Lines), next : 1..(Len(outputs) + 1)]

\* What is drawn is lines, and the next output is one that is kept or the one to come.
LEMMA RenderType ==
  ASSUME NEW outputs \in Seq(Nat), NEW w \in {1, 2}, NEW msgs \in Texts, NEW at, NEW i \in 0..Len(msgs)
  PROVE  Screen!RenderInto(outputs, Screen!NoLines, w, msgs, at)[i] \in Drawings(outputs)
<1>. DEFINE R == Screen!RenderInto(outputs, Screen!NoLines, w, msgs, at)
            Good == {k \in 0..Len(msgs) : R[k] \in Drawings(outputs)}
<1>1. \A k \in 0..Len(msgs) : R[k] = RenderStep(R[k - 1], outputs, Screen!NoLines, w, msgs, at, k)
  BY RenderIs
<1>2. Len(msgs) \in Nat /\ DOMAIN msgs = 1..Len(msgs) /\ Len(outputs) \in Nat
  BY DEF Texts
<1>. HIDE DEF R
<1>3. 0 \in Good
  <2>1. Screen!Through(outputs, 1, 0) \in 1..(Len(outputs) + 1)
    BY <1>2, ThroughIs
  <2>2. Screen!Printed(1, Screen!Through(outputs, 1, 0) - 1) \in Seq(Lines)
    BY <1>2, <2>1, PrintedType
  <2>. QED  BY <1>1, <1>2, <2>1, <2>2 DEF RenderStep, Drawings
<1>4. ASSUME NEW k \in 0..(Len(msgs) - 1), k \in Good  PROVE k + 1 \in Good
  <2>1. k + 1 \in 0..Len(msgs) /\ k + 1 # 0 /\ (k + 1) - 1 = k /\ k + 1 \in DOMAIN msgs
    BY <1>2
  <2>2. R[k] \in Drawings(outputs) /\ R[k].next \in 1..(Len(outputs) + 1) /\ R[k].lines \in Seq(Lines)
    BY <1>4 DEF Drawings
  <2>3. R[k + 1] = RenderStep(R[k], outputs, Screen!NoLines, w, msgs, at, k + 1)
    BY <1>1, <2>1
  <2>4. CASE k + 1 \notin Screen!Heads(msgs)
    BY <2>1, <2>2, <2>3, <2>4 DEF RenderStep
  <2>5. CASE k + 1 \in Screen!Heads(msgs)
    <3>. DEFINE next == IF Screen!Streams(msgs, k + 1, at) THEN R[k].next
                        ELSE Screen!Through(outputs, R[k].next, Screen!UnitEnd(msgs, k + 1))
                unit == Screen!UnitLines(Screen!NoLines, w, msgs, k + 1, at)
    <3>1. Screen!UnitEnd(msgs, k + 1) \in Nat
      BY <1>2, <2>1, UnitEndIs
    <3>7. Screen!Through(outputs, R[k].next, Screen!UnitEnd(msgs, k + 1)) \in R[k].next..(Len(outputs) + 1)
      BY <2>2, <3>1, ThroughIs
    <3>2. next \in R[k].next..(Len(outputs) + 1)
      BY <1>2, <2>2, <3>7
    <3>3. Screen!Printed(R[k].next, next - 1) \in Seq(Lines)
      <4>. HIDE DEF next
      <4>1. /\ R[k].next \in Nat \ {0} /\ next - 1 \in Nat
            /\ R[k].next <= (next - 1) + 1
        BY <1>2, <2>2, <3>2
      <4>. QED  BY <4>1, PrintedType
    <3>4. unit \in Seq(Lines)
      BY <2>1, UnitLinesType
    <3>5. R[k + 1] = [lines |-> R[k].lines \o unit \o Screen!Printed(R[k].next, next - 1), next |-> next]
      BY <2>1, <2>3, <2>5 DEF RenderStep, Screen!AddUnit
    <3>. HIDE DEF next, unit
    <3>6. R[k + 1] \in Drawings(outputs)
      BY <1>2, <2>2, <3>2, <3>3, <3>4, <3>5 DEF Drawings
    <3>. QED  BY <2>1, <3>6
  <2>. QED  BY <2>4, <2>5
<1>5. 0..Len(msgs) \subseteq Good
  <2>. HIDE DEF Good
  <2>. QED  BY <1>2, <1>3, <1>4, SetInduction
<1>. QED  BY <1>5 DEF R

\* One more output is one more line.
LEMMA PrintedMore ==
  ASSUME NEW from \in Nat \ {0}, NEW to \in Nat, from <= to + 1
  PROVE  Screen!Printed(from, to + 1)
         = Append(Screen!Printed(from, to), Screen!Line("print", to + 1, 0))
<1>. DEFINE f(k) == Screen!Line("print", from + k - 1, 0)
            n == to - from + 1
<1>1. n \in Nat /\ (to + 1) - from + 1 = n + 1 /\ f(n + 1) = Screen!Line("print", to + 1, 0)
  OBVIOUS
<1>2. [k \in 1..(n + 1) |-> f(k)] = Append([k \in 1..n |-> f(k)], f(n + 1))
  <2>. HIDE DEF f, n
  <2>. QED  BY <1>1
<1>. QED  BY <1>1, <1>2 DEF Screen!Printed

\* A line added below the last of three parts is added below them all.
LEMMA AppendBelow ==
  ASSUME NEW a \in Seq(Lines), NEW b \in Seq(Lines), NEW c \in Seq(Lines), NEW l \in Lines
  PROVE  a \o b \o Append(c, l) = Append(a \o b \o c, l)
OBVIOUS

\* What one unit adds to what is drawn.
LEMMA Added ==
  ASSUME NEW drawn, NEW outputs, NEW cache, NEW w, NEW msgs, NEW i, NEW at, NEW next,
         next = IF Screen!Streams(msgs, i, at) THEN drawn.next
                ELSE Screen!Through(outputs, drawn.next, Screen!UnitEnd(msgs, i))
  PROVE  LET sum == Screen!AddUnit(drawn, outputs, cache, w, msgs, i, at)
         IN  /\ sum.next = next
             /\ sum.lines = drawn.lines \o Screen!UnitLines(cache, w, msgs, i, at)
                            \o Screen!Printed(drawn.next, next - 1)
BY DEF Screen!AddUnit

\* The outputs with one printed after m messages.
With(outputs, m) == Append(outputs, m)

\* What is printed now belongs below the last message.
LEMMA PrintedLast ==
  ASSUME NEW outputs \in Seq(Nat), NEW m \in Nat
  PROVE  \A next \in 1..(Len(outputs) + 1), last \in Nat :
           /\ last < m => Screen!Through(With(outputs, m), next, last) = Screen!Through(outputs, next, last)
           /\ last >= m => Screen!Through(With(outputs, m), next, last)
                           = IF Screen!Through(outputs, next, last) = Len(outputs) + 1
                             THEN Len(outputs) + 2 ELSE Screen!Through(outputs, next, last)
<1>. SUFFICES ASSUME NEW next \in 1..(Len(outputs) + 1), NEW last \in Nat
              PROVE  /\ last < m => Screen!Through(With(outputs, m), next, last) = Screen!Through(outputs, next, last)
                     /\ last >= m => Screen!Through(With(outputs, m), next, last)
                                     = IF Screen!Through(outputs, next, last) = Len(outputs) + 1
                                       THEN Len(outputs) + 2 ELSE Screen!Through(outputs, next, last)
  OBVIOUS
<1>. DEFINE later == {k \in next..Len(outputs) : outputs[k] > last}
            latest == {k \in next..Len(With(outputs, m)) : With(outputs, m)[k] > last}
<1>1. /\ Len(outputs) \in Nat /\ Len(With(outputs, m)) = Len(outputs) + 1 /\ With(outputs, m)[Len(outputs) + 1] = m
      /\ \A k \in next..Len(outputs) : With(outputs, m)[k] = outputs[k]
  BY DEF With
<1>2. latest = IF last < m THEN later \cup {Len(outputs) + 1} ELSE later
  BY <1>1
<1>3. later \subseteq Nat /\ \A k \in later : k < Len(outputs) + 1
  BY <1>1
<1>. DEFINE least(S) == CHOOSE x \in S : \A y \in S : x <= y
<1>4. /\ Screen!Through(outputs, next, last) = IF later = {} THEN Len(outputs) + 1 ELSE least(later)
      /\ Screen!Through(With(outputs, m), next, last) = IF latest = {} THEN Len(With(outputs, m)) + 1 ELSE least(latest)
  BY Zenon DEF Screen!Through, Screen!Min
<1>. HIDE DEF later, latest
<1>5. \A S : S \subseteq Nat /\ S # {} => least(S) \in S /\ \A y \in S : least(S) <= y
  BY MinOf DEF Screen!Min
<1>. HIDE DEF least
<1>6. CASE last < m
  <2>1. latest = later \cup {Len(outputs) + 1}
    BY <1>2, <1>6
  <2>5. Len(outputs) + 1 \in Nat
    BY <1>1
  <2>6. latest \subseteq Nat /\ latest # {}
    BY <1>3, <2>1, <2>5
  <2>2. least(latest) \in latest /\ \A y \in latest : least(latest) <= y
    BY <1>5, <2>6
  <2>3. CASE later = {}
    BY <1>1, <1>4, <1>6, <2>1, <2>2, <2>3
  <2>4. CASE later # {}
    <3>1. least(later) \in later /\ \A y \in later : least(later) <= y
      BY <1>3, <1>5, <2>4
    <3>2. least(latest) = least(later)
      <4>1. PICK x : x = least(latest) /\ x \in latest /\ \A z \in latest : x <= z
        BY <2>2
      <4>2. PICK y : y = least(later) /\ y \in later /\ \A z \in later : y <= z
        BY <3>1
      <4>3. x <= y /\ y \in Nat /\ y < Len(outputs) + 1 /\ x \in Nat
        BY <1>3, <2>1, <2>6, <4>1, <4>2
      <4>4. x # Len(outputs) + 1
        BY <1>1, <4>3
      <4>5. y <= x
        BY <2>1, <4>1, <4>2, <4>4
      <4>. QED  BY <4>1, <4>2, <4>3, <4>5
    <3>. QED  BY <1>1, <1>4, <1>6, <2>1, <2>4, <3>2
  <2>. QED  BY <2>3, <2>4
<1>7. CASE last >= m
  <2>1. latest = later
    BY <1>2, <1>7
  <2>2. later # {} => least(later) \in later
    BY <1>3, <1>5
  <2>. QED  BY <1>1, <1>3, <1>4, <1>7, <2>1, <2>2
<1>. QED  BY <1>6, <1>7

\* What a rebuild draws from nothing, without what comes below the last unit.
Cold(outputs, w, msgs, at) == Screen!RenderInto(outputs, Screen!NoLines, w, msgs, at)[Len(msgs)]

\* Of n outputs and of one more: the same is drawn, or that one below it.
OneBelow(old, new, at, n) ==
    \/ new = old
    \/ /\ at = Screen!None /\ old.next = n + 1 /\ new.next = n + 2
       /\ new.lines = Append(old.lines, Screen!Line("print", n + 1, 0))

\* An output printed now is drawn where a rebuild would draw it: below everything, or
\* with what waits below the text that streams.
LEMMA PrintedBelow ==
  ASSUME NEW outputs \in Seq(Nat), NEW w, w \in {1, 2}, NEW msgs \in Texts, NEW at \in Nat,
         Placed(msgs, at), at = Screen!None \/ at = Len(msgs),
         NEW m \in Nat, m = Len(msgs)
  PROVE  OneBelow(Cold(outputs, w, msgs, at), Cold(With(outputs, m), w, msgs, at), at, Len(outputs))
<1>. DEFINE R == Screen!RenderInto(outputs, Screen!NoLines, w, msgs, at)
            more == With(outputs, m)
            P == Screen!RenderInto(more, Screen!NoLines, w, msgs, at)
            p == Screen!Line("print", Len(outputs) + 1, 0)
<1>0. PICK n \in Nat : n = Len(outputs)
  OBVIOUS
<1>. DEFINE Last(k) == \A j \in Screen!Heads(msgs) : j <= k
            Printed(k) == /\ at = Screen!None /\ Last(k)
                          /\ R[k].next = n + 1 /\ P[k].next = n + 2
                          /\ P[k].lines = Append(R[k].lines, p)
            Good == {k \in 0..Len(msgs) : P[k] = R[k] \/ Printed(k)}
<1>1. /\ \A k \in 0..Len(msgs) : R[k] = RenderStep(R[k - 1], outputs, Screen!NoLines, w, msgs, at, k)
      /\ \A k \in 0..Len(msgs) : P[k] = RenderStep(P[k - 1], more, Screen!NoLines, w, msgs, at, k)
  BY RenderIs
<1>2. /\ Len(msgs) \in Nat /\ DOMAIN msgs = 1..Len(msgs) /\ Screen!Heads(msgs) \subseteq 1..Len(msgs)
      /\ Len(more) = n + 1
  BY <1>0 DEF Texts, Screen!Heads, With
<1>3. \A k \in 0..Len(msgs) : R[k] \in Drawings(outputs)
  BY RenderType
<1>4. \A next \in 1..(n + 1), last \in Nat :
        /\ last < m => Screen!Through(more, next, last) = Screen!Through(outputs, next, last)
        /\ last >= m => Screen!Through(more, next, last)
                        = IF Screen!Through(outputs, next, last) = n + 1 THEN n + 2
                          ELSE Screen!Through(outputs, next, last)
  <2>1. \A next \in 1..(Len(outputs) + 1), last \in Nat :
           /\ last < m => Screen!Through(more, next, last) = Screen!Through(outputs, next, last)
           /\ last >= m => Screen!Through(more, next, last)
                           = IF Screen!Through(outputs, next, last) = Len(outputs) + 1
                             THEN Len(outputs) + 2 ELSE Screen!Through(outputs, next, last)
    BY PrintedLast, Zenon
  <2>. QED  BY <1>0, <2>1, Zenon
<1>. HIDE DEF R, P, p, more
<1>5. \A from \in 1..(n + 1) : Screen!Printed(from, n + 1) = Append(Screen!Printed(from, n), p)
  <2>. SUFFICES ASSUME NEW from \in 1..(n + 1)
                PROVE  Screen!Printed(from, n + 1) = Append(Screen!Printed(from, n), p)
    OBVIOUS
  <2>1. from \in Nat \ {0} /\ from <= n + 1 /\ p = Screen!Line("print", n + 1, 0)
    BY <1>0 DEF p
  <2>. QED  BY <2>1, PrintedMore
<1>. HIDE DEF Last
<1>6. 0 \in Good
  <2>. DEFINE first == Screen!Through(outputs, 1, 0)
              after == Screen!Through(more, 1, 0)
  <2>1. /\ R[0] = [lines |-> Screen!Printed(1, first - 1), next |-> first]
        /\ P[0] = [lines |-> Screen!Printed(1, after - 1), next |-> after]
    BY <1>1, <1>2 DEF RenderStep
  <2>2. 1 \in 1..(n + 1) /\ 0 \in Nat
    BY <1>2
  <2>3. CASE after = first
    BY <1>2, <2>1, <2>3
  <2>4. CASE after # first
    <3>1. Len(msgs) = 0 /\ first = n + 1 /\ after = n + 2
      BY <1>2, <1>4, <2>2, <2>4
    <3>2. at = Screen!None
      BY <3>1 DEF Screen!None
    <3>3. Last(0)
      BY <1>2, <3>1 DEF Last
    <3>4. Screen!Printed(1, after - 1) = Append(Screen!Printed(1, first - 1), p)
      <4>1. after - 1 = n + 1 /\ first - 1 = n
        BY <3>1
      <4>. HIDE DEF after, first
      <4>. QED  BY <1>5, <2>2, <4>1
    <3>. QED  BY <1>2, <2>1, <3>1, <3>2, <3>3, <3>4
  <2>. QED  BY <2>3, <2>4
<1>7. ASSUME NEW k \in 0..(Len(msgs) - 1), k \in Good  PROVE k + 1 \in Good
  <2>1. k \in 0..Len(msgs) /\ k + 1 \in 0..Len(msgs) /\ k + 1 # 0 /\ (k + 1) - 1 = k
        /\ k + 1 \in DOMAIN msgs
    BY <1>2
  <2>2. /\ R[k + 1] = RenderStep(R[k], outputs, Screen!NoLines, w, msgs, at, k + 1)
        /\ P[k + 1] = RenderStep(P[k], more, Screen!NoLines, w, msgs, at, k + 1)
    BY <1>1, <2>1
  <2>3. CASE k + 1 \notin Screen!Heads(msgs)
    <3>1. R[k + 1] = R[k] /\ P[k + 1] = P[k]
      BY <2>1, <2>2, <2>3 DEF RenderStep
    <3>2. Last(k) => Last(k + 1)
      BY <1>2, <2>1 DEF Last
    <3>. QED  BY <1>7, <2>1, <3>1, <3>2
  <2>4. CASE k + 1 \in Screen!Heads(msgs)
    <3>. DEFINE e == Screen!UnitEnd(msgs, k + 1)
    <3>1. ~Last(k)
      BY <1>2, <2>1, <2>4 DEF Last
    <3>2. P[k] = R[k]
      BY <1>7, <3>1
    <3>3. PICK next : next = IF Screen!Streams(msgs, k + 1, at) THEN R[k].next
                             ELSE Screen!Through(outputs, R[k].next, e)
      OBVIOUS
    <3>4. PICK late : late = IF Screen!Streams(msgs, k + 1, at) THEN R[k].next
                             ELSE Screen!Through(more, R[k].next, e)
      OBVIOUS
    <3>5. PICK unit : unit = Screen!UnitLines(Screen!NoLines, w, msgs, k + 1, at)
      OBVIOUS
    <3>6. PICK from : from = R[k].next
      OBVIOUS
    <3>7. PICK above : above = R[k].lines
      OBVIOUS
    <3>8. /\ R[k + 1] = Screen!AddUnit(R[k], outputs, Screen!NoLines, w, msgs, k + 1, at)
          /\ P[k + 1] = Screen!AddUnit(R[k], more, Screen!NoLines, w, msgs, k + 1, at)
      BY <2>1, <2>2, <2>4, <3>2 DEF RenderStep
    <3>9. /\ R[k + 1].next = next /\ R[k + 1].lines = above \o unit \o Screen!Printed(from, next - 1)
          /\ P[k + 1].next = late /\ P[k + 1].lines = above \o unit \o Screen!Printed(from, late - 1)
      <4>1. /\ R[k + 1].next = next
            /\ R[k + 1].lines = R[k].lines \o Screen!UnitLines(Screen!NoLines, w, msgs, k + 1, at)
                               \o Screen!Printed(R[k].next, next - 1)
        <5>1. PICK sum : sum = Screen!AddUnit(R[k], outputs, Screen!NoLines, w, msgs, k + 1, at)
          OBVIOUS
        <5>2. /\ sum.next = next
              /\ sum.lines = R[k].lines \o Screen!UnitLines(Screen!NoLines, w, msgs, k + 1, at)
                            \o Screen!Printed(R[k].next, next - 1)
          BY <3>3, <5>1 DEF Screen!AddUnit
        <5>. QED  BY <3>8, <5>1, <5>2
      <4>2. /\ P[k + 1].next = late
            /\ P[k + 1].lines = R[k].lines \o Screen!UnitLines(Screen!NoLines, w, msgs, k + 1, at)
                               \o Screen!Printed(R[k].next, late - 1)
        <5>1. PICK sum : sum = Screen!AddUnit(R[k], more, Screen!NoLines, w, msgs, k + 1, at)
          OBVIOUS
        <5>2. /\ sum.next = late
              /\ sum.lines = R[k].lines \o Screen!UnitLines(Screen!NoLines, w, msgs, k + 1, at)
                            \o Screen!Printed(R[k].next, late - 1)
          BY <3>4, <5>1 DEF Screen!AddUnit
        <5>. QED  BY <3>8, <5>1, <5>2
      <4>. QED  BY <3>5, <3>6, <3>7, <4>1, <4>2
    <3>10. from \in 1..(n + 1) /\ above \in Seq(Lines)
      BY <1>0, <1>3, <2>1, <3>6, <3>7 DEF Drawings
    <3>11. e \in (k + 1)..Len(msgs) /\ e \in Nat
      BY <1>2, <2>1, UnitEndIs
    <3>12. unit \in Seq(Lines)
      BY <2>1, <3>5, UnitLinesType
    <3>13. CASE late = next
      <4>1. R[k + 1] = P[k + 1]
        BY <3>3, <3>4, <3>8, <3>13, Zenon DEF Screen!AddUnit
      <4>. QED  BY <2>1, <4>1
    <3>14. CASE late # next
      <4>0. ~Screen!Streams(msgs, k + 1, at)
        BY <3>3, <3>4, <3>14
      <4>1. e >= m /\ next = n + 1 /\ late = n + 2
        <5>. HIDE DEF e
        <5>1. next = Screen!Through(outputs, from, e) /\ late = Screen!Through(more, from, e)
          BY <3>3, <3>4, <3>6, <4>0
        <5>2. /\ e < m => late = next
              /\ e >= m => late = IF next = n + 1 THEN n + 2 ELSE next
          BY <1>4, <3>10, <3>11, <5>1
        <5>. QED  BY <3>11, <3>14, <5>2
      <4>2. e = Len(msgs)
        BY <1>2, <3>11, <4>1
      <4>3. at = Screen!None
        BY <1>2, <2>1, <3>11, <4>0, <4>2 DEF Screen!Streams
      <4>4. Last(k + 1)
        <5>1. ASSUME NEW j \in Screen!Heads(msgs), k + 1 < j  PROVE FALSE
          BY <1>2, <2>4, <4>2, <5>1, UnitsInTurn
        <5>. QED  BY <1>2, <2>1, <5>1 DEF Last
      <4>. HIDE DEF e
      <4>5. PICK low : low = Screen!Printed(from, n)
        OBVIOUS
      <4>6. low \in Seq(Lines) /\ Screen!Printed(from, n + 1) = Append(low, p)
        <5>1. from \in Nat \ {0} /\ from <= n + 1
          BY <3>10
        <5>2. Screen!Printed(from, n) \in Seq(Lines)
          BY <5>1, PrintedType
        <5>. QED  BY <1>5, <3>10, <4>5, <5>2
      <4>7. p \in Lines
        BY <1>0, <1>2 DEF p, Screen!Line, Lines
      <4>8. next - 1 = n /\ late - 1 = n + 1
        BY <4>1
      <4>9. R[k + 1].lines = above \o unit \o low /\ P[k + 1].lines = above \o unit \o Append(low, p)
        BY <3>9, <4>5, <4>6, <4>8, Zenon
      <4>10. above \o unit \o Append(low, p) = Append(above \o unit \o low, p)
        BY <3>10, <3>12, <4>6, <4>7, AppendBelow
      <4>11. P[k + 1].lines = Append(R[k + 1].lines, p)
        BY <4>9, <4>10, Zenon
      <4>12. R[k + 1].next = n + 1 /\ P[k + 1].next = n + 2
        BY <3>9, <4>1
      <4>. QED  BY <2>1, <4>3, <4>4, <4>11, <4>12
    <3>. QED  BY <3>13, <3>14
  <2>. QED  BY <2>3, <2>4
<1>8. 0..Len(msgs) \subseteq Good
  <2>. HIDE DEF Good
  <2>. QED  BY <1>2, <1>6, <1>7, SetInduction
<1>9. Len(msgs) \in Good
  BY <1>2, <1>8
<1>. QED  BY <1>0, <1>2, <1>9 DEF R, P, p, more, Cold, OneBelow

----------------------------------------------------------------------------
(* While a text streams.                                                    *)

\* Two transcripts that differ in the text of one answer.
Alike(m, n, at) ==
    /\ Len(m) = Len(n) /\ at \in DOMAIN m
    /\ Screen!Is(m, at, "assistant") /\ Screen!Is(n, at, "assistant")
    /\ \A i \in DOMAIN m : i # at => m[i] = n[i]

\* They have the same units.
LEMMA UnitsAlike ==
  ASSUME NEW m \in Texts, NEW n \in Texts, NEW at, Alike(m, n, at)
  PROVE  /\ Screen!Heads(m) = Screen!Heads(n)
         /\ \A i \in DOMAIN m : Screen!UnitEnd(m, i) = Screen!UnitEnd(n, i)
<1>1. Len(m) \in Nat /\ Len(n) = Len(m) /\ DOMAIN m = 1..Len(m) /\ DOMAIN n = 1..Len(m)
  BY DEF Texts, Alike
<1>2. \A i \in 1..Len(m) : m[i].role = n[i].role
  BY <1>1 DEF Alike, Screen!Is
<1>3. ASSUME NEW i \in 1..Len(m)
      PROVE  Screen!Stretch(m, i) = Screen!Stretch(n, i)
  <2>1. \A j \in i..Len(m) : \A k \in i..j : k \in 1..Len(m)
    BY <1>1
  <2>. QED  BY <1>1, <1>2, <2>1 DEF Screen!Stretch, Screen!Is
<1>4. ASSUME NEW i \in 1..Len(m)
      PROVE  Screen!TurnEnd(m, i) = Screen!TurnEnd(n, i)
  <2>1. \A j \in Screen!Stretch(m, i) : j \in 1..Len(m)
    BY <1>1 DEF Screen!Stretch
  <2>2. {j \in Screen!Stretch(m, i) : Screen!Is(m, j, "assistant")}
        = {j \in Screen!Stretch(n, i) : Screen!Is(n, j, "assistant")}
    BY <1>2, <1>3, <2>1 DEF Screen!Is
  <2>. QED  BY <2>2 DEF Screen!TurnEnd
<1>5. \A j \in 1..Len(m) : \A i \in 1..(j - 1) : i \in 1..Len(m)
  BY <1>1
<1>6. \A i \in 1..Len(m) : Screen!Is(m, i, "assistant") = Screen!Is(n, i, "assistant")
  BY <1>2 DEF Screen!Is
<1>7. Screen!Inside(m) = Screen!Inside(n)
  BY <1>1, <1>3, <1>4, <1>5, <1>6 DEF Screen!Inside
<1>8. Screen!Heads(m) = Screen!Heads(n)
  BY <1>1, <1>7 DEF Screen!Heads
<1>9. \A i \in DOMAIN m : Screen!UnitEnd(m, i) = Screen!UnitEnd(n, i)
  BY <1>1, <1>4, <1>6 DEF Screen!UnitEnd
<1>. QED  BY <1>8, <1>9

\* So all but that text is drawn as it was.
LEMMA DrawnAlike ==
  ASSUME NEW outputs, NEW w, w \in {1, 2}, NEW m \in Texts, NEW n \in Texts, NEW at, Alike(m, n, at)
  PROVE  Cold(outputs, w, m, at) = Cold(outputs, w, n, at)
<1>. DEFINE R == Screen!RenderInto(outputs, Screen!NoLines, w, m, at)
            Q == Screen!RenderInto(outputs, Screen!NoLines, w, n, at)
<1>1. /\ \A k \in 0..Len(m) : R[k] = RenderStep(R[k - 1], outputs, Screen!NoLines, w, m, at, k)
      /\ \A k \in 0..Len(n) : Q[k] = RenderStep(Q[k - 1], outputs, Screen!NoLines, w, n, at, k)
  BY RenderIs
<1>2. Len(m) \in Nat /\ Len(n) = Len(m) /\ DOMAIN m = 1..Len(m) /\ DOMAIN n = 1..Len(m)
  BY DEF Texts, Alike
<1>. HIDE DEF R, Q
<1>3. R[0] = Q[0]
  BY <1>1, <1>2 DEF RenderStep
<1>4. Placed(m, at) /\ Placed(n, at)
  BY <1>2 DEF Placed, Alike
<1>5. ASSUME NEW k \in 1..Len(m)
      PROVE  Screen!UnitLines(Screen!NoLines, w, m, k, at) = Screen!UnitLines(Screen!NoLines, w, n, k, at)
  <2>1. /\ Screen!UnitEnd(m, k) = Screen!UnitEnd(n, k)
        /\ Screen!UnitEnd(m, k) \in k..Len(m)
    BY <1>2, UnitsAlike, UnitEndIs
  <2>2. \A j \in k..Screen!UnitEnd(m, k) :
          (IF j = at THEN [m[j] EXCEPT !.text = 0] ELSE m[j])
          = (IF j = at THEN [n[j] EXCEPT !.text = 0] ELSE n[j])
    <3>1. ASSUME NEW j \in k..Screen!UnitEnd(m, k)
          PROVE  (IF j = at THEN [m[j] EXCEPT !.text = 0] ELSE m[j])
                 = (IF j = at THEN [n[j] EXCEPT !.text = 0] ELSE n[j])
      <4>1. j \in 1..Len(m) /\ m[j] \in Screen!Messages /\ n[j] \in Screen!Messages
        BY <1>2, <2>1 DEF Texts
      <4>2. CASE j # at
        BY <1>2, <4>1, <4>2 DEF Alike
      <4>3. CASE j = at
        BY <4>1, <4>3 DEF Alike, Screen!Is, Screen!Messages
      <4>. QED  BY <4>2, <4>3
    <3>. QED  BY <3>1
  <2>3. Screen!Streams(m, k, at) = Screen!Streams(n, k, at)
    BY <2>1 DEF Screen!Streams
  <2>4. Screen!Key(w, m, k, at) = Screen!Key(w, n, k, at)
    BY <2>1, <2>2, <2>3 DEF Screen!Key
  <2>5. Screen!DrawUnit(w, m, k, at) = Screen!DrawUnit(w, n, k, at)
    BY <1>2, <1>4, <2>4, KeyTells
  <2>. QED  BY <2>5 DEF Screen!UnitLines, Screen!Served, Screen!NoLines
<1>. DEFINE Same == {k \in 0..Len(m) : R[k] = Q[k]}
<1>6. 0 \in Same
  BY <1>2, <1>3
<1>7. ASSUME NEW k \in 0..(Len(m) - 1), k \in Same  PROVE k + 1 \in Same
  <2>1. k + 1 \in 0..Len(m) /\ k + 1 # 0 /\ (k + 1) - 1 = k /\ k + 1 \in 1..Len(m)
    BY <1>2
  <2>2. Screen!UnitLines(Screen!NoLines, w, m, k + 1, at) = Screen!UnitLines(Screen!NoLines, w, n, k + 1, at)
    BY <1>5, <2>1
  <2>3. R[k] = Q[k]
    BY <1>7
  <2>4. Screen!UnitEnd(m, k + 1) = Screen!UnitEnd(n, k + 1) /\ Screen!Heads(m) = Screen!Heads(n)
    BY <1>2, <2>1, UnitsAlike
  <2>5. Screen!AddUnit(R[k], outputs, Screen!NoLines, w, m, k + 1, at)
        = Screen!AddUnit(R[k], outputs, Screen!NoLines, w, n, k + 1, at)
    BY <2>2, <2>4 DEF Screen!AddUnit, Screen!Streams
  <2>6. R[k + 1] = Q[k + 1]
    BY <1>1, <1>2, <2>1, <2>3, <2>4, <2>5 DEF RenderStep
  <2>. QED  BY <2>1, <2>6
<1>8. 0..Len(m) \subseteq Same
  <2>. HIDE DEF Same
  <2>. QED  BY <1>2, <1>6, <1>7, SetInduction
<1>9. \A i \in 0..Len(m) : R[i] = Q[i]
  BY <1>8
<1>. QED  BY <1>2, <1>9 DEF R, Q, Cold

----------------------------------------------------------------------------
(* What a clean screen shows.                                               *)

ViewFields == {"lines", "dirty", "width", "splash", "streams", "start", "streamWidth",
               "trailFrom", "trailLines", "cache"}

\* There is nothing to draw: the splash is.
Quiet(msgs, outputs) == outputs = <<>> /\ \A i \in DOMAIN msgs : Screen!Is(msgs, i, "notice")

Streamed(w, msgs, at) == IF at # Screen!None THEN Screen!TextLines(w, at, msgs[at].text) ELSE <<>>

\* The lines are what a rebuild draws, the text that streams, and what was printed
\* below it; and where each of them begins is known.
Stacked(v, msgs, outputs, at, drawn) ==
    LET rest == Screen!Printed(drawn.next, Len(outputs))
    IN  /\ v.lines = drawn.lines \o Streamed(v.width, msgs, at) \o rest
        /\ at # Screen!None =>
             /\ v.start = Len(drawn.lines) /\ v.streamWidth = v.width
             /\ v.trailLines = Len(rest)
             /\ v.trailFrom = IF rest = <<>> THEN Screen!Never ELSE drawn.next

\* The screen is that of a rebuild from nothing at the width it was built for.
Shown(v, msgs, outputs) ==
    IF Quiet(msgs, outputs) THEN v.splash /\ v.lines = <<Screen!Line("splash", 0, 0)>>
    ELSE LET at == Screen!StreamingAt(v, msgs)
         IN  /\ ~v.splash
             /\ Stacked(v, msgs, outputs, at, Cold(outputs, v.width, msgs, at))

\* The text that streams, as a rebuild finds it, is of an answer and the last message.
LEMMA StreamingPlace ==
  ASSUME NEW v, NEW msgs \in Texts
  PROVE  LET at == Screen!StreamingAt(v, msgs)
         IN  at \in Nat /\ Placed(msgs, at) /\ (at = Screen!None \/ at = Len(msgs))
<1>1. Len(msgs) \in Nat /\ DOMAIN msgs = 1..Len(msgs)
  BY DEF Texts
<1>2. msgs # <<>> => Len(msgs) \in DOMAIN msgs
  BY <1>1 DEF Texts
<1>. QED  BY <1>1, <1>2 DEF Screen!StreamingAt, Placed, Screen!None

\* What is kept of a rebuild is sound.
LEMMA KeptIsSound ==
  ASSUME NEW cache, CacheIsSound(cache), NEW w \in {1, 2}, NEW msgs \in Texts, NEW at \in Nat,
         Placed(msgs, at)
  PROVE  CacheIsSound([i \in Screen!Heads(msgs) |->
                          [key   |-> Screen!Key(w, msgs, i, at),
                           lines |-> Screen!UnitLines(cache, w, msgs, i, at)]])
<1>. DEFINE all == [i \in Screen!Heads(msgs) |->
                          [key   |-> Screen!Key(w, msgs, i, at),
                           lines |-> Screen!UnitLines(cache, w, msgs, i, at)]]
<1>1. ASSUME NEW i \in DOMAIN all
      PROVE  /\ i \in DOMAIN msgs /\ all[i].key = Screen!Key(w, msgs, i, at)
             /\ all[i].lines = Screen!DrawUnit(w, msgs, i, at)
  <2>1. i \in Screen!Heads(msgs) /\ i \in DOMAIN msgs
    BY DEF Screen!Heads
  <2>2. Screen!UnitLines(cache, w, msgs, i, at) = Screen!DrawUnit(w, msgs, i, at)
    BY <2>1, ServedIsDrawn
  <2>. QED  BY <2>1, <2>2
<1>. HIDE DEF all
<1>2. CacheIsSound(all)
  BY <1>1 DEF CacheIsSound
<1>. QED  BY <1>2 DEF all

\* A rebuild shows the transcript, whatever the cache serves.
LEMMA RebuildShows ==
  ASSUME NEW v, DOMAIN v = ViewFields, CacheIsSound(v.cache), NEW msgs \in Texts,
         width \in {1, 2}, kept \in Seq(Nat)
  PROVE  LET built == Screen!Rebuild(v, msgs)
         IN  /\ DOMAIN built = ViewFields /\ CacheIsSound(built.cache)
             /\ built.dirty = FALSE /\ built.width = width /\ built.streams = v.streams
             /\ Shown(built, msgs, kept)
<1>1. PICK at \in Nat : at = Screen!StreamingAt(v, msgs)
  BY StreamingPlace
<1>2. Placed(msgs, at) /\ (at = Screen!None \/ at = Len(msgs)) /\ Len(msgs) \in 0..Len(msgs)
  BY <1>1, StreamingPlace DEF Texts
<1>3. PICK drawn : drawn = Screen!RenderInto(kept, v.cache, width, msgs, at)[Len(msgs)]
  OBVIOUS
<1>4. drawn = Cold(kept, width, msgs, at)
  <2>1. \A i \in 0..Len(msgs) : Screen!RenderInto(kept, v.cache, width, msgs, at)[i]
                               = Screen!RenderInto(kept, Screen!NoLines, width, msgs, at)[i]
    BY <1>2, RenderedAsCold
  <2>. QED  BY <1>2, <1>3, <2>1 DEF Cold
<1>5. PICK rest : rest = Screen!Printed(drawn.next, Len(kept))
  OBVIOUS
<1>6. PICK cache : cache = [i \in Screen!Heads(msgs) |->
                              [key   |-> Screen!Key(width, msgs, i, at),
                               lines |-> Screen!UnitLines(v.cache, width, msgs, i, at)]]
  OBVIOUS
<1>7. CacheIsSound(cache)
  BY <1>2, <1>6, KeptIsSound
<1>8. PICK text : text = Streamed(width, msgs, at)
  OBVIOUS
<1>9. PICK built : built = Screen!Rebuild(v, msgs)
  OBVIOUS
<1>10. CASE Quiet(msgs, kept)
  <2>1. built = [[v EXCEPT !.dirty = FALSE, !.width = width, !.splash = FALSE,
                           !.trailFrom = Screen!Never, !.trailLines = 0]
                    EXCEPT !.splash = TRUE, !.lines = <<Screen!Line("splash", 0, 0)>>]
    BY <1>9, <1>10 DEF Screen!Rebuild, Quiet
  <2>2. /\ DOMAIN built = ViewFields /\ built.cache = v.cache /\ built.streams = v.streams
        /\ built.dirty = FALSE /\ built.width = width /\ built.splash = TRUE
        /\ built.lines = <<Screen!Line("splash", 0, 0)>>
    BY <2>1 DEF ViewFields
  <2>. QED  BY <1>9, <1>10, <2>2 DEF Shown
<1>11. CASE ~Quiet(msgs, kept)
  <2>1. built = [[v EXCEPT !.dirty = FALSE, !.width = width, !.splash = FALSE,
                           !.trailFrom = Screen!Never, !.trailLines = 0]
                    EXCEPT !.cache = cache,
                           !.lines = drawn.lines \o text \o rest,
                           !.start       = IF at # Screen!None THEN Len(drawn.lines) ELSE @,
                           !.streamWidth = IF at # Screen!None THEN width ELSE @,
                           !.trailFrom   = IF at # Screen!None /\ rest # <<>> THEN drawn.next
                                           ELSE Screen!Never,
                           !.trailLines  = IF at # Screen!None THEN Len(rest) ELSE 0]
    BY <1>1, <1>3, <1>5, <1>6, <1>8, <1>9, <1>11 DEF Screen!Rebuild, Quiet, Streamed
  <2>2. /\ DOMAIN built = ViewFields /\ built.cache = cache /\ built.streams = v.streams
        /\ built.dirty = FALSE /\ built.width = width /\ built.splash = FALSE
        /\ built.lines = drawn.lines \o text \o rest
    BY <2>1 DEF ViewFields
  <2>3. at # Screen!None =>
          /\ built.start = Len(drawn.lines) /\ built.streamWidth = width
          /\ built.trailFrom = IF rest = <<>> THEN Screen!Never ELSE drawn.next
          /\ built.trailLines = Len(rest)
    BY <2>1 DEF ViewFields
  <2>4. Screen!StreamingAt(built, msgs) = at
    BY <1>1, <2>2 DEF Screen!StreamingAt
  <2>5. Stacked(built, msgs, kept, at, drawn)
    BY <1>5, <1>8, <2>2, <2>3, Zenon DEF Stacked
  <2>6. Shown(built, msgs, kept)
    BY <1>4, <1>11, <2>2, <2>4, <2>5 DEF Shown
  <2>. QED  BY <1>7, <1>9, <2>2, <2>6
<1>. QED  BY <1>10, <1>11

\* The pieces of a clean screen.
LEMMA PiecesType ==
  ASSUME NEW w, w \in {1, 2}, NEW msgs \in Texts, NEW at \in Nat, Placed(msgs, at),
         NEW outputs \in Seq(Nat), NEW drawn \in Drawings(outputs)
  PROVE  /\ drawn.lines \in Seq(Lines) /\ drawn.next \in Nat \ {0} /\ drawn.next <= Len(outputs) + 1
         /\ Streamed(w, msgs, at) \in Seq(Lines)
         /\ Screen!Printed(drawn.next, Len(outputs)) \in Seq(Lines)
         /\ Len(Screen!Printed(drawn.next, Len(outputs))) = Len(outputs) - drawn.next + 1
<1>1. /\ drawn.lines \in Seq(Lines) /\ drawn.next \in Nat \ {0}
      /\ drawn.next <= Len(outputs) + 1 /\ Len(outputs) \in Nat
  BY DEF Drawings
<1>2. Streamed(w, msgs, at) \in Seq(Lines)
  <2>1. CASE at = Screen!None
    BY <2>1 DEF Streamed
  <2>2. CASE at # Screen!None
    <3>1. msgs[at].text \in Nat
      BY <2>2, RoleType DEF Placed
    <3>. QED  BY <2>2, <3>1, TextType DEF Streamed
  <2>. QED  BY <2>1, <2>2
<1>3. /\ Screen!Printed(drawn.next, Len(outputs)) \in Seq(Lines)
      /\ Len(Screen!Printed(drawn.next, Len(outputs))) = Len(outputs) - drawn.next + 1
  BY <1>1, PrintedType
<1>. QED  BY <1>1, <1>2, <1>3

\* What is drawn first is where it was.
LEMMA Beginning ==
  ASSUME NEW a \in Seq(Lines), NEW b \in Seq(Lines), NEW c \in Seq(Lines)
  PROVE  /\ Len(a) \in Nat /\ Len(a \o b \o c) \in Nat /\ Len(a) <= Len(a \o b \o c)
         /\ SubSeq(a \o b \o c, 1, Len(a)) = a
<1>1. /\ a \o b \o c \in Seq(Lines) /\ Len(a \o b \o c) = Len(a) + Len(b) + Len(c)
      /\ \A i \in 1..Len(a) : (a \o b \o c)[i] = a[i]
  OBVIOUS
<1>2. PICK all \in Seq(Lines) : all = a \o b \o c
  BY <1>1
<1>3. /\ Len(all) \in Nat /\ Len(a) \in Nat /\ Len(a) <= Len(all)
      /\ \A i \in 1..Len(a) : all[i] = a[i]
  BY <1>1, <1>2
<1>4. SubSeq(all, 1, Len(a)) = a
  BY <1>3
<1>. QED  BY <1>2, <1>3, <1>4

\* What trails the text that streams is found where the screen says it is.
LEMMA TrailIs ==
  ASSUME NEW outputs \in Seq(Nat), Len(outputs) <= MaxPrints, NEW drawn \in Drawings(outputs),
         NEW from, from = IF Screen!Printed(drawn.next, Len(outputs)) = <<>> THEN Screen!Never
                          ELSE drawn.next
  PROVE  Screen!Printed(from, Len(outputs)) = Screen!Printed(drawn.next, Len(outputs))
<1>1. Len(outputs) \in Nat /\ MaxPrints \in Nat
  BY RoomAssumption
<1>2. Screen!Printed(Screen!Never, Len(outputs)) = <<>>
  BY <1>1 DEF Screen!Printed, Screen!Never
<1>. QED  BY <1>2

Updated(v, text, trail) ==
    [v EXCEPT !.lines = SubSeq(@, 1, Screen!Min({v.start, Len(@)})) \o text \o trail,
              !.trailLines = Len(trail)]

\* A text that grows is drawn in place.
LEMMA UpdateShows ==
  ASSUME NEW v, DOMAIN v = ViewFields, NEW m \in Texts, NEW n \in Texts, NEW at, Alike(m, n, at),
         at = Screen!StreamingAt(v, m), NEW outputs \in Seq(Nat), Len(outputs) <= MaxPrints,
         NEW w, w \in {1, 2}, v.width = w, Shown(v, m, outputs),
         NEW trail, trail = Screen!Printed(v.trailFrom, Len(outputs)),
         NEW u, u = Updated(v, Screen!TextLines(w, at, n[at].text), trail)
  PROVE  Shown(u, n, outputs)
<1>1. /\ Placed(m, at) /\ at \in Nat /\ at # Screen!None /\ at = Len(m) /\ Len(m) \in Nat
      /\ Placed(n, at) /\ Len(n) = Len(m) /\ DOMAIN m = 1..Len(m) /\ DOMAIN n = 1..Len(m)
      /\ Len(m) \in 0..Len(m)
  BY StreamingPlace DEF Alike, Placed, Texts, Screen!None
<1>2. ~Quiet(m, outputs) /\ ~Quiet(n, outputs)
  BY <1>1 DEF Quiet, Alike, Screen!Is
<1>3. PICK drawn : drawn = Cold(outputs, w, m, at)
  OBVIOUS
<1>4. drawn \in Drawings(outputs)
  BY <1>1, <1>3, RenderType DEF Cold
<1>5. drawn = Cold(outputs, w, n, at)
  BY <1>1, <1>3, DrawnAlike
<1>6. v.splash = FALSE /\ Stacked(v, m, outputs, at, drawn)
  BY <1>2, <1>3 DEF Shown
<1>7. PICK rest : rest = Screen!Printed(drawn.next, Len(outputs))
  OBVIOUS
<1>8. /\ v.lines = drawn.lines \o Streamed(w, m, at) \o rest
      /\ v.start = Len(drawn.lines) /\ v.streamWidth = w /\ v.trailLines = Len(rest)
      /\ v.trailFrom = IF rest = <<>> THEN Screen!Never ELSE drawn.next
  BY <1>1, <1>6, <1>7 DEF Stacked
<1>9. trail = rest
  BY <1>4, <1>7, <1>8, TrailIs
<1>10. drawn.lines \in Seq(Lines) /\ Streamed(w, m, at) \in Seq(Lines) /\ rest \in Seq(Lines)
  BY <1>1, <1>4, <1>7, PiecesType
<1>11. SubSeq(v.lines, 1, Screen!Min({v.start, Len(v.lines)})) = drawn.lines
  <2>1. PICK text : text = Streamed(w, m, at) /\ text \in Seq(Lines)
    BY <1>10
  <2>2. PICK above : above = drawn.lines /\ above \in Seq(Lines)
    BY <1>10
  <2>3. PICK all : all = above \o text \o rest
    OBVIOUS
  <2>4. /\ Len(above) \in Nat /\ Len(all) \in Nat /\ Len(above) <= Len(all)
        /\ SubSeq(all, 1, Len(above)) = above
    BY <1>10, <2>1, <2>2, <2>3, Beginning
  <2>5. Screen!Min({Len(above), Len(all)}) = Len(above)
    <3>1. {Len(above), Len(all)} \subseteq Nat
      BY <2>4
    <3>2. PICK least : least = Screen!Min({Len(above), Len(all)})
      OBVIOUS
    <3>3. least \in {Len(above), Len(all)} /\ \A y \in {Len(above), Len(all)} : least <= y
      BY <3>1, <3>2, MinOf
    <3>. QED  BY <2>4, <3>2, <3>3
  <2>6. v.lines = all /\ v.start = Len(above)
    BY <1>8, <2>1, <2>2, <2>3
  <2>. QED  BY <2>2, <2>4, <2>5, <2>6
<1>12. /\ u.lines = drawn.lines \o Streamed(w, n, at) \o rest
       /\ u.splash = FALSE /\ u.streams = v.streams /\ u.width = w
       /\ u.start = v.start /\ u.streamWidth = w /\ u.trailLines = Len(rest)
       /\ u.trailFrom = v.trailFrom
  <2>1. u.lines = SubSeq(v.lines, 1, Screen!Min({v.start, Len(v.lines)}))
                  \o Screen!TextLines(w, at, n[at].text) \o trail
    BY DEF ViewFields, Updated
  <2>2. u.lines = drawn.lines \o Streamed(w, n, at) \o rest
    BY <1>1, <1>9, <1>11, <2>1 DEF Streamed
  <2>3. /\ u.splash = FALSE /\ u.streams = v.streams /\ u.width = w
        /\ u.start = v.start /\ u.streamWidth = w /\ u.trailLines = Len(rest)
        /\ u.trailFrom = v.trailFrom
    BY <1>6, <1>8, <1>9 DEF ViewFields, Updated
  <2>. QED  BY <2>2, <2>3
<1>13. Screen!StreamingAt(u, n) = at
  <2>1. v.streams
    BY <1>1 DEF Screen!StreamingAt
  <2>2. n # <<>> /\ Screen!Is(n, Len(n), "assistant")
    BY <1>1 DEF Alike
  <2>. QED  BY <1>1, <1>12, <2>1, <2>2 DEF Screen!StreamingAt
<1>14. Stacked(u, n, outputs, at, drawn)
  BY <1>7, <1>8, <1>12 DEF Stacked
<1>. QED  BY <1>2, <1>5, <1>12, <1>13, <1>14 DEF Shown

Logged(v, seq) ==
    [v EXCEPT !.lines      = Append(@, Screen!Line("print", seq, 0)),
              !.trailFrom  = IF v.streams /\ @ = Screen!Never THEN seq ELSE @,
              !.trailLines = IF v.streams THEN @ + 1 ELSE @]

\* An output is printed in its place.
LEMMA LogShows ==
  ASSUME NEW v, DOMAIN v = ViewFields, NEW msgs \in Texts, NEW outputs \in Seq(Nat),
         Len(outputs) < MaxPrints, NEW w, w \in {1, 2}, v.width = w, Shown(v, msgs, outputs),
         v.splash = FALSE, v.streams => Screen!StreamingAt(v, msgs) # Screen!None,
         NEW m \in Nat, m = Len(msgs), NEW seq, seq = Len(outputs) + 1,
         NEW u, u = Logged(v, seq)
  PROVE  Shown(u, msgs, With(outputs, m))
<1>1. PICK at \in Nat : at = Screen!StreamingAt(v, msgs)
  BY StreamingPlace
<1>2. /\ Placed(msgs, at) /\ (at = Screen!None \/ at = Len(msgs))
      /\ Len(msgs) \in 0..Len(msgs) /\ Len(outputs) \in Nat
      /\ v.streams => at # Screen!None
      /\ at # Screen!None => v.streams
  BY <1>1, StreamingPlace DEF Texts, Screen!StreamingAt
<1>3. ~Quiet(msgs, outputs) /\ ~Quiet(msgs, With(outputs, m))
  BY DEF Shown, Quiet, With
<1>4. PICK old : old = Cold(outputs, w, msgs, at)
  OBVIOUS
<1>5. PICK new : new = Cold(With(outputs, m), w, msgs, at)
  OBVIOUS
<1>6. With(outputs, m) \in Seq(Nat) /\ Len(With(outputs, m)) = seq
  BY DEF With
<1>7. old \in Drawings(outputs) /\ new \in Drawings(With(outputs, m))
  BY <1>2, <1>4, <1>5, <1>6, RenderType DEF Cold
<1>0. Len(outputs) \in Nat /\ MaxPrints \in Nat /\ seq \in Nat /\ seq <= MaxPrints
  <2>1. Len(outputs) \in Nat
    OBVIOUS
  <2>2. MaxPrints \in Nat
    BY RoomAssumption
  <2>. QED  BY <2>1, <2>2
<1>8. PICK print \in Lines : print = Screen!Line("print", seq, 0)
  <2>1. Screen!Line("print", seq, 0) \in Lines
    BY <1>0 DEF Screen!Line, Lines
  <2>. QED  BY <2>1
<1>9. \/ new = old
      \/ /\ at = Screen!None /\ old.next = seq /\ new.next = seq + 1
         /\ new.lines = Append(old.lines, print)
  <2>1. OneBelow(old, new, at, Len(outputs))
    BY <1>2, <1>4, <1>5, PrintedBelow
  <2>2. Len(outputs) + 2 = seq + 1
    BY <1>0
  <2>. QED  BY <1>8, <2>1, <2>2 DEF OneBelow
<1>10. Stacked(v, msgs, outputs, at, old)
  BY <1>1, <1>3, <1>4 DEF Shown
<1>11. PICK rest : rest = Screen!Printed(old.next, Len(outputs))
  OBVIOUS
<1>12. PICK trail : trail = Screen!Printed(new.next, Len(With(outputs, m)))
  OBVIOUS
<1>13. PICK text : text = Streamed(w, msgs, at)
  OBVIOUS
<1>14. /\ old.lines \in Seq(Lines) /\ text \in Seq(Lines) /\ rest \in Seq(Lines)
       /\ old.next \in Nat \ {0} /\ old.next <= seq /\ Len(rest) = seq - old.next
  BY <1>2, <1>7, <1>11, <1>13, PiecesType
<1>15. v.lines = old.lines \o text \o rest
  BY <1>10, <1>11, <1>13 DEF Stacked
<1>16. /\ u.lines = Append(v.lines, print) /\ u.splash = FALSE /\ u.streams = v.streams
       /\ u.width = w /\ u.start = v.start /\ u.streamWidth = v.streamWidth
       /\ u.trailFrom = IF v.streams /\ v.trailFrom = Screen!Never THEN seq ELSE v.trailFrom
       /\ u.trailLines = IF v.streams THEN v.trailLines + 1 ELSE v.trailLines
  BY <1>8 DEF ViewFields, Logged
<1>17. ASSUME new = old  PROVE Stacked(u, msgs, With(outputs, m), at, new)
  <2>1. trail = Append(rest, print)
    <3>1. Screen!Printed(old.next, Len(outputs) + 1)
          = Append(Screen!Printed(old.next, Len(outputs)), Screen!Line("print", Len(outputs) + 1, 0))
      BY <1>2, <1>14, PrintedMore
    <3>. QED  BY <1>6, <1>8, <1>11, <1>12, <1>17, <3>1
  <2>2. u.lines = old.lines \o text \o trail
    <3>1. PICK above : above = old.lines /\ above \in Seq(Lines)
      BY <1>14
    <3>2. above \o text \o Append(rest, print) = Append(above \o text \o rest, print)
      BY <1>14, <3>1, AppendBelow
    <3>. QED  BY <1>15, <1>16, <2>1, <3>1, <3>2
  <2>3. Len(trail) = Len(rest) + 1 /\ trail # <<>>
    BY <1>8, <1>14, <2>1
  <2>4. ASSUME at # Screen!None
        PROVE  /\ u.start = Len(new.lines) /\ u.streamWidth = w /\ u.trailLines = Len(trail)
               /\ u.trailFrom = new.next
    <3>1. /\ v.start = Len(old.lines) /\ v.streamWidth = w /\ v.trailLines = Len(rest)
          /\ v.trailFrom = IF rest = <<>> THEN Screen!Never ELSE old.next
      BY <1>10, <1>11, <2>4 DEF Stacked
    <3>2. v.streams
      BY <1>2, <2>4
    <3>3. rest = <<>> => old.next = seq
      BY <1>2, <1>14
    <3>4. old.next # Screen!Never
      BY <1>0, <1>14 DEF Screen!Never
    <3>5. u.trailFrom = old.next
      BY <1>16, <3>1, <3>2, <3>3, <3>4
    <3>. QED  BY <1>16, <1>17, <2>3, <3>1, <3>2, <3>5
  <2>. QED  BY <1>12, <1>13, <1>16, <1>17, <2>2, <2>3, <2>4 DEF Stacked
<1>18. ASSUME new # old  PROVE Stacked(u, msgs, With(outputs, m), at, new)
  <2>1. /\ at = Screen!None /\ old.next = seq /\ new.next = seq + 1
        /\ new.lines = Append(old.lines, print)
    BY <1>9, <1>18
  <2>2. rest = <<>> /\ text = <<>>
    BY <1>13, <1>14, <2>1 DEF Streamed
  <2>3. trail = <<>>
    BY <1>2, <1>6, <1>12, <2>1 DEF Screen!Printed
  <2>4. v.lines = old.lines /\ u.lines = new.lines
    BY <1>14, <1>15, <1>16, <2>1, <2>2
  <2>5. new.lines \in Seq(Lines)
    BY <1>7 DEF Drawings
  <2>6. u.lines = new.lines \o text \o trail
    BY <2>2, <2>3, <2>4, <2>5
  <2>. QED  BY <1>12, <1>13, <1>16, <2>1, <2>6 DEF Stacked
<1>19. Stacked(u, msgs, With(outputs, m), at, new)
  BY <1>17, <1>18
<1>20. Screen!StreamingAt(u, msgs) = at
  BY <1>1, <1>16 DEF Screen!StreamingAt
<1>. QED  BY <1>3, <1>5, <1>16, <1>19, <1>20 DEF Shown

\* The text that streams begins above what was printed in its turn.
LEMMA StartShows ==
  ASSUME NEW v, DOMAIN v = ViewFields, NEW msgs \in Texts, NEW outputs \in Seq(Nat),
         NEW w, w \in {1, 2}, v.width = w, Shown(v, msgs, outputs),
         NEW at, at = Screen!StreamingAt(v, msgs), at # Screen!None, msgs[at].text = 0,
         NEW u, u = [v EXCEPT !.start = Screen!StartsAfter(v), !.streamWidth = w]
  PROVE  Shown(u, msgs, outputs)
<1>1. /\ Placed(msgs, at) /\ at \in Nat /\ Len(msgs) \in 0..Len(msgs)
  BY StreamingPlace DEF Texts
<1>2. ~Quiet(msgs, outputs)
  BY <1>1 DEF Quiet, Placed, Screen!Is
<1>3. PICK drawn : drawn = Cold(outputs, w, msgs, at)
  OBVIOUS
<1>4. drawn \in Drawings(outputs)
  BY <1>1, <1>3, RenderType DEF Cold
<1>5. v.splash = FALSE /\ Stacked(v, msgs, outputs, at, drawn)
  BY <1>2, <1>3 DEF Shown
<1>6. PICK rest : rest = Screen!Printed(drawn.next, Len(outputs))
  OBVIOUS
<1>7. Streamed(w, msgs, at) = <<>>
  BY DEF Streamed, Screen!TextLines
<1>8. drawn.lines \in Seq(Lines) /\ rest \in Seq(Lines)
  BY <1>1, <1>4, <1>6, PiecesType
<1>9. v.lines = drawn.lines \o <<>> \o rest /\ v.trailLines = Len(rest)
  BY <1>5, <1>6, <1>7 DEF Stacked
<1>10. Screen!StartsAfter(v) = Len(drawn.lines)
  <2>1. PICK above : above = drawn.lines /\ above \in Seq(Lines)
    BY <1>8
  <2>2. Len(above \o <<>> \o rest) = Len(above) + Len(rest) /\ Len(above) \in Nat /\ Len(rest) \in Nat
    BY <1>8, <2>1
  <2>3. Len(v.lines) - v.trailLines = Len(above)
    BY <1>9, <2>1, <2>2
  <2>. QED  BY <2>1, <2>3 DEF Screen!StartsAfter
<1>11. /\ u.lines = v.lines /\ u.splash = FALSE /\ u.streams = v.streams /\ u.width = w
       /\ u.start = Len(drawn.lines) /\ u.streamWidth = w /\ u.trailLines = v.trailLines
       /\ u.trailFrom = v.trailFrom
  BY <1>5, <1>10 DEF ViewFields
<1>12. Screen!StreamingAt(u, msgs) = at
  BY <1>11 DEF Screen!StreamingAt
<1>13. Stacked(u, msgs, outputs, at, drawn)
  BY <1>5, <1>11 DEF Stacked
<1>. QED  BY <1>2, <1>3, <1>11, <1>12, <1>13 DEF Shown

----------------------------------------------------------------------------
(* The conversation.                                                        *)

\* What the variables are.
ScreenTypes ==
    /\ transcript \in Texts /\ placeholder \in BOOLEAN /\ width \in {1, 2}
    /\ kept \in Seq(Nat) /\ Len(kept) <= MaxPrints
    /\ DOMAIN view = ViewFields

\* The buffer streams while a block is open, and the placeholder is the last message,
\* unless one came in behind it or messages were taken back.
PlaceholderIsKnown ==
    /\ view.streams => placeholder
    /\ placeholder /\ ~mixed =>
         view.streams /\ transcript # <<>> /\ Screen!Is(transcript, Len(transcript), "assistant")

\* A buffer was built for a width.
WidthIsKnown == ~view.dirty => view.width \in {1, 2}

\* A buffer that nothing marked shows the transcript.
CleanIsShown == ~view.dirty /\ ~mixed => Shown(view, transcript, kept)

\* What is known of the screen.
ScreenInv ==
    /\ ScreenTypes /\ CacheIsSound(view.cache)
    /\ PlaceholderIsKnown /\ WidthIsKnown /\ CleanIsShown

\* A shell starts with nothing drawn.
LEMMA ScreenStarts == Screen!Init => ScreenInv
<1>. SUFFICES ASSUME Screen!Init  PROVE ScreenInv
  OBVIOUS
<1>1. transcript \in Texts /\ kept \in Seq(Nat) /\ Len(kept) <= MaxPrints
  BY RoomAssumption DEF Screen!Init, Texts
<1>2. /\ DOMAIN view = ViewFields /\ view.streams = FALSE /\ view.dirty = TRUE
      /\ view.cache = Screen!NoLines
  BY DEF Screen!Init, ViewFields
<1>. QED  BY <1>1, <1>2, NoCacheIsSound
          DEF Screen!Init, ScreenInv, ScreenTypes, PlaceholderIsKnown, WidthIsKnown, CleanIsShown

\* A marked buffer promises nothing but its cache.
LEMMA MarkedIs ==
  ASSUME DOMAIN view = ViewFields
  PROVE  /\ DOMAIN Screen!Marked = ViewFields /\ Screen!Marked.dirty = TRUE
         /\ Screen!Marked.streams = view.streams /\ Screen!Marked.cache = view.cache
BY DEF Screen!Marked, ViewFields

\* A message that is added marks the buffer.
LEMMA AddStays ==
  ASSUME ScreenInv, NEW role \in {"user", "assistant", "notice"}, NEW text \in 0..MaxLines,
         Screen!Add(role, text)
  PROVE  ScreenInv'
<1>1. transcript' = Append(transcript, [role |-> role, text |-> text])
  BY DEF Screen!Add
<1>2. [role |-> role, text |-> text] \in Screen!Messages
  BY DEF Screen!Messages
<1>3. transcript \in Texts
  BY DEF ScreenInv, ScreenTypes
<1>4. transcript' \in Texts
  BY <1>1, <1>2, <1>3 DEF Texts
<1>5. placeholder' = placeholder /\ mixed' = (mixed \/ placeholder)
  BY DEF Screen!Add
<1>6. /\ DOMAIN view' = ViewFields /\ view'.dirty = TRUE /\ view'.streams = view.streams
      /\ view'.cache = view.cache
  BY MarkedIs DEF Screen!Add, ScreenInv, ScreenTypes
<1>7. ScreenTypes'
  BY <1>4, <1>6 DEF Screen!Add, ScreenInv, ScreenTypes
<1>8. PlaceholderIsKnown'
  BY <1>5, <1>6 DEF ScreenInv, PlaceholderIsKnown
<1>. QED  BY <1>6, <1>7, <1>8 DEF ScreenInv, WidthIsKnown, CleanIsShown

\* A streaming answer begins above what was printed in its turn.
LEMMA StartStays ==
  ASSUME ScreenInv, Screen!StartStreamingBlock
  PROVE  ScreenInv'
<1>. DEFINE answer == [role |-> "assistant", text |-> 0]
            opened == [Screen!Marked EXCEPT !.streams = TRUE, !.start = 0]
<1>1. /\ transcript \in Texts /\ width \in {1, 2} /\ kept \in Seq(Nat) /\ DOMAIN view = ViewFields
      /\ CacheIsSound(view.cache)
  BY DEF ScreenInv, ScreenTypes
<1>2. transcript' = Append(transcript, answer) /\ answer \in Screen!Messages
  BY RoomAssumption DEF Screen!StartStreamingBlock, Screen!Messages
<1>3. PICK msgs \in Texts : msgs = transcript'
  <2>. HIDE DEF answer
  <2>1. transcript' \in Texts
    BY <1>1, <1>2 DEF Texts
  <2>. QED  BY <2>1
<1>4. /\ msgs # <<>> /\ Len(msgs) \in DOMAIN msgs /\ Len(msgs) # 0 /\ msgs[Len(msgs)] = answer
  <2>. HIDE DEF answer
  <2>. QED  BY <1>1, <1>2, <1>3 DEF Texts
<1>5. /\ Screen!Is(msgs, Len(msgs), "assistant") /\ msgs[Len(msgs)].text = 0
  BY <1>4 DEF Screen!Is
<1>6. PICK old : old = opened
  OBVIOUS
<1>7. DOMAIN old = ViewFields /\ CacheIsSound(old.cache) /\ old.streams = TRUE
  <2>1. /\ DOMAIN Screen!Marked = ViewFields /\ Screen!Marked.cache = view.cache
    BY <1>1, MarkedIs
  <2>. QED  BY <1>1, <1>6, <2>1 DEF ViewFields
<1>8. PICK built : built = Screen!Rebuild(old, msgs)
  OBVIOUS
<1>9. /\ DOMAIN built = ViewFields /\ CacheIsSound(built.cache)
      /\ built.width = width /\ built.streams = TRUE
      /\ Shown(built, msgs, kept)
  BY <1>1, <1>7, <1>8, RebuildShows
<1>10. PICK new : new = [built EXCEPT !.start = Screen!StartsAfter(built), !.streamWidth = width]
  OBVIOUS
<1>11. view' = new
  BY <1>3, <1>6, <1>8, <1>10 DEF Screen!StartStreamingBlock
<1>12. DOMAIN new = ViewFields /\ new.cache = built.cache /\ new.streams = TRUE
  BY <1>9, <1>10 DEF ViewFields
<1>13. PICK at : at = Screen!StreamingAt(built, msgs)
  OBVIOUS
<1>14. at = Len(msgs) /\ at # Screen!None
  BY <1>4, <1>5, <1>9, <1>13 DEF Screen!StreamingAt, Screen!None
<1>15. PICK w : w = width /\ w \in {1, 2}
  BY <1>1
<1>16. PICK outputs \in Seq(Nat) : outputs = kept
  BY <1>1
<1>17. Shown(new, msgs, outputs)
  BY <1>5, <1>9, <1>10, <1>13, <1>14, <1>15, <1>16, StartShows
<1>18. ScreenTypes'
  BY <1>3, <1>11, <1>12 DEF Screen!StartStreamingBlock, ScreenInv, ScreenTypes
<1>19. PlaceholderIsKnown'
  BY <1>3, <1>4, <1>5, <1>11, <1>12 DEF Screen!StartStreamingBlock, PlaceholderIsKnown
<1>20. kept' = kept
  BY DEF Screen!StartStreamingBlock
<1>21. CleanIsShown'
  BY <1>3, <1>11, <1>16, <1>17, <1>20 DEF CleanIsShown
<1>22. WidthIsKnown'
  BY <1>1, <1>9, <1>10, <1>11 DEF WidthIsKnown, ViewFields
<1>. QED  BY <1>9, <1>11, <1>12, <1>18, <1>19, <1>21, <1>22 DEF ScreenInv

\* What is taken for the placeholder is an answer, or nothing; it is the placeholder if
\* that is still the last message.
LEMMA PlaceholderIs ==
  ASSUME ScreenInv
  PROVE  LET at == Screen!Placeholder(transcript)
         IN  /\ at # Screen!None => /\ at \in DOMAIN transcript /\ at \in 1..Len(transcript)
                                   /\ Screen!Is(transcript, at, "assistant")
             /\ placeholder /\ ~mixed => /\ at # Screen!None /\ at = Len(transcript)
                                        /\ at = Screen!StreamingAt(view, transcript)
<1>. DEFINE S == {i \in DOMAIN transcript : Screen!Is(transcript, i, "assistant")}
            T == {Screen!None} \cup S
<1>1. /\ Len(transcript) \in Nat /\ DOMAIN transcript = 1..Len(transcript)
      /\ S \subseteq 1..Len(transcript)
  BY DEF ScreenInv, ScreenTypes, Texts
<1>2. PICK at : at = Screen!Max(T)
  OBVIOUS
<1>3. at \in T /\ \A y \in T : y <= at
  <2>1. T \subseteq 0..Len(transcript) /\ T # {}
    BY <1>1 DEF Screen!None
  <2>. HIDE DEF T
  <2>. QED  BY <1>1, <1>2, <2>1, MaxOf
<1>4. ASSUME placeholder, ~mixed
      PROVE  at # Screen!None /\ at = Len(transcript) /\ at = Screen!StreamingAt(view, transcript)
  <2>1. /\ Screen!Is(transcript, Len(transcript), "assistant") /\ view.streams
        /\ transcript # <<>>
    BY <1>4 DEF ScreenInv, PlaceholderIsKnown
  <2>2. Len(transcript) \in 1..Len(transcript)
    BY <1>1, <2>1 DEF ScreenInv, ScreenTypes, Texts
  <2>3. Len(transcript) <= at
    <3>1. Len(transcript) \in T
      BY <1>1, <2>1, <2>2
    <3>. HIDE DEF T
    <3>. QED  BY <1>3, <3>1
  <2>4. at = Len(transcript) /\ at # Screen!None
    <3>1. at \in 0..Len(transcript)
      BY <1>1, <1>3 DEF Screen!None
    <3>2. at = Len(transcript)
      <4>1. PICK n \in Nat : n = Len(transcript)
        BY <1>1
      <4>2. at \in 0..n /\ n <= at
        BY <2>3, <3>1, <4>1
      <4>. QED  BY <4>1, <4>2
    <3>3. at # 0
      BY <2>2, <3>2
    <3>. QED  BY <3>2, <3>3 DEF Screen!None
  <2>. QED  BY <2>1, <2>4 DEF Screen!StreamingAt
<1>5. at # Screen!None => at \in S
  BY <1>3
<1>6. at = Screen!Placeholder(transcript)
  BY <1>2 DEF Screen!Placeholder
<1>. QED  BY <1>1, <1>4, <1>5, <1>6

\* The text that streams is replaced in place; after a resize it is rebuilt first.
LEMMA UpdateStays ==
  ASSUME ScreenInv, NEW text \in 1..MaxLines, Screen!UpdateStreamingBlock(text)
  PROVE  ScreenInv'
<1>1. /\ transcript \in Texts /\ width \in {1, 2} /\ kept \in Seq(Nat) /\ DOMAIN view = ViewFields
      /\ CacheIsSound(view.cache) /\ Len(kept) <= MaxPrints
  BY DEF ScreenInv, ScreenTypes
<1>2. placeholder /\ UNCHANGED <<placeholder, width, kept, mixed>>
  BY DEF Screen!UpdateStreamingBlock
<1>3. PICK at : at = Screen!Placeholder(transcript)
  OBVIOUS
<1>4. /\ at # Screen!None => /\ at \in DOMAIN transcript /\ at \in 1..Len(transcript)
                            /\ Screen!Is(transcript, at, "assistant")
      /\ ~mixed => /\ at # Screen!None /\ at = Len(transcript)
                   /\ at = Screen!StreamingAt(view, transcript)
  BY <1>2, <1>3, PlaceholderIs
<1>5. PICK msgs : msgs = transcript'
  OBVIOUS
<1>6. msgs = IF at = Screen!None THEN transcript ELSE [transcript EXCEPT ![at].text = text]
  BY <1>3, <1>5 DEF Screen!UpdateStreamingBlock
<1>7. /\ msgs \in Texts /\ Len(msgs) = Len(transcript) /\ DOMAIN msgs = DOMAIN transcript
      /\ \A i \in DOMAIN transcript : msgs[i].role = transcript[i].role
      /\ \A i \in DOMAIN transcript : i # at => msgs[i] = transcript[i]
      /\ at # Screen!None => msgs[at].text = text
  <2>1. CASE at = Screen!None
    BY <1>1, <1>6, <2>1
  <2>2. CASE at # Screen!None
    <3>1. transcript[at] \in Screen!Messages
      BY <1>1, <1>4, <2>2 DEF Texts
    <3>2. PICK written : written = [transcript[at] EXCEPT !.text = text]
      OBVIOUS
    <3>3. written \in Screen!Messages /\ written.role = transcript[at].role /\ written.text = text
      BY <3>1, <3>2, RoomAssumption DEF Screen!Messages
    <3>4. msgs = [transcript EXCEPT ![at] = written]
      BY <1>6, <2>2, <3>2
    <3>. QED  BY <1>1, <1>4, <2>2, <3>3, <3>4 DEF Texts
  <2>. QED  BY <2>1, <2>2
<1>8. at # Screen!None => Alike(transcript, msgs, at) /\ Alike(msgs, msgs, at)
  BY <1>4, <1>7 DEF Alike, Screen!Is
<1>9. PICK v : v = IF width = view.streamWidth THEN view ELSE Screen!Flushed(view, msgs)
  OBVIOUS
<1>10. PICK trail : trail = Screen!Printed(v.trailFrom, Len(kept))
  OBVIOUS
<1>11. PICK lines : lines = Screen!TextLines(width, at, text)
  OBVIOUS
<1>12. PICK u : u = Updated(v, lines, trail)
  OBVIOUS
<1>13. view' = IF ~view.streams THEN view ELSE IF v.dirty THEN v ELSE u
  BY <1>3, <1>5, <1>9, <1>10, <1>11, <1>12
  DEF Screen!UpdateStreamingBlock, Screen!DrawStreamed, Updated
<1>14. PICK built : built = Screen!Rebuild(view, msgs)
  OBVIOUS
<1>15. /\ DOMAIN built = ViewFields /\ CacheIsSound(built.cache)
       /\ built.dirty = FALSE /\ built.width = width /\ built.streams = view.streams
       /\ Shown(built, msgs, kept)
  BY <1>1, <1>7, <1>14, RebuildShows
<1>16. v = view \/ v = built
  BY <1>9, <1>14 DEF Screen!Flushed
<1>17. DOMAIN v = ViewFields /\ CacheIsSound(v.cache) /\ v.streams = view.streams
  BY <1>1, <1>15, <1>16
<1>18. /\ DOMAIN u = ViewFields /\ u.cache = v.cache /\ u.streams = v.streams /\ u.dirty = v.dirty
       /\ u.width = v.width
  BY <1>12, <1>17 DEF Updated, ViewFields
<1>19. PICK w : w = width /\ w \in {1, 2}
  BY <1>1
<1>20. PICK outputs \in Seq(Nat) : outputs = kept
  BY <1>1
<1>21. ASSUME ~view'.dirty, ~mixed  PROVE Shown(view', msgs, outputs)
  <2>1. at = Len(transcript) /\ at = Screen!StreamingAt(view, transcript) /\ at # Screen!None
    BY <1>4, <1>21
  <2>2. view.streams
    BY <2>1 DEF Screen!StreamingAt
  <2>3. ~v.dirty /\ view' = u
    BY <1>13, <1>21, <2>2
  <2>4. ASSUME ~view.dirty
        PROVE  Shown(view, transcript, outputs) /\ view.streamWidth = view.width
    <3>1. Shown(view, transcript, outputs)
      BY <1>20, <1>21, <2>4 DEF ScreenInv, CleanIsShown
    <3>2. ~Quiet(transcript, outputs)
      BY <1>4, <2>1 DEF Quiet, Screen!Is
    <3>. QED  BY <2>1, <3>1, <3>2 DEF Shown, Stacked
  <2>5. lines = Screen!TextLines(w, at, msgs[at].text)
    BY <1>7, <1>11, <1>19, <2>1
  <2>6. u = Updated(v, Screen!TextLines(w, at, msgs[at].text), trail)
    BY <1>12, <2>5
  <2>7. trail = Screen!Printed(v.trailFrom, Len(outputs)) /\ Len(outputs) <= MaxPrints
    BY <1>1, <1>10, <1>20
  <2>8. CASE v = view /\ width = view.streamWidth
    <3>1. Shown(v, transcript, outputs) /\ v.width = w
      BY <1>19, <2>3, <2>4, <2>8
    <3>2. Shown(u, msgs, outputs)
      BY <1>1, <1>7, <1>8, <1>17, <1>19, <1>20, <2>1, <2>6, <2>7, <2>8, <3>1, UpdateShows
    <3>. QED  BY <2>3, <3>2
  <2>9. CASE v = built
    <3>1. at = Screen!StreamingAt(built, msgs)
      <4>1. msgs # <<>> /\ Screen!Is(msgs, Len(msgs), "assistant")
        BY <1>4, <1>7, <1>8, <2>1 DEF Alike
      <4>. QED  BY <1>7, <1>15, <2>1, <2>2, <4>1 DEF Screen!StreamingAt
    <3>2. Shown(v, msgs, outputs) /\ v.width = w /\ at = Screen!StreamingAt(v, msgs)
      BY <1>15, <1>19, <1>20, <2>9, <3>1
    <3>3. Shown(u, msgs, outputs)
      BY <1>7, <1>8, <1>17, <1>19, <1>20, <2>1, <2>6, <2>7, <3>2, UpdateShows
    <3>. QED  BY <2>3, <3>3
  <2>10. CASE v = view /\ width # view.streamWidth
    <3>1. Screen!Clean(view)
      BY <1>9, <1>14, <1>15, <2>3, <2>10 DEF Screen!Flushed, Screen!Clean
    <3>. QED  BY <2>4, <2>10, <3>1 DEF Screen!Clean
  <2>. QED  BY <1>16, <2>8, <2>9, <2>10
<1>22. DOMAIN view' = ViewFields /\ CacheIsSound(view'.cache) /\ view'.streams = view.streams
  BY <1>1, <1>13, <1>17, <1>18
<1>23. ScreenTypes'
  BY <1>2, <1>5, <1>7, <1>22 DEF ScreenInv, ScreenTypes
<1>24. PlaceholderIsKnown'
  <2>1. ASSUME ~mixed
        PROVE  view'.streams /\ msgs # <<>> /\ Screen!Is(msgs, Len(msgs), "assistant")
    <3>1. view.streams
      BY <1>4, <2>1 DEF Screen!StreamingAt
    <3>. QED  BY <1>4, <1>7, <1>8, <1>22, <2>1, <3>1 DEF Alike
  <2>. QED  BY <1>2, <1>5, <2>1 DEF PlaceholderIsKnown
<1>25. CleanIsShown'
  BY <1>2, <1>5, <1>20, <1>21 DEF CleanIsShown
<1>26. WidthIsKnown'
  <2>1. /\ ~view.dirty => view.width \in {1, 2}
        /\ ~v.dirty => v.width \in {1, 2}
    BY <1>1, <1>15, <1>16 DEF ScreenInv, WidthIsKnown
  <2>. QED  BY <1>13, <1>18, <2>1 DEF WidthIsKnown
<1>. QED  BY <1>22, <1>23, <1>24, <1>25, <1>26 DEF ScreenInv

\* A sequence that loses one of its members.
LEMMA OneLess ==
  ASSUME NEW S, NEW s \in Seq(S), NEW at \in 1..Len(s)
  PROVE  Screen!RemoveAt(s, at) \in Seq(S) /\ Len(Screen!RemoveAt(s, at)) = Len(s) - 1
<1>1. PICK above, below : above = SubSeq(s, 1, at - 1) /\ below = SubSeq(s, at + 1, Len(s))
  OBVIOUS
<1>2. /\ above \in Seq(S) /\ Len(above) = at - 1
      /\ below \in Seq(S) /\ Len(below) = Len(s) - at
  BY <1>1
<1>3. Screen!RemoveAt(s, at) = above \o below
  BY <1>1 DEF Screen!RemoveAt
<1>4. Len(above \o below) = Len(above) + Len(below) /\ above \o below \in Seq(S)
  BY <1>2
<1>5. at \in Nat /\ Len(s) \in Nat
  OBVIOUS
<1>. QED  BY <1>2, <1>3, <1>4, <1>5

\* The block is closed: what was taken for the placeholder goes, if anything was, and the
\* answer comes if there is one.
LEMMA FinalizeIs ==
  ASSUME ScreenInv, NEW answer \in BOOLEAN, Screen!FinalizeStreamingBlock(answer)
  PROVE  \E at, rest, last :
           /\ at = Screen!Placeholder(transcript)
           /\ rest = IF at = Screen!None THEN transcript ELSE Screen!RemoveAt(transcript, at)
           /\ last = IF answer THEN <<[role |-> "assistant", text |-> MaxLines]>> ELSE <<>>
           /\ at # Screen!None => at \in 1..Len(transcript)
           /\ answer => Len(rest) < MaxMessages
           /\ transcript' = rest \o last
<1>1. PICK at : at = Screen!Placeholder(transcript)
  OBVIOUS
<1>2. PICK rest : rest = IF at = Screen!None THEN transcript ELSE Screen!RemoveAt(transcript, at)
  OBVIOUS
<1>3. PICK last : last = IF answer THEN <<[role |-> "assistant", text |-> MaxLines]>> ELSE <<>>
  OBVIOUS
<1>4. (answer => Len(rest) < MaxMessages) /\ transcript' = rest \o last
  BY <1>1, <1>2, <1>3 DEF Screen!FinalizeStreamingBlock
<1>5. at # Screen!None => at \in 1..Len(transcript)
  BY <1>1, PlaceholderIs
<1>. QED  BY <1>1, <1>2, <1>3, <1>4, <1>5

\* The buffer is marked and where things began is forgotten.
LEMMA FinalizeStays ==
  ASSUME ScreenInv, NEW answer \in BOOLEAN, Screen!FinalizeStreamingBlock(answer)
  PROVE  ScreenInv'
<1>1. transcript \in Texts /\ DOMAIN view = ViewFields
  BY DEF ScreenInv, ScreenTypes
<1>2. PICK at, rest, last :
        /\ rest = IF at = Screen!None THEN transcript ELSE Screen!RemoveAt(transcript, at)
        /\ last = IF answer THEN <<[role |-> "assistant", text |-> MaxLines]>> ELSE <<>>
        /\ at # Screen!None => at \in 1..Len(transcript)
        /\ transcript' = rest \o last
  BY FinalizeIs
<1>3. last \in Texts
  <2>1. [role |-> "assistant", text |-> MaxLines] \in Screen!Messages
    BY RoomAssumption DEF Screen!Messages
  <2>. QED  BY <1>2, <2>1 DEF Texts
<1>4. rest \in Texts
  BY <1>1, <1>2, OneLess DEF Texts
<1>5. transcript' \in Texts
  BY <1>2, <1>3, <1>4 DEF Texts
<1>6. DOMAIN Screen!Marked = ViewFields /\ Screen!Marked.dirty = TRUE /\ Screen!Marked.cache = view.cache
  BY <1>1, MarkedIs
<1>7. /\ DOMAIN view' = ViewFields /\ view'.dirty = TRUE /\ view'.streams = FALSE
      /\ view'.cache = view.cache
  BY <1>6 DEF Screen!FinalizeStreamingBlock, ViewFields
<1>8. placeholder' = FALSE /\ UNCHANGED <<width, kept>>
  BY DEF Screen!FinalizeStreamingBlock
<1>9. ScreenTypes'
  BY <1>5, <1>7, <1>8 DEF ScreenInv, ScreenTypes
<1>10. PlaceholderIsKnown'
  BY <1>7, <1>8 DEF PlaceholderIsKnown
<1>. QED  BY <1>7, <1>9, <1>10 DEF ScreenInv, WidthIsKnown, CleanIsShown

\* An output is printed below everything, and trails the text that streams.
LEMMA LogStays ==
  ASSUME ScreenInv, Screen!Log
  PROVE  ScreenInv'
<1>1. /\ transcript \in Texts /\ kept \in Seq(Nat) /\ DOMAIN view = ViewFields
      /\ Len(kept) < MaxPrints /\ Len(transcript) \in Nat
      /\ UNCHANGED <<transcript, placeholder, width, mixed>>
  BY DEF ScreenInv, ScreenTypes, Screen!Log, Texts
<1>2. PICK m \in Nat : m = Len(transcript)
  BY <1>1
<1>3. kept' = Append(kept, m)
  BY <1>2 DEF Screen!Log
<1>4. kept' \in Seq(Nat) /\ Len(kept') <= MaxPrints /\ kept' = With(kept, m)
  BY <1>1, <1>3, RoomAssumption DEF With
<1>5. PICK seq : seq = Len(kept) + 1
  OBVIOUS
<1>6. PICK u : u = Logged(view, seq)
  OBVIOUS
<1>7. view' = IF view.splash THEN Screen!Marked ELSE IF view.dirty THEN view ELSE u
  BY <1>5, <1>6 DEF Screen!Log, Logged
<1>8. /\ DOMAIN Screen!Marked = ViewFields /\ Screen!Marked.dirty = TRUE
      /\ Screen!Marked.streams = view.streams /\ Screen!Marked.cache = view.cache
  BY <1>1, MarkedIs
<1>9. /\ DOMAIN u = ViewFields /\ u.cache = view.cache /\ u.streams = view.streams
      /\ u.dirty = view.dirty /\ u.width = view.width
  BY <1>1, <1>6 DEF Logged, ViewFields
<1>10. /\ DOMAIN view' = ViewFields /\ view'.cache = view.cache /\ view'.streams = view.streams
       /\ ~view'.dirty => ~view.splash /\ ~view.dirty /\ view' = u
  BY <1>1, <1>7, <1>8, <1>9
<1>11. ASSUME ~view'.dirty, ~mixed'  PROVE Shown(view', transcript', kept')
  <2>1. ~view.splash /\ ~view.dirty /\ ~mixed /\ view' = u
    BY <1>1, <1>10, <1>11
  <2>2. Shown(view, transcript, kept)
    BY <2>1 DEF ScreenInv, CleanIsShown
  <2>3. view.streams => Screen!StreamingAt(view, transcript) # Screen!None
    BY <2>1, PlaceholderIs DEF ScreenInv, PlaceholderIsKnown
  <2>4. ~Quiet(transcript, kept) /\ view.splash = FALSE
    BY <2>1, <2>2 DEF Shown
  <2>5. PICK w : w = view.width
    OBVIOUS
  <2>6. w \in {1, 2}
    BY <2>1, <2>5 DEF ScreenInv, WidthIsKnown
  <2>7. PICK outputs \in Seq(Nat) : outputs = kept
    BY <1>1
  <2>8. Shown(u, transcript, With(outputs, m))
    BY <1>1, <1>2, <1>5, <1>6, <2>2, <2>3, <2>4, <2>5, <2>6, <2>7, LogShows
  <2>. QED  BY <1>1, <1>4, <2>1, <2>7, <2>8
<1>12. ScreenTypes'
  BY <1>1, <1>4, <1>10 DEF ScreenInv, ScreenTypes
<1>13. PlaceholderIsKnown'
  BY <1>1, <1>10 DEF ScreenInv, PlaceholderIsKnown
<1>14. WidthIsKnown'
  BY <1>9, <1>10 DEF ScreenInv, WidthIsKnown
<1>. QED  BY <1>10, <1>11, <1>12, <1>13, <1>14 DEF ScreenInv, CleanIsShown

\* A frame rebuilds the buffer.
LEMMA FlushStays ==
  ASSUME ScreenInv, Screen!Flush
  PROVE  ScreenInv'
<1>1. /\ transcript \in Texts /\ width \in {1, 2} /\ kept \in Seq(Nat) /\ DOMAIN view = ViewFields
      /\ CacheIsSound(view.cache)
      /\ UNCHANGED <<transcript, placeholder, width, kept, mixed>>
  BY DEF ScreenInv, ScreenTypes, Screen!Flush
<1>2. PICK msgs \in Texts : msgs = transcript
  BY <1>1
<1>3. PICK old : old = view
  OBVIOUS
<1>4. PICK built : built = Screen!Rebuild(old, msgs)
  OBVIOUS
<1>5. /\ DOMAIN built = ViewFields /\ CacheIsSound(built.cache)
      /\ built.width = width /\ built.streams = view.streams
      /\ Shown(built, msgs, kept)
  BY <1>1, <1>3, <1>4, RebuildShows
<1>6. view' = built
  BY <1>2, <1>3, <1>4 DEF Screen!Flush
<1>7. ScreenTypes'
  BY <1>1, <1>5, <1>6 DEF ScreenInv, ScreenTypes
<1>8. PlaceholderIsKnown'
  BY <1>1, <1>5, <1>6 DEF ScreenInv, PlaceholderIsKnown
<1>9. CleanIsShown'
  BY <1>1, <1>2, <1>5, <1>6 DEF CleanIsShown
<1>. QED  BY <1>1, <1>5, <1>6, <1>7, <1>8, <1>9 DEF ScreenInv, WidthIsKnown

\* A resize leaves the buffer as it was built.
LEMMA ResizeStays ==
  ASSUME ScreenInv, Screen!Resize
  PROVE  ScreenInv'
<1>1. width' \in {1, 2} /\ UNCHANGED <<transcript, placeholder, kept, view, mixed>>
  BY DEF Screen!Resize, ScreenInv, ScreenTypes
<1>. QED  BY <1>1 DEF ScreenInv, ScreenTypes, PlaceholderIsKnown, WidthIsKnown, CleanIsShown

\* Messages that are taken back mark the buffer, and in mid-stream the placeholder with it.
LEMMA RemoveStays ==
  ASSUME ScreenInv, NEW count \in 0..MaxMessages, Screen!RemoveMessagesAfter(count)
  PROVE  ScreenInv'
<1>1. transcript' \in Texts
  <2>1. transcript \in Texts /\ count \in 0..Len(transcript) /\ transcript' = SubSeq(transcript, 1, count)
    BY RoomAssumption DEF ScreenInv, ScreenTypes, Screen!RemoveMessagesAfter, Texts
  <2>. QED  BY <2>1 DEF Texts
<1>2. /\ DOMAIN view' = ViewFields /\ view'.dirty = TRUE /\ view'.streams = view.streams
      /\ view'.cache = view.cache
  BY MarkedIs DEF Screen!RemoveMessagesAfter, ScreenInv, ScreenTypes
<1>3. mixed' = (mixed \/ placeholder) /\ UNCHANGED <<placeholder, width, kept>>
  BY DEF Screen!RemoveMessagesAfter
<1>4. ScreenTypes'
  BY <1>1, <1>2, <1>3 DEF ScreenInv, ScreenTypes
<1>5. PlaceholderIsKnown'
  BY <1>2, <1>3 DEF ScreenInv, PlaceholderIsKnown
<1>. QED  BY <1>2, <1>4, <1>5 DEF ScreenInv, WidthIsKnown, CleanIsShown

\* A reset leaves nothing, in mid-stream no place for the text that streams either.
LEMMA ResetStays ==
  ASSUME ScreenInv, Screen!ResetAll
  PROVE  ScreenInv'
<1>1. transcript' \in Texts /\ kept' \in Seq(Nat) /\ Len(kept') <= MaxPrints
  BY RoomAssumption DEF Screen!ResetAll, Texts
<1>2. DOMAIN Screen!Marked = ViewFields /\ Screen!Marked.dirty = TRUE
  BY MarkedIs DEF ScreenInv, ScreenTypes
<1>3. /\ DOMAIN view' = ViewFields /\ view'.dirty = TRUE /\ view'.streams = FALSE
      /\ view'.cache = Screen!NoLines
  BY <1>2 DEF Screen!ResetAll, ViewFields
<1>4. mixed' = placeholder /\ UNCHANGED <<placeholder, width>>
  BY DEF Screen!ResetAll
<1>5. ScreenTypes'
  BY <1>1, <1>3, <1>4 DEF ScreenInv, ScreenTypes
<1>6. PlaceholderIsKnown'
  BY <1>3, <1>4 DEF PlaceholderIsKnown
<1>7. CacheIsSound(view'.cache)
  BY <1>3, NoCacheIsSound
<1>. QED  BY <1>3, <1>5, <1>6, <1>7 DEF ScreenInv, WidthIsKnown, CleanIsShown

\* Every operation of the conversation keeps what is known of its screen.
LEMMA ScreenStays == ScreenInv /\ [Screen!Next]_(Screen!vars) => ScreenInv'
<1>. SUFFICES ASSUME ScreenInv, [Screen!Next]_(Screen!vars)  PROVE ScreenInv'
  OBVIOUS
<1>1. CASE Screen!AddUserMessage
  BY <1>1, AddStays, RoomAssumption DEF Screen!AddUserMessage
<1>2. CASE Screen!AddAssistantMessage
  BY <1>2, AddStays, RoomAssumption DEF Screen!AddAssistantMessage
<1>3. CASE Screen!AddSystemMessage
  BY <1>3, AddStays, RoomAssumption DEF Screen!AddSystemMessage
<1>4. CASE Screen!StartStreamingBlock
  BY <1>4, StartStays
<1>5. CASE \E text \in 1..MaxLines : Screen!UpdateStreamingBlock(text)
  BY <1>5, UpdateStays
<1>6. CASE \E answer \in BOOLEAN : Screen!FinalizeStreamingBlock(answer)
  BY <1>6, FinalizeStays
<1>7. CASE Screen!Log
  BY <1>7, LogStays
<1>8. CASE Screen!Flush
  BY <1>8, FlushStays
<1>9. CASE Screen!Resize
  BY <1>9, ResizeStays
<1>10. CASE \E count \in 0..MaxMessages : Screen!RemoveMessagesAfter(count)
  BY <1>10, RemoveStays
<1>11. CASE Screen!ResetAll
  BY <1>11, ResetStays
<1>12. CASE UNCHANGED Screen!vars
  BY <1>12 DEF Screen!vars, ScreenInv, ScreenTypes, PlaceholderIsKnown, WidthIsKnown, CleanIsShown
<1>. QED  BY <1>1, <1>2, <1>3, <1>4, <1>5, <1>6, <1>7, <1>8, <1>9, <1>10, <1>11, <1>12
          DEF Screen!Next

\* It is known at every state.
LEMMA ScreenHolds == Screen!Spec => []ScreenInv
  BY ScreenStarts, ScreenStays, PTL DEF Screen!Spec

\* What is shown is what a rebuild from nothing would show.
LEMMA ShownIsRebuilt == ScreenInv => Screen!ShownAsRebuilt
<1>. SUFFICES ASSUME ScreenInv, Screen!Calm
              PROVE  view.lines = Screen!Rebuild([view EXCEPT !.cache = Screen!NoLines], transcript).lines
  BY DEF Screen!ShownAsRebuilt
<1>1. /\ transcript \in Texts /\ width \in {1, 2} /\ kept \in Seq(Nat) /\ DOMAIN view = ViewFields
  BY DEF ScreenInv, ScreenTypes
<1>2. ~view.dirty /\ view.width = width /\ ~mixed
  BY DEF Screen!Calm, Screen!Clean
<1>3. Shown(view, transcript, kept)
  BY <1>2 DEF ScreenInv, CleanIsShown
<1>4. PICK msgs \in Texts : msgs = transcript
  BY <1>1
<1>5. PICK old : old = [view EXCEPT !.cache = Screen!NoLines]
  OBVIOUS
<1>6. /\ DOMAIN old = ViewFields /\ CacheIsSound(old.cache) /\ old.streams = view.streams
  BY <1>1, <1>5, NoCacheIsSound DEF ViewFields
<1>7. PICK built : built = Screen!Rebuild(old, msgs)
  OBVIOUS
<1>8. built.width = width /\ built.streams = view.streams /\ Shown(built, msgs, kept)
  BY <1>1, <1>6, <1>7, RebuildShows
<1>9. Screen!StreamingAt(built, msgs) = Screen!StreamingAt(view, msgs)
  BY <1>8 DEF Screen!StreamingAt
<1>10. built.lines = view.lines
  BY <1>2, <1>3, <1>4, <1>8, <1>9 DEF Shown, Stacked
<1>. QED  BY <1>4, <1>5, <1>7, <1>10

\* "A cache-served rebuild is BYTE-IDENTICAL to a cold rebuild" (conversation-line-cache.ts),
\* and so is a screen that needs none, for any transcript and at every state but one: while
\* a block is open and, since it began, a message came in behind its placeholder or messages
\* were taken back or reset (Screen!Calm).  What is taken back between blocks is covered.
THEOREM ShownStaysAsRebuilt == Screen!Spec => []Screen!ShownAsRebuilt
  BY ScreenHolds, ShownIsRebuilt, PTL

----------------------------------------------------------------------------
(* The texts and the printed outputs that lines show.                       *)

\* What a sequence begins with.
LEMMA PrefixIs ==
  ASSUME NEW S, NEW s \in Seq(S), NEW k \in 0..Len(s)
  PROVE  /\ SubSeq(s, 1, k) \in Seq(S) /\ Len(SubSeq(s, 1, k)) = k
         /\ k # Len(s) => SubSeq(s, 1, k + 1) = Append(SubSeq(s, 1, k), s[k + 1])
<1>1. Len(s) \in Nat /\ k \in Nat
  OBVIOUS
<1>2. SubSeq(s, 1, k) \in Seq(S) /\ Len(SubSeq(s, 1, k)) = k
  BY <1>1
<1>. QED  BY <1>1, <1>2

\* One more is added at the end.
LEMMA FlattenMore ==
  ASSUME NEW seqs \in Seq(Seq(Lines)), NEW s \in Seq(Lines)
  PROVE  Screen!FlattenSeq(Append(seqs, s)) = Screen!FlattenSeq(seqs) \o s
<1>. DEFINE more == Append(seqs, s)
            n == Len(seqs)
<1>1. /\ n \in Nat /\ more \in Seq(Seq(Lines)) /\ Len(more) = n + 1 /\ Len(more) # 0
      /\ more[n + 1] = s /\ \A i \in 1..n : more[i] = seqs[i]
  OBVIOUS
<1>2. PICK g : SumsUp(g, more) /\ Screen!FlattenSeq(more) = g[n + 1]
  <2>. HIDE DEF more, n
  <2>. QED  BY <1>1, FlattenIs
<1>3. CASE n = 0
  <2>1. Screen!FlattenSeq(seqs) = <<>>
    BY <1>3 DEF Screen!FlattenSeq
  <2>2. g[n + 1] = s
    <3>. HIDE DEF more
    <3>. QED  BY <1>1, <1>2, <1>3 DEF SumsUp
  <2>. QED  BY <1>2, <2>1, <2>2
<1>4. CASE n # 0
  <2>1. PICK f : SumsUp(f, seqs) /\ Screen!FlattenSeq(seqs) = f[n]
    BY <1>4, FlattenIs
  <2>. DEFINE Same == {k \in 0..n : k = 0 \/ f[k] = g[k]}
  <2>. HIDE DEF more
  <2>2. 0 \in Same
    BY <1>1
  <2>3. ASSUME NEW k \in 0..(n - 1), k \in Same  PROVE k + 1 \in Same
    <3>1. k + 1 \in 1..n /\ k + 1 \in 1..Len(more) /\ (k + 1) - 1 = k
      BY <1>1
    <3>2. f[k + 1] = IF k + 1 = 1 THEN seqs[k + 1] ELSE f[k] \o seqs[k + 1]
      BY <2>1, <3>1 DEF SumsUp
    <3>3. g[k + 1] = IF k + 1 = 1 THEN more[k + 1] ELSE g[k] \o more[k + 1]
      BY <1>2, <3>1 DEF SumsUp
    <3>. QED  BY <1>1, <2>3, <3>1, <3>2, <3>3
  <2>4. n \in Same
    <3>. HIDE DEF Same, n
    <3>1. 0..n \subseteq Same
      BY <1>1, <2>2, <2>3, SetInduction
    <3>. QED  BY <1>1, <3>1
  <2>5. g[n + 1] = g[n] \o s
    <3>1. n + 1 \in 1..Len(more) /\ n + 1 # 1 /\ (n + 1) - 1 = n
      BY <1>1, <1>4
    <3>. HIDE DEF n
    <3>. QED  BY <1>1, <1>2, <3>1 DEF SumsUp
  <2>. QED  BY <1>2, <1>4, <2>1, <2>4, <2>5 DEF more
<1>. QED  BY <1>1, <1>3, <1>4

\* Two are added up one after the other.
LEMMA FlattenBoth ==
  ASSUME NEW a \in Seq(Seq(Lines)), NEW b \in Seq(Seq(Lines))
  PROVE  Screen!FlattenSeq(a \o b) = Screen!FlattenSeq(a) \o Screen!FlattenSeq(b)
<1>. DEFINE n == Len(b)
            Part(k) == SubSeq(b, 1, k)
            Good == {k \in 0..n : Screen!FlattenSeq(a \o Part(k))
                                  = Screen!FlattenSeq(a) \o Screen!FlattenSeq(Part(k))}
<1>0. n \in Nat
  OBVIOUS
<1>1. n \in Nat /\ Part(n) = b /\ Part(0) = <<>> /\ a \o <<>> = a
  OBVIOUS
<1>2. PICK all : all = Screen!FlattenSeq(a) /\ all \in Seq(Lines)
  BY FlattenType
<1>3. 0 \in Good
  <2>1. Screen!FlattenSeq(<<>>) = <<>>
    BY DEF Screen!FlattenSeq
  <2>2. all \o <<>> = all
    BY <1>2
  <2>3. Screen!FlattenSeq(a \o Part(0)) = Screen!FlattenSeq(a) \o Screen!FlattenSeq(Part(0))
    BY <1>1, <1>2, <2>1, <2>2
  <2>. HIDE DEF Part
  <2>. QED  BY <1>1, <2>3
<1>4. ASSUME NEW k \in 0..(n - 1), k \in Good  PROVE k + 1 \in Good
  <2>0. k \in 0..n /\ k # n /\ k + 1 \in 1..n
    BY <1>0
  <2>1. PICK c \in Seq(Seq(Lines)) : c = Part(k)
    <3>1. Part(k) \in Seq(Seq(Lines))
      BY <2>0, PrefixIs
    <3>. QED  BY <3>1
  <2>2. PICK s \in Seq(Lines) : s = b[k + 1]
    BY <2>0
  <2>3. Part(k + 1) = Append(c, s)
    <3>1. Part(k + 1) = Append(Part(k), b[k + 1])
      BY <2>0, PrefixIs
    <3>. QED  BY <2>1, <2>2, <3>1
  <2>4. a \o Append(c, s) = Append(a \o c, s) /\ a \o c \in Seq(Seq(Lines))
    OBVIOUS
  <2>5. PICK some : some = Screen!FlattenSeq(c) /\ some \in Seq(Lines)
    BY FlattenType
  <2>6. Screen!FlattenSeq(a \o c) = all \o some
    BY <1>2, <1>4, <2>1, <2>5
  <2>7. Screen!FlattenSeq(Append(a \o c, s)) = Screen!FlattenSeq(a \o c) \o s
    BY <2>4, FlattenMore
  <2>8. Screen!FlattenSeq(Append(c, s)) = some \o s
    BY <2>5, FlattenMore
  <2>9. (all \o some) \o s = all \o (some \o s)
    BY <1>2, <2>5
  <2>10. Screen!FlattenSeq(a \o Part(k + 1)) = Screen!FlattenSeq(a) \o Screen!FlattenSeq(Part(k + 1))
    BY <1>2, <2>3, <2>4, <2>6, <2>7, <2>8, <2>9
  <2>. HIDE DEF Part
  <2>. QED  BY <1>1, <2>10
<1>5. n \in Good
  <2>. HIDE DEF Good, n
  <2>1. 0..n \subseteq Good
    BY <1>1, <1>3, <1>4, SetInduction
  <2>. QED  BY <1>1, <2>1
<1>. HIDE DEF Part
<1>. QED  BY <1>1, <1>5

\* The texts among lines, one at a time.
IfText(line)    == IF line.of = "text" THEN <<line>> ELSE <<>>
TextEach(lines) == [l \in DOMAIN lines |-> IfText(lines[l])]

\* What picks the texts picks sequences of lines.
LEMMA TextEachType ==
  ASSUME NEW a \in Seq(Lines)
  PROVE  /\ TextEach(a) \in Seq(Seq(Lines)) /\ Len(TextEach(a)) = Len(a)
         /\ \A l \in 1..Len(a) : TextEach(a)[l] = IfText(a[l])
         /\ Screen!TextsOf(a) = Screen!FlattenSeq(TextEach(a))
<1>1. Len(a) \in Nat /\ DOMAIN a = 1..Len(a)
  OBVIOUS
<1>2. \A l \in 1..Len(a) : IfText(a[l]) \in Seq(Lines)
  BY <1>1 DEF IfText
<1>3. [l \in 1..Len(a) |-> IfText(a[l])] \in Seq(Seq(Lines))
  BY <1>1, <1>2
<1>4. TextEach(a) \in Seq(Seq(Lines))
  BY <1>1, <1>3 DEF TextEach
<1>5. /\ Len(TextEach(a)) = Len(a)
      /\ \A l \in 1..Len(a) : TextEach(a)[l] = IfText(a[l])
  BY <1>1 DEF TextEach
<1>6. Screen!TextsOf(a) = Screen!FlattenSeq(TextEach(a))
  BY DEF Screen!TextsOf, TextEach, IfText
<1>. QED  BY <1>4, <1>5, <1>6

\* Texts are lines.
LEMMA TextsType ==
  ASSUME NEW a \in Seq(Lines)
  PROVE  Screen!TextsOf(a) \in Seq(Lines)
<1>1. /\ TextEach(a) \in Seq(Seq(Lines))
      /\ Screen!TextsOf(a) = Screen!FlattenSeq(TextEach(a))
  BY TextEachType
<1>. QED  BY <1>1, FlattenType

\* Two sequences joined.
LEMMA JoinIs ==
  ASSUME NEW S, NEW a \in Seq(S), NEW b \in Seq(S)
  PROVE  /\ a \o b \in Seq(S) /\ Len(a \o b) = Len(a) + Len(b)
         /\ Len(a) \in Nat /\ Len(b) \in Nat
         /\ \A i \in 1..Len(a) : (a \o b)[i] = a[i]
         /\ \A i \in 1..Len(b) : (a \o b)[Len(a) + i] = b[i]
<1>1. Len(a) \in Nat /\ Len(b) \in Nat
  OBVIOUS
<1>2. /\ a \o b \in Seq(S) /\ Len(a \o b) = Len(a) + Len(b)
      /\ \A i \in 1..Len(a) + Len(b) : (a \o b)[i] = IF i <= Len(a) THEN a[i] ELSE b[i - Len(a)]
  BY ConcatProperties
<1>3. PICK n \in Nat, m \in Nat : n = Len(a) /\ m = Len(b)
  BY <1>1
<1>4. \A i \in 1..n : (a \o b)[i] = a[i]
  BY <1>2, <1>3
<1>5. ASSUME NEW i \in 1..m  PROVE (a \o b)[n + i] = b[i]
  <2>1. n + i \in 1..n + m /\ ~(n + i <= n) /\ (n + i) - n = i
    OBVIOUS
  <2>. QED  BY <1>2, <1>3, <2>1
<1>. QED  BY <1>2, <1>3, <1>4, <1>5

\* What has the elements of two sequences is both of them joined.
LEMMA JoinOf ==
  ASSUME NEW S, NEW a \in Seq(S), NEW b \in Seq(S), NEW c \in Seq(S),
         Len(c) = Len(a) + Len(b), \A i \in 1..Len(a) : c[i] = a[i],
         \A i \in 1..Len(b) : c[Len(a) + i] = b[i]
  PROVE  c = a \o b
<1>1. PICK n \in Nat, m \in Nat : n = Len(a) /\ m = Len(b)
  OBVIOUS
<1>2. PICK d \in Seq(S) : d = a \o b
  BY JoinIs
<1>3. /\ Len(d) = n + m /\ \A i \in 1..n : d[i] = a[i]
      /\ \A i \in 1..m : d[n + i] = b[i]
  BY <1>1, <1>2, JoinIs
<1>4. ASSUME NEW i \in 1..(n + m)  PROVE c[i] = d[i]
  <2>1. CASE i <= n
    BY <1>1, <1>3, <2>1
  <2>2. CASE i > n
    <3>1. i - n \in 1..m /\ n + (i - n) = i
      BY <2>2
    <3>2. c[n + (i - n)] = d[n + (i - n)]
      BY <1>1, <1>3, <3>1
    <3>. QED  BY <3>1, <3>2
  <2>. QED  BY <2>1, <2>2
<1>5. Len(c) = Len(d) /\ \A i \in 1..Len(c) : c[i] = d[i]
  BY <1>1, <1>3, <1>4
<1>. QED  BY <1>2, <1>5, SeqEqual

\* The texts of two parts follow one another.
LEMMA TextsBoth ==
  ASSUME NEW a \in Seq(Lines), NEW b \in Seq(Lines)
  PROVE  Screen!TextsOf(a \o b) = Screen!TextsOf(a) \o Screen!TextsOf(b)
<1>1. PICK c \in Seq(Lines) : c = a \o b
  BY JoinIs
<1>2. PICK n \in Nat, m \in Nat : n = Len(a) /\ m = Len(b)
  BY JoinIs
<1>3. /\ Len(c) = n + m /\ \A i \in 1..n : c[i] = a[i] /\ i \in 1..Len(c)
      /\ \A i \in 1..m : c[n + i] = b[i] /\ n + i \in 1..Len(c)
  BY <1>1, <1>2, JoinIs
<1>4. PICK ea \in Seq(Seq(Lines)) : ea = TextEach(a)
  BY TextEachType
<1>5. PICK eb \in Seq(Seq(Lines)) : eb = TextEach(b)
  BY TextEachType
<1>6. PICK ec \in Seq(Seq(Lines)) : ec = TextEach(c)
  BY TextEachType
<1>7. /\ Len(ea) = n /\ \A l \in 1..n : ea[l] = IfText(a[l])
      /\ Len(eb) = m /\ \A l \in 1..m : eb[l] = IfText(b[l])
      /\ Len(ec) = n + m
      /\ \A l \in 1..Len(c) : ec[l] = IfText(c[l])
  BY <1>2, <1>3, <1>4, <1>5, <1>6, TextEachType
<1>8. \A l \in 1..n : ec[l] = ea[l]
  BY <1>3, <1>7
<1>9. \A l \in 1..m : ec[n + l] = eb[l]
  BY <1>3, <1>7
<1>10. ec = ea \o eb
  <2>1. /\ Len(ec) = Len(ea) + Len(eb) /\ \A l \in 1..Len(ea) : ec[l] = ea[l]
        /\ \A l \in 1..Len(eb) : ec[Len(ea) + l] = eb[l]
    BY <1>7, <1>8, <1>9
  <2>. DEFINE S == Seq(Lines)
  <2>2. ea \in Seq(S) /\ eb \in Seq(S) /\ ec \in Seq(S)
    OBVIOUS
  <2>. HIDE DEF S
  <2>. QED  BY <2>1, <2>2, JoinOf
<1>11. /\ Screen!TextsOf(a) = Screen!FlattenSeq(ea) /\ Screen!TextsOf(b) = Screen!FlattenSeq(eb)
       /\ Screen!TextsOf(c) = Screen!FlattenSeq(ec)
  BY <1>4, <1>5, <1>6, TextEachType
<1>12. Screen!FlattenSeq(ea \o eb) = Screen!FlattenSeq(ea) \o Screen!FlattenSeq(eb)
  BY FlattenBoth
<1>. QED  BY <1>1, <1>10, <1>11, <1>12

\* Of texts alone they are all.
LEMMA TextsAll ==
  ASSUME NEW a \in Seq(Lines), \A l \in 1..Len(a) : a[l].of = "text"
  PROVE  Screen!TextsOf(a) = a
<1>1. PICK n \in Nat : n = Len(a)
  OBVIOUS
<1>. DEFINE Good == {k \in 0..n : Screen!TextsOf(SubSeq(a, 1, k)) = SubSeq(a, 1, k)}
<1>2. 0 \in Good
  <2>1. SubSeq(a, 1, 0) = <<>> /\ Screen!TextsOf(<<>>) = <<>>
    BY DEF Screen!TextsOf, Screen!FlattenSeq
  <2>2. Screen!TextsOf(SubSeq(a, 1, 0)) = SubSeq(a, 1, 0)
    BY <2>1
  <2>. QED  BY <2>2
<1>3. ASSUME NEW k \in 0..(n - 1), k \in Good  PROVE k + 1 \in Good
  <2>1. k \in 0..n /\ k # n /\ k + 1 \in 1..n /\ k + 1 \in 0..n
    OBVIOUS
  <2>2. PICK c \in Seq(Lines) : c = SubSeq(a, 1, k)
    BY <1>1, <2>1, PrefixIs
  <2>3. PICK x \in Lines : x = a[k + 1] /\ x.of = "text"
    BY <1>1, <2>1
  <2>4. SubSeq(a, 1, k + 1) = Append(c, x)
    BY <1>1, <2>1, <2>2, <2>3, PrefixIs
  <2>5. Append(c, x) = c \o <<x>> /\ <<x>> \in Seq(Lines)
    OBVIOUS
  <2>6. Screen!TextsOf(<<x>>) = <<x>>
    <3>1. TextEach(<<x>>) = <<<<x>>>>
      BY <2>3 DEF TextEach, IfText
    <3>2. Screen!FlattenSeq(<<>>) = <<>> /\ <<>> \in Seq(Seq(Lines))
      BY DEF Screen!FlattenSeq
    <3>3. Append(<<>>, <<x>>) = <<<<x>>>> /\ <<>> \o <<x>> = <<x>>
      OBVIOUS
    <3>4. Screen!FlattenSeq(Append(<<>>, <<x>>)) = Screen!FlattenSeq(<<>>) \o <<x>>
      BY <2>5, <3>2, FlattenMore
    <3>5. Screen!TextsOf(<<x>>) = Screen!FlattenSeq(TextEach(<<x>>))
      BY <2>5, TextEachType
    <3>. QED  BY <3>1, <3>2, <3>3, <3>4, <3>5
  <2>7. Screen!TextsOf(c) = c
    BY <1>3, <2>2
  <2>8. Screen!TextsOf(c \o <<x>>) = c \o <<x>>
    BY <2>5, <2>6, <2>7, TextsBoth
  <2>. QED  BY <2>1, <2>4, <2>5, <2>8
<1>4. 0..n \subseteq Good
  <2>. HIDE DEF Good
  <2>. QED  BY <1>2, <1>3, SetInduction
<1>5. n \in Good
  <2>. HIDE DEF Good
  <2>. QED  BY <1>4
<1>6. SubSeq(a, 1, n) = a
  BY <1>1
<1>. QED  BY <1>5, <1>6

\* Sequences of nothing add up to nothing.
LEMMA FlattenNone ==
  ASSUME NEW seqs \in Seq(Seq(Lines)), \A i \in 1..Len(seqs) : seqs[i] = <<>>
  PROVE  Screen!FlattenSeq(seqs) = <<>>
<1>1. PICK n \in Nat : n = Len(seqs)
  OBVIOUS
<1>2. CASE n = 0
  <2>1. Len(seqs) = 0
    BY <1>1, <1>2
  <2>2. seqs = <<>>
    BY <2>1, EmptySeq
  <2>. QED  BY <2>1, <2>2 DEF Screen!FlattenSeq
<1>3. CASE n # 0
  <2>1. PICK f : SumsUp(f, seqs) /\ Screen!FlattenSeq(seqs) = f[n]
    BY <1>1, <1>3, FlattenIs
  <2>. DEFINE Good == {k \in 0..n : k = 0 \/ f[k] = <<>>}
  <2>2. ASSUME NEW k \in 0..(n - 1), k \in Good  PROVE k + 1 \in Good
    <3>0. k + 1 \in 1..n /\ k + 1 \in 0..n /\ (k + 1) - 1 = k /\ (k = 0 <=> k + 1 = 1)
      OBVIOUS
    <3>1. f[k + 1] = IF k = 0 THEN seqs[k + 1] ELSE f[k] \o seqs[k + 1]
      BY <1>1, <2>1, <3>0 DEF SumsUp
    <3>2. seqs[k + 1] = <<>> /\ <<>> \o <<>> = <<>>
      BY <1>1, <3>0
    <3>. QED  BY <2>2, <3>0, <3>1, <3>2
  <2>3. 0..n \subseteq Good
    <3>1. 0 \in Good
      OBVIOUS
    <3>. HIDE DEF Good
    <3>. QED  BY <2>2, <3>1, SetInduction
  <2>4. n \in Good
    <3>. HIDE DEF Good
    <3>. QED  BY <2>3
  <2>. QED  BY <1>3, <2>1, <2>4
<1>. QED  BY <1>2, <1>3

\* Where there is no text there are none.
LEMMA TextsNone ==
  ASSUME NEW a \in Seq(Lines), \A l \in 1..Len(a) : a[l].of # "text"
  PROVE  Screen!TextsOf(a) = <<>>
<1>1. PICK n \in Nat : n = Len(a)
  OBVIOUS
<1>2. PICK e \in Seq(Seq(Lines)) : e = TextEach(a)
  BY TextEachType
<1>3. Len(e) = n /\ \A l \in 1..n : e[l] = <<>>
  BY <1>1, <1>2, TextEachType DEF IfText
<1>4. Screen!TextsOf(a) = Screen!FlattenSeq(e)
  BY <1>2, TextEachType
<1>. QED  BY <1>3, <1>4, FlattenNone

\* Nothing says nothing.
LEMMA NoTexts == <<>> \in Seq(Lines) /\ Screen!TextsOf(<<>>) = <<>>
<1>1. Screen!TextsOf(<<>>) = <<>>
  BY DEF Screen!TextsOf, Screen!FlattenSeq
<1>. QED  BY <1>1

\* Sequences of texts add up to texts.
LEMMA FlattenTexts ==
  ASSUME NEW seqs \in Seq(Seq(Lines)), \A i \in 1..Len(seqs) : Screen!TextsOf(seqs[i]) = seqs[i]
  PROVE  Screen!TextsOf(Screen!FlattenSeq(seqs)) = Screen!FlattenSeq(seqs)
<1>1. PICK n \in Nat : n = Len(seqs)
  OBVIOUS
<1>2. CASE n = 0
  <2>1. Screen!FlattenSeq(seqs) = <<>>
    <3>1. Len(seqs) = 0
      BY <1>1, <1>2
    <3>2. seqs = <<>>
      BY <3>1, EmptySeq
    <3>. QED  BY <3>1, <3>2 DEF Screen!FlattenSeq
  <2>. QED  BY <2>1, NoTexts
<1>3. CASE n # 0
  <2>1. PICK f : SumsUp(f, seqs) /\ Screen!FlattenSeq(seqs) = f[n]
    BY <1>1, <1>3, FlattenIs
  <2>. DEFINE Good == {k \in 0..n : k = 0 \/ (f[k] \in Seq(Lines) /\ Screen!TextsOf(f[k]) = f[k])}
  <2>2. ASSUME NEW k \in 0..(n - 1), k \in Good  PROVE k + 1 \in Good
    <3>1. k + 1 \in 1..n /\ k + 1 \in 0..n /\ (k + 1) - 1 = k /\ (k = 0 <=> k + 1 = 1)
      OBVIOUS
    <3>2. f[k + 1] = IF k = 0 THEN seqs[k + 1] ELSE f[k] \o seqs[k + 1]
      BY <1>1, <2>1, <3>1 DEF SumsUp
    <3>3. PICK s \in Seq(Lines) : s = seqs[k + 1] /\ Screen!TextsOf(s) = s
      BY <1>1, <3>1
    <3>4. CASE k = 0
      BY <3>1, <3>2, <3>3, <3>4
    <3>5. CASE k # 0
      <4>1. PICK a \in Seq(Lines) : a = f[k] /\ Screen!TextsOf(a) = a
        BY <2>2, <3>5
      <4>2. a \o s \in Seq(Lines) /\ Screen!TextsOf(a \o s) = a \o s
        BY <3>3, <4>1, TextsBoth, JoinIs
      <4>. QED  BY <3>1, <3>2, <3>3, <3>5, <4>1, <4>2
    <3>. QED  BY <3>4, <3>5
  <2>3. 0..n \subseteq Good
    <3>1. 0 \in Good
      OBVIOUS
    <3>. HIDE DEF Good
    <3>. QED  BY <2>2, <3>1, SetInduction
  <2>4. n \in Good
    <3>. HIDE DEF Good
    <3>. QED  BY <2>3
  <2>. QED  BY <1>3, <2>1, <2>4
<1>. QED  BY <1>2, <1>3

\* What a message says, but for the answer that streams, which is drawn below all.
Piece(w, msgs, at, i)  == IF i = at THEN <<>> ELSE Screen!TextLines(w, i, msgs[i].text)
Pieces(w, msgs, at, e) == [i \in 1..e |-> Piece(w, msgs, at, i)]
Upto(w, msgs, at, e)   == Screen!FlattenSeq(Pieces(w, msgs, at, e))

\* What a message says are texts.
LEMMA PieceIs ==
  ASSUME NEW w, w \in {1, 2}, NEW msgs \in Texts, NEW at, NEW i \in DOMAIN msgs
  PROVE  /\ Piece(w, msgs, at, i) \in Seq(Lines)
         /\ \A l \in 1..Len(Piece(w, msgs, at, i)) : Piece(w, msgs, at, i)[l].of = "text"
         /\ Screen!TextsOf(Piece(w, msgs, at, i)) = Piece(w, msgs, at, i)
<1>1. i \in Nat /\ msgs[i].text \in Nat /\ msgs[i].text * w \in Nat
  BY RoleType DEF Texts
<1>2. PICK p : p = Piece(w, msgs, at, i)
  OBVIOUS
<1>3. CASE i = at
  <2>1. p = <<>>
    BY <1>2, <1>3 DEF Piece
  <2>. QED  BY <1>2, <2>1, NoTexts
<1>4. CASE i # at
  <2>1. p = Screen!TextLines(w, i, msgs[i].text)
    BY <1>2, <1>4 DEF Piece
  <2>2. p \in Seq(Lines)
    BY <1>1, <2>1, TextType
  <2>3. Len(p) = msgs[i].text * w /\ \A l \in 1..(msgs[i].text * w) : p[l].of = "text"
    BY <1>1, <2>1 DEF Screen!TextLines, Screen!Line
  <2>4. \A l \in 1..Len(p) : p[l].of = "text"
    BY <2>3
  <2>. QED  BY <1>2, <2>2, <2>4, TextsAll
<1>. QED  BY <1>3, <1>4

\* What the first messages say are sequences of lines.
LEMMA PiecesAre ==
  ASSUME NEW w, w \in {1, 2}, NEW msgs \in Texts, NEW at, NEW e \in 0..Len(msgs)
  PROVE  /\ Pieces(w, msgs, at, e) \in Seq(Seq(Lines)) /\ Len(Pieces(w, msgs, at, e)) = e
         /\ \A i \in 1..e : Pieces(w, msgs, at, e)[i] = Piece(w, msgs, at, i)
<1>1. e \in Nat /\ \A i \in 1..e : i \in DOMAIN msgs
  BY DEF Texts
<1>2. \A i \in 1..e : Piece(w, msgs, at, i) \in Seq(Lines)
  BY <1>1, PieceIs
<1>. DEFINE S == Seq(Lines)
<1>3. \A i \in 1..e : Piece(w, msgs, at, i) \in S
  BY <1>2
<1>. HIDE DEF S
<1>4. Pieces(w, msgs, at, e) \in Seq(S)
  BY <1>1, <1>3 DEF Pieces
<1>5. Len(Pieces(w, msgs, at, e)) = e /\ \A i \in 1..e : Pieces(w, msgs, at, e)[i] = Piece(w, msgs, at, i)
  BY <1>1 DEF Pieces
<1>. QED  BY <1>4, <1>5 DEF S

\* One message more says what it says.
LEMMA UptoMore ==
  ASSUME NEW w, w \in {1, 2}, NEW msgs \in Texts, NEW at, NEW e \in 0..(Len(msgs) - 1)
  PROVE  Upto(w, msgs, at, e + 1) = Upto(w, msgs, at, e) \o Piece(w, msgs, at, e + 1)
<1>1. e \in 0..Len(msgs) /\ e + 1 \in 0..Len(msgs) /\ e + 1 \in DOMAIN msgs /\ e \in Nat
  BY DEF Texts
<1>2. PICK p \in Seq(Seq(Lines)) : p = Pieces(w, msgs, at, e)
  BY <1>1, PiecesAre
<1>3. PICK q \in Seq(Seq(Lines)) : q = Pieces(w, msgs, at, e + 1)
  BY <1>1, PiecesAre
<1>4. PICK s \in Seq(Lines) : s = Piece(w, msgs, at, e + 1)
  BY <1>1, PieceIs
<1>5. /\ Len(p) = e /\ Len(q) = e + 1 /\ q[e + 1] = s
      /\ \A i \in 1..e : q[i] = p[i]
  BY <1>1, <1>2, <1>3, <1>4, PiecesAre
<1>6. q = Append(p, s)
  <2>. DEFINE S == Seq(Lines)
  <2>1. p \in Seq(S) /\ q \in Seq(S) /\ s \in S
    OBVIOUS
  <2>. HIDE DEF S
  <2>2. Append(p, s) \in Seq(S) /\ Len(Append(p, s)) = e + 1
    BY <1>5, <2>1
  <2>3. \A i \in 1..(e + 1) : q[i] = Append(p, s)[i]
    BY <1>1, <1>5, <2>1
  <2>. QED  BY <1>5, <2>1, <2>2, <2>3, SeqEqual
<1>7. Screen!FlattenSeq(Append(p, s)) = Screen!FlattenSeq(p) \o s
  BY FlattenMore
<1>. QED  BY <1>2, <1>3, <1>4, <1>6, <1>7 DEF Upto

\* Notices say nothing in the transcript: they are toasts.
Silent(msgs) == \A i \in DOMAIN msgs : Screen!Is(msgs, i, "notice") => msgs[i].text = 0

\* A text of no lines is none.
LEMMA SilentText ==
  ASSUME NEW w, w \in {1, 2}, NEW i
  PROVE  Screen!TextLines(w, i, 0) = <<>>
<1>1. 0 * w = 0
  OBVIOUS
<1>. QED  BY <1>1 DEF Screen!TextLines

\* What the messages of a turn say, and how they are drawn.
Words(w, msgs, at, h) ==
    [k \in 1..(Screen!TurnEnd(msgs, h) - h + 1) |-> Piece(w, msgs, at, h + k - 1)]

DrawnWords(w, msgs, at, h) ==
    [k \in 1..(Screen!TurnEnd(msgs, h) - h + 1) |->
        LET j == h + k - 1
        IN  IF Screen!Is(msgs, j, "assistant") /\ j # at
            THEN Screen!TextLines(w, j, msgs[j].text) ELSE <<>>]

\* They are the same, as nothing is in a turn but answers and notices.
LEMMA TurnSays ==
  ASSUME NEW w, w \in {1, 2}, NEW msgs \in Texts, Silent(msgs), NEW at,
         NEW h \in DOMAIN msgs, Screen!Is(msgs, h, "assistant")
  PROVE  DrawnWords(w, msgs, at, h) = Words(w, msgs, at, h)
<1>1. PICK e : e = Screen!TurnEnd(msgs, h)
  OBVIOUS
<1>2. e \in h..Len(msgs) /\ e \in Screen!Stretch(msgs, h) /\ h \in 1..Len(msgs) /\ Len(msgs) \in Nat
  BY <1>1, TurnEndIs, RoleType DEF Texts
<1>. DEFINE Part(k) == LET j == h + k - 1
                       IN  IF Screen!Is(msgs, j, "assistant") /\ j # at
                           THEN Screen!TextLines(w, j, msgs[j].text) ELSE <<>>
<1>3. ASSUME NEW k \in 1..(e - h + 1)  PROVE Part(k) = Piece(w, msgs, at, h + k - 1)
  <2>1. PICK j \in h..e : j = h + k - 1
    BY <1>2
  <2>2. j \in DOMAIN msgs /\ ~Screen!Is(msgs, j, "user")
    BY <1>2 DEF Screen!Stretch, Texts
  <2>3. CASE Screen!Is(msgs, j, "assistant")
    BY <2>1, <2>3 DEF Piece
  <2>4. CASE ~Screen!Is(msgs, j, "assistant")
    <3>1. Screen!Is(msgs, j, "notice")
      BY <2>2, <2>4, RoleType DEF Screen!Is
    <3>2. msgs[j].text = 0
      BY <2>2, <3>1 DEF Silent
    <3>. QED  BY <2>1, <2>4, <3>2, SilentText DEF Piece
  <2>. QED  BY <2>3, <2>4
<1>4. DrawnWords(w, msgs, at, h) = [k \in 1..(e - h + 1) |-> Part(k)]
  BY <1>1 DEF DrawnWords
<1>5. Words(w, msgs, at, h) = [k \in 1..(e - h + 1) |-> Piece(w, msgs, at, h + k - 1)]
  BY <1>1 DEF Words
<1>6. [k \in 1..(e - h + 1) |-> Part(k)] = [k \in 1..(e - h + 1) |-> Piece(w, msgs, at, h + k - 1)]
  <2>. HIDE DEF Part
  <2>. QED  BY <1>3
<1>. QED  BY <1>4, <1>5, <1>6

\* What the messages of a turn say follows what was said before.
LEMMA WordsFollow ==
  ASSUME NEW w, w \in {1, 2}, NEW msgs \in Texts, NEW at,
         NEW h \in DOMAIN msgs, Screen!Is(msgs, h, "assistant")
  PROVE  /\ Words(w, msgs, at, h) \in Seq(Seq(Lines))
         /\ Screen!TextsOf(Screen!FlattenSeq(Words(w, msgs, at, h)))
            = Screen!FlattenSeq(Words(w, msgs, at, h))
         /\ Upto(w, msgs, at, Screen!TurnEnd(msgs, h))
            = Upto(w, msgs, at, h - 1) \o Screen!FlattenSeq(Words(w, msgs, at, h))
<1>1. PICK e \in h..Len(msgs) : e = Screen!TurnEnd(msgs, h)
  BY TurnEndIs
<1>2. h \in 1..Len(msgs) /\ Len(msgs) \in Nat /\ h \in Nat /\ e \in Nat /\ DOMAIN msgs = 1..Len(msgs)
  BY RoleType DEF Texts
<1>. DEFINE S == Seq(Lines)
<1>3. PICK n \in Nat : n = e - h + 1
  BY <1>2
<1>4. /\ e \in 0..Len(msgs) /\ h - 1 \in 0..Len(msgs) /\ e = (h - 1) + n
      /\ \A k \in 1..n : h + k - 1 \in DOMAIN msgs /\ h + k - 1 \in 1..e /\ h + k - 1 = (h - 1) + k
      /\ \A i \in 1..(h - 1) : i \in 1..e
  <2>1. PICK size \in Nat : size = Len(msgs) /\ DOMAIN msgs = 1..size /\ e \in h..size /\ h \in 1..size
    BY <1>2
  <2>2. e \in 0..size /\ h - 1 \in 0..size /\ e = (h - 1) + n
    BY <1>3, <2>1
  <2>3. \A k \in 1..n : h + k - 1 \in 1..size /\ h + k - 1 \in 1..e /\ h + k - 1 = (h - 1) + k
    BY <1>3, <2>1
  <2>4. \A i \in 1..(h - 1) : i \in 1..e
    BY <2>1
  <2>. QED  BY <2>1, <2>2, <2>3, <2>4
<1>5. \A k \in 1..n : Piece(w, msgs, at, h + k - 1) \in S
  BY <1>4, PieceIs
<1>. HIDE DEF S
<1>6. PICK words \in Seq(S) : /\ words = Words(w, msgs, at, h) /\ Len(words) = n
                              /\ \A k \in 1..n : words[k] = Piece(w, msgs, at, h + k - 1)
  <2>1. Words(w, msgs, at, h) = [k \in 1..n |-> Piece(w, msgs, at, h + k - 1)]
    BY <1>1, <1>3 DEF Words
  <2>. QED  BY <1>5, <2>1
<1>7. PICK p \in Seq(S) : p = Pieces(w, msgs, at, h - 1)
  BY <1>4, PiecesAre DEF S
<1>8. PICK q \in Seq(S) : q = Pieces(w, msgs, at, e)
  BY <1>4, PiecesAre DEF S
<1>9. Len(p) = h - 1 /\ \A i \in 1..(h - 1) : p[i] = Piece(w, msgs, at, i)
  <2>1. h - 1 \in 0..Len(msgs)
    BY <1>4
  <2>. QED  BY <1>7, <2>1, PiecesAre
<1>10. Len(q) = e /\ \A i \in 1..e : q[i] = Piece(w, msgs, at, i)
  <2>1. e \in 0..Len(msgs)
    BY <1>4
  <2>. QED  BY <1>8, <2>1, PiecesAre
<1>11. q = p \o words
  <2>1. Len(q) = Len(p) + Len(words)
    BY <1>4, <1>6, <1>9, <1>10
  <2>2. \A i \in 1..Len(p) : q[i] = p[i]
    BY <1>4, <1>9, <1>10
  <2>3. ASSUME NEW k \in 1..Len(words)  PROVE q[Len(p) + k] = words[k]
    <3>1. k \in 1..n
      BY <1>6
    <3>2. q[(h - 1) + k] = Piece(w, msgs, at, h + k - 1)
      BY <1>4, <1>10, <3>1
    <3>. QED  BY <1>6, <1>9, <3>1, <3>2
  <2>. QED  BY <2>1, <2>2, <2>3, JoinOf
<1>12. Screen!FlattenSeq(q) = Screen!FlattenSeq(p) \o Screen!FlattenSeq(words)
  BY <1>11, FlattenBoth DEF S
<1>13. Screen!TextsOf(Screen!FlattenSeq(words)) = Screen!FlattenSeq(words)
  <2>1. ASSUME NEW k \in 1..Len(words)  PROVE Screen!TextsOf(words[k]) = words[k]
    <3>1. k \in 1..n
      BY <1>6
    <3>2. h + k - 1 \in DOMAIN msgs /\ words[k] = Piece(w, msgs, at, h + k - 1)
      BY <1>4, <1>6, <3>1
    <3>. QED  BY <3>2, PieceIs
  <2>. QED  BY <2>1, FlattenTexts DEF S
<1>. QED  BY <1>1, <1>6, <1>7, <1>8, <1>12, <1>13 DEF Upto, S

\* The texts of a unit are what its messages say.
LEMMA UnitSays ==
  ASSUME NEW w, w \in {1, 2}, NEW msgs \in Texts, Silent(msgs), NEW at, Placed(msgs, at),
         NEW h \in DOMAIN msgs
  PROVE  Upto(w, msgs, at, Screen!UnitEnd(msgs, h))
         = Upto(w, msgs, at, h - 1) \o Screen!TextsOf(Screen!DrawUnit(w, msgs, h, at))
<1>1. /\ h \in 1..Len(msgs) /\ Len(msgs) \in Nat /\ msgs[h].text \in Nat
      /\ h - 1 \in 0..(Len(msgs) - 1) /\ (h - 1) + 1 = h /\ h \in Nat
  BY RoleType DEF Texts
<1>. DEFINE blank == IF Screen!Streams(msgs, h, at) THEN <<>> ELSE <<Screen!Line("blank", h, 0)>>
<1>2. blank \in Seq(Lines) /\ Screen!TextsOf(blank) = <<>>
  <2>1. Screen!Line("blank", h, 0) \in Lines
    BY <1>1 DEF Screen!Line, Lines
  <2>2. <<Screen!Line("blank", h, 0)>> \in Seq(Lines) /\ Len(<<Screen!Line("blank", h, 0)>>) = 1
    BY <2>1
  <2>3. \A l \in 1..1 : <<Screen!Line("blank", h, 0)>>[l].of # "text"
    BY DEF Screen!Line
  <2>4. Screen!TextsOf(<<Screen!Line("blank", h, 0)>>) = <<>>
    BY <2>2, <2>3, TextsNone
  <2>. QED  BY <2>2, <2>4, NoTexts
<1>. HIDE DEF blank
<1>3. Upto(w, msgs, at, h) = Upto(w, msgs, at, h - 1) \o Piece(w, msgs, at, h)
  BY <1>1, UptoMore
<1>4. CASE Screen!Is(msgs, h, "notice")
  <2>1. Screen!DrawUnit(w, msgs, h, at) = <<>> /\ Screen!UnitEnd(msgs, h) = h
    BY <1>4 DEF Screen!DrawUnit, Screen!UnitEnd, Screen!Is
  <2>2. msgs[h].text = 0
    BY <1>4 DEF Silent
  <2>3. Piece(w, msgs, at, h) = <<>>
    BY <2>2, SilentText DEF Piece
  <2>. QED  BY <1>3, <2>1, <2>3, NoTexts
<1>5. CASE Screen!Is(msgs, h, "user")
  <2>1. ~Screen!Is(msgs, h, "notice") /\ ~Screen!Is(msgs, h, "assistant")
    BY <1>5 DEF Screen!Is
  <2>2. Screen!UnitEnd(msgs, h) = h /\ h # at
    BY <1>1, <2>1 DEF Screen!UnitEnd, Placed, Screen!None
  <2>3. PICK words \in Seq(Lines) : words = Piece(w, msgs, at, h) /\ Screen!TextsOf(words) = words
    BY PieceIs
  <2>4. Screen!DrawUnit(w, msgs, h, at) = words \o blank
    BY <1>5, <2>1, <2>2, <2>3 DEF Screen!DrawUnit, Piece, blank
  <2>5. Screen!TextsOf(words \o blank) = words \o <<>>
    BY <1>2, <2>3, TextsBoth
  <2>6. words \o <<>> = words
    OBVIOUS
  <2>. QED  BY <1>3, <2>2, <2>3, <2>4, <2>5, <2>6
<1>6. CASE Screen!Is(msgs, h, "assistant")
  <2>1. /\ ~Screen!Is(msgs, h, "notice") /\ ~Screen!Is(msgs, h, "user")
        /\ Screen!UnitEnd(msgs, h) = Screen!TurnEnd(msgs, h)
    BY <1>6 DEF Screen!Is, Screen!UnitEnd
  <2>2. Screen!DrawUnit(w, msgs, h, at)
        = <<Screen!Line("head", h, 0)>> \o Screen!FlattenSeq(DrawnWords(w, msgs, at, h)) \o blank
    BY <2>1, Zenon DEF Screen!DrawUnit, DrawnWords, blank
  <2>3. PICK flat \in Seq(Lines) :
            /\ flat = Screen!FlattenSeq(Words(w, msgs, at, h)) /\ Screen!TextsOf(flat) = flat
            /\ Upto(w, msgs, at, Screen!TurnEnd(msgs, h)) = Upto(w, msgs, at, h - 1) \o flat
    BY <1>6, WordsFollow, FlattenType
  <2>4. PICK head \in Seq(Lines) : head = <<Screen!Line("head", h, 0)>> /\ Screen!TextsOf(head) = <<>>
    <3>1. Screen!Line("head", h, 0) \in Lines
      BY <1>1 DEF Screen!Line, Lines
    <3>2. <<Screen!Line("head", h, 0)>> \in Seq(Lines) /\ Len(<<Screen!Line("head", h, 0)>>) = 1
      BY <3>1
    <3>3. \A l \in 1..1 : <<Screen!Line("head", h, 0)>>[l].of # "text"
      BY DEF Screen!Line
    <3>. QED  BY <3>2, <3>3, TextsNone
  <2>5. Screen!TextsOf((head \o flat) \o blank) = flat
    <3>1. head \o flat \in Seq(Lines) /\ Screen!TextsOf(head \o flat) = <<>> \o flat
      BY <2>3, <2>4, TextsBoth, JoinIs
    <3>2. Screen!TextsOf((head \o flat) \o blank) = (<<>> \o flat) \o <<>>
      BY <1>2, <3>1, TextsBoth
    <3>3. (<<>> \o flat) \o <<>> = flat
      OBVIOUS
    <3>. QED  BY <3>2, <3>3
  <2>6. Screen!DrawUnit(w, msgs, h, at) = (head \o flat) \o blank
    BY <1>6, <2>2, <2>3, <2>4, TurnSays
  <2>. QED  BY <2>1, <2>3, <2>5, <2>6
<1>. QED  BY <1>4, <1>5, <1>6, RoleType DEF Screen!Is

\* The message after a unit begins the next.
LEMMA NextHead ==
  ASSUME NEW msgs \in Texts, NEW i \in Screen!Heads(msgs), Screen!UnitEnd(msgs, i) < Len(msgs)
  PROVE  Screen!UnitEnd(msgs, i) + 1 \in Screen!Heads(msgs)
<1>1. PICK size \in Nat : size = Len(msgs) /\ DOMAIN msgs = 1..size /\ i \in 1..size
  BY DEF Texts, Screen!Heads
<1>2. PICK e \in i..size : e = Screen!UnitEnd(msgs, i)
  BY <1>1, UnitEndIs
<1>3. e + 1 \in 1..size /\ i \notin Screen!Inside(msgs)
  BY <1>1, <1>2 DEF Screen!Heads
<1>4. ASSUME e + 1 \in Screen!Inside(msgs)  PROVE FALSE
  <2>1. PICK a \in 1..e : /\ Screen!Is(msgs, a, "assistant") /\ e + 1 \in Screen!Stretch(msgs, a)
                          /\ e + 1 <= Screen!TurnEnd(msgs, a)
    BY <1>2, <1>4 DEF Screen!Inside
  <2>2. PICK t \in (e + 1)..size : t = Screen!TurnEnd(msgs, a) /\ t \in Screen!Stretch(msgs, a)
                                   /\ Screen!Is(msgs, t, "assistant")
    BY <1>1, <1>2, <2>1, TurnEndIs
  <2>3. \A k \in a..t : ~Screen!Is(msgs, k, "user")
    BY <2>2 DEF Screen!Stretch
  <2>4. CASE a < i
    <3>1. i \in Screen!Stretch(msgs, a) /\ i <= Screen!TurnEnd(msgs, a) /\ a \in 1..(i - 1)
      BY <1>1, <1>2, <2>1, <2>2, <2>3, <2>4 DEF Screen!Stretch
    <3>. QED  BY <1>1, <1>3, <2>1, <3>1 DEF Screen!Inside
  <2>5. CASE a >= i
    <3>1. Screen!Is(msgs, i, "assistant")
      BY <1>2, <2>1, <2>5 DEF Screen!UnitEnd
    <3>2. e = Screen!TurnEnd(msgs, i) /\ e \in Screen!Stretch(msgs, i)
      BY <1>1, <1>2, <3>1, TurnEndIs DEF Screen!UnitEnd
    <3>3. \A k \in i..t : ~Screen!Is(msgs, k, "user")
      BY <1>2, <2>1, <2>2, <2>3, <3>2 DEF Screen!Stretch
    <3>. DEFINE S == {j \in Screen!Stretch(msgs, i) : Screen!Is(msgs, j, "assistant")}
    <3>4. t \in S
      BY <1>1, <1>2, <2>2, <3>3 DEF Screen!Stretch
    <3>5. S \subseteq 0..size
      BY <1>1 DEF Screen!Stretch
    <3>6. \A y \in S : y <= Screen!Max(S)
      <4>. HIDE DEF S
      <4>. QED  BY <1>1, <3>4, <3>5, MaxOf
    <3>7. Screen!Max(S) = e
      BY <3>2 DEF Screen!TurnEnd
    <3>. QED  BY <1>2, <2>2, <3>4, <3>6, <3>7
  <2>. QED  BY <1>1, <2>1, <2>4, <2>5
<1>. QED  BY <1>1, <1>2, <1>3, <1>4 DEF Screen!Heads

\* The units that begin in the first k messages end at message e.
Covered(msgs, k, e) ==
    /\ e \in k..Len(msgs)
    /\ \A h \in Screen!Heads(msgs) : h <= k \/ h > e
    /\ e < Len(msgs) => e + 1 \in Screen!Heads(msgs)

\* Before the first message there are none.
LEMMA CoverStarts ==
  ASSUME NEW msgs \in Texts
  PROVE  Covered(msgs, 0, 0)
<1>1. PICK size \in Nat : size = Len(msgs) /\ DOMAIN msgs = 1..size
  BY DEF Texts
<1>2. 1 \notin Screen!Inside(msgs)
  BY DEF Screen!Inside
<1>3. \A h \in Screen!Heads(msgs) : h > 0
  BY <1>1 DEF Screen!Heads
<1>. QED  BY <1>1, <1>2, <1>3 DEF Covered, Screen!Heads

\* A message that begins a unit comes right after what is covered, which then ends with it.
LEMMA CoverUnit ==
  ASSUME NEW msgs \in Texts, NEW k \in 0..(Len(msgs) - 1), NEW e, Covered(msgs, k, e),
         k + 1 \in Screen!Heads(msgs)
  PROVE  e = k /\ Covered(msgs, k + 1, Screen!UnitEnd(msgs, k + 1))
<1>1. PICK size \in Nat : size = Len(msgs) /\ DOMAIN msgs = 1..size
  BY DEF Texts
<1>2. PICK u \in (k + 1)..size : u = Screen!UnitEnd(msgs, k + 1)
  BY <1>1, UnitEndIs DEF Screen!Heads
<1>3. e \in k..size /\ (k + 1 <= k \/ k + 1 > e)
  BY <1>1 DEF Covered
<1>4. e = k
  BY <1>1, <1>3
<1>5. ASSUME NEW h \in Screen!Heads(msgs)  PROVE h <= k + 1 \/ h > u
  <2>1. h \in 1..size
    BY <1>1 DEF Screen!Heads
  <2>2. k + 1 < h => u < h
    BY <1>2, UnitsInTurn
  <2>. QED  BY <1>1, <1>2, <2>1, <2>2
<1>6. u < size => u + 1 \in Screen!Heads(msgs)
  BY <1>1, <1>2, NextHead
<1>. QED  BY <1>1, <1>2, <1>4, <1>5, <1>6 DEF Covered

\* Any other is covered already.
LEMMA CoverInside ==
  ASSUME NEW msgs \in Texts, NEW k \in 0..(Len(msgs) - 1), NEW e, Covered(msgs, k, e),
         k + 1 \notin Screen!Heads(msgs)
  PROVE  Covered(msgs, k + 1, e)
<1>1. PICK size \in Nat : size = Len(msgs) /\ DOMAIN msgs = 1..size
  BY DEF Texts
<1>2. e \in k..size /\ (e < size => e + 1 \in Screen!Heads(msgs))
  BY <1>1 DEF Covered
<1>3. e \in (k + 1)..size
  BY <1>1, <1>2
<1>4. ASSUME NEW h \in Screen!Heads(msgs)  PROVE h <= k + 1 \/ h > e
  <2>1. h \in 1..size /\ (h <= k \/ h > e)
    BY <1>1 DEF Screen!Heads, Covered
  <2>. QED  BY <1>1, <2>1
<1>. QED  BY <1>1, <1>2, <1>3, <1>4 DEF Covered

----------------------------------------------------------------------------
(* Where outputs are printed.                                               *)

\* A line that should not be above another: an output that is printed again; an output
\* above a text that was there before it; a unit that came later above an output.
\* Outputs are in place as long as none was printed after messages that are gone.
Wrong(outputs, heads, tidy, x, y) ==
    \/ x.of = "print" /\ y = x
    \/ tidy /\ x.of = "print" /\ y.of = "text" /\ y.at <= outputs[x.at]
    \/ tidy /\ y.of = "print" /\ x.of # "print" /\ x.at \in heads /\ x.at > outputs[y.at]

Ordered(outputs, heads, tidy, s) ==
    \A p \in 1..Len(s), q \in 1..Len(s) : p < q => ~Wrong(outputs, heads, tidy, s[p], s[q])

Apart(outputs, heads, tidy, a, b) ==
    \A p \in 1..Len(a), q \in 1..Len(b) : ~Wrong(outputs, heads, tidy, a[p], b[q])

\* Two parts are in order if each is and nothing is wrong between them.
LEMMA JoinOrdered ==
  ASSUME NEW outputs, NEW heads, NEW tidy, NEW a \in Seq(Lines), NEW b \in Seq(Lines),
         Ordered(outputs, heads, tidy, a), Ordered(outputs, heads, tidy, b),
         Apart(outputs, heads, tidy, a, b)
  PROVE  Ordered(outputs, heads, tidy, a \o b)
<1>1. PICK n \in Nat, m \in Nat : n = Len(a) /\ m = Len(b)
  BY JoinIs
<1>2. PICK c \in Seq(Lines) : c = a \o b
  BY JoinIs
<1>3. /\ Len(c) = n + m /\ \A i \in 1..n : c[i] = a[i]
      /\ \A i \in 1..m : c[n + i] = b[i]
  BY <1>1, <1>2, JoinIs
<1>4. ASSUME NEW p \in 1..(n + m), NEW q \in 1..(n + m), p < q
      PROVE  ~Wrong(outputs, heads, tidy, c[p], c[q])
  <2>1. CASE q <= n
    <3>1. p \in 1..n /\ q \in 1..n
      BY <1>4, <2>1
    <3>. QED  BY <1>1, <1>3, <1>4, <3>1 DEF Ordered
  <2>2. CASE p <= n /\ q > n
    <3>1. p \in 1..n /\ q - n \in 1..m /\ n + (q - n) = q
      BY <1>4, <2>2
    <3>2. c[p] = a[p] /\ c[q] = b[q - n]
      BY <1>3, <3>1
    <3>. QED  BY <1>1, <3>1, <3>2 DEF Apart
  <2>3. CASE p > n
    <3>1. p - n \in 1..m /\ n + (p - n) = p /\ q - n \in 1..m /\ n + (q - n) = q /\ p - n < q - n
      BY <1>4, <2>3
    <3>2. c[p] = b[p - n] /\ c[q] = b[q - n]
      BY <1>3, <3>1
    <3>. QED  BY <1>1, <3>1, <3>2 DEF Ordered
  <2>. QED  BY <1>4, <2>1, <2>2, <2>3
<1>. QED  BY <1>2, <1>3, <1>4 DEF Ordered

\* What is wrong with neither part is not wrong with both joined.
LEMMA JoinApart ==
  ASSUME NEW outputs, NEW heads, NEW tidy, NEW a \in Seq(Lines), NEW b \in Seq(Lines), NEW c,
         Apart(outputs, heads, tidy, a, c), Apart(outputs, heads, tidy, b, c)
  PROVE  Apart(outputs, heads, tidy, a \o b, c)
<1>1. PICK n \in Nat, m \in Nat : n = Len(a) /\ m = Len(b)
  BY JoinIs
<1>2. PICK d \in Seq(Lines) : d = a \o b
  BY JoinIs
<1>3. /\ Len(d) = n + m /\ \A i \in 1..n : d[i] = a[i]
      /\ \A i \in 1..m : d[n + i] = b[i]
  BY <1>1, <1>2, JoinIs
<1>4. ASSUME NEW p \in 1..(n + m), NEW q \in 1..Len(c)
      PROVE  ~Wrong(outputs, heads, tidy, d[p], c[q])
  <2>1. CASE p <= n
    BY <1>1, <1>3, <2>1 DEF Apart
  <2>2. CASE p > n
    <3>1. p - n \in 1..m /\ n + (p - n) = p
      BY <2>2
    <3>2. d[p] = b[p - n]
      BY <1>3, <3>1
    <3>. QED  BY <1>1, <3>1, <3>2 DEF Apart
  <2>. QED  BY <2>1, <2>2
<1>. QED  BY <1>2, <1>3, <1>4 DEF Apart

\* A line is an output as it is printed.
Output(j) == Screen!Line("print", j, 0)

\* The lines tell of the outputs before the next one, and of no other.
Tells(s, next) ==
    /\ \A p \in 1..Len(s) : s[p].of = "print" => \E j \in 1..(next - 1) : s[p] = Output(j)
    /\ \A j \in 1..(next - 1) : \E p \in 1..Len(s) : s[p] = Output(j)

\* What is printed is the outputs in their order.
LEMMA PrintedIs ==
  ASSUME NEW from \in Nat \ {0}, NEW next \in Nat, from <= next
  PROVE  LET s == Screen!Printed(from, next - 1)
         IN  /\ s \in Seq(Lines) /\ Len(s) = next - from
             /\ \A k \in 1..(next - from) : s[k] = Output(from + k - 1)
             /\ Screen!TextsOf(s) = <<>>
<1>1. PICK s : s = Screen!Printed(from, next - 1)
  OBVIOUS
<1>2. next - 1 \in Nat /\ (next - 1) - from + 1 = next - from /\ from <= (next - 1) + 1
  OBVIOUS
<1>3. s \in Seq(Lines) /\ Len(s) = next - from
  BY <1>1, <1>2, PrintedType
<1>4. \A k \in 1..(next - from) : s[k] = Output(from + k - 1)
  BY <1>1, <1>2 DEF Screen!Printed, Output
<1>5. \A k \in 1..Len(s) : s[k].of # "text"
  <2>1. \A j : Output(j).of = "print"
    BY DEF Output, Screen!Line
  <2>. QED  BY <1>3, <1>4, <2>1
<1>. QED  BY <1>1, <1>3, <1>4, <1>5, TextsNone

\* What an output is.
LEMMA OutputIs ==
  \A i, j : /\ Output(j).of = "print" /\ Output(j).at = j
            /\ Output(i) = Output(j) => i = j
<1>1. \A j : Output(j).of = "print" /\ Output(j).at = j
  BY DEF Output, Screen!Line
<1>2. ASSUME NEW i, NEW j, Output(i) = Output(j)  PROVE i = j
  <2>1. Output(i).at = i /\ Output(j).at = j
    BY <1>1
  <2>. QED  BY <1>2, <2>1
<1>. QED  BY <1>1, <1>2

\* Texts that are later than the outputs before the next.
Later(outputs, tidy, next, a) ==
    tidy => \A j \in 1..(next - 1), p \in 1..Len(a) : a[p].of = "text" => a[p].at > outputs[j]

\* Units that are not later than outputs from the next one on.
NotLater(outputs, heads, tidy, next, t, a) ==
    tidy => \A j \in next..(t - 1), p \in 1..Len(a) :
                a[p].of # "print" /\ a[p].at \in heads => a[p].at <= outputs[j]

\* Numbers from one to the next, and on.
LEMMA Counting ==
  ASSUME NEW next \in Nat \ {0}, NEW t \in Nat, next <= t
  PROVE  /\ \A k \in 1..(t - next) : next + k - 1 \in next..(t - 1) /\ next + k - 1 \in 1..(t - 1)
         /\ \A j \in next..(t - 1) : j \in 1..(t - 1) /\ j \notin 1..(next - 1)
         /\ \A j \in 1..(next - 1) : j \in 1..(t - 1)
         /\ \A j \in 1..(t - 1) : j \notin 1..(next - 1)
               => \E k \in 1..(t - next) : next + k - 1 = j
         /\ t - next \in Nat
<1>1. ASSUME NEW j \in 1..(t - 1), j \notin 1..(next - 1)
      PROVE  \E k \in 1..(t - next) : next + k - 1 = j
  <2>1. j - next + 1 \in 1..(t - next) /\ next + (j - next + 1) - 1 = j
    BY <1>1
  <2>. QED  BY <2>1
<1>2. /\ \A k \in 1..(t - next) : next + k - 1 \in next..(t - 1) /\ next + k - 1 \in 1..(t - 1)
      /\ \A j \in next..(t - 1) : j \in 1..(t - 1) /\ j \notin 1..(next - 1)
      /\ \A j \in 1..(next - 1) : j \in 1..(t - 1)
      /\ t - next \in Nat
  OBVIOUS
<1>. QED  BY <1>1, <1>2, Zenon

\* Of two numbers one is not above the other.
LEMMA Greater == \A x, y \in Nat : (x > y => ~(x <= y)) /\ (x <= y => ~(x > y))
  OBVIOUS

\* Outputs that follow one another, from one on to the next.
Outputs(b, next, t) ==
    /\ b \in Seq(Lines) /\ Len(b) = t - next
    /\ \A k \in 1..(t - next) : b[k] = Output(next + k - 1)

\* Texts that are later than the outputs above them are in place.
LEMMA TextsApart ==
  ASSUME NEW outputs, NEW heads, NEW tidy, NEW s \in Seq(Lines), NEW unit \in Seq(Lines), NEW next,
         \A j \in 1..(next - 1) : outputs[j] \in Nat,
         Tells(s, next), \A p \in 1..Len(unit) : unit[p].of # "print",
         Later(outputs, tidy, next, unit)
  PROVE  Apart(outputs, heads, tidy, s, unit)
<1>. SUFFICES ASSUME NEW p \in 1..Len(s), NEW q \in 1..Len(unit)
              PROVE  ~Wrong(outputs, heads, tidy, s[p], unit[q])
  BY DEF Apart
<1>1. unit[q].of # "print"
  OBVIOUS
<1>2. CASE s[p].of = "print" /\ tidy /\ unit[q].of = "text"
  <2>1. PICK j \in 1..(next - 1) : s[p] = Output(j)
    BY <1>2 DEF Tells
  <2>2. s[p].at = j /\ outputs[j] \in Nat
    BY <2>1, OutputIs
  <2>3. unit[q].at > outputs[j]
    BY <1>2 DEF Later
  <2>4. unit[q] \in Lines
    OBVIOUS
  <2>5. unit[q].at \in Nat
    BY <2>4 DEF Lines
  <2>6. ~(unit[q].at <= outputs[j])
    BY <2>2, <2>3, <2>5, Greater, Zenon
  <2>7. ~(unit[q].at <= outputs[s[p].at])
    BY <2>2, <2>6
  <2>. QED  BY <1>1, <2>7 DEF Wrong
<1>3. CASE ~(s[p].of = "print" /\ tidy /\ unit[q].of = "text")
  BY <1>1, <1>3 DEF Wrong
<1>. QED  BY <1>2, <1>3

\* Outputs that follow others, and units that are not later, are in place.
LEMMA OutputsApart ==
  ASSUME NEW outputs, NEW heads, NEW tidy, NEW a \in Seq(Lines),
         NEW next \in Nat \ {0}, NEW t \in Nat, next <= t,
         \A j \in 1..(t - 1) : outputs[j] \in Nat,
         \A p \in 1..Len(a) : a[p].of = "print" => \E j \in 1..(next - 1) : a[p] = Output(j),
         NotLater(outputs, heads, tidy, next, t, a), NEW b, Outputs(b, next, t)
  PROVE  Apart(outputs, heads, tidy, a, b)
<1>. SUFFICES ASSUME NEW p \in 1..Len(a), NEW q \in 1..(t - next)
              PROVE  ~Wrong(outputs, heads, tidy, a[p], b[q])
  BY DEF Apart, Outputs
<1>1. PICK j \in next..(t - 1) : b[q] = Output(j)
  <2>1. next + q - 1 \in next..(t - 1)
    BY Counting
  <2>. QED  BY <2>1 DEF Outputs
<1>2. b[q].of = "print" /\ b[q].at = j
  BY <1>1, OutputIs
<1>3. outputs[j] \in Nat /\ j \notin 1..(next - 1)
  BY Counting
<1>4. CASE a[p].of = "print"
  <2>1. PICK i \in 1..(next - 1) : a[p] = Output(i)
    BY <1>4
  <2>2. a[p] # b[q]
    BY <1>1, <1>3, <2>1, OutputIs, Zenon
  <2>. QED  BY <1>2, <1>4, <2>2 DEF Wrong
<1>5. CASE a[p].of # "print"
  <2>1. a[p] \in Lines
    OBVIOUS
  <2>2. a[p].at \in Nat
    BY <2>1 DEF Lines
  <2>3. ASSUME tidy, a[p].at \in heads  PROVE ~(a[p].at > outputs[j])
    <3>1. a[p].at <= outputs[j]
      BY <1>5, <2>3 DEF NotLater
    <3>. QED  BY <1>3, <2>2, <3>1, Greater, Zenon
  <2>. QED  BY <1>2, <1>5, <2>3 DEF Wrong
<1>. QED  BY <1>4, <1>5

\* Outputs that follow one another are in order.
LEMMA OutputsOrdered ==
  ASSUME NEW outputs, NEW heads, NEW tidy, NEW next \in Nat \ {0}, NEW t \in Nat, next <= t,
         NEW b, Outputs(b, next, t)
  PROVE  Ordered(outputs, heads, tidy, b)
<1>. SUFFICES ASSUME NEW p \in 1..(t - next), NEW q \in 1..(t - next), p < q
              PROVE  ~Wrong(outputs, heads, tidy, b[p], b[q])
  BY DEF Ordered, Outputs
<1>1. b[p] = Output(next + p - 1) /\ b[q] = Output(next + q - 1)
  BY DEF Outputs
<1>2. next + p - 1 # next + q - 1
  OBVIOUS
<1>3. b[p].of = "print" /\ b[q].of = "print" /\ b[p] # b[q]
  BY <1>1, <1>2, OutputIs, Zenon
<1>. QED  BY <1>3 DEF Wrong

\* With the outputs that follow, the lines tell of those too.
LEMMA TellsMore ==
  ASSUME NEW s \in Seq(Lines), NEW unit \in Seq(Lines), NEW b \in Seq(Lines),
         NEW next \in Nat \ {0}, NEW t \in Nat, next <= t,
         Tells(s, next), \A p \in 1..Len(unit) : unit[p].of # "print", Outputs(b, next, t)
  PROVE  Tells((s \o unit) \o b, t)
<1>1. PICK n \in Nat, m \in Nat, r \in Nat : n = Len(s) /\ m = Len(unit) /\ r = Len(b) /\ r = t - next
  BY JoinIs DEF Outputs
<1>2. PICK a \in Seq(Lines) : /\ a = s \o unit /\ Len(a) = n + m /\ \A i \in 1..n : a[i] = s[i]
                              /\ \A i \in 1..m : a[n + i] = unit[i]
  <2>1. PICK a \in Seq(Lines) : a = s \o unit
    BY JoinIs
  <2>2. /\ Len(a) = n + m /\ \A i \in 1..n : a[i] = s[i]
        /\ \A i \in 1..m : a[n + i] = unit[i]
    BY <1>1, <2>1, JoinIs
  <2>. QED  BY <2>1, <2>2
<1>3. PICK c \in Seq(Lines) : /\ c = a \o b /\ Len(c) = (n + m) + r /\ \A i \in 1..(n + m) : c[i] = a[i]
                              /\ \A i \in 1..r : c[(n + m) + i] = b[i]
  <2>1. PICK c \in Seq(Lines) : c = a \o b
    BY JoinIs
  <2>2. /\ Len(c) = Len(a) + Len(b) /\ \A i \in 1..Len(a) : c[i] = a[i]
        /\ \A i \in 1..Len(b) : c[Len(a) + i] = b[i]
    BY <2>1, JoinIs
  <2>3. Len(a) = n + m /\ Len(b) = r
    BY <1>1, <1>2
  <2>. QED  BY <2>1, <2>2, <2>3
<1>4. ASSUME NEW p \in 1..((n + m) + r), c[p].of = "print"  PROVE \E j \in 1..(t - 1) : c[p] = Output(j)
  <2>1. CASE p <= n
    <3>1. p \in 1..n /\ p \in 1..(n + m)
      BY <2>1
    <3>2. c[p] = s[p]
      BY <1>2, <1>3, <3>1
    <3>3. PICK j \in 1..(next - 1) : s[p] = Output(j)
      BY <1>1, <1>4, <3>1, <3>2 DEF Tells
    <3>4. j \in 1..(t - 1)
      BY Counting
    <3>. QED  BY <3>2, <3>3, <3>4
  <2>2. CASE p > n /\ p <= n + m
    <3>1. p - n \in 1..m /\ n + (p - n) = p /\ p \in 1..(n + m)
      BY <2>2
    <3>2. c[p] = unit[p - n]
      BY <1>2, <1>3, <3>1
    <3>. QED  BY <1>1, <1>4, <3>1, <3>2
  <2>3. CASE p > n + m
    <3>1. p - (n + m) \in 1..r /\ (n + m) + (p - (n + m)) = p
      BY <2>3
    <3>2. PICK i \in 1..r : c[p] = b[i]
      BY <1>3, <3>1
    <3>3. c[p] = Output(next + i - 1)
      BY <1>1, <3>2 DEF Outputs
    <3>4. next + i - 1 \in 1..(t - 1)
      BY <1>1, Counting
    <3>. QED  BY <3>3, <3>4
  <2>4. p <= n \/ (p > n /\ p <= n + m) \/ p > n + m
    OBVIOUS
  <2>. QED  BY <2>1, <2>2, <2>3, <2>4, Zenon
<1>5. ASSUME NEW j \in 1..(t - 1)  PROVE \E p \in 1..((n + m) + r) : c[p] = Output(j)
  <2>1. CASE j \in 1..(next - 1)
    <3>1. PICK p \in 1..n : s[p] = Output(j)
      BY <1>1, <2>1 DEF Tells
    <3>2. p \in 1..(n + m) /\ p \in 1..((n + m) + r)
      OBVIOUS
    <3>3. c[p] = s[p]
      BY <1>2, <1>3, <3>2
    <3>. QED  BY <3>1, <3>2, <3>3
  <2>2. CASE j \notin 1..(next - 1)
    <3>1. PICK i \in 1..r : next + i - 1 = j
      BY <1>1, <2>2, Counting
    <3>2. b[i] = Output(j) /\ c[(n + m) + i] = b[i]
      BY <1>1, <1>3, <3>1 DEF Outputs
    <3>3. (n + m) + i \in 1..((n + m) + r)
      OBVIOUS
    <3>. QED  BY <3>2, <3>3
  <2>. QED  BY <2>1, <2>2
<1>. QED  BY <1>2, <1>3, <1>4, <1>5 DEF Tells

\* Below lines that are in order come lines without an output, for texts that are later than
\* the outputs above them, and then outputs, for units that are not later than them.
LEMMA PileIsOrdered ==
  ASSUME NEW outputs \in Seq(Nat), NEW heads, NEW tidy,
         NEW s \in Seq(Lines), NEW unit \in Seq(Lines),
         NEW next \in 1..(Len(outputs) + 1), NEW t \in next..(Len(outputs) + 1),
         Ordered(outputs, heads, tidy, s), Tells(s, next),
         \A p \in 1..Len(unit) : unit[p].of # "print",
         Later(outputs, tidy, next, unit),
         NotLater(outputs, heads, tidy, next, t, s), NotLater(outputs, heads, tidy, next, t, unit)
  PROVE  LET all == (s \o unit) \o Screen!Printed(next, t - 1)
         IN  Ordered(outputs, heads, tidy, all) /\ Tells(all, t)
<1>1. next \in Nat \ {0} /\ t \in Nat /\ next <= t /\ t <= Len(outputs) + 1 /\ Len(outputs) \in Nat
  OBVIOUS
<1>2. \A j \in 1..(t - 1) : outputs[j] \in Nat
  BY <1>1
<1>3. \A j \in 1..(next - 1) : outputs[j] \in Nat
  BY <1>1
<1>4. PICK b \in Seq(Lines) : b = Screen!Printed(next, t - 1) /\ Outputs(b, next, t)
  BY <1>1, PrintedIs DEF Outputs
<1>5. Ordered(outputs, heads, tidy, unit)
  BY DEF Ordered, Wrong
<1>6. Ordered(outputs, heads, tidy, b)
  BY <1>1, <1>4, OutputsOrdered
<1>7. Apart(outputs, heads, tidy, s, unit)
  BY <1>3, TextsApart
<1>8. Apart(outputs, heads, tidy, s, b)
  <2>1. \A p \in 1..Len(s) : s[p].of = "print" => \E j \in 1..(next - 1) : s[p] = Output(j)
    BY DEF Tells
  <2>. QED  BY <1>1, <1>2, <1>4, <2>1, OutputsApart
<1>9. Apart(outputs, heads, tidy, unit, b)
  <2>1. \A p \in 1..Len(unit) : unit[p].of = "print" => \E j \in 1..(next - 1) : unit[p] = Output(j)
    OBVIOUS
  <2>. QED  BY <1>1, <1>2, <1>4, <2>1, OutputsApart
<1>10. PICK a \in Seq(Lines) : a = s \o unit
  BY JoinIs
<1>11. Ordered(outputs, heads, tidy, a) /\ Apart(outputs, heads, tidy, a, b)
  BY <1>5, <1>7, <1>8, <1>9, <1>10, JoinOrdered, JoinApart
<1>12. Ordered(outputs, heads, tidy, a \o b)
  BY <1>6, <1>11, JoinOrdered
<1>13. Tells(a \o b, t)
  BY <1>1, <1>4, <1>10, TellsMore
<1>. QED  BY <1>4, <1>10, <1>12, <1>13

\* The lines of a unit, but for outputs.
Own(h, e) == {l \in Lines : l.of # "print" /\ l.at \in h..e}

\* What a message says are lines of its unit.
LEMMA PieceOwn ==
  ASSUME NEW w, w \in {1, 2}, NEW msgs \in Texts, NEW at, NEW i \in DOMAIN msgs,
         NEW h \in Nat, NEW e \in Nat, i \in h..e
  PROVE  Piece(w, msgs, at, i) \in Seq(Own(h, e))
<1>1. i \in Nat /\ msgs[i].text \in Nat /\ msgs[i].text * w \in Nat
  BY RoleType DEF Texts
<1>2. CASE i = at
  BY <1>2 DEF Piece
<1>3. CASE i # at
  <2>1. \A n \in 1..(msgs[i].text * w) : Screen!Line("text", i, n) \in Own(h, e)
    BY <1>1 DEF Own, Lines, Screen!Line
  <2>2. [n \in 1..(msgs[i].text * w) |-> Screen!Line("text", i, n)] \in Seq(Own(h, e))
    BY <1>1, <2>1
  <2>3. Piece(w, msgs, at, i) = [n \in 1..(msgs[i].text * w) |-> Screen!Line("text", i, n)]
    BY <1>3 DEF Piece, Screen!TextLines
  <2>. QED  BY <2>2, <2>3
<1>. QED  BY <1>2, <1>3

\* What is drawn of a unit is its own.
LEMMA UnitIsOwn ==
  ASSUME NEW w, w \in {1, 2}, NEW msgs \in Texts, Silent(msgs), NEW at, Placed(msgs, at),
         NEW h \in DOMAIN msgs
  PROVE  Screen!DrawUnit(w, msgs, h, at) \in Seq(Own(h, Screen!UnitEnd(msgs, h)))
<1>1. PICK size \in Nat : size = Len(msgs) /\ DOMAIN msgs = 1..size /\ h \in 1..size
  BY DEF Texts
<1>2. PICK e \in h..size : e = Screen!UnitEnd(msgs, h)
  BY <1>1, UnitEndIs
<1>. DEFINE blank == IF Screen!Streams(msgs, h, at) THEN <<>> ELSE <<Screen!Line("blank", h, 0)>>
<1>3. blank \in Seq(Own(h, e)) /\ <<Screen!Line("head", h, 0)>> \in Seq(Own(h, e))
  <2>1. Screen!Line("blank", h, 0) \in Own(h, e) /\ Screen!Line("head", h, 0) \in Own(h, e)
    BY <1>1, <1>2 DEF Screen!Line, Own, Lines
  <2>. QED  BY <2>1
<1>4. Piece(w, msgs, at, h) \in Seq(Own(h, e))
  BY <1>1, <1>2, PieceOwn
<1>. HIDE DEF blank
<1>5. CASE Screen!Is(msgs, h, "notice")
  <2>1. Screen!DrawUnit(w, msgs, h, at) = <<>>
    BY <1>5 DEF Screen!DrawUnit, Screen!Is
  <2>. QED  BY <1>2, <2>1
<1>6. CASE Screen!Is(msgs, h, "user")
  <2>1. ~Screen!Is(msgs, h, "notice") /\ ~Screen!Is(msgs, h, "assistant")
    BY <1>6 DEF Screen!Is
  <2>2. h # at
    BY <1>1, <2>1 DEF Placed, Screen!None
  <2>3. Screen!DrawUnit(w, msgs, h, at) = Piece(w, msgs, at, h) \o blank
    BY <1>6, <2>1, <2>2 DEF Screen!DrawUnit, Piece, blank
  <2>. QED  BY <1>2, <1>3, <1>4, <2>3, JoinIs
<1>7. CASE Screen!Is(msgs, h, "assistant")
  <2>1. /\ ~Screen!Is(msgs, h, "notice") /\ ~Screen!Is(msgs, h, "user") /\ e = Screen!TurnEnd(msgs, h)
    BY <1>2, <1>7 DEF Screen!Is, Screen!UnitEnd
  <2>2. Screen!DrawUnit(w, msgs, h, at)
        = <<Screen!Line("head", h, 0)>> \o Screen!FlattenSeq(DrawnWords(w, msgs, at, h)) \o blank
    BY <2>1, Zenon DEF Screen!DrawUnit, DrawnWords, blank
  <2>3. Words(w, msgs, at, h) \in Seq(Seq(Own(h, e)))
    <3>. DEFINE S == Seq(Own(h, e))
    <3>1. PICK n \in Nat : n = e - h + 1
      BY <1>1, <1>2
    <3>2. ASSUME NEW k \in 1..n  PROVE Piece(w, msgs, at, h + k - 1) \in S
      <4>1. h + k - 1 \in 1..size /\ h + k - 1 \in h..e
        BY <1>1, <1>2, <3>1
      <4>. QED  BY <1>1, <1>2, <4>1, PieceOwn
    <3>3. Words(w, msgs, at, h) = [k \in 1..n |-> Piece(w, msgs, at, h + k - 1)]
      BY <2>1, <3>1 DEF Words
    <3>. HIDE DEF S
    <3>4. Words(w, msgs, at, h) \in Seq(S)
      BY <3>2, <3>3
    <3>. QED  BY <3>4 DEF S
  <2>4. PICK flat \in Seq(Own(h, e)) : flat = Screen!FlattenSeq(DrawnWords(w, msgs, at, h))
    BY <1>7, <2>3, TurnSays, FlattenIn
  <2>. QED  BY <1>2, <1>3, <2>2, <2>4, JoinIs
<1>. QED  BY <1>5, <1>6, <1>7, RoleType DEF Screen!Is

\* Outputs up to the next one were printed by message `last`, and the next one later.
LEMMA ThroughTells ==
  ASSUME NEW outputs \in Seq(Nat), NEW next \in 1..(Len(outputs) + 1), NEW last \in Nat,
         NEW t, t = Screen!Through(outputs, next, last)
  PROVE  /\ t \in next..(Len(outputs) + 1)
         /\ \A j \in next..(t - 1) : outputs[j] <= last
         /\ t <= Len(outputs) => outputs[t] > last
<1>. DEFINE later == {k \in next..Len(outputs) : outputs[k] > last}
<1>1. PICK n \in Nat : n = Len(outputs) /\ next \in 1..(n + 1)
  OBVIOUS
<1>2. \A j \in 1..n : outputs[j] \in Nat
  BY <1>1
<1>3. CASE later = {}
  <2>1. t = n + 1
    BY <1>1, <1>3 DEF Screen!Through
  <2>2. ASSUME NEW j \in next..(t - 1)  PROVE outputs[j] <= last
    <3>1. j \in next..n /\ j \in 1..n
      BY <1>1, <2>1
    <3>2. ~(outputs[j] > last)
      BY <1>1, <1>3, <3>1
    <3>. QED  BY <1>2, <3>1, <3>2
  <2>. QED  BY <1>1, <2>1, <2>2
<1>4. CASE later # {}
  <2>1. later \subseteq Nat
    BY <1>1
  <2>2. Screen!Min(later) \in later /\ \A y \in later : Screen!Min(later) <= y
    <3>. HIDE DEF later
    <3>. QED  BY <1>4, <2>1, MinOf
  <2>3. t = Screen!Min(later)
    BY <1>4 DEF Screen!Through
  <2>4. t \in next..n /\ outputs[t] > last
    BY <1>1, <2>2, <2>3
  <2>5. ASSUME NEW j \in next..(t - 1)  PROVE outputs[j] <= last
    <3>1. j \in next..n /\ j \in 1..n /\ ~(t <= j)
      BY <1>1, <2>4
    <3>2. j \notin later
      <4>. HIDE DEF later
      <4>. QED  BY <2>2, <2>3, <3>1
    <3>3. ~(outputs[j] > last)
      BY <1>1, <3>1, <3>2
    <3>. QED  BY <1>2, <3>1, <3>3
  <2>. QED  BY <1>1, <2>4, <2>5
<1>. QED  BY <1>3, <1>4

\* Outputs in the order they were printed in.
Tidy(outputs) == \A i \in 1..Len(outputs), j \in 1..Len(outputs) : i < j => outputs[i] <= outputs[j]

\* What is drawn by message e was printed by then, and before the answer that streams; the
\* next outputs are of a later message, or of the unit that streams.
InTurn(outputs, msgs, at, tidy, e, next) ==
    tidy =>
      /\ \A j \in 1..(next - 1) : outputs[j] <= e /\ (at # Screen!None => outputs[j] < at)
      /\ \A j \in next..Len(outputs) :
            /\ \A h \in Screen!Heads(msgs) : h <= e => h <= outputs[j]
            /\ e < Len(msgs) => outputs[j] > e

\* Before the first message come the outputs printed before it.
LEMMA TurnsStart ==
  ASSUME NEW outputs \in Seq(Nat), NEW msgs \in Texts, NEW at \in Nat, NEW tidy \in BOOLEAN,
         tidy => Tidy(outputs), NEW first, first = Screen!Through(outputs, 1, 0)
  PROVE  first \in 1..(Len(outputs) + 1) /\ InTurn(outputs, msgs, at, tidy, 0, first)
<1>1. PICK n \in Nat : n = Len(outputs) /\ 1 \in 1..(n + 1)
  OBVIOUS
<1>2. /\ first \in 1..(n + 1) /\ \A j \in 1..(first - 1) : outputs[j] <= 0
      /\ first <= n => outputs[first] > 0
  BY <1>1, ThroughTells
<1>3. \A j \in 1..n : outputs[j] \in Nat
  BY <1>1
<1>4. ASSUME NEW j \in 1..(first - 1)  PROVE outputs[j] <= 0 /\ (at # Screen!None => outputs[j] < at)
  <2>1. j \in 1..n
    BY <1>2
  <2>2. outputs[j] = 0
    BY <1>2, <1>3, <2>1
  <2>. QED  BY <2>2 DEF Screen!None
<1>5. ASSUME tidy, NEW j \in first..n  PROVE outputs[j] > 0
  <2>1. first \in 1..n /\ j \in 1..n /\ (first < j \/ first = j)
    BY <1>2
  <2>2. outputs[first] <= outputs[j]
    BY <1>1, <1>3, <1>5, <2>1 DEF Tidy
  <2>. QED  BY <1>2, <1>3, <2>1, <2>2
<1>6. \A h \in Screen!Heads(msgs) : ~(h <= 0)
  BY DEF Screen!Heads, Texts
<1>. QED  BY <1>1, <1>2, <1>4, <1>5, <1>6 DEF InTurn

\* What is not below one that is beyond a place is beyond it.
LEMMA Beyond ==
  ASSUME NEW u \in Nat, NEW x \in Nat, NEW y \in Nat, x > u, x <= y
  PROVE  y > u
OBVIOUS

\* The outputs after a unit are those printed by its end, unless it streams.
LEMMA TurnsGoOn ==
  ASSUME NEW outputs \in Seq(Nat), NEW msgs \in Texts, NEW at \in Nat,
         at = Screen!None \/ at = Len(msgs), NEW tidy \in BOOLEAN, tidy => Tidy(outputs),
         NEW k \in 0..(Len(msgs) - 1), k + 1 \in Screen!Heads(msgs),
         NEW next \in 1..(Len(outputs) + 1), InTurn(outputs, msgs, at, tidy, k, next),
         NEW u, u = Screen!UnitEnd(msgs, k + 1), Covered(msgs, k + 1, u),
         NEW t, t = IF Screen!Streams(msgs, k + 1, at) THEN next
                    ELSE Screen!Through(outputs, next, u)
  PROVE  /\ t \in next..(Len(outputs) + 1) /\ InTurn(outputs, msgs, at, tidy, u, t)
         /\ tidy => \A j \in next..Len(outputs) : outputs[j] > k
<1>1. PICK n \in Nat : n = Len(outputs) /\ next \in 1..(n + 1)
  OBVIOUS
<1>2. PICK size \in Nat : size = Len(msgs) /\ DOMAIN msgs = 1..size /\ k \in 0..(size - 1)
  BY DEF Texts
<1>3. \A j \in 1..n : outputs[j] \in Nat
  BY <1>1
<1>4. u \in (k + 1)..size /\ \A h \in Screen!Heads(msgs) : h <= k + 1 \/ h > u
  BY <1>2 DEF Covered
<1>0. u \in Nat
  BY <1>2, <1>4
<1>5. \A h \in Screen!Heads(msgs) : h \in Nat
  BY <1>2 DEF Screen!Heads
<1>6. ASSUME tidy
      PROVE  /\ \A j \in 1..(next - 1) : outputs[j] <= k /\ (at # Screen!None => outputs[j] < at)
             /\ \A j \in next..n : outputs[j] > k
  BY <1>1, <1>2, <1>6 DEF InTurn
<1>7. ASSUME tidy, NEW j \in 1..(next - 1)
      PROVE  outputs[j] <= u /\ (at # Screen!None => outputs[j] < at)
  <2>1. outputs[j] <= k /\ outputs[j] \in Nat /\ (at # Screen!None => outputs[j] < at)
    BY <1>1, <1>3, <1>6, <1>7
  <2>. QED  BY <1>2, <1>4, <2>1
<1>8. ASSUME tidy, NEW j \in next..n, NEW h \in Screen!Heads(msgs), h <= u  PROVE h <= outputs[j]
  <2>1. outputs[j] > k /\ outputs[j] \in Nat /\ h \in Nat /\ (h <= k + 1 \/ h > u)
    BY <1>1, <1>3, <1>4, <1>5, <1>6, <1>8
  <2>. QED  BY <1>2, <1>4, <1>8, <2>1
<1>9. CASE Screen!Streams(msgs, k + 1, at)
  <2>1. t = next /\ at \in (k + 1)..u
    BY <1>9 DEF Screen!Streams
  <2>2. u = size
    BY <1>2, <1>4, <2>1 DEF Screen!None
  <2>3. t \in next..(n + 1)
    BY <1>1, <2>1
  <2>4. InTurn(outputs, msgs, at, tidy, u, t)
    BY <1>1, <1>2, <1>7, <1>8, <2>1, <2>2 DEF InTurn
  <2>. QED  BY <1>1, <1>6, <2>3, <2>4
<1>10. CASE ~Screen!Streams(msgs, k + 1, at)
  <2>1. t = Screen!Through(outputs, next, u) /\ at \notin (k + 1)..u
    BY <1>10 DEF Screen!Streams
  <2>2. /\ t \in next..(n + 1) /\ \A j \in next..(t - 1) : outputs[j] <= u
        /\ t <= n => outputs[t] > u
    BY <1>0, <1>1, <2>1, ThroughTells
  <2>3. at # Screen!None => at > u
    BY <1>2, <1>4, <2>1
  <2>4. ASSUME tidy, NEW j \in 1..(t - 1)  PROVE outputs[j] <= u /\ (at # Screen!None => outputs[j] < at)
    <3>1. CASE j < next
      <4>1. j \in 1..(next - 1)
        BY <1>1, <3>1
      <4>. QED  BY <1>7, <2>4, <4>1
    <3>2. CASE j >= next
      <4>1. j \in next..(t - 1) /\ j \in 1..n
        BY <1>1, <2>2, <3>2
      <4>2. outputs[j] <= u /\ outputs[j] \in Nat
        BY <1>3, <2>2, <4>1
      <4>. QED  BY <1>4, <2>3, <4>2
    <3>. QED  BY <1>1, <3>1, <3>2
  <2>5. ASSUME tidy, NEW j \in t..n  PROVE outputs[j] > u
    <3>1. t \in 1..n /\ j \in 1..n /\ (t < j \/ t = j)
      BY <1>1, <2>2
    <3>2. outputs[t] > u /\ (t < j => outputs[t] <= outputs[j])
      BY <1>1, <2>2, <2>5, <3>1 DEF Tidy
    <3>3. outputs[t] \in Nat /\ outputs[j] \in Nat
      BY <1>3, <3>1
    <3>4. CASE t = j
      BY <3>2, <3>4
    <3>5. CASE t < j
      <4>1. PICK x \in Nat, y \in Nat : x = outputs[t] /\ y = outputs[j] /\ x > u /\ x <= y
        BY <3>2, <3>3, <3>5
      <4>2. y > u
        BY <1>0, <4>1, Beyond, Zenon
      <4>. QED  BY <4>1, <4>2
    <3>. QED  BY <3>1, <3>4, <3>5
  <2>6. ASSUME tidy, NEW j \in t..n, NEW h \in Screen!Heads(msgs), h <= u  PROVE h <= outputs[j]
    <3>1. j \in next..n
      BY <1>1, <2>2
    <3>. QED  BY <1>8, <2>6, <3>1
  <2>7. InTurn(outputs, msgs, at, tidy, u, t)
    BY <1>1, <2>4, <2>5, <2>6 DEF InTurn
  <2>. QED  BY <1>1, <1>6, <2>2, <2>7
<1>. QED  BY <1>9, <1>10

\* Nothing is drawn yet of what comes after message e.
Reaches(s, e) == \A p \in 1..Len(s) : s[p].of # "print" => s[p].at <= e

\* What is drawn up to message e: each text, and each output so far in its place.
InPlace(outputs, w, msgs, at, tidy, e, drawn) ==
    /\ Screen!TextsOf(drawn.lines) = Upto(w, msgs, at, e)
    /\ Ordered(outputs, Screen!Heads(msgs), tidy, drawn.lines)
    /\ Tells(drawn.lines, drawn.next)
    /\ InTurn(outputs, msgs, at, tidy, e, drawn.next)
    /\ Reaches(drawn.lines, e)

\* A unit reaches as far as it ends.
LEMMA ReachesMore ==
  ASSUME NEW k \in Nat, NEW u \in Nat, k <= u, NEW s \in Seq(Lines), Reaches(s, k),
         NEW unit \in Seq(Lines), \A p \in 1..Len(unit) : unit[p].at <= u,
         NEW b \in Seq(Lines), \A p \in 1..Len(b) : b[p].of = "print"
  PROVE  Reaches((s \o unit) \o b, u)
<1>1. PICK n \in Nat, m \in Nat, r \in Nat : n = Len(s) /\ m = Len(unit) /\ r = Len(b)
  BY JoinIs
<1>2. PICK a \in Seq(Lines) : /\ a = s \o unit /\ Len(a) = n + m /\ \A i \in 1..n : a[i] = s[i]
                              /\ \A i \in 1..m : a[n + i] = unit[i]
  <2>1. PICK a \in Seq(Lines) : a = s \o unit
    BY JoinIs
  <2>2. /\ Len(a) = n + m /\ \A i \in 1..n : a[i] = s[i]
        /\ \A i \in 1..m : a[n + i] = unit[i]
    BY <1>1, <2>1, JoinIs
  <2>. QED  BY <2>1, <2>2
<1>3. PICK c \in Seq(Lines) : /\ c = a \o b /\ Len(c) = (n + m) + r /\ \A i \in 1..(n + m) : c[i] = a[i]
                              /\ \A i \in 1..r : c[(n + m) + i] = b[i]
  <2>1. PICK c \in Seq(Lines) : c = a \o b
    BY JoinIs
  <2>2. /\ Len(c) = Len(a) + Len(b) /\ \A i \in 1..Len(a) : c[i] = a[i]
        /\ \A i \in 1..Len(b) : c[Len(a) + i] = b[i]
    BY <2>1, JoinIs
  <2>3. Len(a) = n + m /\ Len(b) = r
    BY <1>1, <1>2
  <2>. QED  BY <2>1, <2>2, <2>3
<1>4. ASSUME NEW p \in 1..((n + m) + r), c[p].of # "print"  PROVE c[p].at <= u
  <2>1. CASE p <= n
    <3>1. p \in 1..n /\ p \in 1..(n + m)
      BY <2>1
    <3>2. c[p] = s[p] /\ s[p] \in Lines
      BY <1>1, <1>2, <1>3, <3>1
    <3>3. s[p].at <= k /\ s[p].at \in Nat
      BY <1>1, <1>4, <3>1, <3>2 DEF Reaches, Lines
    <3>. QED  BY <3>2, <3>3
  <2>2. CASE p > n /\ p <= n + m
    <3>1. p - n \in 1..m /\ n + (p - n) = p /\ p \in 1..(n + m)
      BY <2>2
    <3>2. c[p] = unit[p - n]
      BY <1>2, <1>3, <3>1
    <3>. QED  BY <1>1, <3>1, <3>2
  <2>3. CASE p > n + m
    <3>1. p - (n + m) \in 1..r /\ (n + m) + (p - (n + m)) = p
      BY <2>3
    <3>2. PICK i \in 1..r : c[p] = b[i]
      BY <1>3, <3>1
    <3>. QED  BY <1>1, <1>4, <3>2
  <2>4. p <= n \/ (p > n /\ p <= n + m) \/ p > n + m
    OBVIOUS
  <2>. QED  BY <2>1, <2>2, <2>3, <2>4, Zenon
<1>. QED  BY <1>2, <1>3, <1>4 DEF Reaches

\* Of numbers: what is past one is past what is not.
LEMMA Past ==
  \A k, x, y \in Nat : (x >= k + 1 /\ y <= k => x > y) /\ (y > k /\ x <= k + 1 => x <= y)
  OBVIOUS

\* A unit is drawn below what comes before it.
LEMMA UnitInPlace ==
  ASSUME NEW outputs \in Seq(Nat), NEW w, w \in {1, 2}, NEW msgs \in Texts, Silent(msgs),
         NEW at \in Nat, Placed(msgs, at), at = Screen!None \/ at = Len(msgs),
         NEW tidy \in BOOLEAN, tidy => Tidy(outputs),
         NEW k \in 0..(Len(msgs) - 1), k + 1 \in Screen!Heads(msgs),
         NEW drawn \in Drawings(outputs), InPlace(outputs, w, msgs, at, tidy, k, drawn),
         NEW u, u = Screen!UnitEnd(msgs, k + 1), Covered(msgs, k + 1, u)
  PROVE  InPlace(outputs, w, msgs, at, tidy, u,
                 Screen!AddUnit(drawn, outputs, Screen!NoLines, w, msgs, k + 1, at))
<1>1. PICK size \in Nat : size = Len(msgs) /\ DOMAIN msgs = 1..size /\ k \in 0..(size - 1)
  BY DEF Texts
<1>2. k \in Nat /\ u \in Nat /\ u \in (k + 1)..size /\ k + 1 \in DOMAIN msgs /\ (k + 1) - 1 = k
  BY <1>1 DEF Covered
<1>3. PICK s \in Seq(Lines), next \in 1..(Len(outputs) + 1) : s = drawn.lines /\ next = drawn.next
  BY DEF Drawings
<1>4. PICK t : t = IF Screen!Streams(msgs, k + 1, at) THEN next ELSE Screen!Through(outputs, next, u)
  OBVIOUS
<1>5. PICK unit \in Seq(Own(k + 1, u)) : unit = Screen!DrawUnit(w, msgs, k + 1, at)
  BY <1>2, UnitIsOwn
<1>6. /\ Screen!TextsOf(s) = Upto(w, msgs, at, k) /\ Ordered(outputs, Screen!Heads(msgs), tidy, s)
      /\ Tells(s, next) /\ InTurn(outputs, msgs, at, tidy, k, next) /\ Reaches(s, k)
  BY <1>3 DEF InPlace
<1>7. /\ t \in next..(Len(outputs) + 1) /\ InTurn(outputs, msgs, at, tidy, u, t)
      /\ tidy => \A j \in next..Len(outputs) : outputs[j] > k
  BY <1>4, <1>6, TurnsGoOn
<1>8. unit \in Seq(Lines) /\ \A p \in 1..Len(unit) : /\ unit[p].of # "print" /\ unit[p].at \in Nat
                                                    /\ unit[p].at >= k + 1 /\ unit[p].at <= u
  <2>1. \A p \in 1..Len(unit) : unit[p] \in Own(k + 1, u)
    OBVIOUS
  <2>2. \A l \in Own(k + 1, u) : l \in Lines /\ l.of # "print" /\ l.at \in Nat /\ l.at >= k + 1 /\ l.at <= u
    BY <1>2 DEF Own
  <2>3. unit \in Seq(Lines)
    BY <2>2
  <2>. QED  BY <2>1, <2>2, <2>3
<1>9. PICK b \in Seq(Lines) : /\ b = Screen!Printed(next, t - 1) /\ Screen!TextsOf(b) = <<>>
                              /\ \A p \in 1..Len(b) : b[p].of = "print"
  <2>1. next \in Nat \ {0} /\ t \in Nat /\ next <= t
    BY <1>7
  <2>2. PICK b \in Seq(Lines) : /\ b = Screen!Printed(next, t - 1) /\ Screen!TextsOf(b) = <<>>
                                /\ Len(b) = t - next
                                /\ \A p \in 1..(t - next) : b[p] = Output(next + p - 1)
    BY <2>1, PrintedIs
  <2>3. \A p \in 1..Len(b) : b[p].of = "print"
    BY <2>2, OutputIs
  <2>. QED  BY <2>2, <2>3
<1>10. PICK all : all = (s \o unit) \o b
  OBVIOUS
<1>11. Screen!TextsOf(all) = Upto(w, msgs, at, u)
  <2>1. s \o unit \in Seq(Lines) /\ Screen!TextsOf(s \o unit) = Screen!TextsOf(s) \o Screen!TextsOf(unit)
    BY <1>8, TextsBoth, JoinIs
  <2>2. Screen!TextsOf(all) = Screen!TextsOf(s \o unit) \o <<>>
    BY <1>9, <1>10, <2>1, TextsBoth
  <2>3. Screen!TextsOf(s \o unit) \in Seq(Lines)
    BY <2>1, TextsType
  <2>4. Screen!TextsOf(s \o unit) \o <<>> = Screen!TextsOf(s \o unit)
    BY <2>3
  <2>5. Upto(w, msgs, at, u) = Upto(w, msgs, at, k) \o Screen!TextsOf(unit)
    BY <1>2, <1>5, UnitSays
  <2>. QED  BY <1>6, <2>1, <2>2, <2>4, <2>5
<1>12. Later(outputs, tidy, next, unit)
  <2>. SUFFICES ASSUME tidy, NEW j \in 1..(next - 1), NEW p \in 1..Len(unit)
                PROVE  unit[p].at > outputs[j]
    BY DEF Later
  <2>0. outputs[j] \in Nat
    <3>1. PICK n \in Nat : n = Len(outputs) /\ next \in 1..(n + 1)
      OBVIOUS
    <3>2. j \in 1..n
      BY <3>1
    <3>. QED  BY <3>1, <3>2
  <2>1. PICK y \in Nat : y = outputs[j] /\ y <= k
    BY <1>6, <2>0 DEF InTurn
  <2>2. PICK x \in Nat : x = unit[p].at /\ x >= k + 1
    BY <1>8
  <2>3. x > y
    BY <1>2, <2>1, <2>2, Past, Zenon
  <2>. QED  BY <2>1, <2>2, <2>3
<1>13. NotLater(outputs, Screen!Heads(msgs), tidy, next, t, s)
  <2>. SUFFICES ASSUME tidy, NEW j \in next..(t - 1), NEW p \in 1..Len(s), s[p].of # "print",
                       s[p].at \in Screen!Heads(msgs)
                PROVE  s[p].at <= outputs[j]
    BY DEF NotLater
  <2>1. j \in next..Len(outputs)
    BY <1>7
  <2>2. s[p].at <= k
    BY <1>6 DEF Reaches
  <2>. QED  BY <1>6, <2>1, <2>2 DEF InTurn
<1>14. NotLater(outputs, Screen!Heads(msgs), tidy, next, t, unit)
  <2>. SUFFICES ASSUME tidy, NEW j \in next..(t - 1), NEW p \in 1..Len(unit),
                       unit[p].at \in Screen!Heads(msgs)
                PROVE  unit[p].at <= outputs[j]
    BY DEF NotLater
  <2>1. j \in next..Len(outputs)
    BY <1>7
  <2>0. outputs[j] \in Nat
    <3>1. PICK n \in Nat : n = Len(outputs) /\ next \in 1..(n + 1)
      OBVIOUS
    <3>2. j \in 1..n
      BY <2>1, <3>1
    <3>. QED  BY <3>1, <3>2
  <2>2. PICK y \in Nat : y = outputs[j] /\ y > k
    BY <1>7, <2>0, <2>1
  <2>3. PICK x \in Nat : x = unit[p].at /\ x <= u /\ (x <= k + 1 \/ x > u)
    BY <1>8 DEF Covered
  <2>4. x <= k + 1
    BY <2>3, Greater, <1>2, Zenon
  <2>5. x <= y
    BY <1>2, <2>2, <2>3, <2>4, Past, Zenon
  <2>. QED  BY <2>2, <2>3, <2>5
<1>15. Ordered(outputs, Screen!Heads(msgs), tidy, all) /\ Tells(all, t)
  BY <1>6, <1>7, <1>8, <1>9, <1>10, <1>12, <1>13, <1>14, PileIsOrdered
<1>16. Reaches(all, u)
  <2>1. k <= u
    BY <1>2
  <2>. QED  BY <1>2, <1>6, <1>8, <1>9, <1>10, <2>1, ReachesMore
<1>17. PICK sum : sum = Screen!AddUnit(drawn, outputs, Screen!NoLines, w, msgs, k + 1, at)
  OBVIOUS
<1>18. Screen!UnitLines(Screen!NoLines, w, msgs, k + 1, at) = unit
  BY <1>5 DEF Screen!UnitLines, Screen!Served, Screen!NoLines
<1>19. sum.lines = all /\ sum.next = t
  <2>1. t = IF Screen!Streams(msgs, k + 1, at) THEN drawn.next
            ELSE Screen!Through(outputs, drawn.next, Screen!UnitEnd(msgs, k + 1))
    BY <1>3, <1>4
  <2>2. /\ sum.next = t
        /\ sum.lines = drawn.lines \o Screen!UnitLines(Screen!NoLines, w, msgs, k + 1, at)
                       \o Screen!Printed(drawn.next, t - 1)
    BY <1>17, <2>1 DEF Screen!AddUnit
  <2>3. drawn.lines = s /\ Screen!Printed(drawn.next, t - 1) = b
    BY <1>3, <1>9
  <2>4. sum.lines = s \o unit \o b
    BY <1>18, <2>2, <2>3, Zenon
  <2>. QED  BY <1>10, <2>2, <2>4
<1>. QED  BY <1>7, <1>11, <1>15, <1>16, <1>17, <1>19 DEF InPlace

\* Before the first message there is what was printed before it.
LEMMA StartsInPlace ==
  ASSUME NEW outputs \in Seq(Nat), NEW w, w \in {1, 2}, NEW msgs \in Texts,
         NEW at \in Nat, NEW tidy \in BOOLEAN, tidy => Tidy(outputs),
         NEW first, first = Screen!Through(outputs, 1, 0),
         NEW drawn, drawn.lines = Screen!Printed(1, first - 1), drawn.next = first
  PROVE  InPlace(outputs, w, msgs, at, tidy, 0, drawn)
<1>1. first \in 1..(Len(outputs) + 1) /\ InTurn(outputs, msgs, at, tidy, 0, first)
  BY TurnsStart
<1>2. 1 \in Nat \ {0} /\ first \in Nat /\ 1 <= first
  BY <1>1
<1>3. PICK b \in Seq(Lines) : /\ b = Screen!Printed(1, first - 1) /\ Screen!TextsOf(b) = <<>>
                              /\ Len(b) = first - 1
                              /\ \A p \in 1..(first - 1) : b[p] = Output(1 + p - 1)
  BY <1>2, PrintedIs
<1>4. \A p \in 1..Len(b) : b[p].of = "print"
  BY <1>3, OutputIs
<1>5. Ordered(outputs, Screen!Heads(msgs), tidy, b) /\ Tells(b, first)
  <2>1. PICK none \in Seq(Lines) : none = <<>>
    BY NoTexts
  <2>2. Len(none) = 0 /\ 1..0 = {} /\ 1 - 1 = 0 /\ 1 \in 1..(Len(outputs) + 1)
    BY <1>1, <2>1
  <2>3. Ordered(outputs, Screen!Heads(msgs), tidy, none)
    BY <2>2 DEF Ordered
  <2>4. Tells(none, 1)
    BY <2>2 DEF Tells
  <2>5. /\ Later(outputs, tidy, 1, none)
        /\ NotLater(outputs, Screen!Heads(msgs), tidy, 1, first, none)
        /\ \A p \in 1..Len(none) : none[p].of # "print"
    BY <2>2 DEF Later, NotLater
  <2>6. (none \o none) \o b = b
    BY <2>1
  <2>7. PICK all : all = (none \o none) \o Screen!Printed(1, first - 1)
    OBVIOUS
  <2>8. first \in 1..(Len(outputs) + 1) /\ 1 \in 1..(Len(outputs) + 1)
    BY <1>1, <2>2
  <2>9. Ordered(outputs, Screen!Heads(msgs), tidy, all) /\ Tells(all, first)
    BY <2>3, <2>4, <2>5, <2>7, <2>8, PileIsOrdered
  <2>. QED  BY <1>3, <2>6, <2>7, <2>9
<1>6. Upto(w, msgs, at, 0) = <<>>
  <2>1. Pieces(w, msgs, at, 0) = <<>>
    BY DEF Pieces
  <2>. QED  BY <2>1 DEF Upto, Screen!FlattenSeq
<1>7. Reaches(b, 0)
  BY <1>4 DEF Reaches
<1>. QED  BY <1>1, <1>3, <1>5, <1>6, <1>7 DEF InPlace

\* What a rebuild draws from nothing: each text, and each output so far in its place.
LEMMA ColdInPlace ==
  ASSUME NEW outputs \in Seq(Nat), NEW w, w \in {1, 2}, NEW msgs \in Texts, Silent(msgs),
         NEW at \in Nat, Placed(msgs, at), at = Screen!None \/ at = Len(msgs),
         NEW tidy \in BOOLEAN, tidy => Tidy(outputs)
  PROVE  InPlace(outputs, w, msgs, at, tidy, Len(msgs), Cold(outputs, w, msgs, at))
<1>1. PICK size \in Nat : size = Len(msgs) /\ DOMAIN msgs = 1..size
  BY DEF Texts
<1>2. PICK R : R = Screen!RenderInto(outputs, Screen!NoLines, w, msgs, at)
  OBVIOUS
<1>3. /\ \A k \in 0..size : R[k] = RenderStep(R[k - 1], outputs, Screen!NoLines, w, msgs, at, k)
      /\ \A k \in 0..size : R[k] \in Drawings(outputs)
  BY <1>1, <1>2, RenderIs, RenderType
<1>. DEFINE There(k) == \E e : /\ Covered(msgs, k, e)
                               /\ InPlace(outputs, w, msgs, at, tidy, e, R[k])
            Good == {k \in 0..size : There(k)}
<1>4. 0 \in Good
  <2>1. PICK first : first = Screen!Through(outputs, 1, 0)
    OBVIOUS
  <2>2. R[0] = [lines |-> Screen!Printed(1, first - 1), next |-> first]
    BY <1>3, <2>1 DEF RenderStep
  <2>3. InPlace(outputs, w, msgs, at, tidy, 0, R[0])
    BY <2>1, <2>2, StartsInPlace
  <2>4. There(0)
    BY <2>3, CoverStarts
  <2>. HIDE DEF There
  <2>. QED  BY <2>4
<1>5. ASSUME NEW k \in 0..(size - 1), k \in Good  PROVE k + 1 \in Good
  <2>1. k \in 0..size /\ k + 1 \in 0..size /\ k + 1 # 0 /\ (k + 1) - 1 = k /\ k \in 0..(Len(msgs) - 1)
    BY <1>1
  <2>2. PICK e : Covered(msgs, k, e) /\ InPlace(outputs, w, msgs, at, tidy, e, R[k])
    BY <1>5
  <2>3. R[k + 1] = RenderStep(R[k], outputs, Screen!NoLines, w, msgs, at, k + 1)
    BY <1>3, <2>1
  <2>4. There(k + 1)
    <3>1. CASE k + 1 \notin Screen!Heads(msgs)
      <4>1. R[k + 1] = R[k]
        BY <2>1, <2>3, <3>1 DEF RenderStep
      <4>2. Covered(msgs, k + 1, e)
        BY <2>1, <2>2, <3>1, CoverInside
      <4>. QED  BY <2>2, <4>1, <4>2
    <3>2. CASE k + 1 \in Screen!Heads(msgs)
      <4>1. R[k + 1] = Screen!AddUnit(R[k], outputs, Screen!NoLines, w, msgs, k + 1, at)
        BY <2>1, <2>3, <3>2 DEF RenderStep
      <4>2. PICK u : u = Screen!UnitEnd(msgs, k + 1)
        OBVIOUS
      <4>3. e = k /\ Covered(msgs, k + 1, u)
        BY <2>1, <2>2, <3>2, <4>2, CoverUnit
      <4>4. InPlace(outputs, w, msgs, at, tidy, k, R[k])
        BY <2>2, <4>3
      <4>5. PICK drawn \in Drawings(outputs) : drawn = R[k]
        BY <1>3, <2>1
      <4>6. InPlace(outputs, w, msgs, at, tidy, u,
                    Screen!AddUnit(drawn, outputs, Screen!NoLines, w, msgs, k + 1, at))
        BY <2>1, <3>2, <4>2, <4>3, <4>4, <4>5, UnitInPlace
      <4>. QED  BY <4>1, <4>3, <4>5, <4>6
    <3>. QED  BY <3>1, <3>2
  <2>. HIDE DEF There
  <2>. QED  BY <2>1, <2>4
<1>6. There(size)
  <2>1. 0..size \subseteq Good
    <3>. HIDE DEF Good
    <3>. QED  BY <1>4, <1>5, SetInduction
  <2>2. size \in 0..size
    OBVIOUS
  <2>. HIDE DEF There
  <2>. QED  BY <2>1, <2>2
<1>7. PICK e : Covered(msgs, size, e) /\ InPlace(outputs, w, msgs, at, tidy, e, R[size])
  BY <1>6
<1>8. e = size
  BY <1>1, <1>7 DEF Covered
<1>. QED  BY <1>1, <1>2, <1>7, <1>8 DEF Cold

----------------------------------------------------------------------------
(* A screen that needs no rebuild.                                          *)

\* What the messages say, one after the other.
AllSaid(w, msgs) ==
    Screen!FlattenSeq([i \in DOMAIN msgs |-> Screen!TextLines(w, i, msgs[i].text)])

\* What all messages say is said by those before the last and by the last.
LEMMA SaidAll ==
  ASSUME NEW w, w \in {1, 2}, NEW msgs \in Texts, NEW at \in Nat, Placed(msgs, at),
         at = Screen!None \/ at = Len(msgs)
  PROVE  /\ Upto(w, msgs, at, Len(msgs)) \in Seq(Lines)
         /\ Upto(w, msgs, at, Len(msgs)) \o Streamed(w, msgs, at)
            = AllSaid(w, msgs)
<1>1. PICK size \in Nat : size = Len(msgs) /\ DOMAIN msgs = 1..size /\ size \in 0..Len(msgs)
  BY DEF Texts
<1>2. \A a : Upto(w, msgs, a, size) \in Seq(Lines)
  BY <1>1, PiecesAre, FlattenType DEF Upto
<1>3. PICK all \in Seq(Lines) : all = Upto(w, msgs, Screen!None, size)
  BY <1>2
<1>4. all = AllSaid(w, msgs)
  <2>1. \A i \in 1..size : Piece(w, msgs, Screen!None, i) = Screen!TextLines(w, i, msgs[i].text)
    BY DEF Piece, Screen!None
  <2>2. Pieces(w, msgs, Screen!None, size) = [i \in 1..size |-> Screen!TextLines(w, i, msgs[i].text)]
    BY <2>1 DEF Pieces
  <2>. QED  BY <1>1, <1>3, <2>2 DEF Upto, AllSaid
<1>5. CASE at = Screen!None
  <2>1. Streamed(w, msgs, at) = <<>> /\ Upto(w, msgs, at, size) = all
    BY <1>3, <1>5 DEF Streamed
  <2>2. all \o <<>> = all
    OBVIOUS
  <2>. QED  BY <1>1, <1>2, <1>4, <2>1, <2>2
<1>6. CASE at # Screen!None
  <2>1. at = size /\ size # 0 /\ size - 1 \in 0..(Len(msgs) - 1) /\ (size - 1) + 1 = size
    BY <1>1, <1>6 DEF Screen!None
  <2>2. \A i \in 1..(size - 1) : Piece(w, msgs, at, i) = Piece(w, msgs, Screen!None, i)
    BY <2>1 DEF Piece, Screen!None
  <2>3. Upto(w, msgs, at, size - 1) = Upto(w, msgs, Screen!None, size - 1)
    BY <2>2 DEF Upto, Pieces
  <2>4. \A a : Upto(w, msgs, a, size) = Upto(w, msgs, a, size - 1) \o Piece(w, msgs, a, size)
    <3>. SUFFICES ASSUME NEW a
                  PROVE  Upto(w, msgs, a, size) = Upto(w, msgs, a, size - 1) \o Piece(w, msgs, a, size)
      OBVIOUS
    <3>1. Upto(w, msgs, a, (size - 1) + 1)
          = Upto(w, msgs, a, size - 1) \o Piece(w, msgs, a, (size - 1) + 1)
      BY <2>1, UptoMore
    <3>. QED  BY <2>1, <3>1
  <2>5. PICK some \in Seq(Lines) : some = Upto(w, msgs, at, size - 1)
    <3>1. size - 1 \in 0..Len(msgs)
      BY <1>1, <2>1
    <3>. QED  BY <3>1, PiecesAre, FlattenType DEF Upto
  <2>6. Piece(w, msgs, at, size) = <<>> /\ Piece(w, msgs, Screen!None, size) = Streamed(w, msgs, at)
    BY <1>6, <2>1 DEF Piece, Streamed, Screen!None
  <2>7. Upto(w, msgs, at, size) = some
    <3>1. some \o <<>> = some
      OBVIOUS
    <3>. QED  BY <2>4, <2>5, <2>6, <3>1
  <2>8. all = some \o Streamed(w, msgs, at)
    BY <1>3, <2>3, <2>4, <2>5, <2>6
  <2>. QED  BY <1>1, <1>2, <1>4, <2>7, <2>8
<1>. QED  BY <1>5, <1>6

\* The lines of a screen that is not the splash: the transcript drawn from nothing, the answer
\* that streams, and what was printed after all of it.
Stack(outputs, w, msgs, at, tidy, drawn, all) ==
  /\ outputs \in Seq(Nat) /\ w \in {1, 2} /\ msgs \in Texts /\ at \in Nat /\ tidy \in BOOLEAN
  /\ Silent(msgs)
  /\ Placed(msgs, at)
  /\ at = Screen!None \/ at = Len(msgs)
  /\ tidy => Tidy(outputs)
  /\ drawn = Cold(outputs, w, msgs, at)
  /\ all = (drawn.lines \o Streamed(w, msgs, at)) \o Screen!Printed(drawn.next, Len(outputs))

\* What a screen shows that is not the splash: each text, and each output in its place.
LEMMA StackInPlace ==
  ASSUME NEW outputs, NEW w, NEW msgs, NEW at, NEW tidy, NEW drawn, NEW all,
         Stack(outputs, w, msgs, at, tidy, drawn, all)
  PROVE  /\ all \in Seq(Lines)
         /\ Screen!TextsOf(all)
            = AllSaid(w, msgs)
         /\ Ordered(outputs, Screen!Heads(msgs), tidy, all)
         /\ Tells(all, Len(outputs) + 1)
<1>. SUFFICES ASSUME outputs \in Seq(Nat), w \in {1, 2}, msgs \in Texts, at \in Nat, tidy \in BOOLEAN,
                     Silent(msgs), Placed(msgs, at), at = Screen!None \/ at = Len(msgs),
                     tidy => Tidy(outputs), drawn = Cold(outputs, w, msgs, at),
                     all = (drawn.lines \o Streamed(w, msgs, at)) \o Screen!Printed(drawn.next, Len(outputs))
              PROVE  /\ all \in Seq(Lines)
                     /\ Screen!TextsOf(all)
                        = AllSaid(w, msgs)
                     /\ Ordered(outputs, Screen!Heads(msgs), tidy, all)
                     /\ Tells(all, Len(outputs) + 1)
  BY DEF Stack
<1>1. PICK size \in Nat : size = Len(msgs) /\ DOMAIN msgs = 1..size /\ size \in 0..Len(msgs)
  BY DEF Texts
<1>2. drawn \in Drawings(outputs) /\ InPlace(outputs, w, msgs, at, tidy, size, drawn)
  <2>1. drawn \in Drawings(outputs)
    BY <1>1, RenderType DEF Cold
  <2>2. InPlace(outputs, w, msgs, at, tidy, size, drawn)
    BY <1>1, ColdInPlace
  <2>. QED  BY <2>1, <2>2
<1>3. PICK s \in Seq(Lines), next \in 1..(Len(outputs) + 1) : s = drawn.lines /\ next = drawn.next
  BY <1>2 DEF Drawings
<1>4. /\ Screen!TextsOf(s) = Upto(w, msgs, at, size) /\ Ordered(outputs, Screen!Heads(msgs), tidy, s)
      /\ Tells(s, next) /\ InTurn(outputs, msgs, at, tidy, size, next) /\ Reaches(s, size)
  BY <1>2, <1>3 DEF InPlace
<1>5. PICK n \in Nat : n = Len(outputs) /\ next \in 1..(n + 1) /\ n + 1 \in next..(n + 1)
  BY <1>3
<1>6. PICK unit \in Seq(Lines) : unit = Streamed(w, msgs, at)
  BY <1>2, PiecesType
<1>7. \A p \in 1..Len(unit) : unit[p].of = "text" /\ unit[p].at = at /\ at # Screen!None
  <2>1. CASE at = Screen!None
    <3>1. unit = <<>>
      BY <1>6, <2>1 DEF Streamed
    <3>. QED  BY <3>1
  <2>2. CASE at # Screen!None
    <3>1. PICK long \in Nat : long = msgs[at].text * w
      <4>1. msgs[at].text \in Nat
        BY <2>2, RoleType DEF Placed
      <4>. QED  BY <4>1
    <3>2. unit = [l \in 1..long |-> Screen!Line("text", at, l)]
      BY <1>6, <2>2, <3>1 DEF Streamed, Screen!TextLines
    <3>3. Len(unit) = long
      BY <3>2
    <3>. QED  BY <2>2, <3>2, <3>3 DEF Screen!Line
  <2>. QED  BY <2>1, <2>2
<1>8. \A p \in 1..Len(unit) : unit[p].of # "print"
  BY <1>7
<1>9. PICK b \in Seq(Lines) : b = Screen!Printed(next, n) /\ Screen!TextsOf(b) = <<>>
  <2>1. next \in Nat \ {0} /\ n + 1 \in Nat /\ next <= n + 1 /\ (n + 1) - 1 = n
    BY <1>5
  <2>2. PICK b \in Seq(Lines) : b = Screen!Printed(next, (n + 1) - 1) /\ Screen!TextsOf(b) = <<>>
    BY <2>1, PrintedIs
  <2>. QED  BY <2>1, <2>2
<1>10. all = (s \o unit) \o b
  BY <1>3, <1>5, <1>6, <1>9
<1>11. Later(outputs, tidy, next, unit)
  <2>. SUFFICES ASSUME tidy, NEW j \in 1..(next - 1), NEW p \in 1..Len(unit)
                PROVE  unit[p].at > outputs[j]
    BY DEF Later
  <2>1. outputs[j] \in Nat
    <3>1. j \in 1..n
      BY <1>5
    <3>. QED  BY <1>5, <3>1
  <2>2. PICK y \in Nat : y = outputs[j] /\ y < at
    BY <1>4, <1>7, <2>1 DEF InTurn
  <2>3. at > y
    BY <2>2
  <2>. QED  BY <1>7, <2>2, <2>3
<1>12. \A a \in Seq(Lines) : Reaches(a, size) => NotLater(outputs, Screen!Heads(msgs), tidy, next, n + 1, a)
  <2>. SUFFICES ASSUME NEW a \in Seq(Lines), Reaches(a, size), tidy,
                       NEW j \in next..((n + 1) - 1), NEW p \in 1..Len(a), a[p].of # "print",
                       a[p].at \in Screen!Heads(msgs)
                PROVE  a[p].at <= outputs[j]
    BY DEF NotLater
  <2>1. j \in next..Len(outputs)
    BY <1>5
  <2>2. a[p].at <= size
    BY DEF Reaches
  <2>. QED  BY <1>4, <2>1, <2>2 DEF InTurn
<1>13. Reaches(unit, size)
  BY <1>1, <1>7 DEF Reaches
<1>14. Ordered(outputs, Screen!Heads(msgs), tidy, all) /\ Tells(all, n + 1)
  <2>1. PICK t : t = n + 1
    OBVIOUS
  <2>2. t \in next..(Len(outputs) + 1) /\ Screen!Printed(next, t - 1) = b
    <3>1. (n + 1) - 1 = n
      OBVIOUS
    <3>. QED  BY <1>5, <1>9, <2>1, <3>1
  <2>3. NotLater(outputs, Screen!Heads(msgs), tidy, next, t, s)
        /\ NotLater(outputs, Screen!Heads(msgs), tidy, next, t, unit)
    BY <1>4, <1>12, <1>13, <2>1
  <2>4. Ordered(outputs, Screen!Heads(msgs), tidy, all) /\ Tells(all, t)
    BY <1>4, <1>8, <1>10, <1>11, <2>2, <2>3, PileIsOrdered
  <2>. QED  BY <2>1, <2>4
<1>15. Screen!TextsOf(all)
       = AllSaid(w, msgs)
  <2>1. s \o unit \in Seq(Lines) /\ Screen!TextsOf(s \o unit) = Screen!TextsOf(s) \o Screen!TextsOf(unit)
    BY TextsBoth, JoinIs
  <2>2. Screen!TextsOf(unit) = unit
    BY <1>7, TextsAll
  <2>3. Screen!TextsOf(all) = Screen!TextsOf(s \o unit) \o <<>>
    BY <1>9, <1>10, <2>1, TextsBoth
  <2>4. Screen!TextsOf(s \o unit) \in Seq(Lines)
    BY <2>1, TextsType
  <2>5. Screen!TextsOf(s \o unit) \o <<>> = Screen!TextsOf(s \o unit)
    BY <2>4
  <2>6. Upto(w, msgs, at, size) \o unit
        = AllSaid(w, msgs)
    BY <1>1, <1>6, SaidAll
  <2>. QED  BY <1>4, <2>1, <2>2, <2>3, <2>5, <2>6
<1>16. all \in Seq(Lines)
  BY <1>10, JoinIs
<1>. QED  BY <1>5, <1>14, <1>15, <1>16

\* A set of one is of one.
LEMMA CardinalityOfOne == \A x : Screen!Cardinality({x}) = 1
<1>1. \A S : Screen!Cardinality(S) = Cardinality(S)
  BY DEF Screen!Cardinality, Cardinality
<1>. QED  BY <1>1, FS_Singleton

\* An output is once on the screen, below the texts it came after and above the units it
\* came before.
InItsPlace(outputs, heads, tidy, s, k) ==
    /\ Screen!Cardinality({l \in DOMAIN s : s[l] = Screen!Line("print", k, 0)}) = 1
    /\ tidy =>
        LET here == CHOOSE l \in DOMAIN s : s[l] = Screen!Line("print", k, 0)
        IN  \A l \in DOMAIN s :
               /\ s[l].of = "text" /\ s[l].at <= outputs[k] => l < here
               /\ s[l].at \in heads /\ s[l].at > outputs[k] /\ s[l].of # "print" => l > here

\* Where lines are in order each output is in its place.
LEMMA OrderIsPlace ==
  ASSUME NEW outputs, NEW heads, NEW tidy, NEW s \in Seq(Lines), NEW next,
         Ordered(outputs, heads, tidy, s), Tells(s, next), NEW k \in 1..(next - 1)
  PROVE  InItsPlace(outputs, heads, tidy, s, k)
<1>1. PICK n \in Nat : n = Len(s) /\ DOMAIN s = 1..n
  OBVIOUS
<1>2. PICK p \in 1..n : s[p] = Output(k)
  BY <1>1 DEF Tells
<1>3. \A i, j \in 1..n : i < j => ~Wrong(outputs, heads, tidy, s[i], s[j])
  BY <1>1 DEF Ordered
<1>4. \A i, j \in 1..n : i < j \/ i = j \/ i > j
  OBVIOUS
<1>5. \A i, j \in 1..n : i > j => j < i
  OBVIOUS
<1>6. s[p].of = "print" /\ s[p].at = k
  BY <1>2, OutputIs
<1>7. ASSUME NEW l \in 1..n, s[l] = Output(k)  PROVE l = p
  <2>1. ~(l < p) /\ ~(p < l)
    BY <1>2, <1>3, <1>6, <1>7 DEF Wrong
  <2>. QED  BY <1>4, <1>5, <2>1
<1>8. {l \in DOMAIN s : s[l] = Output(k)} = {p}
  BY <1>1, <1>2, <1>7
<1>9. PICK here : here = CHOOSE l \in DOMAIN s : s[l] = Output(k)
  OBVIOUS
<1>10. here = p
  <2>1. here \in DOMAIN s /\ s[here] = Output(k)
    BY <1>1, <1>2, <1>9
  <2>. QED  BY <1>1, <1>7, <2>1
<1>11. ASSUME tidy, NEW l \in 1..n, s[l].of = "text", s[l].at <= outputs[k]  PROVE l < p
  <2>1. l # p
    BY <1>6, <1>11
  <2>2. ~(p < l)
    BY <1>3, <1>6, <1>11 DEF Wrong
  <2>. QED  BY <1>4, <1>5, <2>1, <2>2
<1>12. ASSUME tidy, NEW l \in 1..n, s[l].at \in heads, s[l].at > outputs[k], s[l].of # "print"
       PROVE  l > p
  <2>1. l # p
    BY <1>6, <1>12
  <2>2. ~(l < p)
    BY <1>3, <1>6, <1>12 DEF Wrong
  <2>. QED  BY <1>4, <1>5, <2>1, <2>2
<1>13. Screen!Cardinality({l \in DOMAIN s : s[l] = Output(k)}) = 1
  BY <1>8, CardinalityOfOne
<1>. QED  BY <1>1, <1>9, <1>10, <1>11, <1>12, <1>13 DEF Output, InItsPlace

----------------------------------------------------------------------------
(* What the conversation keeps of its messages and outputs.                 *)

\* A message that says nothing if it is a notice.
Hushed == {m \in Screen!Messages : m.role = "notice" => m.text = 0}

\* No output was printed after more messages than there are.
Within(outputs, count) == \A k \in 1..Len(outputs) : outputs[k] <= count

\* Notices say nothing, and outputs are in the order of the messages unless some are gone.
TranscriptInv ==
    /\ transcript \in Seq(Hushed)
    /\ ~shortened => Tidy(kept) /\ Within(kept, Len(transcript))

\* At the start there is nothing.
LEMMA TranscriptStarts == Screen!Init => TranscriptInv
<1>. SUFFICES ASSUME Screen!Init  PROVE TranscriptInv
  OBVIOUS
<1>1. transcript = <<>> /\ kept = <<>>
  BY DEF Screen!Init
<1>2. transcript \in Seq(Hushed) /\ Len(kept) = 0 /\ Len(transcript) = 0
  BY <1>1
<1>. QED  BY <1>2 DEF TranscriptInv, Tidy, Within

\* Where nothing is printed and no message goes, the outputs stay in order.
LEMMA MessagesCome ==
  ASSUME TranscriptInv, kept \in Seq(Nat), transcript' \in Seq(Hushed),
         Len(transcript') >= Len(transcript), UNCHANGED <<kept, shortened>>
  PROVE  TranscriptInv'
<1>1. ASSUME ~shortened, NEW k \in 1..Len(kept)  PROVE kept[k] <= Len(transcript')
  <2>1. PICK n \in Nat, m \in Nat : n = Len(transcript) /\ m = Len(transcript') /\ m >= n
    BY DEF TranscriptInv
  <2>2. PICK y \in Nat : y = kept[k] /\ y <= n
    BY <1>1, <2>1 DEF TranscriptInv, Within
  <2>3. y <= m
    BY <2>1, <2>2
  <2>. QED  BY <2>1, <2>2, <2>3
<1>. QED  BY <1>1 DEF TranscriptInv, Within

\* Where messages go it is known whether one did that an output was printed after.
LEMMA MessagesGo ==
  ASSUME TranscriptInv, kept \in Seq(Nat), transcript' \in Seq(Hushed), kept' = kept,
         shortened' = Screen!Shorter(transcript')
  PROVE  TranscriptInv'
<1>1. PICK m \in Nat : m = Len(transcript')
  OBVIOUS
<1>2. ASSUME ~shortened', NEW k \in 1..Len(kept)  PROVE kept[k] <= m
  <2>0. k \in DOMAIN kept /\ kept[k] \in Nat
    OBVIOUS
  <2>1. ~(kept[k] > m) /\ kept[k] \in Nat
    BY <1>1, <1>2, <2>0 DEF Screen!Shorter
  <2>. QED  BY <2>1
<1>3. ~shortened' => ~shortened
  BY DEF Screen!Shorter
<1>. QED  BY <1>1, <1>2, <1>3 DEF TranscriptInv, Within

\* What is printed now comes after all messages.
LEMMA OutputsCome ==
  ASSUME NEW outputs \in Seq(Nat), NEW count \in Nat, Tidy(outputs), Within(outputs, count)
  PROVE  Tidy(Append(outputs, count)) /\ Within(Append(outputs, count), count)
<1>1. PICK n \in Nat : n = Len(outputs)
  OBVIOUS
<1>2. PICK more \in Seq(Nat) : /\ more = Append(outputs, count) /\ Len(more) = n + 1
                               /\ \A i \in 1..n : more[i] = outputs[i]
                               /\ more[n + 1] = count
  <2>0. Append(outputs, count) \in Seq(Nat)
    OBVIOUS
  <2>1. PICK more \in Seq(Nat) : more = Append(outputs, count)
    BY <2>0, Zenon
  <2>2. Len(more) = n + 1 /\ more[n + 1] = count /\ \A i \in 1..n : more[i] = outputs[i]
    BY <1>1, <2>1
  <2>. QED  BY <2>1, <2>2
<1>3. ASSUME NEW i \in 1..(n + 1)  PROVE more[i] <= count
  <2>1. CASE i <= n
    <3>1. i \in 1..n
      BY <2>1
    <3>. QED  BY <1>1, <1>2, <3>1 DEF Within
  <2>2. CASE i = n + 1
    BY <1>2, <2>2
  <2>. QED  BY <2>1, <2>2
<1>4. ASSUME NEW i \in 1..(n + 1), NEW j \in 1..(n + 1), i < j  PROVE more[i] <= more[j]
  <2>1. CASE j <= n
    <3>1. i \in 1..n /\ j \in 1..n
      BY <1>4, <2>1
    <3>. QED  BY <1>1, <1>2, <1>4, <3>1 DEF Tidy
  <2>2. CASE j = n + 1
    BY <1>2, <1>3, <2>2
  <2>. QED  BY <2>1, <2>2
<1>. QED  BY <1>2, <1>3, <1>4 DEF Tidy, Within

\* A message that is added is a notice that says nothing, a question or an answer.
LEMMA TranscriptAdd ==
  ASSUME ScreenInv, TranscriptInv, NEW role \in {"user", "assistant", "notice"},
         NEW text \in 0..MaxLines, role = "notice" => text = 0, Screen!Add(role, text)
  PROVE  TranscriptInv'
<1>1. PICK m \in Hushed : m = [role |-> role, text |-> text]
  BY DEF Hushed, Screen!Messages
<1>2. transcript' = Append(transcript, m) /\ UNCHANGED <<kept, shortened>>
  BY <1>1 DEF Screen!Add
<1>3. transcript \in Seq(Hushed) /\ kept \in Seq(Nat)
  BY DEF TranscriptInv, ScreenInv, ScreenTypes
<1>4. transcript' \in Seq(Hushed) /\ Len(transcript') >= Len(transcript)
  BY <1>2, <1>3
<1>. QED  BY <1>2, <1>3, <1>4, MessagesCome

\* The placeholder of an answer is one.
LEMMA TranscriptStart ==
  ASSUME ScreenInv, TranscriptInv, Screen!StartStreamingBlock
  PROVE  TranscriptInv'
<1>1. PICK m \in Hushed : m = [role |-> "assistant", text |-> 0]
  <2>1. 0 \in 0..MaxLines
    BY RoomAssumption
  <2>2. [role |-> "assistant", text |-> 0] \in Hushed
    BY <2>1 DEF Hushed, Screen!Messages
  <2>. QED  BY <2>2
<1>2. transcript' = Append(transcript, m) /\ UNCHANGED <<kept, shortened>>
  BY <1>1 DEF Screen!StartStreamingBlock
<1>3. transcript \in Seq(Hushed) /\ kept \in Seq(Nat)
  BY DEF TranscriptInv, ScreenInv, ScreenTypes
<1>4. transcript' \in Seq(Hushed) /\ Len(transcript') >= Len(transcript)
  BY <1>2, <1>3
<1>. QED  BY <1>2, <1>3, <1>4, MessagesCome

\* A text that streams is of an answer.
LEMMA TranscriptUpdate ==
  ASSUME ScreenInv, TranscriptInv, NEW text \in 1..MaxLines, Screen!UpdateStreamingBlock(text)
  PROVE  TranscriptInv'
<1>1. PICK at : at = Screen!Placeholder(transcript)
  OBVIOUS
<1>2. /\ transcript' = IF at = Screen!None THEN transcript ELSE [transcript EXCEPT ![at].text = text]
      /\ UNCHANGED <<kept, shortened>>
  BY <1>1 DEF Screen!UpdateStreamingBlock
<1>3. transcript \in Seq(Hushed) /\ kept \in Seq(Nat)
  BY DEF TranscriptInv, ScreenInv, ScreenTypes
<1>4. CASE at = Screen!None
  BY <1>2, <1>4 DEF TranscriptInv
<1>5. CASE at # Screen!None
  <2>1. at \in DOMAIN transcript /\ Screen!Is(transcript, at, "assistant")
    BY <1>1, <1>5, PlaceholderIs
  <2>2. PICK m : m = [transcript[at] EXCEPT !.text = text]
    OBVIOUS
  <2>3. m \in Hushed
    <3>1. transcript[at] \in Hushed /\ text \in 0..MaxLines
      BY <1>3, <2>1, RoomAssumption
    <3>. QED  BY <2>1, <2>2, <3>1 DEF Hushed, Screen!Messages, Screen!Is
  <2>4. transcript' = [transcript EXCEPT ![at] = m]
    BY <1>2, <1>5, <2>2
  <2>5. transcript' \in Seq(Hushed) /\ Len(transcript') >= Len(transcript)
    BY <1>3, <2>1, <2>3, <2>4
  <2>. QED  BY <1>2, <1>3, <2>5, MessagesCome
<1>. QED  BY <1>4, <1>5

\* What takes the placeholder's place is an answer, if anything does.
LEMMA TranscriptFinalize ==
  ASSUME ScreenInv, TranscriptInv, NEW answer \in BOOLEAN, Screen!FinalizeStreamingBlock(answer)
  PROVE  TranscriptInv'
<1>1. PICK at, rest, last :
        /\ rest = IF at = Screen!None THEN transcript ELSE Screen!RemoveAt(transcript, at)
        /\ last = IF answer THEN <<[role |-> "assistant", text |-> MaxLines]>> ELSE <<>>
        /\ at # Screen!None => at \in 1..Len(transcript)
        /\ transcript' = rest \o last
  BY FinalizeIs
<1>2. kept' = kept /\ shortened' = Screen!Shorter(transcript')
  BY DEF Screen!FinalizeStreamingBlock
<1>3. transcript \in Seq(Hushed) /\ kept \in Seq(Nat)
  BY DEF TranscriptInv, ScreenInv, ScreenTypes
<1>4. last \in Seq(Hushed)
  <2>1. PICK m : m = [role |-> "assistant", text |-> MaxLines]
    OBVIOUS
  <2>2. MaxLines \in 0..MaxLines
    BY RoomAssumption
  <2>3. m \in Hushed
    BY <2>1, <2>2 DEF Hushed, Screen!Messages
  <2>. QED  BY <1>1, <2>1, <2>3
<1>5. rest \in Seq(Hushed)
  BY <1>1, <1>3, OneLess
<1>6. transcript' \in Seq(Hushed)
  BY <1>1, <1>4, <1>5
<1>. QED  BY <1>2, <1>3, <1>6, MessagesGo

\* An output is printed after all messages.
LEMMA TranscriptLog ==
  ASSUME ScreenInv, TranscriptInv, Screen!Log
  PROVE  TranscriptInv'
<1>1. /\ kept' = Append(kept, Len(transcript)) /\ UNCHANGED <<transcript, shortened>>
  BY DEF Screen!Log
<1>2. transcript \in Seq(Hushed) /\ kept \in Seq(Nat) /\ Len(transcript) \in Nat
  BY DEF TranscriptInv, ScreenInv, ScreenTypes
<1>3. ~shortened => Tidy(kept') /\ Within(kept', Len(transcript))
  BY <1>1, <1>2, OutputsCome DEF TranscriptInv
<1>. QED  BY <1>1, <1>2, <1>3 DEF TranscriptInv

\* Messages that are taken back may leave outputs behind.
LEMMA TranscriptRemove ==
  ASSUME ScreenInv, TranscriptInv, NEW count \in 0..MaxMessages, Screen!RemoveMessagesAfter(count)
  PROVE  TranscriptInv'
<1>1. /\ count < Len(transcript) /\ transcript' = SubSeq(transcript, 1, count)
      /\ kept' = kept /\ shortened' = Screen!Shorter(transcript')
  BY DEF Screen!RemoveMessagesAfter
<1>2. transcript \in Seq(Hushed) /\ kept \in Seq(Nat)
  BY DEF TranscriptInv, ScreenInv, ScreenTypes
<1>3. transcript' \in Seq(Hushed)
  <2>1. count \in 0..Len(transcript)
    BY <1>1, <1>2, RoomAssumption
  <2>. QED  BY <1>1, <1>2, <2>1, PrefixIs
<1>. QED  BY <1>1, <1>2, <1>3, MessagesGo

\* A reset leaves neither messages nor outputs.
LEMMA TranscriptReset ==
  ASSUME Screen!ResetAll
  PROVE  TranscriptInv'
<1>1. transcript' = <<>> /\ kept' = <<>>
  BY DEF Screen!ResetAll
<1>2. transcript' \in Seq(Hushed) /\ Len(kept') = 0
  BY <1>1
<1>. QED  BY <1>2 DEF TranscriptInv, Tidy, Within

\* Every operation of the conversation keeps what is known of its messages.
LEMMA TranscriptStays == ScreenInv /\ TranscriptInv /\ [Screen!Next]_(Screen!vars) => TranscriptInv'
<1>. SUFFICES ASSUME ScreenInv, TranscriptInv, [Screen!Next]_(Screen!vars)  PROVE TranscriptInv'
  OBVIOUS
<1>0. MaxLines \in Nat \ {0}
  BY RoomAssumption
<1>1. CASE Screen!AddUserMessage
  BY <1>0, <1>1, TranscriptAdd DEF Screen!AddUserMessage
<1>2. CASE Screen!AddAssistantMessage
  BY <1>0, <1>2, TranscriptAdd DEF Screen!AddAssistantMessage
<1>3. CASE Screen!AddSystemMessage
  BY <1>0, <1>3, TranscriptAdd DEF Screen!AddSystemMessage
<1>4. CASE Screen!StartStreamingBlock
  BY <1>4, TranscriptStart
<1>5. CASE \E text \in 1..MaxLines : Screen!UpdateStreamingBlock(text)
  BY <1>5, TranscriptUpdate
<1>6. CASE \E answer \in BOOLEAN : Screen!FinalizeStreamingBlock(answer)
  BY <1>6, TranscriptFinalize
<1>7. CASE Screen!Log
  BY <1>7, TranscriptLog
<1>8. CASE UNCHANGED <<transcript, kept, shortened>>
  BY <1>8 DEF TranscriptInv
<1>9. CASE \E count \in 0..MaxMessages : Screen!RemoveMessagesAfter(count)
  BY <1>9, TranscriptRemove
<1>10. CASE Screen!ResetAll
  BY <1>10, TranscriptReset
<1>11. Screen!Flush \/ Screen!Resize \/ UNCHANGED Screen!vars => UNCHANGED <<transcript, kept, shortened>>
  BY DEF Screen!Flush, Screen!Resize, Screen!vars
<1>. QED  BY <1>1, <1>2, <1>3, <1>4, <1>5, <1>6, <1>7, <1>8, <1>9, <1>10, <1>11 DEF Screen!Next

\* It is known at every state, with what is known of the screen.
LEMMA TranscriptHolds == Screen!Spec => [](ScreenInv /\ TranscriptInv)
<1>1. Screen!Init => TranscriptInv
  BY TranscriptStarts
<1>2. ScreenInv /\ TranscriptInv /\ [Screen!Next]_(Screen!vars) => TranscriptInv'
  BY TranscriptStays
<1>. QED  BY <1>1, <1>2, ScreenHolds, PTL DEF Screen!Spec

\* Notices are silent.
LEMMA HushedIsSilent ==
  ASSUME NEW msgs \in Seq(Hushed)
  PROVE  msgs \in Texts /\ Silent(msgs)
<1>1. \A i \in DOMAIN msgs : msgs[i] \in Hushed
  OBVIOUS
<1>2. \A m \in Hushed : m \in Screen!Messages /\ (m.role = "notice" => m.text = 0)
  BY DEF Hushed
<1>3. msgs \in Texts
  BY <1>2 DEF Texts
<1>. QED  BY <1>1, <1>2, <1>3 DEF Silent, Screen!Is

\* A splash says nothing, and neither do notices alone.
LEMMA SplashSaysNothing ==
  ASSUME NEW w, w \in {1, 2}, NEW msgs \in Texts, Silent(msgs),
         \A i \in DOMAIN msgs : Screen!Is(msgs, i, "notice")
  PROVE  /\ Screen!TextsOf(<<Screen!Line("splash", 0, 0)>>) = <<>>
         /\ AllSaid(w, msgs) = <<>>
<1>1. Screen!TextsOf(<<Screen!Line("splash", 0, 0)>>) = <<>>
  <2>1. Screen!Line("splash", 0, 0) \in Lines /\ Screen!Line("splash", 0, 0).of # "text"
    BY DEF Screen!Line, Lines
  <2>2. PICK a \in Seq(Lines) : /\ a = <<Screen!Line("splash", 0, 0)>> /\ Len(a) = 1
                                /\ a[1] = Screen!Line("splash", 0, 0)
    <3>1. PICK x \in Lines : x = Screen!Line("splash", 0, 0)
      BY <2>1
    <3>2. <<x>> \in Seq(Lines) /\ Len(<<x>>) = 1 /\ <<x>>[1] = x
      OBVIOUS
    <3>. QED  BY <3>1, <3>2
  <2>3. \A l \in 1..Len(a) : a[l].of # "text"
    BY <2>1, <2>2
  <2>. QED  BY <2>2, <2>3, TextsNone
<1>2. PICK size \in Nat : size = Len(msgs) /\ DOMAIN msgs = 1..size /\ size \in 0..Len(msgs)
  BY DEF Texts
<1>3. \A i \in DOMAIN msgs : Screen!TextLines(w, i, msgs[i].text) = <<>>
  <2>1. \A i \in DOMAIN msgs : msgs[i].text = 0
    BY DEF Silent
  <2>. QED  BY <2>1, SilentText
<1>4. PICK e \in Seq(Seq(Lines)) : e = [i \in DOMAIN msgs |-> Screen!TextLines(w, i, msgs[i].text)]
  <2>1. [i \in DOMAIN msgs |-> Screen!TextLines(w, i, msgs[i].text)] = [i \in 1..size |-> <<>>]
    BY <1>2, <1>3
  <2>2. [i \in 1..size |-> <<>>] \in Seq(Seq(Lines))
    BY <1>2, NoTexts
  <2>. QED  BY <2>1, <2>2
<1>5. Len(e) = size /\ \A i \in 1..size : e[i] = <<>>
  BY <1>2, <1>3, <1>4
<1>6. Screen!FlattenSeq(e) = <<>>
  BY <1>5, FlattenNone
<1>. QED  BY <1>1, <1>4, <1>6 DEF AllSaid

\* What a screen that needs no rebuild says of texts and outputs.
LEMMA ShownIsTranscript == ScreenInv /\ TranscriptInv => Screen!EachTextOnce /\ Screen!PrintsInPlace
<1>. SUFFICES ASSUME ScreenInv, TranscriptInv, Screen!Calm
              PROVE  Screen!EachTextOnce /\ Screen!PrintsInPlace
  BY DEF Screen!EachTextOnce, Screen!PrintsInPlace
<1>1. PICK w : w = width /\ w \in {1, 2}
  BY DEF ScreenInv, ScreenTypes
<1>2. PICK outputs \in Seq(Nat) : outputs = kept
  BY DEF ScreenInv, ScreenTypes
<1>3. PICK msgs \in Texts : msgs = transcript /\ Silent(msgs)
  BY HushedIsSilent DEF TranscriptInv
<1>4. PICK tidy \in BOOLEAN : tidy = ~shortened
  OBVIOUS
<1>5. tidy => Tidy(outputs)
  BY <1>2, <1>4 DEF TranscriptInv
<1>6. view.width = w /\ Shown(view, msgs, outputs)
  BY <1>1, <1>2, <1>3 DEF ScreenInv, CleanIsShown, Screen!Calm, Screen!Clean
<1>7. PICK all : all = view.lines
  OBVIOUS
<1>8. CASE Quiet(msgs, outputs)
  <2>1. all = <<Screen!Line("splash", 0, 0)>> /\ outputs = <<>>
    BY <1>6, <1>7, <1>8 DEF Shown, Quiet
  <2>2. Screen!TextsOf(all)
        = AllSaid(w, msgs)
    BY <1>1, <1>3, <1>8, <2>1, SplashSaysNothing DEF Quiet
  <2>3. DOMAIN kept = {}
    BY <1>2, <2>1
  <2>. QED  BY <1>1, <1>3, <1>7, <2>2, <2>3 DEF Screen!EachTextOnce, Screen!PrintsInPlace, AllSaid
<1>9. CASE ~Quiet(msgs, outputs)
  <2>1. PICK at \in Nat : /\ at = Screen!StreamingAt(view, msgs) /\ Placed(msgs, at)
                          /\ at = Screen!None \/ at = Len(msgs)
    BY StreamingPlace
  <2>2. PICK drawn : drawn = Cold(outputs, w, msgs, at)
    OBVIOUS
  <2>3. Stacked(view, msgs, outputs, at, drawn)
    BY <1>6, <1>9, <2>1, <2>2 DEF Shown
  <2>4. all = (drawn.lines \o Streamed(w, msgs, at)) \o Screen!Printed(drawn.next, Len(outputs))
    BY <1>6, <1>7, <2>3 DEF Stacked
  <2>5. /\ all \in Seq(Lines)
        /\ Screen!TextsOf(all)
           = AllSaid(w, msgs)
        /\ Ordered(outputs, Screen!Heads(msgs), tidy, all)
        /\ Tells(all, Len(outputs) + 1)
    <3>1. Stack(outputs, w, msgs, at, tidy, drawn, all)
      BY <1>1, <1>2, <1>3, <1>4, <1>5, <2>1, <2>2, <2>4 DEF Stack
    <3>. QED  BY <3>1, StackInPlace, Zenon
  <2>6. Screen!EachTextOnce
    BY <1>1, <1>3, <1>7, <2>5 DEF Screen!EachTextOnce, AllSaid
  <2>7. \A k \in DOMAIN outputs : InItsPlace(outputs, Screen!Heads(msgs), tidy, all, k)
    <3>1. \A k \in DOMAIN outputs : k \in 1..((Len(outputs) + 1) - 1)
      OBVIOUS
    <3>. QED  BY <2>5, <3>1, OrderIsPlace
  <2>8. Screen!PrintsInPlace
    BY <1>2, <1>3, <1>4, <1>7, <2>7, Zenon DEF Screen!PrintsInPlace, InItsPlace
  <2>. QED  BY <2>6, <2>8
<1>. QED  BY <1>8, <1>9

\* The lines on the screen are those of the transcript, each text once and whole, and of
\* what was printed in it, "again in the same place on every rebuild", for any transcript
\* and at every state but the one ShownStaysAsRebuilt leaves out: a block is open whose
\* placeholder was displaced (conversation-line-cache.ts, conversation-display-only.ts).
THEOREM ScreenStaysTheTranscript == Screen!Spec => []ScreenIsTranscript
<1>1. ScreenInv /\ TranscriptInv => ScreenIsTranscript
  BY ShownIsRebuilt, ShownIsTranscript DEF ScreenIsTranscript
<1>. QED  BY <1>1, TranscriptHolds, PTL
=============================================================================
