------------------------ MODULE TerminalSystemProofs ------------------------
(***************************************************************************)
(* A terminal and the worker behind it, for chains of any length, any keys *)
(* and sizes, and however much is typed: the types, that only keys the     *)
(* user approved are learned, that transports are closed in order, and     *)
(* that input reaches the shell once and in order.                         *)
(***************************************************************************)
EXTENDS TerminalSystem, FiniteSetTheorems, SequenceTheorems, WellFoundedInduction, TLAPS

-----------------------------------------------------------------------------
(* Numbers and sequences.                                                  *)

\* Induction on the naturals, without a predicate as a parameter.
LEMMA LeastNatural ==
  ASSUME NEW T, T \subseteq Nat, T # {}
  PROVE  \E x \in T : \A y \in T : x <= y
<1> DEFINE R == {ss \in Nat \X Nat : ss[1] < ss[2]}
<1>1. OpToRel(<, Nat) = R
  BY Zenon DEF OpToRel
<1>2. IsWellFoundedOn(R, Nat)
  BY Zenon, <1>1, NatLessThanWellFounded
<1>3. \A x, y \in Nat : <<y, x>> \in R <=> y < x
  OBVIOUS
<1> HIDE DEF R
<1>4. PICK x \in T : \A y \in T : ~ (<<y, x>> \in R)
  BY <1>2, WFMin
<1>5. \A y \in T : ~ (y < x)
  BY <1>3, <1>4
<1>6. \A y \in T : x <= y
  BY <1>5
<1> QED BY <1>6

LEMMA MaxIs ==
  ASSUME NEW n \in Nat, NEW S, S \subseteq 0..n, S # {}
  PROVE  Max(S) \in S /\ \A y \in S : y <= Max(S)
<1> DEFINE T == {n - y : y \in S}
<1>1. PICK s \in S : TRUE
  OBVIOUS
<1>2. T \subseteq Nat /\ n - s \in T
  BY <1>1
<1>3. PICK t \in T : \A y \in T : t <= y
  BY <1>2, LeastNatural
<1>4. PICK x \in S : t = n - x
  OBVIOUS
<1>5. \A y \in S : x >= y
  BY <1>3, <1>4
<1>6. \E z \in S : \A y \in S : z >= y
  BY <1>5
<1>7. Max(S) \in S /\ \A y \in S : Max(S) >= y
  BY <1>6 DEF Max
<1> QED BY <1>7

Commands == [kind : {"Input"}, n : Nat \ {0}] \cup [kind : {"Resize"}, size : Sizes]
              \cup [kind : {"Disconnect"}]

LEMMA CommandFacts ==
  ASSUME NEW command \in Commands
  PROVE  /\ command.kind \in {"Input", "Resize", "Disconnect"}
         /\ command.kind = "Input" => command.n \in Nat \ {0}
         /\ command.kind = "Resize" => command.size \in Sizes
BY DEF Commands

LEMMA AppendIs ==
  ASSUME NEW S, NEW u \in Seq(S), NEW x \in S
  PROVE  Append(u, x) = u \o <<x>> /\ <<x>> \in Seq(S)
OBVIOUS

LEMMA NumbersConcat ==
  ASSUME NEW u \in Seq(Nat), NEW z \in Seq(Nat), NEW v \in Seq(Nat)
  PROVE  (u \o z) \o v = u \o (z \o v)
BY ConcatAssociative

\* A number that joins a sequence at the end joins it behind whatever precedes it.
LEMMA AppendBehind ==
  ASSUME NEW S, NEW u \in Seq(S), NEW v \in Seq(S), NEW x \in S
  PROVE  u \o Append(v, x) = Append(u \o v, x)
<1>1. <<x>> \in Seq(S)
  OBVIOUS
<1>2. Append(v, x) = v \o <<x>>
  OBVIOUS
<1>3. Append(u \o v, x) = (u \o v) \o <<x>>
  OBVIOUS
<1>4. (u \o v) \o <<x>> = u \o (v \o <<x>>)
  BY <1>1, ConcatAssociative
<1> QED BY <1>2, <1>3, <1>4

\* The first m places of a stream hold 1 to n, once and in order, and zeros.
Rising(s, m, n) ==
  /\ \A i \in 1..m : s[i] \in 0..n
  /\ \A k \in 1..n : \E i \in 1..m : s[i] = k
  /\ \A i, j \in 1..m : i < j /\ s[i] # 0 /\ s[j] # 0 => s[i] < s[j]

LEMMA OrderedRising ==
  ASSUME NEW s \in Seq(Nat), NEW n \in Nat
  PROVE  Ordered(s, n) <=> Rising(s, Len(s), n)
<1>1. DOMAIN s = 1..Len(s) /\ \A i \in 1..Len(s) : s[i] \in Nat
  OBVIOUS
<1>2. ASSUME {s[i] : i \in 1..Len(s)} \ {0} = 1..n
      PROVE  \A i \in 1..Len(s) : s[i] \in 0..n
  <2> TAKE i \in 1..Len(s)
  <2>1. s[i] = 0 \/ s[i] \in 1..n
    BY <1>2
  <2> QED BY <2>1
<1>3. ASSUME {s[i] : i \in 1..Len(s)} \ {0} = 1..n
      PROVE  \A k \in 1..n : \E i \in 1..Len(s) : s[i] = k
  BY <1>3
<1>4. ASSUME \A i \in 1..Len(s) : s[i] \in 0..n, \A k \in 1..n : \E i \in 1..Len(s) : s[i] = k
      PROVE  {s[i] : i \in 1..Len(s)} \ {0} = 1..n
  <2>1. {s[i] : i \in 1..Len(s)} \ {0} \subseteq 1..n
    BY <1>4
  <2>2. 1..n \subseteq {s[i] : i \in 1..Len(s)} \ {0}
    BY <1>4
  <2> QED BY <2>1, <2>2
<1> QED BY <1>1, <1>2, <1>3, <1>4 DEF Ordered, Rising, Hook

LEMMA RisingNext ==
  ASSUME NEW m \in Nat, NEW n \in Nat, NEW s, NEW t, Rising(s, m, n),
         \A i \in 1..m : t[i] = s[i], t[m + 1] = n + 1
  PROVE  Rising(t, m + 1, n + 1)
<1>1. \A i \in 1..(m + 1) : i \in 1..m \/ i = m + 1
  OBVIOUS
<1>2. ASSUME NEW i \in 1..(m + 1) PROVE t[i] \in 0..(n + 1)
  BY <1>1 DEF Rising
<1>3. ASSUME NEW k \in 1..(n + 1) PROVE \E i \in 1..(m + 1) : t[i] = k
  <2>1. CASE k = n + 1
    BY <2>1
  <2>2. CASE k # n + 1
    <3>1. PICK i \in 1..m : s[i] = k
      BY <2>2 DEF Rising
    <3> QED BY <3>1
  <2> QED BY <2>1, <2>2
<1>4. ASSUME NEW i \in 1..(m + 1), NEW j \in 1..(m + 1), i < j, t[i] # 0, t[j] # 0
      PROVE  t[i] < t[j]
  <2>1. i \in 1..m
    BY <1>4
  <2>2. CASE j \in 1..m
    BY <1>4, <2>1, <2>2 DEF Rising
  <2>3. CASE j = m + 1
    BY <2>1, <2>3 DEF Rising
  <2> QED BY <1>1, <2>2, <2>3
<1> QED BY <1>2, <1>3, <1>4 DEF Rising

\* The next piece joins at the end.
LEMMA OrderedNext ==
  ASSUME NEW s \in Seq(Nat), NEW n \in Nat, Ordered(s, n)
  PROVE  Ordered(Append(s, n + 1), n + 1)
<1>1. PICK t : t = Append(s, n + 1)
  OBVIOUS
<1>2. t \in Seq(Nat) /\ Len(t) = Len(s) + 1 /\ Len(s) \in Nat
  BY <1>1
<1>3. t[Len(s) + 1] = n + 1 /\ \A i \in 1..Len(s) : t[i] = s[i]
  BY <1>1
<1>4. Rising(s, Len(s), n)
  BY OrderedRising
<1>5. Rising(t, Len(s) + 1, n + 1)
  BY <1>2, <1>3, <1>4, RisingNext
<1>6. n + 1 \in Nat
  OBVIOUS
<1>7. Ordered(t, n + 1) <=> Rising(t, Len(t), n + 1)
  BY <1>2, <1>6, OrderedRising
<1> QED BY <1>1, <1>2, <1>5, <1>7

\* Zeros in between say nothing.
LEMMA RisingAround ==
  ASSUME NEW a \in Nat, NEW k \in Nat, NEW b \in Nat, NEW n \in Nat, NEW s, NEW t,
         \A i \in 1..a : t[i] = s[i],
         \A i \in (a + 1)..(a + k) : t[i] = 0,
         \A i \in (a + 1)..(a + b) : t[i + k] = s[i]
  PROVE  Rising(s, a + b, n) <=> Rising(t, (a + k) + b, n)
<1>1. \A i \in 1..(a + b) : i \in 1..a \/ i \in (a + 1)..(a + b)
  OBVIOUS
<1>2. \A i \in 1..((a + k) + b) :
        \/ i \in 1..a
        \/ i \in (a + 1)..(a + k)
        \/ i - k \in (a + 1)..(a + b)
  OBVIOUS
<1>3. PICK f : f = [i \in 1..(a + b) |-> IF i <= a THEN i ELSE i + k]
  OBVIOUS
<1>4. ASSUME NEW i \in 1..(a + b)
      PROVE  f[i] \in 1..((a + k) + b) /\ t[f[i]] = s[i]
             /\ f[i] = IF i <= a THEN i ELSE i + k
  <2>1. CASE i <= a
    <3>1. f[i] = i /\ i \in 1..a
      BY <1>3, <2>1
    <3> QED BY <2>1, <3>1
  <2>2. CASE i > a
    <3>1. f[i] = i + k /\ i \in (a + 1)..(a + b)
      BY <1>3, <2>2
    <3> QED BY <2>2, <3>1
  <2> QED BY <2>1, <2>2
<1>5. ASSUME NEW j \in 1..((a + k) + b), t[j] # 0
      PROVE  \E i \in 1..(a + b) : f[i] = j /\ s[i] = t[j]
  <2>1. CASE j \in 1..a
    <3>1. j \in 1..(a + b) /\ j <= a
      BY <2>1
    <3> QED BY <1>4, <2>1, <3>1
  <2>2. CASE j - k \in (a + 1)..(a + b)
    <3>1. j - k \in 1..(a + b) /\ ~ (j - k <= a) /\ (j - k) + k = j
      BY <2>2
    <3>2. f[j - k] = j
      BY <1>4, <3>1
    <3> QED BY <1>4, <3>1, <3>2
  <2> QED BY <1>2, <1>5, <2>1, <2>2
<1>6. ASSUME NEW i \in 1..(a + b), NEW j \in 1..(a + b)
      PROVE  i < j <=> f[i] < f[j]
  BY <1>4
<1>7. ASSUME Rising(s, a + b, n) PROVE Rising(t, (a + k) + b, n)
  <2>1. ASSUME NEW j \in 1..((a + k) + b) PROVE t[j] \in 0..n
    <3>1. CASE t[j] = 0
      BY <3>1
    <3>2. CASE t[j] # 0
      <4>1. PICK i \in 1..(a + b) : s[i] = t[j]
        BY <1>5, <3>2
      <4> QED BY <1>7, <4>1 DEF Rising
    <3> QED BY <3>1, <3>2
  <2>2. ASSUME NEW l \in 1..n PROVE \E j \in 1..((a + k) + b) : t[j] = l
    <3>1. PICK i \in 1..(a + b) : s[i] = l
      BY <1>7 DEF Rising
    <3> QED BY <1>4, <3>1
  <2>3. ASSUME NEW i \in 1..((a + k) + b), NEW j \in 1..((a + k) + b), i < j,
               t[i] # 0, t[j] # 0
        PROVE  t[i] < t[j]
    <3>1. PICK x \in 1..(a + b) : f[x] = i /\ s[x] = t[i]
      BY <1>5, <2>3
    <3>2. PICK y \in 1..(a + b) : f[y] = j /\ s[y] = t[j]
      BY <1>5, <2>3
    <3>3. x < y
      BY <1>6, <2>3, <3>1, <3>2
    <3> QED BY <1>7, <2>3, <3>1, <3>2, <3>3 DEF Rising
  <2> QED BY <2>1, <2>2, <2>3 DEF Rising
<1>8. ASSUME Rising(t, (a + k) + b, n) PROVE Rising(s, a + b, n)
  <2>1. ASSUME NEW i \in 1..(a + b) PROVE s[i] \in 0..n
    BY <1>4, <1>8 DEF Rising
  <2>2. ASSUME NEW l \in 1..n PROVE \E i \in 1..(a + b) : s[i] = l
    <3>1. PICK j \in 1..((a + k) + b) : t[j] = l
      BY <1>8 DEF Rising
    <3> QED BY <1>5, <3>1
  <2>3. ASSUME NEW i \in 1..(a + b), NEW j \in 1..(a + b), i < j, s[i] # 0, s[j] # 0
        PROVE  s[i] < s[j]
    <3>1. f[i] < f[j]
      BY <1>6, <2>3
    <3> QED BY <1>4, <1>8, <2>3, <3>1 DEF Rising
  <2> QED BY <2>1, <2>2, <2>3 DEF Rising
<1> QED BY <1>7, <1>8

LEMMA OrderedAround ==
  ASSUME NEW u \in Seq(Nat), NEW z \in Seq({0}), NEW v \in Seq(Nat), NEW n \in Nat
  PROVE  Ordered(u \o v, n) <=> Ordered((u \o z) \o v, n)
<1>1. z \in Seq(Nat)
  BY SeqMonotonic
<1>2. PICK a \in Nat, k \in Nat, b \in Nat : a = Len(u) /\ k = Len(z) /\ b = Len(v)
  OBVIOUS
<1>3. PICK s : s = u \o v
  OBVIOUS
<1>4. PICK w : w = u \o z
  OBVIOUS
<1>5. PICK t : t = w \o v
  OBVIOUS
<1>6. /\ s \in Seq(Nat) /\ Len(s) = a + b
      /\ \A i \in 1..(a + b) : s[i] = IF i <= a THEN u[i] ELSE v[i - a]
  BY <1>2, <1>3, ConcatProperties
<1>7. /\ w \in Seq(Nat) /\ Len(w) = a + k
      /\ \A i \in 1..(a + k) : w[i] = IF i <= a THEN u[i] ELSE z[i - a]
  BY <1>1, <1>2, <1>4, ConcatProperties
<1>8. /\ t \in Seq(Nat) /\ Len(t) = (a + k) + b
      /\ \A i \in 1..((a + k) + b) : t[i] = IF i <= a + k THEN w[i] ELSE v[i - (a + k)]
  <2>1. /\ w \o v \in Seq(Nat)
        /\ Len(w \o v) = Len(w) + Len(v)
        /\ \A i \in 1..(Len(w) + Len(v)) : (w \o v)[i] =
             IF i <= Len(w) THEN w[i] ELSE v[i - Len(w)]
    BY <1>7, ConcatProperties
  <2> QED BY <1>2, <1>5, <1>7, <2>1
<1>9. \A i \in 1..k : z[i] = 0
  BY <1>2
<1>10. ASSUME NEW i \in 1..a PROVE t[i] = s[i]
  <2>1. i \in 1..(a + k) /\ i \in 1..(a + b) /\ i \in 1..((a + k) + b) /\ i <= a /\ i <= a + k
    OBVIOUS
  <2> QED BY <1>6, <1>7, <1>8, <2>1
<1>11. ASSUME NEW i \in (a + 1)..(a + k) PROVE t[i] = 0
  <2>1. i \in 1..(a + k) /\ i \in 1..((a + k) + b) /\ ~ (i <= a) /\ i <= a + k /\ i - a \in 1..k
    OBVIOUS
  <2> QED BY <1>7, <1>8, <1>9, <2>1
<1>12. ASSUME NEW i \in (a + 1)..(a + b) PROVE t[i + k] = s[i]
  <2>1. /\ i \in 1..(a + b) /\ i + k \in 1..((a + k) + b) /\ ~ (i <= a) /\ ~ (i + k <= a + k)
        /\ (i + k) - (a + k) = i - a
    OBVIOUS
  <2> QED BY <1>6, <1>8, <2>1
<1>13. Rising(s, a + b, n) <=> Rising(t, (a + k) + b, n)
  BY <1>10, <1>11, <1>12, RisingAround
<1>14. Ordered(s, n) <=> Rising(s, Len(s), n)
  BY <1>6, OrderedRising
<1>15. Ordered(t, n) <=> Rising(t, Len(t), n)
  BY <1>8, OrderedRising
<1> QED BY <1>3, <1>4, <1>5, <1>6, <1>8, <1>13, <1>14, <1>15

\* What a place of the stream stands for.
Number(command) == IF command.kind = "Input" THEN command.n ELSE Hook

Numbers(queue) == [i \in DOMAIN queue |-> Number(queue[i])]

StreamOf(typing, queue) == typing \o Numbers(queue)

LEMMA NumberIs ==
  ASSUME NEW command \in Commands
  PROVE  Number(command) \in Nat
BY CommandFacts DEF Number, Hook

LEMMA NumbersAre ==
  ASSUME NEW queue \in Seq(Commands)
  PROVE  /\ Numbers(queue) \in Seq(Nat)
         /\ Len(Numbers(queue)) = Len(queue)
         /\ \A i \in 1..Len(queue) : Numbers(queue)[i] = Number(queue[i])
<1>1. \A i \in 1..Len(queue) : Number(queue[i]) \in Nat
  <2> TAKE i \in 1..Len(queue)
  <2>1. queue[i] \in Commands
    OBVIOUS
  <2> QED BY <2>1, NumberIs
<1>2. DOMAIN queue = 1..Len(queue) /\ Len(queue) \in Nat
  BY SMTT(15)
<1>3. PICK m \in Nat : m = Len(queue)
  BY <1>2
<1>4. PICK s : s = [i \in 1..m |-> Number(queue[i])]
  OBVIOUS
<1>5. s \in [1..m -> Nat]
  BY <1>1, <1>3, <1>4
<1>6. s \in Seq(Nat) /\ Len(s) = m
  BY <1>5
<1>7. Numbers(queue) = s
  BY <1>2, <1>3, <1>4 DEF Numbers
<1> QED BY <1>3, <1>4, <1>6, <1>7

LEMMA StreamIsSeq ==
  ASSUME NEW typing \in Seq(Nat), NEW queue \in Seq(Commands)
  PROVE  StreamOf(typing, queue) \in Seq(Nat)
BY NumbersAre DEF StreamOf

\* A command joins at the end of the stream.
LEMMA StreamAppend ==
  ASSUME NEW typing \in Seq(Nat), NEW queue \in Seq(Commands), NEW command \in Commands
  PROVE  StreamOf(typing, Append(queue, command)) =
           Append(StreamOf(typing, queue), Number(command))
<1>1. PICK longer : longer = Append(queue, command)
  OBVIOUS
<1>2. PICK r : r = Append(Numbers(queue), Number(command))
  OBVIOUS
<1>3. longer \in Seq(Commands) /\ Len(longer) = Len(queue) + 1
  BY <1>1
<1>4. longer[Len(queue) + 1] = command /\ \A i \in 1..Len(queue) : longer[i] = queue[i]
  BY <1>1
<1>5. PICK q : q = Numbers(queue)
  OBVIOUS
<1>6. q \in Seq(Nat) /\ Len(q) = Len(queue) /\ \A i \in 1..Len(queue) : q[i] = Number(queue[i])
  BY <1>5, NumbersAre
<1>7. Number(command) \in Nat
  BY NumberIs
<1>8. r \in Seq(Nat) /\ Len(r) = Len(q) + 1
  BY <1>2, <1>5, <1>6, <1>7
<1>9. r[Len(q) + 1] = Number(command) /\ \A i \in 1..Len(q) : r[i] = q[i]
  BY <1>2, <1>5, <1>6, <1>7
<1>10. PICK l : l = Numbers(longer)
  OBVIOUS
<1>11. /\ l \in Seq(Nat) /\ Len(l) = Len(longer)
       /\ \A i \in 1..Len(longer) : l[i] = Number(longer[i])
  BY <1>3, <1>10, NumbersAre
<1>12. PICK m \in Nat : m = Len(queue)
  OBVIOUS
<1>13. ASSUME NEW i \in 1..(m + 1) PROVE l[i] = r[i]
  <2>1. CASE i = m + 1
    BY <1>3, <1>4, <1>6, <1>9, <1>11, <1>12, <2>1
  <2>2. CASE i \in 1..m
    BY <1>3, <1>4, <1>6, <1>9, <1>11, <1>12, <2>2
  <2> QED BY <2>1, <2>2
<1>14. Len(l) = m + 1 /\ Len(r) = m + 1
  BY <1>3, <1>6, <1>8, <1>11, <1>12
<1>15. l = r
  BY <1>8, <1>11, <1>13, <1>14, SeqEqual
<1>16. typing \o r = Append(typing \o q, Number(command))
  BY <1>2, <1>5, <1>6, <1>7, AppendBehind
<1> QED BY <1>1, <1>5, <1>10, <1>15, <1>16 DEF StreamOf

\* The command at the head of the queue is typed: the stream is what it was.
LEMMA StreamTyped ==
  ASSUME NEW typing \in Seq(Nat), NEW queue \in Seq(Commands), queue # <<>>
  PROVE  StreamOf(Append(typing, Number(Head(queue))), Tail(queue)) = StreamOf(typing, queue)
<1>1. PICK rest : rest = Tail(queue)
  OBVIOUS
<1>2. PICK m \in Nat : m = Len(rest)
  BY <1>1
<1>3. rest \in Seq(Commands) /\ Len(queue) = m + 1
      /\ Head(queue) = queue[1] /\ Head(queue) \in Commands
      /\ \A i \in 1..m : rest[i] = queue[i + 1]
  BY <1>1, <1>2, HeadTailProperties
<1>4. PICK x \in Nat : x = Number(Head(queue))
  BY <1>3, NumberIs
<1>5. PICK r : r = Numbers(rest)
  OBVIOUS
<1>6. r \in Seq(Nat) /\ Len(r) = m /\ \A i \in 1..m : r[i] = Number(rest[i])
  BY <1>2, <1>3, <1>5, NumbersAre
<1>7. PICK q : q = Numbers(queue)
  OBVIOUS
<1>8. q \in Seq(Nat) /\ Len(q) = m + 1 /\ \A i \in 1..(m + 1) : q[i] = Number(queue[i])
  BY <1>3, <1>7, NumbersAre
<1>9. <<x>> \in Seq(Nat) /\ Len(<<x>>) = 1 /\ <<x>>[1] = x
  BY AppendIs
<1>10. PICK c : c = <<x>> \o r
  OBVIOUS
<1>11. /\ c \in Seq(Nat) /\ Len(c) = 1 + m
       /\ \A i \in 1..(1 + m) : c[i] = IF i <= 1 THEN <<x>>[i] ELSE r[i - 1]
  BY <1>6, <1>9, <1>10, ConcatProperties
<1>12. ASSUME NEW i \in 1..(m + 1) PROVE c[i] = q[i]
  <2>1. CASE i = 1
    BY <1>3, <1>4, <1>8, <1>9, <1>11, <2>1
  <2>2. CASE i # 1
    <3>1. i - 1 \in 1..m /\ (i - 1) + 1 = i /\ ~ (i <= 1)
      BY <2>2
    <3>2. c[i] = r[i - 1]
      BY <1>11, <3>1
    <3>3. r[i - 1] = Number(queue[i])
      BY <1>3, <1>6, <3>1
    <3> QED BY <1>8, <3>2, <3>3
  <2> QED BY <2>1, <2>2
<1>13. c = q
  BY <1>8, <1>11, <1>12, SeqEqual
<1>14. Append(typing, x) = typing \o <<x>>
  BY AppendIs
<1>15. (typing \o <<x>>) \o r = typing \o c
  BY <1>6, <1>9, <1>10, ConcatAssociative
<1> QED BY <1>1, <1>4, <1>5, <1>7, <1>13, <1>14, <1>15 DEF StreamOf

\* Commands that are no input are taken from the head of the queue.
LEMMA StreamDropped ==
  ASSUME NEW typing \in Seq(Nat), NEW queue \in Seq(Commands), NEW n \in Nat,
         NEW k \in 0..Len(queue), NEW rest \in Seq(Commands),
         \A i \in 1..k : queue[i].kind # "Input",
         Len(rest) = Len(queue) - k, \A i \in 1..Len(rest) : rest[i] = queue[i + k],
         Ordered(StreamOf(typing, queue), n)
  PROVE  Ordered(StreamOf(typing, rest), n)
<1>1. PICK m \in Nat : m = Len(rest)
  BY LenProperties
<1>2. Len(queue) = k + m
  BY <1>1
<1>3. PICK r : r = Numbers(rest)
  OBVIOUS
<1>4. r \in Seq(Nat) /\ Len(r) = m /\ \A i \in 1..m : r[i] = Number(rest[i])
  BY <1>1, <1>3, NumbersAre
<1>5. PICK q : q = Numbers(queue)
  OBVIOUS
<1>6. q \in Seq(Nat) /\ Len(q) = k + m /\ \A i \in 1..(k + m) : q[i] = Number(queue[i])
  BY <1>2, <1>5, NumbersAre
<1>7. PICK z : z = [i \in 1..k |-> 0]
  OBVIOUS
<1>8. z \in Seq({0}) /\ Len(z) = k /\ \A i \in 1..k : z[i] = 0
  BY <1>7
<1>9. z \in Seq(Nat)
  BY <1>8, SeqMonotonic
<1>10. PICK c : c = z \o r
  OBVIOUS
<1>11. /\ c \in Seq(Nat) /\ Len(c) = k + m
       /\ \A i \in 1..(k + m) : c[i] = IF i <= k THEN z[i] ELSE r[i - k]
  <2>1. /\ z \o r \in Seq(Nat)
        /\ Len(z \o r) = Len(z) + Len(r)
        /\ \A i \in 1..(Len(z) + Len(r)) : (z \o r)[i] =
             IF i <= Len(z) THEN z[i] ELSE r[i - Len(z)]
    BY <1>4, <1>9, ConcatProperties
  <2> QED BY <1>4, <1>8, <1>10, <2>1
<1>12. ASSUME NEW i \in 1..(k + m) PROVE c[i] = q[i]
  <2>1. CASE i <= k
    <3>1. i \in 1..k
      BY <2>1
    <3>2. Number(queue[i]) = 0
      BY <3>1 DEF Number, Hook
    <3> QED BY <1>6, <1>8, <1>11, <3>1, <3>2
  <2>2. CASE i > k
    <3>1. i - k \in 1..m /\ (i - k) + k = i /\ ~ (i <= k)
      BY <2>2
    <3>2. c[i] = r[i - k]
      BY <1>11, <3>1
    <3>3. rest[i - k] = queue[i]
      BY <1>1, <3>1
    <3>4. r[i - k] = Number(queue[i])
      BY <1>4, <3>1, <3>3
    <3> QED BY <1>6, <3>2, <3>4
  <2> QED BY <2>1, <2>2
<1>13. c = q
  BY <1>6, <1>11, <1>12, SeqEqual
<1>14. (typing \o z) \o r = typing \o q
  <2>1. (typing \o z) \o r = typing \o (z \o r)
    BY <1>4, <1>9, NumbersConcat
  <2> QED BY <1>10, <1>13, <2>1
<1>15. Ordered((typing \o z) \o r, n)
  BY <1>5, <1>14 DEF StreamOf
<1>16. Ordered(typing \o r, n)
  BY <1>4, <1>8, <1>15, OrderedAround
<1> QED BY <1>3, <1>16 DEF StreamOf

\* The program types something of its own.
LEMMA StreamHooked ==
  ASSUME NEW typing \in Seq(Nat), NEW queue \in Seq(Commands), NEW n \in Nat,
         Ordered(StreamOf(typing, queue), n)
  PROVE  Ordered(StreamOf(Append(typing, Hook), queue), n)
<1>1. PICK q : q = Numbers(queue)
  OBVIOUS
<1>2. q \in Seq(Nat)
  BY <1>1, NumbersAre
<1>3. <<0>> \in Seq({0}) /\ Append(typing, Hook) = typing \o <<0>>
  BY DEF Hook
<1>4. Ordered((typing \o <<0>>) \o q, n)
  BY <1>1, <1>2, <1>3, OrderedAround DEF StreamOf
<1> QED BY <1>1, <1>3, <1>4 DEF StreamOf

\* Something that is no input is sent.
LEMMA StreamSilent ==
  ASSUME NEW typing \in Seq(Nat), NEW queue \in Seq(Commands), NEW n \in Nat,
         NEW command \in Commands, command.kind # "Input",
         Ordered(StreamOf(typing, queue), n)
  PROVE  Ordered(StreamOf(typing, Append(queue, command)), n)
<1>1. PICK s : s = StreamOf(typing, queue)
  OBVIOUS
<1>2. s \in Seq(Nat)
  BY <1>1, StreamIsSeq
<1>3. Number(command) = 0
  BY DEF Number, Hook
<1>4. StreamOf(typing, Append(queue, command)) = s \o <<0>>
  <2>1. StreamOf(typing, Append(queue, command)) = Append(s, 0)
    BY <1>1, <1>3, StreamAppend
  <2>2. Append(s, 0) = s \o <<0>>
    BY <1>2, AppendIs
  <2> QED BY <2>1, <2>2
<1>5. s \o <<>> = s /\ (s \o <<0>>) \o <<>> = s \o <<0>> /\ <<>> \in Seq(Nat) /\ <<0>> \in Seq({0})
  BY <1>2
<1>6. Ordered(s \o <<>>, n) <=> Ordered((s \o <<0>>) \o <<>>, n)
  BY <1>2, <1>5, OrderedAround
<1> QED BY <1>1, <1>4, <1>5, <1>6

LEMMA StreamIs == Stream = StreamOf(received, Inbox)
BY DEF Stream, StreamOf, Numbers, Number

\* coalesce_queued_resizes takes the resizes at the head of the queue, and what follows
\* them is kept whole.
LEMMA RunFacts ==
  ASSUME NEW queue \in Seq(Commands), queue # <<>>, Head(queue).kind = "Resize"
  PROVE  /\ ResizeRun(queue) \in 1..Len(queue)
         /\ \A i \in 1..ResizeRun(queue) : queue[i].kind = "Resize"
         /\ KeepAfterResizes(queue) \in Seq(Commands)
         /\ Len(KeepAfterResizes(queue)) <= 1
         /\ SubSeq(queue, ResizeRun(queue) + 2, Len(queue)) \in Seq(Commands)
         /\ LET rest == KeepAfterResizes(queue) \o SubSeq(queue, ResizeRun(queue) + 2, Len(queue))
            IN  /\ rest \in Seq(Commands)
                /\ Len(rest) = Len(queue) - ResizeRun(queue)
                /\ \A i \in 1..Len(rest) : rest[i] = queue[i + ResizeRun(queue)]
<1>1. PICK m \in Nat \ {0} : m = Len(queue)
  BY EmptySeq
<1>2. PICK S : S = {n \in 0..m : \A i \in 1..n : queue[i].kind = "Resize"}
  OBVIOUS
<1>3. Head(queue) = queue[1]
  OBVIOUS
<1>4. 1 \in S
  BY <1>1, <1>2, <1>3
<1>5. S \subseteq 0..m
  BY <1>2
<1>6. Max(S) \in S /\ \A y \in S : y <= Max(S)
  BY <1>1, <1>4, <1>5, MaxIs
<1>7. ResizeRun(queue) = Max(S)
  BY <1>1, <1>2 DEF ResizeRun
<1>8. PICK n \in 1..m : n = ResizeRun(queue) /\ \A i \in 1..n : queue[i].kind = "Resize"
  <2>1. Max(S) \in 0..m /\ \A i \in 1..Max(S) : queue[i].kind = "Resize"
    BY <1>2, <1>6
  <2>2. 1 <= Max(S)
    BY <1>4, <1>6
  <2> QED BY <1>7, <2>1, <2>2
<1>9. PICK k : k = KeepAfterResizes(queue)
  OBVIOUS
<1>10. k = IF n < m THEN <<queue[n + 1]>> ELSE <<>>
  BY <1>1, <1>8, <1>9 DEF KeepAfterResizes
<1>11. PICK c : c = SubSeq(queue, n + 2, m)
  OBVIOUS
<1>12. \A i \in 1..m : queue[i] \in Commands
  BY <1>1
<1>13. /\ c \in Seq(Commands)
       /\ Len(c) = IF n + 2 <= m THEN m - (n + 2) + 1 ELSE 0
       /\ \A i \in 1..(m - (n + 2) + 1) : c[i] = queue[(n + 2) + i - 1]
  <2>1. n + 2 \in Int /\ m \in Int /\ \A i \in (n + 2)..m : queue[i] \in Commands
    BY <1>12
  <2> QED BY <1>11, <2>1, SubSeqProperties
<1>14. CASE n < m
  <2>1. queue[n + 1] \in Commands
    BY <1>12, <1>14
  <2>2. k \in Seq(Commands) /\ Len(k) = 1 /\ k[1] = queue[n + 1]
    BY <1>10, <1>14, <2>1
  <2>3. Len(c) = m - n - 1 /\ \A i \in 1..(m - n - 1) : c[i] = queue[(n + 1) + i]
    BY <1>13, <1>14
  <2>4. PICK r : r = k \o c
    OBVIOUS
  <2>5. /\ r \in Seq(Commands) /\ Len(r) = 1 + (m - n - 1)
        /\ \A i \in 1..(1 + (m - n - 1)) : r[i] = IF i <= 1 THEN k[i] ELSE c[i - 1]
    <3>1. /\ k \o c \in Seq(Commands)
          /\ Len(k \o c) = Len(k) + Len(c)
          /\ \A i \in 1..(Len(k) + Len(c)) : (k \o c)[i] =
               IF i <= Len(k) THEN k[i] ELSE c[i - Len(k)]
      BY <1>13, <2>2, ConcatProperties
    <3> QED BY <2>2, <2>3, <2>4, <3>1
  <2>6. Len(r) = m - n
    BY <2>5
  <2>7. ASSUME NEW i \in 1..(m - n) PROVE r[i] = queue[i + n]
    <3>1. CASE i = 1
      BY <2>2, <2>5, <3>1
    <3>2. CASE i # 1
      <4>1. i - 1 \in 1..(m - n - 1) /\ (n + 1) + (i - 1) = i + n /\ ~ (i <= 1)
        BY <3>2
      <4>2. r[i] = c[i - 1]
        BY <2>5, <4>1
      <4> QED BY <2>3, <4>1, <4>2
    <3> QED BY <3>1, <3>2
  <2>8. n \in 1..m /\ Len(k) <= 1 /\ c \in Seq(Commands) /\ k \in Seq(Commands)
    BY <1>13, <2>2
  <2>9. \A i \in 1..Len(r) : r[i] = queue[i + n]
    BY <2>6, <2>7
  <2> QED BY <1>1, <1>8, <1>9, <1>11, <2>4, <2>5, <2>6, <2>8, <2>9
<1>15. CASE ~ (n < m)
  <2>1. k = <<>> /\ n = m
    BY <1>10, <1>15
  <2>2. c \in Seq(Commands) /\ Len(c) = 0
    BY <1>13, <1>15
  <2>3. c = <<>>
    BY <2>2
  <2> QED BY <1>1, <1>8, <1>9, <1>11, <2>1, <2>2, <2>3
<1> QED BY <1>14, <1>15

-----------------------------------------------------------------------------
(* The types. A Local terminal leaves the parts of an SSH worker alone.    *)

Ways == {"Close", "Failed", "Disconnecting", "Disconnected"}

Events == [kind : {"StateChanged"}, state : SessionStates]
            \cup [kind : {"HostKeyVerificationRequired"}, step : 1..Steps, key : Keys]
            \cup [kind : {"Resized"}, size : Sizes]
            \cup [kind : {"Output", "Closed", "Failed", "Started", "Exited"}]

NoKey(queue) == \A i \in 1..Len(queue) : queue[i].kind # "HostKeyVerificationRequired"

ChannelTypes ==
  /\ commands \in Seq(Commands) /\ events \in Seq(Events)
  /\ decisions \in Seq({"Trust", "Reject"})
  /\ handle \in BOOLEAN /\ listening \in BOOLEAN /\ asking \in BOOLEAN

ShellTypes == pending \in Seq(Commands) /\ received \in Seq(Nat)

SshTypes == WorkerTypeOK /\ child = "None" /\ Len(events) <= EventCapacity

LocalTypes ==
  /\ Local!LocalTypeOK
  /\ pending = <<>> /\ open = {} /\ learned = {}
  /\ decisions = <<>> /\ asking = FALSE
  /\ prompt = {} /\ NoKey(events)

WindowTypes ==
  /\ shown \in SessionStates \cup {"Removed"}
  /\ prompt = {} \/ \E p \in (1..Steps) \X Keys : prompt = {p}
  /\ ptySize \in Sizes /\ layout \in Sizes /\ pendingSize \subseteq Sizes /\ timer \subseteq Sizes
  /\ typed \in Nat
  /\ approved \subseteq (1..Steps) \X Keys

TypeInv ==
  /\ kind \in {"Ssh", "Local"}
  /\ ChannelTypes /\ ShellTypes /\ WindowTypes
  /\ kind = "Ssh" => SshTypes
  /\ kind = "Local" => LocalTypes

LEMMA CommandsMade ==
  /\ \A n \in Nat \ {0} : Input(n) \in Commands /\ Input(n).kind = "Input" /\ Input(n).n = n
  /\ \A size \in Sizes : Resize(size) \in Commands /\ Resize(size).kind = "Resize"
  /\ Disconnect \in Commands /\ Disconnect.kind = "Disconnect"
BY DEF Input, Resize, Disconnect, Commands

LEMMA EventsMade ==
  /\ \A state \in SessionStates :
       /\ StateChanged(state) \in Events
       /\ StateChanged(state).kind = "StateChanged" /\ StateChanged(state).state = state
  /\ \A s \in 1..Steps, key \in Keys :
       /\ HostKeyVerificationRequired(s, key) \in Events
       /\ HostKeyVerificationRequired(s, key).kind = "HostKeyVerificationRequired"
       /\ HostKeyVerificationRequired(s, key).step = s
       /\ HostKeyVerificationRequired(s, key).key = key
  /\ \A size \in Sizes : Resized(size) \in Events /\ Resized(size).kind = "Resized"
  /\ Output \in Events /\ Output.kind = "Output"
  /\ Closed \in Events /\ Closed.kind = "Closed"
  /\ Failed \in Events /\ Failed.kind = "Failed"
BY DEF StateChanged, HostKeyVerificationRequired, Resized, Output, Closed, Failed, Events

LEMMA LocalEventsMade ==
  /\ \A size \in Sizes : Local!Resized(size) \in Events /\ Local!Resized(size).kind = "Resized"
  /\ Local!Started \in Events /\ Local!Started.kind = "Started"
  /\ Local!Output \in Events /\ Local!Output.kind = "Output"
  /\ Local!Exited \in Events /\ Local!Exited.kind = "Exited"
  /\ Local!Failed \in Events /\ Local!Failed.kind = "Failed"
BY DEF Local!Resized, Local!Started, Local!Output, Local!Exited, Local!Failed, Events

LEMMA EventFacts ==
  ASSUME NEW event \in Events
  PROVE  /\ event.kind = "StateChanged" => event.state \in SessionStates
         /\ event.kind = "HostKeyVerificationRequired" => event.step \in 1..Steps /\ event.key \in Keys
         /\ event.kind = "Resized" => event.size \in Sizes
BY DEF Events

LEMMA NoKeyKept ==
  ASSUME NEW queue \in Seq(Events), NoKey(queue)
  PROVE  /\ \A event \in Events :
              event.kind # "HostKeyVerificationRequired" => NoKey(Append(queue, event))
         /\ queue # <<>> => NoKey(Tail(queue)) /\ Head(queue).kind # "HostKeyVerificationRequired"
<1>1. ASSUME NEW event \in Events, event.kind # "HostKeyVerificationRequired"
      PROVE  NoKey(Append(queue, event))
  <2>1. PICK longer : longer = Append(queue, event)
    OBVIOUS
  <2>2. /\ Len(longer) = Len(queue) + 1 /\ Len(queue) \in Nat
        /\ longer[Len(queue) + 1] = event /\ \A i \in 1..Len(queue) : longer[i] = queue[i]
    BY <2>1
  <2>3. \A i \in 1..Len(longer) : i \in 1..Len(queue) \/ i = Len(queue) + 1
    BY <2>2
  <2>4. NoKey(longer)
    BY <1>1, <2>2, <2>3 DEF NoKey
  <2> QED BY <2>1, <2>4
<1>2. ASSUME queue # <<>>
      PROVE  NoKey(Tail(queue)) /\ Head(queue).kind # "HostKeyVerificationRequired"
  <2>1. PICK rest : rest = Tail(queue)
    OBVIOUS
  <2>2. Len(rest) = Len(queue) - 1 /\ \A i \in 1..Len(rest) : rest[i] = queue[i + 1]
    BY <1>2, <2>1, HeadTailProperties
  <2>3. Len(queue) \in Nat \ {0} /\ Head(queue) = queue[1]
    BY <1>2, EmptySeq
  <2>4. NoKey(rest)
    BY <2>2, <2>3 DEF NoKey
  <2> QED BY <2>1, <2>3, <2>4 DEF NoKey
<1> QED BY <1>1, <1>2

LEMMA InboxTypes ==
  ASSUME ChannelTypes, ShellTypes
  PROVE  /\ Inbox \in Seq(Commands)
         /\ Inbox # <<>> => Head(Inbox) \in Commands /\ Tail(Inbox) \in Seq(Commands)
         /\ commands # <<>> => Head(commands) \in Commands /\ Tail(commands) \in Seq(Commands)
         /\ events # <<>> => Head(events) \in Events /\ Tail(events) \in Seq(Events)
<1>1. Inbox \in Seq(Commands)
  BY DEF ChannelTypes, ShellTypes, Inbox
<1> QED BY <1>1, HeadTailProperties DEF ChannelTypes

\* What is said is an event of the window's.
LEMMA EmitTypes ==
  ASSUME events \in Seq(Events), Len(events) <= EventCapacity, NEW event \in Events, Emit(event)
  PROVE  events' \in Seq(Events) /\ Len(events') <= EventCapacity /\ events' = Append(events, event)
BY CapacityAssumption DEF Emit

LEMMA TypeInit ==
  ASSUME SystemInit
  PROVE  TypeInv
<1> USE DEF SystemInit, WorkerInit, ChannelInit, Local!LocalInit
<1>1. ChannelTypes /\ ShellTypes
  <2>1. /\ <<>> \in Seq(Commands) /\ <<>> \in Seq(Events) /\ <<>> \in Seq(Nat)
        /\ <<>> \in Seq({"Trust", "Reject"})
    BY EmptySeq
  <2>2. /\ commands = <<>> /\ events = <<>> /\ decisions = <<>> /\ pending = <<>> /\ received = <<>>
        /\ handle \in BOOLEAN /\ listening \in BOOLEAN /\ asking \in BOOLEAN
    OBVIOUS
  <2> QED BY <2>1, <2>2 DEF ChannelTypes, ShellTypes
<1>2. WindowTypes
  BY SizesAssumption DEF WindowTypes, SessionStates
<1>3. WorkerTypeOK
  <2>1. presented \in Keys
    BY KeysAssumption
  <2>2. step \in 1..Steps /\ reads \in 0..MaxReads
    BY StepsAssumption, ReadsAssumption
  <2> QED BY <2>1, <2>2, SizesAssumption DEF WorkerTypeOK, WorkerPlaces, SessionStates
<1>4. Len(events) <= EventCapacity
  BY CapacityAssumption
<1>5. Local!LocalTypeOK
  <2>1. reads \in 0..MaxReads
    BY ReadsAssumption
  <2>2. pc = "Start" /\ child = "None" /\ reader = "None" /\ readerFailed = FALSE
    OBVIOUS
  <2> QED BY <2>1, <2>2 DEF Local!LocalTypeOK, Local!Places, Local!Children
<1> QED BY <1>1, <1>2, <1>3, <1>4, <1>5 DEF TypeInv, SshTypes, LocalTypes, NoKey

LEMMA TypeStutter ==
  ASSUME TypeInv, UNCHANGED allVars
  PROVE  TypeInv'
BY DEF TypeInv, ChannelTypes, ShellTypes, WindowTypes, SshTypes, LocalTypes, WorkerTypeOK,
       Local!LocalTypeOK, allVars, channelVars, workerVars, chainVars, shellVars, hostVars,
       localVars, windowVars, sizeVars, Local!Places, Local!Children

SshGood == ChannelTypes /\ ShellTypes /\ WorkerTypeOK /\ Len(events) <= EventCapacity

LEMMA WaysOut ==
  /\ ChainFails \in Seq(Ways) /\ ChainDisconnects \in Seq(Ways)
  /\ ShellFails \in Seq(Ways) /\ ShellDisconnects \in Seq(Ways)
  /\ <<"Close">> \in Seq(Ways) /\ <<"Failed">> \in Seq(Ways) /\ <<>> \in Seq(Ways)
BY DEF ChainFails, ChainDisconnects, ShellFails, ShellDisconnects, Ways

\* Everything but what is said or left to do.
LEMMA LeavingTypes ==
  ASSUME SshGood, NEW way \in Seq(Ways), LeaveShell(way),
         UNCHANGED <<channelVars, chainVars, hostVars>>
  PROVE  SshGood'
<1>1. <<>> \in Seq(Commands) /\ <<>> \in Seq(Nat) /\ Len(<<>>) <= 1 /\ 0 \in 0..MaxReads
  BY EmptySeq, ReadsAssumption
<1> QED BY <1>1 DEF SshGood, ChannelTypes, ShellTypes, WorkerTypeOK, WorkerPlaces, LeaveShell, Leave,
           channelVars, chainVars, hostVars, Ways

LEMMA ChainTypes ==
  ASSUME SshGood,
         \/ Begin \/ OpenTransport \/ AskForKey \/ ChainStepFails \/ TakeDecision \/ Trust
         \/ Authenticate \/ OpenShell \/ MarkConnected
  PROVE  SshGood'
<1> USE DEF channelVars, chainVars, shellVars, hostVars
<1>1. /\ StateChanged("Connecting") \in Events /\ StateChanged("Authenticating") \in Events
      /\ StateChanged("Connected") \in Events /\ Resized(remote) \in Events
  <2>1. {"Connecting", "Authenticating", "Connected"} \subseteq SessionStates
    BY DEF SessionStates
  <2>2. remote \in Sizes
    BY DEF SshGood, WorkerTypeOK
  <2> QED BY <2>1, <2>2, EventsMade
<1>2. /\ events \in Seq(Events) /\ Len(events) <= EventCapacity
  BY DEF SshGood, ChannelTypes
<1>3. CASE Begin
  <2>1. events' \in Seq(Events) /\ Len(events') <= EventCapacity
    BY <1>1, <1>2, <1>3, EmitTypes DEF Begin
  <2>2. exit' \in Seq(Ways)
    BY <1>3, WaysOut DEF Begin, Leave, SshGood, WorkerTypeOK, Ways
  <2> QED BY <1>3, <2>1, <2>2 DEF Begin, Leave, SshGood, ChannelTypes, ShellTypes, WorkerTypeOK,
             WorkerPlaces, Waiting, SessionStates, Ways
<1>4. CASE OpenTransport
  <2>1. events' \in Seq(Events) /\ Len(events') <= EventCapacity
    BY <1>1, <1>2, <1>4, EmitTypes DEF OpenTransport
  <2>2. presented' \in Keys
    BY <1>4 DEF OpenTransport, Known
  <2> QED BY <1>4, <2>1, <2>2 DEF OpenTransport, SshGood, ChannelTypes, ShellTypes, WorkerTypeOK,
             WorkerPlaces, Waiting, SessionStates
<1>5. CASE AskForKey
  <2>1. presented' \in Keys /\ step \in 1..Steps
    BY <1>5 DEF AskForKey, SshGood, WorkerTypeOK
  <2>2. PICK key \in Keys : key = presented'
    BY <2>1
  <2>3. HostKeyVerificationRequired(step, key) \in Events
    BY <2>1, EventsMade
  <2>4. events' \in Seq(Events) /\ Len(events') <= EventCapacity
    BY <1>2, <1>5, <2>2, <2>3, EmitTypes DEF AskForKey
  <2> QED BY <1>5, <2>1, <2>4 DEF AskForKey, SshGood, ChannelTypes, ShellTypes, WorkerTypeOK,
             WorkerPlaces, Waiting, SessionStates
<1>6. CASE ChainStepFails
  BY <1>6, WaysOut DEF ChainStepFails, Leave, SshGood, ChannelTypes, ShellTypes, WorkerTypeOK,
     WorkerPlaces, Ways
<1>7. CASE TakeDecision
  <2>1. decisions' \in Seq({"Trust", "Reject"})
    <3>1. decisions # <<>> => Tail(decisions) \in Seq({"Trust", "Reject"})
      BY HeadTailProperties DEF SshGood, ChannelTypes
    <3> QED BY <1>7, <3>1, EmptySeq DEF TakeDecision
  <2>2. exit' \in Seq(Ways) /\ pc' \in WorkerPlaces
    BY <1>7, WaysOut DEF TakeDecision, Leave, SshGood, WorkerTypeOK, Ways, WorkerPlaces, Waiting
  <2> QED BY <1>7, <2>1, <2>2 DEF TakeDecision, SshGood, ChannelTypes, ShellTypes, WorkerTypeOK, Ways
<1>8. CASE Trust
  <2>1. <<step, presented>> \in (1..Steps) \X Keys
    BY DEF SshGood, WorkerTypeOK
  <2> QED BY <1>8, <2>1 DEF Trust, SshGood, ChannelTypes, ShellTypes, WorkerTypeOK, WorkerPlaces, Waiting
<1>9. CASE Authenticate
  <2>1. step' \in 1..Steps
    BY <1>9, StepsAssumption DEF Authenticate, SshGood, WorkerTypeOK
  <2> QED BY <1>9, <2>1 DEF Authenticate, SshGood, ChannelTypes, ShellTypes, WorkerTypeOK,
             WorkerPlaces, Waiting
<1>10. CASE OpenShell
  <2>1. events' \in Seq(Events) /\ Len(events') <= EventCapacity
    BY <1>1, <1>2, <1>10, EmitTypes DEF OpenShell
  <2> QED BY <1>10, <2>1 DEF OpenShell, SshGood, ChannelTypes, ShellTypes, WorkerTypeOK,
             WorkerPlaces, Waiting
<1>11. CASE MarkConnected
  <2>1. events' \in Seq(Events) /\ Len(events') <= EventCapacity
    BY <1>1, <1>2, <1>11, EmitTypes DEF MarkConnected
  <2> QED BY <1>11, <2>1 DEF MarkConnected, SshGood, ChannelTypes, ShellTypes, WorkerTypeOK,
             WorkerPlaces, Waiting, SessionStates
<1> QED BY <1>3, <1>4, <1>5, <1>6, <1>7, <1>8, <1>9, <1>10, <1>11

LEMMA StoppingTypes ==
  ASSUME SshGood, StopWaiting
  PROVE  /\ pc' \in WorkerPlaces /\ exit' \in Seq(Ways) /\ asking' \in BOOLEAN
         /\ learned' \subseteq (1..Steps) \X Keys
<1>1. <<step, presented>> \in (1..Steps) \X Keys
  BY DEF SshGood, WorkerTypeOK
<1> QED BY <1>1, WaysOut DEF StopWaiting, Leave, SshGood, WorkerTypeOK, WorkerPlaces

LEMMA WaitingTypes ==
  ASSUME SshGood, TakeWhileWaiting \/ AbandonWaiting
  PROVE  SshGood'
<1> USE DEF channelVars, chainVars, shellVars, hostVars
<1>1. commands # <<>> => Head(commands) \in Commands /\ Tail(commands) \in Seq(Commands)
  BY InboxTypes DEF SshGood
<1>2. CASE TakeWhileWaiting
  <2>1. commands' \in Seq(Commands)
    BY <1>1, <1>2 DEF TakeWhileWaiting
  <2>2. remote' \in Sizes
    BY <1>1, <1>2, CommandFacts DEF TakeWhileWaiting, SshGood, WorkerTypeOK
  <2>3. /\ pc' \in WorkerPlaces /\ exit' \in Seq(Ways) /\ asking' \in BOOLEAN
        /\ learned' \subseteq (1..Steps) \X Keys
    BY <1>2, StoppingTypes DEF TakeWhileWaiting, SshGood, WorkerTypeOK, ChannelTypes, Ways
  <2> QED BY <1>2, <2>1, <2>2, <2>3 DEF TakeWhileWaiting, SshGood, ChannelTypes, ShellTypes,
             WorkerTypeOK, Ways
<1>3. CASE AbandonWaiting
  <2>1. /\ pc' \in WorkerPlaces /\ exit' \in Seq(Ways) /\ asking' \in BOOLEAN
        /\ learned' \subseteq (1..Steps) \X Keys
    BY <1>3, StoppingTypes DEF AbandonWaiting
  <2> QED BY <1>3, <2>1 DEF AbandonWaiting, SshGood, ChannelTypes, ShellTypes, WorkerTypeOK, Ways
<1> QED BY <1>2, <1>3

LEMMA UnwindTypes ==
  ASSUME SshGood, Unwind
  PROVE  SshGood'
<1> USE DEF shellVars, hostVars
<1>1. exit # <<>> => Head(exit) \in Ways /\ Tail(exit) \in Seq(Ways)
  BY HeadTailProperties DEF SshGood, WorkerTypeOK, Ways
<1>2. events' \in Seq(Events) /\ Len(events') <= EventCapacity
  <2>1. CASE UNCHANGED events
    BY <2>1 DEF SshGood, ChannelTypes
  <2>2. CASE exit # <<>> /\ Head(exit) # "Close"
             /\ Emit(IF Head(exit) = "Failed" THEN Failed ELSE StateChanged(Head(exit)))
    <3>1. Head(exit) = "Failed" \/ Head(exit) \in SessionStates
      BY <1>1, <2>2 DEF Ways, SessionStates
    <3>2. (IF Head(exit) = "Failed" THEN Failed ELSE StateChanged(Head(exit))) \in Events
      BY <3>1, EventsMade
    <3> QED BY <2>2, <3>2, EmitTypes DEF SshGood, ChannelTypes
  <2> QED BY <2>1, <2>2 DEF Unwind
<1>3. exit' \in Seq(Ways)
  BY <1>1 DEF Unwind, SshGood, WorkerTypeOK, Ways
<1>4. session' \in SessionStates
  BY <1>1 DEF Unwind, SshGood, WorkerTypeOK, Ways, SessionStates
<1>5. open' \subseteq 1..Steps /\ pc' \in WorkerPlaces
  BY DEF Unwind, SshGood, WorkerTypeOK, WorkerPlaces
<1> QED BY <1>2, <1>3, <1>4, <1>5 DEF Unwind, SshGood, ChannelTypes, ShellTypes, WorkerTypeOK, Ways

LEMMA RunCommandTypes ==
  ASSUME SshGood, RunCommand
  PROVE  SshGood'
<1> USE DEF chainVars, hostVars
<1>1. Inbox \in Seq(Commands) /\ Inbox # <<>> /\ Head(Inbox) \in Commands /\ Tail(Inbox) \in Seq(Commands)
  BY InboxTypes DEF SshGood, RunCommand
<1>2. CASE Head(Inbox).kind = "Input"
  <2>1. received' \in Seq(Nat) /\ pending' = <<>> /\ commands' \in Seq(Commands)
    <3>1. Head(Inbox).n \in Nat
      BY <1>1, <1>2, CommandFacts
    <3>2. /\ received' = Append(received, Head(Inbox).n)
          /\ pending' = <<>> /\ commands' = Tail(Inbox)
      BY <1>2 DEF RunCommand
    <3>3. received \in Seq(Nat)
      BY DEF SshGood, ShellTypes
    <3>4. Append(received, Head(Inbox).n) \in Seq(Nat)
      BY <3>1, <3>3
    <3> QED BY <1>1, <3>2, <3>4
  <2>2. UNCHANGED <<pc, exit, remote, integration, reads, events>>
    BY <1>2 DEF RunCommand
  <2>3. <<>> \in Seq(Commands) /\ Len(<<>>) <= 1
    BY EmptySeq
  <2> QED BY <2>1, <2>2, <2>3 DEF RunCommand, SshGood, ChannelTypes, ShellTypes, WorkerTypeOK
<1>3. CASE Head(Inbox).kind = "Resize"
  <2>1. PICK n : n = ResizeRun(Inbox)
    OBVIOUS
  <2>2. /\ n \in 1..Len(Inbox) /\ Inbox[n].kind = "Resize"
        /\ KeepAfterResizes(Inbox) \in Seq(Commands) /\ Len(KeepAfterResizes(Inbox)) <= 1
        /\ SubSeq(Inbox, n + 2, Len(Inbox)) \in Seq(Commands)
    BY <1>1, <1>3, <2>1, RunFacts
  <2>3. Inbox[n] \in Commands
    BY <1>1, <2>2
  <2>4. Inbox[n].size \in Sizes
    BY <2>2, <2>3, CommandFacts
  <2>5. /\ remote' = Inbox[n].size /\ Emit(Resized(Inbox[n].size))
        /\ pending' = KeepAfterResizes(Inbox) /\ commands' = SubSeq(Inbox, n + 2, Len(Inbox))
        /\ UNCHANGED <<pc, exit, received, integration, reads>>
    BY <1>3, <2>1 DEF RunCommand
  <2>6. events' \in Seq(Events) /\ Len(events') <= EventCapacity
    BY <2>4, <2>5, EventsMade, EmitTypes DEF SshGood, ChannelTypes
  <2>7. /\ remote' \in Sizes /\ pending' \in Seq(Commands) /\ Len(pending') <= 1
        /\ commands' \in Seq(Commands)
    BY <2>2, <2>4, <2>5
  <2>8. UNCHANGED <<handle, listening, decisions, asking, chainVars, hostVars>>
    BY DEF RunCommand
  <2> QED BY <2>5, <2>6, <2>7, <2>8 DEF SshGood, ChannelTypes, ShellTypes, WorkerTypeOK
<1>4. CASE Head(Inbox).kind = "Disconnect"
  <2>1. LeaveShell(ShellDisconnects) /\ commands' \in Seq(Commands) /\ UNCHANGED events
    BY <1>1, <1>4 DEF RunCommand
  <2>2. UNCHANGED <<handle, listening, decisions, asking, chainVars, hostVars>>
    BY DEF RunCommand
  <2>3. <<>> \in Seq(Commands) /\ <<>> \in Seq(Nat) /\ Len(<<>>) <= 1 /\ 0 \in 0..MaxReads
    BY EmptySeq, ReadsAssumption
  <2> QED BY <2>1, <2>2, <2>3, WaysOut DEF SshGood, ChannelTypes, ShellTypes, WorkerTypeOK,
             WorkerPlaces, LeaveShell, Leave, Ways
<1> QED BY <1>2, <1>3, <1>4 DEF RunCommand

LEMMA ShellTypesKept ==
  ASSUME SshGood,
         AbandonShell \/ ShellStepFails \/ DetectShell \/ InstallHook \/ ReadShell \/ SendFails
  PROVE  SshGood'
<1> USE DEF channelVars, chainVars, hostVars
<1>1. CASE AbandonShell
  BY <1>1, WaysOut, LeavingTypes DEF AbandonShell
<1>2. CASE ShellStepFails
  BY <1>2, WaysOut, LeavingTypes DEF ShellStepFails
<1>3. CASE DetectShell
  BY <1>3 DEF DetectShell, SshGood, ChannelTypes, ShellTypes, WorkerTypeOK
<1>4. CASE InstallHook
  <2>1. received' \in Seq(Nat)
    BY <1>4 DEF InstallHook, SshGood, ShellTypes, Hook
  <2> QED BY <1>4, <2>1 DEF InstallHook, SshGood, ChannelTypes, ShellTypes, WorkerTypeOK
<1>5. CASE ReadShell
  <2>1. events' \in Seq(Events) /\ Len(events') <= EventCapacity
    BY <1>5, EventsMade, EmitTypes DEF ReadShell, SshGood, ChannelTypes
  <2>2. CASE LeaveShell(ShellDisconnects)
    <3>1. <<>> \in Seq(Commands) /\ <<>> \in Seq(Nat) /\ Len(<<>>) <= 1 /\ 0 \in 0..MaxReads
      BY EmptySeq, ReadsAssumption
    <3> QED BY <1>5, <2>1, <2>2, <3>1, WaysOut DEF ReadShell, SshGood, ChannelTypes, ShellTypes,
               WorkerTypeOK, WorkerPlaces, LeaveShell, Leave, Ways
  <2>3. CASE reads < MaxReads /\ reads' = reads + 1
             /\ integration' = (IF integration = "Found" THEN "Armed" ELSE integration)
             /\ UNCHANGED <<pc, exit, pending, remote, received>>
    <3>1. reads' \in 0..MaxReads
      BY <2>3, ReadsAssumption DEF SshGood, WorkerTypeOK
    <3>2. integration' \in {"Detecting", "Found", "Armed", "Off"}
      BY <2>3 DEF SshGood, WorkerTypeOK
    <3> QED BY <1>5, <2>1, <2>3, <3>1, <3>2 DEF ReadShell, SshGood, ChannelTypes, ShellTypes,
               WorkerTypeOK
  <2> QED BY <1>5, <2>2, <2>3 DEF ReadShell
<1>6. CASE SendFails
  BY <1>6, WaysOut, LeavingTypes DEF SendFails
<1> QED BY <1>1, <1>2, <1>3, <1>4, <1>5, <1>6

LEMMA SshStepTypes ==
  ASSUME TypeInv, SshStep
  PROVE  TypeInv'
<1>1. SshGood /\ kind = "Ssh" /\ kind' = "Ssh" /\ WorkerStep /\ UNCHANGED <<localVars, windowVars>>
  BY DEF TypeInv, SshTypes, SshGood, SshStep, windowVars
<1>2. SshGood'
  BY <1>1, ChainTypes, WaitingTypes, UnwindTypes, RunCommandTypes, ShellTypesKept DEF WorkerStep
<1>3. WindowTypes' /\ child' = child
  BY <1>1 DEF TypeInv, WindowTypes, windowVars, sizeVars, localVars
<1> QED BY <1>1, <1>2, <1>3 DEF TypeInv, SshTypes, SshGood

\* What the local worker tells, or nobody hears.
LEMMA TellTypes ==
  ASSUME events \in Seq(Events), NoKey(events), NEW event \in Events,
         event.kind # "HostKeyVerificationRequired", Local!Tell(event)
  PROVE  events' \in Seq(Events) /\ NoKey(events')
BY NoKeyKept DEF Local!Tell

LocalGood == ChannelTypes /\ received \in Seq(Nat) /\ Local!LocalTypeOK /\ NoKey(events)

LEMMA LocalGoodKept ==
  ASSUME LocalGood, Local!LocalStep, UNCHANGED <<decisions, asking>>
  PROVE  LocalGood'
<1> USE DEF LocalGood, Local!KillAndReturn
<1>1. commands # <<>> => Head(commands) \in Commands /\ Tail(commands) \in Seq(Commands)
  BY HeadTailProperties DEF ChannelTypes
<1>2. events \in Seq(Events) /\ NoKey(events)
  BY DEF ChannelTypes
<1>3. CASE Local!StartShell
  <2>1. events' \in Seq(Events) /\ NoKey(events')
    BY <1>2, <1>3, LocalEventsMade, TellTypes DEF Local!StartShell
  <2> QED BY <1>3, <2>1 DEF Local!StartShell, ChannelTypes, Local!LocalTypeOK, Local!Places,
             Local!Children
<1>4. CASE Local!AnnounceStart
  <2>1. events' \in Seq(Events) /\ NoKey(events')
    BY <1>2, <1>4, LocalEventsMade, TellTypes DEF Local!AnnounceStart
  <2> QED BY <1>4, <2>1 DEF Local!AnnounceStart, ChannelTypes, Local!LocalTypeOK, Local!Places,
             Local!Children
<1>5. CASE Local!CheckReader
  BY <1>5 DEF Local!CheckReader, ChannelTypes, Local!LocalTypeOK, Local!Places, Local!Children
<1>6. CASE Local!InspectShell
  <2>1. events' \in Seq(Events) /\ NoKey(events')
    BY <1>2, <1>6, LocalEventsMade, TellTypes DEF Local!InspectShell
  <2> QED BY <1>6, <2>1 DEF Local!InspectShell, ChannelTypes, Local!LocalTypeOK, Local!Places,
             Local!Children
<1>7. CASE Local!TakeCommand
  <2>1. events' \in Seq(Events) /\ NoKey(events')
    <3>1. CASE commands # <<>> /\ Head(commands).kind = "Input"
      BY <1>2, <1>7, <3>1, LocalEventsMade, TellTypes DEF Local!TakeCommand
    <3>2. CASE commands # <<>> /\ Head(commands).kind = "Resize"
      <4>1. Head(commands).size \in Sizes
        BY <1>1, <3>2, CommandFacts
      <4>2. CASE Local!Tell(Local!Failed)
        BY <1>2, <4>2, LocalEventsMade, TellTypes
      <4>3. CASE remote' = Head(commands).size /\ Local!Tell(Local!Resized(remote'))
        <5>1. PICK size \in Sizes : size = remote'
          BY <4>1, <4>3
        <5>2. Local!Tell(Local!Resized(size))
          BY <4>3, <5>1
        <5> QED BY <1>2, <5>2, LocalEventsMade, TellTypes
      <4> QED BY <1>7, <3>2, <4>2, <4>3 DEF Local!TakeCommand
    <3>3. CASE Local!Tell(Local!Exited) \/ Local!Tell(Local!Failed)
      BY <1>2, <3>3, LocalEventsMade, TellTypes
    <3> QED BY <1>7, <3>1, <3>2, <3>3 DEF Local!TakeCommand
  <2>2. commands' \in Seq(Commands)
    BY <1>1, <1>7, EmptySeq DEF Local!TakeCommand
  <2>3. received' \in Seq(Nat)
    <3>1. CASE UNCHANGED received
      BY <3>1
    <3>2. CASE commands # <<>> /\ Head(commands).kind = "Input"
               /\ received' = Append(received, Head(commands).n)
      <4>1. Head(commands).n \in Nat
        BY <1>1, <3>2, CommandFacts
      <4> QED BY <3>2, <4>1
    <3> QED BY <1>7, <3>1, <3>2 DEF Local!TakeCommand
  <2>4. /\ pc' \in {"Polling", "Ended"} /\ child' \in {child, "Dead", "Stuck"}
        /\ UNCHANGED <<handle, listening, reader, readerFailed, reads>>
    BY <1>7 DEF Local!TakeCommand
  <2> QED BY <2>1, <2>2, <2>3, <2>4 DEF ChannelTypes, Local!LocalTypeOK, Local!Places, Local!Children
<1>8. CASE Local!CommandTimeout
  BY <1>8 DEF Local!CommandTimeout, ChannelTypes, Local!LocalTypeOK, Local!Places, Local!Children
<1>9. CASE Local!ReadOutput
  <2>1. events' \in Seq(Events) /\ NoKey(events')
    BY <1>2, <1>9, LocalEventsMade, TellTypes DEF Local!ReadOutput
  <2>2. reads' \in 0..MaxReads
    BY <1>9, ReadsAssumption DEF Local!ReadOutput, Local!LocalTypeOK
  <2>3. reader' \in {"None", "Reading", "Stopped"} /\ readerFailed' \in BOOLEAN
    BY <1>9 DEF Local!ReadOutput, Local!LocalTypeOK
  <2> QED BY <1>9, <2>1, <2>2, <2>3 DEF Local!ReadOutput, ChannelTypes, Local!LocalTypeOK,
             Local!Places, Local!Children
<1>10. CASE Local!ShellExits
  BY <1>10 DEF Local!ShellExits, ChannelTypes, Local!LocalTypeOK, Local!Places, Local!Children
<1> QED BY <1>3, <1>4, <1>5, <1>6, <1>7, <1>8, <1>9, <1>10 DEF Local!LocalStep

LEMMA LocalStepTypes ==
  ASSUME TypeInv, LocalStep
  PROVE  TypeInv'
<1>1. LocalGood /\ kind = "Local" /\ Local!LocalStep
      /\ UNCHANGED <<decisions, asking, exit, chainVars, pending, integration, hostVars, windowVars>>
  BY DEF TypeInv, LocalTypes, LocalGood, ShellTypes, LocalStep
<1>2. LocalGood'
  BY <1>1, LocalGoodKept
<1>3. kind' = "Local" /\ WindowTypes'
  BY <1>1 DEF TypeInv, WindowTypes, windowVars, sizeVars
<1>4. /\ pending' = <<>> /\ open' = {} /\ learned' = {} /\ decisions' = <<>> /\ asking' = FALSE
      /\ prompt' = {}
  BY <1>1 DEF TypeInv, LocalTypes, chainVars, hostVars, windowVars
<1> QED BY <1>2, <1>3, <1>4, EmptySeq DEF TypeInv, LocalTypes, LocalGood, ShellTypes

\* A command sent by the window, which only the window's own variables notice.
LEMMA SendTypes ==
  ASSUME commands \in Seq(Commands), NEW command \in Commands, Send(command)
  PROVE  commands' \in Seq(Commands)
BY DEF Send

\* The parts of the worker's types, where the window has touched nothing of them.
LEMMA WorkerTypesKept ==
  ASSUME TypeInv, UNCHANGED <<workerVars, localVars, kind>>,
         kind = "Ssh" => Len(events') <= EventCapacity,
         kind = "Local" => decisions' = <<>> /\ asking' = FALSE /\ prompt' = {} /\ NoKey(events')
  PROVE  /\ kind' \in {"Ssh", "Local"} /\ ShellTypes'
         /\ kind' = "Ssh" => SshTypes'
         /\ kind' = "Local" => LocalTypes'
<1> USE DEF workerVars, chainVars, shellVars, hostVars, localVars
<1>1. kind' \in {"Ssh", "Local"} /\ ShellTypes'
  BY DEF TypeInv, ShellTypes
<1>2. WorkerTypeOK => WorkerTypeOK'
  BY DEF WorkerTypeOK
<1>3. Local!LocalTypeOK => Local!LocalTypeOK'
  BY DEF Local!LocalTypeOK
<1> QED BY <1>1, <1>2, <1>3 DEF TypeInv, SshTypes, LocalTypes

LEMMA WindowStepTypes ==
  ASSUME TypeInv,
         \/ Type \/ Lay \/ DisconnectSession \/ RemoveSession
         \/ \E decision \in {"Trust", "Reject"} : AnswerPrompt(decision)
         \/ Render \/ ResizeTimer
  PROVE  TypeInv'
<1> USE DEF channelVars
<1>1. ChannelTypes /\ WindowTypes
  BY DEF TypeInv
<1>2. kind = "Ssh" => Len(events) <= EventCapacity
  BY DEF TypeInv, SshTypes
<1>3. kind = "Local" => decisions = <<>> /\ asking = FALSE /\ prompt = {} /\ NoKey(events)
  BY DEF TypeInv, LocalTypes
<1>4. CASE Type
  <2>1. commands' \in Seq(Commands) /\ typed' \in Nat
    <3>1. Input(typed + 1) \in Commands /\ typed + 1 \in Nat
      BY <1>1, CommandsMade DEF WindowTypes
    <3> QED BY <1>1, <1>4, <3>1, SendTypes DEF Type, ChannelTypes
  <2>2. ChannelTypes' /\ WindowTypes'
    BY <1>1, <1>4, <2>1 DEF Type, ChannelTypes, WindowTypes, sizeVars
  <2> QED BY <1>2, <1>3, <1>4, <2>2, WorkerTypesKept DEF Type, TypeInv
<1>5. CASE Lay
  <2>1. ChannelTypes' /\ WindowTypes'
    BY <1>1, <1>5 DEF Lay, ChannelTypes, WindowTypes
  <2> QED BY <1>2, <1>3, <1>5, <2>1, WorkerTypesKept DEF Lay, TypeInv
<1>6. CASE DisconnectSession
  <2>1. commands' \in Seq(Commands)
    BY <1>1, <1>6, CommandsMade, SendTypes DEF DisconnectSession, ChannelTypes
  <2>2. ChannelTypes' /\ WindowTypes'
    BY <1>1, <1>6, <2>1 DEF DisconnectSession, ChannelTypes, WindowTypes, SessionStates
  <2> QED BY <1>2, <1>3, <1>6, <2>2, WorkerTypesKept DEF DisconnectSession, TypeInv
<1>7. CASE RemoveSession
  <2>1. ChannelTypes' /\ WindowTypes'
    BY <1>1, <1>7, SizesAssumption DEF RemoveSession, ChannelTypes, WindowTypes
  <2> QED BY <1>2, <1>3, <1>7, <2>1, WorkerTypesKept DEF RemoveSession, TypeInv
<1>8. ASSUME NEW decision \in {"Trust", "Reject"}, AnswerPrompt(decision)
      PROVE  TypeInv'
  <2>1. decisions' \in Seq({"Trust", "Reject"}) /\ asking' \in BOOLEAN
    <3>1. decisions \in Seq({"Trust", "Reject"}) /\ asking \in BOOLEAN
      BY <1>1 DEF ChannelTypes
    <3>2. Append(decisions, decision) \in Seq({"Trust", "Reject"})
      BY <3>1
    <3> QED BY <1>8, <3>1, <3>2 DEF AnswerPrompt
  <2>2. approved' \subseteq (1..Steps) \X Keys /\ prompt' = {}
    BY <1>1, <1>8 DEF AnswerPrompt, WindowTypes
  <2>3. kind = "Ssh"
    BY <1>3, <1>8 DEF AnswerPrompt, TypeInv
  <2>4. ChannelTypes' /\ WindowTypes'
    BY <1>1, <1>8, <2>1, <2>2 DEF AnswerPrompt, ChannelTypes, WindowTypes, sizeVars
  <2> QED BY <1>2, <1>8, <2>3, <2>4, WorkerTypesKept DEF AnswerPrompt, TypeInv
<1>9. CASE Render
  <2>1. ChannelTypes' /\ WindowTypes'
    BY <1>1, <1>9 DEF Render, ChannelTypes, WindowTypes
  <2> QED BY <1>2, <1>3, <1>9, <2>1, WorkerTypesKept DEF Render, TypeInv
<1>10. CASE ResizeTimer
  <2>1. commands' \in Seq(Commands)
    <3>1. CASE UNCHANGED commands
      BY <1>1, <3>1 DEF ChannelTypes
    <3>2. ASSUME NEW size \in timer, Send(Resize(size))
          PROVE  commands' \in Seq(Commands)
      <4>1. Resize(size) \in Commands
        BY <1>1, CommandsMade DEF WindowTypes
      <4> QED BY <1>1, <3>2, <4>1, SendTypes DEF ChannelTypes
    <3> QED BY <1>10, <3>1, <3>2 DEF ResizeTimer
  <2>2. ChannelTypes' /\ WindowTypes'
    BY <1>1, <1>10, <2>1 DEF ResizeTimer, ChannelTypes, WindowTypes
  <2> QED BY <1>2, <1>3, <1>10, <2>2, WorkerTypesKept DEF ResizeTimer, TypeInv
<1> QED BY <1>4, <1>5, <1>6, <1>7, <1>8, <1>9, <1>10

LEMMA HandleTypes ==
  ASSUME WindowTypes, NEW event \in Events, Handle(event)
  PROVE  /\ shown' \in SessionStates \cup {"Removed"}
         /\ prompt' = {} \/ \E p \in (1..Steps) \X Keys : prompt' = {p}
         /\ ptySize' \in Sizes /\ pendingSize' \subseteq Sizes /\ timer' \subseteq Sizes
         /\ event.kind # "HostKeyVerificationRequired" => prompt' = prompt \/ prompt' = {}
         /\ handle' = handle \/ handle' = FALSE
<1>1. /\ event.kind = "StateChanged" => event.state \in SessionStates
      /\ event.kind = "HostKeyVerificationRequired" => event.step \in 1..Steps /\ event.key \in Keys
      /\ event.kind = "Resized" => event.size \in Sizes
  BY EventFacts
<1>2. {"Connected", "Disconnected", "Failed"} \subseteq SessionStates
  BY DEF SessionStates
<1>3. CASE UNCHANGED <<shown, handle, timer, prompt, ptySize, pendingSize>>
  BY <1>3 DEF WindowTypes
<1>4. CASE event.kind = "StateChanged" /\ shown' = event.state
           /\ prompt' = (IF event.state \in {"Authenticating", "Connected"} THEN {} ELSE prompt)
           /\ UNCHANGED <<handle, timer, ptySize, pendingSize>>
  BY <1>1, <1>4 DEF WindowTypes
<1>5. CASE event.kind = "Started" /\ shown' = "Connected"
           /\ UNCHANGED <<handle, timer, prompt, ptySize, pendingSize>>
  BY <1>2, <1>5 DEF WindowTypes
<1>6. CASE event.kind = "HostKeyVerificationRequired" /\ prompt' = {<<event.step, event.key>>}
           /\ UNCHANGED <<shown, handle, timer, ptySize, pendingSize>>
  <2>1. <<event.step, event.key>> \in (1..Steps) \X Keys
    BY <1>1, <1>6
  <2> QED BY <1>6, <2>1 DEF WindowTypes
<1>7. CASE event.kind = "Resized" /\ ptySize' = event.size /\ pendingSize' = PendingAfter(event.size)
           /\ UNCHANGED <<shown, handle, timer, prompt>>
  BY <1>1, <1>7 DEF WindowTypes, PendingAfter
<1>8. CASE SessionOver("Disconnected") \/ SessionOver("Failed")
  BY <1>2, <1>8 DEF WindowTypes, SessionOver
<1> QED BY <1>3, <1>4, <1>5, <1>6, <1>7, <1>8 DEF Handle

LEMMA PumpTypes ==
  ASSUME TypeInv, Pump
  PROVE  TypeInv'
<1>1. ChannelTypes /\ WindowTypes /\ ShellTypes
  BY DEF TypeInv
<1>2. Head(events) \in Events /\ Tail(events) \in Seq(Events) /\ Len(Tail(events)) = Len(events) - 1
  BY <1>1, HeadTailProperties DEF Pump, ChannelTypes
<1>3. Handle(Head(events)) /\ events' = Tail(events)
      /\ UNCHANGED <<commands, listening, decisions, asking, workerVars, localVars, kind, layout,
                     layouts, typed, approved>>
  BY DEF Pump
<1>4. PICK event \in Events : event = Head(events)
  BY <1>2
<1>5. Handle(event)
  BY <1>3, <1>4
<1>6. /\ shown' \in SessionStates \cup {"Removed"}
      /\ prompt' = {} \/ \E p \in (1..Steps) \X Keys : prompt' = {p}
      /\ ptySize' \in Sizes /\ pendingSize' \subseteq Sizes /\ timer' \subseteq Sizes
      /\ event.kind # "HostKeyVerificationRequired" => prompt' = prompt \/ prompt' = {}
      /\ handle' = handle \/ handle' = FALSE
  BY <1>1, <1>5, HandleTypes
<1>7. WindowTypes'
  BY <1>1, <1>3, <1>6 DEF WindowTypes
<1>8. ChannelTypes'
  BY <1>1, <1>2, <1>3, <1>6 DEF ChannelTypes
<1>9. kind = "Ssh" => Len(events') <= EventCapacity
  <2>1. Len(events) \in Nat
    BY <1>1 DEF ChannelTypes
  <2> QED BY <1>2, <1>3, <2>1, CapacityAssumption DEF TypeInv, SshTypes
<1>10. kind = "Local" => decisions' = <<>> /\ asking' = FALSE /\ prompt' = {} /\ NoKey(events')
  <2> SUFFICES ASSUME kind = "Local"
               PROVE  decisions' = <<>> /\ asking' = FALSE /\ prompt' = {} /\ NoKey(events')
    OBVIOUS
  <2>1. decisions = <<>> /\ asking = FALSE /\ prompt = {} /\ NoKey(events)
    BY DEF TypeInv, LocalTypes
  <2>2. events \in Seq(Events) /\ events # <<>>
    BY <1>1 DEF ChannelTypes, Pump
  <2>3. NoKey(Tail(events)) /\ Head(events).kind # "HostKeyVerificationRequired"
    BY <2>1, <2>2, NoKeyKept
  <2> QED BY <1>3, <1>4, <1>6, <2>1, <2>3
<1> QED BY <1>3, <1>7, <1>8, <1>9, <1>10, WorkerTypesKept DEF TypeInv

LEMMA TypeStep ==
  ASSUME TypeInv, Next
  PROVE  TypeInv'
BY SshStepTypes, LocalStepTypes, WindowStepTypes, PumpTypes DEF Next

LEMMA TypesMean ==
  ASSUME TypeInv
  PROVE  TerminalTypeOK
<1>1. Cardinality(prompt) <= 1
  <2>1. CASE prompt = {}
    BY <2>1, FS_EmptySet
  <2>2. ASSUME NEW p \in (1..Steps) \X Keys, prompt = {p} PROVE Cardinality(prompt) <= 1
    BY <2>2, FS_Singleton, SMTT(30)
  <2> QED BY <2>1, <2>2 DEF TypeInv, WindowTypes
<1>2. prompt \subseteq (1..Steps) \X Keys
  BY DEF TypeInv, WindowTypes
<1> QED BY <1>1, <1>2 DEF TypeInv, SshTypes, LocalTypes, WindowTypes, TerminalTypeOK

\* Worker and window keep the types of their state.
THEOREM TerminalTypeCorrectness == Spec => []TerminalTypeOK
<1>1. SystemInit => TypeInv
  BY TypeInit
<1>2. TypeInv /\ [Next]_allVars => TypeInv'
  BY TypeStep, TypeStutter
<1>3. TypeInv => TerminalTypeOK
  BY TypesMean
<1> QED BY <1>1, <1>2, <1>3, PTL DEF Spec

-----------------------------------------------------------------------------
(* The transports and the shell: what is established is the beginning of   *)
(* the chain, and what is left to do on the way out still closes it.       *)

Closes(way) == \E i \in 1..Len(way) : way[i] = "Close"

ChainOK ==
  kind = "Ssh" =>
    /\ pc = "Start" => step = 1
    /\ pc \in {"Start", "Opening", "Deciding", "Trusting"} => open = 1..(step - 1)
    /\ pc = "Authenticating" => open = 1..step
    /\ pc \in {"OpeningShell", "Ready", "Running"} => open = 1..Steps
    /\ pc = "Exiting" => \E n \in 0..Steps : open = 1..n /\ (n = 0 \/ Closes(exit))
    /\ pc = "Ended" => open = {}

ChildOK == kind = "Local" /\ pc = "Ended" => child # "Running" /\ child # "Exited"

EstablishedInv == ChainOK /\ ChildOK

LEMMA WaysClose ==
  /\ Closes(ChainFails) /\ Closes(ChainDisconnects) /\ Closes(ShellFails)
  /\ Closes(ShellDisconnects) /\ Closes(<<"Close">>)
<1>1. /\ ChainFails[1] = "Close" /\ ChainDisconnects[1] = "Close" /\ ShellFails[2] = "Close"
      /\ ShellDisconnects[2] = "Close" /\ <<"Close">>[1] = "Close"
  BY DEF ChainFails, ChainDisconnects, ShellFails, ShellDisconnects
<1>2. /\ Len(ChainFails) = 2 /\ Len(ChainDisconnects) = 3 /\ Len(ShellFails) = 2
      /\ Len(ShellDisconnects) = 3 /\ Len(<<"Close">>) = 1
  BY DEF ChainFails, ChainDisconnects, ShellFails, ShellDisconnects
<1> QED BY <1>1, <1>2 DEF Closes

LEMMA ClosesLater ==
  ASSUME NEW way \in Seq(Ways), way # <<>>, Head(way) # "Close", Closes(way)
  PROVE  Closes(Tail(way))
<1>1. PICK i \in 1..Len(way) : way[i] = "Close"
  BY DEF Closes
<1>2. Head(way) = way[1] /\ Len(way) \in Nat
  OBVIOUS
<1>3. i # 1
  BY <1>1, <1>2
<1>4. Len(Tail(way)) = Len(way) - 1 /\ \A j \in 1..Len(Tail(way)) : Tail(way)[j] = way[j + 1]
  BY HeadTailProperties
<1>5. i - 1 \in 1..Len(Tail(way)) /\ (i - 1) + 1 = i
  BY <1>2, <1>3, <1>4
<1>6. Tail(way)[i - 1] = "Close"
  BY <1>1, <1>4, <1>5
<1> QED BY <1>5, <1>6 DEF Closes

\* disconnect_established closes the transport opened last.
LEMMA LastClosed ==
  ASSUME NEW n \in Nat \ {0}
  PROVE  (1..n) \ {Max(1..n)} = 1..(n - 1)
<1>1. 1..n \subseteq 0..n /\ 1 \in 1..n /\ n \in 1..n
  OBVIOUS
<1>2. Max(1..n) \in 1..n /\ \A y \in 1..n : y <= Max(1..n)
  BY <1>1, MaxIs
<1>3. Max(1..n) = n
  BY <1>1, <1>2
<1> QED BY <1>3

LEMMA EstablishedInit ==
  ASSUME SystemInit
  PROVE  EstablishedInv
<1>1. 1..(step - 1) = {}
  BY DEF SystemInit, WorkerInit
<1> QED BY <1>1 DEF SystemInit, WorkerInit, EstablishedInv, ChainOK, ChildOK

LEMMA EstablishedSshStep ==
  ASSUME SshGood, kind = "Ssh", ChainOK, WorkerStep
  PROVE  kind' = "Ssh" => ChainOK'
<1> SUFFICES ASSUME kind' = "Ssh" PROVE ChainOK'
  OBVIOUS
<1> USE DEF channelVars, chainVars, shellVars, hostVars
<1>1. step \in 1..Steps /\ exit \in Seq(Ways) /\ Steps \in Nat \ {0}
  BY StepsAssumption DEF SshGood, WorkerTypeOK, Ways
\* Every way out of the chain or the loop closes what is established.
<1>2. ASSUME pc \in WorkerPlaces \ {"Exiting", "Ended"}, UNCHANGED open,
             NEW way, pc' = "Exiting", exit' = way, Closes(way)
      PROVE  ChainOK'
  <2>1. \E n \in 0..Steps : open = 1..n
    <3>1. CASE pc \in {"Start", "Opening", "Deciding", "Trusting"}
      <4>1. open = 1..(step - 1) /\ step - 1 \in 0..Steps
        BY <1>1, <3>1 DEF ChainOK
      <4> QED BY <4>1
    <3>2. CASE pc = "Authenticating"
      <4>1. open = 1..step /\ step \in 0..Steps
        BY <1>1, <3>2 DEF ChainOK
      <4> QED BY <4>1
    <3>3. CASE pc \in {"OpeningShell", "Ready", "Running"}
      <4>1. open = 1..Steps /\ Steps \in 0..Steps
        BY <1>1, <3>3 DEF ChainOK
      <4> QED BY <4>1
    <3> QED BY <1>2, <3>1, <3>2, <3>3 DEF WorkerPlaces, Waiting
  <2> QED BY <1>2, <2>1 DEF ChainOK
<1>3. CASE Begin
  <2>1. open = 1..0 /\ step = 1
    BY <1>3 DEF Begin, ChainOK
  <2>2. CASE pc' = "Opening"
    BY <1>3, <2>1, <2>2 DEF Begin, ChainOK
  <2>3. CASE Leave(<<"Failed">>)
    <3>1. 0 \in 0..Steps /\ open' = 1..0 /\ pc' = "Exiting"
      BY <1>1, <1>3, <2>1, <2>3 DEF Begin, Leave
    <3> QED BY <3>1 DEF ChainOK
  <2> QED BY <1>3, <2>2, <2>3 DEF Begin
<1>4. CASE OpenTransport
  <2>1. open = 1..(step - 1) /\ open' = open \cup {step} /\ step' = step /\ pc' = "Authenticating"
    BY <1>4 DEF OpenTransport, ChainOK
  <2>2. open' = 1..step
    BY <1>1, <2>1
  <2> QED BY <2>1, <2>2 DEF ChainOK
<1>5. CASE AskForKey
  BY <1>5 DEF AskForKey, ChainOK
<1>6. CASE ChainStepFails
  BY <1>2, <1>6, WaysClose DEF ChainStepFails, Leave, WorkerPlaces, Waiting
<1>7. CASE TakeDecision
  <2>1. CASE pc' = "Trusting"
    BY <1>7, <2>1 DEF TakeDecision, ChainOK
  <2>2. CASE Leave(ChainFails)
    BY <1>2, <1>7, <2>2, WaysClose DEF TakeDecision, Leave, WorkerPlaces, Waiting
  <2> QED BY <1>7, <2>1, <2>2 DEF TakeDecision
<1>8. CASE Trust
  BY <1>8 DEF Trust, ChainOK
<1>9. CASE Authenticate
  <2>1. open' = 1..step
    BY <1>9 DEF Authenticate, ChainOK
  <2>2. CASE step < Steps
    <3>1. pc' = "Opening" /\ step' = step + 1 /\ (step + 1) - 1 = step
      BY <1>1, <1>9, <2>2 DEF Authenticate
    <3> QED BY <2>1, <3>1 DEF ChainOK
  <2>3. CASE ~ (step < Steps)
    <3>1. pc' = "OpeningShell" /\ step = Steps
      BY <1>1, <1>9, <2>3 DEF Authenticate
    <3> QED BY <2>1, <3>1 DEF ChainOK
  <2> QED BY <2>2, <2>3
<1>10. CASE OpenShell
  BY <1>10 DEF OpenShell, ChainOK
<1>11. CASE MarkConnected
  BY <1>11 DEF MarkConnected, ChainOK
<1>12. CASE RunCommand
  <2>1. CASE UNCHANGED pc
    BY <1>12, <2>1 DEF RunCommand, ChainOK
  <2>2. CASE LeaveShell(ShellDisconnects)
    BY <1>2, <1>12, <2>2, WaysClose DEF RunCommand, LeaveShell, Leave, WorkerPlaces
  <2> QED BY <1>12, <2>1, <2>2 DEF RunCommand
<1>13. CASE AbandonShell
  BY <1>2, <1>13, WaysClose DEF AbandonShell, LeaveShell, Leave, WorkerPlaces
<1>14. CASE ShellStepFails
  BY <1>2, <1>14, WaysClose DEF ShellStepFails, LeaveShell, Leave, WorkerPlaces, Waiting
<1>15. CASE DetectShell
  BY <1>15 DEF DetectShell, ChainOK
<1>16. CASE InstallHook
  BY <1>16 DEF InstallHook, ChainOK
<1>17. CASE ReadShell
  <2>1. CASE UNCHANGED pc
    BY <1>17, <2>1 DEF ReadShell, ChainOK
  <2>2. CASE LeaveShell(ShellDisconnects)
    BY <1>2, <1>17, <2>2, WaysClose DEF ReadShell, LeaveShell, Leave, WorkerPlaces
  <2> QED BY <1>17, <2>1, <2>2 DEF ReadShell
<1>18. CASE TakeWhileWaiting \/ AbandonWaiting
  <2>1. CASE UNCHANGED pc
    BY <1>18, <2>1 DEF TakeWhileWaiting, AbandonWaiting, ChainOK, StopWaiting, Leave, Waiting
  <2>2. CASE StopWaiting
    BY <1>2, <1>18, <2>2, WaysClose DEF TakeWhileWaiting, AbandonWaiting, StopWaiting, Leave,
       WorkerPlaces, Waiting
  <2> QED BY <1>18, <2>1, <2>2 DEF TakeWhileWaiting, AbandonWaiting
<1>19. CASE SendFails
  BY <1>2, <1>19, WaysClose DEF SendFails, LeaveShell, Leave, WorkerPlaces, Waiting
<1>20. CASE Unwind
  <2>1. PICK n \in 0..Steps : open = 1..n /\ (n = 0 \/ Closes(exit))
    BY <1>20 DEF Unwind, ChainOK
  <2>2. CASE exit = <<>>
    <3>1. ~ Closes(exit)
      BY <2>2 DEF Closes
    <3>2. open' = {} /\ pc' = "Ended"
      BY <1>20, <2>1, <2>2, <3>1 DEF Unwind
    <3> QED BY <3>2 DEF ChainOK
  <2>3. CASE exit # <<>> /\ Head(exit) = "Close" /\ open = {}
    <3>1. open' = 1..0 /\ pc' = "Exiting" /\ 0 \in 0..Steps
      BY <1>1, <1>20, <2>3 DEF Unwind
    <3> QED BY <3>1 DEF ChainOK
  <2>4. CASE exit # <<>> /\ Head(exit) = "Close" /\ open # {}
    <3>1. n \in Nat \ {0} /\ Closes(exit)
      BY <2>1, <2>4
    <3>2. open' = 1..(n - 1) /\ n - 1 \in 0..Steps /\ exit' = exit /\ pc' = "Exiting"
      <4>1. open' = open \ {Max(open)} /\ exit' = exit /\ pc' = "Exiting"
        BY <1>20, <2>4 DEF Unwind
      <4>2. open' = 1..(n - 1)
        BY <2>1, <3>1, <4>1, LastClosed
      <4>3. n - 1 \in 0..Steps
        BY <1>1, <2>1, <3>1
      <4> QED BY <4>1, <4>2, <4>3
    <3> QED BY <3>1, <3>2 DEF ChainOK
  <2>5. CASE exit # <<>> /\ Head(exit) # "Close"
    <3>1. open' = 1..n /\ exit' = Tail(exit) /\ pc' = "Exiting"
      BY <1>20, <2>1, <2>5 DEF Unwind
    <3>2. Closes(exit) => Closes(Tail(exit))
      BY <1>1, <2>5, ClosesLater
    <3> QED BY <2>1, <3>1, <3>2 DEF ChainOK
  <2> QED BY <2>2, <2>3, <2>4, <2>5
<1> QED BY <1>3, <1>4, <1>5, <1>6, <1>7, <1>8, <1>9, <1>10, <1>11, <1>12, <1>13, <1>14, <1>15, <1>16,
           <1>17, <1>18, <1>19, <1>20 DEF WorkerStep

LEMMA EstablishedLocalStep ==
  ASSUME ChildOK, kind = "Local", Local!LocalStep
  PROVE  pc' = "Ended" => child' # "Running" /\ child' # "Exited"
<1> USE DEF ChildOK, Local!KillAndReturn
<1>1. CASE Local!StartShell
  BY <1>1 DEF Local!StartShell
<1>2. CASE Local!AnnounceStart \/ Local!CheckReader \/ Local!InspectShell
  BY <1>2 DEF Local!AnnounceStart, Local!CheckReader, Local!InspectShell
<1>3. CASE Local!TakeCommand
  BY <1>3 DEF Local!TakeCommand
<1>4. CASE Local!CommandTimeout \/ Local!ReadOutput \/ Local!ShellExits
  BY <1>4 DEF Local!CommandTimeout, Local!ReadOutput, Local!ShellExits
<1> QED BY <1>1, <1>2, <1>3, <1>4 DEF Local!LocalStep

LEMMA EstablishedStep ==
  ASSUME TypeInv, EstablishedInv, [Next]_allVars
  PROVE  EstablishedInv'
<1>1. CASE SshStep
  <2>1. SshGood /\ kind = "Ssh" /\ WorkerStep /\ kind' = kind
    BY <1>1 DEF SshStep, windowVars, TypeInv, SshTypes, SshGood
  <2> QED BY <2>1, EstablishedSshStep DEF EstablishedInv, ChildOK
<1>2. CASE LocalStep
  BY <1>2, EstablishedLocalStep DEF LocalStep, windowVars, EstablishedInv, ChainOK, ChildOK
<1>3. CASE UNCHANGED <<workerVars, localVars, kind>>
  BY <1>3 DEF EstablishedInv, ChainOK, ChildOK, workerVars, chainVars, localVars
<1>4. ASSUME Type \/ Lay \/ DisconnectSession \/ RemoveSession
             \/ (\E decision \in {"Trust", "Reject"} : AnswerPrompt(decision))
             \/ Render \/ ResizeTimer \/ Pump
      PROVE  UNCHANGED <<workerVars, localVars, kind>>
  BY <1>4 DEF Type, Lay, DisconnectSession, RemoveSession, AnswerPrompt, Render, ResizeTimer, Pump
<1>5. CASE UNCHANGED allVars
  BY <1>3, <1>5 DEF allVars, windowVars
<1> QED BY <1>1, <1>2, <1>3, <1>4, <1>5 DEF Next

\* No transport is closed under one that runs through it, and a worker that has
\* returned has closed them all or ended its shell.
THEOREM TransportsClosedInOrder == Spec => []ClosedInOrder
<1> DEFINE Inv == TypeInv /\ EstablishedInv
<1>1. SystemInit => Inv
  BY TypeInit, EstablishedInit
<1>2. Inv /\ [Next]_allVars => Inv'
  BY TypeStep, TypeStutter, EstablishedStep
<1>3. ASSUME Inv PROVE ClosedInOrder
  <2>1. CASE kind = "Ssh"
    <3>1. pc \in WorkerPlaces /\ step \in 1..Steps /\ child = "None"
      BY <1>3, <2>1 DEF TypeInv, SshTypes, WorkerTypeOK
    <3>2. ChainOK
      BY <1>3 DEF EstablishedInv
    <3>3. \E n \in 0..Steps : open = 1..n
      <4>1. CASE pc \in {"Start", "Opening", "Deciding", "Trusting"}
        <5>1. open = 1..(step - 1) /\ step - 1 \in 0..Steps
          BY <2>1, <3>1, <3>2, <4>1, StepsAssumption DEF ChainOK
        <5> QED BY <5>1
      <4>2. CASE pc = "Authenticating"
        <5>1. open = 1..step /\ step \in 0..Steps
          BY <2>1, <3>1, <3>2, <4>2, StepsAssumption DEF ChainOK
        <5> QED BY <5>1
      <4>3. CASE pc \in {"OpeningShell", "Ready", "Running"}
        <5>1. open = 1..Steps /\ Steps \in 0..Steps
          BY <2>1, <3>2, <4>3, StepsAssumption DEF ChainOK
        <5> QED BY <5>1
      <4>4. CASE pc = "Exiting"
        BY <2>1, <3>2, <4>4 DEF ChainOK
      <4>5. CASE pc = "Ended"
        <5>1. open = 1..0 /\ 0 \in 0..Steps
          BY <2>1, <3>2, <4>5, StepsAssumption DEF ChainOK
        <5> QED BY <5>1
      <4> QED BY <3>1, <4>1, <4>2, <4>3, <4>4, <4>5 DEF WorkerPlaces, Waiting
    <3> QED BY <2>1, <3>1, <3>2, <3>3 DEF ClosedInOrder, ChainOK
  <2>2. CASE kind = "Local"
    <3>1. open = {} /\ ChildOK
      BY <1>3, <2>2 DEF TypeInv, LocalTypes, EstablishedInv
    <3>2. open = 1..0 /\ 0 \in 0..Steps
      BY <3>1, StepsAssumption
    <3> QED BY <2>2, <3>1, <3>2 DEF ClosedInOrder, ChildOK
  <2> QED BY <1>3, <2>1, <2>2 DEF TypeInv
<1> QED
  <2> HIDE DEF Inv
  <2> QED BY <1>1, <1>2, <1>3, PTL DEF Spec

-----------------------------------------------------------------------------
(* Host keys: while the worker awaits a decision there is one question, in *)
(* the events or in the prompt; without one there is none.                 *)

OneKey(queue, s, key) ==
  \A i \in 1..Len(queue) : queue[i].kind = "HostKeyVerificationRequired" =>
    /\ queue[i].step = s /\ queue[i].key = key
    /\ \A j \in 1..Len(queue) : queue[j].kind = "HostKeyVerificationRequired" => j = i

Gone == {"Exiting", "Ended"}

AskedOnce ==
  asking =>
    /\ pc = "Deciding" /\ decisions = <<>>
    /\ OneKey(events, step, presented)
    /\ prompt # {} => prompt = {<<step, presented>>} /\ NoKey(events)

NothingAsked == ~ asking /\ pc \notin Gone => prompt = {} /\ NoKey(events)

DecisionOK ==
  /\ Len(decisions) <= 1
  /\ pc \notin Gone \cup {"Deciding"} => decisions = <<>>
  /\ pc = "Deciding" /\ decisions # <<>> /\ Head(decisions) = "Trust" =>
       <<step, presented>> \in approved
  /\ pc = "Trusting" => <<step, presented>> \in approved

AskInv ==
  /\ kind = "Ssh" => AskedOnce /\ NothingAsked /\ DecisionOK
  /\ learned \subseteq approved

LEMMA OneKeyAsked ==
  ASSUME NEW queue \in Seq(Events), NoKey(queue), NEW event \in Events
  PROVE  OneKey(Append(queue, event), event.step, event.key)
<1>1. PICK longer : longer = Append(queue, event)
  OBVIOUS
<1>2. /\ Len(longer) = Len(queue) + 1 /\ Len(queue) \in Nat
      /\ longer[Len(queue) + 1] = event /\ \A i \in 1..Len(queue) : longer[i] = queue[i]
  BY <1>1
<1>3. \A i \in 1..Len(longer) : i \in 1..Len(queue) \/ i = Len(queue) + 1
  BY <1>2
<1>4. \A i \in 1..Len(longer) :
        longer[i].kind = "HostKeyVerificationRequired" => i = Len(queue) + 1
  BY <1>2, <1>3 DEF NoKey
<1>5. OneKey(longer, event.step, event.key)
  BY <1>2, <1>4 DEF OneKey
<1> QED BY <1>1, <1>5

LEMMA OneKeyHeard ==
  ASSUME NEW queue \in Seq(Events), queue # <<>>, NEW s, NEW key, OneKey(queue, s, key)
  PROVE  /\ OneKey(Tail(queue), s, key)
         /\ Head(queue).kind = "HostKeyVerificationRequired" =>
              NoKey(Tail(queue)) /\ Head(queue).step = s /\ Head(queue).key = key
<1>1. PICK rest : rest = Tail(queue)
  OBVIOUS
<1>2. /\ Len(rest) = Len(queue) - 1 /\ Len(queue) \in Nat \ {0} /\ Head(queue) = queue[1]
      /\ \A i \in 1..Len(rest) : rest[i] = queue[i + 1]
  BY <1>1, HeadTailProperties, EmptySeq
<1>3. \A i \in 1..Len(rest) : i + 1 \in 1..Len(queue) /\ i + 1 # 1
  BY <1>2
<1>4. 1 \in 1..Len(queue)
  BY <1>2
<1>5. OneKey(rest, s, key)
  <2> SUFFICES ASSUME NEW i \in 1..Len(rest), rest[i].kind = "HostKeyVerificationRequired"
               PROVE  /\ rest[i].step = s /\ rest[i].key = key
                      /\ \A j \in 1..Len(rest) :
                           rest[j].kind = "HostKeyVerificationRequired" => j = i
    BY DEF OneKey
  <2>1. i + 1 \in 1..Len(queue) /\ queue[i + 1].kind = "HostKeyVerificationRequired"
        /\ rest[i] = queue[i + 1]
    BY <1>2, <1>3
  <2>2. ASSUME NEW j \in 1..Len(rest), rest[j].kind = "HostKeyVerificationRequired" PROVE j = i
    <3>1. j + 1 \in 1..Len(queue) /\ queue[j + 1].kind = "HostKeyVerificationRequired"
      BY <1>2, <1>3, <2>2
    <3>2. j + 1 = i + 1
      BY <2>1, <3>1 DEF OneKey
    <3> QED BY <1>2, <3>2
  <2> QED BY <2>1, <2>2 DEF OneKey
<1>6. ASSUME Head(queue).kind = "HostKeyVerificationRequired"
      PROVE  NoKey(rest) /\ Head(queue).step = s /\ Head(queue).key = key
  <2>1. Head(queue).step = s /\ Head(queue).key = key
        /\ \A j \in 1..Len(queue) : queue[j].kind = "HostKeyVerificationRequired" => j = 1
    BY <1>2, <1>4, <1>6 DEF OneKey
  <2>2. NoKey(rest)
    BY <1>2, <1>3, <2>1 DEF NoKey
  <2> QED BY <2>1, <2>2
<1> QED BY <1>1, <1>5, <1>6

LEMMA AskInit ==
  ASSUME SystemInit
  PROVE  AskInv
BY DEF SystemInit, WorkerInit, ChannelInit, AskInv, AskedOnce, NothingAsked, DecisionOK, NoKey

\* While nothing is asked, what else the worker says asks nothing.
LEMMA SaysNoKey ==
  ASSUME SshGood, NoKey(events),
         \/ Begin \/ OpenTransport \/ OpenShell \/ MarkConnected \/ RunCommand \/ ReadShell
  PROVE  NoKey(events')
<1>1. events \in Seq(Events) /\ remote \in Sizes
  BY DEF SshGood, ChannelTypes, WorkerTypeOK
<1>2. ASSUME NEW event \in Events, event.kind # "HostKeyVerificationRequired", Emit(event)
      PROVE  NoKey(events')
  BY <1>1, <1>2, NoKeyKept DEF Emit
<1>3. {"Connecting", "Authenticating", "Connected"} \subseteq SessionStates
  BY DEF SessionStates
<1>4. CASE UNCHANGED events
  BY <1>4
<1>5. CASE Begin \/ OpenTransport \/ MarkConnected
  BY <1>2, <1>3, <1>4, <1>5, EventsMade DEF Begin, OpenTransport, MarkConnected
<1>6. CASE OpenShell
  BY <1>1, <1>2, <1>6, EventsMade DEF OpenShell
<1>7. CASE ReadShell
  BY <1>2, <1>7, EventsMade DEF ReadShell
<1>8. CASE RunCommand
  <2>1. CASE Inbox # <<>> /\ Head(Inbox).kind = "Resize"
             /\ Emit(Resized(Inbox[ResizeRun(Inbox)].size))
    <3>1. Inbox \in Seq(Commands)
      BY InboxTypes DEF SshGood
    <3>2. ResizeRun(Inbox) \in 1..Len(Inbox) /\ Inbox[ResizeRun(Inbox)].kind = "Resize"
      BY <2>1, <3>1, RunFacts
    <3>3. Inbox[ResizeRun(Inbox)] \in Commands
      BY <3>1, <3>2
    <3>4. Inbox[ResizeRun(Inbox)].size \in Sizes
      BY <3>2, <3>3, CommandFacts
    <3> QED BY <1>2, <2>1, <3>4, EventsMade
  <2> QED BY <1>4, <1>8, <2>1 DEF RunCommand
<1> QED BY <1>5, <1>6, <1>7, <1>8

LEMMA AskSshStep ==
  ASSUME SshGood, SshGood', kind = "Ssh", AskInv, WorkerStep, UNCHANGED <<localVars, windowVars>>
  PROVE  AskInv'
<1> USE DEF channelVars, chainVars, shellVars, hostVars
<1>1. AskedOnce /\ NothingAsked /\ DecisionOK /\ learned \subseteq approved
  BY DEF AskInv
<1>2. kind' = kind /\ prompt' = prompt /\ approved' = approved
  BY DEF windowVars
<1>3. events \in Seq(Events) /\ decisions \in Seq({"Trust", "Reject"}) /\ asking \in BOOLEAN
      /\ asking' \in BOOLEAN
  BY DEF SshGood, ChannelTypes
\* A worker that leaves: nothing more is asked.
<1>4. ASSUME pc' \in Gone, asking' = FALSE, UNCHANGED decisions, learned' \subseteq approved
      PROVE  AskInv'
  BY <1>1, <1>2, <1>4 DEF AskInv, AskedOnce, NothingAsked, DecisionOK, Gone
\* A worker that does not ask goes on.
<1>5. ASSUME pc \notin Gone \cup {"Deciding"}, pc' \notin Gone \cup {"Deciding"},
             UNCHANGED <<decisions, asking>>, learned' \subseteq approved,
             NoKey(events) => NoKey(events'),
             pc' = "Trusting" => pc = "Trusting" /\ UNCHANGED <<step, presented>>
      PROVE  AskInv'
  <2>1. asking = FALSE /\ prompt = {} /\ NoKey(events) /\ decisions = <<>>
    BY <1>1, <1>3, <1>5 DEF AskedOnce, NothingAsked, DecisionOK, Gone
  <2> QED BY <1>1, <1>2, <1>5, <2>1 DEF AskInv, AskedOnce, NothingAsked, DecisionOK, Gone
<1>6. pc # "Deciding" => asking = FALSE
  BY <1>1, <1>3 DEF AskedOnce
<1>7. CASE Begin
  <2>1. CASE pc' = "Opening"
    BY <1>1, <1>5, <1>7, <2>1, SaysNoKey DEF Begin, Gone
  <2>2. CASE Leave(<<"Failed">>)
    BY <1>1, <1>4, <1>6, <1>7, <2>2 DEF Begin, Leave, Gone
  <2> QED BY <1>7, <2>1, <2>2 DEF Begin
<1>8. CASE OpenTransport
  BY <1>1, <1>5, <1>8, SaysNoKey DEF OpenTransport, Gone
<1>9. CASE AskForKey
  <2>1. prompt = {} /\ NoKey(events) /\ decisions = <<>>
    BY <1>1, <1>6, <1>9 DEF AskForKey, NothingAsked, DecisionOK, Gone
  <2>2. presented' \in Keys /\ step \in 1..Steps /\ step' = step
    BY <1>9 DEF AskForKey, SshGood, WorkerTypeOK
  <2>3. PICK key \in Keys : key = presented'
    BY <2>2
  <2>4. PICK event \in Events : event = HostKeyVerificationRequired(step, key)
    BY <2>2, EventsMade
  <2>5. event.step = step /\ event.key = key
    BY <2>2, <2>4, EventsMade
  <2>6. events' = Append(events, event)
    BY <1>9, <2>3, <2>4 DEF AskForKey, Emit
  <2>7. OneKey(events', step', presented')
    BY <1>3, <2>1, <2>2, <2>3, <2>5, <2>6, OneKeyAsked
  <2>8. pc' = "Deciding" /\ asking' = TRUE /\ decisions' = <<>> /\ prompt' = {} /\ learned' = learned
    BY <1>2, <1>9, <2>1 DEF AskForKey
  <2>9. AskedOnce' /\ NothingAsked' /\ DecisionOK'
    <3>1. Len(decisions') <= 1 /\ decisions' = <<>>
      BY <2>8, EmptySeq
    <3> QED BY <2>7, <2>8, <3>1 DEF AskedOnce, NothingAsked, DecisionOK, Gone
  <2> QED BY <1>1, <1>2, <2>8, <2>9 DEF AskInv
<1>10. CASE ChainStepFails
  BY <1>1, <1>4, <1>6, <1>10 DEF ChainStepFails, Leave, Gone
<1>11. CASE TakeDecision
  <2>1. Len(decisions') <= 1 /\ decisions' = <<>>
    <3>1. CASE decisions = <<>>
      BY <1>11, <3>1, EmptySeq DEF TakeDecision
    <3>2. CASE decisions # <<>>
      <4>1. Len(decisions) = 1
        <5>1. Len(decisions) <= 1
          BY <1>1 DEF DecisionOK
        <5>2. PICK m \in Nat \ {0} : m = Len(decisions)
          BY <1>3, <3>2, EmptySeq
        <5>3. m <= 1
          BY <5>1, <5>2
        <5> QED BY <5>2, <5>3
      <4>2. Tail(decisions) \in Seq({"Trust", "Reject"}) /\ Len(Tail(decisions)) = 0
        BY <1>3, <3>2, <4>1, HeadTailProperties
      <4>3. Tail(decisions) = <<>>
        BY <4>2, EmptySeq
      <4> QED BY <1>11, <3>2, <4>2, <4>3 DEF TakeDecision
    <3> QED BY <3>1, <3>2
  <2>2. CASE decisions # <<>> /\ Head(decisions) = "Trust"
    <3>1. <<step, presented>> \in approved
      BY <1>1, <1>11, <2>2 DEF DecisionOK, TakeDecision
    <3>2. asking = FALSE
      BY <1>1, <1>3, <2>2 DEF AskedOnce
    <3>3. prompt = {} /\ NoKey(events)
      BY <1>1, <1>11, <3>2 DEF NothingAsked, TakeDecision, Gone
    <3>4. pc' = "Trusting" /\ asking' = FALSE /\ UNCHANGED <<events, step, presented, learned>>
      BY <1>11, <2>2 DEF TakeDecision
    <3>5. AskedOnce' /\ NothingAsked' /\ DecisionOK'
      BY <1>2, <2>1, <3>1, <3>3, <3>4 DEF AskedOnce, NothingAsked, DecisionOK, Gone
    <3> QED BY <1>1, <1>2, <3>4, <3>5 DEF AskInv
  <2>3. CASE ~ (decisions # <<>> /\ Head(decisions) = "Trust")
    <3>1. pc' = "Exiting" /\ asking' = FALSE /\ learned' = learned
      BY <1>11, <2>3 DEF TakeDecision, Leave
    <3>2. AskedOnce' /\ NothingAsked' /\ DecisionOK'
      BY <2>1, <3>1 DEF AskedOnce, NothingAsked, DecisionOK, Gone
    <3> QED BY <1>1, <1>2, <3>1, <3>2 DEF AskInv
  <2> QED BY <2>2, <2>3
<1>12. CASE Trust
  <2>1. learned' \subseteq approved
    BY <1>1, <1>12 DEF Trust, DecisionOK
  <2> QED BY <1>5, <1>12, <2>1 DEF Trust, Gone
<1>13. CASE Authenticate
  BY <1>1, <1>5, <1>13 DEF Authenticate, Gone
<1>14. CASE OpenShell
  BY <1>1, <1>5, <1>14, SaysNoKey DEF OpenShell, Gone
<1>15. CASE MarkConnected
  BY <1>1, <1>5, <1>15, SaysNoKey DEF MarkConnected, Gone
<1>16. CASE RunCommand
  <2>1. CASE UNCHANGED pc
    BY <1>1, <1>5, <1>16, <2>1, SaysNoKey DEF RunCommand, Gone
  <2>2. CASE LeaveShell(ShellDisconnects)
    BY <1>1, <1>4, <1>6, <1>16, <2>2 DEF RunCommand, LeaveShell, Leave, Gone
  <2> QED BY <1>16, <2>1, <2>2 DEF RunCommand
<1>17. CASE AbandonShell
  BY <1>1, <1>4, <1>6, <1>17 DEF AbandonShell, LeaveShell, Leave, Gone
<1>18. CASE ShellStepFails
  BY <1>1, <1>4, <1>6, <1>18 DEF ShellStepFails, LeaveShell, Leave, Gone
<1>19. CASE DetectShell
  BY <1>1, <1>5, <1>19 DEF DetectShell, Gone
<1>20. CASE InstallHook
  BY <1>1, <1>5, <1>20 DEF InstallHook, Gone
<1>21. CASE ReadShell
  <2>1. CASE UNCHANGED pc
    BY <1>1, <1>5, <1>21, <2>1, SaysNoKey DEF ReadShell, Gone
  <2>2. CASE LeaveShell(ShellDisconnects)
    BY <1>1, <1>4, <1>6, <1>21, <2>2 DEF ReadShell, LeaveShell, Leave, Gone
  <2> QED BY <1>21, <2>1, <2>2 DEF ReadShell
<1>22. CASE TakeWhileWaiting \/ AbandonWaiting
  <2>1. CASE UNCHANGED <<pc, asking, learned>>
    <3>1. UNCHANGED <<pc, asking, learned, events, decisions, step, presented>>
      BY <1>22, <2>1 DEF TakeWhileWaiting, AbandonWaiting
    <3> QED BY <1>1, <1>2, <3>1 DEF AskInv, AskedOnce, NothingAsked, DecisionOK
  <2>2. CASE StopWaiting
    <3>1. learned' \subseteq approved
      BY <1>1, <2>2 DEF StopWaiting, DecisionOK
    <3> QED BY <1>4, <1>22, <2>2, <3>1 DEF TakeWhileWaiting, AbandonWaiting, StopWaiting, Leave, Gone
  <2> QED BY <1>22, <2>1, <2>2 DEF TakeWhileWaiting, AbandonWaiting
<1>23. CASE SendFails
  BY <1>1, <1>4, <1>6, <1>23 DEF SendFails, LeaveShell, Leave, Gone, Waiting
<1>24. CASE Unwind
  BY <1>1, <1>4, <1>6, <1>24 DEF Unwind, Gone
<1> QED BY <1>7, <1>8, <1>9, <1>10, <1>11, <1>12, <1>13, <1>14, <1>15, <1>16, <1>17, <1>18, <1>19,
           <1>20, <1>21, <1>22, <1>23, <1>24 DEF WorkerStep

\* The user answers what they are asked.
LEMMA AskAnswered ==
  ASSUME TypeInv, AskInv, NEW decision \in {"Trust", "Reject"}, AnswerPrompt(decision)
  PROVE  AskInv'
<1>1. kind = "Ssh" /\ kind' = kind
  BY DEF TypeInv, LocalTypes, AnswerPrompt
<1>2. AskedOnce /\ NothingAsked /\ DecisionOK /\ learned \subseteq approved
  BY <1>1 DEF AskInv
<1>3. prompt # {} /\ prompt' = {} /\ UNCHANGED <<events, pc, step, presented, learned>>
  BY DEF AnswerPrompt, workerVars, chainVars, hostVars
<1>4. CASE asking /\ pc # "Ended"
  <2>1. pc = "Deciding" /\ decisions = <<>> /\ prompt = {<<step, presented>>} /\ NoKey(events)
    BY <1>2, <1>3, <1>4 DEF AskedOnce
  <2>2. asking' = FALSE /\ decisions' = Append(decisions, decision)
        /\ approved' = (IF decision = "Trust" THEN approved \cup prompt ELSE approved)
    BY <1>4 DEF AnswerPrompt
  <2>3. decisions' = <<decision>> /\ Len(decisions') = 1 /\ Head(decisions') = decision
    BY <2>1, <2>2
  <2>4. decision = "Trust" => <<step, presented>> \in approved'
    BY <2>1, <2>2
  <2>5. learned' \subseteq approved'
    BY <1>2, <1>3, <2>2
  <2>6. AskedOnce' /\ NothingAsked' /\ DecisionOK'
    BY <1>3, <2>1, <2>2, <2>3, <2>4 DEF AskedOnce, NothingAsked, DecisionOK, Gone
  <2> QED BY <2>5, <2>6 DEF AskInv
<1>5. CASE ~ (asking /\ pc # "Ended")
  <2>1. UNCHANGED <<asking, decisions, approved>>
    BY <1>5 DEF AnswerPrompt
  <2>2. pc \in Gone
    <3>1. asking => pc = "Ended"
      BY <1>5
    <3> QED BY <1>2, <1>3, <3>1 DEF AskedOnce, NothingAsked, Gone
  <2> QED BY <1>1, <1>2, <1>3, <2>1, <2>2 DEF AskInv, AskedOnce, NothingAsked, DecisionOK, Gone
<1> QED BY <1>4, <1>5

LEMMA AskPumped ==
  ASSUME TypeInv, AskInv, Pump
  PROVE  AskInv'
<1>1. UNCHANGED <<decisions, asking, pc, step, presented, learned, kind, approved>>
  BY DEF Pump, workerVars, chainVars, hostVars
<1>2. learned' \subseteq approved'
  BY <1>1 DEF AskInv
<1> SUFFICES ASSUME kind = "Ssh" PROVE AskedOnce' /\ NothingAsked' /\ DecisionOK'
  BY <1>1, <1>2 DEF AskInv
<1>3. AskedOnce /\ NothingAsked /\ DecisionOK
  BY DEF AskInv
<1>4. events \in Seq(Events) /\ events # <<>> /\ asking \in BOOLEAN
  BY DEF TypeInv, ChannelTypes, Pump
<1>5. PICK event \in Events : event = Head(events)
  BY <1>4, HeadTailProperties
<1>6. Handle(event) /\ events' = Tail(events)
  BY <1>5 DEF Pump
<1>7. DecisionOK'
  BY <1>1, <1>3 DEF DecisionOK
<1>8. event.kind # "HostKeyVerificationRequired" => prompt' = prompt \/ prompt' = {}
  BY <1>6, HandleTypes DEF TypeInv
<1>9. NothingAsked'
  <2> SUFFICES ASSUME ~ asking, pc \notin Gone PROVE prompt' = {} /\ NoKey(events')
    BY <1>1 DEF NothingAsked
  <2>1. prompt = {} /\ NoKey(events)
    BY <1>3 DEF NothingAsked
  <2>2. NoKey(Tail(events)) /\ event.kind # "HostKeyVerificationRequired"
    BY <1>4, <1>5, <2>1, NoKeyKept
  <2> QED BY <1>6, <1>8, <2>1, <2>2
<1>10. AskedOnce'
  <2> SUFFICES ASSUME asking
               PROVE  /\ OneKey(events', step, presented)
                      /\ prompt' # {} => prompt' = {<<step, presented>>} /\ NoKey(events')
    BY <1>1, <1>3 DEF AskedOnce
  <2>1. OneKey(events, step, presented)
        /\ (prompt # {} => prompt = {<<step, presented>>} /\ NoKey(events))
    BY <1>3 DEF AskedOnce
  <2>2. OneKey(Tail(events), step, presented)
    BY <1>4, <2>1, OneKeyHeard
  <2>3. CASE event.kind # "HostKeyVerificationRequired"
    <3>1. NoKey(events) => NoKey(Tail(events))
      BY <1>4, NoKeyKept
    <3> QED BY <1>6, <1>8, <2>1, <2>2, <2>3, <3>1
  <2>4. CASE event.kind = "HostKeyVerificationRequired"
    <3>1. NoKey(Tail(events)) /\ event.step = step /\ event.key = presented
      BY <1>4, <1>5, <2>1, <2>4, OneKeyHeard
    <3>2. prompt' = {<<event.step, event.key>>} \/ prompt' = prompt
      BY <1>6, <2>4 DEF Handle
    <3> QED BY <1>6, <2>1, <2>2, <3>1, <3>2
  <2> QED BY <2>3, <2>4
<1> QED BY <1>7, <1>9, <1>10

LEMMA AskStep ==
  ASSUME TypeInv, AskInv, [Next]_allVars
  PROVE  AskInv'
<1>1. CASE SshStep
  <2>1. SshGood /\ kind = "Ssh" /\ WorkerStep /\ UNCHANGED <<localVars, windowVars>>
    BY <1>1 DEF SshStep, TypeInv, SshTypes, SshGood
  <2>2. SshGood'
    BY <2>1, ChainTypes, WaitingTypes, UnwindTypes, RunCommandTypes, ShellTypesKept DEF WorkerStep
  <2> QED BY <2>1, <2>2, AskSshStep
<1>2. CASE LocalStep
  BY <1>2 DEF LocalStep, windowVars, hostVars, AskInv
<1>3. CASE UNCHANGED <<events, decisions, asking, workerVars, kind, prompt, approved>>
  BY <1>3 DEF AskInv, AskedOnce, NothingAsked, DecisionOK, workerVars, chainVars, hostVars
<1>4. CASE Type \/ Lay \/ DisconnectSession \/ Render \/ ResizeTimer
  BY <1>3, <1>4 DEF Type, Lay, DisconnectSession, Render, ResizeTimer, channelVars
<1>5. CASE RemoveSession
  <2>1. prompt' = {} /\ UNCHANGED <<events, decisions, asking, workerVars, kind, approved>>
    BY <1>5 DEF RemoveSession
  <2> QED BY <2>1 DEF AskInv, AskedOnce, NothingAsked, DecisionOK, workerVars, chainVars, hostVars
<1>6. CASE UNCHANGED allVars
  BY <1>3, <1>6 DEF allVars, channelVars, windowVars
<1> QED BY <1>1, <1>2, <1>4, <1>5, <1>6, AskAnswered, AskPumped DEF Next

\* Only keys the user was looking at, for that very step, are recorded.
THEOREM LearnedKeysWereApproved == Spec => []OnlyApprovedKeysLearned
<1>1. SystemInit => TypeInv /\ AskInv
  BY TypeInit, AskInit
<1>2. (TypeInv /\ AskInv) /\ [Next]_allVars => (TypeInv /\ AskInv)'
  BY TypeStep, TypeStutter, AskStep
<1>3. AskInv => OnlyApprovedKeysLearned
  BY DEF AskInv, OnlyApprovedKeysLearned
<1> QED BY <1>1, <1>2, <1>3, PTL DEF Spec

-----------------------------------------------------------------------------
(* Input: before the shell is open nothing is typed, and from then on the  *)
(* stream is kept by whatever takes commands.                              *)

NoInput(queue) == \A i \in 1..Len(queue) : queue[i].kind # "Input"

Tells(event) == event.kind = "Started" \/ (event.kind = "StateChanged" /\ event.state = "Connected")

NoStart(queue) == \A i \in 1..Len(queue) : ~ Tells(queue[i])

Early == {"Start", "Starting", "Ready"} \cup Waiting

FlowInv ==
  /\ pc \in Early =>
       /\ typed = 0 /\ received = <<>> /\ pending = <<>> /\ NoInput(commands)
       /\ shown # "Connected" /\ NoStart(events)
  /\ TypedInOrder

LEMMA NoInputKept ==
  ASSUME NEW queue \in Seq(Commands), NoInput(queue)
  PROVE  /\ \A command \in Commands : command.kind # "Input" => NoInput(Append(queue, command))
         /\ queue # <<>> => NoInput(Tail(queue)) /\ Head(queue).kind # "Input"
<1>1. ASSUME NEW command \in Commands, command.kind # "Input" PROVE NoInput(Append(queue, command))
  <2>1. PICK longer : longer = Append(queue, command)
    OBVIOUS
  <2>2. /\ Len(longer) = Len(queue) + 1 /\ Len(queue) \in Nat
        /\ longer[Len(queue) + 1] = command /\ \A i \in 1..Len(queue) : longer[i] = queue[i]
    BY <2>1
  <2>3. \A i \in 1..Len(longer) : i \in 1..Len(queue) \/ i = Len(queue) + 1
    BY <2>2
  <2>4. NoInput(longer)
    BY <1>1, <2>2, <2>3 DEF NoInput
  <2> QED BY <2>1, <2>4
<1>2. ASSUME queue # <<>> PROVE NoInput(Tail(queue)) /\ Head(queue).kind # "Input"
  <2>1. PICK rest : rest = Tail(queue)
    OBVIOUS
  <2>2. /\ Len(rest) = Len(queue) - 1 /\ Len(queue) \in Nat \ {0} /\ Head(queue) = queue[1]
        /\ \A i \in 1..Len(rest) : rest[i] = queue[i + 1]
    BY <1>2, <2>1, HeadTailProperties, EmptySeq
  <2>3. NoInput(rest)
    BY <2>2 DEF NoInput
  <2> QED BY <2>1, <2>2, <2>3 DEF NoInput
<1> QED BY <1>1, <1>2

LEMMA NoStartKept ==
  ASSUME NEW queue \in Seq(Events), NoStart(queue)
  PROVE  /\ \A event \in Events : ~ Tells(event) => NoStart(Append(queue, event))
         /\ queue # <<>> => NoStart(Tail(queue)) /\ ~ Tells(Head(queue))
<1>1. ASSUME NEW event \in Events, ~ Tells(event) PROVE NoStart(Append(queue, event))
  <2>1. PICK longer : longer = Append(queue, event)
    OBVIOUS
  <2>2. /\ Len(longer) = Len(queue) + 1 /\ Len(queue) \in Nat
        /\ longer[Len(queue) + 1] = event /\ \A i \in 1..Len(queue) : longer[i] = queue[i]
    BY <2>1
  <2>3. \A i \in 1..Len(longer) : i \in 1..Len(queue) \/ i = Len(queue) + 1
    BY <2>2
  <2>4. NoStart(longer)
    BY <1>1, <2>2, <2>3 DEF NoStart
  <2> QED BY <2>1, <2>4
<1>2. ASSUME queue # <<>> PROVE NoStart(Tail(queue)) /\ ~ Tells(Head(queue))
  <2>1. PICK rest : rest = Tail(queue)
    OBVIOUS
  <2>2. /\ Len(rest) = Len(queue) - 1 /\ Len(queue) \in Nat \ {0} /\ Head(queue) = queue[1]
        /\ \A i \in 1..Len(rest) : rest[i] = queue[i + 1]
    BY <1>2, <2>1, HeadTailProperties, EmptySeq
  <2>3. NoStart(rest)
    BY <2>2 DEF NoStart
  <2> QED BY <2>1, <2>2, <2>3 DEF NoStart
<1> QED BY <1>1, <1>2

\* A stream without input is in order before anything is typed.
LEMMA StreamIdle ==
  ASSUME NEW queue \in Seq(Commands), NoInput(queue)
  PROVE  Ordered(StreamOf(<<>>, queue), 0)
<1>1. PICK q : q = Numbers(queue)
  OBVIOUS
<1>2. q \in Seq(Nat) /\ Len(q) = Len(queue) /\ \A i \in 1..Len(queue) : q[i] = Number(queue[i])
  BY <1>1, NumbersAre
<1>3. \A i \in 1..Len(q) : q[i] = 0
  BY <1>2 DEF NoInput, Number, Hook
<1>4. Rising(q, Len(q), 0)
  BY <1>3 DEF Rising
<1>5. Ordered(q, 0)
  BY <1>2, <1>4, OrderedRising
<1>6. <<>> \o q = q
  BY <1>2, ConcatEmptySeq
<1> QED BY <1>1, <1>5, <1>6 DEF StreamOf

LEMMA FlowInit ==
  ASSUME SystemInit
  PROVE  FlowInv
BY DEF SystemInit, WorkerInit, ChannelInit, FlowInv, TypedInOrder, NoInput, NoStart

\* Without a change of what the worker has to do, of what it typed and of what was typed.
LEMMA FlowSame ==
  ASSUME TypedInOrder, UNCHANGED <<pending, commands, received, typed>>,
         pc' \in {"Running", "Polling", "Inspecting"} => pc \in {"Running", "Polling", "Inspecting"}
  PROVE  TypedInOrder'
<1>1. Inbox' = Inbox
  BY DEF Inbox
<1>2. Stream' = Stream
  BY <1>1 DEF Stream
<1> QED BY <1>2 DEF TypedInOrder

\* The stream the next state has, in which the worker serves.
LEMMA FlowTo ==
  ASSUME NEW queue, NEW typing, Inbox' = queue, received' = typing,
         Ordered(StreamOf(typing, queue), typed')
  PROVE  TypedInOrder'
<1>1. Stream' = StreamOf(typing, queue)
  BY DEF Stream, StreamOf, Numbers, Number
<1> QED BY <1>1 DEF TypedInOrder

LEMMA FlowSshStep ==
  ASSUME SshGood, SshGood', kind = "Ssh", typed \in Nat, FlowInv, WorkerStep,
         UNCHANGED <<localVars, windowVars>>
  PROVE  FlowInv'
<1> USE DEF channelVars, chainVars, shellVars, hostVars
<1>1. shown' = shown /\ typed' = typed
  BY DEF windowVars
<1>2. /\ commands \in Seq(Commands) /\ pending \in Seq(Commands) /\ received \in Seq(Nat)
      /\ events \in Seq(Events) /\ remote \in Sizes /\ Inbox \in Seq(Commands)
  BY InboxTypes DEF SshGood, ChannelTypes, ShellTypes, WorkerTypeOK
\* A worker that leaves owes nothing.
<1>3. ASSUME pc' \in Gone PROVE FlowInv'
  BY <1>3 DEF Gone, FlowInv, TypedInOrder, Early, Waiting
\* A worker that waits goes on waiting.
<1>4. ASSUME pc \in Early, pc' \in Early, UNCHANGED <<pending, received>>, NoInput(commands'),
             NoStart(events) => NoStart(events')
      PROVE  FlowInv'
  <2>1. pc' \notin {"Running", "Polling", "Inspecting"}
    BY <1>4 DEF Early, Waiting
  <2> QED BY <1>1, <1>4, <2>1 DEF FlowInv, TypedInOrder
\* A worker that serves goes on, and has done nothing to the stream.
<1>5. ASSUME pc = "Running", pc' = "Running", UNCHANGED <<pending, commands, received>>
      PROVE  FlowInv'
  <2>1. TypedInOrder'
    BY <1>1, <1>5, FlowSame DEF FlowInv
  <2> QED BY <1>5, <2>1 DEF FlowInv, Early, Waiting
<1>6. ASSUME NEW event \in Events, ~ Tells(event), Emit(event)
      PROVE  NoStart(events) => NoStart(events')
  BY <1>2, <1>6, NoStartKept DEF Emit
<1>7. pc \in Early => NoInput(commands)
  BY DEF FlowInv
<1>8. {"Connecting", "Authenticating"} \subseteq SessionStates
  BY DEF SessionStates
<1>9. ~ Tells(StateChanged("Connecting")) /\ ~ Tells(StateChanged("Authenticating"))
  BY DEF Tells, StateChanged
<1>10. CASE Begin
  <2>1. NoStart(events) => NoStart(events')
    BY <1>6, <1>8, <1>9, <1>10, EventsMade DEF Begin
  <2>2. CASE pc' = "Opening"
    BY <1>4, <1>7, <1>10, <2>1, <2>2 DEF Begin, Early, Waiting
  <2>3. CASE Leave(<<"Failed">>)
    BY <1>3, <2>3 DEF Leave, Gone
  <2> QED BY <1>10, <2>2, <2>3 DEF Begin
<1>11. CASE OpenTransport
  <2>1. NoStart(events) => NoStart(events')
    BY <1>6, <1>8, <1>9, <1>11, EventsMade DEF OpenTransport
  <2> QED BY <1>4, <1>7, <1>11, <2>1 DEF OpenTransport, Early, Waiting
<1>12. CASE AskForKey
  <2>1. PICK key \in Keys : key = presented'
    BY <1>12 DEF AskForKey
  <2>2. step \in 1..Steps
    BY DEF SshGood, WorkerTypeOK
  <2>3. PICK event \in Events : event = HostKeyVerificationRequired(step, key)
    BY <2>2, EventsMade
  <2>4. ~ Tells(event)
    BY <2>3 DEF Tells, HostKeyVerificationRequired
  <2>5. NoStart(events) => NoStart(events')
    BY <1>6, <1>12, <2>1, <2>3, <2>4 DEF AskForKey
  <2> QED BY <1>4, <1>7, <1>12, <2>5 DEF AskForKey, Early, Waiting
<1>13. CASE ChainStepFails
  BY <1>3, <1>13 DEF ChainStepFails, Leave, Gone
<1>14. CASE TakeDecision
  <2>1. CASE pc' = "Trusting"
    BY <1>4, <1>7, <1>14, <2>1 DEF TakeDecision, Early, Waiting
  <2>2. CASE Leave(ChainFails)
    BY <1>3, <2>2 DEF Leave, Gone
  <2> QED BY <1>14, <2>1, <2>2 DEF TakeDecision
<1>15. CASE Trust
  BY <1>4, <1>7, <1>15 DEF Trust, Early, Waiting
<1>16. CASE Authenticate
  BY <1>4, <1>7, <1>16 DEF Authenticate, Early, Waiting
<1>17. CASE OpenShell
  <2>1. Resized(remote) \in Events /\ ~ Tells(Resized(remote))
    BY <1>2, EventsMade DEF Tells
  <2>2. NoStart(events) => NoStart(events')
    BY <1>6, <1>17, <2>1 DEF OpenShell
  <2> QED BY <1>4, <1>7, <1>17, <2>2 DEF OpenShell, Early, Waiting
<1>18. CASE MarkConnected
  <2>1. typed = 0 /\ received = <<>> /\ pending = <<>> /\ NoInput(commands)
    BY <1>18 DEF MarkConnected, FlowInv, Early
  <2>2. Inbox' = commands /\ received' = <<>> /\ typed' = 0 /\ pc' = "Running"
    <3>1. pending' = <<>> /\ commands' = commands /\ received' = <<>> /\ pc' = "Running"
      BY <1>18, <2>1 DEF MarkConnected
    <3>2. <<>> \o commands = commands
      BY <1>2, ConcatEmptySeq
    <3> QED BY <1>1, <2>1, <3>1, <3>2 DEF Inbox
  <2>3. Ordered(StreamOf(<<>>, commands), 0)
    BY <1>2, <2>1, StreamIdle
  <2>4. TypedInOrder'
    BY <2>2, <2>3, FlowTo
  <2> QED BY <2>2, <2>4 DEF FlowInv, Early, Waiting
<1>19. CASE RunCommand
  <2>1. Inbox # <<>> /\ Head(Inbox) \in Commands /\ Tail(Inbox) \in Seq(Commands) /\ pc = "Running"
    BY <1>2, <1>19, HeadTailProperties DEF RunCommand
  <2>2. Ordered(StreamOf(received, Inbox), typed) /\ typed \in Nat
    <3>1. Ordered(Stream, typed)
      BY <2>1 DEF FlowInv, TypedInOrder
    <3> QED BY <3>1, StreamIs
  <2>3. CASE Head(Inbox).kind = "Input"
    <3>1. /\ received' = Append(received, Head(Inbox).n)
          /\ pending' = <<>> /\ commands' = Tail(Inbox) /\ pc' = pc
      BY <1>19, <2>3 DEF RunCommand
    <3>2. Number(Head(Inbox)) = Head(Inbox).n
      BY <2>3 DEF Number
    <3>3. Inbox' = Tail(Inbox)
      <4>1. <<>> \o Tail(Inbox) = Tail(Inbox)
        BY <2>1, ConcatEmptySeq
      <4> QED BY <3>1, <4>1 DEF Inbox
    <3>4. StreamOf(Append(received, Head(Inbox).n), Tail(Inbox)) = StreamOf(received, Inbox)
      BY <1>2, <2>1, <3>2, StreamTyped
    <3>5. TypedInOrder'
      BY <1>1, <2>2, <3>1, <3>3, <3>4, FlowTo
    <3> QED BY <2>1, <3>1, <3>5 DEF FlowInv, Early, Waiting
  <2>4. CASE Head(Inbox).kind = "Resize"
    <3>1. PICK n : n = ResizeRun(Inbox)
      OBVIOUS
    <3>2. PICK rest : rest = KeepAfterResizes(Inbox) \o SubSeq(Inbox, n + 2, Len(Inbox))
      OBVIOUS
    <3>3. /\ n \in 1..Len(Inbox) /\ \A i \in 1..n : Inbox[i].kind = "Resize"
          /\ rest \in Seq(Commands) /\ Len(rest) = Len(Inbox) - n
          /\ \A i \in 1..Len(rest) : rest[i] = Inbox[i + n]
      BY <1>2, <2>1, <2>4, <3>1, <3>2, RunFacts
    <3>4. /\ pending' = KeepAfterResizes(Inbox) /\ commands' = SubSeq(Inbox, n + 2, Len(Inbox))
          /\ received' = received /\ pc' = pc
      BY <1>19, <2>4, <3>1 DEF RunCommand
    <3>5. Inbox' = rest
      BY <3>2, <3>4 DEF Inbox
    <3>6. n \in 0..Len(Inbox) /\ \A i \in 1..n : Inbox[i].kind # "Input"
      BY <3>3
    <3>7. Ordered(StreamOf(received, rest), typed)
      BY <1>2, <2>2, <3>3, <3>6, StreamDropped
    <3>8. TypedInOrder'
      BY <1>1, <3>4, <3>5, <3>7, FlowTo
    <3> QED BY <2>1, <3>4, <3>8 DEF FlowInv, Early, Waiting
  <2>5. CASE Head(Inbox).kind = "Disconnect"
    BY <1>3, <1>19, <2>5 DEF RunCommand, LeaveShell, Leave, Gone
  <2> QED BY <1>19, <2>3, <2>4, <2>5 DEF RunCommand
<1>20. CASE AbandonShell
  BY <1>3, <1>20 DEF AbandonShell, LeaveShell, Leave, Gone
<1>21. CASE ShellStepFails
  BY <1>3, <1>21 DEF ShellStepFails, LeaveShell, Leave, Gone
<1>22. CASE DetectShell
  BY <1>5, <1>22 DEF DetectShell
<1>23. CASE InstallHook
  <2>1. pc = "Running" /\ pc' = pc /\ received' = Append(received, Hook)
        /\ UNCHANGED <<pending, commands>>
    BY <1>23 DEF InstallHook
  <2>2. Ordered(StreamOf(received, Inbox), typed)
    BY <2>1, StreamIs DEF FlowInv, TypedInOrder
  <2>3. Ordered(StreamOf(Append(received, Hook), Inbox), typed)
    BY <1>2, <2>2, StreamHooked
  <2>4. Inbox' = Inbox
    BY <2>1 DEF Inbox
  <2>5. TypedInOrder'
    BY <1>1, <2>1, <2>3, <2>4, FlowTo
  <2> QED BY <2>1, <2>5 DEF FlowInv, Early, Waiting
<1>24. CASE ReadShell
  <2>1. CASE UNCHANGED <<pc, pending, received>>
    BY <1>5, <1>24, <2>1 DEF ReadShell
  <2>2. CASE LeaveShell(ShellDisconnects)
    BY <1>3, <2>2 DEF LeaveShell, Leave, Gone
  <2> QED BY <1>24, <2>1, <2>2 DEF ReadShell
<1>25. CASE TakeWhileWaiting
  <2>1. CASE StopWaiting
    BY <1>3, <2>1 DEF StopWaiting, Leave, Gone
  <2>2. CASE UNCHANGED pc
    <3>1. NoInput(commands')
      BY <1>2, <1>7, <1>25, NoInputKept DEF TakeWhileWaiting, Early
    <3> QED BY <1>4, <1>25, <2>2, <3>1 DEF TakeWhileWaiting, Early
  <2> QED BY <1>25, <2>1, <2>2 DEF TakeWhileWaiting
<1>26. CASE AbandonWaiting
  BY <1>3, <1>26 DEF AbandonWaiting, StopWaiting, Leave, Gone
<1>27. CASE SendFails
  BY <1>3, <1>27 DEF SendFails, LeaveShell, Leave, Gone
<1>28. CASE Unwind
  BY <1>3, <1>28 DEF Unwind, Gone
<1> QED BY <1>10, <1>11, <1>12, <1>13, <1>14, <1>15, <1>16, <1>17, <1>18, <1>19, <1>20, <1>21, <1>22,
           <1>23, <1>24, <1>25, <1>26, <1>27, <1>28 DEF WorkerStep


LEMMA FlowLocalStep ==
  ASSUME LocalGood, pending = <<>>, typed \in Nat, FlowInv, Local!LocalStep,
         UNCHANGED <<pending, typed, shown>>
  PROVE  FlowInv'
<1> USE DEF Local!KillAndReturn
<1>1. /\ commands \in Seq(Commands) /\ received \in Seq(Nat) /\ events \in Seq(Events)
      /\ pc \in {"Start", "Starting", "Polling", "Inspecting", "Ended"}
  BY DEF LocalGood, ChannelTypes, Local!LocalTypeOK, Local!Places
<1>2. Inbox = commands /\ Inbox' = commands'
  <2>1. commands' \in Seq(Commands)
    BY <1>1, HeadTailProperties, EmptySeq DEF Local!LocalStep, Local!StartShell,
       Local!AnnounceStart, Local!CheckReader, Local!InspectShell, Local!TakeCommand,
       Local!CommandTimeout, Local!ReadOutput, Local!ShellExits
  <2> QED BY <1>1, <2>1, ConcatEmptySeq DEF Inbox
<1>3. ASSUME pc' = "Ended" PROVE FlowInv'
  BY <1>3 DEF FlowInv, TypedInOrder, Early, Waiting
<1>4. ASSUME pc \in Early, pc' \in Early, UNCHANGED <<received, commands>>,
             NoStart(events) => NoStart(events')
      PROVE  FlowInv'
  <2>1. pc' \notin {"Running", "Polling", "Inspecting"}
    BY <1>4 DEF Early, Waiting
  <2> QED BY <1>4, <2>1 DEF FlowInv, TypedInOrder
<1>5. ASSUME pc \in {"Polling", "Inspecting"}, pc' \in {"Polling", "Inspecting"},
             UNCHANGED <<commands, received>>
      PROVE  FlowInv'
  <2>1. TypedInOrder'
    BY <1>5, FlowSame DEF FlowInv
  <2> QED BY <1>5, <2>1 DEF FlowInv, Early, Waiting
<1>6. ASSUME NEW event \in Events, ~ Tells(event), Local!Tell(event)
      PROVE  NoStart(events) => NoStart(events')
  BY <1>1, <1>6, NoStartKept DEF Local!Tell
<1>7. CASE Local!StartShell
  BY <1>3, <1>4, <1>7 DEF Local!StartShell, Early, FlowInv
<1>8. CASE Local!AnnounceStart
  <2>1. CASE pc' = "Ended"
    BY <1>3, <2>1
  <2>2. CASE pc' = "Polling"
    <3>1. pc = "Starting" /\ UNCHANGED <<commands, received>>
      BY <1>8 DEF Local!AnnounceStart
    <3>2. typed = 0 /\ received = <<>> /\ NoInput(commands)
      BY <3>1 DEF FlowInv, Early
    <3>3. Ordered(StreamOf(<<>>, commands), 0)
      BY <1>1, <3>2, StreamIdle
    <3>4. TypedInOrder'
      BY <1>2, <3>1, <3>2, <3>3, FlowTo
    <3> QED BY <2>2, <3>4 DEF FlowInv, Early, Waiting
  <2> QED BY <1>8, <2>1, <2>2 DEF Local!AnnounceStart
<1>9. CASE Local!CheckReader
  BY <1>3, <1>5, <1>9 DEF Local!CheckReader
<1>10. CASE Local!InspectShell
  BY <1>3, <1>10 DEF Local!InspectShell
<1>11. CASE Local!TakeCommand
  <2>1. CASE pc' = "Ended"
    BY <1>3, <2>1
  <2>2. CASE pc' # "Ended"
    <3>1. pc = "Inspecting" /\ pc' = "Polling" /\ commands # <<>> /\ commands' = Tail(commands)
      BY <1>11, <2>2 DEF Local!TakeCommand
    <3>2. Ordered(StreamOf(received, commands), typed)
      BY <1>2, <3>1, StreamIs DEF FlowInv, TypedInOrder
    <3>3. CASE Head(commands).kind = "Input" /\ received' = Append(received, Head(commands).n)
      <4>1. Number(Head(commands)) = Head(commands).n
        BY <3>3 DEF Number
      <4>2. StreamOf(Append(received, Head(commands).n), Tail(commands)) = StreamOf(received, commands)
        BY <1>1, <3>1, <4>1, StreamTyped
      <4>3. TypedInOrder'
        BY <1>2, <3>1, <3>2, <3>3, <4>2, FlowTo
      <4> QED BY <3>1, <4>3 DEF FlowInv, Early, Waiting
    <3>4. CASE Head(commands).kind = "Resize" /\ UNCHANGED received
      <4>1. PICK rest : rest = Tail(commands)
        OBVIOUS
      <4>2. /\ rest \in Seq(Commands) /\ Len(rest) = Len(commands) - 1
            /\ \A i \in 1..Len(rest) : rest[i] = commands[i + 1]
        BY <1>1, <3>1, <4>1, HeadTailProperties
      <4>3. 1 \in 0..Len(commands) /\ \A i \in 1..1 : commands[i].kind # "Input"
        BY <1>1, <3>1, <3>4, EmptySeq
      <4>4. Ordered(StreamOf(received, rest), typed)
        BY <1>1, <3>2, <4>2, <4>3, StreamDropped
      <4>5. TypedInOrder'
        BY <1>2, <3>1, <3>4, <4>1, <4>4, FlowTo
      <4> QED BY <3>1, <4>5 DEF FlowInv, Early, Waiting
    <3> QED BY <1>11, <2>2, <3>3, <3>4 DEF Local!TakeCommand
  <2> QED BY <2>1, <2>2
<1>12. CASE Local!CommandTimeout
  BY <1>5, <1>12 DEF Local!CommandTimeout
<1>13. CASE Local!ReadOutput
  <2>1. NoStart(events) => NoStart(events')
    <3>1. Local!Output \in Events /\ Local!Failed \in Events /\ ~ Tells(Local!Output)
          /\ ~ Tells(Local!Failed)
      BY LocalEventsMade DEF Tells
    <3> QED BY <1>6, <1>13, <3>1 DEF Local!ReadOutput
  <2>2. UNCHANGED <<pc, commands, received>>
    BY <1>13 DEF Local!ReadOutput
  <2>3. CASE pc \in Early
    BY <1>4, <2>1, <2>2, <2>3
  <2>4. CASE pc \in {"Polling", "Inspecting"}
    BY <1>5, <2>2, <2>4
  <2> QED BY <1>1, <1>3, <2>2, <2>3, <2>4 DEF Early
<1>14. CASE Local!ShellExits
  <2>1. UNCHANGED <<pc, commands, received, events>>
    BY <1>14 DEF Local!ShellExits
  <2>2. CASE pc \in Early
    BY <1>4, <2>1, <2>2
  <2>3. CASE pc \in {"Polling", "Inspecting"}
    BY <1>5, <2>1, <2>3
  <2> QED BY <1>1, <1>3, <2>1, <2>2, <2>3 DEF Early
<1> QED BY <1>7, <1>8, <1>9, <1>10, <1>11, <1>12, <1>13, <1>14 DEF Local!LocalStep

\* The window sends what is no input, or nothing.
LEMMA FlowSilent ==
  ASSUME ChannelTypes, ShellTypes, typed \in Nat, FlowInv, NEW command \in Commands,
         command.kind # "Input", commands' = Append(commands, command),
         UNCHANGED <<workerVars, typed>>,
         pc \in Early => shown' # "Connected" /\ NoStart(events')
  PROVE  FlowInv'
<1> USE DEF workerVars, shellVars
<1>1. /\ commands \in Seq(Commands) /\ pending \in Seq(Commands) /\ received \in Seq(Nat)
      /\ Inbox \in Seq(Commands)
  BY InboxTypes DEF ChannelTypes, ShellTypes
<1>2. Inbox' = Append(Inbox, command)
  <2>1. pending \o Append(commands, command) = Append(pending \o commands, command)
    BY <1>1, AppendBehind
  <2> QED BY <2>1 DEF Inbox
<1>3. TypedInOrder'
  <2>1. CASE pc \in {"Running", "Polling", "Inspecting"}
    <3>1. Ordered(StreamOf(received, Inbox), typed)
      BY <2>1, StreamIs DEF FlowInv, TypedInOrder
    <3>2. Ordered(StreamOf(received, Append(Inbox, command)), typed)
      BY <1>1, <3>1, StreamSilent
    <3> QED BY <1>2, <3>2, FlowTo
  <2>2. CASE pc \notin {"Running", "Polling", "Inspecting"}
    BY <2>2 DEF TypedInOrder
  <2> QED BY <2>1, <2>2
<1>4. NoInput(commands) => NoInput(commands')
  BY <1>1, NoInputKept
<1> QED BY <1>3, <1>4 DEF FlowInv

LEMMA FlowQuiet ==
  ASSUME FlowInv, UNCHANGED <<commands, workerVars, typed>>,
         pc \in Early => shown' # "Connected" /\ NoStart(events')
  PROVE  FlowInv'
<1> USE DEF workerVars, shellVars
<1>1. TypedInOrder'
  BY FlowSame DEF FlowInv
<1> QED BY <1>1 DEF FlowInv

LEMMA FlowTyped ==
  ASSUME TypeInv, FlowInv, Type
  PROVE  FlowInv'
<1> USE DEF workerVars, shellVars
<1>1. /\ commands \in Seq(Commands) /\ pending \in Seq(Commands) /\ received \in Seq(Nat)
      /\ Inbox \in Seq(Commands) /\ typed \in Nat
  BY InboxTypes DEF TypeInv, ChannelTypes, ShellTypes, WindowTypes
<1>2. /\ pc \notin Early /\ typed' = typed + 1 /\ commands' = Append(commands, Input(typed + 1))
      /\ UNCHANGED <<pc, pending, received>>
  BY DEF Type, Send, FlowInv
<1>3. PICK command \in Commands : command = Input(typed + 1)
  BY <1>1, CommandsMade
<1>4. Number(command) = typed + 1
  BY <1>3 DEF Number, Input
<1>5. Inbox' = Append(Inbox, command)
  <2>1. pending \o Append(commands, command) = Append(pending \o commands, command)
    BY <1>1, AppendBehind
  <2> QED BY <1>2, <1>3, <2>1 DEF Inbox
<1>6. TypedInOrder'
  <2>1. CASE pc \in {"Running", "Polling", "Inspecting"}
    <3>1. PICK s : s = StreamOf(received, Inbox)
      OBVIOUS
    <3>2. s \in Seq(Nat) /\ Ordered(s, typed)
      BY <1>1, <2>1, <3>1, StreamIs, StreamIsSeq DEF FlowInv, TypedInOrder
    <3>3. Ordered(Append(s, typed + 1), typed + 1)
      BY <1>1, <3>2, OrderedNext
    <3>4. StreamOf(received, Append(Inbox, command)) = Append(s, typed + 1)
      BY <1>1, <1>4, <3>1, StreamAppend
    <3> QED BY <1>2, <1>5, <3>3, <3>4, FlowTo
  <2>2. CASE pc \notin {"Running", "Polling", "Inspecting"}
    BY <1>2, <2>2 DEF TypedInOrder
  <2> QED BY <2>1, <2>2
<1> QED BY <1>2, <1>6 DEF FlowInv

LEMMA FlowStep ==
  ASSUME TypeInv, FlowInv, [Next]_allVars
  PROVE  FlowInv'
<1>1. ChannelTypes /\ ShellTypes /\ typed \in Nat /\ timer \subseteq Sizes
  BY DEF TypeInv, WindowTypes
<1>2. pc \in Early => shown # "Connected" /\ NoStart(events)
  BY DEF FlowInv
<1>3. CASE SshStep
  <2>1. SshGood /\ kind = "Ssh" /\ WorkerStep /\ UNCHANGED <<localVars, windowVars>>
    BY <1>3 DEF SshStep, TypeInv, SshTypes, SshGood
  <2>2. SshGood'
    BY <2>1, ChainTypes, WaitingTypes, UnwindTypes, RunCommandTypes, ShellTypesKept DEF WorkerStep
  <2> QED BY <1>1, <2>1, <2>2, FlowSshStep
<1>4. CASE LocalStep
  <2>1. LocalGood /\ pending = <<>>
    BY <1>4 DEF LocalStep, TypeInv, LocalTypes, LocalGood, ShellTypes
  <2>2. Local!LocalStep /\ UNCHANGED <<decisions, asking, pending, typed, shown>>
    BY <1>4 DEF LocalStep, windowVars
  <2> QED BY <1>1, <2>1, <2>2, FlowLocalStep
<1>5. CASE Lay \/ RemoveSession \/ Render
      \/ \E decision \in {"Trust", "Reject"} : AnswerPrompt(decision)
  BY <1>2, <1>5, FlowQuiet DEF Lay, RemoveSession, Render, AnswerPrompt, channelVars
<1>6. CASE DisconnectSession
  <2>1. shown' # "Connected" /\ UNCHANGED <<events, workerVars, typed>>
    BY <1>6 DEF DisconnectSession
  <2>2. CASE Send(Disconnect)
    BY <1>1, <1>2, <2>1, <2>2, CommandsMade, FlowSilent DEF Send
  <2>3. CASE UNCHANGED commands
    BY <1>2, <2>1, <2>3, FlowQuiet
  <2> QED BY <1>6, <2>2, <2>3 DEF DisconnectSession
<1>7. CASE ResizeTimer
  <2>1. UNCHANGED <<events, workerVars, typed, shown>>
    BY <1>7 DEF ResizeTimer
  <2>2. ASSUME NEW size \in timer, Send(Resize(size)) PROVE FlowInv'
    <3>1. Resize(size) \in Commands /\ Resize(size).kind # "Input"
      BY <1>1, CommandsMade
    <3> QED BY <1>1, <1>2, <2>1, <2>2, <3>1, FlowSilent DEF Send
  <2>3. CASE UNCHANGED commands
    BY <1>2, <2>1, <2>3, FlowQuiet
  <2> QED BY <1>7, <2>2, <2>3 DEF ResizeTimer
<1>8. CASE Pump
  <2>1. events \in Seq(Events) /\ events # <<>> /\ events' = Tail(events) /\ Handle(Head(events))
        /\ UNCHANGED <<commands, workerVars, typed>>
    BY <1>1, <1>8 DEF Pump, ChannelTypes
  <2>2. ASSUME pc \in Early PROVE shown' # "Connected" /\ NoStart(events')
    <3>1. NoStart(Tail(events)) /\ ~ Tells(Head(events)) /\ shown # "Connected"
      BY <1>2, <2>1, <2>2, NoStartKept
    <3> QED BY <2>1, <3>1 DEF Handle, SessionOver, Tells
  <2> QED BY <2>1, <2>2, FlowQuiet
<1>9. CASE UNCHANGED allVars
  BY <1>2, <1>9, FlowQuiet DEF allVars, channelVars, windowVars
<1> QED BY <1>3, <1>4, <1>5, <1>6, <1>7, <1>8, <1>9, FlowTyped DEF Next

\* Input reaches a running shell once and in order, whatever is coalesced, waited for
\* or typed by the program in between.
THEOREM InputTypedInOrder == Spec => []TypedInOrder
<1>1. SystemInit => TypeInv /\ FlowInv
  BY TypeInit, FlowInit
<1>2. (TypeInv /\ FlowInv) /\ [Next]_allVars => (TypeInv /\ FlowInv)'
  BY TypeStep, TypeStutter, FlowStep
<1>3. FlowInv => TypedInOrder
  BY DEF FlowInv
<1> QED BY <1>1, <1>2, <1>3, PTL DEF Spec
=============================================================================
