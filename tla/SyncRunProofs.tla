---------------------------- MODULE SyncRunProofs ----------------------------
(***************************************************************************)
(* Proofs about SyncRun, for every mailbox, every set of texts that can be *)
(* typed as options and every number of failures, crashes and changes.     *)
(***************************************************************************)
EXTENDS SyncRun, FiniteSetTheorems, SequenceTheorems, WellFoundedInduction, TLAPS

(* Induction over the natural numbers, with a set for the predicate. *)

LEMMA LeastElement ==
    ASSUME NEW S \in SUBSET Nat, S # {}
    PROVE  \E x \in S : \A y \in S : x <= y
<1> DEFINE R == OpToRel(<, Nat)
<1>1. IsWellFoundedOn(R, Nat)
  BY NatLessThanWellFounded
<1>2. \A x, y \in Nat : y < x => <<y, x>> \in R
  BY DEF OpToRel
<1> HIDE DEF R
<1>3. PICK x \in S : \A y \in S : ~ (<<y, x>> \in R)
  BY <1>1, WFMin
<1>4. \A y \in S : ~(y < x)
  BY <1>2, <1>3
<1>5. \A y \in S : x <= y
  BY <1>4
<1> QED BY <1>5

LEMMA SetInduction ==
    ASSUME NEW S \in SUBSET Nat, 0 \in S, \A n \in S : n + 1 \in S
    PROVE  S = Nat
<1> SUFFICES ASSUME Nat \ S # {} PROVE FALSE
  OBVIOUS
<1>1. PICK x \in Nat \ S : \A y \in Nat \ S : x <= y
  BY LeastElement
<1>2. x # 0 /\ x - 1 \in Nat /\ x - 1 < x
  BY <1>1
<1>3. x - 1 \in S
  BY <1>1, <1>2
<1>4. (x - 1) + 1 = x
  BY <1>1
<1> QED BY <1>1, <1>3, <1>4

\* The same from n + 2 down to 1, the order in which both recursions below go.
LEMMA DownwardInduction ==
    ASSUME NEW n \in Nat, NEW S,
           \A i \in 1..(n + 2) : (\A j \in 1..(n + 2) : j > i => j \in S) => i \in S
    PROVE  1..(n + 2) \subseteq S
<1> DEFINE T == {k \in Nat : \A j \in 1..(n + 2) : j + k > n + 2 => j \in S}
<1>1. 0 \in T
  OBVIOUS
<1>2. ASSUME NEW k \in T PROVE k + 1 \in T
  <2> SUFFICES ASSUME NEW i \in 1..(n + 2), i + (k + 1) > n + 2 PROVE i \in S
    OBVIOUS
  <2>1. \A j \in 1..(n + 2) : j > i => j + k > n + 2
    OBVIOUS
  <2>2. \A j \in 1..(n + 2) : j > i => j \in S
    BY <2>1
  <2> QED BY <2>2
<1> HIDE DEF T
<1>3. T \in SUBSET Nat
  BY DEF T
<1>4. T = Nat
  BY <1>1, <1>2, <1>3, SetInduction
<1>5. n + 2 \in T
  BY <1>4
<1>6. \A j \in 1..(n + 2) : j + (n + 2) > n + 2
  OBVIOUS
<1> QED BY <1>5, <1>6 DEF T

-----------------------------------------------------------------------------
\* A recursion that goes up in steps of one or two and ends past n: base and G are
\* what it does with its values, which are in V.
Recurs(n, V, base, next, G) ==
    /\ n \in Nat /\ base \in V
    /\ next \in [1..n -> 1..(n + 2)] /\ \A i \in 1..n : next[i] > i
    /\ G \in [1..n -> [V -> V]]

\* Such a recursion defines a function.
LEMMA Recursion ==
    \A n, V, base, next, G :
       Recurs(n, V, base, next, G) =>
          \E f \in [1..(n + 2) -> V] :
             \A i \in 1..(n + 2) : f[i] = IF i > n THEN base ELSE G[i][f[next[i]]]
<1> SUFFICES ASSUME NEW n, NEW V, NEW base, NEW next, NEW G, Recurs(n, V, base, next, G)
             PROVE  \E f \in [1..(n + 2) -> V] :
                       \A i \in 1..(n + 2) : f[i] = IF i > n THEN base ELSE G[i][f[next[i]]]
  BY Zenon
<1> USE DEF Recurs
<1> DEFINE Step(f, i) == IF i > n THEN base ELSE G[i][f[next[i]]]
           Good(f, k) == \A i \in 1..(n + 2) : i + k > n => f[i] = Step(f, i)
           T == {k \in Nat : \E f \in [1..(n + 2) -> V] : Good(f, k)}
<1>1. 0 \in T
  <2> DEFINE f == [i \in 1..(n + 2) |-> base]
  <2>1. f \in [1..(n + 2) -> V] /\ Good(f, 0)
    OBVIOUS
  <2> QED BY <2>1
<1>2. ASSUME NEW k \in T PROVE k + 1 \in T
  <2>1. PICK f \in [1..(n + 2) -> V] : Good(f, k)
    OBVIOUS
  <2> DEFINE g == [i \in 1..(n + 2) |-> IF i + k = n THEN Step(f, i) ELSE f[i]]
  <2>2. \A i \in 1..(n + 2) : i <= n => i \in 1..n
    OBVIOUS
  <2>3. \A i \in 1..(n + 2) : Step(f, i) \in V
    BY <2>2
  <2>4. g \in [1..(n + 2) -> V]
    BY <2>3
  <2>5. ASSUME NEW i \in 1..(n + 2), i + (k + 1) > n PROVE g[i] = Step(g, i)
    <3>1. Step(g, i) = Step(f, i)
      <4>1. CASE i > n
        <5> HIDE DEF g
        <5>1. Step(g, i) = base
          BY <4>1
        <5>2. Step(f, i) = base
          BY <4>1
        <5> HIDE DEF Step
        <5> QED BY <5>1, <5>2
      <4>2. CASE i <= n
        <5>1. next[i] \in 1..(n + 2) /\ next[i] > i
          BY <2>2, <4>2
        <5>2. next[i] + k # n
          BY <5>1, <2>5
        <5> QED BY <5>1, <5>2
      <4> HIDE DEF Step, g
      <4> QED BY <4>1, <4>2
    <3>2. CASE i + k = n
      BY <3>1, <3>2
    <3>3. CASE i + k # n
      <4>1. i + k > n
        BY <2>5, <3>3
      <4> QED BY <2>1, <3>1, <3>3, <4>1
    <3> QED BY <3>2, <3>3
  <2> HIDE DEF g, Step
  <2>6. Good(g, k + 1)
    BY <2>5
  <2> QED BY <2>4, <2>6
<1> HIDE DEF T
<1>3. T \in SUBSET Nat
  BY DEF T
<1>4. T = Nat
  BY <1>1, <1>2, <1>3, SetInduction
<1>5. PICK f \in [1..(n + 2) -> V] : Good(f, n)
  BY <1>4 DEF T
<1>6. \A i \in 1..(n + 2) : i + n > n
  OBVIOUS
<1> QED BY <1>5, <1>6
-----------------------------------------------------------------------------
(* What was parsed, and what imapsync reads of it *)

\* Where imapsync looks for the option after the one at i.
After(argv, i) == IF argv[i].option \in TakesValue THEN i + 2 ELSE i + 1

\* What Read computes is what its recursion says.
LEMMA ReadEquation ==
    ASSUME NEW argv \in Seq(Token)
    PROVE  \E f : /\ Read(argv) = f[1]
                  /\ \A i \in 1..(Len(argv) + 2) :
                        f[i] = IF i > Len(argv) THEN {}
                               ELSE {argv[i].option} \cup f[After(argv, i)]
<1> DEFINE n == Len(argv)
           V == SUBSET (Options \cup {"word"})
           next == [i \in 1..n |-> After(argv, i)]
           G == [i \in 1..n |-> [v \in V |-> {argv[i].option} \cup v]]
           Is(f) == f = [i \in 1..(n + 2) |-> IF i > n THEN {}
                                             ELSE {argv[i].option} \cup
                   f[IF argv[i].option \in TakesValue THEN i + 2 ELSE i + 1]]
<1>1. n \in Nat /\ {} \in V /\ \A i \in 1..n : argv[i] \in Token
  OBVIOUS
<1>2. next \in [1..n -> 1..(n + 2)] /\ \A i \in 1..n : next[i] > i
  BY <1>1 DEF After
<1>3. G \in [1..n -> [V -> V]]
  BY <1>1 DEF Token
<1>4. PICK f \in [1..(n + 2) -> V] :
          \A i \in 1..(n + 2) : f[i] = IF i > n THEN {} ELSE G[i][f[next[i]]]
  <2>1. Recurs(n, V, {}, next, G)
    BY <1>1, <1>2, <1>3 DEF Recurs
  <2> HIDE DEF n, V, next, G
  <2> QED BY <2>1, Recursion
<1>5. Is(f)
  <2>1. ASSUME NEW i \in 1..(n + 2), i <= n
        PROVE  G[i][f[next[i]]] = {argv[i].option} \cup
                   f[IF argv[i].option \in TakesValue THEN i + 2 ELSE i + 1]
    <3>1. i \in 1..n /\ next[i] \in 1..(n + 2) /\ next[i] = After(argv, i)
      BY <1>1, <1>2, <2>1
    <3>2. f[next[i]] \in V
      BY <3>1
    <3> QED BY <3>1, <3>2 DEF After
  <2> HIDE DEF V, next, G
  <2>2. \A i \in 1..(n + 2) :
            f[i] = IF i > n THEN {} ELSE {argv[i].option} \cup
                   f[IF argv[i].option \in TakesValue THEN i + 2 ELSE i + 1]
    BY <1>1, <1>4, <2>1
  <2> QED BY <2>2
<1>6. Is(CHOOSE g : Is(g))
  <2> HIDE DEF Is
  <2> QED BY <1>5
<1>7. Read(argv) = (CHOOSE g : Is(g))[1]
  BY Zenon DEF Read
<1> DEFINE h == CHOOSE g : Is(g)
<1>8. \A i \in 1..(n + 2) :
          h[i] = IF i > n THEN {} ELSE {argv[i].option} \cup h[After(argv, i)]
  <2>1. Is(h)
    BY <1>6
  <2> HIDE DEF h
  <2> QED BY <2>1 DEF After
<1> HIDE DEF h
<1> QED BY <1>7, <1>8 DEF h

\* And so with validate_custom_flags.
NotOk == [ok |-> FALSE, argv |-> <<>>]
Parsing(text, i, rest) ==
    IF Rejected(text[i]) \/ (Separate(text[i]) /\ i = Len(text)) \/ ~rest.ok
    THEN NotOk ELSE [ok |-> TRUE, argv |-> Words(text, i) \o rest.argv]

LEMMA WordsType ==
    ASSUME NEW text \in Seq(Token), NEW i \in 1..Len(text),
           ~Rejected(text[i]), ~(Separate(text[i]) /\ i = Len(text))
    PROVE  /\ Words(text, i) \in Seq(Token)
           /\ Words(text, i)[1].option = text[i].option
           /\ text[i].option \in Allowed
           /\ Len(Words(text, i)) = IF text[i].option \in TakesValue THEN 2 ELSE 1
<1> DEFINE t == text[i]
<1>1. t \in Token /\ t.option \in Options \cup {"word"}
  <2>1. t \in Token
    OBVIOUS
  <2> QED BY <2>1 DEF Token
<1>2. Plain(t.option) \in Token /\ Plain(t.option).option = t.option
  BY <1>1 DEF Plain, Token
<1>3. t.option \in Allowed
  BY DEF Rejected
<1>4. CASE Separate(t)
  <2>1. i + 1 \in 1..Len(text) /\ text[i + 1] \in Token
    BY <1>4
  <2>2. Words(text, i) = <<Plain(t.option), text[i + 1]>>
    BY <1>4 DEF Words, Separate
  <2> QED BY <1>2, <1>3, <1>4, <2>1, <2>2 DEF Separate
<1>5. CASE ~Separate(t) /\ t.option \in TakesValue
  <2>1. Plain(t.inline) \in Token
    BY <1>1, <1>5 DEF Separate, Plain, Token
  <2>2. Words(text, i) = <<Plain(t.option), Plain(t.inline)>>
    BY <1>5 DEF Words
  <2> QED BY <1>2, <1>3, <1>5, <2>1, <2>2
<1>6. CASE t.option \notin TakesValue
  <2>1. Words(text, i) = <<Plain(t.option)>>
    BY <1>6 DEF Words
  <2> QED BY <1>2, <1>3, <1>6, <2>1
<1> QED BY <1>4, <1>5, <1>6

LEMMA ParsedEquation ==
    ASSUME NEW text \in Seq(Token)
    PROVE  \E f : /\ Parsed(text) = f[1]
                  /\ \A i \in 1..(Len(text) + 2) :
                        f[i] = IF i > Len(text) THEN [ok |-> TRUE, argv |-> <<>>]
                               ELSE Parsing(text, i, f[IF Separate(text[i]) THEN i + 2 ELSE i + 1])
<1> DEFINE n == Len(text)
           V == [ok : BOOLEAN, argv : Seq(Token)]
           base == [ok |-> TRUE, argv |-> <<>>]
           next == [i \in 1..n |-> IF Separate(text[i]) THEN i + 2 ELSE i + 1]
           G == [i \in 1..n |-> [v \in V |-> Parsing(text, i, v)]]
           Is(f) == f = [i \in 1..(n + 2) |->
               IF i > n THEN [ok |-> TRUE, argv |-> <<>>]
               ELSE LET rest == f[IF Separate(text[i]) THEN i + 2 ELSE i + 1]
                    IN  IF Rejected(text[i]) \/ (Separate(text[i]) /\ i = n) \/ ~rest.ok
                        THEN [ok |-> FALSE, argv |-> <<>>]
                        ELSE [ok |-> TRUE, argv |-> Words(text, i) \o rest.argv]]
<1>1. n \in Nat /\ base \in V
  OBVIOUS
<1>2. next \in [1..n -> 1..(n + 2)] /\ \A i \in 1..n : next[i] > i
  BY <1>1
<1>3. G \in [1..n -> [V -> V]]
  <2>1. ASSUME NEW i \in 1..n, NEW v \in V PROVE Parsing(text, i, v) \in V
    <3>1. NotOk \in V
      BY DEF NotOk
    <3>2. CASE Parsing(text, i, v) = NotOk
      BY <3>1, <3>2
    <3>3. CASE Parsing(text, i, v) # NotOk
      <4>1. Words(text, i) \in Seq(Token)
        BY <3>3, WordsType DEF Parsing
      <4> QED BY <3>3, <4>1 DEF Parsing
    <3> QED BY <3>2, <3>3
  <2> QED BY <2>1
<1>4. PICK f \in [1..(n + 2) -> V] :
          \A i \in 1..(n + 2) : f[i] = IF i > n THEN base ELSE G[i][f[next[i]]]
  <2>1. Recurs(n, V, base, next, G)
    BY <1>1, <1>2, <1>3 DEF Recurs
  <2> HIDE DEF n, V, base, next, G
  <2> QED BY <2>1, Recursion
<1>5. Is(f)
  <2>1. ASSUME NEW i \in 1..(n + 2), i <= n
        PROVE  G[i][f[next[i]]] =
                   Parsing(text, i, f[IF Separate(text[i]) THEN i + 2 ELSE i + 1])
    <3>1. i \in 1..n /\ next[i] \in 1..(n + 2)
      BY <1>1, <1>2, <2>1
    <3>2. f[next[i]] \in V
      BY <3>1
    <3> QED BY <3>1, <3>2
  <2> HIDE DEF V, next, G
  <2>2. \A i \in 1..(n + 2) :
            f[i] = IF i > n THEN base
                   ELSE Parsing(text, i, f[IF Separate(text[i]) THEN i + 2 ELSE i + 1])
    BY <1>1, <1>4, <2>1
  <2> QED BY <2>2 DEF Parsing, NotOk
<1>6. Is(CHOOSE g : Is(g))
  <2> HIDE DEF Is
  <2> QED BY <1>5
<1>7. Parsed(text) = (CHOOSE g : Is(g))[1]
  BY Zenon DEF Parsed
<1> DEFINE h == CHOOSE g : Is(g)
<1>8. \A i \in 1..(n + 2) :
          h[i] = IF i > n THEN base
                 ELSE Parsing(text, i, h[IF Separate(text[i]) THEN i + 2 ELSE i + 1])
  <2>1. Is(h)
    BY <1>6
  <2> HIDE DEF h
  <2> QED BY <2>1 DEF Parsing, NotOk
<1> HIDE DEF h
<1> QED BY <1>7, <1>8 DEF h

-----------------------------------------------------------------------------
\* The positions imapsync takes for options, from the first on, hold allowed ones.
Framed(s) ==
    \E P \in SUBSET (1..(Len(s) + 1)) :
        /\ 1 \in P
        /\ \A i \in P : i <= Len(s) => s[i].option \in Allowed /\ After(s, i) \in P

LEMMA FramedConcat ==
    ASSUME NEW s \in Seq(Token), NEW t \in Seq(Token), Framed(s), Framed(t)
    PROVE  s \o t \in Seq(Token) /\ Framed(s \o t)
<1> DEFINE m == Len(s)
           n == Len(t)
           st == s \o t
<1>1. /\ m \in Nat /\ n \in Nat /\ st \in Seq(Token) /\ Len(st) = m + n
      /\ \A i \in 1..(m + n) : st[i] = IF i <= m THEN s[i] ELSE t[i - m]
  OBVIOUS
<1>2. PICK P \in SUBSET (1..(m + 1)) :
          /\ 1 \in P
          /\ \A i \in P : i <= m => s[i].option \in Allowed /\ After(s, i) \in P
  BY DEF Framed
<1>3. PICK Q \in SUBSET (1..(n + 1)) :
          /\ 1 \in Q
          /\ \A i \in Q : i <= n => t[i].option \in Allowed /\ After(t, i) \in Q
  BY DEF Framed
<1> DEFINE R == {i \in 1..(m + n + 1) : IF i <= m THEN i \in P ELSE i - m \in Q}
<1> HIDE DEF m, n, st
<1>4. 1 \in R
  <2>1. m = 0 => 1 - m = 1
    OBVIOUS
  <2> QED BY <1>1, <1>2, <1>3, <2>1
<1>5. ASSUME NEW i \in R, i <= m + n
      PROVE  st[i].option \in Allowed /\ After(st, i) \in R
  <2>1. CASE i <= m
    <3>1. i \in P /\ st[i] = s[i] /\ i \in 1..m
      BY <1>1, <1>5, <2>1
    <3>2. s[i].option \in Allowed /\ After(s, i) \in P /\ After(st, i) = After(s, i)
      BY <1>2, <2>1, <3>1 DEF After
    <3>3. After(s, i) \in 1..(m + 1)
      BY <1>2, <3>2
    <3>4. After(s, i) \in R
      <4>1. CASE After(s, i) <= m
        BY <1>1, <3>2, <3>3, <4>1
      <4>2. CASE After(s, i) = m + 1
        <5>1. (m + 1) - m = 1 /\ m + 1 \in 1..(m + n + 1) /\ ~(m + 1 <= m)
          BY <1>1
        <5> QED BY <1>3, <4>2, <5>1
      <4> QED BY <1>1, <3>3, <4>1, <4>2
    <3> QED BY <3>1, <3>2, <3>4
  <2>2. CASE ~(i <= m)
    <3>1. i - m \in Q /\ i - m <= n /\ st[i] = t[i - m] /\ i \in Nat
      BY <1>1, <1>5, <2>2
    <3>2. t[i - m].option \in Allowed /\ After(t, i - m) \in Q
      BY <1>3, <3>1
    <3>3. After(st, i) = After(t, i - m) + m
      BY <1>1, <3>1 DEF After
    <3>4. After(t, i - m) \in 1..(n + 1)
      BY <1>3, <3>2
    <3>5. After(st, i) - m = After(t, i - m) /\ After(st, i) \in 1..(m + n + 1)
          /\ ~(After(st, i) <= m)
      BY <1>1, <3>3, <3>4
    <3> QED BY <3>1, <3>2, <3>5
  <2> QED BY <2>1, <2>2
<1>6. R \in SUBSET (1..(Len(st) + 1))
  BY <1>1
<1> HIDE DEF R
<1>7. Framed(st)
  BY <1>1, <1>4, <1>5, <1>6 DEF Framed
<1> QED BY <1>1, <1>7 DEF st

\* What validate_custom_flags returns is framed: an option and its value at a time.
LEMMA ParsedFramed ==
    ASSUME NEW text \in Seq(Token), Valid(text)
    PROVE  Parsed(text).argv \in Seq(Token) /\ Framed(Parsed(text).argv)
<1> DEFINE n == Len(text)
           next(i) == IF Separate(text[i]) THEN i + 2 ELSE i + 1
<1>1. PICK f : /\ Parsed(text) = f[1]
               /\ \A i \in 1..(n + 2) :
                     f[i] = IF i > n THEN [ok |-> TRUE, argv |-> <<>>]
                            ELSE Parsing(text, i, f[next(i)])
  BY ParsedEquation
<1> DEFINE Fine(v) == v.ok => v.argv \in Seq(Token) /\ Framed(v.argv)
           S == {i \in 1..(n + 2) : Fine(f[i])}
<1>2. n \in Nat
  OBVIOUS
<1>3. Framed(<<>>)
  <2>1. 1 \in 1..(Len(<<>>) + 1) /\ {1} \in SUBSET (1..(Len(<<>>) + 1)) /\ ~(1 <= Len(<<>>))
    OBVIOUS
  <2> QED BY <2>1 DEF Framed
<1>4. ASSUME NEW i \in 1..(n + 2), \A j \in 1..(n + 2) : j > i => j \in S
      PROVE  i \in S
  <2> SUFFICES ASSUME f[i].ok PROVE f[i].argv \in Seq(Token) /\ Framed(f[i].argv)
    OBVIOUS
  <2>1. CASE i > n
    <3>1. f[i].argv = <<>>
      BY <1>1, <2>1
    <3> QED BY <1>3, <3>1
  <2>2. CASE ~(i > n)
    <3> DEFINE rest == f[next(i)]
               w == Words(text, i)
    <3>1. /\ i \in 1..n /\ f[i] = Parsing(text, i, rest)
          /\ next(i) \in 1..(n + 2) /\ next(i) > i
      BY <1>1, <1>2, <2>2
    <3>2. Fine(rest)
      BY <1>4, <3>1
    <3> HIDE DEF rest, w, next
    <3>3. /\ ~Rejected(text[i]) /\ ~(Separate(text[i]) /\ i = n) /\ rest.ok
          /\ f[i].argv = w \o rest.argv
      BY <3>1 DEF Parsing, NotOk, w
    <3>4. /\ w \in Seq(Token) /\ w[1].option = text[i].option /\ w[1].option \in Allowed
          /\ Len(w) = IF w[1].option \in TakesValue THEN 2 ELSE 1
      BY <3>1, <3>3, WordsType DEF w
    <3>5. Framed(w)
      <4>1. After(w, 1) = Len(w) + 1 /\ Len(w) \in {1, 2}
        BY <3>4 DEF After
      <4>2. {1, Len(w) + 1} \in SUBSET (1..(Len(w) + 1))
        BY <4>1
      <4>3. \A k \in {1, Len(w) + 1} :
                k <= Len(w) => w[k].option \in Allowed /\ After(w, k) \in {1, Len(w) + 1}
        BY <3>4, <4>1
      <4> QED BY <4>2, <4>3 DEF Framed
    <3>6. rest.argv \in Seq(Token) /\ Framed(rest.argv)
      BY <3>2, <3>3
    <3> QED BY <3>3, <3>4, <3>5, <3>6, FramedConcat
  <2> QED BY <2>1, <2>2
<1> HIDE DEF S
<1>5. 1 \in S
  <2>1. 1..(n + 2) \subseteq S
    BY <1>2, <1>4, DownwardInduction
  <2> QED BY <1>2, <2>1
<1> QED BY <1>1, <1>5 DEF S, Valid

\* imapsync reads no other options in framed arguments.
LEMMA FramedRead ==
    ASSUME NEW s \in Seq(Token), Framed(s)
    PROVE  Read(s) \subseteq Allowed
<1> DEFINE n == Len(s)
<1>1. PICK f : /\ Read(s) = f[1]
               /\ \A i \in 1..(n + 2) :
                     f[i] = IF i > n THEN {} ELSE {s[i].option} \cup f[After(s, i)]
  BY ReadEquation
<1>2. PICK P \in SUBSET (1..(n + 1)) :
          /\ 1 \in P
          /\ \A i \in P : i <= n => s[i].option \in Allowed /\ After(s, i) \in P
  BY DEF Framed
<1> DEFINE S == {i \in 1..(n + 2) : i \in P => f[i] \subseteq Allowed}
<1>3. n \in Nat
  OBVIOUS
<1> HIDE DEF n
<1>4. ASSUME NEW i \in 1..(n + 2), \A j \in 1..(n + 2) : j > i => j \in S
      PROVE  i \in S
  <2> SUFFICES ASSUME i \in P PROVE f[i] \subseteq Allowed
    OBVIOUS
  <2>1. CASE i > n
    BY <1>1, <2>1
  <2>2. CASE ~(i > n)
    <3>1. f[i] = {s[i].option} \cup f[After(s, i)]
      BY <1>1, <2>2
    <3>2. s[i].option \in Allowed /\ After(s, i) \in P
      BY <1>2, <1>3, <2>2
    <3>3. After(s, i) \in 1..(n + 2) /\ After(s, i) > i
      BY <1>2, <1>3, <3>2 DEF After
    <3>4. f[After(s, i)] \subseteq Allowed
      BY <1>4, <3>2, <3>3
    <3> QED BY <3>1, <3>2, <3>4
  <2> QED BY <2>1, <2>2
<1> HIDE DEF S
<1>5. 1 \in S
  <2>1. 1..(n + 2) \subseteq S
    BY <1>3, <1>4, DownwardInduction
  <2> QED BY <1>3, <2>1
<1> QED BY <1>1, <1>2, <1>5 DEF S

\* Whatever text an administrator gets past validate_custom_flags, imapsync reads
\* allowed options in it and nothing else: no value becomes an option, although a
\* value may look like one.
THEOREM AcceptedOptionsAreAllowed ==
    \A text \in Seq(Token) : Valid(text) => Read(Parsed(text).argv) \subseteq Allowed
BY ParsedFramed, FramedRead

\* Nor in the global options followed by those of the mailbox.
LEMMA ExtraRead ==
    ASSUME NEW j \in Job, Startable(j)
    PROVE  Read(Extra(j)) \subseteq Allowed
<1>1. /\ j.text \in Seq(Token) /\ Valid(j.text)
      /\ j.global \in Seq(Token) /\ Valid(j.global)
  BY SyncRunAssumption DEF Job, Startable
<1>2. Extra(j) \in Seq(Token) /\ Framed(Extra(j))
  BY <1>1, ParsedFramed, FramedConcat DEF Extra
<1> QED BY <1>2, FramedRead

LEMMA FlagsOf ==
    ASSUME NEW j \in Job, Startable(j), NEW mode \in Modes
    PROVE  /\ Flags(j, mode) \in SUBSET (Options \cup {"maxage", "dry"})
           /\ "delete1" \notin Flags(j, mode)
           /\ "delete2" \in Flags(j, mode) => j.delete
           /\ mode = "assess" => "dry" \in Flags(j, mode)
<1>1. Read(Extra(j)) \subseteq {"exclude", "addheader"}
  BY ExtraRead DEF Allowed
<1> HIDE DEF Read, Extra
<1> QED BY <1>1 DEF Flags, Options

-----------------------------------------------------------------------------
(* The invariant *)

\* Deletion is never set without the phrase, in the row or in what the worker read.
ConfirmInv ==
    /\ job.delete => job.confirmed
    /\ run.job.delete => run.job.confirmed

\* What a running imapsync was told.
FlagsInv ==
    run.pc = "proc" =>
        /\ "delete1" \notin run.flags
        /\ "delete2" \in run.flags => run.job.delete
        /\ run.mode = "assess" => "dry" \in run.flags

IInv == TypeOK /\ ConfirmInv /\ FlagsInv

LEMMA Counts ==
    /\ Cardinality(Msgs) \in Nat
    /\ \A S \in SUBSET Msgs : Cardinality(S) \in Totals
<1>1. Cardinality(Msgs) \in Nat
  BY SyncRunAssumption, FS_CardinalityType
<1>2. ASSUME NEW S \in SUBSET Msgs PROVE Cardinality(S) \in 0..Cardinality(Msgs)
  <2>1. IsFiniteSet(S) /\ Cardinality(S) <= Cardinality(Msgs)
    BY SyncRunAssumption, FS_Subset
  <2>2. Cardinality(S) \in Nat
    BY <2>1, FS_CardinalityType
  <2> QED BY <1>1, <2>1, <2>2
<1> QED BY <1>1, <1>2 DEF Totals

LEMMA NoRunType ==
    /\ NewJob \in Job /\ ~NewJob.delete
    /\ NoRun \in Run /\ NoRun.pc = "idle" /\ NoRun.job = NewJob
    /\ \A mode \in Modes, pc \in {"read", "done", "raised"} :
          LET r == Held(pc, mode) IN r \in Run /\ r.pc = pc /\ r.job = NewJob
<1>1. NewJob \in Job /\ ~NewJob.delete
  BY SyncRunAssumption DEF NewJob, Job
<1>2. 0 \in 0..Cardinality(Msgs)
  BY Counts
<1>3. NoRun \in Run /\ NoRun.pc = "idle" /\ NoRun.job = NewJob
  BY <1>1, <1>2 DEF NoRun, Run, Modes
<1> HIDE DEF NoRun
<1>4. \A mode \in Modes, pc \in {"read", "done", "raised"} :
         LET r == Held(pc, mode) IN r \in Run /\ r.pc = pc /\ r.job = NewJob
  BY <1>3 DEF Held, Run
<1> QED BY <1>1, <1>3, <1>4

LEMMA InitIInv == Init => IInv
<1> SUFFICES ASSUME Init PROVE IInv
  OBVIOUS
<1>1. 0 \in Totals
  BY Counts DEF Totals
<1>2. TypeOK
  BY <1>1, NoRunType, SyncRunAssumption DEF Init, TypeOK, Modes
<1>3. ConfirmInv /\ FlagsInv
  BY NoRunType DEF Init, ConfirmInv, FlagsInv
<1> QED BY <1>2, <1>3 DEF IInv

\* A step changes the settings, what the worker holds, or neither.
LEMMA NextIInv == IInv /\ [Next]_vars => IInv'
<1> SUFFICES ASSUME IInv, [Next]_vars PROVE IInv'
  OBVIOUS
<1> USE DEF IInv
<1>1. ASSUME UNCHANGED <<job, run>>, src' \subseteq Msgs, dst' \subseteq Msgs,
             queue' \subseteq Modes \cup {"retrying"}, UNCHANGED <<last, bounds>>
      PROVE  IInv'
  BY <1>1 DEF TypeOK, ConfirmInv, FlagsInv, bounds
<1>2. ASSUME run' \in Run, job' \in Job, queue' \subseteq Modes \cup {"retrying"}, UNCHANGED mailboxes,
             last' \in [total : Totals, drift : Totals],
             failures' \in 0..MaxFailures, crashes' \in 0..MaxCrashes, edits' \in 0..MaxEdits,
             ConfirmInv', FlagsInv'
      PROVE  IInv'
  BY <1>2 DEF TypeOK, mailboxes
<1>3. ASSUME NEW j \in Job, j.delete => j.confirmed, Edit(j) PROVE IInv'
  <2>1. edits' \in 0..MaxEdits
    BY <1>3, SyncRunAssumption DEF Edit, TypeOK
  <2> QED BY <1>2, <1>3, <2>1 DEF Edit, TypeOK, ConfirmInv, FlagsInv
<1>4. CASE SourceChanges \/ LocalMail
  BY <1>1, <1>4 DEF SourceChanges, LocalMail, TypeOK
<1>5. ASSUME NEW delete \in BOOLEAN, NEW phrase \in BOOLEAN, NEW days \in BOOLEAN,
             NEW enabled \in BOOLEAN, BulkConfig(delete, phrase, days, enabled)
      PROVE  IInv'
  <2> DEFINE j == [job EXCEPT !.delete = delete, !.confirmed = delete /\ phrase,
                              !.days = days, !.enabled = enabled]
  <2>1. j \in Job /\ (j.delete => j.confirmed)
    BY <1>5 DEF BulkConfig, PhraseGiven, TypeOK, Job
  <2>2. Edit(j)
    BY <1>5 DEF BulkConfig
  <2> HIDE DEF j
  <2> QED BY <1>3, <2>1, <2>2
<1>6. ASSUME NEW text \in Texts, CustomFlags(text) \/ SaveImapsync(text) PROVE IInv'
  <2>1. PICK j : Edit(j) /\ j \in {[job EXCEPT !.text = text], [job EXCEPT !.global = text]}
    BY <1>6 DEF CustomFlags, SaveImapsync
  <2>2. j \in Job /\ (j.delete => j.confirmed)
    BY <2>1 DEF TypeOK, Job, ConfirmInv
  <2> QED BY <1>3, <2>1, <2>2
<1>7. ASSUME NEW asked \in BOOLEAN, Enqueue(asked) PROVE IInv'
  BY <1>1, <1>7 DEF Enqueue, TypeOK, mailboxes, Modes
<1>8. ASSUME run' \in Run, run'.job \in {run.job, job, NewJob}, run'.pc # "proc",
             queue' \subseteq Modes \cup {"retrying"}, UNCHANGED mailboxes, job' = job,
             last' \in [total : Totals, drift : Totals],
             failures' \in 0..MaxFailures, crashes' \in 0..MaxCrashes, edits' \in 0..MaxEdits
      PROVE  IInv'
  <2>1. run'.job.delete => run'.job.confirmed
    BY <1>8, NoRunType DEF ConfirmInv
  <2> QED BY <1>2, <1>8, <2>1 DEF ConfirmInv, FlagsInv, TypeOK
<1>9. CASE Claim
  <2>1. PICK mode \in Modes : run' = Held("read", mode) /\ queue' = queue \ {mode}
    BY <1>9 DEF Claim
  <2>2. run' \in Run /\ run'.pc = "read" /\ run'.job = NewJob
    BY <2>1, NoRunType
  <2> QED BY <1>8, <1>9, <2>1, <2>2 DEF Claim, TypeOK, bounds
<1>10. CASE ReadSettings
  <2>1. run.mode \in Modes
    BY DEF TypeOK, Run
  <2>2. run' \in Run /\ run'.job \in {job, NewJob} /\ run'.pc # "proc"
    <3>1. CASE job.enabled
      BY <1>10, <3>1 DEF ReadSettings, TypeOK, Run
    <3>2. CASE ~job.enabled
      BY <1>10, <2>1, <3>2, NoRunType DEF ReadSettings
    <3> QED BY <3>1, <3>2
  <2> QED BY <1>8, <1>10, <2>2 DEF ReadSettings, TypeOK, bounds
<1>11. CASE Start
  <2>1. CASE Startable(run.job)
    <3> DEFINE flags == Flags(run.job, run.mode)
    <3>1. run' = [run EXCEPT !.pc = "proc", !.flags = flags, !.listed = Selected(flags, src)]
      BY <1>11, <2>1 DEF Start
    <3>2. run.job \in Job /\ run.mode \in Modes /\ run \in Run
      BY DEF TypeOK, Run
    <3>3. /\ flags \in SUBSET (Options \cup {"maxage", "dry"})
          /\ "delete1" \notin flags
          /\ "delete2" \in flags => run.job.delete
          /\ run.mode = "assess" => "dry" \in flags
      BY <2>1, <3>2, FlagsOf
    <3> HIDE DEF flags
    <3>4. Selected(flags, src) \in SUBSET Msgs
      BY DEF Selected, TypeOK
    <3>5. /\ run' \in Run /\ run'.job = run.job /\ run'.mode = run.mode
          /\ run'.flags = flags
      BY <3>1, <3>2, <3>3, <3>4 DEF Run
    <3> QED BY <1>2, <1>11, <3>3, <3>5 DEF Start, TypeOK, ConfirmInv, FlagsInv, bounds
  <2>2. CASE ~Startable(run.job)
    <3>1. run' \in Run /\ run'.job = run.job /\ run'.pc # "proc"
      BY <1>11, <2>2 DEF Start, TypeOK, Run
    <3> QED BY <1>8, <1>11, <3>1 DEF Start, TypeOK, bounds
  <2> QED BY <2>1, <2>2
<1>12. CASE Copy \/ Purge
  BY <1>1, <1>12 DEF Copy, Purge, TypeOK, Run
<1>13. CASE Exit
  <2>1. Cardinality(run.listed) \in Totals /\ 0 \in Totals
    BY Counts DEF TypeOK, Run, Totals
  <2>2. run' \in Run /\ run'.job = run.job /\ run'.pc # "proc"
    BY <1>13, <2>1 DEF Exit, TypeOK, Run, Totals
  <2> QED BY <1>8, <1>13, <2>2 DEF Exit, TypeOK, bounds
<1>14. CASE Fail
  <2>1. run' \in Run /\ run'.job = run.job /\ run'.pc # "proc"
    BY <1>14 DEF Fail, TypeOK, Run
  <2>2. failures' \in 0..MaxFailures
    BY <1>14, SyncRunAssumption DEF Fail, TypeOK
  <2> QED BY <1>8, <1>14, <2>1, <2>2 DEF Fail, TypeOK
<1>15. CASE Report
  <2>1. run.total \in Totals /\ last.total \in Totals /\ Cardinality(Msgs) \in Nat
    BY Counts DEF TypeOK, Run, Totals
  <2>2. Drift(run.job.delete, last.total, run.total) \in Totals
    BY <2>1 DEF Drift, Totals
  <2>3. last' \in [total : Totals, drift : Totals]
    BY <1>15, <2>1, <2>2 DEF Report, TypeOK
  <2>4. run' \in Run /\ run'.job = NewJob /\ run'.pc # "proc"
    BY <1>15, NoRunType DEF Report, TypeOK, Run
  <2> QED BY <1>8, <1>15, <2>3, <2>4 DEF Report, TypeOK, bounds
<1>16. CASE Crash
  <2>1. crashes' \in 0..MaxCrashes
    BY <1>16, SyncRunAssumption DEF Crash, TypeOK
  <2>2. queue' \subseteq Modes \cup {"retrying"}
    BY <1>16 DEF Crash, TypeOK, Run
  <2> QED BY <1>8, <1>16, <2>1, <2>2, NoRunType DEF Crash, TypeOK
<1>17. CASE UNCHANGED vars
  BY <1>1, <1>17 DEF vars, bounds, TypeOK
<1>18. CASE Raise
  <2>1. failures' \in 0..MaxFailures
    BY <1>18, SyncRunAssumption DEF Raise, TypeOK
  <2>2. run' \in Run /\ run'.job = NewJob /\ run'.pc # "proc"
    BY <1>18, NoRunType DEF Raise, TypeOK, Run
  <2> QED BY <1>8, <1>18, <2>1, <2>2 DEF Raise, TypeOK
<1>19. CASE Finish
  <2>1. queue' \subseteq Modes \cup {"retrying"}
    BY <1>19 DEF Finish, TypeOK
  <2> QED BY <1>8, <1>19, <2>1, NoRunType DEF Finish, TypeOK, bounds
<1> QED BY <1>4, <1>5, <1>6, <1>7, <1>9, <1>10, <1>11, <1>12, <1>13, <1>14, <1>15, <1>16, <1>17,
           <1>18, <1>19
        DEF Next, Handler

LEMMA Invariant == Spec => []IInv
BY InitIInv, NextIInv, PTL DEF Spec

-----------------------------------------------------------------------------
\* Every reachable state has its types: in particular the totals and the drift that
\* are shown are numbers of messages of the mailbox.
THEOREM TypeCorrect == Spec => []TypeOK
<1>1. IInv => TypeOK
  BY DEF IInv
<1> QED BY <1>1, Invariant, PTL

\* Whatever options are typed and whatever the settings become while it runs, a
\* synchronisation never removes a message from the source, and one from the
\* destination only in a transfer for which that was confirmed.
THEOREM NothingIsLost == Spec => SyncsAreSafe
<1> DEFINE Safe ==
        /\ src' # src => SourceChanges
        /\ ~(dst \subseteq dst') => run.pc = "proc" /\ run.mode = "sync" /\ run.job.confirmed
<1>1. ASSUME IInv, Next PROVE Safe
  <2>1. CASE SourceChanges
    BY <2>1 DEF SourceChanges
  <2>2. CASE Copy
    BY <1>1, <2>2 DEF Copy, Working, IInv, FlagsInv
  <2>3. CASE Purge
    <3>1. run.mode \in Modes
      BY <1>1 DEF IInv, TypeOK, Run
    <3> QED BY <1>1, <2>3, <3>1 DEF Purge, Working, Modes, IInv, FlagsInv, ConfirmInv
  <2>4. CASE ~SourceChanges /\ ~Copy /\ ~Purge
    <3>1. src' = src /\ dst \subseteq dst'
      BY <1>1, <2>4 DEF Next, Handler, LocalMail, BulkConfig, CustomFlags, SaveImapsync, Edit,
         Enqueue, Claim, ReadSettings, Start, Exit, Fail, Report, Raise, Finish, Crash,
         mailboxes
    <3> QED BY <3>1
  <2> QED BY <2>1, <2>2, <2>3, <2>4
<1>2. IInv /\ [Next]_vars => [Safe]_vars
  BY <1>1
<1> QED BY <1>2, Invariant, PTL DEF Spec, SyncsAreSafe
=============================================================================
