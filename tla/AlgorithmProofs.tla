---------------------------- MODULE AlgorithmProofs ----------------------------
(***************************************************************************)
(* The algorithms of the services, for inputs of any size.  A theorem of   *)
(* the library that takes no property as a parameter (WFMin) gives         *)
(* induction over a set of numbers, and with it the function that a        *)
(* recursive definition describes.  TextDiff: both texts can be rebuilt    *)
(* from a diff of any two texts.                                           *)
(***************************************************************************)
EXTENDS MCServices, FiniteSetTheorems, SequenceTheorems, WellFoundedInduction, TLAPS

-----------------------------------------------------------------------------
(* Induction and recursion *)

\* A set of numbers has a least element, of any well-founded order and of <.
LEMMA LeastOfRelation ==
  ASSUME NEW T, T \subseteq Nat, T # {}, NEW R, IsWellFoundedOn(R, Nat)
  PROVE  \E x \in T : \A y \in T : ~(<<y, x>> \in R)
BY WFMin

\* A set of numbers has a least one.
LEMMA LeastNumber ==
  ASSUME NEW T, T \subseteq Nat, T # {}
  PROVE  \E n \in T : \A m \in T : n <= m
<1>1. PICK R : IsWellFoundedOn(R, Nat) /\ \A i, j \in Nat : i < j => <<i, j>> \in R
  <2> DEFINE Q == OpToRel(<, Nat)
  <2>1. IsWellFoundedOn(Q, Nat)
    BY NatLessThanWellFounded
  <2>2. \A i, j \in Nat : i < j => <<i, j>> \in Q
    BY DEF OpToRel
  <2> QED BY <2>1, <2>2
<1>2. PICK n \in T : \A m \in T : ~(<<m, n>> \in R)
  BY <1>1, LeastOfRelation
<1>3. ASSUME NEW m \in T PROVE n <= m
  <2>1. n \in Nat /\ m \in Nat
    BY <1>3
  <2>2. ~(m < n)
    BY <1>1, <1>2, <1>3, <2>1
  <2> QED BY <2>1, <2>2
<1> QED BY <1>3

\* Induction, for a property given by the set of the numbers that have it.
LEMMA SetInduction ==
  ASSUME NEW S, 0 \in S, \A n \in Nat : n \in S => n + 1 \in S
  PROVE  \A n \in Nat : n \in S
<1> SUFFICES ASSUME NEW k \in Nat, k \notin S PROVE FALSE
  OBVIOUS
<1>1. PICK n \in Nat \ S : \A m \in Nat \ S : n <= m
  BY LeastNumber
<1>2. n # 0 /\ n - 1 \in Nat /\ n - 1 \notin Nat \ S
  BY <1>1
<1> QED BY <1>1, <1>2

\* The values after each of the n rounds of a loop that starts with b.
IsBody(G, n, V) == G \in [V \X (1..n) -> V]
IsLoop(f, n, V, b, G) ==
    /\ f \in [0..n -> V] /\ f[0] = b
    /\ \A k \in 1..n : f[k] = G[<<f[k - 1], k>>]

\* A loop has a result, and one only.
LEMMA LoopExists ==
  ASSUME NEW n \in Nat, NEW V, NEW b \in V, NEW G, IsBody(G, n, V)
  PROVE  \E f : IsLoop(f, n, V, b, G)
<1>0. G \in [V \X (1..n) -> V]
  BY DEF IsBody
<1> DEFINE Good(f, m) == f[0] = b /\ \A k \in 1..n : k <= m => f[k] = G[<<f[k - 1], k>>]
           S == {m \in Nat : \E f \in [0..n -> V] : Good(f, m)}
<1>1. 0 \in S
  <2>1. [k \in 0..n |-> b] \in [0..n -> V] /\ Good([k \in 0..n |-> b], 0)
    OBVIOUS
  <2> QED BY <2>1
<1>2. ASSUME NEW m \in Nat, m \in S PROVE m + 1 \in S
  <2>1. PICK f \in [0..n -> V] : Good(f, m)
    BY <1>2
  <2>2. CASE m + 1 \in 1..n
    <3>1. PICK g : g = [f EXCEPT ![m + 1] = G[<<f[m], m + 1>>]]
      OBVIOUS
    <3>2. m \in 0..n /\ f[m] \in V /\ G[<<f[m], m + 1>>] \in V
      BY <1>0, <2>2
    <3>3. /\ g \in [0..n -> V] /\ g[m + 1] = G[<<f[m], m + 1>>]
          /\ \A k \in 0..n : k # m + 1 => g[k] = f[k]
      BY <2>2, <3>1, <3>2
    <3>4. g[0] = b
      BY <2>1, <3>3
    <3>5. ASSUME NEW k \in 1..n, k <= m + 1 PROVE g[k] = G[<<g[k - 1], k>>]
      <4>1. k - 1 \in 0..n /\ k - 1 # m + 1 /\ g[k - 1] = f[k - 1]
        BY <2>2, <3>3, <3>5
      <4>2. CASE k = m + 1
        BY <3>3, <4>1, <4>2
      <4>3. CASE k # m + 1
        <5>1. k <= m /\ k \in 0..n
          BY <3>5, <4>3
        <5> QED BY <2>1, <3>3, <4>1, <4>3, <5>1
      <4> QED BY <4>2, <4>3
    <3> QED BY <3>3, <3>4, <3>5
  <2>3. CASE m + 1 \notin 1..n
    <3>1. Good(f, m + 1)
      BY <2>1, <2>3
    <3> QED BY <3>1
  <2> QED BY <2>2, <2>3
<1>3. n \in S
  <2> HIDE DEF S
  <2> QED BY <1>1, <1>2, SetInduction
<1>4. PICK f \in [0..n -> V] : Good(f, n)
  BY <1>3
<1> QED BY <1>4 DEF IsLoop

\* Two loops that do the same in each round have the same results.
LEMMA LoopUnique ==
  ASSUME NEW n \in Nat, NEW f, NEW g, f[0] = g[0],
         \A k \in 1..n : f[k - 1] = g[k - 1] => f[k] = g[k]
  PROVE  \A k \in 0..n : f[k] = g[k]
<1> DEFINE S == {m \in Nat : m <= n => f[m] = g[m]}
<1>1. 0 \in S
  OBVIOUS
<1>2. ASSUME NEW m \in Nat, m \in S PROVE m + 1 \in S
  <2>1. ASSUME m + 1 <= n PROVE f[m + 1] = g[m + 1]
    <3>1. m + 1 \in 1..n /\ (m + 1) - 1 = m
      BY <2>1
    <3>2. f[m] = g[m]
      BY <1>2, <2>1
    <3> QED BY <3>1, <3>2
  <2> QED BY <2>1
<1>3. \A m \in Nat : m \in S
  <2> HIDE DEF S
  <2> QED BY <1>1, <1>2, SetInduction
<1> QED BY <1>3

-----------------------------------------------------------------------------
(* TextDiff *)

\* Words or characters, and the space between words.
Signs == Letters \cup {Diff!Space}
Part == [type : {"equal", "removed", "added"}, text : Seq(Signs)]

\* What a part adds to the text of its types.
Share(p, types) == IF p.type \in types THEN p.text ELSE <<>>

\* The text of the first k parts, which TextOf gives for all of them.
TextFn(ps, types) ==
    CHOOSE f : f = [k \in 0..Len(ps) |->
                      IF k = 0 THEN <<>>
                      ELSE f[k - 1] \o (IF ps[k].type \in types THEN ps[k].text ELSE <<>>)]

\* The text of a diff: the last round of the loop that joins its parts.
LEMMA TextFnIs ==
  ASSUME NEW ps \in Seq(Part), NEW types
  PROVE  /\ Diff!TextOf(ps, types) = TextFn(ps, types)[Len(ps)]
         /\ TextFn(ps, types) \in [0..Len(ps) -> Seq(Signs)]
         /\ TextFn(ps, types)[0] = <<>>
         /\ \A k \in 1..Len(ps) :
               TextFn(ps, types)[k] = TextFn(ps, types)[k - 1] \o Share(ps[k], types)
<1>0. Diff!TextOf(ps, types) = TextFn(ps, types)[Len(ps)]
  BY DEF Diff!TextOf, TextFn
<1> DEFINE G == [w \in Seq(Signs) \X (1..Len(ps)) |-> w[1] \o Share(ps[w[2]], types)]
           Step(f) == [k \in 0..Len(ps) |->
                      IF k = 0 THEN <<>>
                      ELSE f[k - 1] \o (IF ps[k].type \in types THEN ps[k].text ELSE <<>>)]
<1>1. ASSUME NEW k \in 1..Len(ps) PROVE Share(ps[k], types) \in Seq(Signs)
  <2>1. ps[k] \in Part
    OBVIOUS
  <2>2. ps[k].text \in Seq(Signs)
    BY <2>1 DEF Part
  <2> QED BY <2>2 DEF Share
<1>2. G \in [Seq(Signs) \X (1..Len(ps)) -> Seq(Signs)]
  BY <1>1
<1>3. PICK f \in [0..Len(ps) -> Seq(Signs)] :
         f[0] = <<>> /\ \A k \in 1..Len(ps) : f[k] = G[<<f[k - 1], k>>]
  <2>1. Len(ps) \in Nat /\ <<>> \in Seq(Signs) /\ IsBody(G, Len(ps), Seq(Signs))
    BY <1>2 DEF IsBody
  <2> HIDE DEF G
  <2>2. PICK f : IsLoop(f, Len(ps), Seq(Signs), <<>>, G)
    BY <2>1, LoopExists
  <2> QED BY <2>2 DEF IsLoop
<1>4. \A k \in 1..Len(ps) : f[k] = f[k - 1] \o Share(ps[k], types)
  <2>1. \A k \in 1..Len(ps) : k - 1 \in 0..Len(ps)
    OBVIOUS
  <2> QED BY <1>3, <2>1
<1>5. f = Step(f)
  <2>1. ASSUME NEW k \in 0..Len(ps) PROVE f[k] = Step(f)[k]
    <3>1. CASE k = 0
      BY <1>3, <3>1
    <3>2. CASE k # 0
      <4>1. k \in 1..Len(ps)
        BY <3>2
      <4>2. f[k] = f[k - 1] \o Share(ps[k], types)
        BY <1>4, <4>1
      <4> QED BY <3>2, <4>2 DEF Share
    <3> QED BY <3>1, <3>2
  <2>2. f = [k \in 0..Len(ps) |-> f[k]]
    OBVIOUS
  <2> QED BY <2>1, <2>2
<1>6. TextFn(ps, types) = Step(TextFn(ps, types))
  BY <1>5 DEF TextFn
<1>7. PICK g : g = TextFn(ps, types)
  OBVIOUS
<1>8. /\ g = [k \in 0..Len(ps) |-> g[k]] /\ g[0] = <<>>
      /\ \A k \in 1..Len(ps) : g[k] = g[k - 1] \o Share(ps[k], types)
  <2>1. g = Step(g)
    BY <1>6, <1>7
  <2>2. \A k \in 0..Len(ps) : g[k] = Step(g)[k]
    BY <2>1
  <2>3. g[0] = <<>>
    BY <2>2
  <2>4. ASSUME NEW k \in 1..Len(ps) PROVE g[k] = g[k - 1] \o Share(ps[k], types)
    <3>1. k \in 0..Len(ps) /\ k # 0
      OBVIOUS
    <3>2. g[k] = Step(g)[k]
      BY <2>2, <3>1
    <3> QED BY <3>1, <3>2 DEF Share
  <2>5. g = [k \in 0..Len(ps) |-> g[k]]
    BY <2>1
  <2> QED BY <2>3, <2>4, <2>5
<1>9. \A k \in 0..Len(ps) : g[k] = f[k]
  <2>1. \A k \in 1..Len(ps) : g[k - 1] = f[k - 1] => g[k] = f[k]
    BY <1>4, <1>8
  <2>2. g[0] = f[0] /\ Len(ps) \in Nat
    BY <1>3, <1>8
  <2> QED BY <2>1, <2>2, LoopUnique
<1>10. g \in [0..Len(ps) -> Seq(Signs)]
  BY <1>8, <1>9
<1> QED BY <1>0, <1>7, <1>8, <1>10

\* The text of parts is a text, and the text of no parts is empty.
LEMMA TextOfIsText ==
  ASSUME NEW ps \in Seq(Part), NEW types
  PROVE  Diff!TextOf(ps, types) \in Seq(Signs)
<1>1. Len(ps) \in 0..Len(ps)
  OBVIOUS
<1>2. TextFn(ps, types)[Len(ps)] \in Seq(Signs)
  BY <1>1, TextFnIs
<1> QED BY <1>2, TextFnIs

\* An empty diff has no text.
LEMMA TextOfNothing ==
  ASSUME NEW types
  PROVE  Diff!TextOf(<<>>, types) = <<>>
<1>1. <<>> \in Seq(Part) /\ Len(<<>>) = 0
  OBVIOUS
<1> QED BY <1>1, TextFnIs

\* What parts with the same beginning, of n parts, begin with.
LEMMA TextOfBeginning ==
  ASSUME NEW ps \in Seq(Part), NEW qs \in Seq(Part), NEW types,
         NEW n \in Nat, n <= Len(ps), n <= Len(qs), \A k \in 1..n : ps[k] = qs[k]
  PROVE  TextFn(ps, types)[n] = TextFn(qs, types)[n]
<1>1. PICK f : f = TextFn(ps, types)
  OBVIOUS
<1>2. PICK g : g = TextFn(qs, types)
  OBVIOUS
<1>3. f[0] = g[0]
  BY <1>1, <1>2, TextFnIs
<1>4. ASSUME NEW k \in 1..n, f[k - 1] = g[k - 1] PROVE f[k] = g[k]
  <2>1. k \in 1..Len(ps) /\ k \in 1..Len(qs) /\ ps[k] = qs[k]
    OBVIOUS
  <2>2. f[k] = f[k - 1] \o Share(ps[k], types)
    BY <1>1, <2>1, TextFnIs
  <2>3. g[k] = g[k - 1] \o Share(qs[k], types)
    BY <1>2, <2>1, TextFnIs
  <2> QED BY <1>4, <2>1, <2>2, <2>3
<1>5. \A k \in 0..n : f[k] = g[k]
  <2>1. \A k \in 1..n : f[k - 1] = g[k - 1] => f[k] = g[k]
    BY <1>4
  <2> QED BY ONLY n \in Nat, <1>3, <2>1, LoopUnique, Zenon
<1>6. n \in 0..n
  OBVIOUS
<1> QED BY <1>1, <1>2, <1>5, <1>6

\* A text with the text of a part of one type behind it.
WithText(w, type, x, types) == w \o (IF type \in types THEN x ELSE <<>>)

\* A part put behind the others puts its text behind theirs.
LEMMA TextOfAppended ==
  ASSUME NEW ps \in Seq(Part), NEW types, NEW ty \in {"equal", "removed", "added"},
         NEW x \in Seq(Signs)
  PROVE  /\ Append(ps, [type |-> ty, text |-> x]) \in Seq(Part)
         /\ Diff!TextOf(Append(ps, [type |-> ty, text |-> x]), types)
               = WithText(Diff!TextOf(ps, types), ty, x, types)
<1> DEFINE p == [type |-> ty, text |-> x]
<1>1. PICK qs : qs = Append(ps, p)
  OBVIOUS
<1>2. p \in Part
  BY DEF Part
<1>3. /\ qs \in Seq(Part) /\ Len(qs) = Len(ps) + 1 /\ qs[Len(qs)] = p
      /\ \A k \in 1..Len(ps) : ps[k] = qs[k]
  <2> HIDE DEF p
  <2> QED BY <1>1, <1>2
<1>4. TextFn(ps, types)[Len(ps)] = TextFn(qs, types)[Len(ps)]
  BY <1>3, TextOfBeginning
<1>5. TextFn(qs, types)[Len(qs)] = TextFn(qs, types)[Len(ps)] \o Share(p, types)
  <2>1. Len(qs) \in 1..Len(qs) /\ Len(qs) - 1 = Len(ps)
    BY <1>3
  <2> QED BY <1>3, <2>1, TextFnIs
<1>6. Diff!TextOf(qs, types) = Diff!TextOf(ps, types) \o Share(p, types)
  BY <1>3, <1>4, <1>5, TextFnIs
<1>7. Diff!TextOf(qs, types) = WithText(Diff!TextOf(ps, types), ty, x, types)
  BY <1>6 DEF Share, WithText
<1> QED BY <1>1, <1>3, <1>7

\* Texts are put together from either end.
Joined(a, b) == a \o b

\* Joining texts is associative.
LEMMA TextAssociative ==
  ASSUME NEW a \in Seq(Signs), NEW b \in Seq(Signs), NEW c \in Seq(Signs)
  PROVE  Joined(a, Joined(b, c)) = Joined(Joined(a, b), c)
<1>1. PICK S : S = Signs
  OBVIOUS
<1>2. a \in Seq(S) /\ b \in Seq(S) /\ c \in Seq(S)
  BY <1>1
<1>3. (a \o b) \o c = a \o (b \o c)
  BY ONLY <1>2, ConcatAssociative
<1> QED BY <1>3 DEF Joined

\* A last part with a text behind its own.
Longer(ps, x) == [ps EXCEPT ![Len(ps)].text = @ \o x]

\* So does a text put behind the last part.
LEMMA TextOfLonger ==
  ASSUME NEW ps \in Seq(Part), ps # <<>>, NEW types, NEW x \in Seq(Signs)
  PROVE  /\ Longer(ps, x) \in Seq(Part) /\ Len(Longer(ps, x)) = Len(ps)
         /\ \A k \in 1..Len(ps) : Longer(ps, x)[k].type = ps[k].type
         /\ \A k \in 1..(Len(ps) - 1) : Longer(ps, x)[k] = ps[k]
         /\ Longer(ps, x)[Len(ps)].text = ps[Len(ps)].text \o x
         /\ Diff!TextOf(Longer(ps, x), types)
               = WithText(Diff!TextOf(ps, types), ps[Len(ps)].type, x, types)
<1>1. PICK n \in Nat \ {0} : n = Len(ps)
  OBVIOUS
<1>2. PICK p \in Part : p = ps[n]
  BY <1>1
<1>3. PICK q : q = [p EXCEPT !.text = @ \o x]
  OBVIOUS
<1>4. q \in Part /\ q.type = p.type /\ q.text = p.text \o x /\ p.text \in Seq(Signs)
  <2>1. p.text \in Seq(Signs) /\ p.type \in {"equal", "removed", "added"}
        /\ p = [type |-> p.type, text |-> p.text]
    BY <1>2 DEF Part
  <2>2. q = [type |-> p.type, text |-> p.text \o x]
    BY <1>3, <2>1
  <2>3. p.text \o x \in Seq(Signs)
    BY <2>1
  <2> QED BY <2>1, <2>2, <2>3 DEF Part
<1>5. PICK qs : qs = Longer(ps, x)
  OBVIOUS
<1>6. qs = [ps EXCEPT ![n] = q]
  BY <1>1, <1>2, <1>3, <1>5 DEF Longer
<1>7. /\ qs \in Seq(Part) /\ Len(qs) = n /\ qs[n] = q
      /\ \A k \in 1..(n - 1) : qs[k] = ps[k]
  BY <1>1, <1>4, <1>6
<1>8. TextFn(ps, types)[n - 1] = TextFn(qs, types)[n - 1]
  <2>1. n - 1 \in Nat /\ n - 1 <= Len(ps) /\ n - 1 <= Len(qs)
    BY <1>1, <1>7
  <2>2. \A k \in 1..(n - 1) : ps[k] = qs[k]
    BY <1>7
  <2> QED BY <1>7, <2>1, <2>2, TextOfBeginning
<1>9. PICK w : w = TextFn(ps, types)[n - 1]
  OBVIOUS
<1>10. w \in Seq(Signs)
  <2>1. n - 1 \in 0..Len(ps)
    BY <1>1
  <2> QED BY <1>9, <2>1, TextFnIs
<1>11. Diff!TextOf(ps, types) = w \o Share(p, types)
  <2>1. n \in 1..Len(ps)
    BY <1>1
  <2>2. TextFn(ps, types)[n] = TextFn(ps, types)[n - 1] \o Share(ps[n], types)
    BY <2>1, TextFnIs
  <2> QED BY <1>1, <1>2, <1>9, <2>2, TextFnIs
<1>12. Diff!TextOf(qs, types) = w \o Share(q, types)
  <2>1. n \in 1..Len(qs)
    BY <1>7
  <2>2. TextFn(qs, types)[n] = TextFn(qs, types)[n - 1] \o Share(qs[n], types)
    BY <1>7, <2>1, TextFnIs
  <2> QED BY <1>7, <1>8, <1>9, <2>2, TextFnIs
<1>13. Diff!TextOf(qs, types) = WithText(Diff!TextOf(ps, types), p.type, x, types)
  <2>1. CASE p.type \in types
    <3>1. w \o (p.text \o x) = (w \o p.text) \o x
      BY <1>4, <1>10, TextAssociative DEF Joined
    <3> QED BY <1>4, <1>11, <1>12, <2>1, <3>1 DEF Share, WithText
  <2>2. CASE p.type \notin types
    <3>1. w \o <<>> = w
      BY <1>10, ConcatEmptySeq
    <3> QED BY <1>4, <1>11, <1>12, <2>2, <3>1 DEF Share, WithText
  <2> QED BY <2>1, <2>2
<1>14. \A k \in 1..n : qs[k].type = ps[k].type
  BY <1>2, <1>4, <1>7
<1> QED BY <1>1, <1>2, <1>4, <1>5, <1>7, <1>13, <1>14

PartTypes == {"equal", "removed", "added"}

\* Neighbours of one type have become one part.
Alternating(ps) == \A k \in 2..Len(ps) : ps[k].type # ps[k - 1].type

\* What _append_part() does to the text of some types, and to neighbours.
LEMMA TextOfPart ==
  ASSUME NEW ps \in Seq(Part), NEW types, NEW ty \in PartTypes, NEW x \in Seq(Signs)
  PROVE  /\ Diff!AppendPart(ps, ty, x) \in Seq(Part)
         /\ Diff!TextOf(Diff!AppendPart(ps, ty, x), types)
               = WithText(Diff!TextOf(ps, types), ty, x, types)
         /\ Alternating(ps) => Alternating(Diff!AppendPart(ps, ty, x))
<1>1. CASE x = <<>>
  <2>1. Diff!AppendPart(ps, ty, x) = ps
    BY <1>1 DEF Diff!AppendPart
  <2>2. PICK w \in Seq(Signs) : w = Diff!TextOf(ps, types)
    BY TextOfIsText
  <2>3. w \o <<>> = w
    BY <2>2, ConcatEmptySeq
  <2> QED BY <1>1, <2>1, <2>2, <2>3 DEF WithText
<1>2. CASE x # <<>> /\ ps # <<>> /\ ps[Len(ps)].type = ty
  <2>1. Diff!AppendPart(ps, ty, x) = Longer(ps, x)
    BY <1>2 DEF Diff!AppendPart, Longer
  <2>2. Alternating(ps) => Alternating(Longer(ps, x))
    <3>1. ASSUME NEW k \in 2..Len(ps) PROVE k \in 1..Len(ps) /\ k - 1 \in 1..Len(ps)
      OBVIOUS
    <3>2. /\ Len(Longer(ps, x)) = Len(ps)
          /\ \A k \in 1..Len(ps) : Longer(ps, x)[k].type = ps[k].type
      BY <1>2, TextOfLonger
    <3> QED BY <3>1, <3>2 DEF Alternating
  <2>3. /\ Longer(ps, x) \in Seq(Part)
        /\ Diff!TextOf(Longer(ps, x), types)
              = WithText(Diff!TextOf(ps, types), ps[Len(ps)].type, x, types)
    BY <1>2, TextOfLonger
  <2> QED BY <1>2, <2>1, <2>2, <2>3
<1>3. CASE x # <<>> /\ ~(ps # <<>> /\ ps[Len(ps)].type = ty)
  <2>1. PICK qs : qs = Append(ps, [type |-> ty, text |-> x])
    OBVIOUS
  <2>2. Diff!AppendPart(ps, ty, x) = qs
    BY <1>3, <2>1 DEF Diff!AppendPart
  <2>3. /\ qs \in Seq(Part)
        /\ Diff!TextOf(qs, types) = WithText(Diff!TextOf(ps, types), ty, x, types)
    BY <2>1, TextOfAppended DEF PartTypes
  <2>4. ASSUME Alternating(ps) PROVE Alternating(qs)
    <3>1. /\ Len(qs) = Len(ps) + 1 /\ qs[Len(qs)].type = ty
          /\ \A k \in 1..Len(ps) : qs[k] = ps[k]
      BY <2>1
    <3>2. ASSUME NEW k \in 2..Len(qs) PROVE qs[k].type # qs[k - 1].type
      <4>1. CASE k <= Len(ps)
        BY <2>4, <3>1, <4>1 DEF Alternating
      <4>2. CASE k = Len(qs)
        <5>1. k - 1 = Len(ps) /\ Len(ps) \in 1..Len(ps) /\ ps # <<>>
          BY <3>1, <4>2
        <5>2. qs[k - 1] = ps[Len(ps)]
          BY <3>1, <5>1
        <5> QED BY <1>3, <3>1, <4>2, <5>1, <5>2
      <4> QED BY <3>1, <4>1, <4>2
    <3> QED BY <3>2 DEF Alternating
  <2> QED BY <2>2, <2>3, <2>4
<1> QED BY <1>1, <1>2, <1>3

\* The common text and the text of one type make up the text of both.
Balanced(ps, ty) ==
    /\ Len(Diff!TextOf(ps, {"equal", ty}))
          = Len(Diff!TextOf(ps, {"equal"})) + Len(Diff!TextOf(ps, {ty}))
    /\ Diff!TextOf(ps, {ty}) = <<>>
          => Diff!TextOf(ps, {"equal", ty}) = Diff!TextOf(ps, {"equal"})

GoodParts(ps) ==
    ps \in Seq(Part) /\ Alternating(ps) /\ Balanced(ps, "removed") /\ Balanced(ps, "added")

\* _append_part() keeps the texts balanced.
LEMMA BalancedKept ==
  ASSUME NEW ps \in Seq(Part), NEW ty \in PartTypes, NEW x \in Seq(Signs),
         NEW u \in {"removed", "added"}, Balanced(ps, u)
  PROVE  Balanced(Diff!AppendPart(ps, ty, x), u)
<1>1. PICK qs : qs = Diff!AppendPart(ps, ty, x)
  OBVIOUS
<1>2. PICK e \in Seq(Signs) : e = Diff!TextOf(ps, {"equal"})
  BY TextOfIsText
<1>3. PICK r \in Seq(Signs) : r = Diff!TextOf(ps, {u})
  BY TextOfIsText
<1>4. PICK b \in Seq(Signs) : b = Diff!TextOf(ps, {"equal", u})
  BY TextOfIsText
<1>5. Len(b) = Len(e) + Len(r) /\ (r = <<>> => b = e)
  BY <1>2, <1>3, <1>4 DEF Balanced
<1>6. /\ Diff!TextOf(qs, {"equal"}) = WithText(e, ty, x, {"equal"})
      /\ Diff!TextOf(qs, {u}) = WithText(r, ty, x, {u})
      /\ Diff!TextOf(qs, {"equal", u}) = WithText(b, ty, x, {"equal", u})
  BY <1>1, <1>2, <1>3, <1>4, TextOfPart
<1>7. /\ Len(e \o x) = Len(e) + Len(x) /\ Len(r \o x) = Len(r) + Len(x)
      /\ Len(b \o x) = Len(b) + Len(x)
      /\ e \o <<>> = e /\ r \o <<>> = r /\ b \o <<>> = b
  OBVIOUS
<1>8. r \o x = <<>> => r = <<>> /\ x = <<>>
  <2>1. Len(r \o x) = Len(r) + Len(x)
    BY <1>7
  <2> QED BY <2>1
<1>9. /\ Len(WithText(b, ty, x, {"equal", u}))
            = Len(WithText(e, ty, x, {"equal"})) + Len(WithText(r, ty, x, {u}))
      /\ WithText(r, ty, x, {u}) = <<>>
            => WithText(b, ty, x, {"equal", u}) = WithText(e, ty, x, {"equal"})
  <2>1. CASE ty = "equal"
    <3>1. /\ WithText(b, ty, x, {"equal", u}) = b \o x
          /\ WithText(e, ty, x, {"equal"}) = e \o x /\ WithText(r, ty, x, {u}) = r
      BY <1>7, <2>1 DEF WithText
    <3>2. r = <<>> => b \o x = e \o x
      BY <1>5
    <3>3. Len(b \o x) = Len(e \o x) + Len(r)
      BY ONLY <1>5, <1>7, Len(b) \in Nat, Len(e) \in Nat, Len(r) \in Nat, Len(x) \in Nat
    <3> QED BY <3>1, <3>2, <3>3
  <2>2. CASE ty = u
    <3>1. /\ WithText(b, ty, x, {"equal", u}) = b \o x
          /\ WithText(e, ty, x, {"equal"}) = e /\ WithText(r, ty, x, {u}) = r \o x
      BY <1>7, <2>2 DEF WithText
    <3>2. r \o x = <<>> => b \o x = e
      BY <1>5, <1>7, <1>8
    <3>3. Len(b \o x) = Len(e) + Len(r \o x)
      BY ONLY <1>5, <1>7, Len(b) \in Nat, Len(e) \in Nat, Len(r) \in Nat, Len(x) \in Nat
    <3> QED BY <3>1, <3>2, <3>3
  <2>3. CASE ty # "equal" /\ ty # u
    <3>1. /\ WithText(b, ty, x, {"equal", u}) = b
          /\ WithText(e, ty, x, {"equal"}) = e /\ WithText(r, ty, x, {u}) = r
      BY <1>7, <2>3 DEF WithText
    <3> QED BY <1>5, <3>1
  <2> QED BY <2>1, <2>2, <2>3
<1>10. Balanced(qs, u)
  BY <1>6, <1>9 DEF Balanced
<1> QED BY <1>1, <1>10

\* _append_part() makes good parts of good parts.
LEMMA GoodPartsKept ==
  ASSUME NEW ps, GoodParts(ps), NEW ty \in PartTypes, NEW x \in Seq(Signs)
  PROVE  GoodParts(Diff!AppendPart(ps, ty, x))
BY TextOfPart, BalancedKept DEF GoodParts

\* No parts are good parts.
LEMMA GoodPartsFirst == GoodParts(<<>>)
<1>1. <<>> \in Seq(Part) /\ Alternating(<<>>)
  BY DEF Alternating
<1>2. Len(<<>>) = 0
  OBVIOUS
<1>3. ASSUME NEW u PROVE Balanced(<<>>, u)
  BY <1>2, TextOfNothing DEF Balanced
<1> QED BY <1>1, <1>3 DEF GoodParts

\* The text itself, in a mode (Characters).
Chars(m, t) ==
    IF m = "characters" THEN t
    ELSE [k \in 1..(IF t = <<>> THEN 0 ELSE 2 * Len(t) - 1) |->
            IF k % 2 = 1 THEN t[(k + 1) \div 2] ELSE Diff!Space]

\* It is a text.
LEMMA CharsIsText ==
  ASSUME NEW t \in Seq(Letters), NEW m
  PROVE  Chars(m, t) \in Seq(Signs)
<1>1. CASE m = "characters"
  BY <1>1 DEF Chars, Signs
<1>2. CASE m # "characters" /\ t = <<>>
  <2>1. Chars(m, t) = <<>>
    BY <1>2 DEF Chars
  <2> QED BY <2>1
<1>3. CASE m # "characters" /\ t # <<>>
  <2>1. PICK n \in Nat \ {0} : n = Len(t)
    BY <1>3
  <2>2. Chars(m, t) = [k \in 1..(2 * n - 1) |->
                         IF k % 2 = 1 THEN t[(k + 1) \div 2] ELSE Diff!Space]
    BY <1>3, <2>1 DEF Chars
  <2>3. ASSUME NEW k \in 1..(2 * n - 1), k % 2 = 1 PROVE t[(k + 1) \div 2] \in Signs
    <3>1. (k + 1) \div 2 \in 1..Len(t)
      BY <2>1, <2>3
    <3> QED BY <3>1 DEF Signs
  <2>4. Chars(m, t) \in [1..(2 * n - 1) -> Signs]
    BY <2>2, <2>3 DEF Signs
  <2>5. 2 * n - 1 \in Nat
    OBVIOUS
  <2> QED BY <2>4, <2>5
<1> QED BY <1>1, <1>2, <1>3

\* The space before the word after k words, and a text with it and the word.
SpaceAfter(m, k) == IF m = "words" /\ k > 0 THEN <<Diff!Space>> ELSE <<>>
Extended(w, m, k, word) == (w \o SpaceAfter(m, k)) \o <<word>>

\* A sequence that is another one and an element more.
LEMMA OneLonger ==
  ASSUME NEW S, NEW a \in Seq(S), NEW b \in Seq(S), NEW k \in Nat,
         Len(a) = k, Len(b) = k + 1, \A i \in 1..k : b[i] = a[i]
  PROVE  b = a \o <<b[k + 1]>>
OBVIOUS

\* One word more.
LEMMA CharsStep ==
  ASSUME NEW t \in Seq(Letters), NEW k \in 0..(Len(t) - 1), NEW m \in {"words", "characters"}
  PROVE  Chars(m, SubSeq(t, 1, k + 1)) = Extended(Chars(m, SubSeq(t, 1, k)), m, k, t[k + 1])
<1>0. k \in Nat /\ k + 1 \in Nat /\ k <= Len(t) /\ k + 1 <= Len(t) /\ Len(t) \in Nat
  OBVIOUS
<1>1. PICK a \in Seq(Letters) : a = SubSeq(t, 1, k)
  <2>1. \A i \in 1..k : t[i] \in Letters
    BY <1>0
  <2>2. SubSeq(t, 1, k) \in Seq(Letters)
    BY <1>0, <2>1, SubSeqProperties
  <2> QED BY <2>2
<1>2. PICK b \in Seq(Letters) : b = SubSeq(t, 1, k + 1)
  <2>1. \A i \in 1..(k + 1) : t[i] \in Letters
    BY <1>0
  <2>2. SubSeq(t, 1, k + 1) \in Seq(Letters)
    BY <1>0, <2>1, SubSeqProperties
  <2> QED BY <2>2
<1>3. /\ k \in Nat /\ Len(a) = k /\ Len(b) = k + 1
      /\ \A i \in 1..k : b[i] = a[i]
      /\ b[k + 1] = t[k + 1]
  BY <1>1, <1>2
<1>4. CASE m = "characters"
  <2>1. SpaceAfter(m, k) = <<>> /\ a \o <<>> = a
    BY <1>4 DEF SpaceAfter
  <2>2. b = a \o <<b[k + 1]>>
    BY <1>3, OneLonger
  <2> QED BY <1>1, <1>2, <1>3, <1>4, <2>1, <2>2 DEF Chars, Extended
<1>5. CASE m = "words" /\ k = 0
  <2>1. Chars(m, a) = <<>> /\ SpaceAfter(m, k) = <<>>
    BY <1>3, <1>5 DEF Chars, SpaceAfter
  <2>2. Chars(m, b) = [i \in 1..1 |-> IF i % 2 = 1 THEN b[(i + 1) \div 2] ELSE Diff!Space]
    BY <1>3, <1>5 DEF Chars
  <2>3. Chars(m, b) = <<t[1]>>
    BY <1>3, <1>5, <2>2
  <2>4. Extended(<<>>, m, k, t[1]) = <<t[1]>>
    BY <2>1 DEF Extended
  <2> QED BY <1>1, <1>2, <1>5, <2>1, <2>3, <2>4
<1>6. CASE m = "words" /\ k > 0
  <2>1. PICK ca : ca = Chars(m, a)
    OBVIOUS
  <2>2. PICK cb : cb = Chars(m, b)
    OBVIOUS
  <2>3. ca = [i \in 1..(2 * k - 1) |-> IF i % 2 = 1 THEN a[(i + 1) \div 2] ELSE Diff!Space]
    BY <1>3, <1>6, <2>1 DEF Chars
  <2>4. cb = [i \in 1..(2 * k + 1) |-> IF i % 2 = 1 THEN b[(i + 1) \div 2] ELSE Diff!Space]
    BY <1>3, <1>6, <2>2 DEF Chars
  <2>5. ca \in Seq(Signs) /\ Len(ca) = 2 * k - 1
    <3>1. ca \in Seq(Signs)
      BY <2>1, CharsIsText
    <3> QED BY <1>3, <1>6, <2>3, <3>1
  <2>6. cb \in Seq(Signs) /\ Len(cb) = 2 * k + 1
    <3>1. cb \in Seq(Signs)
      BY <2>2, CharsIsText
    <3> QED BY <1>3, <1>6, <2>4, <3>1
  <2>7. PICK e : e = Extended(ca, m, k, t[k + 1])
    OBVIOUS
  <2>8. e = (ca \o <<Diff!Space>>) \o <<t[k + 1]>>
    BY <1>6, <2>7 DEF Extended, SpaceAfter
  <2>9. t[k + 1] \in Signs /\ Diff!Space \in Signs
    BY DEF Signs
  <2>10. /\ e \in Seq(Signs) /\ Len(e) = 2 * k + 1
         /\ \A i \in 1..(2 * k - 1) : e[i] = ca[i]
         /\ e[2 * k] = Diff!Space /\ e[2 * k + 1] = t[k + 1]
    BY <1>3, <1>6, <2>5, <2>8, <2>9
  <2>11. ASSUME NEW i \in 1..(2 * k + 1) PROVE cb[i] = e[i]
    <3>1. CASE i <= 2 * k - 1
      <4>1. i \in 1..(2 * k - 1)
        BY <1>3, <3>1
      <4>2. i % 2 = 1 => (i + 1) \div 2 \in 1..k
        BY <1>3, <4>1
      <4>3. cb[i] = ca[i]
        BY <1>3, <2>3, <2>4, <4>1, <4>2
      <4> QED BY <2>10, <4>1, <4>3
    <3>2. CASE i = 2 * k
      <4>1. i % 2 # 1
        BY <1>3, <3>2
      <4> QED BY <2>4, <2>10, <3>2, <4>1
    <3>3. CASE i = 2 * k + 1
      <4>1. i % 2 = 1 /\ (i + 1) \div 2 = k + 1
        BY <1>3, <3>3
      <4> QED BY <1>3, <2>4, <2>10, <3>3, <4>1
    <3>4. i <= 2 * k - 1 \/ i = 2 * k \/ i = 2 * k + 1
      BY <1>0
    <3> QED BY <3>1, <3>2, <3>3, <3>4
  <2>12. cb = e
    BY <2>6, <2>10, <2>11
  <2> QED BY <1>1, <1>2, <2>1, <2>2, <2>7, <2>12
<1> QED BY <1>3, <1>4, <1>5, <1>6

\* Texts that read alike are alike.
LEMMA CharsDiffer ==
  ASSUME NEW a \in Seq(Letters), NEW b \in Seq(Letters), NEW m, Chars(m, a) = Chars(m, b)
  PROVE  a = b
<1>1. CASE m = "characters"
  BY <1>1 DEF Chars
<1>2. CASE m # "characters"
  <2>1. PICK n \in Nat : n = Len(a)
    OBVIOUS
  <2>2. PICK p \in Nat : p = Len(b)
    OBVIOUS
  <2>3. PICK ca : ca = Chars(m, a)
    OBVIOUS
  <2>4. PICK x : x = IF n = 0 THEN 0 ELSE 2 * n - 1
    OBVIOUS
  <2>5. PICK y : y = IF p = 0 THEN 0 ELSE 2 * p - 1
    OBVIOUS
  <2>6. ca = [i \in 1..x |-> IF i % 2 = 1 THEN a[(i + 1) \div 2] ELSE Diff!Space]
    BY <1>2, <2>1, <2>3, <2>4 DEF Chars
  <2>7. ca = [i \in 1..y |-> IF i % 2 = 1 THEN b[(i + 1) \div 2] ELSE Diff!Space]
    BY <1>2, <2>2, <2>3, <2>5 DEF Chars
  <2>8. x = y
    <3>1. DOMAIN ca = 1..x /\ DOMAIN ca = 1..y
      BY <2>6, <2>7
    <3>2. x \in Nat /\ y \in Nat
      BY <2>4, <2>5
    <3>3. x >= 1 => x \in 1..y
      BY <3>1, <3>2
    <3>4. y >= 1 => y \in 1..x
      BY <3>1, <3>2
    <3> QED BY <3>2, <3>3, <3>4
  <2>9. n = p
    BY <2>4, <2>5, <2>8
  <2>10. ASSUME NEW j \in 1..n PROVE a[j] = b[j]
    <3>1. PICK i : i = 2 * j - 1
      OBVIOUS
    <3>2. i \in 1..x /\ i % 2 = 1 /\ (i + 1) \div 2 = j
      BY <2>4, <3>1
    <3> QED BY <2>6, <2>7, <2>8, <3>2
  <2> QED BY <2>1, <2>2, <2>9, <2>10, SeqEqual
<1> QED BY <1>1, <1>2

\* The parts so far, of the words the operations have passed.
Made(ps, m, b, i, t, j) ==
    /\ GoodParts(ps)
    /\ Diff!TextOf(ps, {"equal", "removed"}) = Chars(m, SubSeq(b, 1, i))
    /\ Diff!TextOf(ps, {"equal", "added"}) = Chars(m, SubSeq(t, 1, j))

DiffTypes ==
    /\ mode \in {"words", "characters"} /\ base \in Seq(Letters) /\ target \in Seq(Letters)
    /\ base_start \in 0..Len(base) /\ target_start \in 0..Len(target)

DiffInv ==
    DiffTypes /\ Made(parts, mode, base, base_start, target, target_start) /\ Diff!DiffRebuilds

\* What DiffRebuilds says of a diff.
Rebuilt(d, m, b, t) ==
    /\ Diff!TextOf(d.diff, {"equal", "removed"}) = Chars(m, b)
    /\ Diff!TextOf(d.diff, {"equal", "added"}) = Chars(m, t)
    /\ \A k \in DOMAIN d.diff \ {1} : d.diff[k].type # d.diff[k - 1].type
    /\ d.similarity <= Precision
    /\ b = t => d.similarity = Precision
    /\ d.similarity = Precision =>
          2 * Precision * (d.added + d.removed) <= Len(Chars(m, b)) + Len(Chars(m, t))

\* e characters on both sides are common, c of all n are not, and s parts of p are
\* nearest to the share of the common ones.
Nearest(s, p, n, e, c) ==
    /\ n = 2 * e + c /\ n # 0
    /\ -n <= 2 * (s * n - 2 * p * e)
    /\ 2 * (s * n - 2 * p * e) <= n

\* Such a share is at most one, and one only if few characters differ.
LEMMA RoundedShare ==
  ASSUME NEW p \in Nat, NEW n \in Nat, NEW e \in Nat, NEW c \in Nat, NEW s \in Nat,
         Nearest(s, p, n, e, c)
  PROVE  s <= p /\ (c = 0 => s = p) /\ (s = p => 2 * p * c <= n)
<1> USE DEF Nearest
<1>1. PICK x \in Nat : x = p * n
  OBVIOUS
<1>2. PICK y \in Nat : y = p * c
  OBVIOUS
<1>3. 2 * p * e = x - y
  <2>1. p * n = p * (2 * e) + p * c
    OBVIOUS
  <2>2. p * (2 * e) = 2 * p * e
    OBVIOUS
  <2> QED BY <1>1, <1>2, <2>1, <2>2
<1>4. PICK z \in Nat : z = s * n
  OBVIOUS
<1>5. 2 * (z - (x - y)) <= n /\ -n <= 2 * (z - (x - y))
  BY <1>3, <1>4
<1>6. ASSUME s > p PROVE FALSE
  <2>1. PICK k \in Nat : s = p + 1 + k
    BY <1>6
  <2>2. z = x + n + k * n /\ k * n \in Nat
    BY <1>1, <1>4, <2>1
  <2> QED BY <1>5, <2>2
<1>7. ASSUME c = 0 PROVE s = p
  <2>1. y = 0
    BY <1>2, <1>7
  <2>2. ASSUME s < p PROVE FALSE
    <3>1. PICK k \in Nat : p = s + 1 + k
      BY <2>2
    <3>2. x = z + n + k * n /\ k * n \in Nat
      BY <1>1, <1>4, <3>1
    <3> QED BY <1>5, <2>1, <3>2
  <2> QED BY <1>6, <2>2
<1>8. ASSUME s = p PROVE 2 * p * c <= n
  <2>1. z = x
    BY <1>1, <1>4, <1>8
  <2>2. 2 * p * c = 2 * y
    BY <1>2
  <2> QED BY <1>5, <2>1, <2>2
<1> QED BY <1>6, <1>7, <1>8

\* A summary of good parts that give both texts rebuilds them.
LEMMA SummaryRebuilds ==
  ASSUME NEW ps, GoodParts(ps), DiffTypes, NEW s \in Diff!Rounded(Diff!CountOf(ps, "equal")),
         Diff!TextOf(ps, {"equal", "removed"}) = Chars(mode, base),
         Diff!TextOf(ps, {"equal", "added"}) = Chars(mode, target),
         base = target => Diff!TextOf(ps, {"equal"}) = Chars(mode, base)
  PROVE  Rebuilt(Diff!Summary(ps, s), mode, base, target)
<1>1. PICK d : d = Diff!Summary(ps, s)
  OBVIOUS
<1>2. ps \in Seq(Part)
  BY DEF GoodParts
<1>3. PICK e \in Seq(Signs) : e = Diff!TextOf(ps, {"equal"})
  BY <1>2, TextOfIsText
<1>4. PICK r \in Seq(Signs) : r = Diff!TextOf(ps, {"removed"})
  BY <1>2, TextOfIsText
<1>5. PICK a \in Seq(Signs) : a = Diff!TextOf(ps, {"added"})
  BY <1>2, TextOfIsText
<1>6. PICK er \in Seq(Signs) : er = Chars(mode, base)
  BY CharsIsText DEF DiffTypes
<1>7. PICK ea \in Seq(Signs) : ea = Chars(mode, target)
  BY CharsIsText DEF DiffTypes
<1>8. Len(er) = Len(e) + Len(r) /\ Len(ea) = Len(e) + Len(a)
  BY <1>3, <1>4, <1>5, <1>6, <1>7 DEF GoodParts, Balanced
<1>9. Diff!Characters(base) = er /\ Diff!Characters(target) = ea
  BY <1>6, <1>7 DEF Chars, Diff!Characters
<1>10. /\ d.diff = ps /\ d.similarity = s /\ d.added = Len(a) /\ d.removed = Len(r)
       /\ Diff!CountOf(ps, "equal") = Len(e) /\ Diff!Length = Len(er) + Len(ea)
  BY <1>1, <1>3, <1>4, <1>5, <1>9 DEF Diff!Summary, Diff!CountOf, Diff!Length
<1>11. PICK n \in Nat : n = Diff!Length
  BY <1>10
<1>12. PICK k \in Nat : k = Len(e)
  OBVIOUS
<1>13. PICK c \in Nat : c = Len(a) + Len(r)
  OBVIOUS
<1>14. n = 2 * k + c
  BY <1>8, <1>10, <1>11, <1>12, <1>13
<1>15. Precision \in Nat
  BY BoundsAssumption
<1>16. s <= Precision /\ (c = 0 => s = Precision) /\ (s = Precision => 2 * Precision * c <= n)
  <2>1. CASE n = 0
    <3>1. s = Precision /\ c = 0
      BY <1>11, <1>14, <2>1 DEF Diff!Rounded
    <3>2. 2 * Precision * c = 0
      BY <1>15, <3>1
    <3> QED BY <1>15, <2>1, <3>1, <3>2
  <2>2. CASE n # 0
    <3>1. PICK p \in Nat : p = Precision
      BY <1>15
    <3>2. s \in {x \in 0..(2 * p) : -n <= 2 * (x * n - 2 * p * k) /\ 2 * (x * n - 2 * p * k) <= n}
      BY <1>10, <1>11, <1>12, <2>2, <3>1 DEF Diff!Rounded
    <3>3. s \in 0..(2 * p) /\ 2 * p \in Nat
      BY <3>2
    <3>4. PICK x \in Nat : x = s
      BY <3>3
    <3>5. -n <= 2 * (x * n - 2 * p * k)
      BY <3>2, <3>4
    <3>6. 2 * (x * n - 2 * p * k) <= n
      BY <3>2, <3>4
    <3>7. x <= p /\ (c = 0 => x = p) /\ (x = p => 2 * p * c <= n)
      <4>1. p \in Nat /\ n \in Nat /\ k \in Nat /\ c \in Nat /\ x \in Nat
        BY <1>11, <1>12, <1>13, <3>1, <3>4
      <4>2. Nearest(x, p, n, k, c)
        BY <1>14, <2>2, <3>5, <3>6 DEF Nearest
      <4> QED BY ONLY <4>1, <4>2, RoundedShare
    <3> QED BY <3>1, <3>4, <3>7
  <2> QED BY <2>1, <2>2
<1>17. ASSUME base = target PROVE c = 0
  <2>1. e = er /\ e = ea
    BY <1>3, <1>6, <1>7, <1>17
  <2>2. Len(a) \in Nat /\ Len(r) \in Nat /\ Len(e) \in Nat
    OBVIOUS
  <2> QED BY <1>8, <1>13, <2>1, <2>2
<1>18. \A x \in DOMAIN d.diff \ {1} : d.diff[x].type # d.diff[x - 1].type
  <2>1. DOMAIN ps = 1..Len(ps) /\ Len(ps) \in Nat
    BY <1>2
  <2>2. \A x \in DOMAIN ps \ {1} : x \in 2..Len(ps)
    BY <2>1
  <2> QED BY <1>10, <2>2 DEF GoodParts, Alternating
<1>19. d.added + d.removed = c /\ n = Len(Chars(mode, base)) + Len(Chars(mode, target))
  BY <1>6, <1>7, <1>10, <1>11, <1>13
<1> QED BY <1>1, <1>10, <1>16, <1>17, <1>18, <1>19 DEF Rebuilt

\* What holds at first, and is kept by every step.
LEMMA DiffInit ==
  ASSUME Diff!Init
  PROVE  DiffInv
<1>1. base \in Seq(Letters) /\ target \in Seq(Letters)
  <2>1. ASSUME NEW t \in Diff!Texts PROVE t \in Seq(Letters)
    <3>1. PICK n \in 0..MaxLength : t \in [1..n -> Letters]
      BY <2>1 DEF Diff!Texts
    <3>2. n \in Nat
      BY BoundsAssumption
    <3> QED BY <3>1, <3>2
  <2> QED BY <2>1 DEF Diff!Init
<1>2. DiffTypes
  <2>1. base_start \in 0..Len(base) /\ target_start \in 0..Len(target)
    BY <1>1 DEF Diff!Init
  <2> QED BY <1>1, <2>1 DEF DiffTypes, Diff!Init
<1>3. ASSUME NEW t \in Seq(Letters) PROVE Chars(mode, SubSeq(t, 1, 0)) = <<>>
  <2>1. SubSeq(t, 1, 0) = <<>>
    OBVIOUS
  <2> QED BY <2>1 DEF Chars
<1>4. Made(parts, mode, base, base_start, target, target_start)
  <2>1. parts = <<>> /\ base_start = 0 /\ target_start = 0
    BY DEF Diff!Init
  <2> QED BY <1>1, <1>3, <2>1, GoodPartsFirst, TextOfNothing DEF Made
<1>5. Diff!DiffRebuilds
  BY DEF Diff!Init, Diff!DiffRebuilds
<1> QED BY <1>2, <1>4, <1>5 DEF DiffInv

\* A part of one of the texts, with the space before its word.
LEMMA OnePart ==
  ASSUME NEW ps, GoodParts(ps), NEW u \in {"removed", "added"}, NEW v \in {"removed", "added"},
         u # v, NEW m \in {"words", "characters"}, NEW b \in Seq(Letters),
         NEW i \in 0..(Len(b) - 1),
         Diff!TextOf(ps, {"equal", u}) = Chars(m, SubSeq(b, 1, i)),
         NEW qs, qs = Diff!AppendPart(ps, u, Joined(SpaceAfter(m, i), <<b[i + 1]>>))
  PROVE  /\ GoodParts(qs)
         /\ Diff!TextOf(qs, {"equal", u}) = Chars(m, SubSeq(b, 1, i + 1))
         /\ Diff!TextOf(qs, {"equal", v}) = Diff!TextOf(ps, {"equal", v})
<1>1. PICK x : x = SpaceAfter(m, i) \o <<b[i + 1]>>
  OBVIOUS
<1>2. qs = Diff!AppendPart(ps, u, x)
  BY <1>1 DEF Joined
<1>3. b[i + 1] \in Signs /\ Diff!Space \in Signs
  BY DEF Signs
<1>4. SpaceAfter(m, i) \in Seq(Signs) /\ <<b[i + 1]>> \in Seq(Signs)
  BY <1>3 DEF SpaceAfter
<1>5. x \in Seq(Signs)
  BY <1>1, <1>4
<1>6. ps \in Seq(Part) /\ u \in PartTypes
  BY DEF GoodParts, PartTypes
<1>7. GoodParts(qs)
  BY <1>2, <1>5, <1>6, GoodPartsKept
<1>8. PICK w : w = Diff!TextOf(ps, {"equal", u})
  OBVIOUS
<1>9. w \in Seq(Signs) /\ w = Chars(m, SubSeq(b, 1, i))
  BY <1>6, <1>8, TextOfIsText
<1>10. Diff!TextOf(qs, {"equal", u}) = w \o x
  <2>1. Diff!TextOf(qs, {"equal", u}) = WithText(w, u, x, {"equal", u})
    BY <1>2, <1>5, <1>6, <1>8, TextOfPart
  <2> QED BY <2>1 DEF WithText
<1>11. w \o x = Extended(w, m, i, b[i + 1])
  <2>1. Joined(w, Joined(SpaceAfter(m, i), <<b[i + 1]>>))
           = Joined(Joined(w, SpaceAfter(m, i)), <<b[i + 1]>>)
    BY <1>4, <1>9, TextAssociative
  <2> QED BY <1>1, <2>1 DEF Joined, Extended
<1>12. Extended(w, m, i, b[i + 1]) = Chars(m, SubSeq(b, 1, i + 1))
  BY <1>9, CharsStep
<1>13. Diff!TextOf(qs, {"equal", v}) = Diff!TextOf(ps, {"equal", v})
  <2>1. PICK a \in Seq(Signs) : a = Diff!TextOf(ps, {"equal", v})
    BY <1>6, TextOfIsText
  <2>2. Diff!TextOf(qs, {"equal", v}) = WithText(a, u, x, {"equal", v})
    BY <1>2, <1>5, <1>6, <2>1, TextOfPart
  <2>3. a \o <<>> = a
    BY <2>1, ConcatEmptySeq
  <2> QED BY <2>1, <2>2, <2>3 DEF WithText
<1> QED BY <1>7, <1>10, <1>11, <1>12, <1>13

\* The space before a common word, and the word, are parts of their own.
SpaceType(m, i, j) ==
    IF m = "words" /\ i > 0 /\ m = "words" /\ j > 0 THEN "equal"
    ELSE IF m = "words" /\ i > 0 THEN "removed"
    ELSE IF m = "words" /\ j > 0 THEN "added" ELSE "none"

SpaceOf(ty) == IF ty # "none" THEN <<Diff!Space>> ELSE <<>>

Spaced(qs, ps, m, i, j) ==
    qs = Diff!AppendPart(ps, SpaceType(m, i, j), SpaceOf(SpaceType(m, i, j)))

\* The space goes to the texts that have a word.
LEMMA SpacePart ==
  ASSUME NEW ps, GoodParts(ps), NEW m \in {"words", "characters"}, NEW i \in Nat, NEW j \in Nat,
         NEW qs, Spaced(qs, ps, m, i, j)
  PROVE  /\ GoodParts(qs)
         /\ Diff!TextOf(qs, {"equal", "removed"})
               = Joined(Diff!TextOf(ps, {"equal", "removed"}), SpaceAfter(m, i))
         /\ Diff!TextOf(qs, {"equal", "added"})
               = Joined(Diff!TextOf(ps, {"equal", "added"}), SpaceAfter(m, j))
<1>1. ps \in Seq(Part)
  BY DEF GoodParts
<1>2. PICK er \in Seq(Signs) : er = Diff!TextOf(ps, {"equal", "removed"})
  BY <1>1, TextOfIsText
<1>3. PICK ea \in Seq(Signs) : ea = Diff!TextOf(ps, {"equal", "added"})
  BY <1>1, TextOfIsText
<1>4. er \o <<>> = er /\ ea \o <<>> = ea
  BY <1>2, <1>3, ConcatEmptySeq
<1>5. CASE SpaceType(m, i, j) = "none"
  <2>1. SpaceAfter(m, i) = <<>> /\ SpaceAfter(m, j) = <<>>
    BY <1>5 DEF SpaceType, SpaceAfter
  <2>2. qs = ps
    BY <1>5 DEF Spaced, SpaceOf, Diff!AppendPart
  <2> QED BY <1>2, <1>3, <1>4, <2>1, <2>2 DEF Joined
<1>6. CASE SpaceType(m, i, j) # "none"
  <2>1. PICK ty : ty = SpaceType(m, i, j)
    OBVIOUS
  <2>2. PICK x : x = <<Diff!Space>>
    OBVIOUS
  <2>3. ty \in PartTypes /\ x \in Seq(Signs) /\ qs = Diff!AppendPart(ps, ty, x)
    <3>1. ty \in PartTypes
      BY <1>6, <2>1 DEF SpaceType, PartTypes
    <3>2. x \in Seq(Signs)
      BY <2>2 DEF Signs
    <3> QED BY <1>6, <2>1, <2>2, <3>1, <3>2 DEF Spaced, SpaceOf
  <2>4. /\ Diff!TextOf(qs, {"equal", "removed"}) = WithText(er, ty, x, {"equal", "removed"})
        /\ Diff!TextOf(qs, {"equal", "added"}) = WithText(ea, ty, x, {"equal", "added"})
    BY <1>1, <1>2, <1>3, <2>3, TextOfPart
  <2>5. GoodParts(qs)
    BY <2>3, GoodPartsKept
  <2>6. WithText(er, ty, x, {"equal", "removed"}) = Joined(er, SpaceAfter(m, i))
    BY <1>6, <2>1, <2>2 DEF SpaceType, SpaceAfter, WithText, Joined
  <2>7. WithText(ea, ty, x, {"equal", "added"}) = Joined(ea, SpaceAfter(m, j))
    BY <1>6, <2>1, <2>2 DEF SpaceType, SpaceAfter, WithText, Joined
  <2> QED BY <1>2, <1>3, <2>4, <2>5, <2>6, <2>7
<1> QED BY <1>5, <1>6

\* A common word goes on both texts.
LEMMA EqualPart ==
  ASSUME NEW ps, NEW m \in {"words", "characters"}, NEW b \in Seq(Letters), NEW t \in Seq(Letters),
         NEW i \in 0..(Len(b) - 1), NEW j \in 0..(Len(t) - 1), b[i + 1] = t[j + 1],
         Made(ps, m, b, i, t, j), NEW qs,
         qs = Diff!AppendPart(
                Diff!AppendPart(ps, SpaceType(m, i, j), SpaceOf(SpaceType(m, i, j))),
                "equal", <<b[i + 1]>>)
  PROVE  Made(qs, m, b, i + 1, t, j + 1)
<1>1. PICK ss : ss = Diff!AppendPart(ps, SpaceType(m, i, j), SpaceOf(SpaceType(m, i, j)))
  OBVIOUS
<1>2. PICK x : x = <<b[i + 1]>>
  OBVIOUS
<1>3. x \in Seq(Signs) /\ "equal" \in PartTypes /\ qs = Diff!AppendPart(ss, "equal", x)
  <2>1. b[i + 1] \in Signs
    BY DEF Signs
  <2>2. x \in Seq(Signs)
    BY <1>2, <2>1
  <2> QED BY <1>1, <1>2, <2>2 DEF PartTypes
<1>4. /\ GoodParts(ss)
      /\ Diff!TextOf(ss, {"equal", "removed"})
            = Joined(Chars(m, SubSeq(b, 1, i)), SpaceAfter(m, i))
      /\ Diff!TextOf(ss, {"equal", "added"})
            = Joined(Chars(m, SubSeq(t, 1, j)), SpaceAfter(m, j))
  <2>1. i \in Nat /\ j \in Nat
    OBVIOUS
  <2>2. /\ GoodParts(ps)
        /\ Diff!TextOf(ps, {"equal", "removed"}) = Chars(m, SubSeq(b, 1, i))
        /\ Diff!TextOf(ps, {"equal", "added"}) = Chars(m, SubSeq(t, 1, j))
    BY DEF Made
  <2>3. /\ GoodParts(ss)
        /\ Diff!TextOf(ss, {"equal", "removed"})
              = Joined(Diff!TextOf(ps, {"equal", "removed"}), SpaceAfter(m, i))
        /\ Diff!TextOf(ss, {"equal", "added"})
              = Joined(Diff!TextOf(ps, {"equal", "added"}), SpaceAfter(m, j))
    <3>1. Spaced(ss, ps, m, i, j)
      BY <1>1 DEF Spaced
    <3> QED BY <2>1, <2>2, <3>1, SpacePart
  <2> QED BY <2>2, <2>3
<1>5. ss \in Seq(Part)
  BY <1>4 DEF GoodParts
<1>6. GoodParts(qs)
  BY <1>3, <1>4, GoodPartsKept
<1>7. Diff!TextOf(qs, {"equal", "removed"}) = Chars(m, SubSeq(b, 1, i + 1))
  <2>1. Diff!TextOf(qs, {"equal", "removed"})
           = WithText(Diff!TextOf(ss, {"equal", "removed"}), "equal", x, {"equal", "removed"})
    BY <1>3, <1>5, TextOfPart
  <2>2. Diff!TextOf(qs, {"equal", "removed"}) = Extended(Chars(m, SubSeq(b, 1, i)), m, i, b[i + 1])
    BY <1>2, <1>4, <2>1 DEF WithText, Extended, Joined
  <2> QED BY <2>2, CharsStep
<1>8. Diff!TextOf(qs, {"equal", "added"}) = Chars(m, SubSeq(t, 1, j + 1))
  <2>1. Diff!TextOf(qs, {"equal", "added"})
           = WithText(Diff!TextOf(ss, {"equal", "added"}), "equal", x, {"equal", "added"})
    BY <1>3, <1>5, TextOfPart
  <2>2. Diff!TextOf(qs, {"equal", "added"}) = Extended(Chars(m, SubSeq(t, 1, j)), m, j, t[j + 1])
    BY <1>2, <1>4, <2>1 DEF WithText, Extended, Joined
  <2> QED BY <2>2, CharsStep
<1> QED BY <1>6, <1>7, <1>8 DEF Made

\* Every operation, and the end of the loop, keep what the parts are made of.
LEMMA DiffNext ==
  ASSUME DiffInv, Diff!Next
  PROVE  DiffInv'
<1> USE DEF Diff!inputs
<1>0. /\ DiffTypes /\ Made(parts, mode, base, base_start, target, target_start)
      /\ Diff!DiffRebuilds
  BY DEF DiffInv
<1>1. ASSUME Diff!CompareEqual PROVE DiffInv'
  <2>1. /\ UNCHANGED <<mode, base, target, base_start, target_start, parts>>
        /\ base = target
    BY <1>1 DEF Diff!CompareEqual
  <2>2. PICK c \in Seq(Signs) : c = Chars(mode, base)
    BY <1>0, CharsIsText DEF DiffTypes
  <2>3. PICK qs : qs = Diff!AppendPart(<<>>, "equal", c)
    OBVIOUS
  <2>4. "equal" \in PartTypes
    BY DEF PartTypes
  <2>5. GoodParts(qs)
    BY <2>3, <2>4, GoodPartsFirst, GoodPartsKept
  <2>6. ASSUME NEW types, "equal" \in types PROVE Diff!TextOf(qs, types) = c
    <3>1. <<>> \in Seq(Part)
      OBVIOUS
    <3>2. Diff!TextOf(qs, types) = WithText(<<>>, "equal", c, types)
      BY <2>3, <2>4, <3>1, TextOfPart, TextOfNothing
    <3>3. <<>> \o c = c
      BY ConcatEmptySeq
    <3> QED BY <2>6, <3>2, <3>3 DEF WithText
  <2>7. PICK s \in Diff!Rounded(Diff!CountOf(qs, "equal")) : diff' = Diff!Summary(qs, s)
    <3>1. Diff!Characters(base) = c
      BY <2>2 DEF Chars, Diff!Characters
    <3> QED BY <1>1, <2>3, <3>1 DEF Diff!CompareEqual, Diff!Summarize
  <2>8. Rebuilt(Diff!Summary(qs, s), mode, base, target)
    BY <1>0, <2>1, <2>2, <2>5, <2>6, SummaryRebuilds
  <2>9. Diff!DiffRebuilds'
    BY <2>1, <2>7, <2>8 DEF Diff!DiffRebuilds, Rebuilt, Chars, Diff!Characters, Diff!Length
  <2> QED BY <1>0, <2>1, <2>9 DEF DiffInv, DiffTypes
<1>2. ASSUME Diff!Equal PROVE DiffInv'
  <2>1. /\ UNCHANGED <<mode, base, target, diff>> /\ diff = Diff!NoDiff
        /\ base_start' = base_start + 1 /\ target_start' = target_start + 1
        /\ base_start < Len(base) /\ target_start < Len(target)
        /\ base[base_start + 1] = target[target_start + 1]
    BY <1>2 DEF Diff!Equal, Diff!Comparing
  <2>2. /\ base_start \in 0..(Len(base) - 1) /\ base_start' \in 0..Len(base)
        /\ target_start \in 0..(Len(target) - 1) /\ target_start' \in 0..Len(target)
    BY <1>0, <2>1 DEF DiffTypes
  <2>3. Diff!SpaceBefore = SpaceType(mode, base_start, target_start)
    BY DEF Diff!SpaceBefore, SpaceType, Diff!BaseHasWord, Diff!TargetHasWord
  <2>4. \A y : Diff!Prefix(y # "none") = SpaceOf(y)
    BY DEF Diff!Prefix, SpaceOf
  <2>5. parts' = Diff!AppendPart(
                   Diff!AppendPart(parts, SpaceType(mode, base_start, target_start),
                                   SpaceOf(SpaceType(mode, base_start, target_start))),
                   "equal", <<base[base_start + 1]>>)
    BY <1>2, <2>1, <2>3, <2>4 DEF Diff!Equal
  <2>6. Made(parts', mode, base, base_start + 1, target, target_start + 1)
    BY <1>0, <2>1, <2>2, <2>5, EqualPart DEF DiffTypes
  <2>7. Diff!DiffRebuilds'
    BY <2>1 DEF Diff!DiffRebuilds
  <2> QED BY <1>0, <2>1, <2>2, <2>6, <2>7 DEF DiffInv, DiffTypes
<1>3. ASSUME Diff!Removed PROVE DiffInv'
  <2>1. /\ UNCHANGED <<mode, base, target, target_start, diff>> /\ diff = Diff!NoDiff
        /\ base_start' = base_start + 1 /\ base_start < Len(base)
    BY <1>3 DEF Diff!Removed, Diff!Comparing
  <2>2. base_start \in 0..(Len(base) - 1) /\ base_start' \in 0..Len(base)
    BY <1>0, <2>1 DEF DiffTypes
  <2>3. parts' = Diff!AppendPart(parts, "removed",
                   Joined(SpaceAfter(mode, base_start), <<base[base_start + 1]>>))
    BY <1>3, <2>1 DEF Diff!Removed, Joined, SpaceAfter, Diff!Prefix, Diff!BaseHasWord
  <2>4. /\ GoodParts(parts')
        /\ Diff!TextOf(parts', {"equal", "removed"}) = Chars(mode, SubSeq(base, 1, base_start + 1))
        /\ Diff!TextOf(parts', {"equal", "added"}) = Diff!TextOf(parts, {"equal", "added"})
    BY <1>0, <2>2, <2>3, OnePart DEF DiffTypes, Made
  <2>5. Made(parts', mode, base, base_start + 1, target, target_start)
    BY <1>0, <2>4 DEF Made
  <2>6. Diff!DiffRebuilds'
    BY <2>1 DEF Diff!DiffRebuilds
  <2> QED BY <1>0, <2>1, <2>2, <2>5, <2>6 DEF DiffInv, DiffTypes
<1>4. ASSUME Diff!Added PROVE DiffInv'
  <2>1. /\ UNCHANGED <<mode, base, target, base_start, diff>> /\ diff = Diff!NoDiff
        /\ target_start' = target_start + 1 /\ target_start < Len(target)
    BY <1>4 DEF Diff!Added, Diff!Comparing
  <2>2. target_start \in 0..(Len(target) - 1) /\ target_start' \in 0..Len(target)
    BY <1>0, <2>1 DEF DiffTypes
  <2>3. parts' = Diff!AppendPart(parts, "added",
                   Joined(SpaceAfter(mode, target_start), <<target[target_start + 1]>>))
    BY <1>4, <2>1 DEF Diff!Added, Joined, SpaceAfter, Diff!Prefix, Diff!TargetHasWord
  <2>4. /\ GoodParts(parts')
        /\ Diff!TextOf(parts', {"equal", "added"}) = Chars(mode, SubSeq(target, 1, target_start + 1))
        /\ Diff!TextOf(parts', {"equal", "removed"}) = Diff!TextOf(parts, {"equal", "removed"})
    BY <1>0, <2>2, <2>3, OnePart DEF DiffTypes, Made
  <2>5. Made(parts', mode, base, base_start, target, target_start + 1)
    BY <1>0, <2>4 DEF Made
  <2>6. Diff!DiffRebuilds'
    BY <2>1 DEF Diff!DiffRebuilds
  <2> QED BY <1>0, <2>1, <2>2, <2>5, <2>6 DEF DiffInv, DiffTypes
<1>5. ASSUME Diff!Finish PROVE DiffInv'
  <2>1. /\ UNCHANGED <<mode, base, target, base_start, target_start, parts>>
        /\ base # target /\ base_start = Len(base) /\ target_start = Len(target)
        /\ \E s \in Diff!Rounded(Diff!CountOf(parts, "equal")) : diff' = Diff!Summary(parts, s)
    BY <1>5 DEF Diff!Finish, Diff!Comparing, Diff!Summarize
  <2>2. SubSeq(base, 1, Len(base)) = base /\ SubSeq(target, 1, Len(target)) = target
    BY <1>0 DEF DiffTypes
  <2>3. /\ GoodParts(parts)
        /\ Diff!TextOf(parts, {"equal", "removed"}) = Chars(mode, base)
        /\ Diff!TextOf(parts, {"equal", "added"}) = Chars(mode, target)
    BY <1>0, <2>1, <2>2 DEF Made
  <2>4. PICK s \in Diff!Rounded(Diff!CountOf(parts, "equal")) : diff' = Diff!Summary(parts, s)
    BY <2>1
  <2>5. Rebuilt(Diff!Summary(parts, s), mode, base, target)
    BY <1>0, <2>1, <2>3, SummaryRebuilds
  <2>6. Diff!DiffRebuilds'
    BY <2>1, <2>4, <2>5 DEF Diff!DiffRebuilds, Rebuilt, Chars, Diff!Characters, Diff!Length
  <2> QED BY <1>0, <2>1, <2>6 DEF DiffInv, DiffTypes
<1> QED BY <1>1, <1>2, <1>3, <1>4, <1>5 DEF Diff!Next

\* Whatever the libraries align, both texts can be rebuilt from a diff.
THEOREM DiffsRebuild == AllSpec => []DiffRebuilds
<1> DEFINE Inv == part = "diff" => DiffInv
<1>1. AllInit => Inv
  BY DiffInit DEF AllInit
<1>2. Inv /\ [AllNext]_allVars => Inv'
  <2> SUFFICES ASSUME Inv, [AllNext]_allVars, part' = "diff" PROVE DiffInv'
    OBVIOUS
  <2>1. CASE part = "diff" /\ Diff!Next
    BY <2>1, DiffNext
  <2>2. CASE part = "diff" /\ UNCHANGED textdiff
    <3>1. UNCHANGED <<mode, base, target, base_start, target_start, part_type, parts, diff>>
      BY <2>2 DEF textdiff
    <3> QED BY <2>2, <3>1 DEF DiffInv, DiffTypes, Diff!DiffRebuilds, Diff!Characters, Diff!Length
  <2> QED BY <2>1, <2>2 DEF AllNext, RunnerSteps, allVars
<1>3. Inv => DiffRebuilds
  BY DEF DiffInv, DiffRebuilds
<1> QED BY <1>1, <1>2, <1>3, PTL DEF AllSpec
=============================================================================
