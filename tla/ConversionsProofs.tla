-------------------------- MODULE ConversionsProofs --------------------------
(***************************************************************************)
(* Proofs about the conversions, for texts of any length.                  *)
(*                                                                         *)
(* The model's loops and recursions are functions and folds of the         *)
(* library.  The library's induction theorems take an operator, which no   *)
(* prover here can instantiate; so everything rests on WFMin, that a set   *)
(* of numbers has a smallest one: induction is stated for sets (Minimum,   *)
(* Induction), a recursive function is built from its finite parts         *)
(* (Recursion), and the folds are loops that go on (Fold, FoldReached).    *)
(***************************************************************************)
EXTENDS Conversions, Integers, FiniteSetTheorems, WellFoundedInduction,
        SequenceTheorems, TLAPS

-----------------------------------------------------------------------------
(* Induction, and recursion over data                                      *)

(* A set of numbers that is not empty has a smallest one.                  *)
LEMMA Minimum ==
  ASSUME NEW T \in SUBSET Nat, T # {}
  PROVE  \E m \in T : \A k \in T : m <= k
  <1>1. PICK m \in T : \A k \in T : <<k, m>> \notin OpToRel(<, Nat)
    BY NatLessThanWellFounded, WFMin, Zenon
  <1>2. \A k \in T : ~ (k < m)
    BY <1>1 DEF OpToRel
  <1> QED BY <1>2

(* Induction, for a set of numbers instead of a predicate.                 *)
LEMMA Induction ==
  ASSUME NEW S, 0 \in S, \A n \in Nat : n \in S => n + 1 \in S
  PROVE  Nat \subseteq S
  <1> SUFFICES ASSUME Nat \ S # {} PROVE FALSE
    OBVIOUS
  <1>1. PICK m \in Nat \ S : \A k \in Nat \ S : m <= k
    BY Minimum
  <1>2. m # 0 /\ m - 1 \in Nat
    BY <1>1
  <1>3. m - 1 \in S
    BY <1>1, <1>2
  <1> QED BY <1>1, <1>2, <1>3

(* A function whose value at x is given by x, or by x and its value at     *)
(* next[x], which has a smaller measure.                                   *)
Recursive(S, A, stop, first, next, measure, step) ==
  /\ first \in [S -> A] /\ step \in [A \X S -> A]
  /\ next \in [S -> S] /\ measure \in [S -> Nat]
  /\ \A x \in S \ stop : measure[next[x]] < measure[x]

(* Such a function exists, so a recursive definition of it defines it: for *)
(* the conversions that loop or recurse.                                   *)
LEMMA Recursion ==
  ASSUME NEW S, NEW A, NEW stop, NEW first, NEW next, NEW measure, NEW step,
         Recursive(S, A, stop, first, next, measure, step)
  PROVE  \E h \in [S -> A] :
           \A x \in S : h[x] = IF x \in stop THEN first[x] ELSE step[<<h[next[x]], x>>]
  <1> USE DEF Recursive
  <1> DEFINE Right(g, x) == IF x \in stop THEN first[x] ELSE step[<<g[next[x]], x>>]
             Good(g, n) == \A x \in S : measure[x] <= n => g[x] = Right(g, x)
             Reached == {n \in Nat : \E g \in [S -> A] : Good(g, n)}
  <1>1. ASSUME NEW g \in [S -> A], NEW x \in S PROVE Right(g, x) \in A
    OBVIOUS
  <1>2. ASSUME NEW f, NEW g, NEW n \in Nat, NEW k \in Nat, Good(f, n), Good(g, k)
        PROVE  \A x \in S : measure[x] <= n /\ measure[x] <= k => f[x] = g[x]
    <2> DEFINE Differ == {x \in S : measure[x] <= n /\ measure[x] <= k /\ f[x] # g[x]}
               T == {measure[x] : x \in Differ}
    <2> SUFFICES ASSUME Differ # {} PROVE FALSE
      OBVIOUS
    <2>1. PICK m \in T : \A j \in T : m <= j
      <3>1. T \in SUBSET Nat /\ T # {}
        OBVIOUS
      <3> HIDE DEF T
      <3> QED BY <3>1, Minimum
    <2>2. PICK x \in Differ : m = measure[x]
      BY <2>1
    <2>3. f[x] = Right(f, x) /\ g[x] = Right(g, x)
      BY <1>2, <2>2
    <2>4. CASE x \in stop
      BY <2>2, <2>3, <2>4
    <2>5. CASE x \notin stop
      <3>1. next[x] \in S /\ measure[next[x]] < m /\ measure[next[x]] \in Nat /\ m \in Nat
        BY <2>2, <2>5
      <3>2. next[x] \notin Differ
        <4>1. \A y \in Differ : m <= measure[y]
          BY <2>1
        <4> HIDE DEF Differ
        <4> QED BY <3>1, <4>1
      <3>3. f[next[x]] = g[next[x]]
        BY <2>2, <3>1, <3>2
      <3> QED BY <2>2, <2>3, <2>5, <3>3
    <2> QED BY <2>4, <2>5
  <1>3. 0 \in Reached
    OBVIOUS
  <1>4. ASSUME NEW n \in Nat, n \in Reached PROVE n + 1 \in Reached
    <2>1. PICK g \in [S -> A] : Good(g, n)
      BY <1>4
    <2> DEFINE h == [x \in S |-> IF measure[x] <= n THEN g[x] ELSE Right(g, x)]
    <2>2. h \in [S -> A]
      BY <1>1
    <2>3. ASSUME NEW x \in S, measure[x] <= n + 1 PROVE h[x] = Right(h, x)
      BY <2>1, <2>3
    <2>4. Good(h, n + 1)
      BY <2>3
    <2> HIDE DEF Good, h
    <2> QED BY <2>2, <2>4
  <1>5. \A n \in Nat : \E g \in [S -> A] : Good(g, n)
    BY <1>3, <1>4, Induction, Zenon
  <1> DEFINE part(n) == CHOOSE g \in [S -> A] : Good(g, n)
             all == [x \in S |-> part(measure[x])[x]]
  <1>6. \A n \in Nat : part(n) \in [S -> A] /\ Good(part(n), n)
    BY <1>5, Zenon
  <1>7. all \in [S -> A]
    <2> HIDE DEF part
    <2> QED BY <1>6
  <1>8. ASSUME NEW x \in S PROVE all[x] = Right(all, x)
    <2>0. measure[x] \in Nat /\ next[x] \in S
      OBVIOUS
    <2>1. all[x] = Right(part(measure[x]), x)
      <3>1. Good(part(measure[x]), measure[x])
        BY <1>6, <2>0
      <3>2. part(measure[x])[x] = Right(part(measure[x]), x)
        <4> HIDE DEF part, Right
        <4> QED BY <2>0, <3>1
      <3>3. all[x] = part(measure[x])[x]
        OBVIOUS
      <3> HIDE DEF part, Right, all
      <3> QED BY <3>2, <3>3
    <2>2. CASE x \in stop
      BY <2>1, <2>2
    <2>3. CASE x \notin stop
      <3>1. measure[next[x]] \in Nat /\ measure[next[x]] < measure[x]
        BY <2>0, <2>3
      <3>2. part(measure[next[x]])[next[x]] = part(measure[x])[next[x]]
        <4>1. Good(part(measure[x]), measure[x]) /\ Good(part(measure[next[x]]), measure[next[x]])
          BY <1>6, <2>0, <3>1
        <4> HIDE DEF part, Good
        <4> QED BY <1>2, <2>0, <3>1, <4>1
      <3>3. all[next[x]] = part(measure[x])[next[x]]
        BY <2>0, <3>2
      <3> HIDE DEF part, all
      <3> QED BY <2>1, <2>3, <3>3
    <2> QED BY <2>2, <2>3
  <1> HIDE DEF all
  <1> QED BY <1>7, <1>8

(* A loop over s that begins with base: F makes the next state of it.      *)
Fold(F, base, s) ==
  LET run[n \in 0..Len(s)] == IF n = 0 THEN base ELSE F[<<run[n - 1], s[n]>>]
  IN run[Len(s)]

(* The states of the loop.                                                 *)
IsRun(run, F, base, s) ==
  /\ run[0] = base
  /\ \A n \in 1..Len(s) : run[n] = F[<<run[n - 1], s[n]>>]

(* F takes what was made of the beginning, and the next element. *)
Folding(F, A, B) == F \in [A \X B -> A]

(* The loop that Fold stands for has a state before and after every turn.  *)
LEMMA FoldRun ==
  ASSUME NEW A, NEW B, NEW F, Folding(F, A, B), NEW base \in A, NEW s \in Seq(B)
  PROVE  \E run \in [0..Len(s) -> A] : IsRun(run, F, base, s) /\ Fold(F, base, s) = run[Len(s)]
  <1> DEFINE S == 0..Len(s)
             stop == {0}
             next == [n \in S |-> IF n = 0 THEN 0 ELSE n - 1]
             step == [p \in A \X S |-> IF p[2] = 0 THEN base ELSE F[<<p[1], s[p[2]]>>]]
             first == [n \in S |-> base]
             measure == [n \in S |-> n]
             right(g) == [n \in S |-> IF n = 0 THEN base ELSE F[<<g[n - 1], s[n]>>]]
  <1> USE DEF Folding
  <1>1. Len(s) \in Nat /\ \A n \in 1..Len(s) : s[n] \in B
    OBVIOUS
  <1>2. PICK h \in [S -> A] :
          \A n \in S : h[n] = IF n \in stop THEN first[n] ELSE step[<<h[next[n]], n>>]
    <2>1. next \in [S -> S] /\ first \in [S -> A] /\ measure \in [S -> Nat]
      BY <1>1
    <2>2. step \in [A \X S -> A]
      BY <1>1
    <2>3. \A x \in S \ stop : measure[next[x]] < measure[x]
      BY <1>1
    <2> HIDE DEF S, stop, next, step, first, measure
    <2>4. Recursive(S, A, stop, first, next, measure, step)
      BY <2>1, <2>2, <2>3 DEF Recursive
    <2> QED BY <2>4, Recursion
  <1>3. h = right(h)
    <2>0. \A n \in S : first[n] = base
      OBVIOUS
    <2>1. \A n \in S \ {0} : step[<<h[next[n]], n>>] = F[<<h[n - 1], s[n]>>]
      <3> SUFFICES ASSUME NEW n \in S \ {0} PROVE step[<<h[next[n]], n>>] = F[<<h[n - 1], s[n]>>]
        OBVIOUS
      <3>1. next[n] = n - 1 /\ n - 1 \in S /\ h[n - 1] \in A
        BY <1>1
      <3> HIDE DEF next
      <3> QED BY <3>1
    <2>2. \A n \in S : h[n] = IF n = 0 THEN base ELSE F[<<h[n - 1], s[n]>>]
      <3> HIDE DEF step, next, first, S
      <3> QED BY <1>2, <2>0, <2>1
    <2> HIDE DEF S
    <2> QED BY <2>2
  <1> DEFINE run == CHOOSE g : g = right(g)
  <1>4. run = right(run)
    BY <1>3, Zenon
  <1>5. run = h
    <2> DEFINE Same == {n \in Nat : n <= Len(s) => run[n] = h[n]}
    <2>1. 0 \in Same
      <3>1. 0 \in S
        BY <1>1
      <3>2. run[0] = base /\ h[0] = base
        BY <1>3, <1>4, <3>1, Zenon
      <3> HIDE DEF run
      <3> QED BY <3>2
    <2>2. ASSUME NEW n \in Nat, n \in Same PROVE n + 1 \in Same
      <3> SUFFICES ASSUME n + 1 <= Len(s) PROVE run[n + 1] = h[n + 1]
        OBVIOUS
      <3>1. run[n] = h[n]
        BY <1>1, <2>2
      <3>2. n + 1 \in S /\ n + 1 # 0 /\ (n + 1) - 1 = n
        BY <1>1
      <3>3. run[n + 1] = F[<<run[n], s[n + 1]>>] /\ h[n + 1] = F[<<h[n], s[n + 1]>>]
        BY <1>3, <1>4, <3>2, Zenon
      <3> QED BY <3>1, <3>3
    <2>3. \A n \in S : run[n] = h[n]
      <3>1. Nat \subseteq Same
        BY <2>1, <2>2, Induction, Zenon
      <3> HIDE DEF run
      <3> QED BY <1>1, <3>1
    <2>4. run = [n \in S |-> run[n]] /\ h = [n \in S |-> h[n]]
      BY <1>4, Zenon
    <2> HIDE DEF run, S
    <2> QED BY <2>3, <2>4
  <1>6. IsRun(h, F, base, s)
    BY <1>1, <1>3 DEF IsRun
  <1>7. Fold(F, base, s) = run[Len(s)]
    BY DEF Fold
  <1> QED BY <1>5, <1>6, <1>7

(* s and t begin with the same m elements.                                 *)
Beginning(m, s, t) ==
  /\ m \in Nat /\ Len(s) \in Nat /\ Len(t) \in Nat
  /\ m <= Len(s) /\ m <= Len(t)
  /\ \A n \in 1..m : s[n] = t[n]

(* Two runs over the same beginning are in the same state behind it.       *)
LEMMA RunsAgree ==
  ASSUME NEW F, NEW base, NEW s, NEW t, NEW m, Beginning(m, s, t),
         NEW run, NEW other, IsRun(run, F, base, s), IsRun(other, F, base, t)
  PROVE  run[m] = other[m]
  <1> USE DEF Beginning
  <1> DEFINE Same == {n \in Nat : n <= m => run[n] = other[n]}
  <1>1. 0 \in Same
    BY DEF IsRun
  <1>2. ASSUME NEW n \in Nat, n \in Same PROVE n + 1 \in Same
    <2> SUFFICES ASSUME n + 1 <= m PROVE run[n + 1] = other[n + 1]
      OBVIOUS
    <2>1. /\ n + 1 \in 1..m /\ n + 1 \in 1..Len(s) /\ n + 1 \in 1..Len(t)
          /\ (n + 1) - 1 = n /\ run[n] = other[n]
      BY <1>2
    <2> DEFINE k == n + 1
    <2> HIDE DEF k
    <2>2. k \in 1..m /\ k \in 1..Len(s) /\ k \in 1..Len(t) /\ run[k - 1] = other[k - 1]
      BY <2>1 DEF k
    <2>3. run[k] = F[<<run[k - 1], s[k]>>] /\ other[k] = F[<<other[k - 1], t[k]>>]
      BY <2>2, Zenon DEF IsRun
    <2>4. run[k] = other[k]
      BY <2>2, <2>3
    <2> QED BY <2>4 DEF k
  <1>3. Nat \subseteq Same
    BY <1>1, <1>2, Induction, Zenon
  <1> QED BY <1>3

(* The loop stays within its states.                                       *)
LEMMA FoldType ==
  ASSUME NEW A, NEW B, NEW F, Folding(F, A, B), NEW base \in A, NEW s \in Seq(B)
  PROVE  Fold(F, base, s) \in A
  BY FoldRun

(* No turn for no element.                                                 *)
LEMMA FoldEmpty ==
  ASSUME NEW A, NEW B, NEW F, Folding(F, A, B), NEW base \in A
  PROVE  Fold(F, base, <<>>) = base
  <1>1. <<>> \in Seq(B) /\ Len(<<>>) = 0
    OBVIOUS
  <1> DEFINE s == <<>>
  <1>2. s \in Seq(B) /\ Len(s) = 0
    BY <1>1
  <1> HIDE DEF s
  <1>3. PICK run : IsRun(run, F, base, s) /\ Fold(F, base, s) = run[Len(s)]
    <2>1. s \in Seq(B)
      BY <1>2
    <2> QED BY <2>1, FoldRun
  <1>4. Fold(F, base, s) = base
    BY <1>2, <1>3 DEF IsRun
  <1> QED BY <1>4 DEF s

(* One more element is one more turn.                                      *)
LEMMA FoldAppend ==
  ASSUME NEW A, NEW B, NEW F, Folding(F, A, B), NEW base \in A, NEW s \in Seq(B), NEW x \in B
  PROVE  Fold(F, base, Append(s, x)) = F[<<Fold(F, base, s), x>>]
  <1>1. /\ Append(s, x) \in Seq(B) /\ Len(s) \in Nat
        /\ Len(Append(s, x)) = Len(s) + 1 /\ Append(s, x)[Len(s) + 1] = x
        /\ \A n \in 1..Len(s) : Append(s, x)[n] = s[n]
    OBVIOUS
  <1>2. PICK run : IsRun(run, F, base, s) /\ Fold(F, base, s) = run[Len(s)]
    BY FoldRun
  <1>3. PICK other : /\ IsRun(other, F, base, Append(s, x))
                     /\ Fold(F, base, Append(s, x)) = other[Len(Append(s, x))]
    BY <1>1, FoldRun
  <1>4. run[Len(s)] = other[Len(s)]
    <2> DEFINE m == Len(s)
               t == Append(s, x)
    <2>1. Beginning(m, s, t) /\ IsRun(other, F, base, t)
      BY <1>1, <1>3 DEF Beginning
    <2>2. Len(s) = m
      OBVIOUS
    <2> HIDE DEF m, t
    <2>3. run[m] = other[m]
      BY <1>2, <2>1, <2>2, RunsAgree
    <2> QED BY <2>2, <2>3
  <1>5. other[Len(s) + 1] = F[<<other[Len(s)], Append(s, x)[Len(s) + 1]>>]
    <2>1. Len(s) + 1 \in 1..Len(Append(s, x)) /\ (Len(s) + 1) - 1 = Len(s)
      BY <1>1
    <2> QED BY <1>3, <2>1 DEF IsRun
  <1> QED BY <1>1, <1>2, <1>3, <1>4, <1>5

(* Induction over sequences, for a set of them. *)
LEMMA SequenceInduction ==
  ASSUME NEW B, NEW Q, <<>> \in Q, \A s \in Seq(B), x \in B : s \in Q => Append(s, x) \in Q
  PROVE  Seq(B) \subseteq Q
  <1> DEFINE T == {n \in Nat : \A s \in Seq(B) : Len(s) = n => s \in Q}
  <1>1. 0 \in T
    OBVIOUS
  <1>2. ASSUME NEW n \in Nat, n \in T PROVE n + 1 \in T
    <2> SUFFICES ASSUME NEW s \in Seq(B), Len(s) = n + 1 PROVE s \in Q
      OBVIOUS
    <2>1. s # <<>>
      OBVIOUS
    <2>2. PICK u \in Seq(B), x \in B : s = Append(u, x)
      BY <2>1, SequenceEmptyOrAppend
    <2>3. Len(u) = n
      BY <2>2
    <2> QED BY <1>2, <2>2, <2>3
  <1>3. Nat \subseteq T
    BY <1>1, <1>2, Induction, Zenon
  <1> QED BY <1>3

(* A loop over two sequences goes on with the second where it was after    *)
(* the first.                                                              *)
LEMMA FoldConcat ==
  ASSUME NEW A, NEW B, NEW F, Folding(F, A, B), NEW base \in A,
         NEW s \in Seq(B), NEW t \in Seq(B)
  PROVE  Fold(F, base, s \o t) = Fold(F, Fold(F, base, s), t)
  <1> DEFINE Q == {u \in Seq(B) : Fold(F, base, s \o u) = Fold(F, Fold(F, base, s), u)}
  <1>1. <<>> \in Q
    BY FoldEmpty, FoldType
  <1>2. ASSUME NEW u \in Seq(B), NEW x \in B, u \in Q PROVE Append(u, x) \in Q
    <2>1. s \o Append(u, x) = Append(s \o u, x) /\ s \o u \in Seq(B) /\ Append(u, x) \in Seq(B)
      OBVIOUS
    <2>2. Fold(F, base, s \o u) = Fold(F, Fold(F, base, s), u)
      BY <1>2
    <2>3. Fold(F, base, Append(s \o u, x)) = F[<<Fold(F, base, s \o u), x>>]
      <3> DEFINE w == s \o u
      <3>1. w \in Seq(B)
        BY <2>1
      <3> HIDE DEF w
      <3>2. Fold(F, base, Append(w, x)) = F[<<Fold(F, base, w), x>>]
        BY <3>1, FoldAppend
      <3> QED BY <3>2 DEF w
    <2>4. Fold(F, Fold(F, base, s), Append(u, x)) = F[<<Fold(F, Fold(F, base, s), u), x>>]
      BY FoldAppend, FoldType
    <2> QED BY <2>1, <2>2, <2>3, <2>4
  <1>3. Seq(B) \subseteq Q
    BY <1>1, <1>2, SequenceInduction, Zenon
  <1> QED BY <1>3

-----------------------------------------------------------------------------
(* FoldLeft of the library                                                 *)

(* The largest element of a set of numbers, as Max of the library has it. *)
Largest(T) == CHOOSE x \in T : \A y \in T : x >= y

(* The largest element is one, as long as there are any.                   *)
LEMMA LargestIs ==
  ASSUME NEW n \in Nat, NEW T \in SUBSET (1..n), T # {}
  PROVE  Largest(T) \in T /\ \A y \in T : y <= Largest(T)
  <1> DEFINE D == {n - y : y \in T}
  <1>1. PICK m \in D : \A k \in D : m <= k
    <2>1. \A y \in T : n - y \in Nat
      OBVIOUS
    <2>2. D \in SUBSET Nat /\ D # {}
      BY <2>1
    <2> HIDE DEF D
    <2> QED BY <2>2, Minimum
  <1>2. PICK x \in T : m = n - x
    BY <1>1
  <1>3. \A y \in T : x >= y
    <2>1. \A y \in T : m <= n - y
      BY <1>1
    <2> QED BY <1>2, <2>1
  <1>4. Largest(T) \in T /\ \A y \in T : Largest(T) >= y
    BY <1>2, <1>3 DEF Largest
  <1> QED BY <1>4

(* The largest of the first k numbers is k.                                *)
LEMMA LargestOfFirst ==
  ASSUME NEW k \in Nat, k # 0
  PROVE  Largest(1..k) = k /\ (1..k) \ {k} = 1..(k - 1)
  <1>1. Largest(1..k) \in 1..k /\ \A y \in 1..k : y <= Largest(1..k)
    <2> DEFINE T == 1..k
    <2>1. T \in SUBSET (1..k) /\ T # {}
      BY DEF T
    <2> HIDE DEF T
    <2>2. Largest(T) \in T /\ \A y \in T : y <= Largest(T)
      BY <2>1, LargestIs
    <2> QED BY <2>2 DEF T
  <1> QED BY <1>1

(* What FoldLeft of the library looks up at the end is a function on the   *)
(* sets of indices: h is one, with values in A.                            *)
IsSetFold(h, F, A, B, base, s) ==
  /\ h \in [SUBSET (DOMAIN s) -> A] /\ h[{}] = base
  /\ \A T \in SUBSET (DOMAIN s) :
       T # {} => /\ h[T \ {Largest(T)}] \in A /\ s[Largest(T)] \in B
                 /\ h[T] = F[<<h[T \ {Largest(T)}], s[Largest(T)]>>]

(* And so does g, as long as its values are in A. *)
FollowsSetFold(g, F, A, B, base, s) ==
  /\ g[{}] = base
  /\ \A T \in SUBSET (DOMAIN s) :
       T # {} /\ g[T \ {Largest(T)}] \in A /\ s[Largest(T)] \in B =>
         g[T] = F[<<g[T \ {Largest(T)}], s[Largest(T)]>>]

(* There is such a function on the sets of indices.                        *)
LEMMA SetFold ==
  ASSUME NEW A, NEW B, NEW F, Folding(F, A, B), NEW base \in A, NEW s \in Seq(B)
  PROVE  \E h : IsSetFold(h, F, A, B, base, s)
  <1> DEFINE S == SUBSET (1..Len(s))
             stop == {{}}
             next == [T \in S |-> IF T = {} THEN {} ELSE T \ {Largest(T)}]
             step == [p \in A \X S |-> IF p[2] = {} THEN base ELSE F[<<p[1], s[Largest(p[2])]>>]]
             first == [T \in S |-> base]
             measure == [T \in S |-> IF T = {} THEN 0 ELSE Largest(T)]
  <1> USE DEF Folding
  <1>1. Len(s) \in Nat /\ \A n \in 1..Len(s) : s[n] \in B
    OBVIOUS
  <1>2. ASSUME NEW T \in S, T # {}
        PROVE  /\ Largest(T) \in T /\ Largest(T) \in 1..Len(s) /\ T \ {Largest(T)} \in S
               /\ \A y \in T : y <= Largest(T)
    BY <1>1, <1>2, LargestIs
  <1>3. next \in [S -> S] /\ first \in [S -> A]
    OBVIOUS
  <1>4. measure \in [S -> Nat]
    BY <1>1, <1>2
  <1>5. step \in [A \X S -> A]
    BY <1>1, <1>2
  <1>6. \A T \in S \ stop : measure[next[T]] < measure[T]
    <2> SUFFICES ASSUME NEW T \in S, T # {} PROVE measure[next[T]] < measure[T]
      OBVIOUS
    <2>1. Largest(T) \in T /\ Largest(T) \in 1..Len(s) /\ T \ {Largest(T)} \in S
          /\ \A y \in T : y <= Largest(T)
      BY <1>2
    <2>2. measure[T] = Largest(T) /\ next[T] = T \ {Largest(T)}
      OBVIOUS
    <2> DEFINE U == T \ {Largest(T)}
    <2>3. CASE U = {}
      BY <2>3, <2>1, <2>2 DEF U
    <2>4. CASE U # {}
      <3>1. Largest(U) \in U
        BY <1>2, <2>1, <2>4, Zenon DEF U
      <3>2. measure[U] = Largest(U)
        BY <2>1, <2>4
      <3>3. Largest(U) \in T /\ Largest(U) # Largest(T)
        BY <3>1
      <3> HIDE DEF measure, next
      <3> QED BY <1>1, <2>1, <2>2, <3>2, <3>3
    <2> QED BY <2>3, <2>4
  <1>7. PICK h \in [S -> A] :
          \A T \in S : h[T] = IF T \in stop THEN first[T] ELSE step[<<h[next[T]], T>>]
    <2> HIDE DEF S, stop, next, step, first, measure
    <2>1. Recursive(S, A, stop, first, next, measure, step)
      BY <1>3, <1>4, <1>5, <1>6 DEF Recursive
    <2> QED BY <2>1, Recursion
  <1>8. ASSUME NEW T \in S
        PROVE  h[T] = IF T = {} THEN base ELSE F[<<h[T \ {Largest(T)}], s[Largest(T)]>>]
    BY <1>7, <1>2, Zenon
  <1>9. IsSetFold(h, F, A, B, base, s)
    <2>1. S = SUBSET (DOMAIN s) /\ {} \in S
      OBVIOUS
    <2>2. \A T \in S : T # {} => T \ {Largest(T)} \in S /\ s[Largest(T)] \in B
      BY <1>1, <1>2
    <2>3. h[{}] = base
      BY <1>8
    <2>4. \A T \in S : T # {} => h[T] = F[<<h[T \ {Largest(T)}], s[Largest(T)]>>]
      BY <1>8
    <2> HIDE DEF S
    <2>5. \A T \in S : T # {} => h[T \ {Largest(T)}] \in A /\ s[Largest(T)] \in B
      BY <1>7, <2>2
    <2> QED BY <1>7, <2>1, <2>3, <2>4, <2>5 DEF IsSetFold
  <1> QED BY <1>9

(* FoldLeft of the library is the loop Fold.                               *)
LEMMA FoldReached ==
  ASSUME NEW A, NEW B, NEW F, Folding(F, A, B), NEW base \in A, NEW s \in Seq(B),
         NEW g, FollowsSetFold(g, F, A, B, base, s)
  PROVE  g[DOMAIN s] = Fold(F, base, s)
  <1>1. PICK run \in [0..Len(s) -> A] : IsRun(run, F, base, s) /\ Fold(F, base, s) = run[Len(s)]
    BY FoldRun
  <1>2. Len(s) \in Nat /\ DOMAIN s = 1..Len(s) /\ \A n \in 1..Len(s) : s[n] \in B
    OBVIOUS
  <1> DEFINE Same == {n \in Nat : n <= Len(s) => g[1..n] = run[n]}
  <1>3. 0 \in Same
    BY <1>1 DEF IsRun, FollowsSetFold
  <1>4. ASSUME NEW n \in Nat, n \in Same PROVE n + 1 \in Same
    <2> SUFFICES ASSUME n + 1 <= Len(s) PROVE g[1..(n + 1)] = run[n + 1]
      OBVIOUS
    <2>1. n + 1 \in 1..Len(s) /\ (n + 1) - 1 = n /\ g[1..n] = run[n] /\ run[n] \in A
      BY <1>1, <1>2, <1>4
    <2>2. run[n + 1] = F[<<run[n], s[n + 1]>>]
      BY <1>1, <2>1 DEF IsRun
    <2> DEFINE T == 1..(n + 1)
    <2>3. T \in SUBSET (DOMAIN s) /\ T # {}
      BY <1>2, <2>1
    <2>4. Largest(T) = n + 1 /\ T \ {n + 1} = 1..n
      BY LargestOfFirst, <2>1
    <2> HIDE DEF T
    <2>5. g[T] = F[<<g[1..n], s[n + 1]>>]
      BY <1>2, <2>1, <2>4, <2>3, Zenon DEF FollowsSetFold
    <2> QED BY <2>1, <2>2, <2>5 DEF T
  <1>5. Nat \subseteq Same
    BY <1>3, <1>4, Induction, Zenon
  <1> QED BY <1>1, <1>2, <1>5

-----------------------------------------------------------------------------
(* CommandLine: QuoteWindowsArgument, a character at a time                *)

(* The loop of QuoteWindowsArgument, a character at a time.                *)
Chars == Command!Characters
QuoteStart == [quoted |-> <<Command!Quote>>, backslashes |-> 0]
QuoteStates == [quoted : Seq(Chars), backslashes : Nat]
QuoteStep == [p \in QuoteStates \X Chars |-> Command!QuoteCharacter(p[1], p[2])]

(* n backslashes are n characters.                                         *)
LEMMA SlashesType ==
  ASSUME NEW n \in Nat
  PROVE  /\ Command!Slashes(n) \in Seq(Chars) /\ Len(Command!Slashes(n)) = n
         /\ \A i \in 1..n : Command!Slashes(n)[i] = Command!Backslash
  BY DEF Command!Slashes, Chars, Command!Characters

(* A turn of the loop of QuoteWindowsArgument leads to a state of it.      *)
LEMMA QuoteFolding == Folding(QuoteStep, QuoteStates, Chars) /\ QuoteStart \in QuoteStates
  <1>1. ASSUME NEW so_far \in QuoteStates, NEW ch \in Chars
        PROVE  Command!QuoteCharacter(so_far, ch) \in QuoteStates
    <2>1. CASE ch = Command!Backslash
      BY <2>1 DEF Command!QuoteCharacter, QuoteStates
    <2>2. CASE ch # Command!Backslash
      <3>1. /\ 2 * so_far.backslashes + 1 \in Nat /\ so_far.backslashes \in Nat
            /\ so_far.quoted \in Seq(Chars) /\ <<ch>> \in Seq(Chars)
        BY DEF QuoteStates
      <3>2. \A n \in Nat : so_far.quoted \o Command!Slashes(n) \o <<ch>> \in Seq(Chars)
        BY SlashesType, <3>1
      <3> QED BY <2>2, <3>1, <3>2 DEF Command!QuoteCharacter, QuoteStates
    <2> QED BY <2>1, <2>2
  <1>2. QuoteStart \in QuoteStates
    BY DEF QuoteStart, QuoteStates, Chars, Command!Characters
  <1> QED BY <1>1, <1>2 DEF Folding, QuoteStep

(* QuoteWindowsArgument is its loop.                                       *)
LEMMA QuoteLoop ==
  ASSUME NEW argument \in Seq(Chars)
  PROVE  Command!QuoteWindowsArgument(argument) =
           IF argument # <<>> /\ Command!Range(argument) \cap {Command!Space, Command!Quote} = {}
           THEN argument
           ELSE LET loop == Fold(QuoteStep, QuoteStart, argument)
                IN loop.quoted \o Command!Slashes(2 * loop.backslashes) \o <<Command!Quote>>
  <1> DEFINE right(g) == [T \in SUBSET (DOMAIN argument) |->
                            IF T = {} THEN QuoteStart
                            ELSE Command!QuoteCharacter(g[T \ {Largest(T)}], argument[Largest(T)])]
             iter == CHOOSE g : g = right(g)
  <1>1. Command!QuoteWindowsArgument(argument) =
           IF argument # <<>> /\ Command!Range(argument) \cap {Command!Space, Command!Quote} = {}
           THEN argument
           ELSE iter[DOMAIN argument].quoted \o Command!Slashes(2 * iter[DOMAIN argument].backslashes)
                  \o <<Command!Quote>>
    BY DEF Command!QuoteWindowsArgument, Command!FoldLeft, Command!MapThenFoldSet, Command!Max,
           Largest, QuoteStart
  <1>2. PICK h : IsSetFold(h, QuoteStep, QuoteStates, Chars, QuoteStart, argument)
    BY QuoteFolding, SetFold
  <1>3. iter = right(iter)
    <2>1. h = right(h)
      BY <1>2, Zenon DEF IsSetFold, QuoteStep
    <2> HIDE DEF right
    <2> QED BY <2>1
  <1> HIDE DEF iter
  <1>4. FollowsSetFold(iter, QuoteStep, QuoteStates, Chars, QuoteStart, argument)
    BY <1>3, Zenon DEF QuoteStep, FollowsSetFold
  <1>5. iter[DOMAIN argument] = Fold(QuoteStep, QuoteStart, argument)
    BY <1>4, FoldReached, QuoteFolding
  <1> QED BY <1>1, <1>5

-----------------------------------------------------------------------------
(* CommandLine: the reader, a character at a time                          *)

(* The loop of the reader, and the loop of BuildCommandLine.               *)
Words == Seq(Seq(Chars))
ReadStates == [words : Words, text : Seq(Chars), slashes : Nat, inside : BOOLEAN,
               mode : {"plain", "quoted", "closed"}]
ReadStep == [p \in ReadStates \X Chars |-> Command!ReadCharacter(p[1], p[2])]
Start(words) == [words |-> words, text |-> <<>>, slashes |-> 0, inside |-> FALSE, mode |-> "plain"]
LineStep == [p \in Seq(Chars) \X Seq(Chars) |->
               p[1] \o <<Command!Space>> \o Command!QuoteWindowsArgument(p[2])]

(* The three characters that matter differ.                                *)
LEMMA Distinct ==
  /\ Command!Quote # Command!Backslash /\ Command!Quote # Command!Space
  /\ Command!Space # Command!Backslash
  /\ {Command!Quote, Command!Backslash, Command!Space} \subseteq Chars
  BY DEF Command!Quote, Command!Backslash, Command!Space, Chars, Command!Characters

(* A state of the reader, field by field.                                  *)
LEMMA ReadFields ==
  ASSUME NEW r \in ReadStates
  PROVE  /\ r = [words |-> r.words, text |-> r.text, slashes |-> r.slashes, inside |-> r.inside,
                 mode |-> r.mode]
         /\ r.words \in Words /\ r.text \in Seq(Chars) /\ r.slashes \in Nat
         /\ r.inside \in BOOLEAN /\ r.mode \in {"plain", "quoted", "closed"}
  BY DEF ReadStates

(* What a turn of the reader's loop makes of a state. *)
LEMMA ReadBackslash ==
  ASSUME NEW r \in ReadStates
  PROVE  ReadStep[<<r, Command!Backslash>>] =
           [words |-> r.words, text |-> r.text, slashes |-> r.slashes + 1, inside |-> TRUE,
            mode |-> IF r.mode = "quoted" THEN "quoted" ELSE "plain"]
  BY Distinct, Zenon DEF Command!ReadCharacter, ReadStates, ReadStep

(* A quote behind an odd number of backslashes, or a second one, is a      *)
(* character.                                                              *)
LEMMA ReadEscapedQuote ==
  ASSUME NEW r \in ReadStates, r.slashes % 2 = 1 \/ r.mode = "closed"
  PROVE  ReadStep[<<r, Command!Quote>>] =
           [words |-> r.words,
            text |-> r.text \o Command!Slashes(r.slashes \div 2) \o <<Command!Quote>>, slashes |-> 0,
            inside |-> r.inside, mode |-> IF r.mode = "closed" THEN "quoted" ELSE r.mode]
  <1>1. PICK q : q = Command!ReadCharacter(r, Command!Quote)
    OBVIOUS
  <1>a. q = [r EXCEPT !.text = @ \o Command!Slashes(r.slashes \div 2) \o <<Command!Quote>>,
                       !.slashes = 0, !.mode = IF @ = "closed" THEN "quoted" ELSE @]
    BY <1>1, Distinct DEF Command!ReadCharacter
  <1>2. q =
           [words |-> r.words,
            text |-> r.text \o Command!Slashes(r.slashes \div 2) \o <<Command!Quote>>, slashes |-> 0,
            inside |-> r.inside, mode |-> IF r.mode = "closed" THEN "quoted" ELSE r.mode]
    BY <1>a DEF ReadStates
  <1>3. ReadStep[<<r, Command!Quote>>] = q
    BY <1>1, Distinct DEF ReadStep
  <1> QED BY <1>2, <1>3

(* Any other quote opens or closes.                                        *)
LEMMA ReadQuote ==
  ASSUME NEW r \in ReadStates, r.slashes % 2 = 0, r.mode # "closed"
  PROVE  ReadStep[<<r, Command!Quote>>] =
           [words |-> r.words,
            text |-> r.text \o Command!Slashes(r.slashes \div 2), slashes |-> 0,
            inside |-> TRUE, mode |-> IF r.mode = "quoted" THEN "closed" ELSE "quoted"]
  <1>1. PICK q : q = Command!ReadCharacter(r, Command!Quote)
    OBVIOUS
  <1>a. q = [r EXCEPT !.text = @ \o Command!Slashes(r.slashes \div 2), !.slashes = 0,
                       !.inside = TRUE, !.mode = IF @ = "quoted" THEN "closed" ELSE "quoted"]
    BY <1>1, Distinct DEF Command!ReadCharacter
  <1>2. q =
           [words |-> r.words,
            text |-> r.text \o Command!Slashes(r.slashes \div 2), slashes |-> 0,
            inside |-> TRUE, mode |-> IF r.mode = "quoted" THEN "closed" ELSE "quoted"]
    BY <1>a DEF ReadStates
  <1>3. ReadStep[<<r, Command!Quote>>] = q
    BY <1>1, Distinct DEF ReadStep
  <1> QED BY <1>2, <1>3

(* A blank outside quotes ends the word.                                   *)
LEMMA ReadSpace ==
  ASSUME NEW r \in ReadStates, r.mode # "quoted"
  PROVE  ReadStep[<<r, Command!Space>>] =
           Start(IF r.inside THEN Append(r.words, r.text \o Command!Slashes(r.slashes)) ELSE r.words)
  BY Distinct DEF ReadStep, Command!ReadCharacter, Start

(* Any other character belongs to the word.                                *)
LEMMA ReadOther ==
  ASSUME NEW r \in ReadStates, NEW ch \in Chars, ch # Command!Backslash, ch # Command!Quote,
         r.mode = "quoted" \/ ch # Command!Space
  PROVE  ReadStep[<<r, ch>>] =
           [words |-> r.words,
            text |-> r.text \o Command!Slashes(r.slashes) \o <<ch>>, slashes |-> 0,
            inside |-> TRUE, mode |-> IF r.mode = "quoted" THEN "quoted" ELSE "plain"]
  BY Distinct, Zenon DEF Command!ReadCharacter, ReadStates, ReadStep

(* The reader at the beginning of a word.                                  *)
LEMMA StartType == ASSUME NEW words \in Words PROVE Start(words) \in ReadStates
  BY DEF Start, ReadStates, Words

(* A turn of the reader leads to a state of it.                            *)
LEMMA ReadFolding == Folding(ReadStep, ReadStates, Chars)
  <1> SUFFICES ASSUME NEW r \in ReadStates, NEW ch \in Chars PROVE Command!ReadCharacter(r, ch) \in ReadStates
    BY DEF Folding, ReadStep
  <1>1. r.words \in Words /\ r.text \in Seq(Chars) /\ r.slashes \in Nat /\ r.slashes \div 2 \in Nat
        /\ r.inside \in BOOLEAN /\ r.mode \in {"plain", "quoted", "closed"}
        /\ r.slashes % 2 \in {0, 1}
    BY DEF ReadStates
  <1>2. /\ Command!Backslash \in Chars /\ Command!Quote \in Chars /\ Command!Space \in Chars
        /\ <<ch>> \in Seq(Chars) /\ <<Command!Quote>> \in Seq(Chars)
    BY Distinct
  <1>3. /\ Command!Slashes(r.slashes) \in Seq(Chars)
        /\ Command!Slashes(r.slashes \div 2) \in Seq(Chars)
    BY <1>1, SlashesType
  <1>0. ReadStep[<<r, ch>>] = Command!ReadCharacter(r, ch)
    BY DEF ReadStep
  <1> DEFINE quoted == IF r.mode = "quoted" THEN "quoted" ELSE "plain"
             opened == IF r.mode = "closed" THEN "quoted" ELSE r.mode
             turned == IF r.mode = "quoted" THEN "closed" ELSE "quoted"
  <1>t. {quoted, opened, turned} \subseteq {"plain", "quoted", "closed"}
    BY <1>1
  <1> HIDE DEF quoted, opened, turned
  <1>4. CASE ch = Command!Backslash
    <2>1. ReadStep[<<r, ch>>] = [words |-> r.words, text |-> r.text, slashes |-> r.slashes + 1,
                                 inside |-> TRUE, mode |-> quoted]
      BY <1>4, ReadBackslash DEF quoted
    <2>2. r.slashes + 1 \in Nat
      BY <1>1
    <2> QED BY <1>0, <1>1, <1>t, <2>1, <2>2 DEF ReadStates
  <1>5. CASE ch = Command!Quote /\ (r.slashes % 2 = 1 \/ r.mode = "closed")
    <2> DEFINE t == r.text \o Command!Slashes(r.slashes \div 2) \o <<Command!Quote>>
    <2>1. ReadStep[<<r, ch>>] = [words |-> r.words, text |-> t, slashes |-> 0,
                                 inside |-> r.inside, mode |-> opened]
      BY <1>5, ReadEscapedQuote DEF opened
    <2>2. t \in Seq(Chars)
      BY <1>1, <1>2, <1>3
    <2> HIDE DEF t
    <2> QED BY <1>0, <1>1, <1>t, <2>1, <2>2 DEF ReadStates
  <1>7. CASE ch = Command!Quote /\ r.slashes % 2 = 0 /\ r.mode # "closed"
    <2> DEFINE t == r.text \o Command!Slashes(r.slashes \div 2)
    <2>1. ReadStep[<<r, ch>>] = [words |-> r.words, text |-> t, slashes |-> 0,
                                 inside |-> TRUE, mode |-> turned]
      BY <1>7, ReadQuote DEF turned
    <2>2. t \in Seq(Chars)
      BY <1>1, <1>2, <1>3
    <2> HIDE DEF t
    <2> QED BY <1>0, <1>1, <1>t, <2>1, <2>2 DEF ReadStates
  <1>8. CASE ch = Command!Space /\ r.mode # "quoted"
    <2>1. ReadStep[<<r, ch>>] \in ReadStates
      <3>1. (IF r.inside THEN Append(r.words, r.text \o Command!Slashes(r.slashes)) ELSE r.words) \in Words
        BY <1>1, <1>3 DEF Words
      <3> QED BY <1>8, <3>1, ReadSpace, StartType
    <2> QED BY <1>0, <2>1
  <1>9. CASE ch # Command!Backslash /\ ch # Command!Quote /\ (r.mode = "quoted" \/ ch # Command!Space)
    <2> DEFINE t == r.text \o Command!Slashes(r.slashes) \o <<ch>>
    <2>1. ReadStep[<<r, ch>>] = [words |-> r.words, text |-> t, slashes |-> 0,
                                 inside |-> TRUE, mode |-> quoted]
      BY <1>9, ReadOther DEF quoted
    <2>2. t \in Seq(Chars)
      BY <1>1, <1>2, <1>3
    <2> HIDE DEF t
    <2> QED BY <1>0, <1>1, <1>t, <2>1, <2>2 DEF ReadStates
  <1> QED BY <1>1, <1>4, <1>5, <1>7, <1>8, <1>9

(* Slashes, one by one. *)
LEMMA SlashesAppend ==
  /\ Command!Slashes(0) = <<>>
  /\ \A n \in Nat : Command!Slashes(n + 1) = Append(Command!Slashes(n), Command!Backslash)
  BY SlashesType, SeqEqual DEF Command!Slashes, Chars, Command!Characters

(* n backslashes in quotes are counted.                                    *)
LEMMA ReadSlashes ==
  ASSUME NEW r \in ReadStates, r.mode = "quoted", r.inside
  PROVE  \A n \in Nat : Fold(ReadStep, r, Command!Slashes(n)) =
           [words |-> r.words, text |-> r.text, slashes |-> r.slashes + n, inside |-> TRUE,
            mode |-> "quoted"]
  <1> DEFINE After(n) == [words |-> r.words, text |-> r.text, slashes |-> r.slashes + n,
                          inside |-> TRUE, mode |-> "quoted"]
             T == {n \in Nat : Fold(ReadStep, r, Command!Slashes(n)) = After(n)}
  <1>0. r.words \in Words /\ r.text \in Seq(Chars) /\ r.slashes \in Nat /\ r = After(0)
    BY ReadFields
  <1>1. 0 \in T
    BY SlashesAppend, FoldEmpty, ReadFolding, <1>0
  <1>2. ASSUME NEW n \in Nat, n \in T PROVE n + 1 \in T
    <2> DEFINE s == Command!Slashes(n)
               q == After(n)
    <2>1. s \in Seq(Chars) /\ Command!Slashes(n + 1) = Append(s, Command!Backslash)
      BY SlashesType, SlashesAppend
    <2>3. Fold(ReadStep, r, s) = q
      BY <1>2
    <2>5. q \in ReadStates /\ r.slashes + n \in Nat
      BY <1>0 DEF ReadStates
    <2>6. /\ q.words = r.words /\ q.text = r.text /\ q.slashes = r.slashes + n /\ q.mode = "quoted"
          /\ (r.slashes + n) + 1 = r.slashes + (n + 1)
      BY <1>0
    <2>7. Fold(ReadStep, r, s) \in ReadStates
      BY <2>3, <2>5
    <2> HIDE DEF s, q
    <2>8. ReadStep[<<q, Command!Backslash>>] = After(n + 1)
      BY <2>5, <2>6, ReadBackslash
    <2>4. Fold(ReadStep, r, Append(s, Command!Backslash)) = ReadStep[<<q, Command!Backslash>>]
      BY <2>1, <2>3, FoldAppend, ReadFolding, Distinct
    <2>9. Fold(ReadStep, r, Command!Slashes(n + 1)) = After(n + 1)
      BY <2>1, <2>4, <2>8, Zenon
    <2> QED BY <2>9
  <1>3. Nat \subseteq T
    BY <1>1, <1>2, Induction, Zenon
  <1> QED BY <1>3

-----------------------------------------------------------------------------
(* CommandLine: words without quotes                                       *)

(* What a turn of the loop of QuoteWindowsArgument makes of a state.       *)
LEMMA QuoteTurns ==
  ASSUME NEW q \in QuoteStates
  PROVE  /\ QuoteStep[<<q, Command!Backslash>>] =
              [quoted |-> q.quoted, backslashes |-> q.backslashes + 1]
         /\ \A ch \in Chars : ch # Command!Backslash =>
              QuoteStep[<<q, ch>>] =
                [quoted |-> q.quoted \o
                   Command!Slashes(IF ch = Command!Quote THEN 2 * q.backslashes + 1
                                   ELSE q.backslashes) \o <<ch>>,
                 backslashes |-> 0]
  BY Distinct, Zenon DEF Command!QuoteCharacter, QuoteStates, QuoteStep

(* The characters of a word without blanks and quotes are read as they are. *)
PlainChars == Chars \ {Command!Space, Command!Quote}

(* A word that needs no quotes is read as it is.                           *)
LEMMA ReadPlainWord ==
  ASSUME NEW words \in Words, NEW w \in Seq(PlainChars)
  PROVE  LET r == Fold(ReadStep, Start(words), w)
         IN  /\ r \in ReadStates /\ r.words = words /\ r.mode = "plain"
             /\ r.inside = (w # <<>>) /\ r.text \o Command!Slashes(r.slashes) = w
  <1> DEFINE r(u) == Fold(ReadStep, Start(words), u)
             Q == {u \in Seq(PlainChars) :
                     /\ r(u) \in ReadStates /\ r(u).words = words /\ r(u).mode = "plain"
                     /\ r(u).inside = (u # <<>>)
                     /\ r(u).text \o Command!Slashes(r(u).slashes) = u}
  <1>1. <<>> \in Q
    <2>1. r(<<>>) = Start(words)
      BY FoldEmpty, ReadFolding, StartType
    <2>2. Start(words).text \o Command!Slashes(Start(words).slashes) = <<>>
      BY SlashesAppend DEF Start
    <2>3. <<>> \in Seq(PlainChars)
      OBVIOUS
    <2>4. /\ Start(words).words = words /\ Start(words).mode = "plain"
          /\ Start(words).inside = (<<>> # <<>>)
      BY DEF Start
    <2>5. Start(words) \in ReadStates
      BY StartType
    <2> HIDE DEF r
    <2> QED BY <2>1, <2>2, <2>3, <2>4, <2>5
  <1>2. ASSUME NEW u \in Seq(PlainChars), NEW ch \in PlainChars, u \in Q PROVE Append(u, ch) \in Q
    <2>1. /\ r(u) \in ReadStates /\ r(u).words = words /\ r(u).mode = "plain"
          /\ r(u).text \o Command!Slashes(r(u).slashes) = u
      BY <1>2
    <2>2. /\ u \in Seq(Chars) /\ ch \in Chars /\ ch # Command!Space /\ ch # Command!Quote
          /\ Append(u, ch) \in Seq(PlainChars) /\ Append(u, ch) # <<>>
      BY DEF PlainChars
    <2>3. r(Append(u, ch)) = ReadStep[<<r(u), ch>>]
      BY <2>2, FoldAppend, ReadFolding, StartType
    <2>4. r(Append(u, ch)) \in ReadStates
      <3>1. Append(u, ch) \in Seq(Chars)
        BY <2>2
      <3> QED BY <3>1, FoldType, ReadFolding, StartType
    <2> DEFINE p == r(u)
               t == p.text
               n == p.slashes
    <2>5. t \in Seq(Chars) /\ n \in Nat /\ Command!Slashes(n) \in Seq(Chars)
      BY <2>1, ReadFields, SlashesType
    <2>6. t \o Command!Slashes(n) = u
      BY <2>1
    <2>7. p \in ReadStates /\ p.words = words /\ p.mode = "plain"
      BY <2>1
    <2>8. CASE ch = Command!Backslash
      <3>1. r(Append(u, ch)) = [words |-> words, text |-> t, slashes |-> n + 1, inside |-> TRUE,
                               mode |-> "plain"]
        BY <2>3, <2>7, <2>8, ReadBackslash
      <3>2. t \o Command!Slashes(n + 1) = Append(u, ch)
        <4> HIDE DEF t, n
        <4>1. Command!Slashes(n + 1) = Append(Command!Slashes(n), ch)
          BY <2>5, <2>8, SlashesAppend
        <4>2. t \o Append(Command!Slashes(n), ch) = Append(t \o Command!Slashes(n), ch)
          BY <2>2, <2>5
        <4> QED BY <2>6, <4>1, <4>2
      <3>3. /\ r(Append(u, ch)).words = words /\ r(Append(u, ch)).mode = "plain"
            /\ r(Append(u, ch)).inside = TRUE
            /\ r(Append(u, ch)).text \o Command!Slashes(r(Append(u, ch)).slashes) = Append(u, ch)
        <4> HIDE DEF r, p, t, n
        <4> QED BY <3>1, <3>2, SMTT(30)
      <3> HIDE DEF r, p, t, n
      <3> QED BY <2>2, <2>4, <3>3
    <2>9. CASE ch # Command!Backslash
      <3>1. r(Append(u, ch)) = [words |-> words, text |-> t \o Command!Slashes(n) \o <<ch>>,
                               slashes |-> 0, inside |-> TRUE, mode |-> "plain"]
        BY <2>2, <2>3, <2>7, <2>9, ReadOther, Zenon
      <3>2. (t \o Command!Slashes(n) \o <<ch>>) \o Command!Slashes(0) = Append(u, ch)
        <4> HIDE DEF t, n
        <4>1. (u \o <<ch>>) \o <<>> = Append(u, ch)
          BY <2>2
        <4> QED BY <2>6, <4>1, SlashesAppend
      <3>3. /\ r(Append(u, ch)).words = words /\ r(Append(u, ch)).mode = "plain"
            /\ r(Append(u, ch)).inside = TRUE
            /\ r(Append(u, ch)).text \o Command!Slashes(r(Append(u, ch)).slashes) = Append(u, ch)
        <4> HIDE DEF r, p, t, n
        <4> QED BY <3>1, <3>2, SMTT(30)
      <3> HIDE DEF r, p, t, n
      <3> QED BY <2>2, <2>4, <3>3
    <2> QED BY <2>8, <2>9
  <1>3. Seq(PlainChars) \subseteq Q
    BY <1>1, <1>2, SequenceInduction, Zenon
  <1> QED BY <1>3

-----------------------------------------------------------------------------
(* CommandLine: words in quotes                                            *)

(* Reading a text after another. *)
LEMMA ReadMore ==
  ASSUME NEW r \in ReadStates, NEW s \in Seq(Chars), NEW t \in Seq(Chars)
  PROVE  /\ Fold(ReadStep, r, s) \in ReadStates
         /\ Fold(ReadStep, r, s \o t) = Fold(ReadStep, Fold(ReadStep, r, s), t)
  BY FoldType, FoldConcat, ReadFolding

(* Reading one character is one turn.                                      *)
LEMMA ReadOne ==
  ASSUME NEW r \in ReadStates, NEW ch \in Chars
  PROVE  Fold(ReadStep, r, <<ch>>) = ReadStep[<<r, ch>>]
  <1> DEFINE none == <<>>
  <1>1. none \in Seq(Chars)
    OBVIOUS
  <1>3. Append(none, ch) = <<ch>> /\ Fold(ReadStep, r, none) = r
    BY FoldEmpty, ReadFolding
  <1> HIDE DEF none
  <1>2. Fold(ReadStep, r, Append(none, ch)) = ReadStep[<<Fold(ReadStep, r, none), ch>>]
    BY <1>1, FoldAppend, ReadFolding
  <1> QED BY <1>2, <1>3

(* In quotes: n backslashes that a character other than a quote follows,   *)
(* and 2n + 1 backslashes that a quote follows.                            *)
Inside(words, t) == [words |-> words, text |-> t, slashes |-> 0, inside |-> TRUE, mode |-> "quoted"]

(* The state of the reader behind n backslashes in quotes.                 *)
LEMMA InsideType ==
  ASSUME NEW words \in Words, NEW t \in Seq(Chars), NEW n \in Nat
  PROVE  /\ Inside(words, t) \in ReadStates
         /\ Fold(ReadStep, Inside(words, t), Command!Slashes(n)) =
              [words |-> words, text |-> t, slashes |-> n, inside |-> TRUE, mode |-> "quoted"]
         /\ [words |-> words, text |-> t, slashes |-> n, inside |-> TRUE, mode |-> "quoted"]
              \in ReadStates
  <1> DEFINE r == Inside(words, t)
  <1>1. /\ r \in ReadStates /\ r.words = words /\ r.text = t /\ r.slashes = 0
        /\ r.inside = TRUE /\ r.mode = "quoted"
    BY DEF Inside, ReadStates
  <1>2. [words |-> words, text |-> t, slashes |-> n, inside |-> TRUE, mode |-> "quoted"]
           \in ReadStates
    BY DEF ReadStates
  <1> HIDE DEF r
  <1>3. Fold(ReadStep, r, Command!Slashes(n)) =
          [words |-> words, text |-> t, slashes |-> 0 + n, inside |-> TRUE, mode |-> "quoted"]
    BY <1>1, ReadSlashes
  <1>4. 0 + n = n
    OBVIOUS
  <1> QED BY <1>1, <1>2, <1>3, <1>4 DEF r

(* Read in quotes: the backslashes and the character they are followed by. *)
IsReadInside(words, t, n, ch) ==
  Fold(ReadStep, Inside(words, t),
       Command!Slashes(IF ch = Command!Quote THEN 2 * n + 1 ELSE n) \o <<ch>>) =
    Inside(words, t \o Command!Slashes(n) \o <<ch>>)

(* What one turn of QuoteWindowsArgument writes is read as the backslashes *)
(* and the character it was made from.                                     *)
LEMMA ReadInside ==
  ASSUME NEW words \in Words, NEW t \in Seq(Chars), NEW n \in Nat, NEW ch \in Chars,
         ch # Command!Backslash
  PROVE  IsReadInside(words, t, n, ch)
  <1> DEFINE k == IF ch = Command!Quote THEN 2 * n + 1 ELSE n
             q == [words |-> words, text |-> t, slashes |-> k, inside |-> TRUE, mode |-> "quoted"]
  <1>1. k \in Nat
    OBVIOUS
  <1>2. Fold(ReadStep, Inside(words, t), Command!Slashes(k) \o <<ch>>) = ReadStep[<<q, ch>>]
    <2>1. Command!Slashes(k) \in Seq(Chars) /\ <<ch>> \in Seq(Chars)
      BY <1>1, SlashesType
    <2>2. Inside(words, t) \in ReadStates /\ q \in ReadStates
          /\ Fold(ReadStep, Inside(words, t), Command!Slashes(k)) = q
      BY <1>1, InsideType, Zenon
    <2> HIDE DEF q, k
    <2> QED BY <2>1, <2>2, ReadMore, ReadOne
  <1>3. q \in ReadStates /\ q.words = words /\ q.text = t /\ q.slashes = k
        /\ q.inside = TRUE /\ q.mode = "quoted"
    BY <1>1 DEF ReadStates
  <1>4. CASE ch = Command!Quote
    <2>1. k % 2 = 1 /\ k \div 2 = n
      BY <1>4
    <2> HIDE DEF k, q
    <2>2. ReadStep[<<q, ch>>] =
           [words |-> words,
            text |-> t \o Command!Slashes(n) \o <<ch>>, slashes |-> 0,
            inside |-> TRUE, mode |-> "quoted"]
      BY <1>3, <1>4, <2>1, ReadEscapedQuote
    <2> QED BY <1>2, <2>2 DEF Inside, k, IsReadInside
  <1>5. CASE ch # Command!Quote
    <2>1. k = n
      BY <1>5
    <2> HIDE DEF k, q
    <2>2. ReadStep[<<q, ch>>] =
           [words |-> words,
            text |-> t \o Command!Slashes(n) \o <<ch>>, slashes |-> 0,
            inside |-> TRUE, mode |-> "quoted"]
      BY <1>3, <1>5, <2>1, ReadOther
    <2> QED BY <1>2, <2>2 DEF Inside, k, IsReadInside
  <1> QED BY <1>4, <1>5

(* Texts behind each other.                                                *)
Associates(a, b, c) == (a \o b) \o c = a \o (b \o c)

(* It does not matter which two are put together first.                    *)
LEMMA CharsConcat ==
  ASSUME NEW a \in Seq(Chars), NEW b \in Seq(Chars), NEW c \in Seq(Chars)
  PROVE  Associates(a, b, c)
  BY ConcatAssociative DEF Associates

(* What the loop of QuoteWindowsArgument wrote so far, and the backslashes *)
(* it holds back, are read as the characters it took.                      *)
LEMMA ReadQuotedWord ==
  ASSUME NEW words \in Words, NEW w \in Seq(Chars)
  PROVE  LET q == Fold(QuoteStep, QuoteStart, w)
         IN  \E t \in Seq(Chars) :
               /\ Fold(ReadStep, Start(words), q.quoted) = Inside(words, t)
               /\ t \o Command!Slashes(q.backslashes) = w
  <1> DEFINE q(u) == Fold(QuoteStep, QuoteStart, u)
             Q == {u \in Seq(Chars) : \E t \in Seq(Chars) :
                     /\ Fold(ReadStep, Start(words), q(u).quoted) = Inside(words, t)
                     /\ t \o Command!Slashes(q(u).backslashes) = u}
  <1>1. <<>> \in Q
    <2>1. q(<<>>) = QuoteStart
      BY FoldEmpty, QuoteFolding
    <2>2. ReadStep[<<Start(words), Command!Quote>>] = Inside(words, <<>>)
      <3> DEFINE r == Start(words)
      <3>1. r \in ReadStates
        BY StartType
      <3>2. /\ r.words = words /\ r.text = <<>> /\ r.slashes = 0 /\ r.mode = "plain"
            /\ 0 % 2 = 0 /\ 0 \div 2 = 0 /\ <<>> \o <<>> = <<>>
        BY DEF Start
      <3> HIDE DEF r
      <3>3. ReadStep[<<r, Command!Quote>>] =
              [words |-> words, text |-> <<>>, slashes |-> 0, inside |-> TRUE, mode |-> "quoted"]
        BY <3>1, <3>2, ReadQuote, SlashesAppend
      <3> QED BY <3>3 DEF r, Inside
    <2>3. Fold(ReadStep, Start(words), QuoteStart.quoted) = Inside(words, <<>>)
      BY <2>2, ReadOne, StartType, Distinct DEF QuoteStart
    <2>4. <<>> \o Command!Slashes(QuoteStart.backslashes) = <<>> /\ <<>> \in Seq(Chars)
      BY SlashesAppend DEF QuoteStart
    <2> HIDE DEF q
    <2> QED BY <2>1, <2>3, <2>4
  <1>2. ASSUME NEW u \in Seq(Chars), NEW ch \in Chars, u \in Q PROVE Append(u, ch) \in Q
    <2>1. PICK t \in Seq(Chars) : /\ Fold(ReadStep, Start(words), q(u).quoted) = Inside(words, t)
                                  /\ t \o Command!Slashes(q(u).backslashes) = u
      BY <1>2
    <2>2. q(Append(u, ch)) = QuoteStep[<<q(u), ch>>] /\ q(u) \in QuoteStates
      BY FoldAppend, FoldType, QuoteFolding
    <2> DEFINE s == q(u).quoted
               n == q(u).backslashes
    <2>3. s \in Seq(Chars) /\ n \in Nat /\ Command!Slashes(n) \in Seq(Chars)
      BY <2>2, SlashesType DEF QuoteStates
    <2>4. Append(u, ch) \in Seq(Chars)
      OBVIOUS
    <2>5. CASE ch = Command!Backslash
      <3>1. q(Append(u, ch)) = [quoted |-> s, backslashes |-> n + 1]
        BY <2>2, <2>5, QuoteTurns, Zenon
      <3>2. t \o Command!Slashes(n + 1) = Append(u, ch)
        <4> HIDE DEF n
        <4>1. Command!Slashes(n + 1) = Append(Command!Slashes(n), ch)
          BY <2>3, <2>5, SlashesAppend
        <4>2. t \o Append(Command!Slashes(n), ch) = Append(t \o Command!Slashes(n), ch)
          BY <2>3
        <4> QED BY <2>1, <4>1, <4>2 DEF n
      <3>3. /\ q(Append(u, ch)).quoted = s /\ q(Append(u, ch)).backslashes = n + 1
        BY <3>1
      <3> QED
        BY <2>1, <2>4, <3>2, <3>3, Zenon
    <2>6. CASE ch # Command!Backslash
      <3> DEFINE k == IF ch = Command!Quote THEN 2 * n + 1 ELSE n
                 e == Command!Slashes(k) \o <<ch>>
                 v == t \o Command!Slashes(n) \o <<ch>>
      <3>1. q(Append(u, ch)) = [quoted |-> s \o Command!Slashes(k) \o <<ch>>, backslashes |-> 0]
        BY <2>2, <2>6, QuoteTurns, Zenon
      <3>2. q(Append(u, ch)).quoted = s \o Command!Slashes(k) \o <<ch>> /\ q(Append(u, ch)).backslashes = 0
        <4> HIDE DEF q, s, n, k
        <4> QED BY <3>1
      <3>3. k \in Nat /\ Command!Slashes(k) \in Seq(Chars) /\ <<ch>> \in Seq(Chars)
        <4>1. k \in Nat
          BY <2>3
        <4> HIDE DEF k
        <4> QED BY <4>1, SlashesType
      <3>4. e \in Seq(Chars) /\ s \o Command!Slashes(k) \o <<ch>> = s \o e
        <4> DEFINE back == Command!Slashes(k)
                   one == <<ch>>
        <4>1. s \in Seq(Chars) /\ back \in Seq(Chars) /\ one \in Seq(Chars)
          BY <2>3, <3>3
        <4>2. back \o one \in Seq(Chars) /\ Associates(s, back, one)
          <5> HIDE DEF s, back, one
          <5> QED BY <4>1, CharsConcat
        <4> HIDE DEF s, k
        <4> QED BY <4>2 DEF Associates
      <3>5. Fold(ReadStep, Inside(words, t), e) = Inside(words, v)
        BY <2>3, <2>6, ReadInside DEF IsReadInside
      <3>6. Fold(ReadStep, Start(words), s \o e) = Inside(words, v)
        <4>1. Fold(ReadStep, Start(words), s) = Inside(words, t)
          BY <2>1
        <4> HIDE DEF s, e, v
        <4> QED BY <2>3, <3>4, <3>5, <4>1, ReadMore, StartType
      <3>7. v \in Seq(Chars) /\ v \o Command!Slashes(0) = Append(u, ch)
        <4>1. v = u \o <<ch>>
          BY <2>1
        <4>2. u \o <<ch>> \in Seq(Chars) /\ (u \o <<ch>>) \o <<>> = Append(u, ch)
          OBVIOUS
        <4> HIDE DEF v
        <4> QED BY <4>1, <4>2, SlashesAppend
      <3> HIDE DEF q, s, n, k, e, v
      <3> QED BY <2>4, <3>2, <3>4, <3>6, <3>7
    <2> QED BY <2>5, <2>6
  <1>3. Seq(Chars) \subseteq Q
    BY <1>1, <1>2, SequenceInduction, Zenon
  <1> QED BY <1>3

-----------------------------------------------------------------------------
(* CommandLine: an argument                                                *)

(* A quoted argument is a text.                                            *)
LEMMA QuotedType ==
  ASSUME NEW argument \in Seq(Chars)
  PROVE  Command!QuoteWindowsArgument(argument) \in Seq(Chars)
  <1> DEFINE q == Fold(QuoteStep, QuoteStart, argument)
  <1>1. q.quoted \in Seq(Chars) /\ q.backslashes \in Nat
    <2>1. q \in QuoteStates
      BY FoldType, QuoteFolding
    <2> HIDE DEF q
    <2> QED BY <2>1 DEF QuoteStates
  <1>2. q.quoted \o Command!Slashes(2 * q.backslashes) \o <<Command!Quote>> \in Seq(Chars)
    BY <1>1, SlashesType, Distinct
  <1>3. Command!QuoteWindowsArgument(argument) \in
          {argument, q.quoted \o Command!Slashes(2 * q.backslashes) \o <<Command!Quote>>}
    BY QuoteLoop
  <1> HIDE DEF q
  <1> QED BY <1>2, <1>3

(* What is read of a quoted argument and the blank behind it. *)
LEMMA ReadArgument ==
  ASSUME NEW words \in Words, NEW argument \in Seq(Chars)
  PROVE  Fold(ReadStep, Start(words),
              Command!QuoteWindowsArgument(argument) \o <<Command!Space>>) =
           Start(Append(words, argument))
  <1> DEFINE plain == argument # <<>>
                      /\ Command!Range(argument) \cap {Command!Space, Command!Quote} = {}
             line == Command!QuoteWindowsArgument(argument)
  <1>1. /\ line \in Seq(Chars) /\ <<Command!Space>> \in Seq(Chars)
        /\ Start(words) \in ReadStates
    BY QuotedType, StartType, Distinct
  <1>2. Fold(ReadStep, Start(words), line \o <<Command!Space>>) =
          ReadStep[<<Fold(ReadStep, Start(words), line), Command!Space>>]
    BY <1>1, ReadMore, ReadOne, Distinct, Zenon
  <1>3. CASE plain
    <2>1. line = argument
      BY <1>3, QuoteLoop
    <2>2. argument \in Seq(PlainChars)
      BY <1>3 DEF Command!Range, PlainChars
    <2> DEFINE r == Fold(ReadStep, Start(words), argument)
    <2>3. /\ r \in ReadStates /\ r.words = words /\ r.mode = "plain"
          /\ r.inside = (argument # <<>>) /\ r.text \o Command!Slashes(r.slashes) = argument
      BY <2>2, ReadPlainWord
    <2> HIDE DEF r, line
    <2>4. r.inside = TRUE
      BY <1>3, <2>3
    <2>5. ReadStep[<<r, Command!Space>>] = Start(Append(words, argument))
      BY <2>3, <2>4, ReadSpace
    <2> QED BY <1>2, <2>1, <2>5 DEF r, line
  <1>4. CASE ~ plain
    <2> DEFINE q == Fold(QuoteStep, QuoteStart, argument)
               n == q.backslashes
               s == Command!Slashes(2 * n)
    <2>1. line = q.quoted \o s \o <<Command!Quote>>
      BY <1>4, QuoteLoop
    <2>2. PICK t \in Seq(Chars) :
            /\ Fold(ReadStep, Start(words), q.quoted) = Inside(words, t)
            /\ t \o Command!Slashes(n) = argument
      BY ReadQuotedWord
    <2>3. q.quoted \in Seq(Chars) /\ n \in Nat
      <3>1. q \in QuoteStates
        BY FoldType, QuoteFolding
      <3> HIDE DEF q
      <3> QED BY <3>1 DEF QuoteStates
    <2>4. 2 * n \in Nat /\ (2 * n) % 2 = 0 /\ (2 * n) \div 2 = n
      BY <2>3
    <2>5. s \in Seq(Chars) /\ <<Command!Quote>> \in Seq(Chars)
      BY <2>4, SlashesType, Distinct
    <2> DEFINE r == [words |-> words, text |-> t, slashes |-> 2 * n, inside |-> TRUE,
                     mode |-> "quoted"]
               closed == [words |-> words, text |-> argument, slashes |-> 0, inside |-> TRUE,
                          mode |-> "closed"]
    <2>6. Fold(ReadStep, Inside(words, t), s) = r /\ Inside(words, t) \in ReadStates
          /\ r \in ReadStates
      BY <2>4, InsideType, Zenon
    <2>7. Fold(ReadStep, Start(words), q.quoted \o s) = r
      BY <1>1, <2>2, <2>3, <2>5, <2>6, ReadMore
    <2>8. Fold(ReadStep, Start(words), line) = ReadStep[<<r, Command!Quote>>]
      <3> DEFINE u == q.quoted \o s
      <3>1. u \in Seq(Chars) /\ line = u \o <<Command!Quote>>
        BY <2>1, <2>3, <2>5
      <3>2. Fold(ReadStep, Start(words), u) = r
        BY <2>7
      <3> HIDE DEF line, u, r
      <3>3. Fold(ReadStep, Start(words), u \o <<Command!Quote>>) =
              Fold(ReadStep, r, <<Command!Quote>>)
        BY <1>1, <2>5, <3>1, <3>2, ReadMore
      <3>4. Fold(ReadStep, r, <<Command!Quote>>) = ReadStep[<<r, Command!Quote>>]
        BY <2>6, ReadOne, Distinct
      <3> QED BY <3>1, <3>3, <3>4
    <2>9. ReadStep[<<r, Command!Quote>>] = closed
      BY <2>2, <2>4, <2>6, ReadQuote, Zenon
    <2>10. closed \in ReadStates
      BY DEF ReadStates
    <2>11. closed.words = words /\ closed.mode = "closed" /\ closed.inside = TRUE
           /\ closed.text \o Command!Slashes(closed.slashes) = argument
      <3>1. argument \o <<>> = argument
        OBVIOUS
      <3> QED BY <3>1, SlashesAppend
    <2> HIDE DEF closed, r, line
    <2>12. ReadStep[<<closed, Command!Space>>] = Start(Append(words, argument))
      BY <2>10, <2>11, ReadSpace
    <2> QED BY <1>2, <2>8, <2>9, <2>12 DEF line
  <1> QED BY <1>3, <1>4

-----------------------------------------------------------------------------
(* CommandLine: the line                                                   *)

(* An argument behind the line makes a line.                               *)
LEMMA LineFolding == Folding(LineStep, Seq(Chars), Seq(Chars))
  BY QuotedType, Distinct DEF Folding, LineStep

(* BuildCommandLine is its loop over the arguments.                        *)
LEMMA LineLoop ==
  ASSUME Command!QuoteWindowsArgument(executable_path) \in Seq(Chars), args \in Seq(Seq(Chars))
  PROVE  Command!BuildCommandLine =
           Fold(LineStep, Command!QuoteWindowsArgument(executable_path), args)
  <1> DEFINE start == Command!QuoteWindowsArgument(executable_path)
             right(g) == [T \in SUBSET (DOMAIN args) |->
                            IF T = {} THEN start
                            ELSE g[T \ {Largest(T)}] \o <<Command!Space>>
                                   \o Command!QuoteWindowsArgument(args[Largest(T)])]
             iter == CHOOSE g : g = right(g)
  <1>1. Command!BuildCommandLine = iter[DOMAIN args]
    BY DEF Command!BuildCommandLine, Command!FoldLeft, Command!MapThenFoldSet, Command!Max, Largest
  <1> HIDE DEF start
  <1>0. start \in Seq(Chars)
    BY DEF start
  <1>2. PICK h : IsSetFold(h, LineStep, Seq(Chars), Seq(Chars), start, args)
    BY <1>0, LineFolding, SetFold
  <1>3. iter = right(iter)
    <2>1. h = right(h)
      BY <1>2, Zenon DEF IsSetFold, LineStep
    <2> HIDE DEF right
    <2> QED BY <2>1
  <1> HIDE DEF iter
  <1>4. FollowsSetFold(iter, LineStep, Seq(Chars), Seq(Chars), start, args)
    BY <1>3, Zenon DEF LineStep, FollowsSetFold
  <1>5. iter[DOMAIN args] = Fold(LineStep, start, args)
    BY <1>0, <1>4, FoldReached, LineFolding
  <1> QED BY <1>1, <1>5 DEF start

(* ReadCommandLine is the program name and the loop of the reader behind   *)
(* it.                                                                     *)
LEMMA ReadLoop ==
  ASSUME NEW line, Command!ProgramName(line).rest \in Seq(Chars)
  PROVE  Command!ReadCommandLine(line) =
           <<Command!ProgramName(line).name>>
             \o Fold(ReadStep, Start(<<>>),
                     Append(Command!ProgramName(line).rest, Command!Space)).words
  <1> DEFINE s == Append(Command!ProgramName(line).rest, Command!Space)
             right(g) == [T \in SUBSET (DOMAIN s) |->
                            IF T = {} THEN Start(<<>>)
                            ELSE Command!ReadCharacter(g[T \ {Largest(T)}], s[Largest(T)])]
             iter == CHOOSE g : g = right(g)
  <1>1. Command!ReadCommandLine(line) =
          <<Command!ProgramName(line).name>> \o iter[DOMAIN s].words
    BY DEF Command!ReadCommandLine, Command!FoldLeft, Command!MapThenFoldSet, Command!Max,
           Largest, Start
  <1>0. s \in Seq(Chars) /\ Start(<<>>) \in ReadStates
    <2>1. <<>> \in Words
      BY DEF Words
    <2> QED BY <2>1, StartType, Distinct
  <1> HIDE DEF s
  <1>2. PICK h : IsSetFold(h, ReadStep, ReadStates, Chars, Start(<<>>), s)
    BY <1>0, ReadFolding, SetFold
  <1>3. iter = right(iter)
    <2>1. h = right(h)
      BY <1>2, Zenon DEF IsSetFold, ReadStep
    <2> HIDE DEF right
    <2> QED BY <2>1
  <1> HIDE DEF iter
  <1>4. FollowsSetFold(iter, ReadStep, ReadStates, Chars, Start(<<>>), s)
    BY <1>3, Zenon DEF ReadStep, FollowsSetFold
  <1>5. iter[DOMAIN s] = Fold(ReadStep, Start(<<>>), s)
    BY <1>0, <1>4, FoldReached, ReadFolding
  <1> QED BY <1>1, <1>5 DEF s

-----------------------------------------------------------------------------
(* CommandLine: the program name and the arguments                         *)

(* A part of a sequence, by its elements. *)
LEMMA SubSeqIs ==
  ASSUME NEW S, NEW s \in Seq(S), NEW u \in Seq(S), NEW m \in Nat \ {0},
         m + Len(u) <= Len(s) + 1, \A i \in 1..Len(u) : s[m + i - 1] = u[i]
  PROVE  SubSeq(s, m, m + Len(u) - 1) = u
  <1> DEFINE n == m + Len(u) - 1
             v == SubSeq(s, m, n)
  <1>1. Len(u) \in Nat /\ Len(s) \in Nat /\ n \in Int /\ m \in Int
        /\ \A i \in m..n : s[i] \in S
    OBVIOUS
  <1>2. /\ v \in Seq(S) /\ Len(v) = IF m <= n THEN n - m + 1 ELSE 0
        /\ \A i \in 1..(n - m + 1) : v[i] = s[m + i - 1]
    <2> HIDE DEF n
    <2> QED BY <1>1, SubSeqProperties
  <1>3. Len(v) = Len(u) /\ n - m + 1 = Len(u)
    <2> HIDE DEF v
    <2> QED BY <1>1, <1>2
  <1>4. \A i \in 1..Len(u) : v[i] = u[i]
    <2> HIDE DEF v, n
    <2> QED BY <1>2, <1>3
  <1> HIDE DEF v
  <1>5. v = u
    BY <1>2, <1>3, <1>4, SeqEqual
  <1> QED BY <1>5 DEF v

(* The line is the program name and, behind it, what reads as the arguments. *)
LEMMA ReadArguments ==
  ASSUME NEW name \in Seq(Chars), NEW list \in Seq(Seq(Chars))
  PROVE  \E rest \in Seq(Chars) :
           /\ Fold(LineStep, name, list) = name \o rest
           /\ rest = <<>> \/ rest[1] = Command!Space
           /\ Fold(ReadStep, Start(<<>>), Append(rest, Command!Space)) = Start(list)
  <1> DEFINE line(u) == Fold(LineStep, name, u)
             Reads(u, rest) ==
               /\ line(u) = name \o rest
               /\ rest = <<>> \/ rest[1] = Command!Space
               /\ Fold(ReadStep, Start(<<>>), Append(rest, Command!Space)) = Start(u)
             Q == {u \in Seq(Seq(Chars)) : \E rest \in Seq(Chars) : Reads(u, rest)}
  <1>0. <<>> \in Words /\ <<>> \in Seq(Chars) /\ Words = Seq(Seq(Chars))
    BY DEF Words
  <1>1. <<>> \in Q
    <2>1. line(<<>>) = name /\ name \o <<>> = name
      BY FoldEmpty, LineFolding
    <2>2. Fold(ReadStep, Start(<<>>), Append(<<>>, Command!Space)) = Start(<<>>)
      <3> DEFINE r == Start(<<>>)
      <3>1. /\ r \in ReadStates /\ r.mode # "quoted" /\ r.inside = FALSE /\ r.words = <<>>
        BY <1>0, StartType DEF Start
      <3> HIDE DEF r
      <3>2. ReadStep[<<r, Command!Space>>] = Start(<<>>)
        BY <3>1, ReadSpace
      <3>3. Append(<<>>, Command!Space) = <<Command!Space>>
        OBVIOUS
      <3>4. Fold(ReadStep, r, <<Command!Space>>) = Start(<<>>)
        BY <3>1, <3>2, ReadOne, Distinct
      <3> QED BY <3>3, <3>4 DEF r
    <2>3. Reads(<<>>, <<>>)
      BY <2>1, <2>2
    <2> HIDE DEF Reads
    <2> QED BY <1>0, <2>3
  <1>2. ASSUME NEW u \in Seq(Seq(Chars)), NEW arg \in Seq(Chars), u \in Q
        PROVE  Append(u, arg) \in Q
    <2>1. PICK rest \in Seq(Chars) : Reads(u, rest)
      BY <1>2
    <2> DEFINE q == Command!QuoteWindowsArgument(arg)
               more == rest \o <<Command!Space>> \o q
    <2>2. q \in Seq(Chars) /\ <<Command!Space>> \in Seq(Chars)
      BY QuotedType, Distinct
    <2>3. line(Append(u, arg)) = name \o more
      <3>1. line(Append(u, arg)) = LineStep[<<line(u), arg>>]
        BY FoldAppend, LineFolding
      <3>2. line(u) \in Seq(Chars) /\ line(u) = name \o rest
        BY <2>1, FoldType, LineFolding
      <3>3. LineStep[<<line(u), arg>>] = line(u) \o <<Command!Space>> \o q
        BY <3>2, Zenon DEF LineStep
      <3>4. (name \o rest) \o <<Command!Space>> \o q = name \o more
        <4> DEFINE one == <<Command!Space>>
        <4>1. one \in Seq(Chars)
          BY <2>2
        <4> HIDE DEF one, q
        <4> DEFINE front == name \o rest
                   back == one \o q
        <4>2. name \in Seq(Chars) /\ rest \in Seq(Chars) /\ q \in Seq(Chars)
          BY <2>2
        <4>3. front \in Seq(Chars) /\ back \in Seq(Chars)
          BY <4>1, <4>2
        <4>4. Associates(front, one, q) /\ Associates(rest, one, q) /\ Associates(name, rest, back)
          BY <4>1, <4>2, <4>3, CharsConcat, Zenon
        <4> QED BY <4>4 DEF Associates, one
      <3> HIDE DEF line, q, more
      <3> QED BY <3>1, <3>2, <3>3, <3>4
    <2>4. more # <<>> /\ more[1] = Command!Space
      BY <2>1, <2>2
    <2>5. Fold(ReadStep, Start(<<>>), Append(more, Command!Space)) = Start(Append(u, arg))
      <3> DEFINE s == Append(rest, Command!Space)
                 t == q \o <<Command!Space>>
      <3>1. s \in Seq(Chars) /\ t \in Seq(Chars) /\ Append(more, Command!Space) = s \o t
        <4> HIDE DEF q
        <4>1. s \in Seq(Chars) /\ t \in Seq(Chars) /\ s = rest \o <<Command!Space>>
          BY <2>2, Distinct
        <4>2. more \in Seq(Chars) /\ Append(more, Command!Space) = more \o <<Command!Space>>
          BY <2>2, Distinct
        <4>3. more = s \o q
          BY <4>1
        <4>4. (s \o q) \o <<Command!Space>> = s \o t
          <5> DEFINE one == <<Command!Space>>
          <5>1. s \in Seq(Chars) /\ q \in Seq(Chars) /\ one \in Seq(Chars)
            BY <2>2, <4>1
          <5>2. Associates(s, q, one)
            BY <5>1, CharsConcat, Zenon
          <5> QED BY <5>2 DEF Associates
        <4> QED BY <4>1, <4>2, <4>3, <4>4
      <3>2. Fold(ReadStep, Start(<<>>), s) = Start(u)
        BY <2>1
      <3>3. Fold(ReadStep, Start(u), t) = Start(Append(u, arg))
        BY <1>0, ReadArgument
      <3>4. Start(<<>>) \in ReadStates
        BY <1>0, StartType
      <3> HIDE DEF s, t, more
      <3>5. Fold(ReadStep, Start(<<>>), s \o t) = Start(Append(u, arg))
        BY <3>1, <3>2, <3>3, <3>4, ReadMore
      <3> QED BY <3>1, <3>5
    <2>6. more \in Seq(Chars) /\ Append(u, arg) \in Seq(Seq(Chars))
      BY <2>2
    <2>7. Reads(Append(u, arg), more)
      BY <2>3, <2>4, <2>5
    <2> HIDE DEF Reads, more
    <2> QED BY <2>6, <2>7
  <1>3. Seq(Seq(Chars)) \subseteq Q
    BY <1>1, <1>2, SequenceInduction, Zenon
  <1> QED BY <1>3

(* A path, which holds no quote and does not end in a backslash, is at     *)
(* most put between quotes.                                                *)
LEMMA QuotedPath ==
  ASSUME NEW path \in Seq(Chars \ {Command!Quote}), path # <<>>,
         path[Len(path)] # Command!Backslash
  PROVE  Command!QuoteWindowsArgument(path) =
           IF Command!Space \in Command!Range(path)
           THEN <<Command!Quote>> \o path \o <<Command!Quote>>
           ELSE path
  <1> DEFINE B == Chars \ {Command!Quote}
             q(u) == Fold(QuoteStep, QuoteStart, u)
             Copied(u) ==
               /\ q(u).quoted \o Command!Slashes(q(u).backslashes) = <<Command!Quote>> \o u
               /\ q(u).backslashes # 0 => u # <<>> /\ u[Len(u)] = Command!Backslash
             Q == {u \in Seq(B) : Copied(u)}
  <1>1. <<>> \in Q
    <2>1. q(<<>>) = QuoteStart
      BY FoldEmpty, QuoteFolding
    <2>2. QuoteStart.quoted \o Command!Slashes(QuoteStart.backslashes) = <<Command!Quote>> \o <<>>
          /\ QuoteStart.backslashes = 0
      BY SlashesAppend DEF QuoteStart
    <2>3. <<>> \in Seq(B)
      OBVIOUS
    <2> HIDE DEF q
    <2> QED BY <2>1, <2>2, <2>3
  <1>2. ASSUME NEW u \in Seq(B), NEW ch \in B, u \in Q PROVE Append(u, ch) \in Q
    <2>0. u \in Seq(Chars) /\ ch \in Chars /\ ch # Command!Quote /\ <<Command!Quote>> \in Seq(Chars)
      BY Distinct
    <2>1. q(Append(u, ch)) = QuoteStep[<<q(u), ch>>] /\ q(u) \in QuoteStates
      BY <2>0, FoldAppend, FoldType, QuoteFolding
    <2> DEFINE s == q(u).quoted
               n == q(u).backslashes
    <2>2. s \in Seq(Chars) /\ n \in Nat
      BY <2>1 DEF QuoteStates
    <2>3. Command!Slashes(n) \in Seq(Chars)
      BY <2>2, SlashesType
    <2>4. s \o Command!Slashes(n) = <<Command!Quote>> \o u
      BY <1>2
    <2>5. Append(u, ch) \in Seq(B) /\ Append(u, ch) # <<>>
          /\ Append(u, ch)[Len(Append(u, ch))] = ch
      OBVIOUS
    <2>6. <<Command!Quote>> \o Append(u, ch) = Append(<<Command!Quote>> \o u, ch)
          /\ (<<Command!Quote>> \o u) \o <<ch>> = Append(<<Command!Quote>> \o u, ch)
          /\ Append(<<Command!Quote>> \o u, ch) \o <<>> = Append(<<Command!Quote>> \o u, ch)
      BY <2>0
    <2>7. CASE ch = Command!Backslash
      <3>1. q(Append(u, ch)) = [quoted |-> s, backslashes |-> n + 1]
        BY <2>1, <2>7, QuoteTurns, Zenon
      <3>2. s \o Command!Slashes(n + 1) = Append(s \o Command!Slashes(n), ch)
        <4> HIDE DEF n, s
        <4>1. Command!Slashes(n + 1) = Append(Command!Slashes(n), ch)
          BY <2>2, <2>7, SlashesAppend
        <4>2. s \o Append(Command!Slashes(n), ch) = Append(s \o Command!Slashes(n), ch)
          BY <2>0, <2>2, <2>3
        <4> QED BY <4>1, <4>2
      <3>3. q(Append(u, ch)).quoted = s /\ q(Append(u, ch)).backslashes = n + 1
        BY <3>1
      <3>4. Copied(Append(u, ch))
        BY <2>4, <2>5, <2>6, <2>7, <3>2, <3>3, Zenon
      <3> HIDE DEF Copied
      <3> QED BY <2>5, <3>4
    <2>8. CASE ch # Command!Backslash
      <3>1. q(Append(u, ch)) = [quoted |-> s \o Command!Slashes(n) \o <<ch>>, backslashes |-> 0]
        BY <2>0, <2>1, <2>8, QuoteTurns, Zenon
      <3>2. q(Append(u, ch)).quoted = (<<Command!Quote>> \o u) \o <<ch>>
            /\ q(Append(u, ch)).backslashes = 0
        BY <2>4, <3>1
      <3>3. Copied(Append(u, ch))
        BY <2>6, <3>2, SlashesAppend, Zenon
      <3> HIDE DEF Copied
      <3> QED BY <2>5, <3>3
    <2> QED BY <2>7, <2>8
  <1>3. Copied(path)
    BY <1>1, <1>2, SequenceInduction, Zenon
  <1>4. path \in Seq(Chars) /\ Command!Quote \notin Command!Range(path)
    BY DEF Command!Range
  <1>5. CASE Command!Space \in Command!Range(path)
    <2>1. Command!QuoteWindowsArgument(path) =
            q(path).quoted \o Command!Slashes(2 * q(path).backslashes) \o <<Command!Quote>>
      BY <1>4, <1>5, QuoteLoop
    <2>2. q(path).backslashes = 0
      BY <1>3
    <2>3. q(path).quoted \o Command!Slashes(0) = <<Command!Quote>> \o path
      BY <1>3, <2>2, Zenon
    <2> HIDE DEF q
    <2>4. 2 * 0 = 0
      OBVIOUS
    <2> QED BY <1>5, <2>1, <2>2, <2>3, <2>4
  <1>6. CASE Command!Space \notin Command!Range(path)
    BY <1>4, <1>6, QuoteLoop, Zenon
  <1> QED BY <1>5, <1>6

(* The program name that is read is the path that was written, and the     *)
(* rest is what was written behind it.                                     *)
LEMMA ProgramNameIs ==
  ASSUME NEW path \in Seq(Chars \ {Command!Quote}), path # <<>>,
         path[Len(path)] # Command!Backslash,
         NEW rest \in Seq(Chars), rest = <<>> \/ rest[1] = Command!Space
  PROVE  LET line == Command!QuoteWindowsArgument(path) \o rest
         IN  Command!ProgramName(line) = [name |-> path, rest |-> rest]
  <1>0. path \in Seq(Chars) /\ Len(path) \in Nat \ {0} /\ Len(rest) \in Nat
        /\ \A i \in 1..Len(path) : path[i] # Command!Quote
    OBVIOUS
  <1>1. CASE Command!Space \in Command!Range(path)
    <2> DEFINE line == (<<Command!Quote>> \o path \o <<Command!Quote>>) \o rest
               ends == {i \in 2..Len(line) : line[i] = Command!Quote}
    <2>1. Command!QuoteWindowsArgument(path) = <<Command!Quote>> \o path \o <<Command!Quote>>
      BY <1>1, QuotedPath
    <2>2. /\ line \in Seq(Chars) /\ Len(line) = Len(path) + 2 + Len(rest)
          /\ line[1] = Command!Quote /\ line[Len(path) + 2] = Command!Quote
          /\ \A i \in 1..Len(path) : line[i + 1] = path[i]
          /\ \A i \in 1..Len(rest) : line[Len(path) + 2 + i] = rest[i]
      BY <1>0, Distinct
    <2> HIDE DEF line
    <2>3. \A i \in ends : i >= Len(path) + 2
      <3> SUFFICES ASSUME NEW i \in 2..(Len(path) + 1) PROVE line[i] # Command!Quote
        BY <1>0, <2>2
      <3> DEFINE j == i - 1
      <3>1. j \in 1..Len(path) /\ j + 1 = i
        BY <1>0
      <3> HIDE DEF j
      <3>2. line[j + 1] # Command!Quote
        BY <1>0, <2>2, <3>1
      <3> QED BY <3>1, <3>2
    <2>4. Len(path) + 2 \in ends
      BY <1>0, <2>2
    <2>5. Command!Min(ends) = Len(path) + 2
      BY <1>0, <2>3, <2>4 DEF ends, Command!Min
    <2>6. SubSeq(line, 2, Len(path) + 1) = path
      BY <2>2, <1>0, SubSeqIs
    <2>7. SubSeq(line, Len(path) + 3, Len(line)) = rest
      <3> DEFINE m == Len(path) + 3
      <3>1. \A i \in 1..Len(rest) : line[m + i - 1] = rest[i]
        BY <1>0, <2>2
      <3>2. m + Len(rest) - 1 = Len(line) /\ m + Len(rest) <= Len(line) + 1 /\ m \in Nat \ {0}
        BY <1>0, <2>2
      <3> HIDE DEF m
      <3>3. SubSeq(line, m, m + Len(rest) - 1) = rest
        BY <2>2, <3>1, <3>2, SubSeqIs
      <3> QED BY <3>2, <3>3 DEF m
    <2>8. Command!ProgramName(line) = [name |-> path, rest |-> rest]
      <3>1. Command!ProgramName(line) =
              [name |-> SubSeq(line, 2, Command!Min(ends) - 1),
               rest |-> SubSeq(line, Command!Min(ends) + 1, Len(line))]
        BY <2>4, <2>2, Zenon DEF Command!ProgramName
      <3>2. Command!Min(ends) - 1 = Len(path) + 1 /\ Command!Min(ends) + 1 = Len(path) + 3
        BY <1>0, <2>5
      <3> HIDE DEF ends
      <3> QED BY <2>6, <2>7, <3>1, <3>2
    <2> QED BY <2>1, <2>8 DEF line
  <1>2. CASE Command!Space \notin Command!Range(path)
    <2> DEFINE line == path \o rest
               ends == {i \in 2..Len(line) : line[i] = Command!Space}
               end == IF ends = {} THEN Len(line) + 1 ELSE Command!Min(ends)
    <2>1. Command!QuoteWindowsArgument(path) = path
      BY <1>2, QuotedPath
    <2>2. /\ line \in Seq(Chars) /\ Len(line) = Len(path) + Len(rest)
          /\ \A i \in 1..Len(path) : line[i] = path[i] /\ path[i] # Command!Space
          /\ \A i \in 1..Len(rest) : line[Len(path) + i] = rest[i]
      BY <1>0, <1>2 DEF Command!Range
    <2>3. line[1] # Command!Quote
      BY <1>0, <2>2
    <2> HIDE DEF line
    <2>4. end = Len(path) + 1
      <3>1. \A i \in ends : i >= Len(path) + 1 /\ i \in Int
        BY <1>0, <2>2
      <3>2. CASE rest = <<>>
        BY <1>0, <2>2, <3>1, <3>2
      <3>3. CASE rest # <<>>
        <4>1. line[Len(path) + 1] = Command!Space /\ Len(rest) >= 1
          BY <3>3, <1>0, <2>2
        <4>2. Len(path) + 1 \in ends
          BY <1>0, <2>2, <4>1
        <4> HIDE DEF ends
        <4>3. Command!Min(ends) = Len(path) + 1
          BY <1>0, <3>1, <4>2 DEF Command!Min
        <4> QED BY <4>2, <4>3
      <3> QED BY <3>2, <3>3
    <2>5. SubSeq(line, 1, Len(path)) = path
      BY <2>2, <1>0, SubSeqIs
    <2>6. SubSeq(line, Len(path) + 1, Len(line)) = rest
      <3> DEFINE m == Len(path) + 1
      <3>1. \A i \in 1..Len(rest) : line[m + i - 1] = rest[i]
        BY <1>0, <2>2
      <3>2. m + Len(rest) - 1 = Len(line) /\ m + Len(rest) <= Len(line) + 1 /\ m \in Nat \ {0}
        BY <1>0, <2>2
      <3> HIDE DEF m
      <3>3. SubSeq(line, m, m + Len(rest) - 1) = rest
        BY <2>2, <3>1, <3>2, SubSeqIs
      <3> QED BY <3>2, <3>3 DEF m
    <2>7. Command!ProgramName(line) = [name |-> path, rest |-> rest]
      <3>1. Command!ProgramName(line) =
              [name |-> SubSeq(line, 1, end - 1), rest |-> SubSeq(line, end, Len(line))]
        BY <2>3 DEF Command!ProgramName
      <3>2. end - 1 = Len(path)
        BY <1>0, <2>4
      <3> HIDE DEF end
      <3> QED BY <2>4, <2>5, <2>6, <3>1, <3>2
    <2> QED BY <2>1, <2>7 DEF line
  <1> QED BY <1>1, <1>2

-----------------------------------------------------------------------------
(* CommandLine: the theorem                                                *)

(* The arguments are sequences of characters, the path is one of Paths. *)
CommandInv ==
  subject = "command" => executable_path \in Paths /\ args \in Seq(Seq(Chars))

(* NewArgument and Type keep that, and the path never changes.             *)
LEMMA CommandInvInductive == Spec => []CommandInv
  <1>1. Init => CommandInv
    BY DEF Init, CommandInv, Command!Init
  <1>2. CommandInv /\ [Next]_vars => CommandInv'
    <2> SUFFICES ASSUME CommandInv, [Next]_vars PROVE CommandInv'
      OBVIOUS
    <2>1. ASSUME subject = "command", Command!Next, UNCHANGED subject PROVE CommandInv'
      <3>1. executable_path \in Paths /\ args \in Seq(Seq(Chars))
        BY <2>1 DEF CommandInv
      <3>2. CASE Command!NewArgument
        BY <3>1, <3>2 DEF Command!NewArgument, CommandInv
      <3>3. ASSUME NEW ch \in Chars, Command!Type(ch) PROVE CommandInv'
        BY <3>1, <3>3, ExceptSeq DEF Command!Type, CommandInv
      <3> QED BY <2>1, <3>2, <3>3 DEF Command!Next, Chars
    <2> QED BY <2>1 DEF Next, vars, commandVars, CommandInv
  <1> QED BY <1>1, <1>2, PTL DEF Spec

(* The arguments of a daemon survive the command line on Windows, whatever *)
(* characters they hold and however many there are.                        *)
THEOREM SpecArgumentsSurvive == Spec => []ArgumentsSurvive
  <1>1. CommandInv => ArgumentsSurvive
    <2> SUFFICES ASSUME CommandInv, subject = "command"
                 PROVE  Command!ReadCommandLine(Command!BuildCommandLine) =
                          <<executable_path>> \o args
      BY DEF ArgumentsSurvive, Command!ArgumentsSurvive
    <2>1. executable_path \in Paths /\ args \in Seq(Seq(Chars))
      BY DEF CommandInv
    <2>2. /\ executable_path \in Seq(Chars \ {Command!Quote}) /\ executable_path # <<>>
          /\ executable_path[Len(executable_path)] # Command!Backslash
      BY <2>1, ConversionsAssumption DEF Command!CommandLineAssumption, Command!Last, Chars
    <2> DEFINE name == Command!QuoteWindowsArgument(executable_path)
               line == Command!BuildCommandLine
    <2>3. executable_path \in Seq(Chars) /\ name \in Seq(Chars)
      BY <2>2, QuotedType
    <2>4. PICK rest \in Seq(Chars) :
            /\ Fold(LineStep, name, args) = name \o rest
            /\ rest = <<>> \/ rest[1] = Command!Space
            /\ Fold(ReadStep, Start(<<>>), Append(rest, Command!Space)) = Start(args)
      BY <2>1, <2>3, ReadArguments, Zenon
    <2>5. line = name \o rest
      BY <2>1, <2>3, <2>4, LineLoop
    <2>6. Command!ProgramName(line) = [name |-> executable_path, rest |-> rest]
      BY <2>2, <2>4, ProgramNameIs, <2>5, Zenon
    <2> HIDE DEF line
    <2>7. Command!ProgramName(line).rest = rest /\ Command!ProgramName(line).name = executable_path
      BY <2>6
    <2>8. Command!ReadCommandLine(line) = <<executable_path>> \o Start(args).words
      BY <2>4, <2>7, ReadLoop
    <2>9. Start(args).words = args
      BY DEF Start
    <2> QED BY <2>8, <2>9 DEF line
  <1> QED BY <1>1, CommandInvInductive, PTL

-----------------------------------------------------------------------------
(* Integers: digits and numerals                                           *)

(* Digits and their values.                                                *)
Digits == <<"0", "1", "2", "3", "4", "5", "6", "7", "8", "9">>
DigitSet == {Digits[i] : i \in DOMAIN Digits}
DigitOf(d) == Digits[d + 1]
ValueOf(ch) == CHOOSE d \in 0..9 : Digits[d + 1] = ch

(* A digit and its value.                                                  *)
LEMMA DigitFacts ==
  /\ \A d \in 0..9 : DigitOf(d) \in DigitSet /\ ValueOf(DigitOf(d)) = d
  /\ \A ch \in DigitSet : ValueOf(ch) \in 0..9 /\ DigitOf(ValueOf(ch)) = ch
  /\ "-" \notin DigitSet /\ DigitOf(0) = "0" /\ "0" \in DigitSet
  <1>1. DOMAIN Digits = 1..10
    BY DEF Digits
  <1>2. \A d, e \in 0..9 : DigitOf(d) = DigitOf(e) => d = e
    BY DEF DigitOf, Digits
  <1>3. \A d \in 0..9 : DigitOf(d) \in DigitSet
    BY <1>1 DEF DigitOf, DigitSet
  <1>4. \A ch \in DigitSet : \E d \in 0..9 : DigitOf(d) = ch
    BY <1>1 DEF DigitSet, DigitOf
  <1>5. \A ch \in DigitSet : ValueOf(ch) \in 0..9 /\ DigitOf(ValueOf(ch)) = ch
    BY <1>4 DEF DigitOf, ValueOf
  <1>6. DigitOf(0) = "0"
    BY DEF DigitOf, Digits
  <1>7. "-" \notin DigitSet
    BY <1>1 DEF DigitSet, Digits
  <1> QED BY <1>2, <1>3, <1>5, <1>6, <1>7

(* The numerals: what std::to_string makes of a number that is not negative. *)
IsNumeralOf(num) ==
  \A k \in Nat : num[k] = IF k < 10 THEN <<DigitOf(k)>>
                          ELSE Append(num[k \div 10], DigitOf(k % 10))

(* There are such numerals.                                                *)
LEMMA NumeralExists == \E num \in [Nat -> Seq(DigitSet)] : IsNumeralOf(num)
  <1> DEFINE S == Nat
             A == Seq(DigitSet)
             stop == 0..9
             first == [k \in S |-> IF k < 10 THEN <<DigitOf(k)>> ELSE <<>>]
             next == [k \in S |-> k \div 10]
             measure == [k \in S |-> k]
             step == [p \in A \X S |-> Append(p[1], DigitOf(p[2] % 10))]
  <1>1. first \in [S -> A]
    BY DigitFacts
  <1>2. \A k \in Nat : k % 10 \in 0..9 /\ k \div 10 \in Nat /\ (k >= 10 => k \div 10 < k)
    OBVIOUS
  <1>3. step \in [A \X S -> A]
    BY <1>2, DigitFacts
  <1>4. next \in [S -> S] /\ measure \in [S -> Nat]
    BY <1>2
  <1>5. \A x \in S \ stop : measure[next[x]] < measure[x]
    BY <1>2
  <1>6. PICK h \in [S -> A] :
          \A k \in S : h[k] = IF k \in stop THEN first[k] ELSE step[<<h[next[k]], k>>]
    <2> HIDE DEF S, A, stop, next, step, first, measure
    <2>1. Recursive(S, A, stop, first, next, measure, step)
      BY <1>1, <1>3, <1>4, <1>5 DEF Recursive
    <2> QED BY <2>1, Recursion
  <1>7. IsNumeralOf(h)
    <2> SUFFICES ASSUME NEW k \in Nat
                 PROVE h[k] = IF k < 10 THEN <<DigitOf(k)>>
                              ELSE Append(h[k \div 10], DigitOf(k % 10))
      BY DEF IsNumeralOf
    <2>1. CASE k < 10
      <3>1. k \in stop /\ first[k] = <<DigitOf(k)>>
        BY <2>1
      <3> HIDE DEF stop, first, step, next
      <3> QED BY <1>6, <2>1, <3>1
    <2>2. CASE ~ (k < 10)
      <3>1. k \notin stop /\ next[k] = k \div 10 /\ k \div 10 \in Nat
        BY <1>2, <2>2
      <3>2. h[next[k]] \in A
        BY <1>6, <3>1
      <3>3. step[<<h[next[k]], k>>] = Append(h[next[k]], DigitOf(k % 10))
        BY <3>2, Zenon
      <3> HIDE DEF stop, first, step, next
      <3> QED BY <1>6, <2>2, <3>1, <3>3
    <2> QED BY <2>1, <2>2
  <1> QED BY <1>6, <1>7

Numeral == CHOOSE num : num \in [Nat -> Seq(DigitSet)] /\ IsNumeralOf(num)

(* And these are the ones.                                                 *)
LEMMA NumeralStep ==
  /\ Numeral \in [Nat -> Seq(DigitSet)]
  /\ \A k \in Nat : Numeral[k] = IF k < 10 THEN <<DigitOf(k)>>
                                 ELSE Append(Numeral[k \div 10], DigitOf(k % 10))
  BY NumeralExists, Zenon DEF Numeral, IsNumeralOf

(* Any function of that equation agrees with it on the numbers. *)
LEMMA NumeralUnique ==
  ASSUME NEW num, IsNumeralOf(num)
  PROVE  \A k \in Nat : num[k] = Numeral[k]
  <1> DEFINE Differ == {k \in Nat : num[k] # Numeral[k]}
  <1> SUFFICES ASSUME Differ # {} PROVE FALSE
    OBVIOUS
  <1>1. PICK m \in Differ : \A k \in Differ : m <= k
    BY Minimum
  <1>2. CASE m < 10
    <2>1. m \in Nat /\ num[m] # Numeral[m]
      BY <1>1
    <2>2. num[m] = <<DigitOf(m)>>
      BY <1>2, <2>1 DEF IsNumeralOf
    <2>3. Numeral[m] = <<DigitOf(m)>>
      BY <1>2, <2>1, NumeralStep
    <2> QED BY <2>1, <2>2, <2>3
  <1>3. CASE ~ (m < 10)
    <2>1. m \in Nat /\ m \div 10 \in Nat /\ m \div 10 < m
      BY <1>3
    <2>2. num[m \div 10] = Numeral[m \div 10]
      BY <1>1, <2>1
    <2> QED BY <1>1, <1>3, <2>1, <2>2, NumeralStep DEF IsNumeralOf
  <1> QED BY <1>2, <1>3

(* Induction with the hypothesis for everything smaller. *)
LEMMA StrongInduction ==
  ASSUME NEW S, \A n \in Nat : (\A k \in Nat : k < n => k \in S) => n \in S
  PROVE  Nat \subseteq S
  <1> SUFFICES ASSUME Nat \ S # {} PROVE FALSE
    OBVIOUS
  <1>1. PICK m \in Nat \ S : \A k \in Nat \ S : m <= k
    BY Minimum
  <1> QED BY <1>1

(* The value of digits. *)
ValueStep == [p \in Nat \X DigitSet |-> (p[1] * 10) + ValueOf(p[2])]
Value(d) == Fold(ValueStep, 0, d)

(* A turn of the loop over the digits leads to a number.                   *)
LEMMA ValueFolding == Folding(ValueStep, Nat, DigitSet) /\ 0 \in Nat
  BY DigitFacts DEF Folding, ValueStep

(* The value, digit by digit.                                              *)
LEMMA ValueFacts ==
  /\ Value(<<>>) = 0
  /\ \A d \in Seq(DigitSet) : Value(d) \in Nat
  /\ \A d \in Seq(DigitSet), ch \in DigitSet : Value(Append(d, ch)) = (Value(d) * 10) + ValueOf(ch)
  <1>1. Value(<<>>) = 0
    BY FoldEmpty, ValueFolding DEF Value
  <1>2. \A d \in Seq(DigitSet) : Value(d) \in Nat
    BY FoldType, ValueFolding DEF Value
  <1>3. ASSUME NEW d \in Seq(DigitSet), NEW ch \in DigitSet
        PROVE  Value(Append(d, ch)) = (Value(d) * 10) + ValueOf(ch)
    <2>1. Value(Append(d, ch)) = ValueStep[<<Value(d), ch>>]
      BY FoldAppend, ValueFolding DEF Value
    <2> QED BY <1>2, <2>1 DEF ValueStep
  <1> QED BY <1>1, <1>2, <1>3

(* The value of a digit.                                                   *)
LEMMA OneDigit ==
  ASSUME NEW ch \in DigitSet
  PROVE  Value(<<ch>>) = ValueOf(ch)
  <1> DEFINE none == <<>>
  <1>1. none \in Seq(DigitSet) /\ Value(none) = 0
    BY ValueFacts
  <1>2. Append(none, ch) = <<ch>>
    OBVIOUS
  <1> HIDE DEF none
  <1>3. Value(Append(none, ch)) = (0 * 10) + ValueOf(ch)
    BY <1>1, ValueFacts
  <1> QED BY <1>2, <1>3, DigitFacts

(* A numeral has the value it was made from.                               *)
LEMMA ValueOfNumeral == \A n \in Nat : Value(Numeral[n]) = n
  <1> DEFINE S == {n \in Nat : Value(Numeral[n]) = n}
  <1>1. ASSUME NEW n \in Nat, \A k \in Nat : k < n => k \in S PROVE n \in S
    <2>1. CASE n < 10
      <3>1. n \in 0..9 /\ Numeral[n] = <<DigitOf(n)>>
        BY <2>1, NumeralStep
      <3> QED BY <3>1, OneDigit, DigitFacts
    <2>2. CASE ~ (n < 10)
      <3> DEFINE q == n \div 10
                 r == n % 10
      <3>1. q \in Nat /\ q < n /\ r \in 0..9 /\ n = (q * 10) + r
        BY <2>2
      <3>2. Numeral[n] = Append(Numeral[q], DigitOf(r)) /\ Numeral[q] \in Seq(DigitSet)
        BY <2>2, <3>1, NumeralStep
      <3>3. Value(Numeral[q]) = q
        BY <1>1, <3>1
      <3> HIDE DEF q, r
      <3>4. Value(Append(Numeral[q], DigitOf(r))) = (q * 10) + r
        BY <3>1, <3>2, <3>3, ValueFacts, DigitFacts
      <3> QED BY <3>1, <3>2, <3>4
    <2> QED BY <2>1, <2>2
  <1>2. Nat \subseteq S
    BY <1>1, StrongInduction, Zenon
  <1> QED BY <1>2

(* Zeros in front.                                                         *)
Padding(z) == [i \in 1..z |-> "0"]

(* Zeros count for nothing.                                                *)
LEMMA PaddingFacts ==
  /\ Padding(0) = <<>>
  /\ \A z \in Nat : /\ Padding(z) \in Seq(DigitSet) /\ Len(Padding(z)) = z
                    /\ Padding(z + 1) = Append(Padding(z), "0")
                    /\ Value(Padding(z)) = 0
  <1>1. Padding(0) = <<>>
    BY DEF Padding
  <1>2. \A z \in Nat : Padding(z) \in Seq(DigitSet) /\ Len(Padding(z)) = z
    BY DigitFacts DEF Padding
  <1>3. ASSUME NEW z \in Nat PROVE Padding(z + 1) = Append(Padding(z), "0")
    BY <1>2, DigitFacts, SeqEqual DEF Padding
  <1>4. \A z \in Nat : Value(Padding(z)) = 0
    <2> DEFINE S == {z \in Nat : Value(Padding(z)) = 0}
    <2>1. 0 \in S
      BY <1>1, ValueFacts
    <2>2. ASSUME NEW z \in Nat, z \in S PROVE z + 1 \in S
      <3>1. Value(Append(Padding(z), "0")) = (0 * 10) + ValueOf("0")
        BY <1>2, <2>2, ValueFacts, DigitFacts
      <3>2. ValueOf("0") = 0
        BY DigitFacts
      <3>3. Value(Padding(z + 1)) = 0
        <4>1. Padding(z + 1) = Append(Padding(z), "0")
          BY <1>3
        <4>2. (0 * 10) + 0 = 0
          OBVIOUS
        <4> QED BY <3>1, <3>2, <4>1, <4>2
      <3> QED BY <3>3
    <2>3. Nat \subseteq S
      BY <2>1, <2>2, Induction, Zenon
    <2> QED BY <2>3
  <1> QED BY <1>1, <1>2, <1>3, <1>4

(* Zeros in front of digits count for nothing.                             *)
LEMMA ValueOfPadded ==
  \A z \in Nat, d \in Seq(DigitSet) : Value(Padding(z) \o d) = Value(d)
  <1> SUFFICES ASSUME NEW z \in Nat, NEW d \in Seq(DigitSet)
               PROVE  Value(Padding(z) \o d) = Value(d)
    OBVIOUS
  <1>1. Padding(z) \in Seq(DigitSet) /\ Value(Padding(z)) = 0
    BY PaddingFacts
  <1> DEFINE p == Padding(z)
  <1>2. p \in Seq(DigitSet) /\ Value(p) = 0
    BY <1>1
  <1> HIDE DEF p
  <1>3. Fold(ValueStep, 0, p \o d) = Fold(ValueStep, Fold(ValueStep, 0, p), d)
    BY <1>2, FoldConcat, ValueFolding
  <1>4. Value(p \o d) = Value(d)
    BY <1>2, <1>3 DEF Value
  <1> QED BY <1>4 DEF p

(* Only the numeral of 0 begins with a 0.                                  *)
LEMMA NumeralFacts ==
  \A n \in Nat : /\ Numeral[n] \in Seq(DigitSet) /\ Numeral[n] # <<>>
                 /\ Numeral[n][1] = "0" => n = 0
                 /\ n = 0 => Len(Numeral[n]) = 1
  <1> DEFINE S == {n \in Nat : Numeral[n] # <<>> /\ (Numeral[n][1] = "0" => n = 0)}
  <1>1. ASSUME NEW n \in Nat, \A k \in Nat : k < n => k \in S PROVE n \in S
    <2>1. CASE n < 10
      <3>1. n \in 0..9 /\ Numeral[n] = <<DigitOf(n)>>
        BY <2>1, NumeralStep
      <3>2. Numeral[n] # <<>> /\ Numeral[n][1] = DigitOf(n)
        BY <3>1
      <3>3. DigitOf(n) = "0" => n = 0
        BY <3>1, DigitFacts
      <3> QED BY <3>2, <3>3
    <2>2. CASE ~ (n < 10)
      <3> DEFINE q == n \div 10
                 s == Numeral[q]
                 ch == DigitOf(n % 10)
      <3>1. q \in Nat /\ q < n /\ q # 0 /\ n % 10 \in 0..9
        BY <2>2
      <3>2. Numeral[n] = Append(s, ch) /\ s \in Seq(DigitSet) /\ ch \in DigitSet
        BY <2>2, <3>1, NumeralStep, DigitFacts
      <3>3. s # <<>> /\ s[1] # "0"
        BY <1>1, <3>1
      <3> HIDE DEF s, ch
      <3>4. Append(s, ch) # <<>> /\ Append(s, ch)[1] = s[1]
        BY <3>2, <3>3
      <3> QED BY <3>2, <3>3, <3>4
    <2> QED BY <2>1, <2>2
  <1>2. Nat \subseteq S
    BY <1>1, StrongInduction, Zenon
  <1>3. Numeral[0] = <<DigitOf(0)>>
    BY NumeralStep
  <1>4. Len(Numeral[0]) = 1
    BY <1>3
  <1> QED BY <1>2, <1>4, NumeralStep

(* Digits are zeros and the numeral of their value. *)
LEMMA DigitsAreNumeral ==
  \A d \in Seq(DigitSet) : d # <<>> =>
    \E z \in Nat : d = Padding(z) \o Numeral[Value(d)]
  <1> DEFINE Q == {d \in Seq(DigitSet) : d # <<>> =>
                     \E z \in Nat : d = Padding(z) \o Numeral[Value(d)]}
  <1>1. <<>> \in Q
    OBVIOUS
  <1>2. ASSUME NEW d \in Seq(DigitSet), NEW ch \in DigitSet, d \in Q PROVE Append(d, ch) \in Q
    <2> DEFINE c == ValueOf(ch)
               v == Value(d)
               w == Value(Append(d, ch))
    <2>1. c \in 0..9 /\ DigitOf(c) = ch /\ v \in Nat /\ w = (v * 10) + c
      BY DigitFacts, ValueFacts
    <2>2. CASE v = 0
      <3>1. w = c
        BY <2>1, <2>2
      <3>2. Numeral[w] = <<ch>>
        <4>1. w \in Nat /\ w < 10 /\ DigitOf(w) = ch
          BY <2>1, <3>1
        <4> HIDE DEF w
        <4> QED BY <4>1, NumeralStep
      <3>3. \E z \in Nat : d = Padding(z)
        <4>1. CASE d = <<>>
          BY <4>1, PaddingFacts
        <4>2. CASE d # <<>>
          <5>1. PICK z \in Nat : d = Padding(z) \o Numeral[v]
            BY <1>2, <4>2
          <5>2. Numeral[v] = <<"0">>
            BY <2>2, NumeralStep, DigitFacts
          <5>3. d = Append(Padding(z), "0")
            <6>1. Padding(z) \in Seq(DigitSet)
              BY PaddingFacts
            <6> HIDE DEF v
            <6> QED BY <5>1, <5>2, <6>1
          <5>4. z + 1 \in Nat /\ d = Padding(z + 1)
            BY <5>3, PaddingFacts
          <5> QED BY <5>4
        <4> QED BY <4>1, <4>2
      <3>4. PICK z \in Nat : d = Padding(z)
        BY <3>3
      <3>5. Append(d, ch) = d \o <<ch>> /\ Append(d, ch) \in Seq(DigitSet)
        OBVIOUS
      <3>6. Append(d, ch) = Padding(z) \o Numeral[w]
        BY <3>2, <3>4, <3>5
      <3> QED BY <3>5, <3>6
    <2>3. CASE v # 0
      <3>1. d # <<>>
        BY <2>3, ValueFacts
      <3>2. PICK z \in Nat : d = Padding(z) \o Numeral[v]
        BY <1>2, <3>1
      <3>3. w \in Nat /\ ~ (w < 10) /\ w \div 10 = v /\ w % 10 = c
        <4> HIDE DEF v, w, c
        <4> QED BY <2>1, <2>3
      <3>4. Numeral[w] = Append(Numeral[v], ch) /\ Numeral[v] \in Seq(DigitSet)
        BY <2>1, <3>3, NumeralStep, Zenon
      <3>5. Append(d, ch) = Padding(z) \o Numeral[w]
        <4> DEFINE p == Padding(z)
                   s == Numeral[v]
        <4>1. p \in Seq(DigitSet) /\ s \in Seq(DigitSet)
          BY <3>4, PaddingFacts
        <4> HIDE DEF v, w, p, s
        <4>2. Append(p \o s, ch) = p \o Append(s, ch)
          BY <4>1
        <4> QED BY <3>2, <3>4, <4>2 DEF p, s
      <3>6. Append(d, ch) \in Seq(DigitSet)
        OBVIOUS
      <3> QED BY <3>5, <3>6
    <2> QED BY <2>2, <2>3
  <1>3. Seq(DigitSet) \subseteq Q
    BY <1>1, <1>2, SequenceInduction, Zenon
  <1> QED BY <1>3

(* Digits without a zero in front are the numeral of their value.          *)
LEMMA CanonicalDigits ==
  ASSUME NEW d \in Seq(DigitSet), d # <<>>, d[1] # "0" \/ Len(d) = 1
  PROVE  d = Numeral[Value(d)]
  <1> DEFINE s == Numeral[Value(d)]
  <1>1. PICK z \in Nat : d = Padding(z) \o s
    BY DigitsAreNumeral
  <1>2. s \in Seq(DigitSet) /\ s # <<>>
    BY ValueFacts, NumeralFacts
  <1>3. Padding(z) \in Seq(DigitSet) /\ Len(Padding(z)) = z /\ \A i \in 1..z : Padding(z)[i] = "0"
    BY PaddingFacts DEF Padding
  <1> DEFINE p == Padding(z)
  <1> HIDE DEF s, p
  <1>4. z = 0
    BY <1>1, <1>2, <1>3
  <1>5. d = <<>> \o s
    BY <1>1, <1>4, PaddingFacts
  <1>6. d = s
    BY <1>2, <1>5
  <1> QED BY <1>6 DEF s

-----------------------------------------------------------------------------
(* Integers: from_chars and to_string                                      *)

(* What from_chars reads of s: where the digits begin and end, their value *)
(* and how much of s it took.                                              *)
Begin(s) == IF s # <<>> /\ s[1] = "-" THEN 2 ELSE 1
IsEnd(s, i) == /\ \A j \in Begin(s)..i : s[j] \in DigitSet
               /\ i = Len(s) \/ ~ s[i + 1] \in DigitSet
End(s) == CHOOSE i \in Begin(s) - 1 .. Len(s) : IsEnd(s, i)

(* The digits that from_chars takes end in one place.                      *)
LEMMA EndIs ==
  ASSUME NEW X, NEW s \in Seq(X)
  PROVE  /\ End(s) \in Begin(s) - 1 .. Len(s) /\ IsEnd(s, End(s))
         /\ \A i \in Begin(s) - 1 .. Len(s) : IsEnd(s, i) => End(s) = i
  <1>1. Len(s) \in Nat /\ Begin(s) \in {1, 2} /\ Begin(s) - 1 <= Len(s)
    BY DEF Begin
  <1>2. \E i \in Begin(s) - 1 .. Len(s) : IsEnd(s, i)
    <2> DEFINE Stops == {i \in Nat : /\ i >= Begin(s) - 1 /\ i <= Len(s)
                                     /\ i = Len(s) \/ ~ s[i + 1] \in DigitSet}
    <2>1. PICK m \in Stops : \A i \in Stops : m <= i
      <3>1. Len(s) \in Stops
        BY <1>1
      <3>2. Stops \in SUBSET Nat /\ Stops # {}
        BY <3>1
      <3> HIDE DEF Stops
      <3> QED BY <3>2, Minimum
    <2>2. m \in Begin(s) - 1 .. Len(s) /\ (m = Len(s) \/ ~ s[m + 1] \in DigitSet)
      BY <1>1
    <2>3. ASSUME NEW j \in Begin(s)..m PROVE s[j] \in DigitSet
      <3>1. j - 1 \in Nat /\ j - 1 >= Begin(s) - 1 /\ j - 1 < Len(s) /\ (j - 1) + 1 = j /\ j - 1 < m
        BY <1>1, <2>2
      <3>2. j - 1 \notin Stops
        BY <1>1, <2>1, <2>2, <3>1
      <3> QED BY <1>1, <3>1, <3>2
    <2> QED BY <2>2, <2>3 DEF IsEnd
  <1>3. End(s) \in Begin(s) - 1 .. Len(s) /\ IsEnd(s, End(s))
    BY <1>2 DEF End
  <1>4. ASSUME NEW i \in Begin(s) - 1 .. Len(s), NEW k \in Begin(s) - 1 .. Len(s),
               IsEnd(s, i), IsEnd(s, k), i < k
        PROVE  FALSE
    BY <1>1, <1>4 DEF IsEnd
  <1>5. ASSUME NEW i \in Begin(s) - 1 .. Len(s), IsEnd(s, i) PROVE End(s) = i
    BY <1>3, <1>4, <1>5, <1>1
  <1> QED BY <1>3, <1>5

DigitsOf(s) == SubSeq(s, Begin(s), End(s))
Signed(s) == IF Begin(s) = 2 THEN -Value(DigitsOf(s)) ELSE Value(DigitsOf(s))
Read(s, range) ==
  IF End(s) < Begin(s) THEN [ok |-> FALSE, value |-> 0, used |-> 0]
  ELSE [ok |-> Signed(s) \in range, value |-> Signed(s), used |-> End(s)]

(* And they are digits.                                                    *)
LEMMA DigitsOfType ==
  ASSUME NEW X, NEW s \in Seq(X)
  PROVE  /\ DigitsOf(s) \in Seq(DigitSet)
         /\ Len(DigitsOf(s)) = End(s) - Begin(s) + 1
         /\ \A i \in 1..Len(DigitsOf(s)) : DigitsOf(s)[i] = s[Begin(s) + i - 1]
  BY EndIs, SubSeqProperties DEF Begin, IsEnd, DigitsOf

(* The loop of from_chars over the digits. *)
Loop(d) ==
  LET magnitude[i \in 0..Len(d)] ==
        IF i = 0 THEN 0 ELSE (magnitude[i - 1] * 10) + ValueOf(d[i])
  IN magnitude[Len(d)]

(* It is the value of the digits.                                          *)
LEMMA LoopIsValue ==
  ASSUME NEW d \in Seq(DigitSet)
  PROVE  Loop(d) = Value(d)
  <1> DEFINE right(g) == [i \in 0..Len(d) |->
                            IF i = 0 THEN 0 ELSE (g[i - 1] * 10) + ValueOf(d[i])]
             magnitude == CHOOSE g : g = right(g)
  <1>1. Loop(d) = magnitude[Len(d)]
    BY DEF Loop
  <1>2. PICK run \in [0..Len(d) -> Nat] :
          IsRun(run, ValueStep, 0, d) /\ Fold(ValueStep, 0, d) = run[Len(d)]
    <2> DEFINE N == Nat
               none == 0
    <2>1. none \in N /\ Folding(ValueStep, N, DigitSet)
      BY ValueFolding
    <2> HIDE DEF N, none
    <2>2. \E run \in [0..Len(d) -> N] : IsRun(run, ValueStep, none, d) /\ Fold(ValueStep, none, d) = run[Len(d)]
      BY <2>1, FoldRun
    <2> QED BY <2>2 DEF N, none
  <1>3. Len(d) \in Nat /\ \A i \in 1..Len(d) : d[i] \in DigitSet
    OBVIOUS
  <1>4. run = right(run)
    <2>1. ASSUME NEW i \in 0..Len(d), i # 0
          PROVE  run[i] = (run[i - 1] * 10) + ValueOf(d[i])
      <3>1. i \in 1..Len(d) /\ i - 1 \in 0..Len(d)
        BY <1>3, <2>1
      <3>2. run[i] = ValueStep[<<run[i - 1], d[i]>>]
        BY <1>2, <3>1 DEF IsRun
      <3>3. run[i - 1] \in Nat /\ d[i] \in DigitSet
        BY <1>3, <3>1
      <3> QED BY <3>2, <3>3 DEF ValueStep
    <2>2. run[0] = 0
      BY <1>2 DEF IsRun
    <2>3. \A i \in 0..Len(d) : run[i] = IF i = 0 THEN 0 ELSE (run[i - 1] * 10) + ValueOf(d[i])
      BY <2>1, <2>2, Zenon
    <2>4. run = [i \in 0..Len(d) |-> run[i]]
      OBVIOUS
    <2> QED BY <2>3, <2>4, Zenon
  <1>5. magnitude = right(magnitude)
    BY <1>4, Zenon
  <1> HIDE DEF magnitude
  <1>6. \A i \in Nat : i <= Len(d) => magnitude[i] = run[i]
    <2> DEFINE Same == {i \in Nat : i <= Len(d) => magnitude[i] = run[i]}
    <2>1. 0 \in Same
      BY <1>3, <1>2, <1>5 DEF IsRun
    <2>2. ASSUME NEW i \in Nat, i \in Same PROVE i + 1 \in Same
      BY <1>3, <2>2, <1>4, <1>5
    <2>3. Nat \subseteq Same
      BY <2>1, <2>2, Induction, Zenon
    <2> QED BY <2>3
  <1> QED BY <1>1, <1>2, <1>3, <1>6 DEF Value

(* from_chars and to_string, of the API and --api-port, and of the         *)
(* repository, which have another largest int.                             *)
LEMMA IntegerFromChars ==
  ASSUME NEW X, NEW s \in Seq(X)
  PROVE  Integer!FromChars(s) = Read(s, Integer!IntValues)
  <1>1. Integer!DigitsBegin(s) = Begin(s)
    BY DEF Integer!DigitsBegin, Begin
  <1>2. Integer!DigitsEnd(s) = End(s)
    BY DEF Integer!DigitsEnd, Integer!DigitsBegin, Integer!IsDigit, Integer!Digits,
           End, Begin, IsEnd, DigitSet, Digits
  <1> DEFINE d == SubSeq(s, Integer!DigitsBegin(s), Integer!DigitsEnd(s))
             signed == IF Integer!DigitsBegin(s) = 2 THEN -Loop(d) ELSE Loop(d)
  <1>3. Integer!FromChars(s) =
          IF Integer!DigitsEnd(s) < Integer!DigitsBegin(s)
          THEN [ok |-> FALSE, value |-> 0, used |-> 0]
          ELSE [ok |-> signed \in Integer!IntValues, value |-> signed, used |-> Integer!DigitsEnd(s)]
    BY DEF Integer!FromChars, Integer!DigitValue, Integer!Digits, Loop, ValueOf, Digits
  <1>4. signed = Signed(s)
    BY <1>1, <1>2, DigitsOfType, LoopIsValue, Zenon DEF DigitsOf, Signed
  <1> HIDE DEF signed
  <1> QED BY <1>1, <1>2, <1>3, <1>4 DEF Read

(* The same for the repository.                                            *)
LEMMA RowFromChars ==
  ASSUME NEW X, NEW s \in Seq(X)
  PROVE  Row!FromChars(s) = Read(s, Row!IntValues)
  <1>1. Row!DigitsBegin(s) = Begin(s)
    BY DEF Row!DigitsBegin, Begin
  <1>2. Row!DigitsEnd(s) = End(s)
    BY DEF Row!DigitsEnd, Row!DigitsBegin, Row!IsDigit, Row!Digits,
           End, Begin, IsEnd, DigitSet, Digits
  <1> DEFINE d == SubSeq(s, Row!DigitsBegin(s), Row!DigitsEnd(s))
             signed == IF Row!DigitsBegin(s) = 2 THEN -Loop(d) ELSE Loop(d)
  <1>3. Row!FromChars(s) =
          IF Row!DigitsEnd(s) < Row!DigitsBegin(s)
          THEN [ok |-> FALSE, value |-> 0, used |-> 0]
          ELSE [ok |-> signed \in Row!IntValues, value |-> signed, used |-> Row!DigitsEnd(s)]
    BY DEF Row!FromChars, Row!DigitValue, Row!Digits, Loop, ValueOf, Digits
  <1>4. signed = Signed(s)
    BY <1>1, <1>2, DigitsOfType, LoopIsValue, Zenon DEF DigitsOf, Signed
  <1> HIDE DEF signed
  <1> QED BY <1>1, <1>2, <1>3, <1>4 DEF Read

(* What to_string writes.                                                  *)
Written(n) ==
  LET numeral[k \in Nat] == IF k < 10 THEN <<Digits[k + 1]>>
                            ELSE Append(numeral[k \div 10], Digits[(k % 10) + 1])
  IN IF n < 0 THEN <<"-">> \o numeral[-n] ELSE numeral[n]

(* What to_string writes is a numeral, behind a minus sign if need be.     *)
LEMMA WrittenIsNumeral ==
  \A n \in Int : Written(n) = IF n < 0 THEN <<"-">> \o Numeral[-n] ELSE Numeral[n]
  <1> DEFINE right(g) == [k \in Nat |-> IF k < 10 THEN <<Digits[k + 1]>>
                            ELSE Append(g[k \div 10], Digits[(k % 10) + 1])]
             numeral == CHOOSE g : g = right(g)
  <1>1. \A n \in Int : Written(n) = IF n < 0 THEN <<"-">> \o numeral[-n] ELSE numeral[n]
    BY DEF Written
  <1>2. \A k : Digits[k + 1] = DigitOf(k)
    BY DEF DigitOf
  <1>3. numeral = right(numeral)
    BY NumeralStep, <1>2, Zenon
  <1> HIDE DEF numeral
  <1>4. IsNumeralOf(numeral)
    BY <1>2, <1>3 DEF IsNumeralOf
  <1>5. \A n \in Int : (n < 0 => -n \in Nat) /\ (~ (n < 0) => n \in Nat)
    OBVIOUS
  <1> QED BY <1>1, <1>4, <1>5, NumeralUnique

(* It is what the API writes.                                              *)
LEMMA IntegerToChars == \A n \in Int : Integer!ToChars(n) = Written(n)
  BY DEF Integer!ToChars, Integer!Digits, Written, Digits

(* It is what the repository writes.                                       *)
LEMMA RowToChars == \A n \in Int : Row!ToChars(n) = Written(n)
  BY DEF Row!ToChars, Row!Digits, Written, Digits

-----------------------------------------------------------------------------
(* Integers: what is written is read                                       *)

(* Numerals with a sign.                                                   *)
Minus == <<"-">>
NumeralChars == DigitSet \cup {"-"}

(* A text that is digits, or a minus sign and digits. *)
LEMMA ReadDigits ==
  ASSUME NEW d \in Seq(DigitSet), d # <<>>
  PROVE  /\ Begin(d) = 1 /\ End(d) = Len(d) /\ DigitsOf(d) = d
         /\ Begin(Minus \o d) = 2 /\ End(Minus \o d) = Len(d) + 1 /\ DigitsOf(Minus \o d) = d
  <1>1. d \in Seq(NumeralChars) /\ Minus \o d \in Seq(NumeralChars) /\ Len(d) \in Nat \ {0}
        /\ Len(Minus \o d) = Len(d) + 1 /\ (Minus \o d)[1] = "-"
        /\ (\A i \in 1..Len(d) : (Minus \o d)[i + 1] = d[i] /\ d[i] \in DigitSet)
        /\ "-" \notin DigitSet
    BY DigitFacts DEF Minus, NumeralChars
  <1> DEFINE s == Minus \o d
  <1>2. Begin(d) = 1 /\ End(d) = Len(d)
    BY <1>1, EndIs DEF Begin, IsEnd
  <1>3. DigitsOf(d) = d
    <2>1. \A i \in 1..Len(DigitsOf(d)) : DigitsOf(d)[i] = d[Begin(d) + i - 1]
      BY <1>1, DigitsOfType
    <2>2. DigitsOf(d) \in Seq(DigitSet) /\ Len(DigitsOf(d)) = Len(d)
      BY <1>1, <1>2, DigitsOfType
    <2>3. \A i \in 1..Len(d) : DigitsOf(d)[i] = d[i]
      BY <1>2, <2>1, <2>2
    <2> QED BY <2>2, <2>3, SeqEqual
  <1>4. Begin(s) = 2 /\ End(s) = Len(d) + 1
    <2> HIDE DEF s
    <2>1. Begin(s) = 2
      BY <1>1 DEF Begin, s
    <2>2. IsEnd(s, Len(d) + 1)
      BY <1>1, <2>1 DEF s, IsEnd
    <2>3. s \in Seq(NumeralChars) /\ Len(d) + 1 \in Begin(s) - 1 .. Len(s)
      BY <1>1, <2>1 DEF s
    <2> QED BY <2>1, <2>2, <2>3, EndIs
  <1>5. DigitsOf(s) = d
    <2> HIDE DEF s
    <2>0. s \in Seq(NumeralChars)
      BY <1>1 DEF s
    <2>1. \A i \in 1..Len(DigitsOf(s)) : DigitsOf(s)[i] = s[Begin(s) + i - 1]
      BY <2>0, DigitsOfType
    <2>2. DigitsOf(s) \in Seq(DigitSet) /\ Len(DigitsOf(s)) = Len(d)
      BY <1>1, <1>4, <2>0, DigitsOfType
    <2>3. \A i \in 1..Len(d) : DigitsOf(s)[i] = d[i]
      <3> SUFFICES ASSUME NEW i \in 1..Len(d) PROVE DigitsOf(s)[i] = d[i]
        OBVIOUS
      <3>1. Begin(s) + i - 1 = i + 1
        BY <1>4
      <3>2. s[i + 1] = d[i]
        BY <1>1 DEF s
      <3> QED BY <2>1, <2>2, <3>1, <3>2
    <2> QED BY <2>2, <2>3, SeqEqual
  <1> QED BY <1>2, <1>3, <1>4, <1>5

(* And where there are digits, the text up to their end is one. *)
Front(s) == SubSeq(s, 1, End(s))

(* Where a text has digits, it is digits up to their end, or a minus sign  *)
(* and digits.                                                             *)
LEMMA FrontIs ==
  ASSUME NEW X, NEW s \in Seq(X), Begin(s) <= End(s)
  PROVE  /\ DigitsOf(s) \in Seq(DigitSet) /\ DigitsOf(s) # <<>>
         /\ Front(s) = IF Begin(s) = 2 THEN Minus \o DigitsOf(s) ELSE DigitsOf(s)
  <1>1. /\ Len(s) \in Nat /\ Begin(s) \in {1, 2} /\ End(s) \in Begin(s) - 1 .. Len(s)
        /\ Begin(s) = 2 => s[1] = "-"
    BY EndIs DEF Begin
  <1> DEFINE d == DigitsOf(s)
             f == Front(s)
  <1>2. /\ d \in Seq(DigitSet) /\ Len(d) = End(s) - Begin(s) + 1
        /\ \A i \in 1..Len(d) : d[i] = s[Begin(s) + i - 1]
    BY DigitsOfType
  <1>3. f \in Seq(X) /\ Len(f) = End(s) /\ \A i \in 1..End(s) : f[i] = s[i]
    BY <1>1, SubSeqProperties DEF Front
  <1> HIDE DEF d, f
  <1>4. CASE Begin(s) = 2
    <2> DEFINE m == Minus \o d
               A == X \cup NumeralChars
    <2>1. m \in Seq(A) /\ Len(m) = Len(d) + 1 /\ m[1] = "-" /\ \A i \in 1..Len(d) : m[i + 1] = d[i]
      BY <1>2 DEF Minus, NumeralChars
    <2>2. f \in Seq(A) /\ Len(f) = Len(m)
      BY <1>1, <1>2, <1>3, <1>4, <2>1
    <2>3. ASSUME NEW j \in 1..Len(f) PROVE f[j] = m[j]
      <3>1. CASE j = 1
        BY <1>1, <1>3, <1>4, <2>1, <3>1
      <3>2. CASE j # 1
        <4> DEFINE i == j - 1
        <4>1. i \in 1..Len(d) /\ i + 1 = j /\ Begin(s) + i - 1 = j
          BY <1>1, <1>2, <1>3, <1>4, <3>2
        <4> HIDE DEF i, m
        <4>2. m[i + 1] = d[i] /\ d[i] = s[Begin(s) + i - 1]
          BY <1>2, <2>1, <4>1
        <4>3. f[j] = s[j]
          BY <1>3
        <4> QED BY <4>1, <4>2, <4>3
      <3> QED BY <3>1, <3>2
    <2> HIDE DEF m, A
    <2>4. f = m
      BY <2>1, <2>2, <2>3, SeqEqual
    <2> QED BY <1>1, <1>2, <1>4, <2>4 DEF m, d, f
  <1>5. CASE Begin(s) = 1
    <2> DEFINE A == X \cup DigitSet
    <2>1. f \in Seq(A) /\ d \in Seq(A) /\ Len(f) = Len(d)
      BY <1>1, <1>2, <1>3, <1>5
    <2>2. ASSUME NEW i \in 1..Len(f) PROVE f[i] = d[i]
      BY <1>1, <1>3, <1>5, <2>1, <1>2
    <2> HIDE DEF A
    <2>3. f = d
      BY <2>1, <2>2, SeqEqual
    <2> QED BY <1>1, <1>2, <1>5, <2>3 DEF d, f
  <1> QED BY <1>1, <1>4, <1>5

(* What to_string writes is read back. *)
LEMMA WrittenIsRead ==
  ASSUME NEW n \in Int
  PROVE  /\ Written(n) \in Seq(NumeralChars) /\ Written(n) # <<>>
         /\ Begin(Written(n)) <= End(Written(n)) /\ End(Written(n)) = Len(Written(n))
         /\ Signed(Written(n)) = n
  <1>1. CASE n < 0
    <2> DEFINE d == Numeral[-n]
    <2>1. -n \in Nat /\ -(-n) = n
      BY <1>1
    <2>2. d \in Seq(DigitSet) /\ d # <<>> /\ Value(d) = -n /\ Written(n) = Minus \o d
      BY <1>1, <2>1, NumeralFacts, ValueOfNumeral, WrittenIsNumeral DEF Minus
    <2> HIDE DEF d
    <2>3. Begin(Minus \o d) = 2 /\ End(Minus \o d) = Len(d) + 1 /\ DigitsOf(Minus \o d) = d
      BY <2>2, ReadDigits
    <2>4. Len(d) \in Nat \ {0} /\ Minus \o d \in Seq(NumeralChars) /\ Len(Minus \o d) = Len(d) + 1
          /\ Minus \o d # <<>>
      BY <2>2 DEF Minus, NumeralChars
    <2>5. Signed(Minus \o d) = n
      BY <2>1, <2>2, <2>3 DEF Signed
    <2> QED BY <2>2, <2>3, <2>4, <2>5
  <1>2. CASE ~ (n < 0)
    <2> DEFINE d == Numeral[n]
    <2>2. d \in Seq(DigitSet) /\ d # <<>> /\ Value(d) = n /\ Written(n) = d
      BY <1>2, NumeralFacts, ValueOfNumeral, WrittenIsNumeral
    <2> HIDE DEF d
    <2>3. Begin(d) = 1 /\ End(d) = Len(d) /\ DigitsOf(d) = d
      BY <2>2, ReadDigits
    <2>4. Len(d) \in Nat \ {0} /\ d \in Seq(NumeralChars)
      BY <2>2 DEF NumeralChars
    <2>5. Signed(d) = n
      BY <2>2, <2>3 DEF Signed
    <2> QED BY <2>2, <2>3, <2>4, <2>5
  <1> QED BY <1>1, <1>2

-----------------------------------------------------------------------------
(* IntegerInput: the repository and --api-port                             *)

(* The numerals of n are the texts that from_chars reads to their end, as n. *)
LEMMA NumeralIff ==
  ASSUME MaxLength \in Nat, NEW X, NEW s \in Seq(X), Len(s) <= MaxLength, NEW n \in Int
  PROVE  Integer!IsNumeral(s, n) <=>
           Begin(s) <= End(s) /\ End(s) = Len(s) /\ Signed(s) = n
  <1> DEFINE Form(z) == \/ n >= 0 /\ s = Padding(z) \o Numeral[n]
                        \/ n <= 0 /\ s = Minus \o (Padding(z) \o Numeral[-n])
  <1>1. Integer!IsNumeral(s, n) <=> \E z \in 0..MaxLength : Form(z)
    <2>1. \A z \in Nat : (Minus \o Padding(z)) \o Numeral[-n] = Minus \o (Padding(z) \o Numeral[-n])
          \/ ~ n <= 0
      <3> SUFFICES ASSUME NEW z \in Nat, n <= 0
                   PROVE (Minus \o Padding(z)) \o Numeral[-n] = Minus \o (Padding(z) \o Numeral[-n])
        OBVIOUS
      <3> DEFINE p == Padding(z)
                 m == Numeral[-n]
      <3>1. -n \in Nat
        OBVIOUS
      <3>a. p \in Seq(DigitSet)
        BY PaddingFacts
      <3>b. m \in Seq(DigitSet)
        BY <3>1, NumeralFacts
      <3> HIDE DEF p, m
      <3>c. DigitSet \subseteq NumeralChars /\ "-" \in NumeralChars
        BY DEF NumeralChars
      <3>2. p \in Seq(NumeralChars) /\ m \in Seq(NumeralChars) /\ Minus \in Seq(NumeralChars)
        BY <3>a, <3>b, <3>c DEF Minus
      <3>3. (Minus \o p) \o m = Minus \o (p \o m)
        BY <3>2, ConcatAssociative, SMTT(30)
      <3> QED BY <3>3 DEF p, m
    <2>2. n >= 0 => Integer!ToChars(n) = Numeral[n]
      BY IntegerToChars, WrittenIsNumeral
    <2>3. n <= 0 => Integer!ToChars(-n) = Numeral[-n]
      BY IntegerToChars, WrittenIsNumeral
    <2>4. Integer!IsNumeral(s, n) <=>
            \E z \in 0..MaxLength :
              \/ n >= 0 /\ s = Padding(z) \o Integer!ToChars(n)
              \/ n <= 0 /\ s = (Minus \o Padding(z)) \o Integer!ToChars(-n)
      BY DEF Integer!IsNumeral, Padding, Minus
    <2>5. ASSUME NEW z \in 0..MaxLength
          PROVE (\/ n >= 0 /\ s = Padding(z) \o Integer!ToChars(n)
                 \/ n <= 0 /\ s = (Minus \o Padding(z)) \o Integer!ToChars(-n)) <=> Form(z)
      <3>0. z \in Nat
        OBVIOUS
      <3>1. (n >= 0 /\ s = Padding(z) \o Integer!ToChars(n)) <=> (n >= 0 /\ s = Padding(z) \o Numeral[n])
        BY <2>2, Zenon
      <3>2. (n <= 0 /\ s = (Minus \o Padding(z)) \o Integer!ToChars(-n))
              <=> (n <= 0 /\ s = Minus \o (Padding(z) \o Numeral[-n]))
        BY <2>1, <2>3, <3>0, Zenon
      <3> QED BY <3>1, <3>2, Zenon
    <2> QED BY <2>4, <2>5, Zenon
  <1>2. ASSUME NEW z \in 0..MaxLength, Form(z)
        PROVE  Begin(s) <= End(s) /\ End(s) = Len(s) /\ Signed(s) = n
    <2> DEFINE k == IF n >= 0 THEN n ELSE -n
    <2>1. \A j \in Nat : /\ Padding(z) \o Numeral[j] \in Seq(DigitSet)
                         /\ Padding(z) \o Numeral[j] # <<>>
                         /\ Value(Padding(z) \o Numeral[j]) = j
      <3> SUFFICES ASSUME NEW j \in Nat
                   PROVE /\ Padding(z) \o Numeral[j] \in Seq(DigitSet)
                         /\ Padding(z) \o Numeral[j] # <<>>
                         /\ Value(Padding(z) \o Numeral[j]) = j
        OBVIOUS
      <3> DEFINE p == Padding(z)
                 m == Numeral[j]
      <3>0. z \in Nat
        OBVIOUS
      <3>a. p \in Seq(DigitSet)
        BY <3>0, PaddingFacts
      <3>b. m \in Seq(DigitSet) /\ m # <<>>
        BY NumeralFacts
      <3>1. p \in Seq(DigitSet) /\ m \in Seq(DigitSet) /\ m # <<>> /\ z \in Nat
        BY <3>0, <3>a, <3>b
      <3>2. Value(p \o m) = j
        BY <3>1, ValueOfPadded, ValueOfNumeral
      <3> HIDE DEF p, m
      <3>3. p \o m \in Seq(DigitSet) /\ p \o m # <<>>
        BY <3>1
      <3> QED BY <3>2, <3>3 DEF p, m
    <2>2. CASE n >= 0 /\ s = Padding(z) \o Numeral[n]
      <3>1. s \in Seq(DigitSet) /\ s # <<>> /\ Value(s) = n
        BY <2>1, <2>2
      <3>2. Begin(s) = 1 /\ End(s) = Len(s) /\ DigitsOf(s) = s
        BY <3>1, ReadDigits
      <3>3. Len(s) >= 1
        BY <3>1
      <3> QED BY <3>1, <3>2, <3>3 DEF Signed
    <2>3. CASE n <= 0 /\ s = Minus \o (Padding(z) \o Numeral[-n])
      <3> DEFINE d == Padding(z) \o Numeral[-n]
      <3>0. -n \in Nat /\ -(-n) = n
        BY <2>3
      <3>1. d \in Seq(DigitSet) /\ d # <<>> /\ Value(d) = -n
        BY <2>1, <3>0
      <3>2. s = Minus \o d
        BY <2>3
      <3> HIDE DEF d
      <3>3. Begin(s) = 2 /\ End(s) = Len(d) + 1 /\ DigitsOf(s) = d
        BY <3>1, <3>2, ReadDigits
      <3>4. Len(d) >= 1 /\ Len(d) \in Nat /\ Len(s) = Len(d) + 1
        BY <3>1, <3>2 DEF Minus
      <3> QED BY <3>0, <3>1, <3>3, <3>4 DEF Signed
    <2> QED BY <1>2, <2>2, <2>3
  <1>3. ASSUME Begin(s) <= End(s), End(s) = Len(s), Signed(s) = n
        PROVE  \E z \in 0..MaxLength : Form(z)
    <2> DEFINE d == DigitsOf(s)
    <2>1. d \in Seq(DigitSet) /\ d # <<>> /\ s = IF Begin(s) = 2 THEN Minus \o d ELSE d
      BY <1>3, SubSeqFull, FrontIs, Zenon DEF Front
    <2>2. Signed(s) = IF Begin(s) = 2 THEN -Value(d) ELSE Value(d)
      BY DEF Signed
    <2> HIDE DEF d
    <2>3. Value(d) \in Nat
      BY <2>1, ValueFacts
    <2>4. PICK z \in Nat : d = Padding(z) \o Numeral[Value(d)]
      BY <2>1, DigitsAreNumeral
    <2>5. z \in 0..MaxLength
      <3> DEFINE p == Padding(z)
                 m == Numeral[Value(d)]
      <3>1. p \in Seq(DigitSet) /\ Len(p) = z /\ m \in Seq(DigitSet)
        BY <2>3, PaddingFacts, NumeralFacts
      <3>2. d = p \o m
        BY <2>4
      <3> HIDE DEF p, m
      <3>3. Len(d) >= z
        BY <3>1, <3>2
      <3>4. Len(s) >= Len(d) /\ Len(s) \in Nat /\ Len(d) \in Nat
        BY <2>1 DEF Minus
      <3> QED BY <3>3, <3>4
    <2>6. CASE Begin(s) = 2
      <3>1. n = -Value(d) /\ -n = Value(d) /\ n <= 0
        BY <1>3, <2>2, <2>3, <2>6
      <3>2. s = Minus \o (Padding(z) \o Numeral[-n])
        BY <2>1, <2>4, <2>6, <3>1
      <3> QED BY <2>5, <3>1, <3>2
    <2>7. CASE Begin(s) # 2
      <3>1. n = Value(d) /\ n >= 0
        BY <1>3, <2>2, <2>3, <2>7
      <3>2. s = Padding(z) \o Numeral[n]
        BY <2>1, <2>4, <2>7, <3>1
      <3> QED BY <2>5, <3>1, <3>2
    <2> QED BY <2>6, <2>7
  <1> QED BY <1>1, <1>2, <1>3

(* What is read is an integer.                                             *)
LEMMA SignedType ==
  ASSUME NEW X, NEW s \in Seq(X) PROVE Signed(s) \in Int /\ End(s) \in Nat /\ Begin(s) \in {1, 2}
  <1>1. Value(DigitsOf(s)) \in Nat
    BY DigitsOfType, ValueFacts
  <1>2. End(s) \in Nat /\ Begin(s) \in {1, 2}
    BY EndIs DEF Begin
  <1> QED BY <1>1, <1>2 DEF Signed

(* What the three parsers accept, and as which value. *)
LEMMA ParseIntValueIs ==
  ASSUME NEW X, NEW s \in Seq(X)
  PROVE  Integer!ParseIntValue(s) =
           IF Begin(s) <= End(s) /\ End(s) = Len(s) /\ Signed(s) \in Integer!IntValues
           THEN Integer!Number(Signed(s)) ELSE Integer!Error
  <1>1. Integer!FromChars(s) = Read(s, Integer!IntValues)
    BY IntegerFromChars
  <1>2. End(s) \in Nat /\ Begin(s) \in {1, 2} /\ Len(s) \in Nat
    BY SignedType
  <1>3. CASE End(s) < Begin(s)
    BY <1>3, <1>1, <1>2 DEF Read, Integer!ParseIntValue
  <1>4. CASE ~ (End(s) < Begin(s))
    <2>1. /\ Read(s, Integer!IntValues).ok = (Signed(s) \in Integer!IntValues)
          /\ Read(s, Integer!IntValues).value = Signed(s)
          /\ Read(s, Integer!IntValues).used = End(s)
      BY <1>4 DEF Read
    <2>2. End(s) = Len(s) => s # <<>>
      BY <1>2, <1>4
    <2>3. Begin(s) <= End(s)
      BY <1>2, <1>4
    <2> QED BY <1>1, <2>1, <2>2, <2>3 DEF Integer!ParseIntValue
  <1> QED BY <1>3, <1>4

(* The same for --api-port.                                                *)
LEMMA ParseApiPortIs ==
  ASSUME NEW X, NEW s \in Seq(X)
  PROVE  Integer!ParseApiPort(s) =
           IF /\ Begin(s) <= End(s) /\ End(s) = Len(s) /\ Signed(s) \in Integer!IntValues
              /\ Signed(s) \in 0..SmallPort
           THEN Integer!Number(Signed(s)) ELSE Integer!Error
  <1>1. Integer!FromChars(s) = Read(s, Integer!IntValues)
    BY IntegerFromChars
  <1>2. End(s) \in Nat /\ Begin(s) \in {1, 2} /\ Len(s) \in Nat
    BY SignedType
  <1>3. CASE End(s) < Begin(s)
    BY <1>3, <1>1, <1>2 DEF Read, Integer!ParseApiPort
  <1>4. CASE ~ (End(s) < Begin(s))
    <2>1. /\ Read(s, Integer!IntValues).ok = (Signed(s) \in Integer!IntValues)
          /\ Read(s, Integer!IntValues).value = Signed(s)
          /\ Read(s, Integer!IntValues).used = End(s)
      BY <1>4 DEF Read
    <2>2. End(s) = Len(s) => s # <<>>
      BY <1>2, <1>4
    <2>3. Begin(s) <= End(s)
      BY <1>2, <1>4
    <2> QED BY <1>1, <2>1, <2>2, <2>3 DEF Integer!ParseApiPort
  <1> QED BY <1>3, <1>4

(* The text is at most as long as the model lets it be. *)
IntegerInv ==
  subject = "integer" => text \in Seq(Alphabet) /\ Len(text) <= MaxLength

(* The repository and --api-port take exactly the numerals they are to     *)
(* take.                                                                   *)
LEMMA StoredAndPort ==
  ASSUME IntegerInv, subject = "integer"
  PROVE  Integer!StoredIntegerExact /\ Integer!PortExact
  <1>1. /\ MaxLength \in Nat /\ SmallInt \in Nat /\ SmallPort \in Nat /\ SmallPort < SmallInt
        /\ text \in Seq(Alphabet) /\ Len(text) <= MaxLength
    BY ConversionsAssumption
       DEF IntegerInv, Integer!IntegerInputAssumption, Integer!IntegerTextAssumption
  <1> DEFINE whole == Begin(text) <= End(text) /\ End(text) = Len(text)
  <1>2. \A n \in Int : Integer!IsNumeral(text, n) <=> whole /\ Signed(text) = n
    BY <1>1, NumeralIff
  <1>3. Integer!IntValues \subseteq Int /\ 0..SmallPort \subseteq Integer!IntValues
    BY <1>1 DEF Integer!IntValues
  <1>4. Signed(text) \in Int
    BY <1>1, SignedType
  <1> HIDE DEF whole
  <1>5. Integer!ParseIntValue(text) =
           IF whole /\ Signed(text) \in Integer!IntValues
           THEN Integer!Number(Signed(text)) ELSE Integer!Error
    BY <1>1, ParseIntValueIs DEF whole
  <1>6. Integer!ParseApiPort(text) =
           IF whole /\ Signed(text) \in Integer!IntValues /\ Signed(text) \in 0..SmallPort
           THEN Integer!Number(Signed(text)) ELSE Integer!Error
    BY <1>1, ParseApiPortIs DEF whole
  <1>7. \A v : Integer!Number(v).ok = TRUE /\ Integer!Number(v).value = v /\ Integer!Error.ok = FALSE
    BY DEF Integer!Number, Integer!Error
  <1>8. Integer!StoredIntegerExact
    BY <1>2, <1>3, <1>4, <1>5, <1>7 DEF Integer!StoredIntegerExact
  <1>9. Integer!PortExact
    BY <1>2, <1>3, <1>4, <1>6, <1>7 DEF Integer!PortExact
  <1> QED BY <1>8, <1>9

-----------------------------------------------------------------------------
(* IntegerInput: JSON                                                      *)

(* The text up to the end of the digits reads as the whole does. *)
LEMMA FrontReads ==
  ASSUME NEW X, NEW s \in Seq(X), Begin(s) <= End(s)
  PROVE  /\ Front(s) \in Seq(X) /\ Len(Front(s)) = End(s) /\ \A i \in 1..End(s) : Front(s)[i] = s[i]
         /\ Begin(Front(s)) = Begin(s) /\ End(Front(s)) = End(s)
         /\ Signed(Front(s)) = Signed(s)
  <1>1. /\ Len(s) \in Nat /\ Begin(s) \in {1, 2} /\ End(s) \in Begin(s) - 1 .. Len(s)
    BY EndIs DEF Begin
  <1> DEFINE f == Front(s)
             d == DigitsOf(s)
             e == End(s)
  <1>2. f \in Seq(X) /\ Len(f) = End(s) /\ \A i \in 1..End(s) : f[i] = s[i]
    BY <1>1, SubSeqProperties DEF Front, e
  <1>3. d \in Seq(DigitSet) /\ d # <<>> /\ Len(d) = End(s) - Begin(s) + 1
        /\ f = IF Begin(s) = 2 THEN Minus \o d ELSE d
    BY FrontIs, DigitsOfType
  <1> HIDE DEF d, f
  <1>4. Begin(f) = Begin(s) /\ End(f) = End(s) /\ DigitsOf(f) = d
    BY <1>3, ReadDigits, <1>1
  <1>5. Signed(f) = Signed(s)
    BY <1>4 DEF Signed, d
  <1> QED BY <1>2, <1>4, <1>5 DEF f

(* JSON takes the digits as far as they go, unless there are more behind a 0. *)
Whole(s) == Begin(s) <= End(s) /\ (s[Begin(s)] = "0" => End(s) = Begin(s))

(* What JSON accepts, as which value, and how much of the text it takes.   *)
LEMMA ParseIntegerIs ==
  ASSUME SmallInt \in Nat, NEW X, NEW s \in Seq(X)
  PROVE  Integer!ParseInteger(s) =
           IF Whole(s) /\ Signed(s) \in Integer!IntValues
           THEN [ok |-> TRUE, value |-> Signed(s), used |-> End(s)] ELSE Integer!Error
  <1>1. /\ Len(s) \in Nat /\ Begin(s) \in {1, 2} /\ End(s) \in Begin(s) - 1 .. Len(s)
        /\ IsEnd(s, End(s))
    BY EndIs DEF Begin
  <1>2. Integer!DigitsBegin(s) = Begin(s)
    BY DEF Integer!DigitsBegin, Begin
  <1>3. Integer!DigitsEnd(s) = End(s)
    BY <1>2 DEF Integer!DigitsEnd, Integer!IsDigit, Integer!Digits,
           End, IsEnd, DigitSet, Digits
  <1>4. \A ch : Integer!IsDigit(ch) <=> ch \in DigitSet
    BY DEF Integer!IsDigit, Integer!Digits, DigitSet, Digits
  <1> DEFINE zero == Begin(s) <= Len(s) /\ s[Begin(s)] = "0"
             end == IF zero THEN Begin(s) ELSE End(s)
             result == Integer!FromChars(SubSeq(s, 1, end))
  <1>5. Integer!ParseInteger(s) =
          IF \/ end < Begin(s)
             \/ zero /\ Begin(s) < Len(s) /\ s[Begin(s) + 1] \in DigitSet
             \/ ~ result.ok \/ result.used # end
          THEN Integer!Error
          ELSE [ok |-> TRUE, value |-> result.value, used |-> end]
    BY <1>2, <1>3, <1>4 DEF Integer!ParseInteger
  <1>6. CASE End(s) < Begin(s)
    BY <1>1, <1>6, DigitFacts, <1>5 DEF IsEnd, Whole
  <1>7. CASE Begin(s) <= End(s) /\ zero /\ End(s) # Begin(s)
    BY <1>1, <1>7, <1>5 DEF IsEnd, Whole
  <1>8. CASE Begin(s) <= End(s) /\ (zero => End(s) = Begin(s))
    <2>1. end = End(s) /\ Whole(s) /\ ~ (end < Begin(s))
      BY <1>1, <1>8 DEF Whole
    <2>2. ~ (zero /\ Begin(s) < Len(s) /\ s[Begin(s) + 1] \in DigitSet)
      BY <1>1, <1>8 DEF IsEnd
    <2>3. result = Read(Front(s), Integer!IntValues)
      <3>1. Front(s) \in Seq(X)
        BY <1>8, FrontReads
      <3>2. Integer!FromChars(Front(s)) = Read(Front(s), Integer!IntValues)
        BY <3>1, IntegerFromChars
      <3> QED BY <2>1, <3>2 DEF Front
    <2>4. /\ Begin(Front(s)) = Begin(s) /\ End(Front(s)) = End(s)
          /\ Signed(Front(s)) = Signed(s)
      BY <1>8, FrontReads
    <2> HIDE DEF result, end, zero
    <2>5. result = [ok |-> Signed(s) \in Integer!IntValues, value |-> Signed(s), used |-> End(s)]
      BY <1>1, <1>8, <2>4, <2>3 DEF Read
    <2>6. result.ok = (Signed(s) \in Integer!IntValues) /\ result.value = Signed(s) /\ result.used = End(s)
      BY <2>5
    <2> QED BY <1>5, <2>1, <2>2, <2>6
  <1>9. Begin(s) <= End(s) \/ End(s) < Begin(s)
    BY <1>1
  <1> QED BY <1>6, <1>7, <1>8, <1>9

(* The texts that to_string writes, and -0. *)
Canonical(t, n) == t = Integer!ToChars(n) \/ (n = 0 /\ t = <<"-", "0">>)

(* How -0 is written.                                                      *)
LEMMA MinusZero == Minus \o <<"0">> = <<"-", "0">>
  <1> DEFINE a == Minus \o <<"0">>
             b == <<"-", "0">>
             S == {"-", "0"}
  <1>1. a \in Seq(S) /\ Len(a) = 2 /\ a[1] = "-" /\ a[2] = "0"
    BY DEF Minus
  <1>2. b \in Seq(S) /\ Len(b) = 2 /\ b[1] = "-" /\ b[2] = "0"
    OBVIOUS
  <1> HIDE DEF a, b
  <1>3. \A i \in 1..2 : a[i] = b[i]
    BY <1>1, <1>2
  <1> HIDE DEF S
  <1>4. a = b
    BY <1>1, <1>2, <1>3, SeqEqual
  <1> QED BY <1>4 DEF a, b

(* They are the texts that JSON accepts whole.                             *)
LEMMA CanonicalIff ==
  ASSUME SmallInt \in Nat, NEW X, NEW t \in Seq(X)
  PROVE  (\E n \in Integer!IntValues : Canonical(t, n))
           <=> Whole(t) /\ End(t) = Len(t) /\ Signed(t) \in Integer!IntValues
  <1>0. Integer!IntValues \subseteq Int
    BY DEF Integer!IntValues
  <1>1. ASSUME NEW n \in Integer!IntValues, t = Integer!ToChars(n)
        PROVE  Whole(t) /\ End(t) = Len(t) /\ Signed(t) \in Integer!IntValues
    <2>1. n \in Int /\ t = Written(n)
      BY <1>0, <1>1, IntegerToChars
    <2>2. Begin(t) <= End(t) /\ End(t) = Len(t) /\ Signed(t) = n
      BY <2>1, WrittenIsRead
    <2>3. t[Begin(t)] = "0" => End(t) = Begin(t)
      <3>1. CASE n < 0
        <4> DEFINE d == Numeral[-n]
        <4>1. -n \in Nat /\ -n # 0
          BY <2>1, <3>1
        <4>2. d \in Seq(DigitSet) /\ d # <<>> /\ d[1] # "0" /\ t = Minus \o d
          BY <2>1, <3>1, <4>1, NumeralFacts, WrittenIsNumeral DEF Minus
        <4> HIDE DEF d
        <4>3. Begin(t) = 2
          BY <4>2, ReadDigits
        <4>4. t[2] = d[1]
          BY <4>2 DEF Minus
        <4> QED BY <4>2, <4>3, <4>4
      <3>2. CASE ~ (n < 0)
        <4> DEFINE d == Numeral[n]
        <4>1. n \in Nat
          BY <2>1, <3>2
        <4>2. d \in Seq(DigitSet) /\ d # <<>> /\ (d[1] = "0" => Len(d) = 1) /\ t = d
          BY <2>1, <3>2, <4>1, NumeralFacts, WrittenIsNumeral
        <4> HIDE DEF d
        <4>3. Begin(t) = 1 /\ End(t) = Len(t)
          BY <4>2, ReadDigits
        <4> QED BY <4>2, <4>3
      <3> QED BY <3>1, <3>2
    <2> QED BY <2>2, <2>3 DEF Whole
  <1>2. ASSUME 0 \in Integer!IntValues, t = <<"-", "0">>
        PROVE  Whole(t) /\ End(t) = Len(t) /\ Signed(t) \in Integer!IntValues
    <2> DEFINE d == <<"0">>
    <2>1. d \in Seq(DigitSet) /\ d # <<>> /\ Len(d) = 1 /\ Value(d) = 0 /\ t = Minus \o d
      <3>1. "0" \in DigitSet /\ ValueOf("0") = 0
        BY DigitFacts
      <3>2. Value(d) = 0
        BY <3>1, OneDigit
      <3>3. t = Minus \o d
        BY <1>2, MinusZero, Zenon
      <3>4. d \in Seq(DigitSet) /\ d # <<>> /\ Len(d) = 1
        BY <3>1
      <3> QED BY <3>2, <3>3, <3>4
    <2> HIDE DEF d
    <2>2. Begin(t) = 2 /\ End(t) = 2 /\ DigitsOf(t) = d
      <3>0. d \in Seq(DigitSet) /\ d # <<>>
        BY <2>1
      <3>1. Begin(Minus \o d) = 2 /\ End(Minus \o d) = Len(d) + 1 /\ DigitsOf(Minus \o d) = d
        BY <3>0, ReadDigits
      <3>2. Len(d) + 1 = 2
        BY <2>1
      <3>3. Value(d) \in Int /\ Value(d) >= 0 /\ Value(d) <= 0
        BY <2>1
      <3> QED BY <2>1, <3>1, <3>2, <3>3, Zenon
    <2>3. Len(t) = 2
      BY <1>2
    <2>4. Signed(t) = 0
      <3>1. Signed(t) = -Value(d)
        BY <2>2 DEF Signed
      <3>2. \A v \in Int : v >= 0 /\ v <= 0 => -v = 0
        OBVIOUS
      <3>3. Value(d) \in Int /\ Value(d) >= 0 /\ Value(d) <= 0
        BY <2>1
      <3> QED BY <2>1, <3>1, <3>2, <3>3, Zenon
    <2> QED BY <1>2, <2>2, <2>3, <2>4 DEF Whole
  <1>3. ASSUME Whole(t), End(t) = Len(t), Signed(t) \in Integer!IntValues
        PROVE  Canonical(t, Signed(t))
    <2> DEFINE d == DigitsOf(t)
               v == Value(d)
    <2>1. /\ d \in Seq(DigitSet) /\ d # <<>>
          /\ t = IF Begin(t) = 2 THEN Minus \o d ELSE d
      BY <1>3, SubSeqFull, FrontIs, Zenon DEF Front, Whole
    <2>2. Signed(t) = (IF Begin(t) = 2 THEN -v ELSE v) /\ v \in Nat
      BY <2>1, ValueFacts DEF Signed
    <2>3. d = Numeral[v]
      <3>1. Len(d) = End(t) - Begin(t) + 1 /\ \A i \in 1..Len(d) : d[i] = t[Begin(t) + i - 1]
        BY DigitsOfType
      <3>2. 1 \in 1..Len(d) /\ Begin(t) + 1 - 1 = Begin(t) /\ Begin(t) \in {1, 2} /\ End(t) \in Nat
        BY <2>1, SignedType
      <3>3. d[1] = t[Begin(t)]
        BY <3>1, <3>2
      <3>4. d[1] # "0" \/ Len(d) = 1
        BY <1>3, <3>1, <3>2, <3>3 DEF Whole
      <3> QED BY <2>1, <3>4, CanonicalDigits
    <2>4. Integer!ToChars(Signed(t)) = Written(Signed(t)) /\ Signed(t) \in Int
      BY <1>0, <1>3, IntegerToChars
    <2> HIDE DEF d, v
    <2>5. CASE Begin(t) = 2 /\ v # 0
      <3>1. Signed(t) < 0 /\ -Signed(t) = v
        BY <2>2, <2>5
      <3>2. Written(Signed(t)) = Minus \o Numeral[v]
        BY <2>4, <3>1, WrittenIsNumeral DEF Minus
      <3>3. t = Minus \o Numeral[v]
        BY <2>1, <2>3, <2>5, Zenon
      <3>4. t = Integer!ToChars(Signed(t))
        BY <2>4, <3>2, <3>3
      <3>5. \A k : t = Integer!ToChars(k) => Canonical(t, k)
        BY Zenon DEF Canonical
      <3> QED BY <3>4, <3>5, Zenon
    <2>6. CASE Begin(t) = 2 /\ v = 0
      <3>1. Numeral[0] = <<"0">>
        <4>1. Numeral[0] = <<DigitOf(0)>>
          BY NumeralStep
        <4> QED BY <4>1, DigitFacts
      <3>2. t = Minus \o Numeral[v]
        BY <2>1, <2>3, <2>6, Zenon
      <3>3. Signed(t) = 0
        <4>1. Signed(t) = -v
          BY <2>2, <2>6, Zenon
        <4>2. \A w \in Nat : w <= 0 => -w = 0
          OBVIOUS
        <4>3. v <= 0 /\ v \in Nat
          BY <2>2, <2>6
        <4> QED BY <4>1, <4>2, <4>3, Zenon
      <3> QED BY <2>6, <3>1, <3>2, <3>3, MinusZero, Zenon DEF Canonical
    <2>7. CASE Begin(t) # 2
      BY <2>2, <2>7, <2>4, WrittenIsNumeral, <2>1, <2>3 DEF Canonical
    <2> QED BY <2>5, <2>6, <2>7
  <1> QED BY <1>1, <1>2, <1>3 DEF Canonical

(* A numeral at the beginning of a text that ends where the digits do. *)
LEMMA PrefixReads ==
  ASSUME NEW X, NEW s \in Seq(X), NEW u \in 1..Len(s),
         Begin(SubSeq(s, 1, u)) <= End(SubSeq(s, 1, u)),
         End(SubSeq(s, 1, u)) = Len(SubSeq(s, 1, u)),
         u = Len(s) \/ ~ s[u + 1] \in DigitSet
  PROVE  End(s) = u /\ Begin(s) <= End(s)
  <1> DEFINE t == SubSeq(s, 1, u)
  <1>1. t \in Seq(X) /\ Len(t) = u /\ \A i \in 1..u : t[i] = s[i]
    BY SubSeqProperties
  <1>2. Begin(t) <= End(t) /\ End(t) = Len(t)
    OBVIOUS
  <1> HIDE DEF t
  <1>3. Begin(s) = Begin(t) /\ Begin(s) \in {1, 2}
    BY <1>1 DEF Begin
  <1>4. IsEnd(t, End(t))
    BY <1>1, EndIs
  <1>5. IsEnd(s, u) /\ u \in Begin(s) - 1 .. Len(s)
    BY <1>1, <1>2, <1>3, <1>4 DEF IsEnd
  <1>6. End(s) = u
    BY <1>5, EndIs
  <1> QED BY <1>1, <1>2, <1>3, <1>6

-----------------------------------------------------------------------------
(* IntegerInput: the theorem                                               *)

(* JSON takes the longest numeral that to_string could have written (or    *)
(* -0), and what it took survives being stored as text.                    *)
LEMMA JsonExact ==
  ASSUME IntegerInv, subject = "integer"
  PROVE  Integer!JsonIntegerExact
  <1>1. /\ MaxLength \in Nat /\ SmallInt \in Nat /\ text \in Seq(Alphabet) /\ Len(text) <= MaxLength
    BY ConversionsAssumption
       DEF IntegerInv, Integer!IntegerInputAssumption, Integer!IntegerTextAssumption
  <1> DEFINE result == Integer!ParseInteger(text)
             canonical(u) == \E n \in Integer!IntValues : Canonical(SubSeq(text, 1, u), n)
             numeralEnds(u) == u = Len(text) \/ ~ text[u + 1] \in DigitSet
             taken == Whole(text) /\ Signed(text) \in Integer!IntValues
  <1>2. result = IF taken THEN [ok |-> TRUE, value |-> Signed(text), used |-> End(text)]
                 ELSE Integer!Error
    BY <1>1, ParseIntegerIs
  <1>3. CASE taken
    <2> DEFINE f == Front(text)
    <2>1. Begin(text) <= End(text) /\ Begin(text) \in {1, 2} /\ End(text) \in Nat
      BY <1>1, <1>3, SignedType DEF Whole
    <2>2. /\ f \in Seq(Alphabet) /\ Len(f) = End(text) /\ \A i \in 1..End(text) : f[i] = text[i]
          /\ Begin(f) = Begin(text) /\ End(f) = End(text) /\ Signed(f) = Signed(text)
      BY <1>1, <2>1, FrontReads
    <2> HIDE DEF f
    <2>3. Whole(f)
      BY <2>1, <2>2, <1>3 DEF Whole
    <2>4. \E n \in Integer!IntValues : Canonical(f, n)
      BY <1>3, <2>2, <2>3, <1>1, CanonicalIff
    <2>5. numeralEnds(End(text)) /\ End(text) <= Len(text)
      BY <1>1, EndIs DEF IsEnd
    <2>6. Integer!IsNumeral(f, Signed(text))
      BY <1>1, <2>1, <2>2, <2>5, SignedType, NumeralIff
    <2>7. Integer!ParseIntValue(Integer!ToChars(Signed(text))) = Integer!Number(Signed(text))
      BY <1>1, <1>3, SignedType, IntegerToChars, WrittenIsRead, ParseIntValueIs, Zenon
    <2>8. result.ok = TRUE /\ result.value = Signed(text) /\ result.used = End(text)
      BY <1>2, <1>3
    <2>9. SubSeq(text, 1, result.used) = f
      BY <2>8 DEF f, Front
    <2> HIDE DEF result
    <2>10. canonical(result.used) /\ numeralEnds(result.used)
      BY <2>4, <2>5, <2>8, <2>9
    <2>11. /\ Integer!IsNumeral(SubSeq(text, 1, result.used), result.value)
           /\ Integer!ParseIntValue(Integer!ToChars(result.value)) = Integer!Number(result.value)
      BY <2>6, <2>7, <2>8, <2>9
    <2>12. /\ \E n \in Integer!IntValues :
                \/ SubSeq(text, 1, result.used) = Integer!ToChars(n)
                \/ n = 0 /\ SubSeq(text, 1, result.used) = <<"-", "0">>
           /\ result.used = Len(text) \/ ~ Integer!IsDigit(text[result.used + 1])
      BY <2>10 DEF Canonical, Integer!IsDigit, Integer!Digits, DigitSet, Digits
    <2> QED BY <2>8, <2>11, <2>12 DEF Integer!JsonIntegerExact, result
  <1>4. CASE ~ taken
    <2>1. ASSUME NEW u \in 1..Len(text), canonical(u), numeralEnds(u) PROVE FALSE
      <3> DEFINE t == SubSeq(text, 1, u)
      <3>1. t \in Seq(Alphabet) /\ Len(t) = u /\ \A i \in 1..u : t[i] = text[i]
        BY <1>1, SubSeqProperties
      <3>2. \E n \in Integer!IntValues : Canonical(t, n)
        BY <2>1
      <3>3. Whole(t) /\ End(t) = Len(t) /\ Signed(t) \in Integer!IntValues
        BY <1>1, <3>1, <3>2, CanonicalIff, Zenon
      <3>4. End(text) = u /\ Begin(text) <= End(text)
        BY <3>3, <1>1, <2>1, PrefixReads DEF Whole
      <3>5. t = Front(text)
        BY <3>4 DEF Front
      <3> HIDE DEF t
      <3>6. Begin(t) = Begin(text) /\ Signed(t) = Signed(text) /\ Begin(text) \in {1, 2}
        BY <1>1, <3>4, <3>5, FrontReads, SignedType
      <3>7. t[Begin(t)] = text[Begin(text)]
        BY <3>1, <3>4, <3>6
      <3>8. Whole(text)
        BY <3>1, <3>3, <3>4, <3>6, <3>7 DEF Whole
      <3> QED BY <1>4, <3>3, <3>6, <3>8
    <2>2. result.ok = FALSE
      BY <1>2, <1>4 DEF Integer!Error
    <2> HIDE DEF result
    <2>3. ~ \E u \in 1..Len(text) :
              /\ \E n \in Integer!IntValues :
                   \/ SubSeq(text, 1, u) = Integer!ToChars(n)
                   \/ n = 0 /\ SubSeq(text, 1, u) = <<"-", "0">>
              /\ u = Len(text) \/ ~ Integer!IsDigit(text[u + 1])
      BY <2>1 DEF Canonical, Integer!IsDigit, Integer!Digits, DigitSet, Digits
    <2> QED BY <2>2, <2>3 DEF Integer!JsonIntegerExact, result
  <1> QED BY <1>3, <1>4

(* It stays so: Type adds a character only below the bound.                *)
LEMMA IntegerInvInductive == Spec => []IntegerInv
  <1>1. Init => IntegerInv
    BY ConversionsAssumption
       DEF Init, IntegerInv, Integer!Init, Integer!IntegerInputAssumption
  <1>2. IntegerInv /\ [Next]_vars => IntegerInv'
    BY ConversionsAssumption DEF IntegerInv, Integer!Next, Integer!Type,
       Integer!IntegerInputAssumption, Next, vars
  <1> QED BY <1>1, <1>2, PTL DEF Spec

(* The repository (ParseIntValue), --api-port (ParseApiPort) and JSON      *)
(* (ParseInteger) take exactly the numerals each of them is to take, as    *)
(* their value, and what JSON took survives being stored as text: for      *)
(* every text of every length and every bound of int and of the port.      *)
THEOREM SpecIntegersExact == Spec => []IntegersExact
  <1>1. IntegerInv => IntegersExact
    BY StoredAndPort, JsonExact DEF IntegersExact
  <1> QED BY <1>1, IntegerInvInductive, PTL

-----------------------------------------------------------------------------
(* ConfigFields: the rows                                                  *)

(* What the repository reads, and that it reads back what it wrote. *)
LEMMA RowParseIs ==
  ASSUME NEW X, NEW s \in Seq(X)
  PROVE  Row!ParseIntValue(s) =
           IF Begin(s) <= End(s) /\ End(s) = Len(s) /\ Signed(s) \in Row!IntValues
           THEN Row!Number(Signed(s)) ELSE Row!Error
  <1>1. Row!FromChars(s) = Read(s, Row!IntValues)
    BY RowFromChars
  <1>2. End(s) \in Nat /\ Begin(s) \in {1, 2} /\ Len(s) \in Nat
    BY SignedType
  <1>3. CASE End(s) < Begin(s)
    BY <1>3, <1>1, <1>2 DEF Read, Row!ParseIntValue
  <1>4. CASE ~ (End(s) < Begin(s))
    <2>1. /\ Read(s, Row!IntValues).ok = (Signed(s) \in Row!IntValues)
          /\ Read(s, Row!IntValues).value = Signed(s)
          /\ Read(s, Row!IntValues).used = End(s)
      BY <1>4 DEF Read
    <2>2. End(s) = Len(s) => s # <<>>
      BY <1>2, <1>4
    <2>3. Begin(s) <= End(s)
      BY <1>2, <1>4
    <2> QED BY <1>1, <2>1, <2>2, <2>3 DEF Row!ParseIntValue
  <1> QED BY <1>3, <1>4

(* The repository reads back the integers it wrote.                        *)
LEMMA RowTextIsRead ==
  ASSUME MaxInt \in Nat, NEW n \in Row!IntValues
  PROVE  Row!ParseIntValue(Row!ToChars(n)) = Row!Number(n)
  <1> DEFINE w == Written(n)
  <1>1. n \in Int /\ Row!ToChars(n) = w
    BY RowToChars DEF Row!IntValues
  <1>2. /\ w \in Seq(NumeralChars) /\ Begin(w) <= End(w) /\ End(w) = Len(w) /\ Signed(w) = n
    BY <1>1, WrittenIsRead
  <1> HIDE DEF w
  <1> QED BY <1>1, <1>2, RowParseIs

(* What the repository accepts is an int.                                  *)
LEMMA RowParsedIsInt ==
  ASSUME NEW t, Row!ParseIntValue(t).ok
  PROVE  /\ Row!ParseIntValue(t).value \in Row!IntValues
         /\ Row!ParseIntValue(t) = Row!Number(Row!ParseIntValue(t).value)
  BY Zenon DEF Row!Error, Row!Number, Row!FromChars, Row!DigitValue, Row!Digits, Loop,
     ValueOf, Digits, Row!ParseIntValue

(* A configuration as the repository has them. *)
IsConfig(c) ==
  /\ c = [f \in Row!Fields |-> c[f]]
  /\ \A f \in Row!IntegerFields : c[f] \in Row!IntValues
  /\ \A f \in Row!StringFields : c[f] # Absent

(* Every field is an integer or a string.                                  *)
LEMMA FieldKinds ==
  /\ Row!Fields = Row!IntegerFields \cup Row!StringFields
  /\ \A f \in Row!StringFields : f \notin Row!IntegerFields
  BY DEF Row!StringFields, Row!IntegerFields, Row!Fields

(* What is assumed of the constants, as the proofs need it.                *)
LEMMA RowConstants ==
  /\ MaxInt \in Nat /\ MaxPort \in Nat
  /\ \A c \in Requests : IsConfig(c)
  /\ \A n \in Row!IntValues : Row!ToChars(n) # Absent
  BY ConversionsAssumption DEF Row!ConfigFieldsAssumption, Row!IntegerTextAssumption, IsConfig

(* Save writes every row.                                                  *)
LEMMA EntriesPresent ==
  ASSUME NEW c, IsConfig(c), NEW f \in Row!Fields
  PROVE  Row!ConfigEntriesFrom(c)[f] # Absent
  BY FieldKinds, RowConstants DEF IsConfig, Row!ConfigEntriesFrom

(* Load undoes what Save did. *)
LEMMA EntriesAreLoaded ==
  ASSUME NEW c, IsConfig(c), Row!Validate(c), c # Absent
  PROVE  Row!Load(Row!ConfigEntriesFrom(c)) = c
  <1> DEFINE e == Row!ConfigEntriesFrom(c)
  <1>1. \A f \in Row!Fields : e[f] # Absent
    BY EntriesPresent
  <1>2. \A f \in Row!IntegerFields : Row!ParseIntValue(e[f]) = Row!Number(c[f])
    BY FieldKinds, RowConstants, RowTextIsRead DEF Row!ConfigEntriesFrom, IsConfig
  <1>3. \A f \in Row!StringFields : e[f] = c[f]
    BY FieldKinds DEF Row!ConfigEntriesFrom
  <1> HIDE DEF e
  <1>4. \A v : Row!Number(v).ok = TRUE /\ Row!Number(v).value = v
    BY DEF Row!Number
  <1>5. Row!PopulateConfig(e) = c
    BY <1>2, <1>3, <1>4, FieldKinds, <1>1 DEF IsConfig, Row!PopulateConfig
  <1> QED BY <1>5, Zenon DEF Row!Load, e

(* What is loaded is a valid configuration, the one that the rows hold. *)
LEMMA LoadedIs ==
  ASSUME NEW values, NEW c, c = Row!Load(values), c # Absent
  PROVE  /\ IsConfig(c) /\ Row!Validate(c)
         /\ \A f \in Row!StringFields : values[f] = c[f]
         /\ \A f \in Row!IntegerFields :
              values[f] # Absent /\ Row!ParseIntValue(values[f]) = Row!Number(c[f])
  BY FieldKinds, RowParsedIsInt, Zenon DEF Row!Load, Row!PopulateConfig, IsConfig

(* The rows hold the configuration that was saved last. *)
RowInv ==
  subject = "row" =>
    (saved # Absent => /\ IsConfig(saved) /\ Row!Validate(saved)
                       /\ rows = Row!ConfigEntriesFrom(saved))

(* It stays so: Save writes both, and Initialize adds only missing rows.   *)
LEMMA RowInvInductive == Spec => []RowInv
  <1>1. Init => RowInv
    BY DEF Init, RowInv, Row!Init
  <1>2. RowInv /\ [Next]_vars => RowInv'
    <2> SUFFICES ASSUME RowInv, [Next]_vars, subject' = "row", saved' # Absent
                 PROVE  (IsConfig(saved) /\ Row!Validate(saved)
                           /\ rows = Row!ConfigEntriesFrom(saved))'
      BY DEF RowInv
    <2>1. CASE subject = "row" /\ Row!Next
      BY <2>1, EntriesPresent, RowConstants DEF Row!Initialize, RowInv,
         Row!ConfigEntriesFrom, Row!Save, Row!Edit, Row!Next
    <2>2. CASE UNCHANGED <<subject, rowVars>>
      BY <2>2 DEF RowInv, rowVars
    <2> QED BY <2>1, <2>2 DEF Next, vars, RowInv
  <1> QED BY <1>1, <1>2, PTL DEF Spec

(* Load returns what Save answered Ok to, through the text of the rows;    *)
(* rows that another program edited are an error or mean what they say;    *)
(* and the port that is served is the one that was stored: for any         *)
(* requests, any edits and any int.                                        *)
THEOREM SpecRowsExact == Spec => []RowsExact
  <1>1. RowInv => RowsExact
    <2> SUFFICES ASSUME RowInv, subject = "row"
                 PROVE  Row!SavedIsLoaded /\ Row!LoadInventsNothing /\ Row!PortServedAsStored
      BY DEF RowsExact
    <2>1. Row!SavedIsLoaded
      BY EntriesAreLoaded DEF RowInv, Row!SavedIsLoaded
    <2> DEFINE c == Row!Load(rows)
    <2>2. c # Absent => /\ IsConfig(c) /\ Row!Validate(c)
                        /\ \A f \in Row!StringFields : rows[f] = c[f]
                        /\ \A f \in Row!IntegerFields :
                             rows[f] # Absent /\ Row!ParseIntValue(rows[f]) = Row!Number(c[f])
      BY LoadedIs
    <2> HIDE DEF c
    <2>3. c # Absent => Row!Load(Row!ConfigEntriesFrom(c)) = c
      BY <2>2, EntriesAreLoaded
    <2>4. Row!LoadInventsNothing
      BY <2>2, <2>3, Zenon DEF Row!LoadInventsNothing, c
    <2>5. c # Absent => Row!ServedPort(c) = c.server_port /\ Row!ServedPort(c) > 0
      <3>1. \A p \in 1..MaxPort : p % (MaxPort + 1) = p /\ p > 0
        BY RowConstants
      <3>2. c # Absent => c.server_port \in 1..MaxPort
        BY <2>2 DEF Row!Validate
      <3> QED BY <3>1, <3>2, Zenon DEF Row!ServedPort
    <2> QED BY <2>1, <2>4, <2>5, Zenon DEF Row!PortServedAsStored, c
  <1> QED BY <1>1, RowInvInductive, PTL

-----------------------------------------------------------------------------
(* ConfigJson: the tokens                                                  *)

(* The tokens of a JSON object. *)
Open == Object!Mark("{")
Close == Object!Mark("}")
Colon == Object!Mark(":")
Comma == Object!Mark(",")
Blank == Object!Mark("space")
Name(f) == [kind |-> "string", value |-> f]
ValueTokens == Object!StringTokens \cup Object!IntegerTokens

(* The kinds of the tokens.                                                *)
LEMMA TokenKinds ==
  /\ Open.kind = "{" /\ Close.kind = "}" /\ Colon.kind = ":" /\ Comma.kind = ","
  /\ Blank.kind = "space"
  /\ {Open, Close, Colon, Comma, Blank} \subseteq Object!Tokens
  /\ \A f : Name(f).kind = "string" /\ Name(f).value = f
  /\ \A f \in Object!Fields : Name(f) \in Object!Tokens
  /\ ValueTokens \subseteq Object!Tokens
  /\ \A t \in ValueTokens : t.kind \in {"string", "integer"}
  /\ \A t \in Object!StringTokens : t.kind = "string" /\ t = Name(t.value)
  <1>1. /\ Open.kind = "{" /\ Close.kind = "}" /\ Colon.kind = ":" /\ Comma.kind = ","
        /\ Blank.kind = "space"
    BY DEF Open, Close, Colon, Comma, Blank, Object!Mark
  <1>2. {Open, Close, Colon, Comma, Blank} \subseteq Object!Tokens
    BY DEF Open, Close, Colon, Comma, Blank, Object!Mark, Object!Tokens, Object!Punctuation
  <1>3. \A f : Name(f).kind = "string" /\ Name(f).value = f
    BY DEF Name
  <1>4. \A f \in Object!Fields : Name(f) \in Object!Tokens
    BY DEF Name, Object!Tokens, Object!StringTokens
  <1>5. ValueTokens \subseteq Object!Tokens
    BY DEF ValueTokens, Object!Tokens
  <1>6. \A t \in ValueTokens : t.kind \in {"string", "integer"}
    BY DEF ValueTokens, Object!StringTokens, Object!IntegerTokens
  <1>8. \A t \in Object!StringTokens : t.kind = "string" /\ t = Name(t.value)
    BY DEF Name, Object!StringTokens
  <1> QED BY <1>1, <1>2, <1>3, <1>4, <1>5, <1>6, <1>8

(* The tokens without the whitespace, one token at a time. *)

SolidStep == [p \in Seq(Object!Tokens) \X Object!Tokens |->
                IF p[2].kind = "space" THEN p[1] ELSE Append(p[1], p[2])]

(* Leaving out whitespace keeps a text a text.                             *)
LEMMA SolidFolding ==
  Folding(SolidStep, Seq(Object!Tokens), Object!Tokens) /\ <<>> \in Seq(Object!Tokens)
  BY DEF Folding, SolidStep

(* WithoutSpace is the loop over the tokens.                               *)
LEMMA SolidIs ==
  ASSUME NEW s \in Seq(Object!Tokens)
  PROVE  Object!WithoutSpace(s) = Fold(SolidStep, <<>>, s)
  <1> DEFINE T == Object!Tokens
             right(g) == [n \in 0..Len(s) |->
                            IF n = 0 THEN <<>>
                            ELSE IF s[n].kind = "space" THEN g[n - 1]
                            ELSE Append(g[n - 1], s[n])]
             solid == CHOOSE g : g = right(g)
  <1>1. Object!WithoutSpace(s) = solid[Len(s)]
    BY DEF Object!WithoutSpace
  <1>2. PICK run \in [0..Len(s) -> Seq(T)] :
          IsRun(run, SolidStep, <<>>, s) /\ Fold(SolidStep, <<>>, s) = run[Len(s)]
    BY SolidFolding, FoldRun
  <1>3. run = right(run)
    <2>1. Len(s) \in Nat /\ \A n \in 1..Len(s) : s[n] \in T
      OBVIOUS
    <2>2. ASSUME NEW n \in 0..Len(s), n # 0
          PROVE  run[n] = IF s[n].kind = "space" THEN run[n - 1] ELSE Append(run[n - 1], s[n])
      <3>1. n \in 1..Len(s) /\ n - 1 \in 0..Len(s)
        BY <2>1, <2>2
      <3>2. run[n] = SolidStep[<<run[n - 1], s[n]>>]
        BY <1>2, <3>1 DEF IsRun
      <3>3. run[n - 1] \in Seq(T) /\ s[n] \in T
        BY <2>1, <3>1
      <3> HIDE DEF T
      <3> DEFINE a == run[n - 1]
                 t == s[n]
      <3>4. a \in Seq(T) /\ t \in T
        BY <3>3
      <3> HIDE DEF a, t
      <3>5. SolidStep[<<a, t>>] = IF t.kind = "space" THEN a ELSE Append(a, t)
        BY <3>4 DEF SolidStep, T
      <3> QED BY <3>2, <3>5 DEF a, t
    <2>3. run[0] = <<>>
      BY <1>2 DEF IsRun
    <2>4. \A n \in 0..Len(s) : run[n] = IF n = 0 THEN <<>>
                            ELSE IF s[n].kind = "space" THEN run[n - 1]
                            ELSE Append(run[n - 1], s[n])
      BY <2>2, <2>3, Zenon
    <2>5. run = [n \in 0..Len(s) |-> run[n]]
      OBVIOUS
    <2> QED BY <2>4, <2>5, Zenon
  <1>4. solid = right(solid)
    BY <1>3, Zenon
  <1> HIDE DEF solid
  <1>5. \A n \in Nat : n <= Len(s) => solid[n] = run[n]
    <2> DEFINE Same == {n \in Nat : n <= Len(s) => solid[n] = run[n]}
    <2>1. 0 \in Same
      BY <1>3, <1>4
    <2>2. ASSUME NEW n \in Nat, n \in Same PROVE n + 1 \in Same
      <3> SUFFICES ASSUME n + 1 <= Len(s) PROVE solid[n + 1] = run[n + 1]
        OBVIOUS
      <3>1. n + 1 \in 0..Len(s) /\ n + 1 # 0 /\ (n + 1) - 1 = n /\ solid[n] = run[n]
        BY <2>2
      <3>2. /\ solid[n + 1] = IF s[n + 1].kind = "space" THEN solid[(n + 1) - 1]
                              ELSE Append(solid[(n + 1) - 1], s[n + 1])
            /\ run[n + 1] = IF s[n + 1].kind = "space" THEN run[(n + 1) - 1]
                            ELSE Append(run[(n + 1) - 1], s[n + 1])
        BY <1>3, <1>4, <3>1, Zenon
      <3> QED BY <3>1, <3>2, Zenon
    <2>3. Nat \subseteq Same
      BY <2>1, <2>2, Induction, Zenon
    <2> QED BY <2>3
  <1>6. Len(s) \in Nat
    OBVIOUS
  <1> QED BY <1>1, <1>2, <1>5, <1>6

(* WithoutSpace, token by token.                                           *)
LEMMA SolidFacts ==
  /\ Object!WithoutSpace(<<>>) = <<>>
  /\ \A s \in Seq(Object!Tokens) : Object!WithoutSpace(s) \in Seq(Object!Tokens)
  /\ \A s \in Seq(Object!Tokens), t \in Object!Tokens :
       Object!WithoutSpace(Append(s, t)) =
         IF t.kind = "space" THEN Object!WithoutSpace(s) ELSE Append(Object!WithoutSpace(s), t)
  <1> DEFINE T == Object!Tokens
             A == Seq(T)
             none == <<>>
             solid(s) == Object!WithoutSpace(s)
  <1>1. \A s \in Seq(T) : solid(s) = Fold(SolidStep, none, s)
    BY SolidIs
  <1>2. none \in A /\ none \in Seq(T) /\ Folding(SolidStep, A, T)
    BY SolidFolding
  <1>3. \A a \in A, t \in T : SolidStep[<<a, t>>] = IF t.kind = "space" THEN a ELSE Append(a, t)
    BY DEF SolidStep
  <1>4. \A s \in Seq(T), t \in T : Append(s, t) \in Seq(T)
    OBVIOUS
  <1> HIDE DEF T, A, none, solid
  <1>5. solid(none) = none
    <2>1. solid(none) = Fold(SolidStep, none, none)
      BY <1>1, <1>2
    <2>2. Fold(SolidStep, none, <<>>) = none
      BY <1>2, FoldEmpty, Zenon
    <2> QED BY <2>1, <2>2, Zenon DEF none
  <1>6. \A s \in Seq(T) : solid(s) \in A
    BY <1>1, <1>2, FoldType
  <1>7. ASSUME NEW s \in Seq(T), NEW t \in T
        PROVE  solid(Append(s, t)) = IF t.kind = "space" THEN solid(s) ELSE Append(solid(s), t)
    <2>1. Fold(SolidStep, none, Append(s, t)) = SolidStep[<<Fold(SolidStep, none, s), t>>]
      BY <1>2, FoldAppend
    <2>2. solid(Append(s, t)) = SolidStep[<<solid(s), t>>]
      BY <1>1, <1>4, <2>1
    <2> QED BY <1>3, <1>6, <2>2
  <1> QED BY <1>5, <1>6, <1>7 DEF T, A, none, solid

(* A text that has no whitespace. *)
LEMMA SolidSame ==
  \A s \in Seq(Object!Tokens) :
    (\A i \in 1..Len(s) : s[i].kind # "space") => Object!WithoutSpace(s) = s
  <1> DEFINE T == Object!Tokens
             solid(s) == Object!WithoutSpace(s)
             Q == {s \in Seq(T) : (\A i \in 1..Len(s) : s[i].kind # "space") => solid(s) = s}
  <1>1. <<>> \in Q
    BY SolidFacts
  <1>2. \A s \in Seq(T), t \in T : solid(Append(s, t)) = IF t.kind = "space" THEN solid(s) ELSE Append(solid(s), t)
    BY SolidFacts
  <1> HIDE DEF T, solid
  <1>3. ASSUME NEW s \in Seq(T), NEW t \in T, s \in Q PROVE Append(s, t) \in Q
    <2>1. Append(s, t) \in Seq(T)
      OBVIOUS
    <2> SUFFICES ASSUME \A i \in 1..Len(Append(s, t)) : Append(s, t)[i].kind # "space"
                 PROVE  solid(Append(s, t)) = Append(s, t)
      BY <2>1
    <2>2. Len(Append(s, t)) = Len(s) + 1 /\ Append(s, t)[Len(s) + 1] = t
          /\ Len(s) \in Nat /\ \A i \in 1..Len(s) : Append(s, t)[i] = s[i]
      OBVIOUS
    <2>3. t.kind # "space" /\ \A i \in 1..Len(s) : s[i].kind # "space"
      BY <2>2
    <2>4. solid(s) = s
      BY <1>3, <2>3
    <2>5. solid(Append(s, t)) = Append(solid(s), t)
      BY <1>2, <2>3
    <2> QED BY <2>4, <2>5, Zenon
  <1>4. Seq(T) \subseteq Q
    BY <1>1, <1>3, SequenceInduction, Zenon
  <1> QED BY <1>4 DEF T, solid

-----------------------------------------------------------------------------
(* ConfigJson: the text of a configuration                                 *)

(* s begins with "{" and the fields of o, with commas between them. *)
Spelled(s, o, c) ==
  /\ s[1] = Open
  /\ \A k \in 1..Len(o) : s[4 * k - 2] = Name(o[k]) /\ s[4 * k - 1] = Colon /\ s[4 * k] = c[o[k]]
  /\ \A k \in 1..(Len(o) - 1) : s[4 * k + 1] = Comma

(* What TextOf puts between the braces, by position. *)
Between(o, c, j) ==
  LET k == (j + 3) \div 4
      r == (j + 3) % 4
  IN IF r = 0 THEN Name(o[k]) ELSE IF r = 1 THEN Colon ELSE IF r = 2 THEN c[o[k]] ELSE Comma

(* The four tokens of a field and of the comma behind it.                  *)
LEMMA BetweenIs ==
  ASSUME NEW o, NEW c, NEW k \in Nat
  PROVE  /\ Between(o, c, 4 * k - 3) = Name(o[k])
         /\ Between(o, c, 4 * k - 2) = Colon
         /\ Between(o, c, 4 * k - 1) = c[o[k]]
         /\ Between(o, c, 4 * k) = Comma
  BY DEF Between

(* Every position belongs to a field.                                      *)
LEMMA FourCases ==
  ASSUME NEW n \in Nat, NEW j \in 1..(4 * n)
  PROVE  \E k \in 1..n : j = 4 * k - 3 \/ j = 4 * k - 2 \/ j = 4 * k - 1 \/ j = 4 * k
  <1> DEFINE k == (j + 3) \div 4
  <1>1. k \in 1..n /\ (j = 4 * k - 3 \/ j = 4 * k - 2 \/ j = 4 * k - 1 \/ j = 4 * k)
    OBVIOUS
  <1> QED BY <1>1

(* The texts of o and c. *)
Fit(o, c) == /\ o \in Seq(Object!Fields) /\ o # <<>>
             /\ \A f \in Object!Fields : c[f] \in ValueTokens

(* The text of the first n fields.                                         *)
FieldsText(o, c, n) == [j \in 1..(4 * n - 1) |-> Between(o, c, j)]

(* The tokens between the braces, for the first n fields.                  *)
LEMMA FieldsTextIs ==
  ASSUME NEW o, NEW c, Fit(o, c), NEW n \in 1..Len(o)
  PROVE  /\ FieldsText(o, c, n) \in Seq(Object!Tokens) /\ Len(FieldsText(o, c, n)) = 4 * n - 1
         /\ \A j \in 1..(4 * n - 1) : FieldsText(o, c, n)[j] = Between(o, c, j)
  <1>1. Len(o) \in Nat /\ n \in Nat /\ 4 * n - 1 \in Nat
    BY DEF Fit
  <1>2. ASSUME NEW j \in 1..(4 * n - 1) PROVE Between(o, c, j) \in Object!Tokens
    <2>1. PICK k \in 1..n : j = 4 * k - 3 \/ j = 4 * k - 2 \/ j = 4 * k - 1 \/ j = 4 * k
      <3>1. j \in 1..(4 * n)
        BY <1>1
      <3> QED BY <1>1, <3>1, FourCases
    <2>2. o[k] \in Object!Fields /\ k \in Nat
      BY <1>1 DEF Fit
    <2>3. /\ Name(o[k]) \in Object!Tokens /\ Colon \in Object!Tokens
          /\ c[o[k]] \in Object!Tokens /\ Comma \in Object!Tokens
      BY <2>2, TokenKinds DEF Fit
    <2>4. /\ Between(o, c, 4 * k - 3) = Name(o[k]) /\ Between(o, c, 4 * k - 2) = Colon
          /\ Between(o, c, 4 * k - 1) = c[o[k]] /\ Between(o, c, 4 * k) = Comma
      BY <2>2, BetweenIs
    <2>5. \/ Between(o, c, j) = Name(o[k]) \/ Between(o, c, j) = Colon
          \/ Between(o, c, j) = c[o[k]] \/ Between(o, c, j) = Comma
      BY <2>1, <2>4, Zenon
    <2> QED BY <2>3, <2>5
  <1> DEFINE w == FieldsText(o, c, n)
             m == 4 * n - 1
             T == Object!Tokens
  <1>3. w = [j \in 1..m |-> Between(o, c, j)] /\ m \in Nat
    BY <1>1 DEF FieldsText
  <1>4. \A j \in 1..m : Between(o, c, j) \in T
    BY <1>2
  <1> HIDE DEF w, m, T
  <1>5. w \in Seq(T) /\ Len(w) = m /\ \A j \in 1..m : w[j] = Between(o, c, j)
    BY <1>3, <1>4
  <1> QED BY <1>5 DEF w, m, T

(* The piece that TextOf makes of the field at i. *)
Piece(o, c, i) ==
  IF i = 1 THEN <<Name(o[i]), Colon, c[o[i]]>>
  ELSE <<Comma>> \o <<Name(o[i]), Colon, c[o[i]]>>

(* The piece of the first field is the text of it.                         *)
LEMMA FirstPiece ==
  ASSUME NEW o, NEW c, Fit(o, c)
  PROVE  Piece(o, c, 1) = FieldsText(o, c, 1)
  <1>1. Len(o) \in Nat /\ 1 \in 1..Len(o) /\ o[1] \in Object!Fields
    BY DEF Fit
  <1> DEFINE p == Piece(o, c, 1)
             w == FieldsText(o, c, 1)
             T == Object!Tokens
  <1>2. w \in Seq(T) /\ Len(w) = 3 /\ \A j \in 1..3 : w[j] = Between(o, c, j)
    <2>1. 4 * 1 - 1 = 3
      OBVIOUS
    <2>2. /\ w \in Seq(T) /\ Len(w) = 4 * 1 - 1
          /\ \A j \in 1..(4 * 1 - 1) : w[j] = Between(o, c, j)
      BY <1>1, FieldsTextIs, Zenon DEF w
    <2> HIDE DEF w
    <2> QED BY <2>1, <2>2
  <1>3. /\ Between(o, c, 1) = Name(o[1]) /\ Between(o, c, 2) = Colon
        /\ Between(o, c, 3) = c[o[1]]
    BY BetweenIs
  <1>4. Name(o[1]) \in T /\ Colon \in T /\ c[o[1]] \in T
    BY <1>1, TokenKinds DEF Fit
  <1> HIDE DEF w, T
  <1>5. p \in Seq(T) /\ Len(p) = 3 /\ p[1] = Name(o[1]) /\ p[2] = Colon /\ p[3] = c[o[1]]
    BY <1>4 DEF Piece
  <1> HIDE DEF p
  <1>6. \A j \in 1..3 : p[j] = w[j]
    BY <1>2, <1>3, <1>5
  <1>7. p = w
    BY <1>2, <1>5, <1>6, SeqEqual
  <1> QED BY <1>7 DEF p, w

(* And the piece of every other field goes behind the text of those        *)
(* before.                                                                 *)
LEMMA NextPiece ==
  ASSUME NEW o, NEW c, Fit(o, c), NEW i \in 2..Len(o)
  PROVE  FieldsText(o, c, i) = FieldsText(o, c, i - 1) \o Piece(o, c, i)
  <1>1. Len(o) \in Nat /\ i \in Nat /\ i - 1 \in 1..Len(o) /\ i \in 1..Len(o) /\ o[i] \in Object!Fields
    BY DEF Fit
  <1> DEFINE p == Piece(o, c, i)
             v == FieldsText(o, c, i - 1)
             w == FieldsText(o, c, i)
             T == Object!Tokens
             m == 4 * i - 5
  <1>2. w \in Seq(T) /\ Len(w) = m + 4 /\ \A j \in 1..(m + 4) : w[j] = Between(o, c, j)
    BY <1>1, FieldsTextIs
  <1>3. v \in Seq(T) /\ Len(v) = m /\ \A j \in 1..m : v[j] = Between(o, c, j)
    <2>1. m = 4 * (i - 1) - 1
      BY <1>1
    <2> QED BY <1>1, <2>1, FieldsTextIs
  <1>4. /\ Between(o, c, m + 1) = Comma /\ Between(o, c, m + 2) = Name(o[i])
        /\ Between(o, c, m + 3) = Colon /\ Between(o, c, m + 4) = c[o[i]]
    <2>1. m + 1 = 4 * (i - 1) /\ m + 2 = 4 * i - 3 /\ m + 3 = 4 * i - 2 /\ m + 4 = 4 * i - 1
      BY <1>1
    <2>2. Between(o, c, 4 * (i - 1)) = Comma
      <3> DEFINE k == i - 1
      <3>1. k \in Nat
        BY <1>1
      <3> HIDE DEF k
      <3>2. Between(o, c, 4 * k) = Comma
        BY <3>1, BetweenIs
      <3> QED BY <3>2 DEF k
    <2>3. /\ Between(o, c, 4 * i - 3) = Name(o[i]) /\ Between(o, c, 4 * i - 2) = Colon
          /\ Between(o, c, 4 * i - 1) = c[o[i]]
      BY <1>1, BetweenIs
    <2> QED BY <2>1, <2>2, <2>3
  <1>5. Name(o[i]) \in T /\ Colon \in T /\ c[o[i]] \in T /\ Comma \in T /\ m \in Nat
    <2>1. m \in Nat
      BY <1>1
    <2> HIDE DEF m
    <2>2. c[o[i]] \in ValueTokens
      BY <1>1 DEF Fit
    <2> QED BY <1>1, <2>1, <2>2, TokenKinds
  <1> HIDE DEF w, v, m, T
  <1>6. /\ p \in Seq(T) /\ Len(p) = 4 /\ p[1] = Comma /\ p[2] = Name(o[i]) /\ p[3] = Colon
        /\ p[4] = c[o[i]]
    BY <1>1, <1>5 DEF Piece
  <1> DEFINE u == v \o p
  <1> HIDE DEF p
  <1>7. /\ u \in Seq(T) /\ Len(u) = m + 4 /\ \A j \in 1..m : u[j] = v[j]
        /\ u[m + 1] = p[1] /\ u[m + 2] = p[2] /\ u[m + 3] = p[3] /\ u[m + 4] = p[4]
    <2>1. /\ u \in Seq(T) /\ Len(u) = Len(v) + Len(p) /\ \A j \in 1..Len(v) : u[j] = v[j]
          /\ \A j \in 1..Len(p) : u[Len(v) + j] = p[j]
      <3>1. u \in Seq(T) /\ Len(u) = Len(v) + Len(p)
        BY <1>3, <1>6, ConcatProperties DEF u
      <3>2. \A j \in 1..Len(v) + Len(p) : u[j] = IF j <= Len(v) THEN v[j] ELSE p[j - Len(v)]
        BY <1>3, <1>6, ConcatProperties DEF u
      <3>3. Len(v) \in Nat /\ Len(p) \in Nat
        BY <1>3, <1>6
      <3> HIDE DEF u
      <3>4. \A j \in 1..Len(v) : u[j] = v[j]
        BY <3>2, <3>3
      <3>5. \A j \in 1..Len(p) : u[Len(v) + j] = p[j]
        BY <3>3, <3>2
      <3> QED BY <3>1, <3>4, <3>5
    <2>2. 1 \in 1..Len(p) /\ 2 \in 1..Len(p) /\ 3 \in 1..Len(p) /\ 4 \in 1..Len(p)
      BY <1>6
    <2> HIDE DEF u
    <2>3. u[m + 1] = p[1] /\ u[m + 2] = p[2] /\ u[m + 3] = p[3] /\ u[m + 4] = p[4]
      BY <1>3, <2>1, <2>2, Zenon
    <2> QED BY <1>3, <1>6, <2>1, <2>3
  <1> HIDE DEF u
  <1>8. \A j \in 1..(m + 4) : u[j] = w[j]
    <2>1. \A j \in 1..(m + 4) : j \in 1..m \/ j = m + 1 \/ j = m + 2 \/ j = m + 3 \/ j = m + 4
      BY <1>5
    <2> QED BY <1>2, <1>3, <1>4, <1>6, <1>7, <2>1
  <1>9. w = u
    BY <1>2, <1>7, <1>8, SeqEqual, Zenon
  <1> QED BY <1>9 DEF w, u, v, p

(* The recursion of TextOf. *)
LEMMA FieldsAre ==
  ASSUME NEW o, NEW c, Fit(o, c)
  PROVE  Object!TextOf(o, c) = (<<Open>> \o FieldsText(o, c, Len(o))) \o <<Close>>
  <1> DEFINE n == Len(o)
             right(g) == [i \in 0..n |-> IF i = 0 THEN <<>> ELSE g[i - 1] \o Piece(o, c, i)]
             fields == CHOOSE g : g = right(g)
             h == [i \in 0..n |-> IF i = 0 THEN <<>> ELSE FieldsText(o, c, i)]
  <1>1. n \in Nat /\ n # 0
    BY DEF Fit
  <1>2. Object!TextOf(o, c) = (<<Open>> \o fields[n]) \o <<Close>>
    BY Zenon DEF Object!TextOf, Object!Mark, Piece, Open, Close, Colon, Comma, Name
  <1>3. ASSUME NEW i \in 0..n
        PROVE  h[i] = IF i = 0 THEN <<>> ELSE h[i - 1] \o Piece(o, c, i)
    <2>1. CASE i = 0
      BY <2>1
    <2>2. CASE i = 1
      BY <1>1, <2>2, FirstPiece, FieldsTextIs
    <2>3. CASE i # 0 /\ i # 1
      <3>1. i - 1 \in 0..n /\ i - 1 # 0 /\ i \in 2..Len(o)
        BY <1>1, <2>3
      <3>2. h[i] = FieldsText(o, c, i) /\ h[i - 1] = FieldsText(o, c, i - 1)
        BY <2>3, <3>1
      <3> HIDE DEF h
      <3>3. FieldsText(o, c, i) = FieldsText(o, c, i - 1) \o Piece(o, c, i)
        BY <3>1, NextPiece
      <3> QED BY <2>3, <3>2, <3>3, Zenon
    <2> QED BY <2>1, <2>2, <2>3
  <1>4. h = right(h)
    BY <1>3
  <1>5. fields = right(fields)
    BY <1>4, Zenon
  <1>6. \A i \in 0..n : fields[i] = IF i = 0 THEN <<>> ELSE fields[i - 1] \o Piece(o, c, i)
    BY <1>5, Zenon
  <1> DEFINE Same == {i \in Nat : i <= n => fields[i] = h[i]}
  <1>7. 0 \in Same
    <2>1. 0 \in 0..n
      BY <1>1
    <2> HIDE DEF fields, n, h
    <2> QED BY <1>3, <1>6, <2>1
  <1>8. ASSUME NEW i \in Nat, i \in Same PROVE i + 1 \in Same
    <2> SUFFICES ASSUME i + 1 <= n PROVE fields[i + 1] = h[i + 1]
      OBVIOUS
    <2> DEFINE k == i + 1
    <2>1. k \in 0..n /\ k # 0 /\ k - 1 = i /\ i <= n
      BY <1>1
    <2>2. fields[i] = h[i]
      BY <1>8, <2>1
    <2> HIDE DEF k, fields, n, h
    <2>3. fields[k] = h[k]
      BY <1>3, <1>6, <2>1, <2>2
    <2> QED BY <2>3 DEF k
  <1>9. Nat \subseteq Same
    BY <1>7, <1>8, Induction, Zenon
  <1>10. fields[n] = h[n]
    <2> HIDE DEF fields, h
    <2> QED BY <1>1, <1>9
  <1>11. h[n] = FieldsText(o, c, n)
    BY <1>1
  <1> HIDE DEF fields, h, right
  <1> QED BY <1>2, <1>10, <1>11

(* The text that TextOf makes, by position.                                *)
LEMMA TextIs ==
  ASSUME NEW o, NEW c, Fit(o, c)
  PROVE  /\ Object!TextOf(o, c) \in Seq(Object!Tokens)
         /\ Len(Object!TextOf(o, c)) = 4 * Len(o) + 1
         /\ Object!TextOf(o, c)[4 * Len(o) + 1] = Close
         /\ Spelled(Object!TextOf(o, c), o, c)
  <1> DEFINE n == Len(o)
             w == FieldsText(o, c, n)
             T == Object!Tokens
             text1 == Object!TextOf(o, c)
  <1>1. n \in Nat /\ n # 0 /\ DOMAIN o = 1..n
    BY DEF Fit
  <1>2. text1 = (<<Open>> \o w) \o <<Close>>
    BY FieldsAre
  <1>3. w \in Seq(T) /\ Len(w) = 4 * n - 1 /\ \A j \in 1..(4 * n - 1) : w[j] = Between(o, c, j)
    BY <1>1, FieldsTextIs
  <1>4. Open \in T /\ Close \in T
    BY TokenKinds
  <1> HIDE DEF w, n, T, text1
  <1>5. /\ text1 \in Seq(T) /\ Len(text1) = 4 * n + 1 /\ text1[1] = Open /\ text1[4 * n + 1] = Close
        /\ \A j \in 1..(4 * n - 1) : text1[j + 1] = w[j]
    <2>1. 4 * n - 1 \in Nat
      BY <1>1
    <2> DEFINE m == 4 * n - 1
    <2>2. m + 2 = 4 * n + 1 /\ m \in Nat /\ Len(w) = m
      BY <1>1, <1>3, <2>1
    <2> HIDE DEF m
    <2>3. /\ text1 \in Seq(T) /\ Len(text1) = m + 2 /\ text1[1] = Open /\ text1[m + 2] = Close
          /\ \A j \in 1..m : text1[j + 1] = w[j]
      BY <1>2, <1>3, <1>4, <2>2
    <2> QED BY <2>2, <2>3 DEF m
  <1>6. ASSUME NEW k \in 1..n
        PROVE  text1[4 * k - 2] = Name(o[k]) /\ text1[4 * k - 1] = Colon /\ text1[4 * k] = c[o[k]]
    <2>1. /\ 4 * k - 3 \in 1..(4 * n - 1) /\ (4 * k - 3) + 1 = 4 * k - 2
          /\ 4 * k - 2 \in 1..(4 * n - 1) /\ (4 * k - 2) + 1 = 4 * k - 1
          /\ 4 * k - 1 \in 1..(4 * n - 1) /\ (4 * k - 1) + 1 = 4 * k
          /\ k \in Nat
      BY <1>1
    <2>2. /\ text1[(4 * k - 3) + 1] = Between(o, c, 4 * k - 3)
          /\ text1[(4 * k - 2) + 1] = Between(o, c, 4 * k - 2)
          /\ text1[(4 * k - 1) + 1] = Between(o, c, 4 * k - 1)
      BY <1>3, <1>5, <2>1
    <2>3. /\ Between(o, c, 4 * k - 3) = Name(o[k]) /\ Between(o, c, 4 * k - 2) = Colon
          /\ Between(o, c, 4 * k - 1) = c[o[k]]
      BY <2>1, BetweenIs
    <2> QED BY <2>1, <2>2, <2>3
  <1>7. ASSUME NEW k \in 1..(n - 1) PROVE text1[4 * k + 1] = Comma
    <2>1. 4 * k \in 1..(4 * n - 1) /\ k \in Nat
      BY <1>1
    <2>2. text1[4 * k + 1] = Between(o, c, 4 * k)
      BY <1>3, <1>5, <2>1
    <2> QED BY <2>1, <2>2, BetweenIs
  <1>8. Spelled(text1, o, c)
    BY <1>5, <1>6, <1>7 DEF Spelled, n
  <1> QED BY <1>5, <1>8 DEF n, T, text1

-----------------------------------------------------------------------------
(* ConfigJson: texts that begin alike                                      *)

(* What was read, s, may become t.                                         *)
Follows(s, t) == Len(s) <= Len(t) /\ \A i \in 1..Len(s) : s[i] = t[i]

(* Begins, by the lengths of the two. *)
LEMMA PrefixFollows ==
  ASSUME NEW X, NEW s \in Seq(X), NEW t \in Seq(X), Object!Begins(t, s)
  PROVE  Follows(s, t)
  BY DEF Object!Begins, Follows

(* A text of which something is read already has the fields that were read. *)
Agrees(s, o, b, t, p, c) ==
  /\ s \in Seq(Object!Tokens) /\ t \in Seq(Object!Tokens) /\ Follows(s, t)
  /\ o \in Seq(Object!Fields) /\ p \in Seq(Object!Fields)
  /\ Spelled(s, o, b) /\ Spelled(t, p, c)
  /\ 4 * Len(o) <= Len(s) /\ Len(t) = 4 * Len(p) + 1

(* A text that agrees with what was read has its fields and their values.  *)
LEMMA SameFields ==
  ASSUME NEW s, NEW o, NEW b, NEW t, NEW p, NEW c, Agrees(s, o, b, t, p, c)
  PROVE  /\ Len(o) <= Len(p)
         /\ \A k \in 1..Len(o) : o[k] = p[k] /\ b[o[k]] = c[p[k]]
  <1> USE DEF Agrees
  <1>1. Len(o) \in Nat /\ Len(p) \in Nat /\ Len(s) \in Nat /\ Len(t) \in Nat
    OBVIOUS
  <1>2. Len(o) <= Len(p)
    BY <1>1 DEF Follows
  <1>3. ASSUME NEW k \in 1..Len(o) PROVE o[k] = p[k] /\ b[o[k]] = c[p[k]]
    <2>1. k \in 1..Len(p) /\ 4 * k - 2 \in 1..Len(s) /\ 4 * k \in 1..Len(s)
      BY <1>1, <1>2
    <2>2. s[4 * k - 2] = t[4 * k - 2] /\ s[4 * k] = t[4 * k]
      BY <2>1 DEF Follows
    <2>3. /\ s[4 * k - 2] = Name(o[k]) /\ t[4 * k - 2] = Name(p[k])
          /\ s[4 * k] = b[o[k]] /\ t[4 * k] = c[p[k]]
      BY <2>1 DEF Spelled
    <2>4. Name(o[k]) = Name(p[k])
      BY <2>2, <2>3
    <2>5. Name(o[k]).value = o[k] /\ Name(p[k]).value = p[k]
      BY TokenKinds
    <2> QED BY <2>2, <2>3, <2>4, <2>5
  <1> QED BY <1>2, <1>3

(* Two whole texts of the same fields are the same.                        *)
LEMMA SpelledEqual ==
  ASSUME NEW X, NEW s \in Seq(X), NEW t \in Seq(X), NEW Y, NEW o \in Seq(Y), NEW c,
         Spelled(s, o, c), Spelled(t, o, c), o # <<>>,
         Len(s) = 4 * Len(o) + 1, Len(t) = 4 * Len(o) + 1,
         s[4 * Len(o) + 1] = t[4 * Len(o) + 1]
  PROVE  s = t
  <1>1. Len(o) \in Nat
    OBVIOUS
  <1>2. ASSUME NEW j \in 1..Len(s) PROVE s[j] = t[j]
    <2>1. CASE j = 4 * Len(o) + 1
      BY <2>1
    <2>2. CASE j # 4 * Len(o) + 1
      <3>1. j \in 1..(4 * Len(o))
        BY <1>1, <2>2
      <3>2. PICK k \in 1..Len(o) : j = 4 * k - 3 \/ j = 4 * k - 2 \/ j = 4 * k - 1 \/ j = 4 * k
        BY <1>1, <3>1, FourCases
      <3>3. CASE j = 4 * k - 3
        <4>1. CASE k = 1
          BY <3>3, <4>1 DEF Spelled
        <4>2. CASE k # 1
          <5> DEFINE i == k - 1
          <5>1. i \in 1..(Len(o) - 1) /\ j = 4 * i + 1
            BY <1>1, <3>3, <4>2
          <5> HIDE DEF i
          <5> QED BY <5>1 DEF Spelled
        <4> QED BY <4>1, <4>2
      <3>4. CASE j = 4 * k - 2
        BY <3>4 DEF Spelled
      <3>5. CASE j = 4 * k - 1
        BY <3>5 DEF Spelled
      <3>6. CASE j = 4 * k
        BY <3>6 DEF Spelled
      <3> QED BY <3>2, <3>3, <3>4, <3>5, <3>6
    <2> QED BY <2>1, <2>2
  <1> QED BY <1>2, SeqEqual

(* One more token. *)
LEMMA SpelledMore ==
  ASSUME NEW X, NEW s \in Seq(X), NEW t \in X, NEW Y, NEW o \in Seq(Y), NEW c,
         Spelled(s, o, c), 4 * Len(o) <= Len(s), Len(s) # 0
  PROVE  /\ Append(s, t) \in Seq(X) /\ Len(Append(s, t)) = Len(s) + 1
         /\ Append(s, t)[Len(s) + 1] = t /\ \A i \in 1..Len(s) : Append(s, t)[i] = s[i]
         /\ Spelled(Append(s, t), o, c)
  BY DEF Spelled

(* The orders of the fields. *)

IsOrder(o) == /\ o \in Seq(Object!Fields)
              /\ \A i, j \in 1..Len(o) : o[i] = o[j] => i = j

(* The cardinality of the library that the model takes is the one of the   *)
(* proofs.                                                                 *)
LEMMA CardinalityIs == \A S : Object!Cardinality(S) = Cardinality(S)
  BY DEF Object!Cardinality, Cardinality

(* There are finitely many fields, and some.                               *)
LEMMA FieldsFinite ==
  /\ IsFiniteSet(Object!Fields) /\ Object!Fields # {}
  /\ Cardinality(Object!Fields) \in Nat \ {0}
  <1>1. /\ FieldOrder \in Seq(Object!Fields)
        /\ Object!Fields = {FieldOrder[i] : i \in DOMAIN FieldOrder}
        /\ Object!Fields # {}
    BY ConversionsAssumption DEF Object!ConfigJsonAssumption, Object!Range
  <1> DEFINE F == Object!Fields
             n == Len(FieldOrder)
  <1> HIDE DEF F
  <1>2. n \in Nat /\ FieldOrder \in [1..n -> F] /\ \A f \in F : \E i \in 1..n : FieldOrder[i] = f
    BY <1>1 DEF F
  <1>3. FieldOrder \in Surjection(1..n, F)
    BY <1>2 DEF Surjection
  <1>4. IsFiniteSet(1..n)
    BY <1>2, FS_Interval
  <1>5. IsFiniteSet(F)
    BY <1>3, <1>4, FS_Surjection
  <1>6. Cardinality(F) \in Nat /\ Cardinality(F) # 0
    BY <1>1, <1>5, FS_CardinalityType, FS_EmptySet DEF F
  <1> QED BY <1>1, <1>5, <1>6 DEF F

(* The orders of the fields name each of them once.                        *)
LEMMA OrdersAre ==
  \A o : o \in Object!Orders <=>
           /\ IsOrder(o) /\ o # <<>>
           /\ Len(o) = Cardinality(Object!Fields)
           /\ \A f \in Object!Fields : \E i \in 1..Len(o) : o[i] = f
  <1> DEFINE F == Object!Fields
             n == Cardinality(F)
  <1>1. n \in Nat /\ n # 0 /\ IsFiniteSet(F)
    BY FieldsFinite
  <1>2. Object!Orders = {o \in [1..n -> F] : \A i, j \in DOMAIN o : o[i] = o[j] => i = j}
    BY CardinalityIs DEF Object!Orders, Object!IsInjective
  <1> HIDE DEF F, n
  <1>3. ASSUME NEW o \in Object!Orders
        PROVE  /\ o \in Seq(F) /\ (\A i, j \in 1..Len(o) : o[i] = o[j] => i = j) /\ o # <<>>
               /\ Len(o) = n /\ \A f \in F : \E i \in 1..Len(o) : o[i] = f
    <2>1. o \in [1..n -> F] /\ \A i, j \in 1..n : o[i] = o[j] => i = j
      BY <1>2
    <2>2. o \in Injection(1..n, F)
      BY <2>1 DEF Injection, IsInjective
    <2>3. IsFiniteSet(1..n) /\ Cardinality(1..n) = n
      BY <1>1, FS_Interval
    <2>4. o \in Surjection(1..n, F)
      BY <2>3, <1>1, <2>2, FS_Injection DEF n
    <2>5. \A f \in F : \E i \in 1..n : o[i] = f
      BY <2>4 DEF Surjection
    <2>6. o \in Seq(F) /\ Len(o) = n /\ o # <<>>
      BY <1>1, <2>1
    <2> QED BY <2>1, <2>5, <2>6
  <1>4. ASSUME NEW o, o \in Seq(F), \A i, j \in 1..Len(o) : o[i] = o[j] => i = j, Len(o) = n
        PROVE  o \in Object!Orders
    BY <1>1, <1>4, <1>2
  <1> QED BY <1>3, <1>4 DEF IsOrder, F, n

(* And fields that are named once, all of them, are an order.              *)
LEMMA WholeOrder ==
  ASSUME NEW o, IsOrder(o), \A f \in Object!Fields : \E i \in 1..Len(o) : o[i] = f
  PROVE  o \in Object!Orders
  <1> DEFINE F == Object!Fields
             n == Len(o)
  <1>1. IsFiniteSet(F) /\ F # {}
    BY FieldsFinite
  <1>2. /\ o \in Seq(F) /\ (\A i, j \in 1..n : o[i] = o[j] => i = j)
        /\ \A f \in F : \E i \in 1..n : o[i] = f
    BY DEF IsOrder
  <1> HIDE DEF F
  <1>3. n \in Nat /\ o \in [1..n -> F] /\ o # <<>>
    BY <1>1, <1>2
  <1>4. o \in Injection(1..n, F) /\ o \in Surjection(1..n, F)
    BY <1>2, <1>3 DEF Injection, IsInjective, Surjection
  <1>5. IsFiniteSet(1..n) /\ Cardinality(1..n) = n
    BY <1>3, FS_Interval
  <1>6. Cardinality(F) = n
    BY <1>1, <1>4, FS_Injection, <1>5
  <1> QED BY <1>3, <1>6, OrdersAre DEF F

-----------------------------------------------------------------------------
(* ConfigJson: where the parser is                                         *)

(* Where the parser is in the text s when it has read the fields o: it     *)
(* expects e, and k and b are its key and its object.                      *)
StageOf(e, k, b, s, o) ==
  /\ e # "object" => Len(s) # 0 /\ Spelled(s, o, b)
  /\ e \in {"colon", "value", "key"} => (Len(o) # 0 => s[4 * Len(o) + 1] = Comma)
  /\ e \in {"colon", "value"} => s[4 * Len(o) + 2] = Name(k)
  /\ e = "object" => Len(s) = 0 /\ Len(o) = 0
  /\ e = "first" => Len(s) = 1 /\ Len(o) = 0
  /\ e = "colon" => Len(s) = 4 * Len(o) + 2
  /\ e = "value" => Len(s) = 4 * Len(o) + 3 /\ s[4 * Len(o) + 3] = Colon
  /\ e = "separator" => Len(o) # 0 /\ Len(s) = 4 * Len(o)
  /\ e = "key" => Len(o) # 0 /\ Len(s) = 4 * Len(o) + 1
  /\ e \in {"end", "accepted"} =>
       s[Len(s)] = Close /\ Len(s) = IF Len(o) = 0 THEN 2 ELSE 4 * Len(o) + 1

(* o are the fields of b, in the order they were read.                     *)
FieldsOf(b, o) == IsOrder(o) /\ DOMAIN b = {o[i] : i \in 1..Len(o)}

(* The same of the state of the parser.                                    *)
Stage(s, o) == StageOf(expect, key, object, s, o)
FieldsRead(o) == FieldsOf(object, o)

(* A text in some order: what TextOf makes. *)
IsText(t, p, c) ==
  /\ t \in Seq(Object!Tokens) /\ Len(t) = 4 * Len(p) + 1
  /\ t[4 * Len(p) + 1] = Close /\ Spelled(t, p, c)

(* The texts of configurations.                                            *)
LEMMA OrderText ==
  ASSUME NEW p \in Object!Orders, NEW c \in Object!Configs
  PROVE  IsText(Object!TextOf(p, c), p, c) /\ Fit(p, c)
  BY OrdersAre, TextIs DEF Fit, IsOrder, Object!Configs, ValueTokens, IsText

(* As long as what was read may become t, the token of t that is next is   *)
(* one that the parser accepts.                                            *)
LEMMA NextIsAcceptable ==
  ASSUME expect \in Object!Parsing, NEW s \in Seq(Object!Tokens), NEW o, FieldsRead(o), Stage(s, o),
         NEW p \in Object!Orders, NEW c \in Object!Configs, NEW t, IsText(t, p, c),
         Follows(s, t), Len(s) + 1 <= Len(t)
  PROVE  Object!Acceptable(t[Len(s) + 1])
  <1> DEFINE n == Len(o)
             m == Len(p)
             F == Object!Fields
             next == t[Len(s) + 1]
  <1>1. /\ o \in Seq(F) /\ p \in Seq(F) /\ p # <<>>
        /\ \A i, j \in 1..Len(p) : p[i] = p[j] => i = j
    BY OrdersAre DEF FieldsRead, FieldsOf, IsOrder
  <1>2. n \in Nat /\ m \in Nat /\ m # 0 /\ Len(s) \in Nat /\ Len(t) = 4 * m + 1
    BY <1>1 DEF IsText
  <1>3. \A k \in 1..m : t[4 * k - 2] = Name(p[k]) /\ t[4 * k - 1] = Colon /\ t[4 * k] = c[p[k]]
    BY DEF IsText, Spelled
  <1>4. /\ t[1] = Open /\ t[4 * m + 1] = Close
        /\ \A k \in 1..(m - 1) : t[4 * k + 1] = Comma
    BY DEF IsText, Spelled
  <1>5. \A i \in 1..Len(s) : s[i] = t[i]
    BY DEF Follows
  <1>6. expect # "object" /\ 4 * n <= Len(s) =>
          n <= m /\ \A k \in 1..n : o[k] = p[k]
    BY <1>1, SameFields DEF IsText, Stage, StageOf, Agrees
  <1>7. /\ Open.kind = "{" /\ Close.kind = "}" /\ Colon.kind = ":" /\ Comma.kind = ","
        /\ \A f : Name(f).kind = "string" /\ Name(f).value = f
    BY TokenKinds
  <1>8. \A k \in 1..m : p[k] \in F /\ c[p[k]].kind \in {"string", "integer"}
    <2>1. \A k \in 1..m : p[k] \in F
      BY <1>1
    <2>2. \A f \in F : c[f] \in ValueTokens
      BY DEF Object!Configs, ValueTokens
    <2> QED BY <2>1, <2>2, TokenKinds
  <1> HIDE DEF n, m, F
  <1>9. CASE expect = "object"
    <2>1. Len(s) = 0 /\ next = Open
      BY <1>4, <1>9 DEF Stage, StageOf
    <2> QED BY <1>7, <1>9, <2>1 DEF Object!Acceptable
  <1>10. CASE expect = "first"
    <2>1. Len(s) = 1
      BY <1>10 DEF Stage, StageOf
    <2>2. 1 \in 1..m /\ 4 * 1 - 2 = 2
      BY <1>2
    <2>3. t[2] = Name(p[1])
      BY <1>3, <2>2
    <2>4. next = Name(p[1]) /\ p[1] \in F
      BY <1>8, <2>1, <2>2, <2>3
    <2> QED BY <1>7, <1>10, <2>4 DEF Object!Acceptable, Object!IsKnownField, F
  <1>11. CASE expect = "colon"
    <2>1. Len(s) = 4 * n + 2
      BY <1>11 DEF Stage, StageOf, n
    <2>2. n + 1 \in 1..m /\ 4 * (n + 1) - 1 = Len(s) + 1
      BY <1>2, <2>1
    <2>3. next = Colon
      BY <1>3, <2>2
    <2> QED BY <1>7, <1>11, <2>3 DEF Object!Acceptable
  <1>12. CASE expect = "value"
    <2>1. Len(s) = 4 * n + 3 /\ s[4 * n + 2] = Name(key)
      BY <1>12 DEF Stage, StageOf, n
    <2>2. n + 1 \in 1..m /\ 4 * (n + 1) = Len(s) + 1 /\ 4 * (n + 1) - 2 = 4 * n + 2
          /\ 4 * n + 2 \in 1..Len(s)
      BY <1>2, <2>1
    <2>3. next = c[p[n + 1]]
      BY <1>3, <2>2
    <2>4. key = p[n + 1]
      <3>1. t[4 * n + 2] = Name(p[n + 1]) /\ t[4 * n + 2] = Name(key)
        BY <1>3, <1>5, <2>1, <2>2
      <3>2. Name(key).value = Name(p[n + 1]).value
        BY <3>1
      <3> QED BY <1>7, <3>2
    <2>5. key \notin DOMAIN object
      <3>1. \A k \in 1..n : o[k] = p[k] /\ k \in 1..m /\ k # n + 1
        BY <1>2, <1>6, <1>12, <2>1
      <3>2. \A k \in 1..n : o[k] # key
        BY <1>1, <2>2, <2>4, <3>1 DEF m
      <3> QED BY <3>2 DEF FieldsRead, FieldsOf, n
    <2>6. next.kind \in {"string", "integer"}
      BY <1>8, <2>2, <2>3
    <2> QED BY <1>12, <2>5, <2>6 DEF Object!Acceptable
  <1>13. CASE expect = "separator"
    <2>1. Len(s) = 4 * n /\ n # 0
      BY <1>13 DEF Stage, StageOf, n
    <2>2. n \in 1..m
      BY <1>2, <1>6, <1>13, <2>1
    <2>3. CASE n = m
      BY <1>4, <2>1, <2>3, <1>7, <1>13, Zenon DEF Object!Acceptable
    <2>4. CASE n # m
      <3>1. n \in 1..(m - 1)
        BY <1>2, <2>2, <2>4
      <3>2. next = Comma
        BY <1>4, <2>1, <3>1
      <3> QED BY <1>7, <1>13, <3>2 DEF Object!Acceptable
    <2> QED BY <2>3, <2>4
  <1>14. CASE expect = "key"
    <2>1. Len(s) = 4 * n + 1
      BY <1>14 DEF Stage, StageOf, n
    <2>2. n + 1 \in 1..m /\ 4 * (n + 1) - 2 = Len(s) + 1
      BY <1>2, <2>1
    <2>3. next = Name(p[n + 1]) /\ p[n + 1] \in F
      BY <1>3, <1>8, <2>2
    <2> QED BY <1>7, <1>14, <2>3 DEF Object!Acceptable, Object!IsKnownField, F
  <1>15. CASE expect = "end"
    <2>1. s[Len(s)] = Close /\ Len(s) = IF n = 0 THEN 2 ELSE 4 * n + 1
      BY <1>15 DEF Stage, StageOf, n
    <2>2. CASE n = 0
      <3>1. 1 \in 1..m /\ 4 * 1 - 2 = 2 /\ 2 \in 1..Len(s)
        BY <1>2, <2>1, <2>2
      <3>2. t[2] = Name(p[1]) /\ t[2] = Close
        BY <1>3, <1>5, <2>1, <2>2, <3>1
      <3>3. Name(p[1]).kind = "string" /\ Close.kind = "}"
        BY <1>7
      <3>4. FALSE
        BY <3>2, <3>3
      <3> QED BY <3>4
    <2>3. CASE n # 0
      <3>1. n \in 1..(m - 1) /\ Len(s) \in 1..Len(s)
        BY <1>2, <2>1, <2>3
      <3>2. t[4 * n + 1] = Comma /\ t[4 * n + 1] = Close
        BY <1>4, <1>5, <2>1, <2>3, <3>1
      <3>3. FALSE
        BY <1>7, <3>2
      <3> QED BY <3>3
    <2> QED BY <2>2, <2>3
  <1> QED BY <1>9, <1>10, <1>11, <1>12, <1>13, <1>14, <1>15 DEF Object!Parsing

(* When the whole of t was read, the parser is at the end and has the      *)
(* fields of t in their order.                                             *)
LEMMA WholeIsRead ==
  ASSUME expect \in Object!Parsing \cup {"accepted"},
         NEW s \in Seq(Object!Tokens), NEW o, FieldsRead(o), Stage(s, o),
         NEW p \in Object!Orders, NEW c \in Object!Configs, NEW t, IsText(t, p, c),
         Follows(s, t), Len(s) = Len(t)
  PROVE  /\ expect \in {"end", "accepted"} /\ DOMAIN object = Object!Fields
         /\ \A f \in Object!Fields : object[f] = c[f]
  <1> DEFINE n == Len(o)
             m == Len(p)
             F == Object!Fields
  <1>1. /\ o \in Seq(F) /\ p \in Seq(F) /\ p # <<>>
        /\ \A f \in F : \E i \in 1..m : p[i] = f
    BY OrdersAre DEF FieldsRead, FieldsOf, IsOrder
  <1>2. n \in Nat /\ m \in Nat /\ m # 0 /\ Len(s) = 4 * m + 1
    BY <1>1 DEF IsText
  <1>3. expect # "object" /\ 4 * n <= Len(s) =>
          n <= m /\ \A k \in 1..n : o[k] = p[k] /\ object[o[k]] = c[p[k]]
    <2> SUFFICES ASSUME expect # "object", 4 * n <= Len(s)
                 PROVE  n <= m /\ \A k \in 1..n : o[k] = p[k] /\ object[o[k]] = c[p[k]]
      OBVIOUS
    <2>1. t \in Seq(Object!Tokens) /\ Spelled(t, p, c) /\ Len(t) = 4 * Len(p) + 1
      BY DEF IsText
    <2>2. Spelled(s, o, object)
      BY DEF Stage, StageOf
    <2>3. Agrees(s, o, object, t, p, c)
      BY <1>1, <2>1, <2>2 DEF Agrees
    <2> QED BY <2>3, SameFields
  <1>4. t[4 * m + 1] = Close /\ \A i \in 1..Len(s) : s[i] = t[i]
    BY DEF IsText, Follows
  <1>5. Close # Comma
    BY TokenKinds
  <1> HIDE DEF n, m, F
  <1>6. expect \in {"end", "accepted"}
    BY <1>2, <1>4, <1>5 DEF Stage, StageOf, n, Object!Parsing
  <1>7. n = m
    BY <1>6, <1>2 DEF Stage, StageOf, n
  <1>8. \A k \in 1..m : o[k] = p[k] /\ object[o[k]] = c[p[k]]
    BY <1>2, <1>3, <1>6, <1>7
  <1>9. DOMAIN object = {p[i] : i \in 1..m}
    BY <1>7, <1>8 DEF FieldsRead, FieldsOf, n
  <1>10. DOMAIN object = F
    <2>1. \A i \in 1..m : p[i] \in F
      BY <1>1 DEF m
    <2> QED BY <1>1, <1>9, <2>1
  <1>11. \A f \in F : object[f] = c[f]
    BY <1>1, <1>8
  <1> QED BY <1>6, <1>10, <1>11 DEF F

-----------------------------------------------------------------------------
(* ConfigJson: a token more                                                *)

(* The steps of the parser, on the text without whitespace. *)

(* The opening brace.                                                      *)
LEMMA StartStage ==
  ASSUME NEW k, NEW b, NEW s \in Seq(Object!Tokens), NEW o, FieldsOf(b, o),
         StageOf("object", k, b, s, o)
  PROVE  StageOf("first", k, b, Append(s, Open), o)
  <1>1. Len(s) = 0 /\ Len(o) = 0
    BY DEF StageOf
  <1>2. Open \in Object!Tokens
    BY TokenKinds
  <1> DEFINE u == Append(s, Open)
             T == Object!Tokens
  <1>3. s \in Seq(T) /\ Open \in T
    BY <1>2
  <1> HIDE DEF T
  <1>4. Len(u) = 1 /\ u[1] = Open
    BY <1>1, <1>3
  <1> HIDE DEF u
  <1>5. Spelled(u, o, b)
    BY <1>1, <1>4 DEF Spelled
  <1>6. StageOf("first", k, b, u, o)
    BY <1>1, <1>4, <1>5 DEF StageOf
  <1> QED BY <1>6 DEF u

(* What stays so when a token is read, whichever it is.                    *)
LEMMA MoreStage ==
  ASSUME NEW e, NEW k, NEW b, NEW s \in Seq(Object!Tokens), NEW o, FieldsOf(b, o),
         StageOf(e, k, b, s, o), e # "object", 4 * Len(o) <= Len(s),
         NEW t \in Object!Tokens
  PROVE  /\ Len(o) \in Nat /\ Len(s) \in Nat
         /\ Len(Append(s, t)) = Len(s) + 1
         /\ Append(s, t)[Len(s) + 1] = t
         /\ \A i \in 1..Len(s) : Append(s, t)[i] = s[i]
         /\ Spelled(Append(s, t), o, b)
  BY SpelledMore DEF FieldsOf, IsOrder, StageOf

(* The name of a field.                                                    *)
LEMMA KeyStage ==
  ASSUME NEW e \in {"first", "key"}, NEW k, NEW b, NEW s \in Seq(Object!Tokens), NEW o,
         FieldsOf(b, o), StageOf(e, k, b, s, o), NEW f \in Object!Fields
  PROVE  StageOf("colon", f, b, Append(s, Name(f)), o)
  <1> DEFINE u == Append(s, Name(f))
  <1>1. Len(o) \in Nat /\ Len(s) \in Nat /\ Len(s) = 4 * Len(o) + 1
        /\ (Len(o) # 0 => s[4 * Len(o) + 1] = Comma)
    <2>1. Len(o) \in Nat /\ Len(s) \in Nat
      BY DEF FieldsOf, IsOrder
    <2>2. CASE e = "first"
      BY <2>1, <2>2 DEF StageOf
    <2>3. CASE e = "key"
      BY <2>1, <2>3 DEF StageOf
    <2> QED BY <2>2, <2>3
  <1>2. /\ Len(u) = Len(s) + 1 /\ u[Len(s) + 1] = Name(f)
        /\ (\A i \in 1..Len(s) : u[i] = s[i]) /\ Spelled(u, o, b)
    <2>1. 4 * Len(o) <= Len(s) /\ e # "object"
      BY <1>1
    <2>2. Name(f) \in Object!Tokens
      BY TokenKinds
    <2> QED BY <2>1, <2>2, MoreStage
  <1> HIDE DEF u
  <1>3. /\ Len(u) = 4 * Len(o) + 2 /\ u[4 * Len(o) + 2] = Name(f) /\ Len(u) # 0
        /\ (Len(o) # 0 => u[4 * Len(o) + 1] = Comma)
    BY <1>1, <1>2
  <1>4. StageOf("colon", f, b, u, o)
    BY <1>2, <1>3 DEF StageOf
  <1> QED BY <1>4 DEF u

(* The colon.                                                              *)
LEMMA ColonStage ==
  ASSUME NEW k, NEW b, NEW s \in Seq(Object!Tokens), NEW o,
         FieldsOf(b, o), StageOf("colon", k, b, s, o)
  PROVE  StageOf("value", k, b, Append(s, Colon), o)
  <1> DEFINE u == Append(s, Colon)
             e == "colon"
  <1>1. Len(o) \in Nat /\ Len(s) \in Nat /\ Len(s) = 4 * Len(o) + 2
        /\ (Len(o) # 0 => s[4 * Len(o) + 1] = Comma) /\ s[4 * Len(o) + 2] = Name(k)
    BY DEF FieldsOf, IsOrder, StageOf
  <1>2. /\ Len(u) = Len(s) + 1 /\ u[Len(s) + 1] = Colon
        /\ (\A i \in 1..Len(s) : u[i] = s[i]) /\ Spelled(u, o, b)
    <2>1. 4 * Len(o) <= Len(s)
      BY <1>1
    <2>2. Colon \in Object!Tokens
      BY TokenKinds
    <2>3. e # "object" /\ StageOf(e, k, b, s, o)
      OBVIOUS
    <2> HIDE DEF e
    <2> QED BY <2>1, <2>2, <2>3, MoreStage
  <1> HIDE DEF u
  <1>3. /\ Len(u) = 4 * Len(o) + 3 /\ u[4 * Len(o) + 3] = Colon /\ Len(u) # 0
        /\ u[4 * Len(o) + 2] = Name(k)
        /\ (Len(o) # 0 => u[4 * Len(o) + 1] = Comma)
    BY <1>1, <1>2
  <1>4. StageOf("value", k, b, u, o)
    BY <1>2, <1>3 DEF StageOf
  <1> QED BY <1>4 DEF u

(* The value of a field that has none yet: the field is read.              *)
LEMMA ValueStage ==
  ASSUME NEW k \in Object!Fields, NEW b, NEW s \in Seq(Object!Tokens), NEW o,
         FieldsOf(b, o), StageOf("value", k, b, s, o), k \notin DOMAIN b,
         NEW t \in ValueTokens, NEW c,
         c = [f \in DOMAIN b \cup {k} |-> IF f = k THEN t ELSE b[f]]
  PROVE  FieldsOf(c, Append(o, k)) /\ StageOf("separator", k, c, Append(s, t), Append(o, k))
  <1> DEFINE u == Append(s, t)
             p == Append(o, k)
             e == "value"
             n == Len(o)
             F == Object!Fields
  <1>1. /\ n \in Nat /\ Len(s) = 4 * n + 3 /\ o \in Seq(F)
        /\ (n # 0 => s[4 * n + 1] = Comma) /\ s[4 * n + 2] = Name(k) /\ s[4 * n + 3] = Colon
        /\ (\A i, j \in 1..n : o[i] = o[j] => i = j) /\ DOMAIN b = {o[i] : i \in 1..n}
    BY DEF FieldsOf, IsOrder, StageOf
  <1>2. /\ Len(u) = Len(s) + 1 /\ u[Len(s) + 1] = t
        /\ (\A i \in 1..Len(s) : u[i] = s[i]) /\ Spelled(u, o, b)
    <2>1. 4 * Len(o) <= Len(s)
      BY <1>1 DEF n
    <2>2. t \in Object!Tokens
      BY TokenKinds
    <2>3. e # "object" /\ StageOf(e, k, b, s, o)
      OBVIOUS
    <2> HIDE DEF e
    <2> QED BY <2>1, <2>2, <2>3, MoreStage
  <1> HIDE DEF F, n, u
  <1>3. /\ p \in Seq(F) /\ Len(p) = n + 1 /\ p[n + 1] = k /\ \A i \in 1..n : p[i] = o[i]
    BY <1>1 DEF n, F
  <1> HIDE DEF p
  <1>4. \A i \in 1..n : o[i] # k /\ o[i] \in DOMAIN b
    BY <1>1
  <1>5. \A i, j \in 1..(n + 1) : p[i] = p[j] => i = j
    BY <1>1, <1>3, <1>4
  <1>6. DOMAIN c = {p[i] : i \in 1..(n + 1)}
    <2>1. \A i \in 1..(n + 1) : i \in 1..n \/ i = n + 1
      BY <1>1
    <2>2. n + 1 \in 1..(n + 1) /\ \A i \in 1..n : i \in 1..(n + 1)
      BY <1>1
    <2>3. DOMAIN c = DOMAIN b \cup {k}
      OBVIOUS
    <2> QED BY <1>1, <1>3, <2>1, <2>2, <2>3, SMTT(30)
  <1>7. FieldsOf(c, p)
    BY <1>3, <1>5, <1>6 DEF FieldsOf, IsOrder, F
  <1>8. Spelled(u, p, c)
    <2>1. u[1] = Open
      BY <1>2 DEF Spelled
    <2>2. ASSUME NEW i \in 1..Len(p)
          PROVE  u[4 * i - 2] = Name(p[i]) /\ u[4 * i - 1] = Colon /\ u[4 * i] = c[p[i]]
      <3>1. CASE i \in 1..n
        BY <1>2, <3>1, <1>4, <1>3, Zenon DEF Spelled, n
      <3>2. CASE i = n + 1
        BY <1>1, <3>2, <1>2, <1>3
      <3> QED BY <1>1, <1>3, <3>1, <3>2
    <2>3. ASSUME NEW i \in 1..(Len(p) - 1) PROVE u[4 * i + 1] = Comma
      <3>1. CASE i \in 1..(n - 1)
        BY <1>2, <3>1 DEF Spelled, n
      <3>2. CASE i = n /\ n # 0
        BY <1>1, <1>2, <3>2
      <3>3. i \in 1..(n - 1) \/ (i = n /\ n # 0)
        BY <1>1, <1>3
      <3> QED BY <3>1, <3>2, <3>3
    <2> QED BY <2>1, <2>2, <2>3 DEF Spelled
  <1>9. Len(u) = 4 * Len(p) /\ Len(p) # 0 /\ Len(u) # 0
    BY <1>1, <1>2, <1>3
  <1>10. StageOf("separator", k, c, u, p)
    BY <1>8, <1>9 DEF StageOf
  <1> QED BY <1>7, <1>10 DEF u, p

(* The comma.                                                              *)
LEMMA CommaStage ==
  ASSUME NEW k, NEW b, NEW s \in Seq(Object!Tokens), NEW o,
         FieldsOf(b, o), StageOf("separator", k, b, s, o)
  PROVE  StageOf("key", k, b, Append(s, Comma), o)
  <1> DEFINE u == Append(s, Comma)
             e == "separator"
  <1>1. Len(o) \in Nat /\ Len(s) = 4 * Len(o) /\ Len(o) # 0
    BY DEF FieldsOf, IsOrder, StageOf
  <1>2. Len(u) = Len(s) + 1 /\ u[Len(s) + 1] = Comma /\ Spelled(u, o, b)
    <2>1. 4 * Len(o) <= Len(s)
      BY <1>1
    <2>2. Comma \in Object!Tokens
      BY TokenKinds
    <2>3. e # "object" /\ StageOf(e, k, b, s, o)
      OBVIOUS
    <2> HIDE DEF e
    <2> QED BY <2>1, <2>2, <2>3, MoreStage
  <1> HIDE DEF u
  <1>3. Len(u) = 4 * Len(o) + 1 /\ u[4 * Len(o) + 1] = Comma /\ Len(u) # 0
    BY <1>1, <1>2
  <1>4. StageOf("key", k, b, u, o)
    BY <1>1, <1>2, <1>3 DEF StageOf
  <1> QED BY <1>4 DEF u

(* The closing brace.                                                      *)
LEMMA CloseStage ==
  ASSUME NEW e \in {"first", "separator"}, NEW k, NEW b, NEW s \in Seq(Object!Tokens), NEW o,
         FieldsOf(b, o), StageOf(e, k, b, s, o)
  PROVE  StageOf("end", k, b, Append(s, Close), o)
  <1> DEFINE u == Append(s, Close)
  <1>1. Len(o) \in Nat /\ Len(s) = IF Len(o) = 0 THEN 1 ELSE 4 * Len(o)
    BY DEF FieldsOf, IsOrder, StageOf
  <1>2. Len(u) = Len(s) + 1 /\ u[Len(s) + 1] = Close /\ Spelled(u, o, b)
    <2>1. 4 * Len(o) <= Len(s)
      BY <1>1
    <2>2. Close \in Object!Tokens
      BY TokenKinds
    <2>3. e # "object"
      OBVIOUS
    <2> QED BY <2>1, <2>2, <2>3, MoreStage
  <1> HIDE DEF u
  <1>3. Len(u) = (IF Len(o) = 0 THEN 2 ELSE 4 * Len(o) + 1) /\ u[Len(u)] = Close /\ Len(u) # 0
    BY <1>1, <1>2
  <1>4. StageOf("end", k, b, u, o)
    BY <1>2, <1>3 DEF StageOf
  <1> QED BY <1>4 DEF u

-----------------------------------------------------------------------------
(* ConfigJson: the invariant of the parser                                 *)

(* The types of the variables.                                             *)
ObjectType ==
  /\ size \in 0..MaxTokens
  /\ read \in Seq(Object!Tokens) /\ Len(read) <= size
  /\ expect \in Object!Parsing \cup {"parse", "accepted", "rejected"}
  /\ key \in Object!Fields
  /\ DOMAIN object \subseteq Object!Fields
  /\ object \in [DOMAIN object -> ValueTokens]

(* What was read is the beginning of a text, some fields of it whole. *)
Begun == \E o : FieldsRead(o) /\ Stage(Object!WithoutSpace(read), o)

(* What the parser knows at each point.                                    *)
ObjectWell ==
  /\ expect = "parse" => read = <<>> /\ object = <<>>
  /\ expect \in Object!Parsing \cup {"accepted"} => size <= MaxJson /\ Begun
  /\ expect = "accepted" => Len(read) = size /\ Object!ReadFields(object)
  /\ expect = "rejected" => Object!RefusesOnlyOthers

(* The inductive invariant of the parser.                                  *)
ObjectInv == subject = "object" => ObjectType /\ ObjectWell

(* A token is read. *)
LEMMA TokenRead ==
  ASSUME ObjectType, NEW t \in Object!Tokens, NEW before, NEW after, Object!Read(t, before, after)
  PROVE  /\ size' = size /\ expect \in before /\ expect' = after
         /\ Len(read') = Len(read) + 1 /\ Len(read) < size
         /\ read' \in Seq(Object!Tokens) /\ Len(read') <= size
         /\ Object!WithoutSpace(read) \in Seq(Object!Tokens)
         /\ Object!WithoutSpace(read') =
              IF t.kind = "space" THEN Object!WithoutSpace(read)
              ELSE Append(Object!WithoutSpace(read), t)
  BY SolidFacts DEF Object!Read, ObjectType

(* What was read is what a text of a configuration begins with only if the *)
(* token behind it is acceptable.                                          *)
LEMMA RefusedIsOther ==
  ASSUME ObjectType, expect \in Object!Parsing, Begun,
         NEW t \in Object!Tokens, ~ Object!Acceptable(t), t.kind # "space",
         NEW p \in Object!Orders, NEW c \in Object!Configs
  PROVE  ~ Object!Begins(Object!TextOf(p, c), Append(Object!WithoutSpace(read), t))
  <1> DEFINE T == Object!Tokens
             s == Object!WithoutSpace(read)
             u == Append(s, t)
             w == Object!TextOf(p, c)
  <1>1. s \in Seq(T)
    BY SolidFacts DEF ObjectType
  <1>2. IsText(w, p, c)
    BY OrderText
  <1>3. PICK o : FieldsRead(o) /\ Stage(s, o)
    BY DEF Begun
  <1> SUFFICES ASSUME Object!Begins(w, u) PROVE FALSE
    OBVIOUS
  <1> HIDE DEF s, w
  <1>4. u \in Seq(T) /\ Len(u) = Len(s) + 1 /\ u[Len(s) + 1] = t
        /\ Len(s) \in Nat /\ \A i \in 1..Len(s) : u[i] = s[i]
    BY <1>1
  <1>5. w \in Seq(T)
    BY <1>2 DEF IsText
  <1> HIDE DEF u, T
  <1>6. Follows(u, w)
    BY <1>4, <1>5, PrefixFollows
  <1>7. Follows(s, w) /\ Len(s) + 1 <= Len(w) /\ w[Len(s) + 1] = t
    BY <1>5, <1>4, <1>6 DEF Follows
  <1>8. Object!Acceptable(w[Len(s) + 1])
    BY <1>1, <1>2, <1>3, <1>7, NextIsAcceptable DEF T
  <1> QED BY <1>7, <1>8

(* The same at the end of the input: no text is only missing nothing.      *)
LEMMA EndedIsOther ==
  ASSUME ObjectType, expect \in Object!Parsing, Begun, Len(read) = size,
         ~ (expect = "end" /\ Object!ReadFields(object)),
         NEW p \in Object!Orders, NEW c \in Object!Configs
  PROVE  ~ /\ Object!Begins(Object!TextOf(p, c), Object!WithoutSpace(read))
           /\ Len(Object!TextOf(p, c)) - Len(Object!WithoutSpace(read)) <= size - Len(read)
  <1> DEFINE T == Object!Tokens
             s == Object!WithoutSpace(read)
             w == Object!TextOf(p, c)
  <1>1. s \in Seq(T)
    BY SolidFacts DEF ObjectType
  <1>2. IsText(w, p, c)
    BY OrderText
  <1>3. PICK o : FieldsRead(o) /\ Stage(s, o)
    BY DEF Begun
  <1> SUFFICES ASSUME Object!Begins(w, s), Len(w) - Len(s) <= size - Len(read) PROVE FALSE
    OBVIOUS
  <1> HIDE DEF s, w
  <1>4. w \in Seq(T)
    BY <1>2 DEF IsText
  <1>5. Follows(s, w)
    BY <1>1, <1>4, PrefixFollows
  <1>6. Len(s) = Len(w)
    BY <1>1, <1>4, <1>5 DEF ObjectType, Follows
  <1>7. /\ expect \in {"end", "accepted"} /\ DOMAIN object = Object!Fields
        /\ \A f \in Object!Fields : object[f] = c[f]
    BY <1>1, <1>2, <1>3, <1>5, <1>6, WholeIsRead
  <1>8. Object!ReadFields(object)
    BY <1>7 DEF Object!Configs, Object!ReadFields
  <1>9. expect = "end"
    BY <1>7 DEF Object!Parsing
  <1> QED BY <1>8, <1>9

-----------------------------------------------------------------------------
(* ConfigJson: the steps that go on                                        *)

(* A step that leaves the parser expecting another token. *)
GoesOn ==
  /\ expect' \in Object!Parsing
  /\ \E o : FieldsOf(object', o)
            /\ StageOf(expect', key', object', Object!WithoutSpace(read'), o)

(* Parse, unless the text is too long.                                     *)
LEMMA StartGoesOn ==
  ASSUME ObjectType, ObjectWell, Object!Parse, size <= MaxJson
  PROVE  GoesOn
  <1>1. expect' = "object" /\ read' = <<>> /\ object' = <<>>
    BY ConversionsAssumption DEF ObjectType, Object!ConfigJsonAssumption, Object!Parse,
       ObjectWell
  <1>2. Object!WithoutSpace(read') = <<>>
    BY <1>1, SolidFacts
  <1> DEFINE o == <<>>
             F == Object!Fields
  <1>3. o \in Seq(F) /\ Len(o) = 0 /\ DOMAIN object' = {o[i] : i \in 1..Len(o)}
    BY <1>1
  <1>4. FieldsOf(object', o)
    BY <1>3 DEF FieldsOf, IsOrder
  <1>5. StageOf("object", key', object', <<>>, o)
    BY <1>3 DEF StageOf
  <1>6. StageOf(expect', key', object', Object!WithoutSpace(read'), o)
    BY <1>1, <1>2, <1>5
  <1> QED BY <1>1, <1>4, <1>6 DEF GoesOn, Object!Parsing

(* SkipWhitespace changes nothing in the text without whitespace.          *)
LEMMA SpaceGoesOn ==
  ASSUME ObjectType, Begun, Object!SkipWhitespace
  PROVE  GoesOn /\ expect \in Object!Parsing
  BY TokenKinds, TokenRead, Zenon DEF Object!SkipWhitespace, Blank, GoesOn, Begun, FieldsRead,
     Stage

(* Consume.                                                                *)
LEMMA PunctuateGoesOn ==
  ASSUME ObjectType, Begun, Object!Punctuate
  PROVE  GoesOn /\ expect \in Object!Parsing
  <1> DEFINE s == Object!WithoutSpace(read)
  <1>1. key' = key /\ object' = object
    BY DEF Object!Punctuate, Object!Consume
  <1>2. PICK o : FieldsOf(object, o) /\ StageOf(expect, key, object, s, o)
    BY DEF Begun, FieldsRead, Stage
  <1>3. /\ Open \in Object!Tokens /\ Open.kind # "space"
        /\ Close \in Object!Tokens /\ Close.kind # "space"
        /\ Colon \in Object!Tokens /\ Colon.kind # "space"
        /\ Comma \in Object!Tokens /\ Comma.kind # "space"
    BY TokenKinds
  <1>4. s \in Seq(Object!Tokens)
    BY SolidFacts DEF ObjectType
  <1>5. CASE Object!Read(Open, {"object"}, "first")
    BY <1>3, <1>5, TokenRead, <1>2, <1>4, StartStage, <1>1, Zenon DEF GoesOn, Object!Parsing
  <1>6. CASE Object!Read(Colon, {"colon"}, "value")
    BY <1>3, <1>6, TokenRead, <1>2, <1>4, ColonStage, <1>1, Zenon DEF GoesOn, Object!Parsing
  <1>7. CASE Object!Read(Comma, {"separator"}, "key")
    BY <1>3, <1>7, TokenRead, <1>2, <1>4, CommaStage, <1>1, Zenon DEF GoesOn, Object!Parsing
  <1>8. CASE Object!Read(Close, {"first", "separator"}, "end")
    BY <1>3, <1>8, TokenRead, <1>2, <1>4, CloseStage, <1>1, Zenon DEF GoesOn, Object!Parsing
  <1> QED BY <1>5, <1>6, <1>7, <1>8 DEF Object!Punctuate, Object!Consume, Open, Close, Colon, Comma

(* ParseString for the name of a field.                                    *)
LEMMA KeyGoesOn ==
  ASSUME ObjectType, Begun, NEW t \in Object!StringTokens, Object!ParseKey(t)
  PROVE  GoesOn /\ expect \in Object!Parsing
  <1> DEFINE s == Object!WithoutSpace(read)
             f == t.value
  <1>1. key' = f /\ object' = object /\ f \in Object!Fields
        /\ Object!Read(t, {"first", "key"}, "colon")
    BY DEF Object!ParseKey, Object!IsKnownField
  <1>2. PICK o : FieldsOf(object, o) /\ StageOf(expect, key, object, s, o)
    BY DEF Begun, FieldsRead, Stage
  <1>3. t = Name(f) /\ t \in Object!Tokens /\ t.kind # "space"
    BY TokenKinds, Zenon DEF Object!Tokens
  <1>4. s \in Seq(Object!Tokens)
    BY SolidFacts DEF ObjectType
  <1>5. expect \in {"first", "key"} /\ expect' = "colon"
        /\ Object!WithoutSpace(read') = Append(s, t)
    BY <1>1, <1>3, TokenRead
  <1> HIDE DEF s, f
  <1>6. StageOf("colon", f, object, Append(s, Name(f)), o)
    BY <1>1, <1>2, <1>4, <1>5, KeyStage
  <1>7. Object!WithoutSpace(read') = Append(s, Name(f))
    BY <1>3, <1>5
  <1> QED BY <1>1, <1>2, <1>5, <1>6, <1>7 DEF GoesOn, Object!Parsing

(* ParseString or ParseInteger for a value.                                *)
LEMMA ValueGoesOn ==
  ASSUME ObjectType, Begun, NEW t \in ValueTokens, Object!ParseValue(t)
  PROVE  /\ GoesOn /\ expect \in Object!Parsing
         /\ DOMAIN object' \subseteq Object!Fields /\ object' \in [DOMAIN object' -> ValueTokens]
  <1> DEFINE s == Object!WithoutSpace(read)
             b == object
             c == object'
  <1>1. /\ key' = key /\ key \notin DOMAIN b /\ key \in Object!Fields
        /\ c = [f \in DOMAIN b \cup {key} |-> IF f = key THEN t ELSE b[f]]
        /\ Object!Read(t, {"value"}, "separator")
    BY DEF Object!ParseValue, ObjectType
  <1>2. PICK o : FieldsOf(b, o) /\ StageOf(expect, key, b, s, o)
    BY DEF Begun, FieldsRead, Stage
  <1>3. t \in Object!Tokens /\ t.kind # "space"
    BY TokenKinds
  <1>4. s \in Seq(Object!Tokens)
    BY SolidFacts DEF ObjectType
  <1>5. expect = "value" /\ expect' = "separator" /\ Object!WithoutSpace(read') = Append(s, t)
    BY <1>1, <1>3, TokenRead
  <1>6. DOMAIN b \subseteq Object!Fields /\ b \in [DOMAIN b -> ValueTokens]
    BY DEF ObjectType
  <1> HIDE DEF s, b, c
  <1>7. FieldsOf(c, Append(o, key)) /\ StageOf("separator", key, c, Append(s, t), Append(o, key))
    BY <1>2, <1>5, <1>1, <1>4, ValueStage, Zenon
  <1>8. DOMAIN c \subseteq Object!Fields /\ c \in [DOMAIN c -> ValueTokens]
    BY <1>1, <1>6
  <1>9. GoesOn
    BY <1>1, <1>5, <1>7 DEF GoesOn, Object!Parsing, c
  <1> QED BY <1>5, <1>8, <1>9 DEF c, Object!Parsing

(* The properties of an accepted text. *)
LEMMA AcceptedIsWhole ==
  ASSUME ObjectType, ObjectWell
  PROVE  Object!AcceptsWholeConfigs
  <1> SUFFICES ASSUME expect = "accepted"
               PROVE  /\ object \in Object!Configs
                      /\ \E order \in Object!Orders :
                           Object!WithoutSpace(read) = Object!TextOf(order, object)
    BY DEF Object!AcceptsWholeConfigs
  <1> DEFINE s == Object!WithoutSpace(read)
             F == Object!Fields
  <1>1. PICK o : FieldsOf(object, o) /\ StageOf("accepted", key, object, s, o)
    BY DEF ObjectWell, Begun, FieldsRead, Stage
  <1>2. \A f \in F : f \in DOMAIN object /\ Object!HasKind(f, object[f])
    BY DEF ObjectWell, Object!ReadFields
  <1>3. object \in [F -> ValueTokens] /\ DOMAIN object = F
    BY <1>2 DEF ObjectType
  <1>4. object \in Object!Configs
    BY <1>2, <1>3, Zenon DEF Object!Configs, ValueTokens
  <1>5. IsOrder(o) /\ \A f \in F : \E i \in 1..Len(o) : o[i] = f
    BY <1>1, <1>3 DEF FieldsOf
  <1>6. o \in Object!Orders
    BY <1>5, WholeOrder
  <1> DEFINE w == Object!TextOf(o, object)
             T == Object!Tokens
  <1>7. IsText(w, o, object) /\ Fit(o, object)
    BY <1>4, <1>6, OrderText
  <1>8. s \in Seq(T)
    BY SolidFacts DEF ObjectType
  <1> HIDE DEF s, w
  <1>9. o \in Seq(F) /\ o # <<>> /\ Len(o) # 0
    BY <1>7 DEF Fit
  <1>10. /\ w \in Seq(T) /\ Len(w) = 4 * Len(o) + 1 /\ w[4 * Len(o) + 1] = Close
         /\ Spelled(w, o, object)
    BY <1>7 DEF IsText
  <1>11. /\ Len(s) = 4 * Len(o) + 1 /\ s[4 * Len(o) + 1] = Close /\ Spelled(s, o, object)
    BY <1>1, <1>9 DEF StageOf
  <1>12. s = w
    BY <1>8, <1>9, <1>10, <1>11, SpelledEqual
  <1> QED BY <1>4, <1>6, <1>12 DEF w, s

(* A printed configuration, read so far. *)
LEMMA PrintedIsTaken ==
  ASSUME ObjectType, ObjectWell
  PROVE  Object!PrintedIsAccepted
  <1> SUFFICES ASSUME NEW c \in Object!Configs, size = Len(Object!ConfigToJson(c)),
                      size <= MaxJson, Object!Begins(Object!ConfigToJson(c), read)
               PROVE  expect # "rejected" /\ (expect = "accepted" => object = c)
    BY DEF Object!PrintedIsAccepted
  <1> DEFINE T == Object!Tokens
             F == Object!Fields
             p == FieldOrder
             w == Object!ConfigToJson(c)
             s == Object!WithoutSpace(read)
  <1>1. p \in Object!Orders
    <2>1. /\ p \in Seq(F) /\ Object!IsInjective(p) /\ F = {p[i] : i \in DOMAIN p}
      BY ConversionsAssumption DEF Object!ConfigJsonAssumption, Object!Range
    <2>2. DOMAIN p = 1..Len(p)
      BY <2>1
    <2>3. IsOrder(p) /\ \A f \in F : \E i \in 1..Len(p) : p[i] = f
      BY <2>1, <2>2 DEF IsOrder, Object!IsInjective
    <2> QED BY <2>3, WholeOrder
  <1>2. w = Object!TextOf(p, c)
    BY DEF Object!ConfigToJson
  <1>3. IsText(w, p, c) /\ Fit(p, c)
    BY <1>1, <1>2, OrderText
  <1>4. read \in Seq(T)
    BY DEF ObjectType
  <1>5. w \in Seq(T) /\ Len(p) \in Nat /\ Len(w) = 4 * Len(p) + 1
    BY <1>3 DEF IsText, Fit
  <1> HIDE DEF w, s, p
  <1>6. Follows(read, w)
    BY <1>4, <1>5, PrefixFollows DEF w
  <1>7. \A i \in 1..Len(w) : w[i].kind # "space"
    <2>1. w[1].kind # "space" /\ w[4 * Len(p) + 1].kind # "space"
      BY <1>3, TokenKinds DEF IsText, Spelled
    <2>2. ASSUME NEW j \in 1..(4 * Len(p)) PROVE w[j].kind # "space"
      <3>1. PICK k \in 1..Len(p) : j = 4 * k - 3 \/ j = 4 * k - 2 \/ j = 4 * k - 1 \/ j = 4 * k
        BY <1>5, FourCases
      <3>2. CASE j = 4 * k - 3
        <4>1. CASE k = 1
          BY <2>1, <3>2, <4>1
        <4>2. CASE k # 1
          <5> DEFINE i == k - 1
          <5>1. i \in 1..(Len(p) - 1) /\ j = 4 * i + 1
            BY <1>5, <3>2, <4>2
          <5> HIDE DEF i
          <5>2. w[j] = Comma
            BY <1>3, <5>1 DEF IsText, Spelled
          <5> QED BY <5>2, TokenKinds
        <4> QED BY <4>1, <4>2
      <3>3. w[4 * k - 2] = Name(p[k]) /\ w[4 * k - 1] = Colon /\ w[4 * k] = c[p[k]]
        BY <1>3 DEF IsText, Spelled
      <3>4. c[p[k]] \in ValueTokens
        BY <1>3 DEF Fit
      <3>5. /\ w[4 * k - 2].kind # "space" /\ w[4 * k - 1].kind # "space"
            /\ w[4 * k].kind # "space"
        BY <3>3, <3>4, TokenKinds
      <3> QED BY <3>1, <3>2, <3>5
    <2> QED BY <1>5, <2>1, <2>2
  <1>8. s = read
    BY <1>4, <1>5, <1>6, <1>7, SolidSame DEF Follows, s
  <1>9. expect # "rejected"
    BY <1>1, <1>2, <1>4, <1>8 DEF ObjectWell, Object!RefusesOnlyOthers, s, w, ObjectType
  <1>10. expect = "accepted" => object = c
    <2> SUFFICES ASSUME expect = "accepted" PROVE object = c
      OBVIOUS
    <2>1. PICK o : FieldsRead(o) /\ Stage(s, o)
      BY DEF ObjectWell, Begun, s
    <2>2. Len(s) = Len(w) /\ Follows(s, w) /\ s \in Seq(T)
      BY <1>4, <1>6, <1>8 DEF ObjectWell, w
    <2>3. DOMAIN object = F /\ \A f \in F : object[f] = c[f]
      BY <1>1, <1>3, <2>1, <2>2, WholeIsRead
    <2>4. object \in [F -> ValueTokens] /\ c \in [F -> ValueTokens]
      BY <2>3 DEF ObjectType, Object!Configs, ValueTokens
    <2> QED BY <2>3, <2>4
  <1> QED BY <1>9, <1>10

-----------------------------------------------------------------------------
(* ConfigJson: the theorem                                                 *)

(* An error is one that no configuration could have avoided.               *)
LEMMA RefusedStays ==
  ASSUME ObjectType, Begun, NEW t \in Object!Tokens, Object!Refuse(t)
  PROVE  expect' = "rejected" /\ (Object!RefusesOnlyOthers)' /\ expect \in Object!Parsing
  BY TokenRead, RefusedIsOther, Zenon DEF Object!Refuse, Object!Acceptable,
     Object!RefusesOnlyOthers

(* BuildConfig accepts or refuses, and rightly.                            *)
LEMMA BuiltIs ==
  ASSUME ObjectType, ObjectWell, Object!BuildConfig
  PROVE  /\ expect' \in {"accepted", "rejected"}
         /\ expect' = "accepted" => (ObjectType /\ ObjectWell)'
         /\ expect' = "rejected" => (Object!RefusesOnlyOthers)'
         /\ ObjectType'
  <1>1. /\ Len(read) = size /\ expect \in Object!Parsing
        /\ expect' = IF expect = "end" /\ Object!ReadFields(object)
                     THEN "accepted" ELSE "rejected"
        /\ size' = size /\ read' = read /\ key' = key /\ object' = object
    BY DEF Object!BuildConfig
  <1>2. size <= MaxJson /\ Begun
    BY <1>1 DEF ObjectWell
  <1>3. ObjectType'
    BY <1>1 DEF ObjectType
  <1>4. CASE expect = "end" /\ Object!ReadFields(object)
    <2>1. expect' = "accepted"
      BY <1>1, <1>4
    <2>2. PICK o : FieldsOf(object, o) /\ StageOf("end", key, object, Object!WithoutSpace(read), o)
      BY <1>2, <1>4 DEF Begun, FieldsRead, Stage
    <2>3. StageOf("accepted", key, object, Object!WithoutSpace(read), o)
      BY <2>2 DEF StageOf
    <2>4. Begun'
      BY <1>1, <2>1, <2>2, <2>3 DEF Begun, FieldsRead, Stage
    <2>5. (Object!ReadFields(object))'
      BY <1>1, <1>4 DEF Object!ReadFields, Object!HasKind
    <2>6. ObjectWell'
      BY <1>1, <1>2, <2>1, <2>4, <2>5 DEF ObjectWell, Object!Parsing
    <2> QED BY <1>3, <2>1, <2>6
  <1>5. CASE ~ (expect = "end" /\ Object!ReadFields(object))
    BY <1>1, <1>5, <1>2, EndedIsOther, <1>3 DEF Object!RefusesOnlyOthers
  <1> QED BY <1>4, <1>5

(* Every step of the parser keeps the invariant.                           *)
LEMMA ObjectStep ==
  ASSUME ObjectType, ObjectWell, Object!Next
  PROVE  ObjectType' /\ ObjectWell'
  <1> DEFINE T == Object!Tokens
  (* A step that goes on. *)
  <1>1. ASSUME GoesOn, expect \in Object!Parsing \/ size <= MaxJson,
               size' = size, ObjectType'
        PROVE  ObjectType' /\ ObjectWell'
    BY <1>1 DEF ObjectWell, GoesOn, Begun, FieldsRead, Stage, Object!Parsing
  <1>2. ASSUME NEW t \in T, NEW before, NEW after, Object!Read(t, before, after),
               before \subseteq Object!Parsing, after \in Object!Parsing \cup {"rejected"},
               key' \in Object!Fields, DOMAIN object' \subseteq Object!Fields,
               object' \in [DOMAIN object' -> ValueTokens]
        PROVE  ObjectType' /\ size' = size /\ Begun /\ expect \in Object!Parsing
    BY <1>2, TokenRead DEF ObjectType, ObjectWell
  <1>3. /\ key \in Object!Fields /\ DOMAIN object \subseteq Object!Fields
        /\ object \in [DOMAIN object -> ValueTokens]
    BY DEF ObjectType
  <1>4. CASE Object!Parse
    BY <1>4, ConversionsAssumption, <1>1, StartGoesOn DEF Object!Parse, ObjectType,
       Object!Parsing, Object!ConfigJsonAssumption, Object!RefusesOnlyOthers, ObjectWell
  <1>5. CASE Object!SkipWhitespace
    BY <1>5, TokenKinds, <1>2, <1>3, <1>1, SpaceGoesOn, Zenon DEF Object!SkipWhitespace,
       Blank, Object!Read
  <1>6. CASE Object!Punctuate
    <2>1. key' = key /\ object' = object
      BY <1>6 DEF Object!Punctuate, Object!Consume
    <2>2. PICK t \in T, before \in SUBSET Object!Parsing, after \in Object!Parsing :
            Object!Read(t, before, after)
      BY TokenKinds, <1>6, Zenon DEF Object!Punctuate, Object!Consume, Open, Close, Colon,
         Comma, Object!Parsing
    <2>3. ObjectType' /\ size' = size /\ Begun
      BY <1>2, <1>3, <2>1, <2>2
    <2> QED BY <1>1, <1>6, <2>3, PunctuateGoesOn
  <1>7. ASSUME NEW t \in Object!StringTokens, Object!ParseKey(t)
        PROVE  ObjectType' /\ ObjectWell'
    BY <1>7, <1>2, <1>3, <1>1, KeyGoesOn DEF Object!Tokens, Object!Parsing, Object!ParseKey,
       Object!IsKnownField
  <1>8. ASSUME NEW t \in Object!StringTokens \cup Object!IntegerTokens, Object!ParseValue(t)
        PROVE  ObjectType' /\ ObjectWell'
    <2>1. /\ t \in T /\ t \in ValueTokens /\ {"value"} \subseteq Object!Parsing
          /\ "separator" \in Object!Parsing
      BY DEF Object!Tokens, Object!Parsing, ValueTokens
    <2>2. Object!Read(t, {"value"}, "separator") /\ key' = key
      BY <1>8 DEF Object!ParseValue
    <2>3. Begun
      BY <2>2 DEF Object!Read, ObjectWell, Object!Parsing
    <2>4. /\ GoesOn /\ expect \in Object!Parsing
          /\ DOMAIN object' \subseteq Object!Fields /\ object' \in [DOMAIN object' -> ValueTokens]
      BY <1>8, <2>1, <2>3, ValueGoesOn
    <2>5. ObjectType' /\ size' = size
      BY <1>2, <1>3, <2>1, <2>2, <2>4
    <2> QED BY <1>1, <2>4, <2>5
  <1>9. ASSUME NEW t \in Object!Tokens, Object!Refuse(t)
        PROVE  ObjectType' /\ ObjectWell'
    BY <1>9, <1>2, <1>3, RefusedStays DEF Object!Refuse, ObjectWell, Object!Parsing
  <1>10. CASE Object!BuildConfig
    BY <1>10, BuiltIs DEF ObjectWell, Object!Parsing
  <1> QED BY <1>4, <1>5, <1>6, <1>7, <1>8, <1>9, <1>10 DEF Object!Next

(* The invariant of the parser holds always.                               *)
LEMMA ObjectInvInductive == Spec => []ObjectInv
  <1>1. Init => ObjectInv
    BY FieldsFinite DEF ObjectInv, Init, Object!Init, ObjectType, ObjectWell, Object!Parsing
  <1>2. ObjectInv /\ [Next]_vars => ObjectInv'
    <2> SUFFICES ASSUME ObjectInv, [Next]_vars, subject' = "object"
                 PROVE  ObjectType' /\ ObjectWell'
      BY DEF ObjectInv
    <2>1. subject = "object" /\ (Object!Next \/ UNCHANGED objectVars)
      BY DEF Next, vars
    <2>2. ObjectType /\ ObjectWell
      BY <2>1 DEF ObjectInv
    <2>3. CASE Object!Next
      BY <2>2, <2>3, ObjectStep
    <2>4. CASE UNCHANGED objectVars
      BY <2>2, <2>4 DEF objectVars, ObjectType, ObjectWell, Begun, FieldsRead, Stage,
         Object!RefusesOnlyOthers, Object!ReadFields, Object!HasKind
    <2> QED BY <2>1, <2>3, <2>4
  <1> QED BY <1>1, <1>2, PTL DEF Spec

(* The parser of PUT accepts one whole configuration and nothing more,     *)
(* refuses only what could not have become one, and accepts what GET       *)
(* prints: for any fields, values and order of the fields, and any length  *)
(* and whitespace.                                                         *)
THEOREM SpecObjectsExact == Spec => []ObjectsExact
  <1>1. ObjectInv => ObjectsExact
    BY AcceptedIsWhole, PrintedIsTaken DEF ObjectsExact, ObjectInv, ObjectType,
       Object!ConfigJsonTypeOK, ValueTokens, ObjectWell, Object!RefusesOnlyOthers
  <1> QED BY <1>1, ObjectInvInductive, PTL

-----------------------------------------------------------------------------
(* Strings: well-formed UTF-8                                              *)

(* The bytes of a string, and the bytes that go on with a sequence.        *)
Bytes == String!Byte
Trails == 128..191

(* The sequences of one, two, three and four bytes that are well-formed.   *)
One(a) == a \in 0..127
Two(a, b) == a \in 194..223 /\ b \in Trails
Three(a, b, c) ==
  /\ a \in 224..239 /\ b \in Trails /\ c \in Trails
  /\ a = 224 => b >= 160
  /\ a = 237 => b <= 159
Four(a, b, c, d) ==
  /\ a \in 240..244 /\ b \in Trails /\ c \in Trails /\ d \in Trails
  /\ a = 240 => b >= 144
  /\ a = 244 => b <= 143

(* A well-formed sequence of n bytes begins at p.                          *)
WellFormed(s, p, n) ==
  /\ p + n - 1 <= Len(s)
  /\ \/ n = 1 /\ One(s[p])
     \/ n = 2 /\ Two(s[p], s[p + 1])
     \/ n = 3 /\ Three(s[p], s[p + 1], s[p + 2])
     \/ n = 4 /\ Four(s[p], s[p + 1], s[p + 2], s[p + 3])

(* The rows of the table that fit at p are the well-formed sequences       *)
(* there.                                                                  *)
LEMMA RowsAre ==
  ASSUME NEW s \in Seq(Bytes), NEW p \in Nat \ {0}
  PROVE  /\ \A row \in String!RowsAt(s, p) : WellFormed(s, p, Len(row))
         /\ \A n : WellFormed(s, p, n) => \E row \in String!RowsAt(s, p) : Len(row) = n
  <1>0. Len(s) \in Nat /\ p \in Int
    OBVIOUS
  <1> DEFINE Fits(row) == p + Len(row) - 1 <= Len(s)
                          /\ \A i \in DOMAIN row : s[p + i - 1] \in row[i]
  <1>1. \A row : row \in String!RowsAt(s, p) <=> row \in String!Utf8Rows /\ Fits(row)
    BY DEF String!RowsAt
  <1>2. \A A : Fits(<<A>>) <=> p <= Len(s) /\ s[p] \in A
    BY <1>0
  <1>3. \A A, B : Fits(<<A, B>>) <=> p + 1 <= Len(s) /\ s[p] \in A /\ s[p + 1] \in B
    BY <1>0
  <1>4. \A A, B, C : Fits(<<A, B, C>>) <=> /\ p + 2 <= Len(s) /\ s[p] \in A
                                           /\ s[p + 1] \in B /\ s[p + 2] \in C
    BY <1>0
  <1>5. \A A, B, C, D : Fits(<<A, B, C, D>>) <=> /\ p + 3 <= Len(s) /\ s[p] \in A
                                                 /\ s[p + 1] \in B /\ s[p + 2] \in C
                                                 /\ s[p + 3] \in D
    BY <1>0
  <1> HIDE DEF Fits
  <1>6. ASSUME NEW row \in String!Utf8Rows, Fits(row) PROVE WellFormed(s, p, Len(row))
    <2>1. CASE row = <<0..127>>
      BY <1>6, <2>1, <1>2, <1>0 DEF One, Trails, WellFormed
    <2>2. CASE row = <<194..223, Trails>>
      BY <1>6, <2>2, <1>3, <1>0 DEF Two, Trails, WellFormed
    <2>3. CASE row = <<{224}, 160..191, Trails>>
      <3> DEFINE A == {224}
                 B == 160..191
                 C == Trails
      <3>1. Fits(<<A, B, C>>)
        BY <1>6, <2>3, Zenon
      <3>2. p + 2 <= Len(s) /\ s[p] \in A /\ s[p + 1] \in B /\ s[p + 2] \in C
        BY <3>1, <1>4
      <3>3. Three(s[p], s[p + 1], s[p + 2])
        <4> DEFINE a == s[p]
                   b == s[p + 1]
                   c == s[p + 2]
        <4>1. a \in A /\ b \in B /\ c \in C
          BY <3>2
        <4> HIDE DEF a, b, c
        <4>2. Three(a, b, c)
          BY <4>1 DEF Three, Trails
        <4> QED BY <4>2 DEF a, b, c
      <3>4. Len(row) = 3 /\ p + 3 - 1 = p + 2
        BY <1>0, <2>3
      <3> QED BY <3>2, <3>3, <3>4 DEF WellFormed
    <2>4. CASE row = <<225..236 \cup 238..239, Trails, Trails>>
      <3> DEFINE A == 225..236 \cup 238..239
                 B == Trails
                 C == Trails
      <3>1. Fits(<<A, B, C>>)
        BY <1>6, <2>4, Zenon
      <3>2. p + 2 <= Len(s) /\ s[p] \in A /\ s[p + 1] \in B /\ s[p + 2] \in C
        BY <3>1, <1>4
      <3>3. Three(s[p], s[p + 1], s[p + 2])
        <4> DEFINE a == s[p]
                   b == s[p + 1]
                   c == s[p + 2]
        <4>1. a \in A /\ b \in B /\ c \in C
          BY <3>2
        <4> HIDE DEF a, b, c
        <4>2. Three(a, b, c)
          BY <4>1 DEF Three, Trails
        <4> QED BY <4>2 DEF a, b, c
      <3>4. Len(row) = 3 /\ p + 3 - 1 = p + 2
        BY <1>0, <2>4
      <3> QED BY <3>2, <3>3, <3>4 DEF WellFormed
    <2>5. CASE row = <<{237}, 128..159, Trails>>
      <3> DEFINE A == {237}
                 B == 128..159
                 C == Trails
      <3>1. Fits(<<A, B, C>>)
        BY <1>6, <2>5, Zenon
      <3>2. p + 2 <= Len(s) /\ s[p] \in A /\ s[p + 1] \in B /\ s[p + 2] \in C
        BY <3>1, <1>4
      <3>3. Three(s[p], s[p + 1], s[p + 2])
        <4> DEFINE a == s[p]
                   b == s[p + 1]
                   c == s[p + 2]
        <4>1. a \in A /\ b \in B /\ c \in C
          BY <3>2
        <4> HIDE DEF a, b, c
        <4>2. Three(a, b, c)
          BY <4>1 DEF Three, Trails
        <4> QED BY <4>2 DEF a, b, c
      <3>4. Len(row) = 3 /\ p + 3 - 1 = p + 2
        BY <1>0, <2>5
      <3> QED BY <3>2, <3>3, <3>4 DEF WellFormed
    <2>6. CASE row = <<{240}, 144..191, Trails, Trails>>
      <3> DEFINE A == {240}
                 B == 144..191
                 C == Trails
                 D == Trails
      <3>1. Fits(<<A, B, C, D>>)
        BY <1>6, <2>6, Zenon
      <3>2. p + 3 <= Len(s) /\ s[p] \in A /\ s[p + 1] \in B /\ s[p + 2] \in C /\ s[p + 3] \in D
        BY <3>1, <1>5
      <3>3. Four(s[p], s[p + 1], s[p + 2], s[p + 3])
        <4> DEFINE a == s[p]
                   b == s[p + 1]
                   c == s[p + 2]
                   d == s[p + 3]
        <4>1. a \in A /\ b \in B /\ c \in C /\ d \in D
          BY <3>2
        <4> HIDE DEF a, b, c, d
        <4>2. Four(a, b, c, d)
          BY <4>1 DEF Four, Trails
        <4> QED BY <4>2 DEF a, b, c, d
      <3>4. Len(row) = 4 /\ p + 4 - 1 = p + 3
        BY <1>0, <2>6
      <3> QED BY <3>2, <3>3, <3>4 DEF WellFormed
    <2>7. CASE row = <<241..243, Trails, Trails, Trails>>
      <3> DEFINE A == 241..243
                 B == Trails
                 C == Trails
                 D == Trails
      <3>1. Fits(<<A, B, C, D>>)
        BY <1>6, <2>7, Zenon
      <3>2. p + 3 <= Len(s) /\ s[p] \in A /\ s[p + 1] \in B /\ s[p + 2] \in C /\ s[p + 3] \in D
        BY <3>1, <1>5
      <3>3. Four(s[p], s[p + 1], s[p + 2], s[p + 3])
        <4> DEFINE a == s[p]
                   b == s[p + 1]
                   c == s[p + 2]
                   d == s[p + 3]
        <4>1. a \in A /\ b \in B /\ c \in C /\ d \in D
          BY <3>2
        <4> HIDE DEF a, b, c, d
        <4>2. Four(a, b, c, d)
          BY <4>1 DEF Four, Trails
        <4> QED BY <4>2 DEF a, b, c, d
      <3>4. Len(row) = 4 /\ p + 4 - 1 = p + 3
        BY <1>0, <2>7
      <3> QED BY <3>2, <3>3, <3>4 DEF WellFormed
    <2>8. CASE row = <<{244}, 128..143, Trails, Trails>>
      <3> DEFINE A == {244}
                 B == 128..143
                 C == Trails
                 D == Trails
      <3>1. Fits(<<A, B, C, D>>)
        BY <1>6, <2>8, Zenon
      <3>2. p + 3 <= Len(s) /\ s[p] \in A /\ s[p + 1] \in B /\ s[p + 2] \in C /\ s[p + 3] \in D
        BY <3>1, <1>5
      <3>3. Four(s[p], s[p + 1], s[p + 2], s[p + 3])
        <4> DEFINE a == s[p]
                   b == s[p + 1]
                   c == s[p + 2]
                   d == s[p + 3]
        <4>1. a \in A /\ b \in B /\ c \in C /\ d \in D
          BY <3>2
        <4> HIDE DEF a, b, c, d
        <4>2. Four(a, b, c, d)
          BY <4>1 DEF Four, Trails
        <4> QED BY <4>2 DEF a, b, c, d
      <3>4. Len(row) = 4 /\ p + 4 - 1 = p + 3
        BY <1>0, <2>8
      <3> QED BY <3>2, <3>3, <3>4 DEF WellFormed
    <2>9. \/ row = <<0..127>> \/ row = <<194..223, Trails>>
          \/ row = <<{224}, 160..191, Trails>> \/ row = <<225..236 \cup 238..239, Trails, Trails>>
          \/ row = <<{237}, 128..159, Trails>> \/ row = <<{240}, 144..191, Trails, Trails>>
          \/ row = <<241..243, Trails, Trails, Trails>> \/ row = <<{244}, 128..143, Trails, Trails>>
      BY <1>6, ZenonT(40) DEF String!Utf8Rows, String!Trail, Trails
    <2> QED BY <2>1, <2>2, <2>3, <2>4, <2>5, <2>6, <2>7, <2>8, <2>9, Zenon
  <1>7. ASSUME NEW n, WellFormed(s, p, n) PROVE \E row \in String!Utf8Rows : Len(row) = n /\ Fits(row)
    <2>1. CASE n = 1
      BY <1>0, <1>7, <2>1, <1>2 DEF WellFormed, One, Trails, String!Utf8Rows, String!Trail
    <2>2. CASE n = 2
      BY <1>0, <1>7, <2>2, <1>3 DEF WellFormed, Two, Trails, String!Utf8Rows, String!Trail
    <2>3. CASE n = 3 /\ s[p] = 224
      <3> DEFINE A == {224}
                 B == 160..191
                 C == Trails
      <3>1. Three(s[p], s[p + 1], s[p + 2]) /\ p + 2 <= Len(s)
        BY <1>0, <1>7, <2>3 DEF WellFormed
      <3>2. s[p] \in A /\ s[p + 1] \in B /\ s[p + 2] \in C
        <4> DEFINE a == s[p]
                   b == s[p + 1]
                   c == s[p + 2]
        <4>1. Three(a, b, c) /\ a = 224
          BY <2>3, <3>1
        <4> HIDE DEF a, b, c
        <4>2. a \in A /\ b \in B /\ c \in C
          BY <4>1 DEF Three, Trails
        <4> QED BY <4>2 DEF a, b, c
      <3>3. Fits(<<A, B, C>>)
        BY <3>1, <3>2, <1>4
      <3>4. <<A, B, C>> \in String!Utf8Rows
        BY SMT DEF String!Utf8Rows, String!Trail, Trails
      <3>5. Len(<<A, B, C>>) = n
        BY <2>3
      <3> HIDE DEF A, B, C
      <3> QED BY <3>3, <3>4, <3>5
    <2>4. CASE n = 3 /\ s[p] # 224 /\ s[p] # 237
      <3> DEFINE A == 225..236 \cup 238..239
                 B == Trails
                 C == Trails
      <3>1. Three(s[p], s[p + 1], s[p + 2]) /\ p + 2 <= Len(s)
        BY <1>0, <1>7, <2>4 DEF WellFormed
      <3>2. s[p] \in A /\ s[p + 1] \in B /\ s[p + 2] \in C
        BY <2>4, <3>1 DEF Three, Trails
      <3>3. Fits(<<A, B, C>>)
        BY <3>1, <3>2, <1>4
      <3>4. <<A, B, C>> \in String!Utf8Rows
        BY SMT DEF String!Utf8Rows, String!Trail, Trails
      <3>5. Len(<<A, B, C>>) = n
        BY <2>4
      <3> HIDE DEF A, B, C
      <3> QED BY <3>3, <3>4, <3>5
    <2>5. CASE n = 3 /\ s[p] = 237
      <3> DEFINE A == {237}
                 B == 128..159
                 C == Trails
      <3>1. Three(s[p], s[p + 1], s[p + 2]) /\ p + 2 <= Len(s)
        BY <1>0, <1>7, <2>5 DEF WellFormed
      <3>2. s[p] \in A /\ s[p + 1] \in B /\ s[p + 2] \in C
        <4> DEFINE a == s[p]
                   b == s[p + 1]
                   c == s[p + 2]
        <4>1. Three(a, b, c) /\ a = 237
          BY <2>5, <3>1
        <4> HIDE DEF a, b, c
        <4>2. a \in A /\ b \in B /\ c \in C
          BY <4>1 DEF Three, Trails
        <4> QED BY <4>2 DEF a, b, c
      <3>3. Fits(<<A, B, C>>)
        BY <3>1, <3>2, <1>4
      <3>4. <<A, B, C>> \in String!Utf8Rows
        BY SMT DEF String!Utf8Rows, String!Trail, Trails
      <3>5. Len(<<A, B, C>>) = n
        BY <2>5
      <3> HIDE DEF A, B, C
      <3> QED BY <3>3, <3>4, <3>5
    <2>6. CASE n = 4 /\ s[p] = 240
      <3> DEFINE A == {240}
                 B == 144..191
                 C == Trails
                 D == Trails
      <3>1. Four(s[p], s[p + 1], s[p + 2], s[p + 3]) /\ p + 3 <= Len(s)
        BY <1>0, <1>7, <2>6 DEF WellFormed
      <3>2. s[p] \in A /\ s[p + 1] \in B /\ s[p + 2] \in C /\ s[p + 3] \in D
        <4> DEFINE a == s[p]
                   b == s[p + 1]
                   c == s[p + 2]
                   d == s[p + 3]
        <4>1. Four(a, b, c, d) /\ a = 240
          BY <2>6, <3>1
        <4> HIDE DEF a, b, c, d
        <4>2. a \in A /\ b \in B /\ c \in C /\ d \in D
          BY <4>1 DEF Four, Trails
        <4> QED BY <4>2 DEF a, b, c, d
      <3>3. Fits(<<A, B, C, D>>)
        <4> HIDE DEF A, B, C, D
        <4> QED BY <3>1, <3>2, <1>5
      <3>4. <<A, B, C, D>> \in String!Utf8Rows
        BY SMT DEF String!Utf8Rows, String!Trail, Trails
      <3>5. Len(<<A, B, C, D>>) = n
        BY <2>6
      <3> HIDE DEF A, B, C, D
      <3> QED BY <3>3, <3>4, <3>5
    <2>7. CASE n = 4 /\ s[p] # 240 /\ s[p] # 244
      <3> DEFINE A == 241..243
                 B == Trails
                 C == Trails
                 D == Trails
      <3>1. Four(s[p], s[p + 1], s[p + 2], s[p + 3]) /\ p + 3 <= Len(s)
        BY <1>0, <1>7, <2>7 DEF WellFormed
      <3>2. s[p] \in A /\ s[p + 1] \in B /\ s[p + 2] \in C /\ s[p + 3] \in D
        BY <2>7, <3>1 DEF Four, Trails
      <3>3. Fits(<<A, B, C, D>>)
        <4> HIDE DEF A, B, C, D
        <4> QED BY <3>1, <3>2, <1>5
      <3>4. <<A, B, C, D>> \in String!Utf8Rows
        BY SMT DEF String!Utf8Rows, String!Trail, Trails
      <3>5. Len(<<A, B, C, D>>) = n
        BY <2>7
      <3> HIDE DEF A, B, C, D
      <3> QED BY <3>3, <3>4, <3>5
    <2>8. CASE n = 4 /\ s[p] = 244
      <3> DEFINE A == {244}
                 B == 128..143
                 C == Trails
                 D == Trails
      <3>1. Four(s[p], s[p + 1], s[p + 2], s[p + 3]) /\ p + 3 <= Len(s)
        BY <1>0, <1>7, <2>8 DEF WellFormed
      <3>2. s[p] \in A /\ s[p + 1] \in B /\ s[p + 2] \in C /\ s[p + 3] \in D
        <4> DEFINE a == s[p]
                   b == s[p + 1]
                   c == s[p + 2]
                   d == s[p + 3]
        <4>1. Four(a, b, c, d) /\ a = 244
          BY <2>8, <3>1
        <4> HIDE DEF a, b, c, d
        <4>2. a \in A /\ b \in B /\ c \in C /\ d \in D
          BY <4>1 DEF Four, Trails
        <4> QED BY <4>2 DEF a, b, c, d
      <3>3. Fits(<<A, B, C, D>>)
        <4> HIDE DEF A, B, C, D
        <4> QED BY <3>1, <3>2, <1>5
      <3>4. <<A, B, C, D>> \in String!Utf8Rows
        BY SMT DEF String!Utf8Rows, String!Trail, Trails
      <3>5. Len(<<A, B, C, D>>) = n
        BY <2>8
      <3> HIDE DEF A, B, C, D
      <3> QED BY <3>3, <3>4, <3>5
    <2>9. n \in {1, 2, 3, 4}
      BY <1>7 DEF WellFormed
    <2> QED BY <2>1, <2>2, <2>3, <2>4, <2>5, <2>6, <2>7, <2>8, <2>9
  <1> QED BY <1>1, <1>6, <1>7

(* Two well-formed sequences that begin at the same place are as long.     *)
LEMMA OneLength ==
  ASSUME NEW s \in Seq(Bytes), NEW p, NEW n, NEW m, WellFormed(s, p, n), WellFormed(s, p, m)
  PROVE  n = m
  <1> DEFINE lead == s[p]
             length == IF lead <= 127 THEN 1 ELSE IF lead <= 223 THEN 2
                       ELSE IF lead <= 239 THEN 3 ELSE 4
  <1>1. ASSUME NEW k, WellFormed(s, p, k) PROVE k = length
    <2>1. \/ k = 1 /\ One(s[p])
          \/ k = 2 /\ Two(s[p], s[p + 1])
          \/ k = 3 /\ Three(s[p], s[p + 1], s[p + 2])
          \/ k = 4 /\ Four(s[p], s[p + 1], s[p + 2], s[p + 3])
      BY <1>1, Zenon DEF WellFormed
    <2>2. /\ \A a : One(a) => a \in 0..127
          /\ \A a, b : Two(a, b) => a \in 194..223
          /\ \A a, b, c : Three(a, b, c) => a \in 224..239
          /\ \A a, b, c, d : Four(a, b, c, d) => a \in 240..244
      BY DEF One, Two, Three, Four
    <2>3. CASE k = 1 /\ One(s[p])
      <3>1. lead \in 0..127
        BY <2>2, <2>3
      <3> HIDE DEF lead
      <3> QED BY <2>3, <3>1
    <2>4. CASE k = 2 /\ Two(s[p], s[p + 1])
      <3>1. lead \in 194..223
        BY <2>2, <2>4
      <3> HIDE DEF lead
      <3> QED BY <2>4, <3>1
    <2>5. CASE k = 3 /\ Three(s[p], s[p + 1], s[p + 2])
      <3>1. lead \in 224..239
        BY <2>2, <2>5
      <3> HIDE DEF lead
      <3> QED BY <2>5, <3>1
    <2>6. CASE k = 4 /\ Four(s[p], s[p + 1], s[p + 2], s[p + 3])
      BY <2>2, <2>6
    <2> QED BY <2>1, <2>3, <2>4, <2>5, <2>6, Zenon
  <1> HIDE DEF length
  <1> QED BY <1>1

(* Whichever row of the table fits, it is as long as the sequence at p.    *)
LEMMA ChosenRow ==
  ASSUME NEW s \in Seq(Bytes), NEW p \in Nat \ {0}
  PROVE  /\ String!RowsAt(s, p) = {} <=> \A n : ~ WellFormed(s, p, n)
         /\ \A n : WellFormed(s, p, n) => Len(CHOOSE row \in String!RowsAt(s, p) : TRUE) = n
  BY RowsAre, OneLength

(* The characters of Unicode: code points that are no surrogates.          *)
Codes == {c \in Nat : c <= 1114111 /\ ~ (c >= 55296 /\ c <= 57343)}

(* What the bytes of a well-formed sequence stand for is a character, and  *)
(* how many there are depends on it alone.                                 *)
CharacterOf(n, code) ==
  /\ code \in Codes
  /\ \/ n = 1 /\ code <= 127
     \/ n = 2 /\ code >= 128 /\ code <= 2047
     \/ n = 3 /\ code >= 2048 /\ code <= 65535
     \/ n = 4 /\ code >= 65536

(* Two well-formed bytes stand for a character of two bytes.               *)
LEMMA TwoBytes ==
  ASSUME NEW a, NEW b, Two(a, b)
  PROVE  /\ a \in 194..223 /\ b \in Trails
         /\ CharacterOf(2, ((a - 192) * 64) + (b - 128))
  BY DEF Two, Trails, CharacterOf, Codes

(* Three well-formed bytes stand for a character of three bytes.           *)
LEMMA ThreeBytes ==
  ASSUME NEW a, NEW b, NEW c, Three(a, b, c)
  PROVE  /\ a \in 224..239 /\ b \in Trails /\ c \in Trails
         /\ CharacterOf(3, ((a - 224) * 4096) + ((b - 128) * 64) + (c - 128))
  BY DEF Three, Trails, CharacterOf, Codes

(* Four well-formed bytes stand for a character of four bytes.             *)
LEMMA FourBytes ==
  ASSUME NEW a, NEW b, NEW c, NEW d, Four(a, b, c, d)
  PROVE  /\ a \in 240..244 /\ b \in Trails /\ c \in Trails /\ d \in Trails
         /\ CharacterOf(4, ((a - 240) * 262144) + ((b - 128) * 4096)
                              + ((c - 128) * 64) + (d - 128))
  BY DEF Four, Trails, CharacterOf, Codes

(* A well-formed sequence stands for a character of its length.            *)
LEMMA ScalarIs ==
  ASSUME NEW s, NEW p, NEW n, WellFormed(s, p, n)
  PROVE  CharacterOf(n, String!Scalar(s, p, n))
  <1>1. CASE n = 1 /\ One(s[p])
    BY <1>1 DEF String!Scalar, One, Codes, CharacterOf
  <1>2. CASE n = 2 /\ Two(s[p], s[p + 1])
    BY <1>2, TwoBytes, SMT DEF String!Scalar
  <1>3. CASE n = 3 /\ Three(s[p], s[p + 1], s[p + 2])
    BY <1>3, ThreeBytes, SMT DEF String!Scalar
  <1>4. CASE n = 4 /\ Four(s[p], s[p + 1], s[p + 2], s[p + 3])
    BY <1>4, FourBytes, SMT DEF String!Scalar
  <1> QED BY <1>1, <1>2, <1>3, <1>4, Zenon DEF WellFormed

(* The high surrogates are one range of numbers.                           *)
LEMMA HighAre ==
  \A c : c \in String!HighSurrogates <=> c \in Int /\ c >= 55296 /\ c <= 56319
  BY SMTT(30) DEF String!HighSurrogates

(* And so are the low surrogates.                                          *)
LEMMA LowAre ==
  \A c : c \in String!LowSurrogates <=> c \in Int /\ c >= 56320 /\ c <= 57343
  BY SMTT(30) DEF String!LowSurrogates

(* And so are both together.                                               *)
LEMMA SurrogatesAre ==
  \A c : c \in String!Surrogates <=> c \in Int /\ c >= 55296 /\ c <= 57343
  BY HighAre, LowAre, SMT DEF String!Surrogates

-----------------------------------------------------------------------------
(* Strings: ValidUtf8SequenceLength and EncodeUtf8                         *)

(* What ValidUtf8SequenceLength asks of the code point that it put together. *)
Allowed(code, minimum) ==
  /\ code >= minimum
  /\ code <= 1114111
  /\ code \notin String!Surrogates

(* The bits that ValidUtf8SequenceLength masks, of the bytes it masks.     *)
LEMMA LowBits ==
  /\ \A b \in Trails : b % 64 = b - 128
  /\ \A a \in 194..223 : a % 32 = a - 192
  /\ \A a \in 224..239 : a % 16 = a - 224
  /\ \A a \in 240..244 : a % 8 = a - 240
  BY SMT DEF Trails

(* What the code asks of two bytes is that they are well-formed.           *)
LEMMA AllowedTwo ==
  ASSUME NEW a \in 194..223, NEW b
  PROVE  b \in Trails /\ Allowed(((a % 32) * 64) + (b % 64), 128) <=> Two(a, b)
  BY LowBits, SurrogatesAre DEF Trails, Two, Allowed

(* What the code asks of three bytes is that they are well-formed.         *)
LEMMA AllowedThree ==
  ASSUME NEW a \in 224..239, NEW b, NEW c
  PROVE  b \in Trails /\ c \in Trails /\ Allowed(((((a % 16) * 64) + (b % 64)) * 64) + (c % 64), 2048)
           <=> Three(a, b, c)
  <1>1. CASE b \in Trails /\ c \in Trails
    BY <1>1, LowBits, SurrogatesAre DEF Trails, Three, Allowed
  <1>2. CASE ~ (b \in Trails /\ c \in Trails)
    BY <1>2 DEF Three
  <1> QED BY <1>1, <1>2

(* What the code asks of four bytes is that they are well-formed.          *)
LEMMA AllowedFour ==
  ASSUME NEW a \in 240..244, NEW b, NEW c, NEW d
  PROVE  /\ b \in Trails /\ c \in Trails /\ d \in Trails
         /\ Allowed(((((((a % 8) * 64) + (b % 64)) * 64) + (c % 64)) * 64) + (d % 64), 65536)
         <=> Four(a, b, c, d)
  <1>1. CASE b \in Trails /\ c \in Trails /\ d \in Trails
    BY <1>1, LowBits, SurrogatesAre DEF Trails, Four, Allowed
  <1>2. CASE ~ (b \in Trails /\ c \in Trails /\ d \in Trails)
    BY <1>2, SMT DEF Four
  <1> QED BY <1>1, <1>2

(* The first bytes at p are a, b, c and d.                                 *)
Starts(s, p, a, b, c, d) ==
  /\ s \in Seq(Bytes) /\ p \in 1..Len(s)
  /\ s[p] = a /\ s[p + 1] = b /\ s[p + 2] = c /\ s[p + 3] = d

(* ValidUtf8SequenceLength at the first of two bytes.                      *)
LEMMA ValidTwo ==
  ASSUME NEW s, NEW p, NEW a \in 194..223, NEW b, NEW c, NEW d, Starts(s, p, a, b, c, d)
  PROVE  /\ String!ValidUtf8SequenceLength(s, p) = IF p + 1 <= Len(s) /\ Two(a, b) THEN 2 ELSE 0
         /\ \A k : WellFormed(s, p, k) <=> k = 2 /\ p + 1 <= Len(s) /\ Two(a, b)
  <1>0. /\ p \in Int /\ Len(s) \in Int
        /\ s[p] = a /\ s[p + 1] = b /\ s[p + 2] = c /\ s[p + 3] = d
    BY DEF Starts
  <1> DEFINE lead == [length |-> 2, bits |-> a % 32, minimum |-> 128]
             code == String!CodePointAt(s, p, lead)
  <1>1. String!Lead(s[p]) = lead
    BY <1>0, SMT DEF String!Lead
  <1>9. lead.length = 2 /\ lead.minimum = 128
    BY SMT
  <1>8. code = ((a % 32) * 64) + (b % 64)
    BY <1>0, SMT DEF String!CodePointAt
  <1> HIDE DEF lead, code
  <1>2. String!ValidUtf8SequenceLength(s, p) =
          IF /\ p + 2 - 1 <= Len(s)
             /\ \A i \in 1..2 - 1 : s[p + i] \in 128..191
             /\ Allowed(code, 128)
          THEN 2 ELSE 0
    BY <1>1, <1>9 DEF String!ValidUtf8SequenceLength, Allowed, code
  <1>3. (\A i \in 1..2 - 1 : s[p + i] \in 128..191) <=> b \in Trails
    BY <1>0 DEF Trails
  <1>4. b \in Trails /\ Allowed(((a % 32) * 64) + (b % 64), 128)
          <=> Two(a, b)
    BY AllowedTwo, SMT
  <1>5. ~ One(a) /\ ~ Three(a, b, c) /\ ~ Four(a, b, c, d)
    BY DEF One, Three, Four
  <1>6. \A k : WellFormed(s, p, k) <=> k = 2 /\ p + 2 - 1 <= Len(s) /\ Two(a, b)
    BY <1>0, <1>5 DEF WellFormed
  <1>7. p + 2 - 1 = p + 1
    BY <1>0
  <1> QED BY <1>2, <1>3, <1>4, <1>6, <1>7, <1>8, SMT

(* ValidUtf8SequenceLength at the first of three bytes.                    *)
LEMMA ValidThree ==
  ASSUME NEW s, NEW p, NEW a \in 224..239, NEW b, NEW c, NEW d, Starts(s, p, a, b, c, d)
  PROVE  /\ String!ValidUtf8SequenceLength(s, p) = IF p + 2 <= Len(s) /\ Three(a, b, c) THEN 3 ELSE 0
         /\ \A k : WellFormed(s, p, k) <=> k = 3 /\ p + 2 <= Len(s) /\ Three(a, b, c)
  <1>0. /\ p \in Int /\ Len(s) \in Int
        /\ s[p] = a /\ s[p + 1] = b /\ s[p + 2] = c /\ s[p + 3] = d
    BY DEF Starts
  <1> DEFINE lead == [length |-> 3, bits |-> a % 16, minimum |-> 2048]
             code == String!CodePointAt(s, p, lead)
  <1>1. String!Lead(s[p]) = lead
    BY <1>0, SMT DEF String!Lead
  <1>9. lead.length = 3 /\ lead.minimum = 2048
    BY SMT
  <1>8. code = ((((a % 16) * 64) + (b % 64)) * 64) + (c % 64)
    BY <1>0, SMT DEF String!CodePointAt
  <1> HIDE DEF lead, code
  <1>2. String!ValidUtf8SequenceLength(s, p) =
          IF /\ p + 3 - 1 <= Len(s)
             /\ \A i \in 1..3 - 1 : s[p + i] \in 128..191
             /\ Allowed(code, 2048)
          THEN 3 ELSE 0
    BY <1>1, <1>9 DEF String!ValidUtf8SequenceLength, Allowed, code
  <1>3. (\A i \in 1..3 - 1 : s[p + i] \in 128..191) <=> b \in Trails /\ c \in Trails
    BY <1>0 DEF Trails
  <1>4. b \in Trails /\ c \in Trails /\ Allowed(((((a % 16) * 64) + (b % 64)) * 64) + (c % 64), 2048)
          <=> Three(a, b, c)
    BY AllowedThree, SMT
  <1>5. ~ One(a) /\ ~ Two(a, b) /\ ~ Four(a, b, c, d)
    BY DEF One, Two, Four
  <1>6. \A k : WellFormed(s, p, k) <=> k = 3 /\ p + 3 - 1 <= Len(s) /\ Three(a, b, c)
    BY <1>0, <1>5 DEF WellFormed
  <1>7. p + 3 - 1 = p + 2
    BY <1>0
  <1> QED BY <1>2, <1>3, <1>4, <1>6, <1>7, <1>8, SMT

(* ValidUtf8SequenceLength at the first of four bytes.                     *)
LEMMA ValidFour ==
  ASSUME NEW s, NEW p, NEW a \in 240..244, NEW b, NEW c, NEW d, Starts(s, p, a, b, c, d)
  PROVE  /\ String!ValidUtf8SequenceLength(s, p) = IF p + 3 <= Len(s) /\ Four(a, b, c, d) THEN 4 ELSE 0
         /\ \A k : WellFormed(s, p, k) <=> k = 4 /\ p + 3 <= Len(s) /\ Four(a, b, c, d)
  <1>0. /\ p \in Int /\ Len(s) \in Int
        /\ s[p] = a /\ s[p + 1] = b /\ s[p + 2] = c /\ s[p + 3] = d
    BY DEF Starts
  <1> DEFINE lead == [length |-> 4, bits |-> a % 8, minimum |-> 65536]
             code == String!CodePointAt(s, p, lead)
  <1>1. String!Lead(s[p]) = lead
    BY <1>0, SMT DEF String!Lead
  <1>9. lead.length = 4 /\ lead.minimum = 65536
    BY SMT
  <1>8. code = ((((((a % 8) * 64) + (b % 64)) * 64) + (c % 64)) * 64) + (d % 64)
    BY <1>0, SMT DEF String!CodePointAt
  <1> HIDE DEF lead, code
  <1>2. String!ValidUtf8SequenceLength(s, p) =
          IF /\ p + 4 - 1 <= Len(s)
             /\ \A i \in 1..4 - 1 : s[p + i] \in 128..191
             /\ Allowed(code, 65536)
          THEN 4 ELSE 0
    BY <1>1, <1>9 DEF String!ValidUtf8SequenceLength, Allowed, code
  <1>3. (\A i \in 1..4 - 1 : s[p + i] \in 128..191) <=> b \in Trails /\ c \in Trails /\ d \in Trails
    BY <1>0 DEF Trails
  <1>4. b \in Trails /\ c \in Trails /\ d \in Trails /\ Allowed(((((((a % 8) * 64) + (b % 64)) * 64) + (c % 64)) * 64) + (d % 64), 65536)
          <=> Four(a, b, c, d)
    BY AllowedFour, SMT
  <1>5. ~ One(a) /\ ~ Two(a, b) /\ ~ Three(a, b, c)
    BY DEF One, Two, Three
  <1>6. \A k : WellFormed(s, p, k) <=> k = 4 /\ p + 4 - 1 <= Len(s) /\ Four(a, b, c, d)
    BY <1>0, <1>5 DEF WellFormed
  <1>7. p + 4 - 1 = p + 3
    BY <1>0
  <1> QED BY <1>2, <1>3, <1>4, <1>6, <1>7, <1>8, SMT

(* The loop of ValidUtf8SequenceLength finds what the table says.          *)
LEMMA ValidLength ==
  ASSUME NEW s \in Seq(Bytes), NEW p \in 1..Len(s), s[p] >= 128
  PROVE  LET n == String!ValidUtf8SequenceLength(s, p)
         IN \/ n = 0 /\ \A k : ~ WellFormed(s, p, k)
            \/ n \in 2..4 /\ WellFormed(s, p, n)
  <1> DEFINE a == s[p]
             b == s[p + 1]
             c == s[p + 2]
             d == s[p + 3]
             n == String!ValidUtf8SequenceLength(s, p)
  <1>0. a \in 128..255
    <2>1. a \in Bytes /\ a >= 128
      OBVIOUS
    <2> HIDE DEF a
    <2> QED BY <2>1 DEF Bytes, String!Byte
  <1>1. Starts(s, p, a, b, c, d)
    BY DEF Starts
  <1> HIDE DEF a, b, c, d, n
  <1>2. CASE a \in 194..223
    <2>1. n = (IF p + 1 <= Len(s) /\ Two(a, b) THEN 2 ELSE 0)
          /\ \A k : WellFormed(s, p, k) <=> k = 2 /\ p + 1 <= Len(s) /\ Two(a, b)
      BY <1>1, <1>2, ValidTwo DEF n
    <2> QED BY <2>1 DEF n
  <1>3. CASE a \in 224..239
    <2>1. n = (IF p + 2 <= Len(s) /\ Three(a, b, c) THEN 3 ELSE 0)
          /\ \A k : WellFormed(s, p, k) <=> k = 3 /\ p + 2 <= Len(s) /\ Three(a, b, c)
      BY <1>1, <1>3, ValidThree DEF n
    <2> QED BY <2>1 DEF n
  <1>4. CASE a \in 240..244
    BY <1>1, <1>4, ValidFour DEF n
  <1>5. CASE a \notin 194..223 /\ a \notin 224..239 /\ a \notin 240..244
    <2>1. String!Lead(a).length = 0
      BY <1>5, SMT DEF String!Lead
    <2>2. n = 0
      BY <2>1, SMT DEF String!ValidUtf8SequenceLength, n, a
    <2>3. ~ One(a) /\ ~ Two(a, b) /\ ~ Three(a, b, c) /\ ~ Four(a, b, c, d)
      BY <1>0, <1>5 DEF One, Two, Three, Four
    <2>4. \A k : ~ WellFormed(s, p, k)
      BY <2>3 DEF WellFormed, a, b, c, d
    <2> QED BY <2>2, <2>4 DEF n
  <1> QED BY <1>2, <1>3, <1>4, <1>5

(* One well-formed character and what it stands for.                       *)
Spells(b, code) ==
  /\ b \in Seq(Bytes) /\ WellFormed(b, 1, Len(b))
  /\ code = String!Scalar(b, 1, Len(b))

(* EncodeUtf8 writes an ASCII character as itself.                         *)
LEMMA EncodeOne ==
  ASSUME NEW code \in 0..127
  PROVE  Spells(String!Encode(code), code)
  <1> DEFINE b == <<code>>
  <1>1. String!Encode(code) = b
    BY SMT DEF String!Encode
  <1>2. b \in Seq(Bytes) /\ Len(b) = 1 /\ b[1] = code
    BY SMT DEF Bytes, String!Byte
  <1> HIDE DEF b
  <1>3. WellFormed(b, 1, 1) /\ code = String!Scalar(b, 1, 1)
    BY <1>2, SMT DEF WellFormed, One, String!Scalar
  <1> QED BY <1>1, <1>2, <1>3 DEF Spells

(* EncodeUtf8 writes a character of two bytes well-formed.                 *)
LEMMA EncodeTwo ==
  ASSUME NEW code \in Codes, code >= 128 /\ code <= 2047
  PROVE  Spells(String!Encode(code), code)
  <1> DEFINE a == 192 + (code \div 64)
             b == 128 + ((code \div 1) % 64)
             u == <<a, b>>
  <1>0. code \in Nat /\ code <= 1114111 /\ ~ (code >= 55296 /\ code <= 57343)
    BY SMT DEF Codes
  <1>1. String!Encode(code) = u
    BY <1>0, SMT DEF String!Encode
  <1>2. Two(a, b)
    BY <1>0, SMT DEF Two, Trails
  <1>3. code = ((a - 192) * 64) + (b - 128)
    BY <1>0, SMT
  <1>4. a \in 0..255 /\ b \in 0..255
    BY <1>0, SMT
  <1> HIDE DEF a, b
  <1>5. u \in Seq(Bytes) /\ Len(u) = 2 /\ u[1] = a /\ u[2] = b
    BY <1>4, SMT DEF Bytes, String!Byte
  <1> HIDE DEF u
  <1>6. WellFormed(u, 1, 2) /\ code = String!Scalar(u, 1, 2)
    BY <1>2, <1>3, <1>5, SMT DEF WellFormed, String!Scalar
  <1> QED BY <1>1, <1>5, <1>6 DEF Spells

(* EncodeUtf8 writes a character of three bytes well-formed.               *)
LEMMA EncodeThree ==
  ASSUME NEW code \in Codes, code >= 2048 /\ code <= 65535
  PROVE  Spells(String!Encode(code), code)
  <1> DEFINE a == 224 + (code \div 4096)
             b == 128 + ((code \div 64) % 64)
             c == 128 + ((code \div 1) % 64)
             u == <<a, b, c>>
  <1>0. code \in Nat /\ code <= 1114111 /\ ~ (code >= 55296 /\ code <= 57343)
    BY SMT DEF Codes
  <1>1. String!Encode(code) = u
    BY <1>0, SMT DEF String!Encode
  <1>2. Three(a, b, c)
    BY <1>0, SMT DEF Three, Trails
  <1>3. code = ((a - 224) * 4096) + ((b - 128) * 64) + (c - 128)
    BY <1>0, SMT
  <1>4. a \in 0..255 /\ b \in 0..255 /\ c \in 0..255
    BY <1>0, SMT
  <1> HIDE DEF a, b, c
  <1>5. u \in Seq(Bytes) /\ Len(u) = 3 /\ u[1] = a /\ u[2] = b /\ u[3] = c
    BY <1>4, SMT DEF Bytes, String!Byte
  <1> HIDE DEF u
  <1>6. WellFormed(u, 1, 3) /\ code = String!Scalar(u, 1, 3)
    BY <1>2, <1>3, <1>5, SMT DEF WellFormed, String!Scalar
  <1> QED BY <1>1, <1>5, <1>6 DEF Spells

(* EncodeUtf8 writes a character of four bytes well-formed.                *)
LEMMA EncodeFour ==
  ASSUME NEW code \in Codes, code >= 65536
  PROVE  Spells(String!Encode(code), code)
  <1> DEFINE a == 240 + (code \div 262144)
             b == 128 + ((code \div 4096) % 64)
             c == 128 + ((code \div 64) % 64)
             d == 128 + ((code \div 1) % 64)
             u == <<a, b, c, d>>
  <1>0. code \in Nat /\ code <= 1114111 /\ ~ (code >= 55296 /\ code <= 57343)
    BY SMT DEF Codes
  <1>1. String!Encode(code) = u
    BY <1>0, SMT DEF String!Encode
  <1>2. Four(a, b, c, d)
    BY <1>0, SMT DEF Four, Trails
  <1>3. code = ((a - 240) * 262144) + ((b - 128) * 4096) + ((c - 128) * 64) + (d - 128)
    BY <1>0, SMT
  <1>4. a \in 0..255 /\ b \in 0..255 /\ c \in 0..255 /\ d \in 0..255
    BY <1>0, SMT
  <1> HIDE DEF a, b, c, d
  <1>5. u \in Seq(Bytes) /\ Len(u) = 4 /\ u[1] = a /\ u[2] = b /\ u[3] = c /\ u[4] = d
    BY <1>4, SMT DEF Bytes, String!Byte
  <1> HIDE DEF u
  <1>6. WellFormed(u, 1, 4) /\ code = String!Scalar(u, 1, 4)
    BY <1>2, <1>3, <1>5, SMT DEF WellFormed, String!Scalar
  <1> QED BY <1>1, <1>5, <1>6 DEF Spells

(* EncodeUtf8 writes every character as the bytes that stand for it.       *)
LEMMA EncodeSpells == \A code \in Codes : Spells(String!Encode(code), code)
  BY EncodeOne, EncodeTwo, EncodeThree, EncodeFour DEF Codes

-----------------------------------------------------------------------------
(* Strings: reading a sequence from the front                              *)

(* A sequence of n things is read from the front: what begins at p stands  *)
(* for head[p] and is length[p] long; g[p] is what all of it from p on     *)
(* stands for.                                                             *)
Fitting(n, A, head, length) ==
  /\ n \in Nat /\ head \in [1..n -> A] /\ length \in [1..n -> Nat \ {0}]
  /\ \A p \in 1..n : p + length[p] <= n + 1

Chunked(n, head, length, g) ==
  /\ g[n + 1] = <<>>
  /\ \A p \in 1..n : g[p] = <<head[p]>> \o g[p + length[p]]

(* There is such a reading of it.                                          *)
LEMMA ChunksExist ==
  ASSUME NEW n, NEW A, NEW head, NEW length, Fitting(n, A, head, length)
  PROVE  \E g \in [1..n + 1 -> Seq(A)] : Chunked(n, head, length, g)
  <1> DEFINE S == 1..n + 1
             stop == {n + 1}
             next == [p \in S |-> IF p = n + 1 THEN p ELSE p + length[p]]
             step == [q \in Seq(A) \X S |-> IF q[2] = n + 1 THEN <<>> ELSE <<head[q[2]]>> \o q[1]]
             first == [p \in S |-> <<>>]
             measure == [p \in S |-> (n + 1) - p]
  <1>1. /\ n \in Nat /\ \A p \in S \ stop : p \in 1..n
        /\ \A p \in 1..n : /\ p \in S /\ p # n + 1 /\ head[p] \in A /\ length[p] \in Nat \ {0}
                           /\ p + length[p] <= n + 1
    BY DEF Fitting
  <1>2. \A p \in 1..n : p + length[p] \in S
    BY <1>1
  <1>3. next \in [S -> S] /\ first \in [S -> Seq(A)] /\ measure \in [S -> Nat]
    BY <1>1, <1>2
  <1>4. step \in [Seq(A) \X S -> Seq(A)]
    BY <1>1
  <1>5. \A p \in S \ stop : measure[next[p]] < measure[p]
    BY <1>1, <1>2
  <1>6. PICK h \in [S -> Seq(A)] :
          \A p \in S : h[p] = IF p \in stop THEN first[p] ELSE step[<<h[next[p]], p>>]
    <2> DEFINE B == Seq(A)
    <2>1. Recursive(S, B, stop, first, next, measure, step)
      BY <1>3, <1>4, <1>5 DEF Recursive
    <2> HIDE DEF S, stop, next, step, first, measure, B
    <2>2. \E h \in [S -> B] :
            \A p \in S : h[p] = IF p \in stop THEN first[p] ELSE step[<<h[next[p]], p>>]
      BY <2>1, Recursion
    <2> QED BY <2>2 DEF B
  <1>7. h[n + 1] = <<>>
    <2>1. n + 1 \in S
      BY <1>1
    <2>2. h[n + 1] = first[n + 1]
      BY <1>6, <2>1, Zenon
    <2> QED BY <2>1, <2>2
  <1>8. ASSUME NEW p \in 1..n PROVE h[p] = <<head[p]>> \o h[p + length[p]]
    BY <1>1, <1>2, <1>6, Zenon
  <1>9. Chunked(n, head, length, h)
    BY <1>7, <1>8, Zenon DEF Chunked
  <1> QED BY <1>6, <1>9

(* The last n of the things are these.                                     *)
Ends(m, n, head, length, last, long) ==
  \A p \in 1..n : head[m + p] = last[p] /\ length[m + p] = long[p]

(* What stands behind the first m of m + n things depends on nothing else. *)
LEMMA ChunksShift ==
  ASSUME NEW m \in Nat, NEW n \in Nat, NEW A, NEW head, NEW length, NEW g, NEW last, NEW long, NEW h,
         Fitting(n, A, last, long),
         Chunked(m + n, head, length, g), Chunked(n, last, long, h),
         Ends(m, n, head, length, last, long)
  PROVE  g[m + 1] = h[1]
  <1> DEFINE T == {k \in Nat : \A p \in 1..n + 1 : (n + 1) - p <= k => g[m + p] = h[p]}
  <1>1. 0 \in T
    BY DEF Chunked
  <1>2. ASSUME NEW k \in Nat, k \in T PROVE k + 1 \in T
    <2> SUFFICES ASSUME NEW p \in 1..n + 1, (n + 1) - p <= k + 1 PROVE g[m + p] = h[p]
      OBVIOUS
    <2>1. CASE p = n + 1
      BY <2>1, <1>2
    <2>2. CASE p # n + 1
      <3> DEFINE l == long[p]
                 j == m + p
      <3>1. p \in 1..n /\ l \in Nat \ {0} /\ p + l <= n + 1
        BY <2>2 DEF Fitting
      <3>2. j \in 1..m + n /\ length[j] = l /\ head[j] = last[p]
        BY <3>1 DEF Ends
      <3>3. g[j] = <<last[p]>> \o g[j + l]
        BY <3>2, Zenon DEF Chunked
      <3>4. h[p] = <<last[p]>> \o h[p + l]
        <4> QED BY <3>1, Zenon DEF Chunked, l
      <3>5. g[m + (p + l)] = h[p + l]
        BY <3>1, <1>2
      <3>6. j + l = m + (p + l)
        BY <3>1
      <3> HIDE DEF l
      <3> QED BY <3>3, <3>4, <3>5, <3>6
    <2> QED BY <2>1, <2>2
  <1>3. Nat \subseteq T
    BY <1>1, <1>2, Induction, Zenon
  <1>4. 1 \in 1..n + 1 /\ (n + 1) - 1 <= n
    OBVIOUS
  <1> QED BY <1>3, <1>4

(* It is a sequence of what the things stand for.                          *)
LEMMA ChunksType ==
  ASSUME NEW n, NEW A, NEW head, NEW length, Fitting(n, A, head, length),
         NEW g, Chunked(n, head, length, g)
  PROVE  g[1] \in Seq(A)
  <1>1. PICK h \in [1..n + 1 -> Seq(A)] : Chunked(n, head, length, h)
    BY ChunksExist
  <1>2. n \in Nat /\ 0 + n = n /\ 0 + 1 = 1 /\ 0 \in Nat /\ \A p \in 1..n : 0 + p = p
    BY DEF Fitting
  <1>3. g[0 + 1] = h[1]
    <2> DEFINE m == 0
    <2>1. /\ m \in Nat /\ Chunked(m + n, head, length, g)
          /\ Ends(m, n, head, length, head, length)
      BY <1>2 DEF Ends
    <2> HIDE DEF m
    <2>2. g[m + 1] = h[1]
      BY <1>1, <1>2, <2>1, ChunksShift
    <2> QED BY <2>2 DEF m
  <1>4. 1 \in 1..n + 1
    BY <1>2
  <1> QED BY <1>1, <1>2, <1>3, <1>4

(* The recursion that reads it.                                            *)
Reading(n, head, length, g) ==
  [p \in 1..n + 1 |-> IF p > n THEN <<>> ELSE <<head[p]>> \o g[p + length[p]]]

(* A recursive definition of it, by CHOOSE, defines it.                    *)
LEMMA ReadingIs ==
  ASSUME NEW n, NEW A, NEW head, NEW length, Fitting(n, A, head, length)
  PROVE  LET g == CHOOSE g : g = Reading(n, head, length, g)
         IN Chunked(n, head, length, g) /\ g[1] \in Seq(A)
  <1> DEFINE value(g, p) == IF p > n THEN <<>> ELSE <<head[p]>> \o g[p + length[p]]
             from == CHOOSE g : g = Reading(n, head, length, g)
  <1>1. /\ n \in Nat /\ n + 1 \in 1..n + 1 /\ n + 1 > n
        /\ \A p \in 1..n + 1 : p > n <=> p = n + 1
        /\ \A p \in 1..n : p \in 1..n + 1 /\ ~ (p > n)
    BY DEF Fitting
  <1>2. PICK h \in [1..n + 1 -> Seq(A)] : Chunked(n, head, length, h)
    BY ChunksExist
  <1>3. h = Reading(n, head, length, h)
    <2>1. \A p \in 1..n + 1 : h[p] = value(h, p)
      <3> SUFFICES ASSUME NEW p \in 1..n + 1 PROVE h[p] = value(h, p)
        OBVIOUS
      <3>1. p # n + 1 => p \in 1..n
        BY <1>1
      <3> QED BY <1>1, <1>2, <3>1, Zenon DEF Chunked
    <2>2. h = [p \in 1..n + 1 |-> h[p]]
      BY <1>2
    <2> QED BY <2>1, <2>2, Zenon DEF Reading
  <1>4. from = Reading(n, head, length, from)
    BY <1>3
  <1>5. \A p \in 1..n + 1 : from[p] = value(from, p)
    BY <1>4, Zenon DEF Reading
  <1>6. Chunked(n, head, length, from)
    BY <1>1, <1>5, Zenon DEF Chunked
  <1>7. from[1] \in Seq(A)
    BY <1>6, ChunksType
  <1> QED BY <1>6, <1>7

-----------------------------------------------------------------------------
(* Strings: what bytes stand for, and what elements mean                   *)

(* What is at p: a character, or nothing that stands for one.              *)
Marks == Codes \cup {-1}

(* How many bytes that takes, and what it stands for.                      *)
LengthAt(s, p) ==
  IF String!RowsAt(s, p) = {} THEN 1 ELSE Len(CHOOSE row \in String!RowsAt(s, p) : TRUE)
MarkAt(s, p) ==
  IF String!RowsAt(s, p) = {} THEN -1 ELSE String!Scalar(s, p, LengthAt(s, p))

(* The same for every p.                                                   *)
MarksOf(s) == [p \in 1..Len(s) |-> MarkAt(s, p)]
LengthsOf(s) == [p \in 1..Len(s) |-> LengthAt(s, p)]

(* It is the well-formed sequence at p, or a byte that stands for nothing. *)
LEMMA MarkIs ==
  ASSUME NEW s \in Seq(Bytes), NEW p \in 1..Len(s)
  PROVE  /\ \A n : WellFormed(s, p, n) => LengthAt(s, p) = n /\ MarkAt(s, p) = String!Scalar(s, p, n)
         /\ (\A n : ~ WellFormed(s, p, n)) => LengthAt(s, p) = 1 /\ MarkAt(s, p) = -1
  <1> DEFINE rows_at == String!RowsAt(s, p)
             chosen == CHOOSE row \in rows_at : TRUE
  <1>1. /\ rows_at = {} <=> \A n : ~ WellFormed(s, p, n)
        /\ \A n : WellFormed(s, p, n) => Len(chosen) = n
    <2>1. p \in Nat \ {0}
      OBVIOUS
    <2> QED BY <2>1, ChosenRow, Zenon
  <1>2. LengthAt(s, p) = IF rows_at = {} THEN 1 ELSE Len(chosen)
    BY DEF LengthAt
  <1>3. MarkAt(s, p) = IF rows_at = {} THEN -1 ELSE String!Scalar(s, p, LengthAt(s, p))
    BY DEF MarkAt
  <1> HIDE DEF rows_at, chosen
  <1>4. ASSUME NEW n, WellFormed(s, p, n)
        PROVE  LengthAt(s, p) = n /\ MarkAt(s, p) = String!Scalar(s, p, n)
    BY <1>1, <1>2, <1>3, <1>4, Zenon
  <1>5. ASSUME \A n : ~ WellFormed(s, p, n) PROVE LengthAt(s, p) = 1 /\ MarkAt(s, p) = -1
    BY <1>1, <1>2, <1>3, <1>5
  <1> QED BY <1>4, <1>5, Zenon

(* It does not go on behind the end of s.                                  *)
LEMMA MarkType ==
  ASSUME NEW s \in Seq(Bytes), NEW p \in 1..Len(s)
  PROVE  LengthAt(s, p) \in Nat \ {0} /\ p + LengthAt(s, p) <= Len(s) + 1 /\ MarkAt(s, p) \in Marks
  <1>0. p \in Int /\ Len(s) \in Int /\ p <= Len(s)
    OBVIOUS
  <1>1. CASE \E n : WellFormed(s, p, n)
    <2>1. PICK n : WellFormed(s, p, n)
      BY <1>1
    <2>2. LengthAt(s, p) = n /\ MarkAt(s, p) = String!Scalar(s, p, n)
      BY <2>1, MarkIs
    <2>3. n \in 1..4 /\ p + n - 1 <= Len(s)
      BY <2>1 DEF WellFormed
    <2>4. String!Scalar(s, p, n) \in Codes
      BY <2>1, ScalarIs, SMT DEF CharacterOf
    <2>5. p + n <= Len(s) + 1
      BY <1>0, <2>3
    <2> QED BY <2>2, <2>3, <2>4, <2>5 DEF Marks
  <1>2. CASE \A n : ~ WellFormed(s, p, n)
    BY <1>2, MarkIs, <1>0 DEF Marks
  <1> QED BY <1>1, <1>2

(* So s can be read from the front.                                        *)
LEMMA MarksFit ==
  ASSUME NEW s \in Seq(Bytes)
  PROVE  Fitting(Len(s), Marks, MarksOf(s), LengthsOf(s))
  BY MarkType DEF MarksOf, LengthsOf, Fitting

(* Characters is that reading.                                             *)
LEMMA CharactersAre ==
  ASSUME NEW s \in Seq(Bytes)
  PROVE  /\ \E g : Chunked(Len(s), MarksOf(s), LengthsOf(s), g) /\ String!Characters(s) = g[1]
         /\ String!Characters(s) \in Seq(Marks)
  <1> DEFINE n == Len(s)
             right(g) == [p \in 1..n + 1 |->
                            IF p > n THEN <<>>
                            ELSE IF String!RowsAt(s, p) = {} THEN <<-1>> \o g[p + 1]
                            ELSE LET k == Len(CHOOSE row \in String!RowsAt(s, p) : TRUE)
                                 IN <<String!Scalar(s, p, k)>> \o g[p + k]]
             reads(g) == Reading(n, MarksOf(s), LengthsOf(s), g)
             from == CHOOSE g : g = reads(g)
  <1>1. ASSUME NEW g PROVE right(g) = reads(g)
    <2>1. ASSUME NEW p \in 1..n + 1
          PROVE  (IF p > n THEN <<>>
                  ELSE IF String!RowsAt(s, p) = {} THEN <<-1>> \o g[p + 1]
                  ELSE LET k == Len(CHOOSE row \in String!RowsAt(s, p) : TRUE)
                       IN <<String!Scalar(s, p, k)>> \o g[p + k])
                 = (IF p > n THEN <<>> ELSE <<MarksOf(s)[p]>> \o g[p + LengthsOf(s)[p]])
      <3>1. ~ (p > n) => MarksOf(s)[p] = MarkAt(s, p) /\ LengthsOf(s)[p] = LengthAt(s, p)
        BY DEF MarksOf, LengthsOf
      <3>2. CASE String!RowsAt(s, p) = {}
        BY <3>2, <3>1 DEF LengthAt, MarkAt
      <3>3. CASE String!RowsAt(s, p) # {}
        BY <3>3, <3>1 DEF LengthAt, MarkAt
      <3> QED BY <3>2, <3>3
    <2> HIDE DEF n
    <2> QED BY <2>1, Zenon DEF Reading
  <1>2. String!Characters(s) = from[1]
    BY <1>1, Zenon DEF String!Characters
  <1>3. Chunked(n, MarksOf(s), LengthsOf(s), from) /\ from[1] \in Seq(Marks)
    BY MarksFit, ReadingIs
  <1> HIDE DEF from
  <1> QED BY <1>2, <1>3

(* How many bytes are left of s from p on.                                 *)
Left(s, p) == (Len(s) + 1) - p

(* What is left of s from p on is what u begins with at q.                 *)
Along(s, p, u, q) ==
  /\ s \in Seq(Bytes) /\ u \in Seq(Bytes) /\ p \in 1..Len(s) + 1 /\ q \in 1..Len(u) + 1
  /\ Left(s, p) <= Left(u, q)
  /\ \A i \in Nat : i < Left(s, p) => s[p + i] = u[q + i]

(* The first bytes of the two are the same.                                *)
LEMMA AlongBytes ==
  ASSUME NEW s, NEW p, NEW u, NEW q, Along(s, p, u, q)
  PROVE  /\ Left(s, p) \in Nat /\ Left(u, q) \in Nat /\ Left(s, p) <= Left(u, q)
         /\ p \in Nat /\ q \in Nat /\ Len(s) \in Nat /\ Len(u) \in Nat
         /\ 1 <= Left(s, p) => s[p] = u[q]
         /\ 2 <= Left(s, p) => s[p + 1] = u[q + 1]
         /\ 3 <= Left(s, p) => s[p + 2] = u[q + 2]
         /\ 4 <= Left(s, p) => s[p + 3] = u[q + 3]
  <1>1. /\ p \in 1..Len(s) + 1 /\ q \in 1..Len(u) + 1 /\ Len(s) \in Nat /\ Len(u) \in Nat
        /\ Left(s, p) <= Left(u, q)
        /\ \A i \in Nat : i < Left(s, p) => s[p + i] = u[q + i]
    BY DEF Along
  <1>2. Left(s, p) \in Nat /\ Left(u, q) \in Nat
    BY <1>1 DEF Left
  <1> DEFINE l == Left(s, p)
  <1>3. (0 < l => s[p + 0] = u[q + 0]) /\ (1 < l => s[p + 1] = u[q + 1])
        /\ (2 < l => s[p + 2] = u[q + 2]) /\ (3 < l => s[p + 3] = u[q + 3])
    BY <1>1
  <1>4. p + 0 = p /\ q + 0 = q /\ p \in Nat /\ q \in Nat
    BY <1>1
  <1> HIDE DEF l
  <1>5. /\ 1 <= l => s[p] = u[q]
        /\ 2 <= l => s[p + 1] = u[q + 1]
        /\ 3 <= l => s[p + 2] = u[q + 2]
        /\ 4 <= l => s[p + 3] = u[q + 3]
    BY <1>2, <1>3, <1>4 DEF l
  <1> QED BY <1>1, <1>2, <1>4, <1>5, Zenon DEF l

(* And so are the well-formed sequences, as long as nothing is cut off.    *)
LEMMA AlongWellFormed ==
  ASSUME NEW s, NEW p, NEW u, NEW q, Along(s, p, u, q)
  PROVE  /\ \A n : WellFormed(s, p, n) <=> n \in 1..4 /\ n <= Left(s, p) /\ WellFormed(u, q, n)
         /\ \A n : WellFormed(s, p, n) => String!Scalar(s, p, n) = String!Scalar(u, q, n)
  <1> DEFINE l == Left(s, p)
             m == Left(u, q)
  <1>1. /\ l \in Nat /\ m \in Nat /\ l <= m
        /\ p \in Nat /\ q \in Nat /\ Len(s) \in Nat /\ Len(u) \in Nat
        /\ 1 <= l => s[p] = u[q]
        /\ 2 <= l => s[p + 1] = u[q + 1]
        /\ 3 <= l => s[p + 2] = u[q + 2]
        /\ 4 <= l => s[p + 3] = u[q + 3]
    BY AlongBytes
  <1>2. l = (Len(s) + 1) - p /\ m = (Len(u) + 1) - q
    BY DEF Left
  <1>3. ASSUME NEW n
        PROVE  /\ WellFormed(s, p, n) <=> n \in 1..4 /\ n <= Left(s, p) /\ WellFormed(u, q, n)
               /\ WellFormed(s, p, n) => String!Scalar(s, p, n) = String!Scalar(u, q, n)
    <2> HIDE DEF l, m
    <2>1. CASE n \in 1..4 /\ n <= l
      <3>1. p + n - 1 <= Len(s) /\ q + n - 1 <= Len(u) /\ n \in {1, 2, 3, 4}
            /\ (n = 1 => 1 <= l) /\ (n = 2 => 1 <= l /\ 2 <= l)
            /\ (n = 3 => 1 <= l /\ 2 <= l /\ 3 <= l)
            /\ (n = 4 => 1 <= l /\ 2 <= l /\ 3 <= l /\ 4 <= l)
        BY <1>1, <1>2, <2>1
      <3>2. WellFormed(s, p, n) <=> WellFormed(u, q, n)
        BY <1>1, <3>1, Zenon DEF WellFormed
      <3>3. String!Scalar(s, p, n) = String!Scalar(u, q, n)
        <4>1. CASE n = 1
          BY <1>1, <3>1, <4>1, SMT DEF String!Scalar
        <4>2. CASE n = 2
          BY <1>1, <3>1, <4>2, SMTT(30) DEF String!Scalar
        <4>3. CASE n = 3
          <5>1. s[p] = u[q] /\ s[p + 1] = u[q + 1] /\ s[p + 2] = u[q + 2]
            BY <1>1, <3>1, <4>3, Zenon
          <5> QED BY <4>3, <5>1, SMT DEF String!Scalar
        <4>4. CASE n = 4
          <5>1. s[p] = u[q] /\ s[p + 1] = u[q + 1] /\ s[p + 2] = u[q + 2] /\ s[p + 3] = u[q + 3]
            BY <1>1, <3>1, <4>4, Zenon
          <5> QED BY <4>4, <5>1, SMT DEF String!Scalar
        <4> QED BY <3>1, <4>1, <4>2, <4>3, <4>4
      <3> QED BY <2>1, <3>2, <3>3 DEF l
    <2>2. CASE ~ (n \in 1..4 /\ n <= l)
      <3>1. ASSUME WellFormed(s, p, n) PROVE n \in 1..4 /\ n <= l
        <4>1. n \in {1, 2, 3, 4} /\ p + n - 1 <= Len(s)
          BY <3>1, Zenon DEF WellFormed
        <4> QED BY <1>1, <1>2, <4>1
      <3> QED BY <2>2, <3>1 DEF l
    <2> QED BY <2>1, <2>2
  <1> QED BY <1>3, Zenon

(* b and t are in b \o t.                                                  *)
LEMMA AlongConcat ==
  ASSUME NEW b \in Seq(Bytes), NEW t \in Seq(Bytes), NEW p \in 1..Len(t) + 1
  PROVE  /\ Along(b \o t, Len(b) + p, t, p) /\ Along(t, p, b \o t, Len(b) + p)
         /\ Left(b \o t, Len(b) + p) = Left(t, p)
         /\ Along(b, 1, b \o t, 1)
  BY DEF Left, Along

(* No bytes stand for no characters.                                       *)
LEMMA CharactersEmpty == String!Characters(<<>>) = <<>>
  <1> DEFINE s == <<>>
  <1>1. s \in Seq(Bytes) /\ Len(s) = 0
    OBVIOUS
  <1> HIDE DEF s
  <1>2. PICK g : Chunked(Len(s), MarksOf(s), LengthsOf(s), g) /\ String!Characters(s) = g[1]
    BY <1>1, CharactersAre
  <1>3. g[0 + 1] = <<>>
    BY <1>1, <1>2 DEF Chunked
  <1> QED BY <1>2, <1>3 DEF s

(* What comes behind the first character stands for itself.                *)
LEMMA CharactersStep ==
  ASSUME NEW b \in Seq(Bytes), NEW t \in Seq(Bytes), b # <<>>, LengthAt(b \o t, 1) = Len(b)
  PROVE  String!Characters(b \o t) = <<MarkAt(b \o t, 1)>> \o String!Characters(t)
  <1> DEFINE s == b \o t
             m == Len(b)
             n == Len(t)
  <1>1. s \in Seq(Bytes) /\ Len(s) = m + n /\ m \in Nat /\ n \in Nat /\ m # 0
    OBVIOUS
  <1>2. PICK g : Chunked(Len(s), MarksOf(s), LengthsOf(s), g) /\ String!Characters(s) = g[1]
    BY <1>1, CharactersAre, Zenon
  <1>3. PICK h : Chunked(n, MarksOf(t), LengthsOf(t), h) /\ String!Characters(t) = h[1]
    BY CharactersAre
  <1>4. ASSUME NEW p \in 1..n
        PROVE  MarksOf(s)[m + p] = MarksOf(t)[p] /\ LengthsOf(s)[m + p] = LengthsOf(t)[p]
    <2>1. m + p \in 1..Len(s) /\ p \in 1..Len(t) + 1
      BY <1>1
    <2>2. Along(s, m + p, t, p) /\ Along(t, p, s, m + p)
      BY <2>1, AlongConcat
    <2> DEFINE j == m + p
    <2> HIDE DEF s, m, n, j
    <2>3. MarkAt(s, j) = MarkAt(t, p) /\ LengthAt(s, j) = LengthAt(t, p)
      BY <2>1, <2>2, AlongWellFormed, MarkIs, <1>1 DEF j, n
    <2>4. MarksOf(s)[j] = MarkAt(s, j) /\ LengthsOf(s)[j] = LengthAt(s, j)
      BY <2>1 DEF MarksOf, LengthsOf, j
    <2>5. MarksOf(t)[p] = MarkAt(t, p) /\ LengthsOf(t)[p] = LengthAt(t, p)
      BY DEF MarksOf, LengthsOf, n
    <2> QED BY <2>3, <2>4, <2>5 DEF j
  <1>5. g[m + 1] = h[1]
    <2>1. Chunked(m + n, MarksOf(s), LengthsOf(s), g)
      BY <1>1, <1>2
    <2>2. Ends(m, n, MarksOf(s), LengthsOf(s), MarksOf(t), LengthsOf(t))
      BY <1>4, Zenon DEF Ends
    <2>3. Fitting(n, Marks, MarksOf(t), LengthsOf(t))
      BY MarksFit
    <2> HIDE DEF s, m, n
    <2> QED BY <1>1, <1>3, <2>1, <2>2, <2>3, ChunksShift
  <1>6. g[1] = <<MarkAt(s, 1)>> \o g[1 + m]
    <2>1. 1 \in 1..Len(s)
      BY <1>1
    <2>2. MarksOf(s)[1] = MarkAt(s, 1) /\ LengthsOf(s)[1] = m
      BY <2>1 DEF MarksOf, LengthsOf
    <2> HIDE DEF s, m
    <2> QED BY <1>2, <2>1, <2>2, Zenon DEF Chunked
  <1>7. 1 + m = m + 1
    BY <1>1
  <1> HIDE DEF m
  <1> QED BY <1>2, <1>3, <1>5, <1>6, <1>7

(* The first character of a text that begins with one.                     *)
LEMMA CharactersFirst ==
  ASSUME NEW b, NEW code, Spells(b, code), NEW t \in Seq(Bytes)
  PROVE  String!Characters(b \o t) = <<code>> \o String!Characters(t)
  <1>1. b \in Seq(Bytes) /\ WellFormed(b, 1, Len(b)) /\ code = String!Scalar(b, 1, Len(b))
    BY DEF Spells
  <1>2. Len(b) \in {1, 2, 3, 4} /\ b # <<>>
    <2>1. Len(b) \in {1, 2, 3, 4}
      BY <1>1, Zenon DEF WellFormed
    <2>2. b = <<>> => Len(b) = 0
      OBVIOUS
    <2> DEFINE m == Len(b)
    <2>3. m # 0
      <3>1. m \in {1, 2, 3, 4}
        BY <2>1
      <3> HIDE DEF m
      <3> QED BY <3>1
    <2> QED BY <2>1, <2>2, <2>3, Zenon
  <1> DEFINE s == b \o t
  <1>3. Along(b, 1, s, 1)
    BY <1>1, AlongConcat
  <1>4. s \in Seq(Bytes) /\ 1 \in 1..Len(s)
    BY <1>1, <1>2
  <1>5. LengthAt(s, 1) = Len(b) /\ MarkAt(s, 1) = code
    <2> HIDE DEF s
    <2>1. WellFormed(s, 1, Len(b)) /\ String!Scalar(s, 1, Len(b)) = code
      BY <1>1, <1>3, AlongWellFormed
    <2> QED BY <1>4, <2>1, MarkIs
  <1> QED BY <1>1, <1>2, <1>5, CharactersStep

(* The first byte of a text that begins with no character.                 *)
LEMMA CharactersNone ==
  ASSUME NEW x \in Bytes, NEW t \in Seq(Bytes), \A n : ~ WellFormed(<<x>> \o t, 1, n)
  PROVE  String!Characters(<<x>> \o t) = <<-1>> \o String!Characters(t)
  <1> DEFINE b == <<x>>
             s == b \o t
  <1>1. b \in Seq(Bytes) /\ Len(b) = 1 /\ b # <<>> /\ s \in Seq(Bytes) /\ 1 \in 1..Len(s)
    OBVIOUS
  <1>2. LengthAt(s, 1) = 1 /\ MarkAt(s, 1) = -1
    BY <1>1, MarkIs, Zenon
  <1>3. String!Characters(b \o t) = <<MarkAt(b \o t, 1)>> \o String!Characters(t)
    BY <1>1, <1>2, CharactersStep, Zenon DEF s
  <1> QED BY <1>2, <1>3

(* The three make one sequence over S.                                     *)
Joins(S, a, b, c) ==
  /\ Associates(a, b, c)
  /\ a \o b \in Seq(S) /\ b \o c \in Seq(S) /\ (a \o b) \o c \in Seq(S)

(* Any three sequences over S do.                                          *)
LEMMA Joined ==
  ASSUME NEW S, NEW a \in Seq(S), NEW b \in Seq(S), NEW c \in Seq(S)
  PROVE  Joins(S, a, b, c)
  <1>1. Associates(a, b, c)
    BY ConcatAssociative DEF Associates
  <1>2. a \o b \in Seq(S) /\ b \o c \in Seq(S)
    OBVIOUS
  <1>3. (a \o b) \o c \in Seq(S)
    BY <1>2
  <1> QED BY <1>1, <1>2, <1>3 DEF Joins

(* A sequence over S is one over more than S.                              *)
LEMMA WiderSeq ==
  ASSUME NEW S, NEW T, S \subseteq T, NEW s \in Seq(S)
  PROVE  s \in Seq(T)
  OBVIOUS

(* Whatever comes behind s, s stands for c.                                *)
Opens(s, c) ==
  /\ s \in Seq(Bytes) /\ c \in Seq(Int)
  /\ \A t \in Seq(Bytes) : String!Characters(s \o t) = c \o String!Characters(t)

(* Characters are numbers.                                                 *)
LEMMA CharactersType == \A s \in Seq(Bytes) : String!Characters(s) \in Seq(Marks) /\ String!Characters(s) \in Seq(Int)
  BY CharactersAre, WiderSeq DEF Marks, Codes

(* Nothing stands for nothing.                                             *)
LEMMA OpensEmpty == Opens(<<>>, <<>>)
  BY CharactersType DEF Opens

(* s alone stands for c.                                                   *)
LEMMA OpensAll ==
  ASSUME NEW s, NEW c, Opens(s, c)
  PROVE  String!Characters(s) = c
  <1>1. s \in Seq(Bytes) /\ c \in Seq(Int) /\ <<>> \in Seq(Bytes)
    BY DEF Opens
  <1>2. s \o <<>> = s /\ c \o <<>> = c
    BY <1>1
  <1>3. String!Characters(s \o <<>>) = c \o String!Characters(<<>>)
    BY <1>1, Zenon DEF Opens
  <1> QED BY <1>2, <1>3, CharactersEmpty

(* One more character stands for one more.                                 *)
LEMMA OpensMore ==
  ASSUME NEW s, NEW c, Opens(s, c), NEW b, NEW code \in Int, Spells(b, code)
  PROVE  Opens(s \o b, c \o <<code>>)
  <1>1. s \in Seq(Bytes) /\ c \in Seq(Int) /\ b \in Seq(Bytes)
    BY DEF Opens, Spells
  <1>2. s \o b \in Seq(Bytes) /\ <<code>> \in Seq(Int) /\ c \o <<code>> \in Seq(Int)
    BY <1>1
  <1>3. ASSUME NEW t \in Seq(Bytes)
        PROVE  String!Characters((s \o b) \o t) = (c \o <<code>>) \o String!Characters(t)
    <2> DEFINE u == String!Characters(t)
    <2>1. u \in Seq(Int)
      BY CharactersType
    <2>2. Joins(Bytes, s, b, t)
      BY <1>1, Joined
    <2>3. Joins(Int, c, <<code>>, u)
      BY <1>1, <1>2, <2>1, Joined, Zenon
    <2>4. String!Characters(s \o (b \o t)) = c \o String!Characters(b \o t)
      BY <2>2 DEF Opens, Joins
    <2>5. String!Characters(b \o t) = <<code>> \o u
      BY CharactersFirst
    <2> QED BY <2>2, <2>3, <2>4, <2>5, Zenon DEF Joins, Associates
  <1> QED BY <1>1, <1>2, <1>3 DEF Opens

(* The elements of the texts, and those that EscapeJsonString writes.      *)
Forms == Elements \cup {e \in [text : Seq(Bytes), unit : Int] : String!IsElement(e)}

(* They are elements.                                                      *)
LEMMA FormIs ==
  \A e \in Forms : String!IsElement(e) /\ e.text \in Seq(Bytes) /\ e.unit \in Int
  BY ConversionsAssumption DEF String!JsonStringAssumption, Forms, String!IsElement, Bytes

(* es[i] and the element behind it are the two halves of a character.      *)
PairAt(es, i) ==
  /\ i < Len(es) /\ es[i].unit \in String!HighSurrogates
  /\ es[i + 1].unit \in String!LowSurrogates

(* What es[i] means, and how many elements that takes.                     *)
UnitAt(es, i) == IF PairAt(es, i) THEN String!Paired(es[i].unit, es[i + 1].unit) ELSE es[i].unit
SizeAt(es, i) == IF PairAt(es, i) THEN 2 ELSE 1

(* The same for every i.                                                   *)
UnitsOf(es) == [i \in 1..Len(es) |-> UnitAt(es, i)]
SizesOf(es) == [i \in 1..Len(es) |-> SizeAt(es, i)]

(* What two code units make is a number.                                   *)
LEMMA PairedType == \A a, b \in Int : String!Paired(a, b) \in Int
  BY SMT DEF String!Paired

(* So es can be read from the front.                                       *)
LEMMA UnitsFit ==
  ASSUME NEW es \in Seq(Forms)
  PROVE  Fitting(Len(es), Int, UnitsOf(es), SizesOf(es))
  <1> DEFINE n == Len(es)
  <1>1. n \in Nat /\ \A i \in 1..n : es[i] \in Forms
    OBVIOUS
  <1>2. ASSUME NEW i \in 1..n PROVE UnitAt(es, i) \in Int
    <2>1. es[i].unit \in Int
      BY <1>1, FormIs
    <2>2. CASE PairAt(es, i)
      <3>1. i + 1 \in 1..n
        BY <2>2 DEF PairAt
      <3>2. es[i + 1].unit \in Int
        BY <1>1, <3>1, FormIs
      <3>3. String!Paired(es[i].unit, es[i + 1].unit) \in Int
        BY <2>1, <3>2, PairedType, Zenon
      <3> QED BY <2>2, <3>3, Zenon DEF UnitAt
    <2>3. CASE ~ PairAt(es, i)
      BY <2>1, <2>3, Zenon DEF UnitAt
    <2> QED BY <2>2, <2>3
  <1>3. ASSUME NEW i \in 1..n PROVE SizeAt(es, i) \in Nat \ {0} /\ i + SizeAt(es, i) <= n + 1
    BY <1>1 DEF PairAt, SizeAt
  <1> HIDE DEF n
  <1>4. UnitsOf(es) \in [1..n -> Int] /\ SizesOf(es) \in [1..n -> Nat \ {0}]
    BY <1>2, <1>3 DEF UnitsOf, SizesOf, n
  <1>5. \A i \in 1..n : i + SizesOf(es)[i] <= n + 1
    BY <1>3 DEF SizesOf, n
  <1> QED BY <1>1, <1>4, <1>5 DEF Fitting, n

(* Meaning is that reading.                                                *)
LEMMA MeaningIs ==
  ASSUME NEW es \in Seq(Forms)
  PROVE  /\ \E g : Chunked(Len(es), UnitsOf(es), SizesOf(es), g) /\ String!Meaning(es) = g[1]
         /\ String!Meaning(es) \in Seq(Int)
  <1> DEFINE n == Len(es)
             unit == [i \in DOMAIN es |-> es[i].unit]
             right(g) == [i \in 1..n + 1 |->
                            IF i > n THEN <<>>
                            ELSE IF /\ i < n /\ unit[i] \in String!HighSurrogates
                                    /\ unit[i + 1] \in String!LowSurrogates
                            THEN <<String!Paired(unit[i], unit[i + 1])>> \o g[i + 2]
                            ELSE <<unit[i]>> \o g[i + 1]]
             reads(g) == Reading(n, UnitsOf(es), SizesOf(es), g)
             from == CHOOSE g : g = reads(g)
  <1>0. n \in Nat /\ DOMAIN es = 1..n
    OBVIOUS
  <1>1. ASSUME NEW g PROVE right(g) = reads(g)
    BY <1>0 DEF UnitsOf, SizesOf, PairAt, n, UnitAt, SizeAt, Reading
  <1>2. String!Meaning(es) = from[1]
    BY <1>1, Zenon DEF String!Meaning
  <1>3. Chunked(n, UnitsOf(es), SizesOf(es), from) /\ from[1] \in Seq(Int)
    BY UnitsFit, ReadingIs
  <1> HIDE DEF from
  <1> QED BY <1>2, <1>3

(* No elements mean nothing.                                               *)
LEMMA MeaningEmpty == String!Meaning(<<>>) = <<>>
  <1> DEFINE s == <<>>
  <1>1. s \in Seq(Forms) /\ Len(s) = 0
    OBVIOUS
  <1> HIDE DEF s
  <1>2. PICK g : Chunked(Len(s), UnitsOf(s), SizesOf(s), g) /\ String!Meaning(s) = g[1]
    BY <1>1, MeaningIs
  <1>3. g[0 + 1] = <<>>
    BY <1>1, <1>2 DEF Chunked
  <1> QED BY <1>2, <1>3 DEF s

(* What comes behind the first element, or pair, means what it means.      *)
LEMMA MeaningStep ==
  ASSUME NEW a \in Seq(Forms), NEW r \in Seq(Forms), a # <<>>, SizeAt(a \o r, 1) = Len(a)
  PROVE  String!Meaning(a \o r) = <<UnitAt(a \o r, 1)>> \o String!Meaning(r)
  <1> DEFINE s == a \o r
             m == Len(a)
             n == Len(r)
  <1>1. s \in Seq(Forms) /\ Len(s) = m + n /\ m \in Nat /\ n \in Nat /\ m # 0
    OBVIOUS
  <1>2. PICK g : Chunked(Len(s), UnitsOf(s), SizesOf(s), g) /\ String!Meaning(s) = g[1]
    BY <1>1, MeaningIs, Zenon
  <1>3. PICK h : Chunked(n, UnitsOf(r), SizesOf(r), h) /\ String!Meaning(r) = h[1]
    BY MeaningIs
  <1>4. ASSUME NEW i \in 1..n
        PROVE  UnitsOf(s)[m + i] = UnitsOf(r)[i] /\ SizesOf(s)[m + i] = SizesOf(r)[i]
    BY <1>1 DEF PairAt, UnitAt, SizeAt, UnitsOf, SizesOf, n
  <1>5. g[m + 1] = h[1]
    <2>1. Chunked(m + n, UnitsOf(s), SizesOf(s), g)
      BY <1>1, <1>2
    <2>2. Ends(m, n, UnitsOf(s), SizesOf(s), UnitsOf(r), SizesOf(r))
      BY <1>4, Zenon DEF Ends
    <2>3. Fitting(n, Int, UnitsOf(r), SizesOf(r))
      BY UnitsFit
    <2> HIDE DEF s, m, n
    <2> QED BY <1>1, <1>3, <2>1, <2>2, <2>3, ChunksShift
  <1>6. g[1] = <<UnitAt(s, 1)>> \o g[1 + m]
    <2>1. 1 \in 1..Len(s)
      BY <1>1
    <2>2. UnitsOf(s)[1] = UnitAt(s, 1) /\ SizesOf(s)[1] = m
      BY <2>1 DEF UnitsOf, SizesOf
    <2> HIDE DEF s, m
    <2> QED BY <1>2, <2>1, <2>2, Zenon DEF Chunked
  <1>7. 1 + m = m + 1
    BY <1>1
  <1> HIDE DEF m
  <1> QED BY <1>2, <1>3, <1>5, <1>6, <1>7

(* The first element, when it is no half of a pair.                        *)
LEMMA MeaningOne ==
  ASSUME NEW e \in Forms, NEW r \in Seq(Forms),
         ~ (e.unit \in String!HighSurrogates /\ r # <<>> /\ r[1].unit \in String!LowSurrogates)
  PROVE  String!Meaning(<<e>> \o r) = <<e.unit>> \o String!Meaning(r)
  <1> DEFINE a == <<e>>
             s == a \o r
  <1>1. a \in Seq(Forms) /\ a # <<>> /\ Len(a) = 1 /\ s[1] = e
        /\ (1 < Len(s) => r # <<>> /\ s[1 + 1] = r[1])
    OBVIOUS
  <1> HIDE DEF s
  <1>2. ~ PairAt(s, 1)
    BY <1>1, Zenon DEF PairAt
  <1>3. SizeAt(s, 1) = 1 /\ UnitAt(s, 1) = e.unit
    BY <1>1, <1>2, Zenon DEF SizeAt, UnitAt
  <1>4. SizeAt(a \o r, 1) = Len(a)
    BY <1>1, <1>3 DEF s
  <1> HIDE DEF a
  <1>5. String!Meaning(a \o r) = <<UnitAt(a \o r, 1)>> \o String!Meaning(r)
    BY <1>1, <1>4, MeaningStep
  <1> QED BY <1>3, <1>5 DEF s, a

(* The first two elements, when they are a pair.                           *)
LEMMA MeaningPair ==
  ASSUME NEW e \in Forms, NEW f \in Forms, NEW r \in Seq(Forms),
         e.unit \in String!HighSurrogates, f.unit \in String!LowSurrogates
  PROVE  String!Meaning(<<e>> \o (<<f>> \o r)) = <<String!Paired(e.unit, f.unit)>> \o String!Meaning(r)
  <1> DEFINE a == <<e>> \o <<f>>
             s == a \o r
  <1>1. a \in Seq(Forms) /\ a # <<>> /\ Len(a) = 2 /\ s[1] = e /\ 1 < Len(s) /\ s[1 + 1] = f
    <2>1. a \in Seq(Forms) /\ a # <<>> /\ Len(a) = 2 /\ a[1] = e /\ a[2] = f
      OBVIOUS
    <2> HIDE DEF a
    <2>2. Len(s) = 2 + Len(r) /\ Len(r) \in Nat /\ s[1] = a[1] /\ s[2] = a[2]
      <3>1. /\ Len(s) = Len(a) + Len(r) /\ Len(r) \in Nat
            /\ \A i \in 1..(Len(a) + Len(r)) : s[i] = IF i <= Len(a) THEN a[i] ELSE r[i - Len(a)]
        <4>1. Len(r) \in Nat
          OBVIOUS
        <4> QED BY <2>1, <4>1, ConcatProperties, Zenon
      <3> HIDE DEF s
      <3> QED BY <2>1, <3>1
    <2>3. 1 < Len(s) /\ 1 + 1 = 2
      BY <2>2
    <2> QED BY <2>1, <2>2, <2>3
  <1>2. <<e>> \o (<<f>> \o r) = s
    <2>1. Joins(Forms, <<e>>, <<f>>, r)
      <3>1. <<e>> \in Seq(Forms) /\ <<f>> \in Seq(Forms)
        OBVIOUS
      <3> QED BY <3>1, Joined
    <2> QED BY <2>1, Zenon DEF Joins, Associates
  <1> HIDE DEF s
  <1>3. PairAt(s, 1)
    BY <1>1, Zenon DEF PairAt
  <1>4. SizeAt(s, 1) = 2 /\ UnitAt(s, 1) = String!Paired(e.unit, f.unit)
    BY <1>1, <1>3, Zenon DEF SizeAt, UnitAt
  <1>5. SizeAt(a \o r, 1) = Len(a)
    BY <1>1, <1>4 DEF s
  <1> HIDE DEF a
  <1>6. String!Meaning(a \o r) = <<UnitAt(a \o r, 1)>> \o String!Meaning(r)
    BY <1>1, <1>5, MeaningStep
  <1> QED BY <1>2, <1>4, <1>6 DEF s

-----------------------------------------------------------------------------
(* Strings: the bytes of elements, and how many GET prints                 *)

(* Whatever comes behind es, es means c.                                   *)
Means(es, c) ==
  /\ es \in Seq(Forms) /\ c \in Seq(Int)
  /\ \A r \in Seq(Forms) : String!Meaning(es \o r) = c \o String!Meaning(r)

(* Nothing means nothing.                                                  *)
LEMMA MeansEmpty == Means(<<>>, <<>>)
  BY MeaningIs DEF Means

(* es alone means c.                                                       *)
LEMMA MeansAll ==
  ASSUME NEW es, NEW c, Means(es, c)
  PROVE  String!Meaning(es) = c
  <1>1. es \in Seq(Forms) /\ c \in Seq(Int) /\ <<>> \in Seq(Forms)
    BY DEF Means
  <1>2. es \o <<>> = es /\ c \o <<>> = c
    BY <1>1
  <1>3. String!Meaning(es \o <<>>) = c \o String!Meaning(<<>>)
    BY <1>1, Zenon DEF Means
  <1> QED BY <1>2, <1>3, MeaningEmpty

(* One more element means one more code point.                             *)
LEMMA MeansMore ==
  ASSUME NEW es, NEW c, Means(es, c), NEW e \in Forms, e.unit \notin String!HighSurrogates
  PROVE  Means(es \o <<e>>, c \o <<e.unit>>)
  <1> DEFINE code == e.unit
  <1>1. es \in Seq(Forms) /\ c \in Seq(Int) /\ <<e>> \in Seq(Forms) /\ code \in Int
    BY FormIs DEF Means
  <1> HIDE DEF code
  <1>2. es \o <<e>> \in Seq(Forms) /\ <<code>> \in Seq(Int) /\ c \o <<code>> \in Seq(Int)
    BY <1>1
  <1>3. ASSUME NEW r \in Seq(Forms)
        PROVE  String!Meaning((es \o <<e>>) \o r) = (c \o <<code>>) \o String!Meaning(r)
    <2> DEFINE u == String!Meaning(r)
    <2>1. u \in Seq(Int)
      BY MeaningIs
    <2>2. Joins(Forms, es, <<e>>, r)
      BY <1>1, Joined
    <2>3. Joins(Int, c, <<code>>, u)
      BY <1>1, <1>2, <2>1, Joined, Zenon
    <2>4. String!Meaning(es \o (<<e>> \o r)) = c \o String!Meaning(<<e>> \o r)
      BY <2>2 DEF Means, Joins
    <2>5. String!Meaning(<<e>> \o r) = <<code>> \o u
      BY MeaningOne, Zenon DEF code
    <2> QED BY <2>2, <2>3, <2>4, <2>5, Zenon DEF Joins, Associates
  <1> QED BY <1>1, <1>2, <1>3 DEF Means, code

(* One element's bytes behind those before it.                             *)
JoinText == [p \in Seq(Bytes) \X Forms |-> p[1] \o p[2].text]

(* The bytes of the elements.                                              *)
Spelling(es) == Fold(JoinText, <<>>, es)

(* JoinText makes bytes of bytes.                                          *)
LEMMA JoinFolding == Folding(JoinText, Seq(Bytes), Forms) /\ <<>> \in Seq(Bytes)
  BY FormIs DEF JoinText, Folding

(* No elements have no bytes.                                              *)
LEMMA SpellingEmpty == Spelling(<<>>) = <<>>
  BY JoinFolding, FoldEmpty, Zenon DEF Spelling

(* The bytes of the last element come last.                                *)
LEMMA SpellingMore ==
  ASSUME NEW es \in Seq(Forms), NEW e \in Forms
  PROVE  /\ Spelling(es) \in Seq(Bytes)
         /\ Spelling(Append(es, e)) = Spelling(es) \o e.text
  <1> DEFINE S == Seq(Bytes)
  <1>1. Folding(JoinText, S, Forms) /\ <<>> \in S
    BY JoinFolding
  <1>2. Spelling(es) \in S /\ Spelling(Append(es, e)) = JoinText[<<Spelling(es), e>>]
    <2> HIDE DEF S
    <2> QED BY <1>1, FoldType, FoldAppend DEF Spelling
  <1>3. JoinText[<<Spelling(es), e>>] = Spelling(es) \o e.text
    BY <1>2, Zenon DEF JoinText
  <1> QED BY <1>2, <1>3

(* The bytes of the first element come first.                              *)
LEMMA SpellingFirst ==
  ASSUME NEW e \in Forms, NEW r \in Seq(Forms)
  PROVE  Spelling(<<e>> \o r) = e.text \o Spelling(r) /\ Spelling(r) \in Seq(Bytes)
  <1> DEFINE t == e.text
             Q == {u \in Seq(Forms) : Spelling(<<e>> \o u) = t \o Spelling(u)}
  <1>0. t \in Seq(Bytes)
    BY FormIs
  <1> HIDE DEF t
  <1>1. <<>> \in Q
    <2>1. <<e>> \o <<>> = Append(<<>>, e) /\ <<>> \in Seq(Forms)
      OBVIOUS
    <2>2. Spelling(Append(<<>>, e)) = <<>> \o t
      BY <2>1, SpellingMore, SpellingEmpty DEF t
    <2>3. <<>> \o t = t /\ t \o <<>> = t
      BY <1>0
    <2> QED BY <2>1, <2>2, <2>3, SpellingEmpty
  <1>2. ASSUME NEW u \in Seq(Forms), NEW x \in Forms, u \in Q PROVE Append(u, x) \in Q
    <2>1. <<e>> \o Append(u, x) = Append(<<e>> \o u, x) /\ <<e>> \o u \in Seq(Forms)
          /\ Append(u, x) \in Seq(Forms)
      OBVIOUS
    <2>2. Spelling(<<e>> \o u) = t \o Spelling(u)
      BY <1>2
    <2>3. Spelling(Append(<<e>> \o u, x)) = Spelling(<<e>> \o u) \o x.text
      BY <2>1, SpellingMore, Zenon
    <2>4. Spelling(Append(u, x)) = Spelling(u) \o x.text /\ Spelling(u) \in Seq(Bytes)
      BY SpellingMore
    <2>5. (t \o Spelling(u)) \o x.text = t \o (Spelling(u) \o x.text)
      <3> DEFINE v == x.text
                 w == Spelling(u)
      <3>1. v \in Seq(Bytes) /\ w \in Seq(Bytes)
        BY <2>4, FormIs
      <3> HIDE DEF v, w
      <3>2. Joins(Bytes, t, w, v)
        BY <1>0, <3>1, Joined
      <3> QED BY <3>2 DEF Joins, Associates, v, w
    <2> QED BY <2>1, <2>2, <2>3, <2>4, <2>5
  <1>3. Seq(Forms) \subseteq Q
    BY <1>1, <1>2, SequenceInduction, Zenon
  <1>4. Spelling(r) \in Seq(Bytes)
    BY SpellingMore
  <1> QED BY <1>3, <1>4 DEF t

(* TextOf is the bytes of the elements between quotes.                     *)
LEMMA TextOfIs ==
  ASSUME NEW es \in Seq(Forms)
  PROVE  String!TextOf(es) = String!Quoted(Spelling(es))
  <1> DEFINE n == Len(es)
             S == Seq(Bytes)
             right(g) == [i \in 0..n |-> IF i = 0 THEN <<>> ELSE g[i - 1] \o es[i].text]
             bytes == CHOOSE g : g = right(g)
  <1>1. n \in Nat
    OBVIOUS
  <1>2. String!TextOf(es) = String!Quoted(bytes[n])
    BY Zenon DEF String!TextOf
  <1>3. PICK run \in [0..n -> S] : IsRun(run, JoinText, <<>>, es) /\ Spelling(es) = run[n]
    <2>1. Folding(JoinText, S, Forms) /\ <<>> \in S
      BY JoinFolding
    <2> HIDE DEF S
    <2> QED BY <2>1, FoldRun DEF Spelling
  <1>4. ASSUME NEW i \in 0..n
        PROVE  run[i] = IF i = 0 THEN <<>> ELSE run[i - 1] \o es[i].text
    <2>1. CASE i = 0
      BY <1>3, <2>1 DEF IsRun
    <2>2. CASE i # 0
      <3>1. i \in 1..n /\ i - 1 \in 0..n /\ es[i] \in Forms
        BY <1>1, <2>2
      <3>2. <<run[i - 1], es[i]>> \in S \X Forms
        BY <1>3, <3>1
      <3>3. run[i] = JoinText[<<run[i - 1], es[i]>>]
        BY <1>3, <3>1 DEF IsRun
      <3> QED BY <2>2, <3>2, <3>3 DEF JoinText
    <2> QED BY <2>1, <2>2
  <1>5. run = right(run)
    BY <1>3, <1>4, Zenon
  <1>6. bytes = right(bytes)
    BY <1>5, Zenon
  <1>7. \A i \in 0..n : bytes[i] = IF i = 0 THEN <<>> ELSE bytes[i - 1] \o es[i].text
    BY <1>6, Zenon
  <1> DEFINE T == {i \in Nat : i <= n => bytes[i] = run[i]}
  <1>8. 0 \in T
    <2>1. 0 \in 0..n
      BY <1>1
    <2> HIDE DEF bytes, n
    <2> QED BY <1>4, <1>7, <2>1
  <1>9. ASSUME NEW i \in Nat, i \in T PROVE i + 1 \in T
    <2> SUFFICES ASSUME i + 1 <= n PROVE bytes[i + 1] = run[i + 1]
      OBVIOUS
    <2> DEFINE k == i + 1
    <2>1. k \in 0..n /\ k # 0 /\ k - 1 = i /\ i <= n
      BY <1>1
    <2>2. bytes[i] = run[i]
      BY <1>9, <2>1
    <2> HIDE DEF k, bytes, n
    <2>3. bytes[k] = run[k]
      BY <1>4, <1>7, <2>1, <2>2
    <2> QED BY <2>3 DEF k
  <1>10. Nat \subseteq T
    BY <1>8, <1>9, Induction, Zenon
  <1>11. bytes[n] = run[n]
    BY <1>1, <1>10
  <1> QED BY <1>2, <1>3, <1>11

(* How many bytes GET prints for a character.                              *)
PrintLen(c) ==
  IF c \in {34, 92, 8, 12, 10, 13, 9} THEN 2
  ELSE IF c < 32 THEN 6
  ELSE IF c <= 127 THEN 1
  ELSE IF c <= 2047 THEN 2
  ELSE IF c <= 65535 THEN 3 ELSE 4

(* And for many of them.                                                   *)
AddLen == [p \in Nat \X Int |-> p[1] + PrintLen(p[2])]
Cost(c) == Fold(AddLen, 0, c)

(* It is a number.                                                         *)
LEMMA PrintLenIs ==
  \A c \in Int : PrintLen(c) \in Nat
  BY SMT DEF PrintLen

(* AddLen makes numbers of numbers.                                        *)
LEMMA AddFolding == Folding(AddLen, Nat, Int) /\ 0 \in Nat
  BY PrintLenIs DEF AddLen, Folding

(* No characters take no bytes.                                            *)
LEMMA CostEmpty == Cost(<<>>) = 0
  BY AddFolding, FoldEmpty DEF Cost

(* The last character adds what is printed for it.                         *)
LEMMA CostMore ==
  ASSUME NEW c \in Seq(Int), NEW x \in Int
  PROVE  Cost(c) \in Nat /\ Cost(Append(c, x)) = Cost(c) + PrintLen(x)
  <1>1. Cost(c) \in Nat /\ Cost(Append(c, x)) = AddLen[<<Cost(c), x>>]
    <2> DEFINE zero == 0
               S == Int
               T == Nat
    <2>1. Folding(AddLen, T, S) /\ zero \in T /\ c \in Seq(S) /\ x \in S
      BY AddFolding
    <2> HIDE DEF zero, S, T
    <2>2. Fold(AddLen, zero, c) \in T
      BY <2>1, FoldType
    <2>3. Fold(AddLen, zero, Append(c, x)) = AddLen[<<Fold(AddLen, zero, c), x>>]
      BY <2>1, FoldAppend
    <2> QED BY <2>2, <2>3 DEF Cost, zero, T
  <1> DEFINE n == Cost(c)
  <1> HIDE DEF n
  <1>2. n \in Nat => AddLen[<<n, x>>] = n + PrintLen(x)
    BY DEF AddLen
  <1> QED BY <1>1, <1>2 DEF n

(* And so does the first.                                                  *)
LEMMA CostFirst ==
  ASSUME NEW x \in Int, NEW c \in Seq(Int)
  PROVE  Cost(<<x>> \o c) = PrintLen(x) + Cost(c) /\ Cost(c) \in Nat
  <1> DEFINE Q == {u \in Seq(Int) : Cost(<<x>> \o u) = PrintLen(x) + Cost(u)}
  <1>0. PrintLen(x) \in Nat
    BY PrintLenIs
  <1>1. <<>> \in Q
    <2>1. <<x>> \o <<>> = Append(<<>>, x) /\ <<>> \in Seq(Int)
      OBVIOUS
    <2>2. Cost(Append(<<>>, x)) = 0 + PrintLen(x)
      BY <2>1, CostMore, CostEmpty
    <2> QED BY <1>0, <2>1, <2>2, CostEmpty
  <1>2. ASSUME NEW u \in Seq(Int), NEW y \in Int, u \in Q PROVE Append(u, y) \in Q
    <2>1. <<x>> \o Append(u, y) = Append(<<x>> \o u, y) /\ <<x>> \o u \in Seq(Int)
          /\ Append(u, y) \in Seq(Int)
      OBVIOUS
    <2>2. Cost(<<x>> \o u) = PrintLen(x) + Cost(u)
      BY <1>2
    <2>3. Cost(Append(<<x>> \o u, y)) = Cost(<<x>> \o u) + PrintLen(y)
      BY <2>1, CostMore, Zenon
    <2>4. Cost(Append(u, y)) = Cost(u) + PrintLen(y) /\ Cost(u) \in Nat /\ PrintLen(y) \in Nat
      BY CostMore, PrintLenIs
    <2> DEFINE a == Cost(u)
               b == PrintLen(x)
               d == PrintLen(y)
    <2>5. (b + a) + d = b + (a + d)
      BY <1>0, <2>4
    <2> QED BY <2>1, <2>2, <2>3, <2>4, <2>5
  <1>3. Seq(Int) \subseteq Q
    BY <1>1, <1>2, SequenceInduction, Zenon
  <1> QED BY <1>3, CostMore

(* What is left of s from p on, and its first n bytes.                     *)
Rest(s, p) == SubSeq(s, p, Len(s))
Taken(s, p, n) == SubSeq(s, p, p + n - 1)

(* Taken(s, p, n) is in s at p.                                            *)
LEMMA TakenIs ==
  ASSUME NEW s \in Seq(Bytes), NEW p \in 1..Len(s) + 1, NEW n \in Nat, n <= Left(s, p)
  PROVE  /\ Taken(s, p, n) \in Seq(Bytes) /\ Len(Taken(s, p, n)) = n
         /\ Along(Taken(s, p, n), 1, s, p)
  BY SubSeqProperties DEF Left, Taken, Along

(* Rest(s, p) is what is left of s.                                        *)
LEMMA RestIs ==
  ASSUME NEW s \in Seq(Bytes), NEW p \in 1..Len(s) + 1
  PROVE  /\ Rest(s, p) \in Seq(Bytes) /\ Len(Rest(s, p)) = Left(s, p)
         /\ Along(Rest(s, p), 1, s, p) /\ Along(s, p, Rest(s, p), 1)
  BY TakenIs DEF Left, Rest, Taken, Along

(* The rest is its first n bytes and the rest behind them.                 *)
LEMMA RestSplits ==
  ASSUME NEW s \in Seq(Bytes), NEW p \in 1..Len(s) + 1, NEW n \in Nat, n <= Left(s, p)
  PROVE  /\ p + n \in 1..Len(s) + 1 /\ Left(s, p + n) = Left(s, p) - n
         /\ Rest(s, p) = Taken(s, p, n) \o Rest(s, p + n)
  <1>1. p + n \in 1..Len(s) + 1 /\ Left(s, p + n) = Left(s, p) - n
    BY DEF Left
  <1> DEFINE l == Len(s)
             k == p + n - 1
  <1>2. k \in p - 1..l /\ l \in k..l /\ k + 1 = p + n /\ p \in 1..l + 1
    BY DEF Left
  <1>3. SubSeq(s, p, k) \o SubSeq(s, k + 1, l) = SubSeq(s, p, l)
    BY <1>2, ConcatAdjacentSubSeq, Zenon
  <1> QED BY <1>1, <1>2, <1>3 DEF Rest, Taken

(* All of s is left at its beginning.                                      *)
LEMMA RestFull == ASSUME NEW s \in Seq(Bytes) PROVE Rest(s, 1) = s
  BY SubSeqFull DEF Rest

(* Nothing is left behind its end.                                         *)
LEMMA RestEmpty == ASSUME NEW s \in Seq(Bytes) PROVE Rest(s, Len(s) + 1) = <<>>
  BY SubSeqEmpty DEF Rest

(* The bytes of a character are what it spells.                            *)
LEMMA TakenSpells ==
  ASSUME NEW s \in Seq(Bytes), NEW p \in 1..Len(s) + 1, NEW n, WellFormed(s, p, n)
  PROVE  n \in 1..4 /\ n <= Left(s, p) /\ Spells(Taken(s, p, n), String!Scalar(s, p, n))
  <1>1. n \in {1, 2, 3, 4} /\ p + n - 1 <= Len(s)
    BY Zenon DEF WellFormed
  <1>2. n \in 1..4 /\ n \in Nat /\ n <= Left(s, p)
    BY <1>1 DEF Left
  <1> DEFINE t == Taken(s, p, n)
  <1>3. t \in Seq(Bytes) /\ Len(t) = n /\ Along(t, 1, s, p)
    BY <1>2, TakenIs
  <1> HIDE DEF t
  <1>4. Left(t, 1) = n
    BY <1>2, <1>3 DEF Left
  <1>5. n <= Left(t, 1)
    BY <1>2, <1>4
  <1>6. WellFormed(t, 1, n) /\ String!Scalar(t, 1, n) = String!Scalar(s, p, n)
    BY <1>2, <1>3, <1>5, AlongWellFormed
  <1> QED BY <1>2, <1>3, <1>6, Zenon DEF Spells, t

(* The first character of the rest, and what comes behind it.              *)
LEMMA RestFirst ==
  ASSUME NEW s \in Seq(Bytes), NEW p \in 1..Len(s)
  PROVE  /\ \A n : WellFormed(s, p, n) =>
              /\ p + n \in 1..Len(s) + 1
              /\ String!Characters(Rest(s, p)) =
                   <<String!Scalar(s, p, n)>> \o String!Characters(Rest(s, p + n))
         /\ (\A n : ~ WellFormed(s, p, n)) =>
              String!Characters(Rest(s, p)) = <<-1>> \o String!Characters(Rest(s, p + 1))
  <1>0. p \in 1..Len(s) + 1
    OBVIOUS
  <1>1. ASSUME NEW n, WellFormed(s, p, n)
        PROVE  /\ p + n \in 1..Len(s) + 1
               /\ String!Characters(Rest(s, p)) =
                    <<String!Scalar(s, p, n)>> \o String!Characters(Rest(s, p + n))
    <2>1. n \in 1..4 /\ n <= Left(s, p) /\ Spells(Taken(s, p, n), String!Scalar(s, p, n))
      BY <1>0, <1>1, TakenSpells
    <2>2. n \in Nat
      BY <2>1
    <2>3. p + n \in 1..Len(s) + 1 /\ Rest(s, p) = Taken(s, p, n) \o Rest(s, p + n)
      BY <1>0, <2>1, <2>2, RestSplits
    <2>4. Rest(s, p + n) \in Seq(Bytes)
      BY <2>3, RestIs
    <2> QED BY <2>1, <2>3, <2>4, CharactersFirst
  <1>2. ASSUME \A n : ~ WellFormed(s, p, n)
        PROVE  String!Characters(Rest(s, p)) = <<-1>> \o String!Characters(Rest(s, p + 1))
    <2>1. 1 \in Nat /\ 1 <= Left(s, p)
      BY DEF Left
    <2>2. p + 1 \in 1..Len(s) + 1 /\ Rest(s, p) = Taken(s, p, 1) \o Rest(s, p + 1)
      BY <1>0, <2>1, RestSplits
    <2>3. Rest(s, p + 1) \in Seq(Bytes)
      BY <2>2, RestIs
    <2>4. Taken(s, p, 1) = <<s[p]>> /\ s[p] \in Bytes
      <3> DEFINE t == Taken(s, p, 1)
      <3>1. t \in Seq(Bytes) /\ Len(t) = 1 /\ Along(t, 1, s, p)
        BY <1>0, <2>1, TakenIs
      <3> HIDE DEF t
      <3>2. 1 <= Left(t, 1)
        BY <3>1 DEF Left
      <3>3. t[1] = s[p]
        BY <3>1, <3>2, AlongBytes
      <3> QED BY <3>1, <3>3 DEF t
    <2>5. \A n : ~ WellFormed(Rest(s, p), 1, n)
      BY <1>0, <1>2, RestIs, AlongWellFormed, Zenon
    <2> DEFINE x == s[p]
               t == Rest(s, p + 1)
    <2>6. x \in Bytes /\ t \in Seq(Bytes) /\ Rest(s, p) = <<x>> \o t
      BY <2>2, <2>3, <2>4
    <2> HIDE DEF x, t
    <2>7. String!Characters(<<x>> \o t) = <<-1>> \o String!Characters(t)
      BY <2>5, <2>6, CharactersNone
    <2> QED BY <2>6, <2>7 DEF t
  <1> QED BY <1>1, <1>2, Zenon

-----------------------------------------------------------------------------
(* Strings: how a text begins                                              *)

(* HexDigit gives the value of exactly the digits it should.               *)
LEMMA HexIs ==
  /\ \A ch \in Int : String!HexDigit(ch) \in -1..15
  /\ \A ch \in Int, a \in 0..15 : ch \in String!HexDigits(a) <=> String!HexDigit(ch) = a
  BY SMT DEF String!HexDigit, String!HexDigits

(* How w begins when it begins with an element of m bytes that stands for  *)
(* unit: a character as it is, an escape, a code unit, or nothing.         *)
Plain(w, m, unit) == w[1] \in 32..127 \ {34, 92} /\ m = 1 /\ unit = w[1]

Sequence(w, m, unit) ==
  w[1] >= 128 /\ m \in 2..4 /\ WellFormed(w, 1, m) /\ unit = String!Scalar(w, 1, m)

Lettered(w, m, unit) == w[1] = 92 /\ m = 2 /\ <<w[2], unit>> \in String!EscapeLetters

Numbered(w, m, unit) ==
  /\ w[1] = 92 /\ w[2] = 117 /\ m = 6
  /\ \A i \in 3..6 : String!HexDigit(w[i]) \in 0..15
  /\ unit = (String!HexDigit(w[3]) * 4096) + (String!HexDigit(w[4]) * 256)
              + (String!HexDigit(w[5]) * 16) + String!HexDigit(w[6])

Nothing(w, m) ==
  \/ w[1] < 32
  \/ w[1] >= 128 /\ \A n : ~ WellFormed(w, 1, n)
  \/ w[1] = 92 /\ m >= 2 /\ w[2] # 117 /\ \A l \in String!EscapeLetters : w[2] # l[1]
  \/ w[1] = 92 /\ m >= 2 /\ w[2] = 117 /\ \E i \in 3..6 : i <= m /\ String!HexDigit(w[i]) < 0

Item(w, m, unit) ==
  /\ w \in Seq(Bytes) /\ m \in 1..Len(w) /\ w[1] \in Bytes /\ w[1] # 34 /\ unit \in Int
  /\ \/ Plain(w, m, unit) \/ Sequence(w, m, unit)
     \/ Lettered(w, m, unit) \/ Numbered(w, m, unit)
     \/ unit = -1 /\ Nothing(w, m)

(* A byte is a number from 0 to 255.                                       *)
LEMMA ByteIs == \A x : x \in Bytes <=> x \in Int /\ 0 <= x /\ x <= 255
  BY SMT DEF Bytes, String!Byte

(* An element that is a character as it is.                                *)
LEMMA CharacterIs ==
  ASSUME NEW e, e.text \in Seq(Bytes)
  PROVE  String!IsCharacter(e) <=> Spells(e.text, e.unit) /\ e.unit >= 32 /\ e.unit \notin {34, 92}
  BY RowsAre DEF String!IsCharacter, String!Quote, String!Backslash, Spells

(* A well-formed sequence is one byte below 128, or more that are not.     *)
LEMMA SpellsIs ==
  ASSUME NEW w, NEW m, WellFormed(w, 1, m)
  PROVE  \/ m = 1 /\ w[1] \in 0..127 /\ String!Scalar(w, 1, m) = w[1]
         \/ m \in 2..4 /\ w[1] >= 128 /\ w[1] \in Int /\ String!Scalar(w, 1, m) >= 128
  <1> DEFINE code == String!Scalar(w, 1, m)
             a == w[1]
  <1>1. CASE m = 1 /\ One(w[1])
    BY <1>1, SMT DEF One, String!Scalar
  <1>2. CharacterOf(m, code)
    BY ScalarIs
  <1>3. (m = 2 => code >= 128) /\ (m = 3 => code >= 128) /\ (m = 4 => code >= 128)
    BY <1>2 DEF CharacterOf, Codes
  <1> HIDE DEF code
  <1>4. CASE m = 2 /\ Two(w[1], w[1 + 1])
    BY <1>4, <1>3 DEF Two, code, a
  <1>5. CASE m = 3 /\ Three(w[1], w[1 + 1], w[1 + 2])
    BY <1>5, <1>3 DEF Three, code, a
  <1>6. CASE m = 4 /\ Four(w[1], w[1 + 1], w[1 + 2], w[1 + 3])
    BY <1>6, <1>3 DEF Four, code, a
  <1> QED BY <1>1, <1>4, <1>5, <1>6, Zenon DEF WellFormed, code

(* The escapes of a letter, and what the parser makes of them.             *)
LEMMA EscapeIs ==
  ASSUME NEW l \in String!EscapeLetters
  PROVE  l = <<l[1], l[2]>> /\ l[1] \in Bytes /\ l[2] \in 1..127 /\ l[1] # 117
         /\ String!Unescaped[l[1]] = l[2]
         /\ l[2] \in {34, 92, 8, 12, 10, 13, 9, 47}
  BY ByteIs DEF String!EscapeLetters, String!Unescaped, String!Quote, String!Backslash

(* The bytes of a row are counted from 1.                                  *)
LEMMA RowDomain == \A row \in String!Utf8Rows : \A i \in DOMAIN row : i \in Nat \ {0}
  BY DEF String!Utf8Rows

(* An element and what comes behind it.                                    *)
LEMMA ItemOf ==
  ASSUME NEW e \in Forms, NEW t \in Seq(Bytes)
  PROVE  Item(e.text \o t, Len(e.text), e.unit)
  <1> DEFINE b == e.text
             unit == e.unit
             w == b \o t
             m == Len(b)
             n == Len(t)
  <1>1. b \in Seq(Bytes) /\ unit \in Int
    BY FormIs
  <1>2. String!IsCharacter(e) \/ String!IsEscape(e) \/ String!IsCodeUnit(e) \/ String!IsNothing(e)
    BY FormIs, Zenon DEF String!IsElement
  <1> HIDE DEF b, unit
  <1>3. w \in Seq(Bytes) /\ Len(w) = m + n /\ m \in Nat /\ n \in Nat
        /\ \A i \in 1..m + n : w[i] = IF i <= m THEN b[i] ELSE t[i - m]
    BY <1>1
  <1>4. Along(b, 1, w, 1)
    BY <1>1, AlongConcat
  <1> HIDE DEF w, n
  <1>5. \A i \in Nat \ {0} : i <= m => w[i] = b[i] /\ w[i] \in Bytes
    BY <1>3, <1>1
  <1> HIDE DEF m
  <1>6. /\ 1 <= m => w[1] = b[1] /\ w[1] \in Bytes
        /\ 2 <= m => w[2] = b[2]
    BY <1>5
  <1>7. 1 <= m => m \in 1..Len(w)
    BY <1>3
  <1> DEFINE Goal == /\ 1 <= m /\ w[1] # 34
                     /\ \/ Plain(w, m, unit) \/ Sequence(w, m, unit)
                        \/ Lettered(w, m, unit) \/ Numbered(w, m, unit)
                        \/ unit = -1 /\ Nothing(w, m)
  <1>8. ASSUME String!IsCharacter(e) PROVE Goal
    <2>1. Spells(b, unit) /\ unit >= 32 /\ unit \notin {34, 92}
      BY <1>1, <1>8, CharacterIs DEF b, unit
    <2>2. WellFormed(b, 1, m) /\ unit = String!Scalar(b, 1, m)
      BY <2>1 DEF Spells, m
    <2>3. WellFormed(w, 1, m) /\ unit = String!Scalar(w, 1, m)
      BY <1>4, <2>2, AlongWellFormed
    <2>4. \/ m = 1 /\ w[1] \in 0..127 /\ unit = w[1]
          \/ m \in 2..4 /\ w[1] >= 128 /\ w[1] \in Int /\ unit >= 128
      BY <2>3, SpellsIs
    <2>5. CASE m = 1 /\ w[1] \in 0..127 /\ unit = w[1]
      <3>1. Plain(w, m, unit) /\ w[1] # 34
        <4> DEFINE y == w[1]
        <4>1. y \in 0..127 /\ y >= 32 /\ y # 34 /\ y # 92 /\ unit = y /\ m = 1
          BY <2>1, <2>5
        <4> HIDE DEF y
        <4>2. y \in 32..127 \ {34, 92}
          BY <4>1
        <4> QED BY <4>1, <4>2, Zenon DEF Plain, y
      <3>2. 1 <= m
        BY <2>5
      <3> QED BY <3>1, <3>2, Zenon
    <2>6. CASE m \in 2..4 /\ w[1] >= 128 /\ w[1] \in Int
      BY <2>6, <2>3 DEF Sequence
    <2> QED BY <2>4, <2>5, <2>6
  <1>9. ASSUME String!IsEscape(e) PROVE Goal
    <2>1. PICK l \in String!EscapeLetters : b = <<92, l[1]>> /\ unit = l[2]
      BY <1>9, Zenon DEF String!IsEscape, String!Backslash, b, unit
    <2>2. m = 2 /\ b[1] = 92 /\ b[2] = l[1]
      BY <2>1 DEF m
    <2>3. <<l[1], l[2]>> \in String!EscapeLetters
      BY EscapeIs
    <2>4. 1 <= m /\ 2 <= m
      BY <2>2
    <2>5. w[1] = 92 /\ w[2] = l[1] /\ w[1] # 34
      BY <1>6, <2>2, <2>4
    <2> QED BY <2>1, <2>2, <2>3, <2>4, <2>5, Zenon DEF Lettered
  <1>10. ASSUME String!IsCodeUnit(e) PROVE Goal
    <2>1. m = 6 /\ b[1] = 92 /\ b[2] = 117
      BY <1>10 DEF String!IsCodeUnit, String!Backslash, String!LetterU, b, m
    <2>2. PICK x, y, z, v \in 0..15 :
               /\ b[3] \in String!HexDigits(x) /\ b[4] \in String!HexDigits(y)
               /\ b[5] \in String!HexDigits(z) /\ b[6] \in String!HexDigits(v)
               /\ unit = (x * 4096) + (y * 256) + (z * 16) + v
      BY <1>10 DEF String!IsCodeUnit, b, unit
    <2>3. /\ w[1] = b[1] /\ w[2] = b[2] /\ w[3] = b[3] /\ w[4] = b[4] /\ w[5] = b[5] /\ w[6] = b[6]
          /\ w[3] \in Bytes /\ w[4] \in Bytes /\ w[5] \in Bytes /\ w[6] \in Bytes
      BY <1>5, <2>1
    <2>4. \A k \in Bytes, h \in 0..15 : k \in String!HexDigits(h) => String!HexDigit(k) = h
      BY ByteIs, HexIs, Zenon
    <2>5. /\ String!HexDigit(w[3]) = x /\ String!HexDigit(w[4]) = y
          /\ String!HexDigit(w[5]) = z /\ String!HexDigit(w[6]) = v
      BY <2>2, <2>3, <2>4, Zenon
    <2>6. \A i \in 3..6 : String!HexDigit(w[i]) \in 0..15
      <3>1. \A i \in 3..6 : i = 3 \/ i = 4 \/ i = 5 \/ i = 6
        OBVIOUS
      <3> QED BY <2>5, <3>1, Zenon
    <2>7. 1 <= m /\ w[1] # 34
      BY <2>1, <2>3
    <2>8. Numbered(w, m, unit)
      BY <2>1, <2>2, <2>3, <2>5, <2>6, SMT DEF Numbered
    <2> QED BY <2>7, <2>8, Zenon
  <1>11. ASSUME String!IsNothing(e) PROVE Goal
    <2>1. unit = -1 /\ 1 <= m
      BY <1>11, <1>1 DEF String!IsNothing, b, unit, m
    <2>2. w[1] = b[1] /\ (2 <= m => w[2] = b[2]) /\ w[1] \in Int
      BY <1>6, <2>1, ByteIs
    <2>3. CASE b[1] < 32
      BY <2>1, <2>2, <2>3 DEF Nothing
    <2>4. CASE /\ b[1] >= 128
               /\ \A row \in String!Utf8Rows : \E i \in DOMAIN row : i <= m /\ b[i] \notin row[i]
      <3>1. ASSUME NEW row \in String!RowsAt(w, 1) PROVE FALSE
        BY <2>4, RowDomain, <1>5 DEF String!RowsAt
      <3>2. \A k : ~ WellFormed(w, 1, k)
        <4>1. 1 \in Nat \ {0}
          OBVIOUS
        <4> QED BY <1>3, <3>1, <4>1, RowsAre
      <3>3. w[1] >= 128 /\ w[1] # 34
        BY <2>2, <2>4
      <3> QED BY <2>1, <3>2, <3>3, Zenon DEF Nothing
    <2>5. CASE /\ 2 <= m /\ b[1] = 92 /\ b[2] # 117
               /\ \A l \in String!EscapeLetters : b[2] # l[1]
      BY <2>2, <2>5, <2>1 DEF Nothing
    <2>6. CASE /\ 2 <= m /\ b[1] = 92 /\ b[2] = 117
               /\ \E i \in 3..6 : i <= m /\ \A k \in 0..15 : b[i] \notin String!HexDigits(k)
      <3>1. w[1] = 92 /\ w[2] = b[2] /\ w[1] # 34 /\ m >= 2
        BY <2>2, <2>6
      <3>2. PICK i \in 3..6 : i <= m /\ \A k \in 0..15 : b[i] \notin String!HexDigits(k)
        BY <2>6
      <3>3. w[i] = b[i] /\ w[i] \in Int
        <4>1. i \in Nat \ {0}
          OBVIOUS
        <4> QED BY <1>5, <3>2, <4>1, ByteIs
      <3>4. String!HexDigit(w[i]) \in -1..15 /\ \A k \in 0..15 : String!HexDigit(w[i]) # k
        BY <3>2, <3>3, HexIs, Zenon
      <3> DEFINE h == String!HexDigit(w[i])
      <3>5. h < 0
        BY <3>4
      <3> QED BY <2>1, <2>6, <3>1, <3>2, <3>5, Zenon DEF Nothing
    <2>7. \/ b[1] < 32
          \/ /\ b[1] >= 128
             /\ \A row \in String!Utf8Rows : \E i \in DOMAIN row : i <= m /\ b[i] \notin row[i]
          \/ /\ m >= 2 /\ b[1] = 92 /\ b[2] # 117
             /\ \A l \in String!EscapeLetters : b[2] # l[1]
          \/ /\ m >= 2 /\ b[1] = 92 /\ b[2] = 117
             /\ \E i \in 3..6 : i <= m /\ \A k \in 0..15 : b[i] \notin String!HexDigits(k)
      BY <1>11, Zenon DEF String!IsNothing, String!Backslash, String!LetterU, b, m
    <2>8. m >= 2 => 2 <= m
      BY <1>3
    <2> HIDE DEF Goal
    <2> QED BY <2>3, <2>4, <2>5, <2>6, <2>7, <2>8, Zenon
  <1>12. Goal
    BY <1>2, <1>8, <1>9, <1>10, <1>11
  <1> QED BY <1>1, <1>3, <1>6, <1>7, <1>12, Zenon DEF Item, b, unit, w, m

(* The bytes of the elements and the quote behind them.                    *)
Until(es) == Spelling(es) \o <<34>>

(* The bytes of elements are bytes.                                        *)
LEMMA SpellingIsType == \A r \in Seq(Forms) : Spelling(r) \in Seq(Bytes)
  BY JoinFolding, FoldType, Zenon DEF Spelling

(* There is at least the quote.                                            *)
LEMMA UntilIs ==
  ASSUME NEW r \in Seq(Forms)
  PROVE  Until(r) \in Seq(Bytes) /\ Len(Until(r)) \in Nat \ {0}
  <1> DEFINE v == Spelling(r)
  <1>1. v \in Seq(Bytes) /\ <<34>> \in Seq(Bytes)
    BY ByteIs, SpellingIsType
  <1> HIDE DEF v
  <1>2. v \o <<34>> \in Seq(Bytes) /\ Len(v \o <<34>>) = Len(v) + 1 /\ Len(v) \in Nat
    BY <1>1
  <1> QED BY <1>2 DEF Until, v

(* Behind the last element there is the quote.                             *)
LEMMA UntilNone == Until(<<>>) = <<34>>
  <1>1. <<>> \o <<34>> = <<34>>
    OBVIOUS
  <1> QED BY <1>1, SpellingEmpty DEF Until

(* Otherwise there is the first element.                                   *)
LEMMA UntilFirst ==
  ASSUME NEW e \in Forms, NEW r \in Seq(Forms)
  PROVE  /\ Until(<<e>> \o r) = e.text \o Until(r) /\ e.text \in Seq(Bytes)
         /\ Len(Until(<<e>> \o r)) = Len(e.text) + Len(Until(r))
         /\ Item(Until(<<e>> \o r), Len(e.text), e.unit)
         /\ <<e>> \o r \in Seq(Forms)
  <1> DEFINE b == e.text
             v == Spelling(r)
             t == <<34>>
             u == Until(r)
  <1>1. b \in Seq(Bytes) /\ v \in Seq(Bytes) /\ t \in Seq(Bytes) /\ u \in Seq(Bytes)
    <2>1. 34 \in Bytes
      BY ByteIs
    <2> QED BY <2>1, SpellingIsType, FormIs, UntilIs
  <1>2. Spelling(<<e>> \o r) = b \o v
    BY SpellingFirst
  <1>3. Until(<<e>> \o r) = (b \o v) \o t /\ u = v \o t
    BY <1>2 DEF Until
  <1> HIDE DEF b, v, t, u
  <1>4. Joins(Bytes, b, v, t)
    BY <1>1, Joined
  <1>5. Until(<<e>> \o r) = b \o u
    BY <1>3, <1>4 DEF Joins, Associates
  <1>6. Len(b \o u) = Len(b) + Len(u)
    BY <1>1
  <1>7. Item(b \o u, Len(b), e.unit)
    BY <1>1, ItemOf DEF b
  <1>8. <<e>> \o r \in Seq(Forms)
    OBVIOUS
  <1> QED BY <1>1, <1>5, <1>6, <1>7, <1>8, Zenon DEF b, u

(* What is left behind the first of two parts begins the second.           *)
LEMMA AlongMoves ==
  ASSUME NEW s, NEW p, NEW b \in Seq(Bytes), NEW t \in Seq(Bytes), Along(s, p, b \o t, 1),
         Len(b) <= Left(s, p)
  PROVE  /\ Along(s, p + Len(b), t, 1)
         /\ Left(s, p + Len(b)) = Left(s, p) - Len(b)
  <1> DEFINE w == b \o t
             m == Len(b)
             n == Len(t)
             l == Len(s)
  <1>1. /\ w \in Seq(Bytes) /\ Len(w) = m + n /\ m \in Nat /\ n \in Nat
        /\ \A i \in 1..m + n : w[i] = IF i <= m THEN b[i] ELSE t[i - m]
    OBVIOUS
  <1> HIDE DEF w, m, n
  <1>2. /\ s \in Seq(Bytes) /\ l \in Nat /\ p \in 1..l + 1
        /\ Left(s, p) <= Left(w, 1)
        /\ \A i \in Nat : i < Left(s, p) => s[p + i] = w[1 + i]
    <2>1. Along(s, p, w, 1)
      BY DEF w
    <2>2. s \in Seq(Bytes) => l \in Nat
      OBVIOUS
    <2> QED BY <2>1, <2>2, Zenon DEF Along
  <1> HIDE DEF l
  <1>3. Left(s, p) = (l + 1) - p /\ Left(w, 1) = ((m + n) + 1) - 1 /\ Left(t, 1) = (n + 1) - 1
        /\ Left(s, p + m) = (l + 1) - (p + m) /\ m <= Left(s, p)
    BY <1>1 DEF Left, l, m, n
  <1>4. p + m \in 1..l + 1 /\ 1 \in 1..n + 1 /\ Left(s, p + m) <= Left(t, 1)
        /\ Left(s, p + m) = Left(s, p) - m
    BY <1>1, <1>2, <1>3
  <1>5. ASSUME NEW i \in Nat, i < Left(s, p + m) PROVE s[(p + m) + i] = t[1 + i]
    <2>1. m + i \in Nat /\ m + i < Left(s, p) /\ p + (m + i) = (p + m) + i
          /\ 1 + (m + i) \in 1..m + n /\ ~ (1 + (m + i) <= m) /\ (1 + (m + i)) - m = 1 + i
      BY <1>1, <1>2, <1>3, <1>4, <1>5
    <2> DEFINE j == m + i
    <2> HIDE DEF j
    <2>2. s[p + j] = w[1 + j] /\ w[1 + j] = t[(1 + j) - m]
      BY <1>1, <1>2, <2>1 DEF j
    <2> QED BY <2>1, <2>2 DEF j
  <1> QED BY <1>2, <1>4, <1>5 DEF Along, l, m, n

(* What ParseHexCodeUnit makes of four digits, of fewer, and of others.    *)
LEMMA NumberRead ==
  ASSUME NEW s, NEW p, NEW w, Along(s, p, w, 1)
  PROVE  /\ \A m, unit : Numbered(w, m, unit) =>
              /\ unit \in Int /\ 0 <= unit /\ unit <= 65535
              /\ String!HexCodeUnit(s, p + 2) = IF 6 <= Left(s, p) THEN unit ELSE -1
         /\ (\E i \in 3..6 : String!HexDigit(w[i]) < 0) => String!HexCodeUnit(s, p + 2) = -1
  <1> DEFINE l == Left(s, p)
             q == p + 2
             D(i) == String!HexDigit(s[q + i])
             E(i) == String!HexDigit(w[i])
  <1>1. /\ l \in Nat /\ l = (Len(s) + 1) - p /\ p \in Nat /\ Len(s) \in Nat
        /\ \A i \in Nat : i < l => s[p + i] = w[1 + i]
    BY AlongBytes DEF Along, Left
  <1>2. 6 <= l <=> ~ (q + 3 > Len(s))
    BY <1>1
  <1>3. 6 <= l => \A i \in 0..3 : D(i) = E(3 + i)
    <2> SUFFICES ASSUME 6 <= l, NEW i \in 0..3 PROVE s[q + i] = w[3 + i]
      OBVIOUS
    <2>1. 2 + i \in Nat /\ 2 + i < l /\ p + (2 + i) = q + i /\ 1 + (2 + i) = 3 + i
      BY <1>1
    <2> HIDE DEF q, l
    <2> QED BY <1>1, <2>1
  <1>4. String!HexCodeUnit(s, q) =
          IF q + 3 > Len(s) \/ \E i \in 0..3 : D(i) < 0 THEN -1
          ELSE (D(0) * 4096) + (D(1) * 256) + (D(2) * 16) + D(3)
    BY Zenon DEF String!HexCodeUnit
  <1> HIDE DEF l, q, D, E
  <1>5. ASSUME NEW m, NEW unit, Numbered(w, m, unit)
        PROVE  /\ unit \in Int /\ 0 <= unit /\ unit <= 65535
               /\ String!HexCodeUnit(s, q) = IF 6 <= l THEN unit ELSE -1
    <2>1. /\ \A i \in 3..6 : E(i) \in 0..15
          /\ unit = (E(3) * 4096) + (E(4) * 256) + (E(5) * 16) + E(6)
      BY <1>5, SMT DEF Numbered, E
    <2>2. unit \in Int /\ 0 <= unit /\ unit <= 65535
      <3> DEFINE a == E(3)
                 b == E(4)
                 c == E(5)
                 d == E(6)
      <3>1. a \in 0..15 /\ b \in 0..15 /\ c \in 0..15 /\ d \in 0..15
            /\ unit = (a * 4096) + (b * 256) + (c * 16) + d
        BY <2>1
      <3> HIDE DEF a, b, c, d
      <3> QED BY <3>1, SMT
    <2>3. CASE 6 <= l
      <3>1. D(0) = E(3) /\ D(1) = E(4) /\ D(2) = E(5) /\ D(3) = E(6)
        BY <1>3, <2>3
      <3>2. \A i \in 0..3 : ~ (D(i) < 0)
        BY <1>3, <2>1, <2>3
      <3> QED BY <1>2, <1>4, <2>1, <2>2, <2>3, <3>1, <3>2, SMT
    <2>4. CASE ~ (6 <= l)
      BY <1>2, <1>4, <2>2, <2>4
    <2> QED BY <2>2, <2>3, <2>4
  <1>6. ASSUME NEW i \in 3..6, String!HexDigit(w[i]) < 0 PROVE String!HexCodeUnit(s, q) = -1
    BY <1>6, <1>3, <1>4, <1>2 DEF E
  <1> QED BY <1>5, <1>6, SMT DEF l, q

-----------------------------------------------------------------------------
(* Strings: what the parser meets                                          *)

(* What a string of the API may hold: code points other than NUL.          *)
Good(c) == \A i \in 1..Len(c) : c[i] > 0 /\ c[i] \notin String!Surrogates

(* Two parts of it may, if each of them may.                               *)
LEMMA GoodConcat ==
  ASSUME NEW c \in Seq(Int), NEW d \in Seq(Int)
  PROVE  Good(c \o d) <=> Good(c) /\ Good(d)
  <1> DEFINE e == c \o d
             m == Len(c)
             n == Len(d)
  <1>1. /\ m \in Nat /\ n \in Nat /\ Len(e) = m + n
        /\ \A i \in 1..m + n : e[i] = IF i <= m THEN c[i] ELSE d[i - m]
    OBVIOUS
  <1> HIDE DEF e, m, n
  <1>2. \A i \in 1..m : i \in 1..m + n /\ e[i] = c[i]
    BY <1>1
  <1>3. \A i \in 1..n : m + i \in 1..m + n /\ e[m + i] = d[i]
    BY <1>1
  <1>4. \A i \in 1..m + n : i \in 1..m \/ \E j \in 1..n : i = m + j
    BY <1>1
  <1> DEFINE Fine(x) == x > 0 /\ x \notin String!Surrogates
  <1>5. /\ Good(e) <=> \A i \in 1..m + n : Fine(e[i])
        /\ Good(c) <=> \A i \in 1..m : Fine(c[i])
        /\ Good(d) <=> \A i \in 1..n : Fine(d[i])
    BY <1>1 DEF Good, m, n
  <1> HIDE DEF Fine
  <1>6. Good(e) <=> Good(c) /\ Good(d)
    BY <1>2, <1>3, <1>4, <1>5, Zenon
  <1> QED BY <1>6 DEF e

(* And so for one code point, and for none.                                *)
LEMMA GoodOne ==
  ASSUME NEW x \in Int
  PROVE  (Good(<<x>>) <=> x > 0 /\ x \notin String!Surrogates) /\ Good(<<>>)
  BY DEF Good

(* An ASCII byte stands for itself.                                        *)
LEMMA SpellsOne == \A x \in 0..127 : Spells(<<x>>, x)
  <1> SUFFICES ASSUME NEW x \in 0..127 PROVE Spells(<<x>>, x)
    OBVIOUS
  <1>1. String!Encode(x) = <<x>>
    BY SMT DEF String!Encode
  <1> QED BY <1>1, EncodeOne

(* What one character stands for depends on its length.                    *)
LEMMA SpellsCode ==
  ASSUME NEW b, NEW code, Spells(b, code)
  PROVE  b \in Seq(Bytes) /\ code \in Codes /\ CharacterOf(Len(b), code)
  <1> DEFINE m == Len(b)
  <1>1. b \in Seq(Bytes) /\ WellFormed(b, 1, m) /\ code = String!Scalar(b, 1, m)
    BY DEF Spells
  <1> HIDE DEF m
  <1>2. CharacterOf(m, code)
    BY <1>1, ScalarIs
  <1>3. code \in Codes
    BY <1>2, SMT DEF CharacterOf
  <1> QED BY <1>1, <1>2, <1>3 DEF m

(* What is a character is no surrogate.                                    *)
LEMMA CodesAre == \A c : c \in Codes => c \in Int /\ c >= 0 /\ c <= 1114111 /\ c \notin String!Surrogates
  BY SurrogatesAre, SMT DEF Codes

(* What is printed for a character is no longer than an element for it.    *)
LEMMA PrintLenFits ==
  /\ \A c \in Int : c <= 65535 => PrintLen(c) <= 6
  /\ \A c \in Int : c > 65535 => PrintLen(c) = 4
  /\ \A c \in {34, 92, 8, 12, 10, 13, 9, 47} : PrintLen(c) <= 2
  /\ \A c \in Int : \A n : CharacterOf(n, c) /\ c >= 32 /\ c \notin {34, 92} => PrintLen(c) = n
  BY SMT DEF PrintLen, CharacterOf

(* The parser knows exactly the escapes of a letter.                       *)
LEMMA LettersAre ==
  /\ \A y : y \in DOMAIN String!Unescaped <=> \E l \in String!EscapeLetters : l[1] = y
  /\ 117 \notin DOMAIN String!Unescaped
  BY DEF String!Unescaped, String!Quote, String!Backslash, String!EscapeLetters

(* What is left of s from p on begins with e and then r.                   *)
Ahead(s, p, e, r) ==
  e \in Forms /\ r \in Seq(Forms) /\ Along(s, p, Until(<<e>> \o r), 1)

(* The parser may take n bytes for the character b: that is the next one.  *)
Advances(s, p, es, b, n) ==
  \E r \in Seq(Forms), code \in Codes :
    /\ code > 0 /\ n \in Nat /\ 1 <= n /\ n <= Left(s, p)
    /\ Along(s, p + n, Until(r), 1) /\ Len(Until(es)) = n + Len(Until(r))
    /\ Left(s, p + n) = Left(s, p) - n
    /\ String!Meaning(es) = <<code>> \o String!Meaning(r)
    /\ Spells(b, code) /\ PrintLen(code) <= n

(* The text is cut off or has no meaning.                                  *)
Hopeless(s, p, es) == Left(s, p) < Len(Until(es)) \/ ~ Good(String!Meaning(es))

(* The parser may take an element for what it means.                       *)
LEMMA AdvanceOne ==
  ASSUME NEW s, NEW p, NEW e, NEW r, NEW b, Ahead(s, p, e, r), Len(e.text) <= Left(s, p),
         e.unit > 0, Spells(b, e.unit), PrintLen(e.unit) <= Len(e.text)
  PROVE  Advances(s, p, <<e>> \o r, b, Len(e.text))
  <1> DEFINE n == Len(e.text)
             code == e.unit
             es == <<e>> \o r
             u == Until(r)
  <1>1. e \in Forms /\ r \in Seq(Forms) /\ Along(s, p, Until(es), 1)
    BY DEF Ahead
  <1>2. Until(es) = e.text \o u /\ e.text \in Seq(Bytes) /\ u \in Seq(Bytes)
        /\ Len(Until(es)) = n + Len(u) /\ n \in 1..Len(Until(es))
    BY <1>1, UntilFirst, UntilIs, Zenon DEF Item
  <1>3. Along(s, p + n, u, 1) /\ Left(s, p + n) = Left(s, p) - n
    BY <1>1, <1>2, AlongMoves, Zenon
  <1>4. code \in Codes
    BY SpellsCode
  <1>5. String!Meaning(es) = <<code>> \o String!Meaning(r)
    <2>1. code \notin String!HighSurrogates
      BY <1>4, CodesAre DEF String!Surrogates
    <2> QED BY <1>1, <2>1, MeaningOne
  <1>6. n \in Nat /\ 1 <= n
    BY <1>2 DEF n
  <1> HIDE DEF n, code, es, u
  <1> QED BY <1>1, <1>2, <1>3, <1>4, <1>5, <1>6, Zenon DEF Advances, n, code, es, u

(* What begins with something else may not.                                *)
LEMMA BadFirst ==
  ASSUME NEW x \in Int, NEW c \in Seq(Int), x <= 0 \/ x \in String!Surrogates
  PROVE  ~ Good(<<x>> \o c)
  <1>1. ~ Good(<<x>>) /\ <<x>> \in Seq(Int)
    BY GoodOne
  <1> DEFINE b == <<x>>
  <1> HIDE DEF b
  <1>2. ~ Good(b) /\ b \in Seq(Int)
    BY <1>1 DEF b
  <1>3. ~ Good(b \o c)
    BY <1>2, GoodConcat
  <1> QED BY <1>3 DEF b

(* An element that means nothing makes the text hopeless.                  *)
LEMMA NoAdvance ==
  ASSUME NEW s, NEW p, NEW e, NEW r, Ahead(s, p, e, r),
         e.unit <= 0 \/ e.unit \in String!Surrogates,
         ~ (e.unit \in String!HighSurrogates /\ r # <<>> /\ r[1].unit \in String!LowSurrogates)
  PROVE  Hopeless(s, p, <<e>> \o r)
  BY FormIs, MeaningIs, MeaningOne, BadFirst, Zenon DEF Ahead, Hopeless

(* What is ahead, in bytes: w begins with an element of m bytes.           *)
Bytewise(s, p, w, m, unit) ==
  /\ Along(s, p, w, 1) /\ Item(w, m, unit) /\ m \in Nat /\ 1 <= m /\ m < Len(w)
  /\ Left(s, p) \in Nat /\ Left(s, p) = (Len(s) + 1) - p /\ p \in Nat /\ Len(s) \in Nat
  /\ 1 <= Left(s, p) => s[p] = w[1]
  /\ 2 <= Left(s, p) => s[p + 1] = w[2]

(* This is what is ahead at an element.                                    *)
LEMMA AheadIs ==
  ASSUME NEW s, NEW p, NEW e, NEW r, Ahead(s, p, e, r)
  PROVE  Bytewise(s, p, Until(<<e>> \o r), Len(e.text), e.unit)
  <1> DEFINE w == Until(<<e>> \o r)
             m == Len(e.text)
             u == Until(r)
  <1>1. e \in Forms /\ r \in Seq(Forms) /\ Along(s, p, w, 1)
    BY DEF Ahead
  <1>2. Item(w, m, e.unit) /\ Len(w) = m + Len(u) /\ Len(u) \in Nat \ {0} /\ m \in 1..Len(w)
    BY <1>1, UntilFirst, UntilIs, Zenon DEF Item
  <1>3. w \in Seq(Bytes)
    BY <1>2 DEF Item
  <1> HIDE DEF w, m, u
  <1>4. Len(w) \in Nat
    BY <1>3
  <1>5. m \in Nat /\ 1 <= m /\ m < Len(w)
    BY <1>2, <1>4
  <1>6. /\ Left(s, p) \in Nat /\ p \in Nat /\ Len(s) \in Nat
        /\ 1 <= Left(s, p) => s[p] = w[1]
        /\ 2 <= Left(s, p) => s[p + 1] = w[1 + 1]
    BY <1>1, AlongBytes
  <1>7. 1 + 1 = 2
    OBVIOUS
  <1>8. Left(s, p) = (Len(s) + 1) - p
    BY DEF Left
  <1> QED BY <1>1, <1>2, <1>5, <1>6, <1>7, <1>8, Zenon DEF Bytewise, w, m

(* An element that is cut off makes the text hopeless.                     *)
LEMMA CutShort ==
  ASSUME NEW s, NEW p, NEW e, NEW r, Ahead(s, p, e, r), Left(s, p) <= Len(e.text)
  PROVE  Hopeless(s, p, <<e>> \o r)
  BY AheadIs DEF Bytewise, Item, Hopeless

(* So does one that stands for nothing.                                    *)
LEMMA NothingAhead ==
  ASSUME NEW s, NEW p, NEW e, NEW r, Ahead(s, p, e, r), e.unit = -1
  PROVE  Hopeless(s, p, <<e>> \o r)
  BY HighAre, NoAdvance

(* ParseByte                                                               *)
LEMMA ByteAhead ==
  ASSUME NEW s, NEW p, NEW e, NEW r, Ahead(s, p, e, r), 1 <= Left(s, p)
  PROVE  /\ s[p] # 34 /\ s[p] \in Bytes
         /\ s[p] \in 32..127 \ {34, 92} => Advances(s, p, <<e>> \o r, <<s[p]>>, 1)
         /\ s[p] < 32 => Hopeless(s, p, <<e>> \o r)
  <1> DEFINE w == Until(<<e>> \o r)
             m == Len(e.text)
             unit == e.unit
             x == w[1]
  <1>1. Bytewise(s, p, w, m, unit)
    BY AheadIs
  <1> HIDE DEF w
  <1>2. s[p] = x /\ x # 34 /\ x \in Bytes
    BY <1>1, Zenon DEF Bytewise, Item
  <1>3. \/ Plain(w, m, unit) \/ Sequence(w, m, unit)
        \/ Lettered(w, m, unit) \/ Numbered(w, m, unit)
        \/ unit = -1 /\ Nothing(w, m)
    BY <1>1, Zenon DEF Bytewise, Item
  <1> HIDE DEF m, unit
  <1>4. /\ Plain(w, m, unit) => x \in 32..127 \ {34, 92} /\ m = 1 /\ unit = x
        /\ Sequence(w, m, unit) => x >= 128
        /\ Lettered(w, m, unit) => x = 92
        /\ Numbered(w, m, unit) => x = 92
        /\ Nothing(w, m) => (x < 32 \/ x >= 128 \/ x = 92)
    BY DEF Plain, Sequence, Lettered, Numbered, Nothing
  <1> HIDE DEF x
  <1>5. ASSUME x \in 32..127 \ {34, 92} PROVE Advances(s, p, <<e>> \o r, <<x>>, 1)
    <2>1. m = 1 /\ unit = x
      BY <1>3, <1>4, <1>5
    <2>2. Spells(<<x>>, x) /\ x > 0 /\ PrintLen(x) <= 1
      <3>1. x \in 0..127 /\ x > 0
        BY <1>5
      <3>2. PrintLen(x) <= 1
        BY <1>5, SMT DEF PrintLen
      <3> QED BY <3>1, <3>2, SpellsOne
    <2>3. Len(e.text) <= Left(s, p) /\ e.unit = x /\ Len(e.text) = 1
      BY <2>1 DEF m, unit
    <2> QED BY <2>2, <2>3, AdvanceOne
  <1>6. ASSUME x < 32 PROVE Hopeless(s, p, <<e>> \o r)
    BY <1>2, <1>3, <1>4, <1>6, ByteIs, NothingAhead DEF unit
  <1> QED BY <1>2, <1>5, <1>6

(* ParseSequence                                                           *)
LEMMA SequenceAhead ==
  ASSUME NEW s, NEW p, NEW e, NEW r, Ahead(s, p, e, r), 1 <= Left(s, p), s[p] >= 128
  PROVE  /\ \A n : WellFormed(s, p, n) => Advances(s, p, <<e>> \o r, Taken(s, p, n), n)
         /\ (\A n : ~ WellFormed(s, p, n)) => Hopeless(s, p, <<e>> \o r)
  <1> DEFINE w == Until(<<e>> \o r)
             m == Len(e.text)
             unit == e.unit
             x == w[1]
  <1>1. Bytewise(s, p, w, m, unit)
    BY AheadIs
  <1> HIDE DEF w
  <1>2. s[p] = x /\ x \in Int /\ Along(s, p, w, 1) /\ w \in Seq(Bytes) /\ m \in Nat /\ Left(s, p) \in Nat
    BY <1>1, ByteIs, Zenon DEF Bytewise, Item
  <1>3. \/ Plain(w, m, unit) \/ Sequence(w, m, unit)
        \/ Lettered(w, m, unit) \/ Numbered(w, m, unit)
        \/ unit = -1 /\ Nothing(w, m)
    BY <1>1, Zenon DEF Bytewise, Item
  <1> HIDE DEF m, unit
  <1>4. /\ Plain(w, m, unit) => x \in 32..127
        /\ Lettered(w, m, unit) => x = 92
        /\ Numbered(w, m, unit) => x = 92
        /\ Nothing(w, m) => x < 32 \/ x = 92 \/ \A n : ~ WellFormed(w, 1, n)
    BY DEF Plain, Lettered, Numbered, Nothing
  <1> HIDE DEF x
  <1>5. Sequence(w, m, unit) \/ (unit = -1 /\ \A n : ~ WellFormed(w, 1, n))
    BY <1>2, <1>3, <1>4
  <1>6. CASE Sequence(w, m, unit)
    <2>1. /\ WellFormed(w, 1, m) /\ unit = String!Scalar(w, 1, m) /\ unit >= 128 /\ m \in 2..4
      BY <1>6, SpellsIs DEF Sequence
    <2>2. ASSUME NEW n, WellFormed(s, p, n)
          PROVE  Advances(s, p, <<e>> \o r, Taken(s, p, n), n)
      <3>1. WellFormed(w, 1, n) /\ String!Scalar(s, p, n) = String!Scalar(w, 1, n)
            /\ n \in 1..4 /\ n <= Left(s, p)
        BY <1>2, <2>2, AlongWellFormed
      <3>2. n = m
        BY <1>2, <2>1, <3>1, OneLength
      <3>3. s \in Seq(Bytes) /\ p \in 1..Len(s) + 1
        BY <1>2 DEF Along
      <3>4. Spells(Taken(s, p, n), unit)
        BY <2>2, <3>3, TakenSpells, <2>1, <3>1, <3>2
      <3>5. PrintLen(unit) = m /\ unit > 0
        BY <2>1, ScalarIs, <3>4, SpellsCode, CodesAre, PrintLenFits
      <3>6. m <= m /\ m <= Left(s, p)
        BY <1>2, <3>1, <3>2
      <3> QED BY <3>2, <3>4, <3>5, <3>6, AdvanceOne DEF m, unit
    <2>3. ASSUME \A n : ~ WellFormed(s, p, n) PROVE Hopeless(s, p, <<e>> \o r)
      <3>1. ~ (m \in 1..4 /\ m <= Left(s, p))
        BY <1>2, <2>1, <2>3, AlongWellFormed
      <3>2. Left(s, p) <= m
        BY <1>2, <2>1, <3>1
      <3> QED BY <3>2, CutShort DEF m
    <2> QED BY <2>2, <2>3
  <1>7. CASE unit = -1 /\ \A n : ~ WellFormed(w, 1, n)
    BY <1>2, <1>7, AlongWellFormed, NothingAhead DEF unit
  <1> QED BY <1>5, <1>6, <1>7

(* What a backslash may begin.                                             *)
Escaping(w, m, unit) ==
  /\ m >= 2
  /\ \/ Lettered(w, m, unit)
     \/ Numbered(w, m, unit)
     \/ unit = -1 /\ w[2] # 117 /\ \A l \in String!EscapeLetters : w[2] # l[1]
     \/ unit = -1 /\ w[2] = 117 /\ \E i \in 3..6 : String!HexDigit(w[i]) < 0

(* Only these elements begin with a backslash.                             *)
LEMMA BackslashAhead ==
  ASSUME NEW s, NEW p, NEW e, NEW r, Ahead(s, p, e, r), 1 <= Left(s, p), s[p] = 92
  PROVE  Escaping(Until(<<e>> \o r), Len(e.text), e.unit)
  <1> DEFINE w == Until(<<e>> \o r)
             m == Len(e.text)
             unit == e.unit
             x == w[1]
  <1>1. Bytewise(s, p, w, m, unit)
    BY AheadIs
  <1> HIDE DEF w
  <1>2. x = 92 /\ m \in Nat
    BY <1>1, Zenon DEF Bytewise
  <1>3. \/ Plain(w, m, unit) \/ Sequence(w, m, unit)
        \/ Lettered(w, m, unit) \/ Numbered(w, m, unit)
        \/ unit = -1 /\ Nothing(w, m)
    BY <1>1, Zenon DEF Bytewise, Item
  <1> HIDE DEF m, unit
  <1>4. ~ Plain(w, m, unit) /\ ~ Sequence(w, m, unit)
    BY <1>2 DEF Plain, Sequence
  <1>5. CASE Lettered(w, m, unit)
    BY <1>5 DEF Lettered, Escaping, m, unit, w
  <1>6. CASE Numbered(w, m, unit)
    BY <1>6 DEF Numbered, Escaping, m, unit, w
  <1>7. CASE unit = -1 /\ Nothing(w, m)
    BY <1>2, <1>7 DEF Nothing, Escaping, m, unit, w
  <1> QED BY <1>3, <1>4, <1>5, <1>6, <1>7, Zenon

(* ParseEscape                                                             *)
LEMMA EscapeAhead ==
  ASSUME NEW s, NEW p, NEW e, NEW r, Ahead(s, p, e, r), 1 <= Left(s, p), s[p] = 92
  PROVE  /\ Left(s, p) <= 1 => Hopeless(s, p, <<e>> \o r)
         /\ 2 <= Left(s, p) /\ s[p + 1] \in DOMAIN String!Unescaped =>
              Advances(s, p, <<e>> \o r, <<String!Unescaped[s[p + 1]]>>, 2)
         /\ 2 <= Left(s, p) /\ s[p + 1] \notin DOMAIN String!Unescaped /\ s[p + 1] # 117 =>
              Hopeless(s, p, <<e>> \o r)
  <1> DEFINE w == Until(<<e>> \o r)
             m == Len(e.text)
             unit == e.unit
             l == Left(s, p)
             y == s[p + 1]
  <1>0. Bytewise(s, p, w, m, unit) /\ Escaping(w, m, unit)
    BY AheadIs, BackslashAhead
  <1>1. l \in Nat /\ m \in Nat /\ (2 <= l => y = w[2])
    BY <1>0, Zenon DEF Bytewise
  <1>2. /\ m >= 2
        /\ \/ Lettered(w, m, unit)
           \/ Numbered(w, m, unit)
           \/ unit = -1 /\ w[2] # 117 /\ \A k \in String!EscapeLetters : w[2] # k[1]
           \/ unit = -1 /\ w[2] = 117
    BY <1>0, Zenon DEF Escaping
  <1> HIDE DEF w, m, unit, l, y
  <1>3. ASSUME l <= 1 PROVE Hopeless(s, p, <<e>> \o r)
    BY <1>1, <1>2, <1>3, CutShort DEF l, m
  <1>4. ASSUME 2 <= l, y \in DOMAIN String!Unescaped
        PROVE  Advances(s, p, <<e>> \o r, <<String!Unescaped[y]>>, 2)
    <2>1. \E k \in String!EscapeLetters : k[1] = y
      BY <1>4, LettersAre, Zenon
    <2>2. y # 117
      BY <1>4, LettersAre
    <2>3. Lettered(w, m, unit)
      BY <1>1, <1>4, <2>2, <1>2, <2>1 DEF Numbered
    <2>4. m = 2 /\ <<y, unit>> \in String!EscapeLetters
      BY <1>1, <1>4, <2>3, Zenon DEF Lettered
    <2>5. /\ unit \in 1..127 /\ String!Unescaped[y] = unit
          /\ unit \in {34, 92, 8, 12, 10, 13, 9, 47}
      BY <2>4, EscapeIs
    <2>6. Spells(<<unit>>, unit) /\ unit > 0 /\ PrintLen(unit) <= 2
      <3>1. unit \in 0..127 /\ unit > 0
        BY <2>5
      <3>2. PrintLen(unit) <= 2
        BY <2>5, PrintLenFits
      <3> QED BY <3>1, <3>2, SpellsOne
    <2>7. Len(e.text) = 2 /\ 2 <= Left(s, p) /\ e.unit = unit
      BY <1>4, <2>4 DEF m, unit, l
    <2>8. Advances(s, p, <<e>> \o r, <<unit>>, Len(e.text))
      <3>1. Spells(<<unit>>, e.unit) /\ e.unit > 0 /\ PrintLen(e.unit) <= Len(e.text)
            /\ Len(e.text) <= Left(s, p)
        BY <2>6, <2>7
      <3> QED BY <3>1, AdvanceOne
    <2> QED BY <2>5, <2>7, <2>8
  <1>5. ASSUME 2 <= l, y \notin DOMAIN String!Unescaped, y # 117
        PROVE  Hopeless(s, p, <<e>> \o r)
    BY LettersAre, <1>5, <1>1, <1>2, NothingAhead DEF Numbered, Lettered, unit
  <1> QED BY <1>3, <1>4, <1>5, Zenon DEF l, y

(* ParseHexCodeUnit, at an escape                                          *)
UnitIs(s, p, m, unit) ==
  2 <= Left(s, p) /\ s[p + 1] = 117 =>
    \/ /\ m = 6 /\ 0 <= unit /\ unit <= 65535
       /\ String!HexCodeUnit(s, p + 2) = IF 6 <= Left(s, p) THEN unit ELSE -1
    \/ unit = -1 /\ String!HexCodeUnit(s, p + 2) = -1

(* ParseHexCodeUnit reads the code unit of the escape, or fails with it.   *)
LEMMA UnitAhead ==
  ASSUME NEW s, NEW p, NEW e, NEW r, Ahead(s, p, e, r),
         1 <= Left(s, p), s[p] = 92
  PROVE  UnitIs(s, p, Len(e.text), e.unit)
  <1>1. Escaping(Until(<<e>> \o r), Len(e.text), e.unit)
    BY BackslashAhead
  <1>2. SUFFICES ASSUME 2 <= Left(s, p), s[p + 1] = 117
                 PROVE  \/ /\ Len(e.text) = 6 /\ 0 <= e.unit /\ e.unit <= 65535
                           /\ String!HexCodeUnit(s, p + 2) = IF 6 <= Left(s, p) THEN e.unit ELSE -1
                        \/ e.unit = -1 /\ String!HexCodeUnit(s, p + 2) = -1
    BY SMT DEF UnitIs
  <1> DEFINE w == Until(<<e>> \o r)
             m == Len(e.text)
             unit == e.unit
             l == Left(s, p)
  <1>3. Bytewise(s, p, w, m, unit)
    BY AheadIs
  <1>4. l \in Nat /\ m \in Nat /\ (2 <= l => s[p + 1] = w[2]) /\ Along(s, p, w, 1)
    BY <1>3, Zenon DEF Bytewise
  <1>5. \/ Lettered(w, m, unit)
        \/ Numbered(w, m, unit)
        \/ unit = -1 /\ w[2] # 117
        \/ unit = -1 /\ \E i \in 3..6 : String!HexDigit(w[i]) < 0
    BY <1>1, Zenon DEF Escaping
  <1> HIDE DEF w, m, unit, l
  <1>6. w[2] = 117
    BY <1>4, <1>2 DEF l
  <1>7. ~ Lettered(w, m, unit)
    BY <1>6, EscapeIs DEF Lettered
  <1>8. CASE Numbered(w, m, unit)
    BY <1>8, <1>4, NumberRead DEF Numbered, l, m, unit
  <1>9. CASE unit = -1 /\ \E i \in 3..6 : String!HexDigit(w[i]) < 0
    BY <1>4, <1>9, NumberRead DEF unit
  <1> QED BY <1>5, <1>6, <1>7, <1>8, <1>9

(* The first element of a sequence, and the others.                        *)
LEMMA FirstAndRest ==
  ASSUME NEW S, NEW s \in Seq(S), s # <<>>
  PROVE  s[1] \in S /\ Tail(s) \in Seq(S) /\ s = <<s[1]>> \o Tail(s)
  OBVIOUS

(* ParseUnicodeEscape, behind a high surrogate                             *)
LEMMA LowAhead ==
  ASSUME NEW s, NEW p, NEW e, NEW r, Ahead(s, p, e, r)
  PROVE  LET second == String!LowSurrogateAt(s, p)
         IN /\ second \in String!LowSurrogates =>
                 Len(e.text) = 6 /\ 6 <= Left(s, p) /\ e.unit = second
            /\ second \notin String!LowSurrogates /\ e.unit \in String!LowSurrogates =>
                 Left(s, p) < Len(Until(<<e>> \o r))
  <1> DEFINE w == Until(<<e>> \o r)
             m == Len(e.text)
             unit == e.unit
             l == Left(s, p)
             second == String!LowSurrogateAt(s, p)
             hex == String!HexCodeUnit(s, p + 2)
  <1>0. Bytewise(s, p, w, m, unit)
    BY AheadIs
  <1>1. /\ l \in Nat /\ m \in Nat /\ l = (Len(s) + 1) - p /\ p \in Nat /\ Len(s) \in Nat
        /\ m < Len(w) /\ w \in Seq(Bytes) /\ Along(s, p, w, 1)
        /\ 1 <= l => s[p] = w[1]
        /\ 2 <= l => s[p + 1] = w[2]
    BY <1>0, Zenon DEF Bytewise, Item
  <1>2. second = IF p + 5 <= Len(s) /\ s[p] = 92 /\ s[p + 1] = 117 THEN hex ELSE -1
    BY Zenon DEF String!LowSurrogateAt, String!Backslash, String!LetterU
  <1>3. p + 5 <= Len(s) <=> 6 <= l
    BY <1>1
  <1>4. -1 \notin String!LowSurrogates
    BY LowAre
  <1>5. /\ Plain(w, m, unit) => unit <= 127 /\ unit \in Int
        /\ Lettered(w, m, unit) => unit <= 127 /\ unit \in Int
        /\ Sequence(w, m, unit) => unit \notin String!LowSurrogates
        /\ Numbered(w, m, unit) => w[1] = 92 /\ w[2] = 117 /\ m = 6
    <2> HIDE DEF w, m, unit
    <2>1. Plain(w, m, unit) => unit <= 127 /\ unit \in Int
      BY DEF Plain
    <2>2. Lettered(w, m, unit) => unit <= 127 /\ unit \in Int
      BY EscapeIs DEF Lettered
    <2>3. Sequence(w, m, unit) => unit \notin String!LowSurrogates
      BY ScalarIs, CodesAre DEF Sequence, CharacterOf, String!Surrogates
    <2>4. Numbered(w, m, unit) => w[1] = 92 /\ w[2] = 117 /\ m = 6
      BY DEF Numbered
    <2> QED BY <2>1, <2>2, <2>3, <2>4
  <1> HIDE DEF w, m, unit, l, second, hex
  <1>6. ASSUME second \in String!LowSurrogates PROVE m = 6 /\ 6 <= l /\ unit = second
    <2>1. 6 <= l /\ s[p] = 92 /\ s[p + 1] = 117 /\ second = hex /\ hex # -1
      BY <1>2, <1>3, <1>4, <1>6
    <2>2. 1 <= l /\ 2 <= l
      BY <1>1, <2>1
    <2>3. \/ m = 6 /\ hex = IF 6 <= l THEN unit ELSE -1
          \/ unit = -1 /\ hex = -1
      BY <2>1, <2>2, UnitAhead DEF m, unit, l, UnitIs, hex
    <2> QED BY <2>1, <2>3
  <1>7. ASSUME second \notin String!LowSurrogates, unit \in String!LowSurrogates PROVE l < Len(w)
    <2>1. Numbered(w, m, unit)
      BY <1>7, LowAre, <1>0, <1>5 DEF Bytewise, Item, w, m, unit
    <2>2. ASSUME 6 <= l PROVE FALSE
      <3>1. 1 <= l /\ 2 <= l
        BY <1>1, <2>2
      <3>2. s[p] = 92 /\ s[p + 1] = 117
        BY <1>1, <1>5, <2>1, <3>1
      <3>3. hex = unit
        BY <1>1, <2>1, <2>2, NumberRead, SMT DEF hex, l
      <3> QED BY <1>2, <1>3, <1>7, <2>2, <3>2, <3>3
    <2>3. m = 6 /\ Len(w) \in Nat
      BY <1>1, <1>5, <2>1
    <2> QED BY <1>1, <2>2, <2>3
  <1> QED BY <1>6, <1>7 DEF w, m, unit, l, second

(* Two halves make a character that takes four bytes.                      *)
LEMMA PairIs ==
  ASSUME NEW a \in String!HighSurrogates, NEW b \in String!LowSurrogates
  PROVE  String!Paired(a, b) \in Codes /\ String!Paired(a, b) > 65535
  BY HighAre, LowAre DEF String!Paired, Codes

(* The parser may take an element for what EncodeUtf8 writes.              *)
LEMMA AdvanceEncoded ==
  ASSUME NEW s, NEW p, NEW e, NEW r, Ahead(s, p, e, r), Len(e.text) <= Left(s, p),
         e.unit \in Codes, e.unit > 0, PrintLen(e.unit) <= Len(e.text)
  PROVE  Advances(s, p, <<e>> \o r, String!Encode(e.unit), Len(e.text))
  BY EncodeSpells, AdvanceOne, Zenon

(* A code unit that is no high surrogate.                                  *)
LEMMA OneUnit ==
  ASSUME NEW s, NEW p, NEW e, NEW r, Ahead(s, p, e, r)
  PROVE  /\ Len(e.text) = 6 /\ 6 <= Left(s, p) /\ 0 < e.unit /\ e.unit <= 65535
            /\ e.unit \notin String!Surrogates =>
              Advances(s, p, <<e>> \o r, String!Encode(e.unit), 6)
         /\ e.unit \notin String!HighSurrogates
            /\ (e.unit <= 0 \/ e.unit \in String!Surrogates) =>
              Hopeless(s, p, <<e>> \o r)
  <1> DEFINE unit == e.unit
  <1>1. unit \in Int
    BY FormIs DEF Ahead
  <1>2. ASSUME unit \notin String!HighSurrogates, unit <= 0 \/ unit \in String!Surrogates
        PROVE  Hopeless(s, p, <<e>> \o r)
    BY <1>2, NoAdvance
  <1>3. ASSUME Len(e.text) = 6, 6 <= Left(s, p), 0 < unit, unit <= 65535,
               unit \notin String!Surrogates
        PROVE  Advances(s, p, <<e>> \o r, String!Encode(e.unit), 6)
    <2> HIDE DEF unit
    <2>1. unit \in Codes
      BY <1>1, <1>3, SurrogatesAre, SMT DEF Codes
    <2>2. PrintLen(unit) <= 6 /\ unit > 0
      BY <1>1, <1>3, PrintLenFits
    <2>3. /\ e.unit \in Codes /\ e.unit > 0
          /\ PrintLen(e.unit) <= Len(e.text) /\ Len(e.text) <= Left(s, p)
      BY <1>3, <2>1, <2>2 DEF unit
    <2>4. Advances(s, p, <<e>> \o r, String!Encode(e.unit), Len(e.text))
      BY <2>3, AdvanceEncoded
    <2> QED BY <1>3, <2>4
  <1> QED BY <1>2, <1>3

(* A high surrogate and what comes behind it.                              *)
LEMMA TwoUnits ==
  ASSUME NEW s, NEW p, NEW e, NEW r, Ahead(s, p, e, r),
         Len(e.text) = 6, 6 <= Left(s, p), e.unit \in String!HighSurrogates
  PROVE  LET second == String!LowSurrogateAt(s, p + 6)
             code == String!Paired(e.unit, second)
         IN IF second \in String!LowSurrogates
            THEN code > 0 /\ Advances(s, p, <<e>> \o r, String!Encode(code), 12)
            ELSE Hopeless(s, p, <<e>> \o r)
  <1> DEFINE es == <<e>> \o r
             u == Until(r)
             l == Left(s, p)
             q == p + 6
             second == String!LowSurrogateAt(s, q)
             code == String!Paired(e.unit, second)
  <1>1. /\ e \in Forms /\ r \in Seq(Forms) /\ Along(s, p, Until(es), 1)
        /\ Until(es) = e.text \o u /\ e.text \in Seq(Bytes)
        /\ u \in Seq(Bytes) /\ Len(Until(es)) = 6 + Len(u)
    BY UntilFirst, UntilIs DEF Ahead
  <1>2. Along(s, q, u, 1) /\ Left(s, q) = l - 6
    <2>1. Along(s, p, e.text \o u, 1)
      BY <1>1
    <2> HIDE DEF u
    <2> QED BY <1>1, <2>1, AlongMoves
  <1>3. l \in Nat /\ Len(u) \in Nat
    BY <1>1, AlongBytes
  <1>4. r # <<>> => Ahead(s, q, r[1], Tail(r)) /\ r = <<r[1]>> \o Tail(r) /\ r[1] \in Forms
                    /\ Tail(r) \in Seq(Forms)
    BY <1>1, FirstAndRest, <1>2, Zenon DEF Ahead
  <1>5. r = <<>> => second \notin String!LowSurrogates
    <2> SUFFICES ASSUME r = <<>>, second \in String!LowSurrogates PROVE FALSE
      OBVIOUS
    <2>1. u = <<34>> /\ u[1] = 34
      BY UntilNone
    <2>2. q + 5 <= Len(s) /\ s[q] = 92
      BY LowAre DEF String!LowSurrogateAt, String!Backslash, String!LetterU
    <2> HIDE DEF q, u
    <2>3. 1 <= Left(s, q)
      BY <1>2, <2>2, AlongBytes DEF Left
    <2>4. s[q] = u[1]
      BY <1>2, <2>3, AlongBytes
    <2> QED BY <2>1, <2>2, <2>4
  <1> HIDE DEF q, u
  <1>6. CASE second \in String!LowSurrogates
    <2> DEFINE f == r[1]
               t == Tail(r)
    <2>1. r # <<>>
      BY <1>5, <1>6
    <2>2. Ahead(s, q, f, t) /\ r = <<f>> \o t /\ f \in Forms /\ t \in Seq(Forms)
      BY <1>4, <2>1
    <2> HIDE DEF f, t, l
    <2>3. Len(f.text) = 6 /\ 6 <= Left(s, q) /\ f.unit = second
      BY <1>6, <2>2, LowAhead
    <2> DEFINE v == Until(t)
    <2>4. /\ Until(r) = f.text \o v /\ f.text \in Seq(Bytes) /\ v \in Seq(Bytes)
          /\ Len(u) = 6 + Len(v)
      BY <2>2, <2>3, UntilFirst, UntilIs DEF u
    <2>5. Along(s, q + 6, v, 1) /\ Left(s, q + 6) = Left(s, q) - 6
      BY <1>2, <2>4, <2>3, AlongMoves DEF u
    <2>6. code \in Codes /\ code > 65535
      BY <1>6, PairIs
    <2>7. String!Meaning(es) = <<code>> \o String!Meaning(t)
      BY <1>1, <1>6, <2>2, <2>3, MeaningPair
    <2> HIDE DEF second, code
    <2>8. code > 0 /\ PrintLen(code) <= 12
      BY <2>6, CodesAre, PrintLenFits
    <2>9. Spells(String!Encode(code), code)
      BY <2>6, EncodeSpells
    <2>10. /\ q + 6 = p + 12 /\ 12 <= l /\ Left(s, p + 12) = l - 12
           /\ Len(Until(es)) = 12 + Len(v)
      <3>1. p \in Nat /\ Len(v) \in Nat
        BY <1>1, <2>4, AlongBytes
      <3>2. q + 6 = p + 12
        BY <3>1 DEF q
      <3> HIDE DEF v
      <3>3. 6 <= l - 6 /\ (l - 6) - 6 = l - 12
        BY <1>2, <1>3, <2>3
      <3>4. 6 + (6 + Len(v)) = 12 + Len(v)
        BY <3>1
      <3>5. Left(s, q + 6) = l - 12
        BY <1>2, <2>5, <3>3
      <3>6. Left(s, p + 12) = l - 12
        BY <3>2, <3>5
      <3>7. 12 <= l
        BY <1>3, <3>3
      <3> HIDE DEF es, q, l
      <3>8. Len(Until(es)) = 12 + Len(v)
        BY <1>1, <2>4, <3>4
      <3> QED BY <3>2, <3>6, <3>7, <3>8
    <2>11. Along(s, p + 12, v, 1)
      BY <2>5, <2>10
    <2>12. 12 \in Nat /\ 1 <= 12
      OBVIOUS
    <2> DEFINE n == 12
    <2>13. /\ n \in Nat /\ 1 <= n /\ n <= Left(s, p) /\ PrintLen(code) <= n
           /\ Along(s, p + n, Until(t), 1) /\ Len(Until(es)) = n + Len(Until(t))
           /\ Left(s, p + n) = Left(s, p) - n
      BY <2>8, <2>10, <2>11, <2>12 DEF l
    <2> HIDE DEF es, n
    <2>14. Advances(s, p, es, String!Encode(code), n)
      <3>1. /\ t \in Seq(Forms) /\ code \in Codes /\ code > 0 /\ n \in Nat /\ 1 <= n
            /\ n <= Left(s, p) /\ Along(s, p + n, Until(t), 1)
            /\ Len(Until(es)) = n + Len(Until(t)) /\ Left(s, p + n) = Left(s, p) - n
            /\ String!Meaning(es) = <<code>> \o String!Meaning(t)
            /\ Spells(String!Encode(code), code) /\ PrintLen(code) <= n
        BY <2>2, <2>6, <2>7, <2>8, <2>9, <2>13
      <3> DEFINE b == String!Encode(code)
      <3> HIDE DEF b
      <3>2. Spells(b, code)
        BY <3>1 DEF b
      <3>3. Advances(s, p, es, b, n)
        BY <3>1, <3>2, Zenon DEF Advances
      <3> QED BY <3>3 DEF b
    <2> QED BY <1>6, <2>8, <2>14 DEF second, code, es, q, n
  <1>7. CASE second \notin String!LowSurrogates
    <2>1. CASE r # <<>> /\ r[1].unit \in String!LowSurrogates
      <3> DEFINE f == r[1]
                 t == Tail(r)
      <3>1. Ahead(s, q, f, t) /\ r = <<f>> \o t
        BY <1>4, <2>1
      <3> HIDE DEF f, t
      <3>2. Left(s, q) < Len(Until(<<f>> \o t))
        BY <1>7, <2>1, <3>1, LowAhead DEF f
      <3>3. l - 6 < Len(u)
        BY <1>2, <3>1, <3>2 DEF u
      <3> HIDE DEF l
      <3>4. l < 6 + Len(u)
        BY <1>3, <3>3
      <3> QED BY <1>1, <1>7, <3>4 DEF Hopeless, l, second, q
    <2>2. CASE ~ (r # <<>> /\ r[1].unit \in String!LowSurrogates)
      BY <2>2, NoAdvance, <1>7 DEF String!Surrogates, second, q
    <2> QED BY <2>1, <2>2
  <1> QED BY <1>6, <1>7

(* x is what ParseUnicodeEscape should make of the escape at p.            *)
EscapedIs(x, s, p, es) ==
  IF x.code > 0 THEN Advances(s, p, es, String!Encode(x.code), 2 + x.length)
  ELSE Hopeless(s, p, es)

(* ParseUnicodeEscape                                                      *)
LEMMA UnicodeAhead ==
  ASSUME NEW s, NEW p, NEW e, NEW r, Ahead(s, p, e, r), 1 <= Left(s, p), s[p] = 92
  PROVE  2 <= Left(s, p) /\ s[p + 1] = 117 =>
           EscapedIs(String!EscapedCodePoint(s, p + 2), s, p, <<e>> \o r)
  <1>0. SUFFICES ASSUME 2 <= Left(s, p), s[p + 1] = 117
                 PROVE  EscapedIs(String!EscapedCodePoint(s, p + 2), s, p, <<e>> \o r)
    OBVIOUS
  <1> DEFINE es == <<e>> \o r
             m == Len(e.text)
             unit == e.unit
             l == Left(s, p)
             hex == String!HexCodeUnit(s, p + 2)
             second == String!LowSurrogateAt(s, p + 6)
             code == String!Paired(unit, second)
             x == String!EscapedCodePoint(s, p + 2)
             High == String!HighSurrogates
             Low == String!LowSurrogates
  <1>1. \/ m = 6 /\ 0 <= unit /\ unit <= 65535 /\ hex = IF 6 <= l THEN unit ELSE -1
        \/ unit = -1 /\ hex = -1
    BY UnitAhead, <1>0 DEF UnitIs
  <1>2. unit \in Int /\ p \in Nat /\ l \in Nat
    BY AheadIs, FormIs DEF Ahead, Bytewise
  <1>3. (p + 2) + 4 = p + 6
    BY <1>2
  <1>4. x = IF hex \in High /\ second \in Low
            THEN [code |-> String!Paired(hex, second), length |-> 10]
            ELSE [code |-> IF hex \in String!Surrogates THEN -1 ELSE hex, length |-> 4]
    BY <1>3 DEF String!EscapedCodePoint
  <1>5. -1 \notin High /\ -1 \notin String!Surrogates /\ High \subseteq String!Surrogates
    BY HighAre, SurrogatesAre DEF String!Surrogates
  <1> HIDE DEF High, Low, hex, second, x, m, unit, l, es
  <1>6. CASE hex = -1
    <2>1. x.code = -1
      BY <1>4, <1>5, <1>6
    <2>2. Hopeless(s, p, es)
      <3>1. CASE unit = -1
        BY <3>1, NothingAhead DEF unit, es
      <3>2. CASE unit # -1
        <4>1. l <= m
          BY <1>1, <1>2, <1>6, <3>2
        <4> QED BY <4>1, CutShort DEF l, m, es
      <3> QED BY <3>1, <3>2
    <2> QED BY <2>1, <2>2 DEF EscapedIs, x, es
  <1>7. CASE hex # -1
    <2>1. m = 6 /\ 6 <= l /\ hex = unit /\ 0 <= unit /\ unit <= 65535
      BY <1>1, <1>2, <1>7
    <2>2. CASE unit \in High
      <3>1. IF second \in Low
            THEN code > 0 /\ Advances(s, p, es, String!Encode(code), 12)
            ELSE Hopeless(s, p, es)
        BY <2>1, <2>2, TwoUnits DEF High, Low, second, code, m, unit, l, es
      <3>2. CASE second \in Low
        BY <1>4, <2>1, <2>2, <3>2, <3>1 DEF EscapedIs, x, es
      <3>3. CASE second \notin Low
        BY <1>4, <1>5, <2>1, <2>2, <3>3, <3>1 DEF EscapedIs, x, es
      <3> QED BY <3>2, <3>3
    <2>3. CASE unit \notin High
      <3>1. x.code = (IF unit \in String!Surrogates THEN -1 ELSE unit) /\ 2 + x.length = 6
        BY <1>4, <2>1, <2>3
      <3>2. /\ 0 < unit /\ unit \notin String!Surrogates =>
                 Advances(s, p, es, String!Encode(unit), 6)
            /\ unit <= 0 \/ unit \in String!Surrogates => Hopeless(s, p, es)
        BY <2>1, <2>3, OneUnit DEF High, m, unit, l, es
      <3>3. CASE 0 < unit /\ unit \notin String!Surrogates
        BY <3>1, <3>2, <3>3 DEF EscapedIs, x, es
      <3>4. CASE unit <= 0 \/ unit \in String!Surrogates
        BY <1>2, <3>1, <3>2, <3>4 DEF EscapedIs, x, es
      <3> QED BY <1>2, <3>3, <3>4
    <2> QED BY <2>2, <2>3
  <1> QED BY <1>6, <1>7 DEF es, x

-----------------------------------------------------------------------------
(* Strings: what EscapeJsonString writes                                   *)

(* What EscapeJsonString writes for the bytes of a character.              *)
Shown(mark) == IF mark = -1 THEN 65533 ELSE mark

(* It is a number, and only bytes that stand for nothing are replaced.     *)
LEMMA ShownIs == \A x : (x # -1 => Shown(x) = x) /\ (x \in Int => Shown(x) \in Int)
  BY SMT DEF Shown

(* b is how EscapeJsonString writes mark.                                  *)
Prints(b, mark) ==
  /\ PrintLen(mark) = Len(b)
  /\ \E e \in Forms : /\ e.text = b /\ e.unit = Shown(mark)
                      /\ e.unit \notin String!HighSurrogates

(* An element of that length and meaning is how it may be written.         *)
LEMMA PrintsForm ==
  ASSUME NEW b \in Seq(Bytes), NEW code \in Int, code \notin String!HighSurrogates,
         NEW mark, code = Shown(mark), PrintLen(mark) = Len(b),
         NEW e, e = [text |-> b, unit |-> code],
         String!IsCharacter(e) \/ String!IsEscape(e) \/ String!IsCodeUnit(e)
  PROVE  Prints(b, mark)
  BY DEF String!IsElement, Bytes, Forms, Prints

(* The escapes that EscapeJsonString writes as two bytes.                  *)
LEMMA PrintsShort ==
  ASSUME NEW x \in DOMAIN String!ShortEscapes
  PROVE  /\ x \in 1..127
         /\ Prints(<<String!Backslash, String!ShortEscapes[x]>>, x)
  <1> DEFINE y == String!ShortEscapes[x]
             b == <<String!Backslash, y>>
             e == [text |-> b, unit |-> x]
             l == <<y, x>>
  <1>1. x \in {8, 12, 10, 13, 9, 34, 92}
    BY DEF String!ShortEscapes, String!Quote, String!Backslash
  <1>2. y = CASE x = 8 -> 98 [] x = 12 -> 102 [] x = 10 -> 110 [] x = 13 -> 114 [] x = 9 -> 116
              [] OTHER -> x
    BY <1>1 DEF String!ShortEscapes, String!Quote, String!Backslash
  <1>3. l \in String!EscapeLetters
    BY <1>1, <1>2 DEF String!EscapeLetters
  <1>4. y \in 0..255
    BY <1>1, <1>2
  <1> HIDE DEF y
  <1>5. b \in Seq(Bytes) /\ Len(b) = 2
    BY <1>4 DEF Bytes, String!Byte, String!Backslash
  <1>6. l[1] = y /\ l[2] = x
    OBVIOUS
  <1> HIDE DEF l, b
  <1>7. String!IsEscape(e)
    BY <1>3, <1>6 DEF String!IsEscape, b
  <1>8. x \in Int /\ x \notin String!HighSurrogates /\ x \in 1..127 /\ x # -1
    BY <1>1, HighAre
  <1>9. PrintLen(x) = 2
    BY <1>1 DEF PrintLen
  <1>10. Prints(b, x)
    BY <1>5, <1>8, <1>9, ShownIs, <1>7, PrintsForm, Zenon
  <1> QED BY <1>8, <1>10 DEF b, y

(* The characters that it writes as they are.                              *)
LEMMA PrintsCharacter ==
  ASSUME NEW b, NEW code, Spells(b, code), code >= 32, code \notin {34, 92}
  PROVE  Prints(b, code)
  <1> DEFINE e == [text |-> b, unit |-> code]
  <1>1. /\ b \in Seq(Bytes) /\ CharacterOf(Len(b), code) /\ code \in Int
        /\ code \notin String!HighSurrogates /\ code # -1
    BY SpellsCode, CodesAre DEF String!Surrogates
  <1>2. PrintLen(code) = Len(b)
    BY <1>1, PrintLenFits
  <1>3. e.text = b /\ e.unit = code
    OBVIOUS
  <1> HIDE DEF e
  <1>4. String!IsCharacter(e)
    BY <1>1, <1>3, CharacterIs
  <1>5. e = [text |-> b, unit |-> code]
    BY DEF e
  <1>6. code = Shown(code)
    BY <1>1, ShownIs
  <1> QED BY <1>1, <1>2, <1>4, <1>5, <1>6, PrintsForm

(* A digit is written as a letter that stands for it.                      *)
LEMMA HexLettersAre ==
  \A d \in 0..15 : String!HexLetter(d) \in String!HexDigits(d) /\ String!HexLetter(d) \in Bytes
  BY SMT DEF String!HexLetter, String!HexDigits, Bytes, String!Byte

(* The four hexadecimal digits of code.                                    *)
HexOf(code, x, y, z, v) ==
  /\ x \in 0..15 /\ y \in 0..15 /\ z \in 0..15 /\ v \in 0..15
  /\ x = (code \div 4096) % 16 /\ y = (code \div 256) % 16
  /\ z = (code \div 16) % 16 /\ v = (code \div 1) % 16

(* The escape of code is its digits behind a backslash and a u.            *)
LEMMA EscapedText ==
  ASSUME NEW code, NEW x, NEW y, NEW z, NEW v, HexOf(code, x, y, z, v)
  PROVE  LET b == String!UnicodeEscape(code)
         IN /\ b \in Seq(Bytes) /\ Len(b) = 6 /\ b[1] = 92 /\ b[2] = 117
            /\ b[3] = String!HexLetter(x) /\ b[4] = String!HexLetter(y)
            /\ b[5] = String!HexLetter(z) /\ b[6] = String!HexLetter(v)
  <1> DEFINE t == [i \in 1..4 |-> String!HexLetter((code \div <<4096, 256, 16, 1>>[i]) % 16)]
             a == <<92, 117>>
             b == a \o t
  <1>0. String!UnicodeEscape(code) = b
    BY SMT DEF String!UnicodeEscape, String!Backslash, String!LetterU
  <1>1. x \in 0..15 /\ y \in 0..15 /\ z \in 0..15 /\ v \in 0..15
    BY SMT DEF HexOf
  <1>2. /\ t = [i \in 1..4 |-> t[i]]
        /\ t[1] = String!HexLetter(x) /\ t[2] = String!HexLetter(y)
        /\ t[3] = String!HexLetter(z) /\ t[4] = String!HexLetter(v)
    BY DEF HexOf
  <1>3. a \in Seq(Bytes) /\ Len(a) = 2 /\ a[1] = 92 /\ a[2] = 117
    BY SMT DEF Bytes, String!Byte
  <1> HIDE DEF a, t
  <1>4. t[1] \in Bytes /\ t[2] \in Bytes /\ t[3] \in Bytes /\ t[4] \in Bytes
    BY <1>1, <1>2, HexLettersAre
  <1>5. t \in Seq(Bytes) /\ Len(t) = 4
    BY <1>4, <1>2
  <1>6. /\ b \in Seq(Bytes) /\ Len(b) = 6 /\ b[1] = a[1] /\ b[2] = a[2]
        /\ b[3] = t[1] /\ b[4] = t[2] /\ b[5] = t[3] /\ b[6] = t[4]
    <2>1. /\ Len(b) = Len(a) + Len(t)
          /\ \A i \in 1..Len(a) + Len(t) : b[i] = IF i <= Len(a) THEN a[i] ELSE t[i - Len(a)]
      <3>1. a \in Seq(Bytes) /\ t \in Seq(Bytes)
        BY <1>3, <1>5
      <3> QED BY <3>1, ConcatProperties
    <2>2. b \in Seq(Bytes)
      BY <1>3, <1>5
    <2> HIDE DEF b
    <2> QED BY <1>3, <1>5, <2>1, <2>2
  <1> HIDE DEF b
  <1> QED BY <1>0, <1>2, <1>3, <1>6, Zenon

(* Control characters, and bytes that stand for nothing, are code units.   *)
LEMMA PrintsNumber ==
  ASSUME NEW mark, mark = -1 \/ (mark \in 0..31 /\ mark \notin DOMAIN String!ShortEscapes)
  PROVE  Prints(String!UnicodeEscape(Shown(mark)), mark)
  <1> DEFINE code == Shown(mark)
             b == String!UnicodeEscape(code)
             e == [text |-> b, unit |-> code]
             x == (code \div 4096) % 16
             y == (code \div 256) % 16
             z == (code \div 16) % 16
             v == (code \div 1) % 16
  <1>1. code \in Int /\ 0 <= code /\ code <= 65535 /\ code \notin String!HighSurrogates
        /\ PrintLen(mark) = 6
    BY HighAre DEF String!ShortEscapes, String!Quote, String!Backslash, PrintLen, Shown
  <1> HIDE DEF code
  <1>2. /\ x \in 0..15 /\ y \in 0..15 /\ z \in 0..15 /\ v \in 0..15
        /\ code = (x * 4096) + (y * 256) + (z * 16) + v
    BY <1>1, SMT
  <1>3. /\ b \in Seq(Bytes) /\ Len(b) = 6 /\ b[1] = 92 /\ b[2] = 117
        /\ b[3] = String!HexLetter(x) /\ b[4] = String!HexLetter(y)
        /\ b[5] = String!HexLetter(z) /\ b[6] = String!HexLetter(v)
    BY <1>2, EscapedText DEF HexOf
  <1> HIDE DEF x, y, z, v, b
  <1>4. e.text = b /\ e.unit = code /\ e = [text |-> b, unit |-> code]
    OBVIOUS
  <1> HIDE DEF e
  <1>5. String!IsCodeUnit(e)
    <2>1. /\ b[3] \in String!HexDigits(x) /\ b[4] \in String!HexDigits(y)
          /\ b[5] \in String!HexDigits(z) /\ b[6] \in String!HexDigits(v)
      BY <1>2, <1>3, HexLettersAre
    <2> DEFINE Number(a, c, d, f) == (a * 4096) + (c * 256) + (d * 16) + f
               Reads(t, k) ==
                 \E a, c, d, f \in 0..15 :
                   /\ t[3] \in String!HexDigits(a) /\ t[4] \in String!HexDigits(c)
                   /\ t[5] \in String!HexDigits(d) /\ t[6] \in String!HexDigits(f)
                   /\ k = Number(a, c, d, f)
    <2>2. Reads(b, code)
      <3>1. code = Number(x, y, z, v)
        BY <1>2
      <3>2. x \in 0..15 /\ y \in 0..15 /\ z \in 0..15 /\ v \in 0..15
        BY <1>2
      <3> HIDE DEF Number
      <3> QED BY <2>1, <3>1, <3>2, Zenon
    <2>3. String!IsCodeUnit(e) <=> Len(e.text) = 6 /\ e.text[1] = 92 /\ e.text[2] = 117
                                   /\ Reads(e.text, e.unit)
      BY SMT DEF String!IsCodeUnit, String!Backslash, String!LetterU
    <2> HIDE DEF Reads
    <2> QED BY <1>3, <1>4, <2>2, <2>3
  <1>6. code = Shown(mark)
    BY DEF code
  <1>7. Prints(b, mark)
    <2>1. code \in Int /\ code \notin String!HighSurrogates /\ PrintLen(mark) = Len(b)
          /\ b \in Seq(Bytes)
      BY <1>1, <1>3, SMT
    <2> QED BY <1>4, <1>5, <1>6, <2>1, PrintsForm
  <1> QED BY <1>7 DEF b, code

(* EscapeJsonString writes b for the character that the n bytes at p are.  *)
Emits(s, p, b, n) ==
  /\ p + n \in 1..Len(s) + 1
  /\ \E mark \in Marks :
       /\ Prints(b, mark)
       /\ String!Characters(Rest(s, p)) = <<mark>> \o String!Characters(Rest(s, p + n))

(* When a well-formed sequence begins at p.                                *)
LEMMA EmitsFormed ==
  ASSUME NEW s \in Seq(Bytes), NEW p \in 1..Len(s), NEW n, WellFormed(s, p, n),
         NEW b, Prints(b, String!Scalar(s, p, n))
  PROVE  Emits(s, p, b, n)
  <1> DEFINE mark == String!Scalar(s, p, n)
  <1>1. p + n \in 1..Len(s) + 1
        /\ String!Characters(Rest(s, p)) = <<mark>> \o String!Characters(Rest(s, p + n))
    BY RestFirst
  <1>2. mark \in Marks
    BY ScalarIs DEF Marks, CharacterOf
  <1> HIDE DEF mark
  <1>3. Prints(b, mark)
    BY DEF mark
  <1> QED BY <1>1, <1>2, <1>3, Zenon DEF Emits

(* When none does: the byte is replaced.                                   *)
LEMMA EmitsNone ==
  ASSUME NEW s \in Seq(Bytes), NEW p \in 1..Len(s), \A n : ~ WellFormed(s, p, n)
  PROVE  Emits(s, p, String!UnicodeEscape(65533), 1)
  <1> DEFINE b == String!UnicodeEscape(Shown(-1))
  <1>1. String!Characters(Rest(s, p)) = <<-1>> \o String!Characters(Rest(s, p + 1))
    BY RestFirst
  <1>2. p + 1 \in 1..Len(s) + 1 /\ -1 \in Marks
    BY DEF Marks
  <1>3. Prints(b, -1)
    BY PrintsNumber
  <1>4. b = String!UnicodeEscape(65533)
    BY SMT DEF Shown
  <1> HIDE DEF b
  <1>5. Emits(s, p, b, 1)
    BY <1>1, <1>2, <1>3, Zenon DEF Emits
  <1> QED BY <1>4, <1>5, SMT

(* EscapeByte                                                              *)
LEMMA EmitsByte ==
  ASSUME NEW s \in Seq(Bytes), NEW p \in 1..Len(s), NEW x \in {s[p]}
  PROVE  /\ x \in DOMAIN String!ShortEscapes =>
              Emits(s, p, <<String!Backslash, String!ShortEscapes[x]>>, 1)
         /\ x < 32 /\ x \notin DOMAIN String!ShortEscapes =>
              Emits(s, p, String!UnicodeEscape(x), 1)
         /\ x \in 32..127 /\ x \notin DOMAIN String!ShortEscapes => Emits(s, p, <<x>>, 1)
  <1> DEFINE D == DOMAIN String!ShortEscapes
  <1>0. x \in Int /\ 0 <= x
    BY ByteIs
  <1>1. ASSUME NEW b, x \in 0..127, Prints(b, x) PROVE Emits(s, p, b, 1)
    <2>1. WellFormed(s, p, 1)
      <3>1. p + 1 - 1 <= Len(s)
        OBVIOUS
      <3> QED BY <1>1, <3>1, Zenon DEF WellFormed, One
    <2>2. String!Scalar(s, p, 1) = x
      BY SMT DEF String!Scalar
    <2> DEFINE n == 1
    <2>3. WellFormed(s, p, n) /\ Prints(b, String!Scalar(s, p, n))
      BY <1>1, <2>1, <2>2
    <2> HIDE DEF n
    <2>4. Emits(s, p, b, n)
      BY <2>3, EmitsFormed
    <2> QED BY <2>4 DEF n
  <1>2. ASSUME x \in D PROVE Emits(s, p, <<String!Backslash, String!ShortEscapes[x]>>, 1)
    <2> DEFINE b == <<String!Backslash, String!ShortEscapes[x]>>
    <2>1. x \in 1..127 /\ Prints(b, x)
      BY <1>2, PrintsShort
    <2> HIDE DEF b
    <2>2. x \in 0..127
      BY <2>1
    <2>3. Emits(s, p, b, 1)
      BY <1>1, <2>1, <2>2, Zenon
    <2> QED BY <2>3 DEF b
  <1>3. ASSUME x < 32, x \notin D PROVE Emits(s, p, String!UnicodeEscape(x), 1)
    <2>1. x \in 0..31 /\ x \in 0..127 /\ x # -1
      BY <1>0, <1>3
    <2>2. Prints(String!UnicodeEscape(Shown(x)), x)
      BY <1>3, <2>1, PrintsNumber
    <2>3. Shown(x) = x
      BY <2>1, ShownIs
    <2> QED BY <1>1, <2>1, <2>2, <2>3, Zenon
  <1>4. ASSUME x \in 32..127, x \notin D PROVE Emits(s, p, <<x>>, 1)
    <2>1. x \in 0..127 /\ x >= 32
      BY <1>4
    <2>2. x \notin {34, 92}
      BY <1>4 DEF String!ShortEscapes, String!Quote, String!Backslash
    <2>3. Spells(<<x>>, x)
      BY <2>1, SpellsOne
    <2> DEFINE b == <<x>>
    <2> HIDE DEF b
    <2>4. Prints(b, x)
      BY <2>1, <2>2, <2>3, PrintsCharacter DEF b
    <2> QED BY <1>1, <2>1, <2>4, Zenon DEF b
  <1> QED BY <1>2, <1>3, <1>4

(* EscapeSequence                                                          *)
LEMMA EmitsSequence ==
  ASSUME NEW s \in Seq(Bytes), NEW p \in 1..Len(s), s[p] >= 128,
         NEW n, n = String!ValidUtf8SequenceLength(s, p)
  PROVE  IF n = 0 THEN Emits(s, p, String!UnicodeEscape(65533), 1)
         ELSE Emits(s, p, SubSeq(s, p, p + n - 1), n)
  <1>1. \/ n = 0 /\ \A k : ~ WellFormed(s, p, k)
        \/ n \in 2..4 /\ WellFormed(s, p, n)
    BY ValidLength, Zenon
  <1>2. CASE n = 0 /\ \A k : ~ WellFormed(s, p, k)
    BY <1>2, EmitsNone, SMT
  <1>3. CASE n \in 2..4 /\ WellFormed(s, p, n)
    <2> DEFINE code == String!Scalar(s, p, n)
    <2>1. p \in 1..Len(s) + 1
      OBVIOUS
    <2>2. Spells(Taken(s, p, n), code)
      BY <1>3, <2>1, TakenSpells
    <2>3. code >= 128 /\ code \in Int
      BY <1>3, ScalarIs, CodesAre DEF CharacterOf
    <2> DEFINE b == Taken(s, p, n)
    <2>4. Prints(b, code)
      BY <2>3, <2>2, PrintsCharacter DEF b
    <2> HIDE DEF b
    <2>5. Emits(s, p, b, n)
      BY <1>3, <2>4, EmitsFormed
    <2>6. n # 0
      BY <1>3
    <2> QED BY <2>5, <2>6, SMT DEF b, Taken
  <1> QED BY <1>1, <1>2, <1>3

(* Characters as they are printed.                                         *)
Replaced(marks) == [i \in DOMAIN marks |-> Shown(marks[i])]

(* There are as many of them.                                              *)
LEMMA ReplacedType ==
  ASSUME NEW m \in Seq(Int)
  PROVE  /\ Replaced(m) \in Seq(Int) /\ Len(Replaced(m)) = Len(m)
         /\ \A i \in 1..Len(m) : Replaced(m)[i] = Shown(m[i])
  BY ShownIs DEF Replaced

(* None are printed as none.                                               *)
LEMMA ReplacedEmpty == Replaced(<<>>) = <<>>
  BY DEF Replaced

(* The first is printed first.                                             *)
LEMMA ReplacedFirst ==
  ASSUME NEW x \in Int, NEW m \in Seq(Int)
  PROVE  Replaced(<<x>> \o m) = <<Shown(x)>> \o Replaced(m)
  <1> DEFINE a == <<x>> \o m
             y == Shown(x)
             r == Replaced(m)
             b == <<y>> \o r
             n == Len(m)
  <1>1. /\ a \in Seq(Int) /\ Len(a) = 1 + n /\ n \in Nat /\ a[1] = x
        /\ \A i \in 1..n : a[1 + i] = m[i]
    OBVIOUS
  <1>2. r \in Seq(Int) /\ Len(r) = n /\ y \in Int /\ \A i \in 1..n : r[i] = Shown(m[i])
    BY ReplacedType, ShownIs
  <1> HIDE DEF r, y
  <1>3. b \in Seq(Int) /\ Len(b) = 1 + n /\ b[1] = y /\ \A i \in 1..n : b[1 + i] = r[i]
    BY <1>2
  <1>4. Replaced(a) \in Seq(Int) /\ Len(Replaced(a)) = 1 + n
        /\ \A i \in 1..1 + n : Replaced(a)[i] = Shown(a[i])
    BY <1>1, ReplacedType, Zenon
  <1> DEFINE c == Replaced(a)
  <1> HIDE DEF a, b, c, n
  <1>5. \A i \in 1..1 + n : c[i] = b[i]
    <2> SUFFICES ASSUME NEW i \in 1..1 + n PROVE c[i] = b[i]
      OBVIOUS
    <2>1. CASE i = 1
      BY <1>1, <1>3, <1>4, <2>1 DEF c, y
    <2>2. CASE i # 1
      <3> DEFINE j == i - 1
      <3>1. j \in 1..n /\ i = 1 + j
        BY <1>1, <2>2
      <3> HIDE DEF j
      <3> QED BY <1>1, <1>2, <1>3, <1>4, <3>1 DEF c
    <2> QED BY <2>1, <2>2
  <1>6. c = b
    BY <1>3, <1>4, <1>5, SeqEqual DEF c
  <1> QED BY <1>6 DEF a, b, c, r, y

(* What a string may hold is printed as it is.                             *)
LEMMA ReplacedGood ==
  ASSUME NEW c \in Seq(Int), Good(c)
  PROVE  Replaced(c) = c
  <1>1. \A i \in 1..Len(c) : c[i] \in Int /\ c[i] > 0
    BY DEF Good
  <1>2. \A i \in 1..Len(c) : Shown(c[i]) = c[i]
    BY <1>1, ShownIs
  <1>3. /\ Replaced(c) \in Seq(Int) /\ Len(Replaced(c)) = Len(c)
        /\ \A i \in 1..Len(c) : Replaced(c)[i] = Shown(c[i])
    BY ReplacedType
  <1> DEFINE d == Replaced(c)
  <1> HIDE DEF d
  <1>4. d \in Seq(Int) /\ Len(d) = Len(c) /\ \A i \in 1..Len(d) : d[i] = c[i]
    BY <1>2, <1>3 DEF d
  <1>5. d = c
    BY <1>4, SeqEqual
  <1> QED BY <1>5 DEF d

(* What is printed may be read again, unless there is a NUL.               *)
LEMMA ReplacedIsGood ==
  ASSUME NEW m \in Seq(Marks)
  PROVE  Good(Replaced(m)) <=> \A i \in 1..Len(m) : m[i] # 0
  <1>0. \A x \in Marks : x \in Int /\ (Shown(x) > 0 /\ Shown(x) \notin String!Surrogates <=> x # 0)
    BY CodesAre, ShownIs DEF Shown, Codes, Marks
  <1>1. m \in Seq(Int) /\ \A i \in 1..Len(m) : m[i] \in Marks
    BY <1>0, WiderSeq
  <1>2. /\ Len(Replaced(m)) = Len(m)
        /\ \A i \in 1..Len(m) : Replaced(m)[i] = Shown(m[i])
    BY <1>1, ReplacedType
  <1> DEFINE d == Replaced(m)
  <1> HIDE DEF d
  <1>3. Good(d) <=> \A i \in 1..Len(m) : Shown(m[i]) > 0 /\ Shown(m[i]) \notin String!Surrogates
    BY <1>2 DEF Good, d
  <1>4. Good(d) <=> \A i \in 1..Len(m) : m[i] # 0
    BY <1>0, <1>1, <1>3, Zenon
  <1> QED BY <1>4 DEF d

-----------------------------------------------------------------------------
(* Strings: the invariant, and what keeps it                               *)

(* What a task asks for, whether its text is complete, and how long the    *)
(* text may be that stands for it.                                         *)
Wanted(k) ==
  IF k.kind = "write" THEN Replaced(String!Characters(k.value))
  ELSE String!Meaning(k.text.elements)

(* The task is one that a string can be made of: its text is not cut off.  *)
Possible(k) == k.kind = "read" => k.text.cut = Len(String!TextOf(k.text.elements))

(* There are at least n bytes to be read.                                  *)
Within(k, n) == k.kind = "read" => k.text.cut \in Nat /\ n <= k.text.cut

(* What is printed so far and what is left stand for what is wanted.       *)
AtPrinting(k, s, p, o) ==
  /\ Possible(k)
  /\ \E es, c : /\ Means(es, c) /\ o = Spelling(es)
                /\ c \o Replaced(String!Characters(Rest(s, p))) = Wanted(k)
  /\ Within(k, Len(o) + Cost(String!Characters(Rest(s, p))) + 2)

(* The input begins the text of elements that mean what is wanted.         *)
AtOpening(k, s) ==
  /\ \E todo \in Seq(Forms) :
       /\ Along(s, 1, String!Quoted(Spelling(todo)), 1)
       /\ String!Meaning(todo) = Wanted(k)
       /\ Possible(k) <=> Len(s) = Len(String!Quoted(Spelling(todo)))
  /\ Within(k, Len(s))

(* What is read stands for c, and what is left begins the text of todo.    *)
Parsed(k, s, p, o, todo, c) ==
  /\ Along(s, p, Until(todo), 1)
  /\ Possible(k) <=> Left(s, p) = Len(Until(todo))
  /\ Opens(o, c) /\ Good(c) /\ Cost(c) + 2 <= p
  /\ c \o String!Meaning(todo) = Wanted(k)

(* What is read, and what is left, are such that for some c and todo.      *)
AtReading(k, s, p, o) ==
  /\ \E todo \in Seq(Forms), c \in Seq(Int) : Parsed(k, s, p, o, todo, c)
  /\ Within(k, Len(s))

(* What is read is what is wanted, which a string may hold.                *)
AtAccepted(k, o) ==
  /\ Possible(k) /\ Good(Wanted(k)) /\ Opens(o, Wanted(k))
  /\ Within(k, Cost(Wanted(k)) + 2)

(* There is nothing to be accepted.                                        *)
AtRejected(k) == ~ (Possible(k) /\ Good(Wanted(k)))

(* The same number of bytes, written otherwise.                            *)
LEMMA Withins ==
  ASSUME NEW k, NEW m, NEW n, Within(k, n), m = n
  PROVE  Within(k, m)
  BY DEF Within

(* EscapeByte, EscapeSequence                                              *)
LEMMA PrintingMoves ==
  ASSUME NEW k, NEW s \in Seq(Bytes), NEW p \in 1..Len(s), NEW o, AtPrinting(k, s, p, o),
         NEW b, NEW n, Emits(s, p, b, n)
  PROVE  AtPrinting(k, s, p + n, o \o b) /\ o \o b \in Seq(Bytes)
  <1>1. PICK mark \in Marks :
          /\ Prints(b, mark)
          /\ String!Characters(Rest(s, p)) = <<mark>> \o String!Characters(Rest(s, p + n))
    BY Zenon DEF Emits
  <1>2. PICK es, c : /\ Means(es, c) /\ o = Spelling(es)
                     /\ c \o Replaced(String!Characters(Rest(s, p))) = Wanted(k)
    BY Zenon DEF AtPrinting
  <1>3. PICK e \in Forms : /\ e.text = b /\ e.unit = Shown(mark)
                           /\ e.unit \notin String!HighSurrogates
    BY <1>1, Zenon DEF Prints
  <1> DEFINE code == Shown(mark)
             rest == String!Characters(Rest(s, p + n))
             fs == es \o <<e>>
             d == c \o <<code>>
  <1>4. mark \in Int /\ code \in Int
    BY CodesAre, ShownIs DEF Marks
  <1>5. rest \in Seq(Int) /\ p \in 1..Len(s) + 1 /\ p + n \in 1..Len(s) + 1
    BY RestIs, CharactersType DEF Emits
  <1>6. Means(fs, d)
    BY <1>2, <1>3, MeansMore
  <1>7. es \in Seq(Forms) /\ c \in Seq(Int) /\ fs = Append(es, e)
    BY <1>2 DEF Means
  <1>8. o \o b = Spelling(fs) /\ o \o b \in Seq(Bytes) /\ Len(o \o b) = Len(o) + Len(b)
        /\ Len(o) \in Nat /\ Len(b) \in Nat
    <2>1. o \in Seq(Bytes) /\ Spelling(Append(es, e)) = o \o b /\ b \in Seq(Bytes)
      BY <1>2, <1>3, <1>7, SpellingMore, FormIs
    <2>2. o \o b \in Seq(Bytes) /\ Len(o \o b) = Len(o) + Len(b) /\ Len(o) \in Nat /\ Len(b) \in Nat
      BY <2>1
    <2>3. o \o b = Spelling(fs)
      BY <1>7, <2>1, Zenon
    <2> QED BY <2>2, <2>3
  <1> HIDE DEF code, rest, fs, d
  <1>9. d \o Replaced(rest) = Wanted(k)
    <2> DEFINE r == Replaced(rest)
    <2>1. r \in Seq(Int) /\ Replaced(<<mark>> \o rest) = <<code>> \o r
      BY <1>4, <1>5, ReplacedType, ReplacedFirst DEF code
    <2> HIDE DEF r
    <2>2. <<code>> \in Seq(Int)
      BY <1>4
    <2>3. Joins(Int, c, <<code>>, r)
      BY <1>7, <2>1, <2>2, Joined
    <2>4. c \o (<<code>> \o r) = Wanted(k)
      BY <1>1, <1>2, <2>1 DEF rest
    <2> QED BY <2>3, <2>4, Zenon DEF Joins, Associates, d, r
  <1>10. Within(k, Len(o \o b) + Cost(rest) + 2)
    <2>1. Within(k, Len(o) + Cost(<<mark>> \o rest) + 2)
      BY <1>1, Zenon DEF AtPrinting, rest
    <2>2. Cost(<<mark>> \o rest) = Len(b) + Cost(rest) /\ Cost(rest) \in Nat
      BY <1>1, <1>4, <1>5, CostFirst DEF Prints
    <2>3. Len(o \o b) + Cost(rest) + 2 = Len(o) + Cost(<<mark>> \o rest) + 2
      BY <1>8, <2>2
    <2> QED BY <2>1, <2>3, Withins
  <1> QED BY <1>6, <1>8, <1>9, <1>10, Zenon DEF AtPrinting, rest

(* EscapeEnds                                                              *)
LEMMA PrintingEnds ==
  ASSUME NEW k, NEW s \in Seq(Bytes), NEW o, AtPrinting(k, s, Len(s) + 1, o)
  PROVE  AtOpening(k, String!Quoted(o)) /\ String!Quoted(o) \in Seq(Bytes)
  <1> DEFINE p == Len(s) + 1
             t == String!Quoted(o)
  <1>1. PICK es, c : /\ Means(es, c) /\ o = Spelling(es)
                     /\ c \o Replaced(String!Characters(Rest(s, p))) = Wanted(k)
    BY Zenon DEF AtPrinting
  <1>2. es \in Seq(Forms) /\ c \in Seq(Int) /\ o \in Seq(Bytes)
    BY <1>1, SpellingIsType DEF Means
  <1>3. String!Characters(Rest(s, p)) = <<>>
    BY RestEmpty, CharactersEmpty
  <1>4. String!Meaning(es) = Wanted(k)
    <2>1. String!Meaning(es) = c
      BY <1>1, MeansAll
    <2>2. c \o <<>> = c
      BY <1>2
    <2> QED BY <1>1, <1>3, <2>1, <2>2, ReplacedEmpty
  <1>5. /\ t \in Seq(Bytes) /\ Len(t) = Len(o) + 2 /\ Len(o) \in Nat
    <2>1. 34 \in Bytes
      BY ByteIs
    <2> QED BY <1>2, <2>1 DEF String!Quoted, String!Quote
  <1>6. Within(k, Len(t)) /\ Possible(k)
    BY <1>3, CostEmpty, <1>5 DEF AtPrinting
  <1> HIDE DEF t
  <1>7. Along(t, 1, t, 1)
    BY <1>5 DEF Along, Left
  <1> QED BY <1>1, <1>2, <1>4, <1>5, <1>6, <1>7, Zenon DEF AtOpening, t

(* PrintAgain                                                              *)
LEMMA PrintingAgain ==
  ASSUME NEW k, NEW o, AtAccepted(k, o)
  PROVE  AtPrinting(k, o, 1, <<>>) /\ o \in Seq(Bytes)
  <1> DEFINE c == Wanted(k)
  <1>1. /\ Possible(k) /\ Good(c) /\ Opens(o, c) /\ Within(k, Cost(c) + 2)
        /\ o \in Seq(Bytes) /\ c \in Seq(Int)
    BY Zenon DEF AtAccepted, Opens
  <1> HIDE DEF c
  <1>2. String!Characters(Rest(o, 1)) = c
    BY <1>1, RestFull, OpensAll
  <1>3. Replaced(c) = c /\ <<>> \o c = c
    BY <1>1, ReplacedGood
  <1>4. Means(<<>>, <<>>) /\ Spelling(<<>>) = <<>>
    BY MeansEmpty, SpellingEmpty
  <1>5. Within(k, Len(<<>>) + Cost(c) + 2)
    BY <1>1, CostMore
  <1> QED BY <1>1, <1>2, <1>3, <1>4, <1>5, Zenon DEF AtPrinting, c

(* ParseByte, ParseSequence, ParseEscape, ParseUnicodeEscape               *)
LEMMA ReadingMoves ==
  ASSUME NEW k, NEW s, NEW p, NEW o, NEW todo \in Seq(Forms), NEW c \in Seq(Int),
         Parsed(k, s, p, o, todo, c), Within(k, Len(s)), NEW b, NEW n, Advances(s, p, todo, b, n)
  PROVE  AtReading(k, s, p + n, o \o b) /\ o \o b \in Seq(Bytes) /\ p + n \in 1..Len(s) + 1
  <1>1. PICK r \in Seq(Forms), code \in Codes :
          /\ code > 0 /\ n \in Nat /\ 1 <= n /\ n <= Left(s, p)
          /\ Along(s, p + n, Until(r), 1) /\ Len(Until(todo)) = n + Len(Until(r))
          /\ Left(s, p + n) = Left(s, p) - n
          /\ String!Meaning(todo) = <<code>> \o String!Meaning(r)
          /\ Spells(b, code) /\ PrintLen(code) <= n
    BY Zenon DEF Advances
  <1> DEFINE d == c \o <<code>>
             q == p + n
             m == String!Meaning(r)
             l == Len(Until(r))
             left == Left(s, p)
  <1>2. code \in Int /\ code \notin String!Surrogates /\ m \in Seq(Int)
        /\ l \in Nat /\ left \in Nat /\ p \in Nat
    BY AlongBytes, CodesAre, MeaningIs, UntilIs DEF Parsed
  <1>3. Opens(o \o b, d) /\ o \o b \in Seq(Bytes)
    <2>1. Opens(o \o b, d)
      BY <1>1, <1>2, OpensMore DEF Parsed
    <2> QED BY <2>1, Zenon DEF Opens
  <1>4. Good(d) /\ d \in Seq(Int)
    <2>1. Good(<<code>>) /\ <<code>> \in Seq(Int)
      BY <1>1, <1>2, GoodOne
    <2> DEFINE a == <<code>>
    <2> HIDE DEF a
    <2>2. Good(c \o a)
      BY <2>1, GoodConcat DEF Parsed, a
    <2>3. c \o a \in Seq(Int)
      BY <2>1 DEF a
    <2> QED BY <2>2, <2>3 DEF a
  <1>5. Cost(d) + 2 <= q
    <2>1. d = Append(c, code)
      OBVIOUS
    <2>2. Cost(d) = Cost(c) + PrintLen(code) /\ Cost(c) \in Nat
      BY <1>2, <2>1, CostMore
    <2>3. Cost(c) + 2 <= p
      BY Zenon DEF Parsed
    <2>4. PrintLen(code) \in Nat
      BY <1>2, PrintLenIs
    <2>5. PrintLen(code) <= n /\ n \in Nat /\ p \in Nat
      BY <1>1, <1>2
    <2> DEFINE x == Cost(c)
               y == PrintLen(code)
    <2> HIDE DEF x, y
    <2>6. (x + y) + 2 <= q
      BY <2>2, <2>3, <2>4, <2>5 DEF x, y
    <2> HIDE DEF d, q
    <2> QED BY <2>2, <2>6 DEF x, y
  <1>6. d \o m = Wanted(k)
    <2>1. <<code>> \in Seq(Int)
      BY <1>2
    <2> HIDE DEF m
    <2>2. Joins(Int, c, <<code>>, m)
      BY <1>2, <2>1, Joined
    <2>3. c \o (<<code>> \o m) = Wanted(k)
      BY <1>1 DEF Parsed, m
    <2> QED BY <2>2, <2>3, Zenon DEF Joins, Associates
  <1>7. Possible(k) <=> Left(s, q) = l
    <2>1. Possible(k) <=> left = n + l
      BY <1>1 DEF Parsed
    <2>2. Left(s, q) = left - n /\ n \in Nat
      BY <1>1
    <2> HIDE DEF left, l
    <2> QED BY <1>2, <2>1, <2>2
  <1>8. q \in 1..Len(s) + 1 /\ Along(s, q, Until(r), 1)
    BY <1>1 DEF Along
  <1> HIDE DEF d, q, m, l, left
  <1>9. Parsed(k, s, q, o \o b, r, d)
    BY <1>3, <1>4, <1>5, <1>6, <1>7, <1>8, Zenon DEF Parsed, m, l
  <1> QED BY <1>3, <1>4, <1>8, <1>9, Zenon DEF AtReading, q

(* Where the parser refuses: a text without hope stands for nothing.       *)
LEMMA ReadingStops ==
  ASSUME NEW k, NEW s, NEW p, NEW o, NEW todo \in Seq(Forms), NEW c \in Seq(Int),
         Parsed(k, s, p, o, todo, c), Hopeless(s, p, todo)
  PROVE  AtRejected(k)
  <1>1. CASE Left(s, p) < Len(Until(todo))
    BY AlongBytes, <1>1 DEF Parsed, AtRejected
  <1>2. CASE ~ Good(String!Meaning(todo))
    <2> DEFINE m == String!Meaning(todo)
    <2>1. m \in Seq(Int)
      BY MeaningIs
    <2> HIDE DEF m
    <2>2. ~ Good(c \o m)
      BY <1>2, <2>1, GoodConcat DEF m
    <2>3. c \o m = Wanted(k)
      BY DEF Parsed, m
    <2> QED BY <2>2, <2>3 DEF AtRejected
  <1> QED BY <1>1, <1>2 DEF Hopeless

(* What is ahead: the quote or an element.                                 *)
QuoteAhead(s, p, todo) ==
  /\ todo = <<>> /\ Len(Until(todo)) = 1 /\ Left(s, p) <= 1
  /\ 1 <= Left(s, p) => s[p] = 34
ElementAhead(s, p, todo) ==
  \E e \in Forms, r \in Seq(Forms) : todo = <<e>> \o r /\ Ahead(s, p, e, r)

(* There is nothing else.                                                  *)
LEMMA ReadingAhead ==
  ASSUME NEW k, NEW s, NEW p, NEW o, NEW todo \in Seq(Forms), NEW c \in Seq(Int),
         Parsed(k, s, p, o, todo, c)
  PROVE  QuoteAhead(s, p, todo) \/ ElementAhead(s, p, todo)
  <1>1. Along(s, p, Until(todo), 1)
    BY Zenon DEF Parsed
  <1>2. CASE todo = <<>>
    <2>1. Until(todo) = <<34>>
      BY <1>2, UntilNone
    <2> DEFINE u == Until(todo)
    <2>2. Len(u) = 1 /\ u[1] = 34
      BY <2>1
    <2> HIDE DEF u
    <2>3. Left(s, p) <= Left(u, 1) /\ (1 <= Left(s, p) => s[p] = 34)
      BY <1>1, <2>2, AlongBytes DEF u
    <2>4. Left(u, 1) = 1
      BY <2>2 DEF Left
    <2> QED BY <1>2, <2>2, <2>3, <2>4 DEF u, QuoteAhead
  <1>3. CASE todo # <<>>
    BY <1>3, FirstAndRest, <1>1, Zenon DEF Ahead, ElementAhead
  <1> QED BY <1>2, <1>3

(* The parser takes n bytes for b.                                         *)
Moves(k, s, p, o, b, n) ==
  AtReading(k, s, p + n, o \o b) /\ o \o b \in Seq(Bytes) /\ p + n \in 1..Len(s) + 1

(* The element e is ahead, and reading it does what it should.             *)
Faces(k, s, p, o, e, r) ==
  /\ Ahead(s, p, e, r)
  /\ \A b, n : Advances(s, p, <<e>> \o r, b, n) => Moves(k, s, p, o, b, n)
  /\ Hopeless(s, p, <<e>> \o r) => AtRejected(k)

(* Where there is no quote, there is an element.                           *)
LEMMA ReadingNext ==
  ASSUME NEW k, NEW s, NEW p, NEW o, AtReading(k, s, p, o)
  PROVE  1 <= Left(s, p) /\ s[p] # 34 =>
           \E e \in Forms, r \in Seq(Forms) : Faces(k, s, p, o, e, r)
  <1>0. SUFFICES ASSUME 1 <= Left(s, p), s[p] # 34
                 PROVE  \E e \in Forms, r \in Seq(Forms) : Faces(k, s, p, o, e, r)
    OBVIOUS
  <1>1. PICK todo \in Seq(Forms), c \in Seq(Int) : Parsed(k, s, p, o, todo, c)
    BY Zenon DEF AtReading
  <1>2. PICK e \in Forms, r \in Seq(Forms) : todo = <<e>> \o r /\ Ahead(s, p, e, r)
    <2>1. QuoteAhead(s, p, todo) \/ ElementAhead(s, p, todo)
      BY <1>1, ReadingAhead
    <2>2. ~ QuoteAhead(s, p, todo)
      BY <1>0, Zenon DEF QuoteAhead
    <2> QED BY <2>1, <2>2, Zenon DEF ElementAhead
  <1>3. ASSUME NEW b, NEW n, Advances(s, p, todo, b, n) PROVE Moves(k, s, p, o, b, n)
    BY <1>1, <1>3, ReadingMoves DEF AtReading, Moves
  <1>4. ASSUME Hopeless(s, p, todo) PROVE AtRejected(k)
    BY <1>1, <1>4, ReadingStops
  <1>5. Faces(k, s, p, o, e, r)
    BY <1>2, <1>3, <1>4, Zenon DEF Faces
  <1> QED BY <1>5

(* The parser does not read behind the end.                                *)
LEMMA ReadingLeft ==
  ASSUME NEW k, NEW s, NEW p, NEW o, AtReading(k, s, p, o)
  PROVE  /\ s \in Seq(Bytes) /\ p \in 1..Len(s) + 1 /\ Len(s) \in Nat
         /\ Left(s, p) \in Nat /\ Left(s, p) = (Len(s) + 1) - p
  BY AlongBytes DEF AtReading, Parsed, Along, Left

(* ParseUnterminated                                                       *)
LEMMA ReadingCut ==
  ASSUME NEW k, NEW s, NEW p, NEW o, AtReading(k, s, p, o),
         p > Len(s) \/ (p = Len(s) /\ s[p] = 92)
  PROVE  AtRejected(k)
  <1>0. /\ s \in Seq(Bytes) /\ p \in 1..Len(s) + 1 /\ Len(s) \in Nat
        /\ Left(s, p) \in Nat /\ Left(s, p) = (Len(s) + 1) - p
    BY ReadingLeft
  <1>1. CASE p > Len(s)
    BY <1>0, <1>1, UntilIs, ReadingStops DEF AtReading, Hopeless
  <1>2. CASE p = Len(s) /\ s[p] = 92
    <2>1. Left(s, p) = 1
      BY <1>0, <1>2
    <2>2. PICK e \in Forms, r \in Seq(Forms) : Faces(k, s, p, o, e, r)
      BY <1>2, <2>1, ReadingNext
    <2>3. Hopeless(s, p, <<e>> \o r)
      <3>1. Ahead(s, p, e, r) /\ 1 <= Left(s, p) /\ s[p] = 92 /\ Left(s, p) <= 1
        BY <1>2, <2>1, <2>2 DEF Faces
      <3> QED BY <3>1, EscapeAhead
    <2> QED BY <2>2, <2>3, Zenon DEF Faces
  <1> QED BY <1>1, <1>2

(* Fewer bytes are within, too.                                            *)
LEMMA WithinLess ==
  ASSUME NEW k, NEW m \in Int, NEW n \in Int, Within(k, n), NEW p \in Int, m <= p, p <= n
  PROVE  Within(k, m)
  BY DEF Within

(* ParseClose                                                              *)
LEMMA ReadingEnds ==
  ASSUME NEW k, NEW s, NEW p, NEW o, AtReading(k, s, p, o), p <= Len(s), s[p] = 34
  PROVE  AtAccepted(k, o)
  <1>0. /\ s \in Seq(Bytes) /\ p \in 1..Len(s) + 1 /\ Len(s) \in Nat
        /\ Left(s, p) \in Nat /\ Left(s, p) = (Len(s) + 1) - p
    BY ReadingLeft
  <1>1. PICK todo \in Seq(Forms), c \in Seq(Int) : Parsed(k, s, p, o, todo, c)
    BY Zenon DEF AtReading
  <1>2. 1 <= Left(s, p)
    BY <1>0
  <1>3. todo = <<>> /\ Len(Until(todo)) = 1 /\ Left(s, p) <= 1
    <2>1. ASSUME NEW e \in Forms, NEW r \in Seq(Forms), Ahead(s, p, e, r) PROVE FALSE
      BY <1>2, <2>1, ByteAhead
    <2>2. QuoteAhead(s, p, todo) \/ ElementAhead(s, p, todo)
      BY <1>1, ReadingAhead
    <2> QED BY <2>1, <2>2, Zenon DEF QuoteAhead, ElementAhead
  <1>4. c = Wanted(k)
    <2>1. c \o <<>> = c
      OBVIOUS
    <2>2. c \o String!Meaning(todo) = Wanted(k)
      BY <1>1, Zenon DEF Parsed
    <2> QED BY <1>3, <2>1, <2>2, MeaningEmpty
  <1>5. Possible(k)
    <2>1. Left(s, p) = Len(Until(todo))
      <3> DEFINE l == Left(s, p)
                 m == Len(Until(todo))
      <3>1. l \in Nat /\ 1 <= l /\ l <= 1 /\ m = 1
        BY <1>0, <1>2, <1>3, Zenon
      <3> HIDE DEF l, m
      <3>2. l = m
        BY <3>1
      <3> QED BY <3>2 DEF l, m
    <2> QED BY <1>1, <2>1, Zenon DEF Parsed
  <1>6. Within(k, Cost(c) + 2)
    <2>1. Cost(c) + 2 <= p
      BY <1>1, Zenon DEF Parsed
    <2>2. Cost(c) \in Nat
      BY CostMore
    <2>3. Within(k, Len(s))
      BY Zenon DEF AtReading
    <2> DEFINE x == Cost(c) + 2
               l == Len(s)
    <2>4. x \in Int /\ l \in Int /\ x <= p /\ p \in Int /\ p <= l
      BY <1>0, <2>1, <2>2
    <2>5. Within(k, l)
      BY <2>3
    <2> HIDE DEF x, l
    <2>6. Within(k, x)
      BY <2>4, <2>5, WithinLess
    <2> QED BY <2>6 DEF x
  <1>7. Opens(o, c) /\ Good(c)
    BY <1>1, Zenon DEF Parsed
  <1> QED BY <1>4, <1>5, <1>6, <1>7, Zenon DEF AtAccepted

(* The element ahead, at a byte that is no quote.                          *)
LEMMA ReadingFaces ==
  ASSUME NEW k, NEW s, NEW p, NEW o, AtReading(k, s, p, o), p <= Len(s), s[p] # 34
  PROVE  /\ 1 <= Left(s, p)
         /\ \E e \in Forms, r \in Seq(Forms) : Faces(k, s, p, o, e, r)
  BY ReadingLeft, ReadingNext

(* ParseByte                                                               *)
LEMMA ReadingByte ==
  ASSUME NEW k, NEW s, NEW p, NEW o, AtReading(k, s, p, o), p <= Len(s), s[p] # 34
  PROVE  /\ s[p] \in 32..127 \ {34, 92} => Moves(k, s, p, o, <<s[p]>>, 1)
         /\ s[p] < 32 => AtRejected(k)
  BY ReadingFaces, ByteAhead, Zenon DEF Faces

(* ParseSequence                                                           *)
LEMMA ReadingSequence ==
  ASSUME NEW k, NEW s, NEW p, NEW o, AtReading(k, s, p, o), p <= Len(s), s[p] >= 128,
         NEW n, n = String!ValidUtf8SequenceLength(s, p)
  PROVE  IF n = 0 THEN AtRejected(k) ELSE Moves(k, s, p, o, SubSeq(s, p, p + n - 1), n)
  <1>1. 1 <= Left(s, p) /\ s[p] # 34
    BY ReadingFaces
  <1>2. PICK e \in Forms, r \in Seq(Forms) : Faces(k, s, p, o, e, r)
    BY <1>1, ReadingFaces
  <1>3. Ahead(s, p, e, r)
    BY <1>2, Zenon DEF Faces
  <1>4. /\ \A m : WellFormed(s, p, m) => Advances(s, p, <<e>> \o r, Taken(s, p, m), m)
        /\ (\A m : ~ WellFormed(s, p, m)) => Hopeless(s, p, <<e>> \o r)
    BY <1>1, <1>3, SequenceAhead
  <1>5. \/ n = 0 /\ \A m : ~ WellFormed(s, p, m)
        \/ n \in 2..4 /\ WellFormed(s, p, n)
    BY ReadingLeft, ValidLength
  <1>6. CASE n = 0 /\ \A m : ~ WellFormed(s, p, m)
    BY <1>2, <1>4, <1>6, Zenon DEF Faces
  <1>7. CASE n \in 2..4 /\ WellFormed(s, p, n)
    BY <1>7, <1>2, <1>4 DEF Faces, Taken
  <1> QED BY <1>5, <1>6, <1>7

(* ParseEscape, ParseUnicodeEscape                                         *)
LEMMA ReadingEscape ==
  ASSUME NEW k, NEW s, NEW p, NEW o, AtReading(k, s, p, o), p <= Len(s), s[p] = 92
  PROVE  /\ p < Len(s) /\ s[p + 1] \in DOMAIN String!Unescaped =>
              Moves(k, s, p, o, <<String!Unescaped[s[p + 1]]>>, 2)
         /\ p < Len(s) /\ s[p + 1] \notin DOMAIN String!Unescaped /\ s[p + 1] # 117 => AtRejected(k)
         /\ p < Len(s) /\ s[p + 1] = 117 =>
              LET x == String!EscapedCodePoint(s, p + 2)
              IN IF x.code > 0 THEN Moves(k, s, p, o, String!Encode(x.code), 2 + x.length)
                 ELSE AtRejected(k)
  <1>1. 1 <= Left(s, p) /\ s[p] # 34 /\ (p < Len(s) => 2 <= Left(s, p))
    BY ReadingFaces, ReadingLeft
  <1>2. PICK e \in Forms, r \in Seq(Forms) : Faces(k, s, p, o, e, r)
    BY <1>1, ReadingFaces
  <1>3. Ahead(s, p, e, r)
    BY <1>2, Zenon DEF Faces
  <1>4. /\ 2 <= Left(s, p) /\ s[p + 1] \in DOMAIN String!Unescaped =>
             Advances(s, p, <<e>> \o r, <<String!Unescaped[s[p + 1]]>>, 2)
        /\ 2 <= Left(s, p) /\ s[p + 1] \notin DOMAIN String!Unescaped /\ s[p + 1] # 117 =>
             Hopeless(s, p, <<e>> \o r)
    BY <1>1, <1>3, EscapeAhead
  <1>5. 2 <= Left(s, p) /\ s[p + 1] = 117 =>
          EscapedIs(String!EscapedCodePoint(s, p + 2), s, p, <<e>> \o r)
    BY <1>1, <1>3, UnicodeAhead
  <1> DEFINE x == String!EscapedCodePoint(s, p + 2)
  <1>6. EscapedIs(x, s, p, <<e>> \o r) =>
          IF x.code > 0 THEN Moves(k, s, p, o, String!Encode(x.code), 2 + x.length)
          ELSE AtRejected(k)
    BY <1>2 DEF Faces, EscapedIs
  <1> HIDE DEF x
  <1>7. p < Len(s) /\ s[p + 1] = 117 =>
          IF x.code > 0 THEN Moves(k, s, p, o, String!Encode(x.code), 2 + x.length)
          ELSE AtRejected(k)
    BY <1>1, <1>5, <1>6, Zenon DEF x
  <1>8. /\ p < Len(s) /\ s[p + 1] \in DOMAIN String!Unescaped =>
              Moves(k, s, p, o, <<String!Unescaped[s[p + 1]]>>, 2)
        /\ p < Len(s) /\ s[p + 1] \notin DOMAIN String!Unescaped /\ s[p + 1] # 117 => AtRejected(k)
    <2>1. ASSUME p < Len(s), s[p + 1] \in DOMAIN String!Unescaped
          PROVE  Moves(k, s, p, o, <<String!Unescaped[s[p + 1]]>>, 2)
      <3> DEFINE b == <<String!Unescaped[s[p + 1]]>>
      <3> HIDE DEF b
      <3>1. Advances(s, p, <<e>> \o r, b, 2)
        BY <1>1, <1>4, <2>1, Zenon DEF b
      <3>2. Moves(k, s, p, o, b, 2)
        BY <1>2, <3>1, Zenon DEF Faces
      <3> QED BY <3>2 DEF b
    <2>2. ASSUME p < Len(s), s[p + 1] \notin DOMAIN String!Unescaped, s[p + 1] # 117
          PROVE  AtRejected(k)
      BY <1>1, <1>2, <1>4, <2>2, Zenon DEF Faces
    <2> QED BY <2>1, <2>2, Zenon
  <1> QED BY <1>7, <1>8, Zenon DEF x

(* ParseOpen                                                               *)
LEMMA OpeningIs ==
  ASSUME NEW k, NEW s, AtOpening(k, s)
  PROVE  /\ s \in Seq(Bytes)
         /\ 1 <= Len(s) => s[1] = 34 /\ AtReading(k, s, 2, <<>>)
         /\ Len(s) < 1 => AtRejected(k)
  <1>1. PICK todo \in Seq(Forms) :
          /\ Along(s, 1, String!Quoted(Spelling(todo)), 1)
          /\ String!Meaning(todo) = Wanted(k)
          /\ Possible(k) <=> Len(s) = Len(String!Quoted(Spelling(todo)))
    BY Zenon DEF AtOpening
  <1> DEFINE a == <<34>>
             u == Until(todo)
             w == a \o u
  <1>2. a \in Seq(Bytes) /\ Len(a) = 1 /\ a[1] = 34 /\ u \in Seq(Bytes) /\ Len(u) \in Nat
    BY ByteIs, UntilIs
  <1>3. w = String!Quoted(Spelling(todo))
    <2> DEFINE v == Spelling(todo)
    <2>1. v \in Seq(Bytes)
      BY SpellingIsType
    <2> HIDE DEF v, a
    <2>2. (a \o v) \o a = a \o (v \o a)
      <3>1. Joins(Bytes, a, v, a)
        BY <1>2, <2>1, Joined
      <3> QED BY <3>1, Zenon DEF Joins, Associates
    <2> QED BY <2>2 DEF String!Quoted, String!Quote, Until, v, a
  <1> HIDE DEF a, u
  <1>4. w \in Seq(Bytes) /\ Len(w) = 1 + Len(u) /\ w[1] = 34
    <2>1. /\ w \in Seq(Bytes) /\ Len(w) = Len(a) + Len(u)
          /\ \A i \in 1..Len(a) + Len(u) : w[i] = IF i <= Len(a) THEN a[i] ELSE u[i - Len(a)]
      <3>1. a \in Seq(Bytes) /\ u \in Seq(Bytes)
        BY <1>2
      <3> QED BY <3>1, ConcatProperties
    <2> HIDE DEF w
    <2> QED BY <1>2, <2>1
  <1>5. Along(s, 1, w, 1) /\ s \in Seq(Bytes) /\ Len(s) \in Nat
    BY <1>1, <1>3 DEF Along
  <1>6. Left(s, 1) = Len(s)
    BY <1>5 DEF Left
  <1>7. ASSUME 1 <= Len(s) PROVE s[1] = 34 /\ AtReading(k, s, 2, <<>>)
    <2>1. s[1] = 34
      <3>0. 1 <= Left(s, 1)
        BY <1>6, <1>7
      <3>1. s[1] = w[1]
        <4> DEFINE p == 1
        <4>1. Along(s, p, w, p) /\ 1 <= Left(s, p)
          BY <1>5, <3>0
        <4> HIDE DEF p, w
        <4>2. s[p] = w[p]
          BY <4>1, AlongBytes
        <4> QED BY <4>2 DEF p
      <3> QED BY <1>4, <3>1
    <2>2. Along(s, 1 + Len(a), u, 1) /\ Left(s, 1 + Len(a)) = Left(s, 1) - Len(a)
      <3>1. Len(a) <= Left(s, 1)
        BY <1>2, <1>6, <1>7
      <3> QED BY <1>2, <1>5, <3>1, AlongMoves
    <2>3. Along(s, 2, u, 1) /\ Left(s, 2) = Len(s) - 1
      BY <1>2, <1>6, <2>2
    <2>4. Possible(k) <=> Left(s, 2) = Len(u)
      BY <1>1, <1>3, <1>4, <1>2, <1>5, <2>3
    <2>5. Opens(<<>>, <<>>) /\ Good(<<>>) /\ Cost(<<>>) + 2 <= 2 /\ <<>> \in Seq(Int)
      <3>1. Opens(<<>>, <<>>) /\ Good(<<>>)
        <4>1. 0 \in Int
          OBVIOUS
        <4> QED BY <4>1, OpensEmpty, GoodOne, Zenon
      <3>2. Cost(<<>>) + 2 <= 2
        BY CostEmpty
      <3> QED BY <3>1, <3>2
    <2>6. <<>> \o String!Meaning(todo) = Wanted(k)
      BY MeaningIs, <1>1
    <2>7. Parsed(k, s, 2, <<>>, todo, <<>>)
      BY <2>3, <2>4, <2>5, <2>6, Zenon DEF Parsed, u
    <2>8. Within(k, Len(s))
      BY Zenon DEF AtOpening
    <2> QED BY <2>1, <2>5, <2>7, <2>8, Zenon DEF AtReading
  <1>8. ASSUME Len(s) < 1 PROVE AtRejected(k)
    BY <1>2, <1>4, <1>5, <1>8, <1>1, <1>3 DEF AtRejected
  <1> QED BY <1>5, <1>7, <1>8

-----------------------------------------------------------------------------
(* Strings: the theorem                                                    *)

(* The tasks: to print any bytes, or to read one of Texts.                 *)
StringTask(k) ==
  \/ k.kind = "write" /\ k.value \in Seq(Bytes)
  \/ k.kind = "read" /\ k.text \in Texts

(* What is true where the code is, for the task it has.                    *)
StringState(k, s, p, o, c) ==
  /\ StringTask(k)
  /\ s \in Seq(Bytes) /\ o \in Seq(Bytes) /\ p \in 1..Len(s) + 1
  /\ \/ c = "escape" /\ AtPrinting(k, s, p, o)
     \/ c = "open" /\ AtOpening(k, s) /\ p = 1 /\ o = <<>>
     \/ c = "string" /\ AtReading(k, s, p, o)
     \/ c = "accepted" /\ AtAccepted(k, o)
     \/ c = "rejected" /\ AtRejected(k)

(* Before the first step                                                   *)
LEMMA StringBegins ==
  ASSUME String!Init
  PROVE  StringState(task, input, position, output, pc)
  <1>0. position = 1 /\ output = <<>> /\ <<>> \in Seq(Bytes)
    BY DEF String!Init
  <1>1. ASSUME NEW v \in Values, task = [kind |-> "write", value |-> v], input = v, pc = "escape"
        PROVE  StringState(task, input, position, output, pc)
    <2> DEFINE k == task
    <2>1. k.kind = "write" /\ k.value = v /\ v \in Seq(Bytes)
      BY <1>1, ConversionsAssumption DEF String!JsonStringAssumption, Bytes
    <2>2. Possible(k)
      BY <2>1, Zenon DEF Possible
    <2>3. <<>> \o Replaced(String!Characters(Rest(v, 1))) = Wanted(k)
      BY <2>1, CharactersType, RestFull, ReplacedType DEF Wanted
    <2>4. Means(<<>>, <<>>) /\ Spelling(<<>>) = <<>>
      BY MeansEmpty, SpellingEmpty
    <2>5. \A n : Within(k, n)
      BY <2>1, Zenon DEF Within
    <2> HIDE DEF k
    <2>6. AtPrinting(k, v, 1, <<>>)
      BY <2>2, <2>3, <2>4, <2>5, Zenon DEF AtPrinting
    <2>7. 1 \in 1..Len(v) + 1
      BY <2>1
    <2>8. StringState(k, v, 1, <<>>, "escape")
      BY <1>0, <2>1, <2>6, <2>7, Zenon DEF StringState, StringTask
    <2> QED BY <1>0, <1>1, <2>8, Zenon DEF k
  <1>2. ASSUME NEW t \in Texts, task = [kind |-> "read", text |-> t],
               input = SubSeq(String!TextOf(t.elements), 1, t.cut), pc = "open"
        PROVE  StringState(task, input, position, output, pc)
    <2> DEFINE k == task
               es == t.elements
               cut == t.cut
               w == String!TextOf(es)
               s == SubSeq(w, 1, cut)
    <2>1. k.kind = "read" /\ k.text = t
      BY <1>2
    <2>2. es \in Seq(Forms) /\ cut \in 0..Len(w)
      BY ConversionsAssumption, WiderSeq DEF String!JsonStringAssumption, Forms
    <2>3. w = String!Quoted(Spelling(es)) /\ w \in Seq(Bytes)
      <3>1. w = String!Quoted(Spelling(es))
        BY <2>2, TextOfIs
      <3> DEFINE v == Spelling(es)
                 a == <<34>>
      <3>2. v \in Seq(Bytes)
        BY <2>2, SpellingIsType
      <3>3. a \in Seq(Bytes)
        BY ByteIs
      <3> HIDE DEF v, a
      <3>4. (a \o v) \o a \in Seq(Bytes)
        BY <3>2, <3>3
      <3> QED BY <3>1, <3>4 DEF String!Quoted, String!Quote, a, v
    <2> HIDE DEF k, w, es, cut
    <2>4. cut \in Nat /\ cut <= Len(w) /\ Len(w) \in Nat /\ 1 + cut - 1 = cut
      BY <2>2, <2>3
    <2>5. s = Taken(w, 1, cut)
      BY <2>4, Zenon DEF Taken
    <2>6. s \in Seq(Bytes) /\ Len(s) = cut /\ Along(s, 1, w, 1)
      <3>1. 1 \in 1..Len(w) + 1 /\ cut <= Left(w, 1)
        BY <2>4 DEF Left
      <3> HIDE DEF s
      <3> QED BY <2>3, <2>4, <2>5, <3>1, TakenIs
    <2> HIDE DEF s
    <2>7. Wanted(k) = String!Meaning(es) /\ (Possible(k) <=> Len(s) = Len(w)) /\ Within(k, Len(s))
      BY <2>1, <2>6, <2>4 DEF Wanted, es, Possible, cut, w, Within
    <2>8. AtOpening(k, s)
      BY <2>2, <2>3, <2>6, <2>7, Zenon DEF AtOpening
    <2>9. 1 \in 1..Len(s) + 1
      BY <2>4, <2>6
    <2>10. StringState(k, s, 1, <<>>, "open")
      BY <1>0, <2>1, <2>6, <2>8, <2>9, Zenon DEF StringState, StringTask
    <2> QED BY <1>0, <1>2, <2>10, Zenon DEF k, s, w, es, cut
  <1> QED BY <1>1, <1>2, Zenon DEF String!Init

(* The steps                                                               *)
StringStep ==
  StringState(task, input, position, output, pc) =>
    StringState(task', input', position', output', pc')

(* EscapeJsonString, and printing what was read again.                     *)
LEMMA StringPrints ==
  ASSUME String!EscapeByte \/ String!EscapeSequence \/ String!EscapeEnds \/ String!PrintAgain
  PROVE  StringStep
  <1> SUFFICES ASSUME StringState(task, input, position, output, pc)
               PROVE  StringState(task', input', position', output', pc')
    BY DEF StringStep
  <1> DEFINE k == task
             s == input
             p == position
             o == output
  <1>1. /\ StringTask(k) /\ s \in Seq(Bytes) /\ o \in Seq(Bytes) /\ p \in 1..Len(s) + 1
        /\ Len(s) \in Nat
        /\ pc = "escape" => AtPrinting(k, s, p, o)
        /\ pc = "accepted" => AtAccepted(k, o)
    BY DEF StringState
  <1>2. ASSUME NEW b, NEW n, pc = "escape", p <= Len(s), Emits(s, p, b, n), String!Emit(b, n)
        PROVE  StringState(task', input', position', output', pc')
    <2>1. p \in 1..Len(s)
      BY <1>1, <1>2
    <2>2. AtPrinting(k, s, p + n, o \o b) /\ o \o b \in Seq(Bytes)
      BY <1>1, <1>2, <2>1, PrintingMoves
    <2>3. p + n \in 1..Len(s) + 1
      BY <1>2, Zenon DEF Emits
    <2>4. StringState(k, s, p + n, o \o b, "escape")
      BY <1>1, <2>2, <2>3, Zenon DEF StringState
    <2>5. task' = k /\ input' = s /\ position' = p + n /\ output' = o \o b /\ pc' = "escape"
      BY <1>2 DEF String!Emit
    <2> HIDE DEF k, s, p, o
    <2> QED BY <2>4, <2>5
  <1>3. CASE String!EscapeByte
    <2>1. pc = "escape" /\ p <= Len(s) /\ p \in 1..Len(s)
      BY <1>1, <1>3 DEF String!EscapeByte
    <2> DEFINE x == s[p]
    <2>2. /\ x \in DOMAIN String!ShortEscapes =>
              Emits(s, p, <<String!Backslash, String!ShortEscapes[x]>>, 1)
          /\ x < 32 /\ x \notin DOMAIN String!ShortEscapes =>
              Emits(s, p, String!UnicodeEscape(x), 1)
          /\ x \in 32..127 /\ x \notin DOMAIN String!ShortEscapes => Emits(s, p, <<x>>, 1)
      BY <1>1, <2>1, EmitsByte
    <2>3. \/ x \in DOMAIN String!ShortEscapes /\ String!Emit(<<String!Backslash, String!ShortEscapes[x]>>, 1)
          \/ x < 32 /\ x \notin DOMAIN String!ShortEscapes /\ String!Emit(String!UnicodeEscape(x), 1)
          \/ x \in 32..127 /\ x \notin DOMAIN String!ShortEscapes /\ String!Emit(<<x>>, 1)
      BY <1>3, Zenon DEF String!EscapeByte, String!Here
    <2> QED BY <1>2, <2>1, <2>2, <2>3, Zenon
  <1>4. CASE String!EscapeSequence
    BY <1>4, <1>1, EmitsSequence, <1>2 DEF String!EscapeSequence, String!Here
  <1>5. CASE String!EscapeEnds
    BY <1>1, <1>5, PrintingEnds DEF String!EscapeEnds, StringState
  <1>6. CASE String!PrintAgain
    BY <1>6, <1>1, PrintingAgain DEF String!PrintAgain, StringState
  <1> QED BY <1>3, <1>4, <1>5, <1>6

(* The parser begins.                                                      *)
LEMMA StringOpens ==
  ASSUME String!ParseOpen
  PROVE  StringStep
  <1> SUFFICES ASSUME StringState(task, input, position, output, pc)
               PROVE  StringState(task', input', position', output', pc')
    BY DEF StringStep
  <1> DEFINE k == task
             s == input
  <1>0. pc = "open"
    BY DEF String!ParseOpen
  <1>1. /\ StringTask(k) /\ s \in Seq(Bytes) /\ Len(s) \in Nat /\ position = 1
        /\ output = <<>> /\ AtOpening(k, s) /\ <<>> \in Seq(Bytes)
    BY <1>0 DEF StringState
  <1>2. /\ 1 <= Len(s) => s[1] = 34 /\ AtReading(k, s, 2, <<>>)
        /\ Len(s) < 1 => AtRejected(k)
    BY <1>1, OpeningIs
  <1>3. task' = k /\ input' = s /\ output' = <<>>
    BY <1>1 DEF String!ParseOpen, String!Finish
  <1>4. CASE 1 <= Len(s)
    BY <1>1, <1>2, <1>4, <1>3 DEF String!ParseOpen, String!Finish, String!Here,
       String!Quote, StringState
  <1>5. CASE ~ (1 <= Len(s))
    BY <1>1, <1>5, <1>2, <1>3 DEF String!ParseOpen, String!Finish, StringState
  <1> QED BY <1>4, <1>5

(* The parser goes on and ends.                                            *)
LEMMA StringParses ==
  ASSUME \/ String!ParseClose \/ String!ParseByte \/ String!ParseSequence
         \/ String!ParseEscape \/ String!ParseUnicodeEscape \/ String!ParseUnterminated
  PROVE  StringStep
  <1> SUFFICES ASSUME StringState(task, input, position, output, pc)
               PROVE  StringState(task', input', position', output', pc')
    BY DEF StringStep
  <1> DEFINE k == task
             s == input
             p == position
             o == output
             x == s[p]
             y == s[p + 1]
  <1>0. pc = "string"
    BY Zenon DEF String!ParseClose, String!ParseByte, String!ParseSequence, String!ParseEscape,
                 String!ParseUnicodeEscape, String!ParseUnterminated, String!AtEscape
  <1>1. /\ StringTask(k) /\ s \in Seq(Bytes) /\ o \in Seq(Bytes) /\ p \in 1..Len(s) + 1
        /\ Len(s) \in Nat /\ p \in Nat /\ AtReading(k, s, p, o)
    BY <1>0 DEF StringState
  <1>2. ASSUME NEW b, NEW n, Moves(k, s, p, o, b, n), String!Emit(b, n)
        PROVE  StringState(task', input', position', output', pc')
    BY <1>1, <1>2, <1>0 DEF StringState, Moves, String!Emit
  <1>3. ASSUME AtRejected(k), String!Finish("rejected"), position' = p
        PROVE  StringState(task', input', position', output', pc')
    BY <1>1, <1>3 DEF StringState, String!Finish
  <1>4. CASE String!ParseClose
    BY <1>4, <1>1, ReadingEnds DEF String!ParseClose, String!Here, String!Quote,
       StringState, String!Finish
  <1>5. CASE String!ParseByte
    BY <1>5, <1>1, ReadingByte, <1>2, <1>3 DEF String!ParseByte, String!Here, String!Quote,
       String!Backslash
  <1>6. CASE String!ParseSequence
    BY <1>6, <1>1, ReadingSequence, <1>2, <1>3 DEF String!ParseSequence, String!Here
  <1>7. ASSUME NEW letters, String!AtEscape(letters)
        PROVE  /\ p <= Len(s) /\ p < Len(s) /\ y \in letters
               /\ y \in DOMAIN String!Unescaped => Moves(k, s, p, o, <<String!Unescaped[y]>>, 2)
               /\ y \notin DOMAIN String!Unescaped /\ y # 117 => AtRejected(k)
               /\ y = 117 => LET e == String!EscapedCodePoint(s, p + 2)
                             IN IF e.code > 0 THEN Moves(k, s, p, o, String!Encode(e.code), 2 + e.length)
                                ELSE AtRejected(k)
    <2>1. p < Len(s) /\ x = 92 /\ y \in letters
      BY <1>7, Zenon DEF String!AtEscape, String!Here, String!Backslash
    <2>2. p <= Len(s)
      BY <1>1, <2>1
    <2>3. /\ p < Len(s) /\ y \in DOMAIN String!Unescaped =>
                Moves(k, s, p, o, <<String!Unescaped[y]>>, 2)
          /\ p < Len(s) /\ y \notin DOMAIN String!Unescaped /\ y # 117 => AtRejected(k)
          /\ p < Len(s) /\ y = 117 =>
                LET e == String!EscapedCodePoint(s, p + 2)
                IN IF e.code > 0 THEN Moves(k, s, p, o, String!Encode(e.code), 2 + e.length)
                   ELSE AtRejected(k)
      BY <1>1, <2>1, <2>2, ReadingEscape
    <2> QED BY <2>1, <2>2, <2>3, Zenon
  <1>8. CASE String!ParseEscape
    BY <1>8, <1>2, <1>7, <1>3 DEF String!ParseEscape, String!LetterU, Bytes
  <1>9. CASE String!ParseUnicodeEscape
    BY <1>9, <1>7, <1>2, <1>3 DEF String!ParseUnicodeEscape, String!LetterU
  <1>10. CASE String!ParseUnterminated
    BY <1>10, <1>1, ReadingCut, <1>3 DEF String!ParseUnterminated, String!Here,
       String!Backslash
  <1> QED BY <1>4, <1>5, <1>6, <1>8, <1>9, <1>10

(* The inductive invariant.                                                *)
StringInv == subject = "string" => StringState(task, input, position, output, pc)

(* It is one: it holds first, and every step keeps it.                     *)
LEMMA StringInvInductive == Spec => []StringInv
  <1>1. Init => StringInv
    BY StringBegins DEF Init, StringInv
  <1>2. StringInv /\ [Next]_vars => StringInv'
    BY StringOpens, StringParses, StringPrints DEF String!Next, StringInv, StringStep,
       stringVars, Next, vars
  <1> QED BY <1>1, <1>2, PTL DEF Spec

(* Every string that GET prints can be PUT again and means the same, the   *)
(* parser takes exactly the texts whose every element means a character    *)
(* other than NUL and gives them that meaning, nothing is printed longer   *)
(* than it was PUT, and no loop reads behind the end: for any bytes, and   *)
(* texts of any elements and length.                                       *)
THEOREM SpecStringsExact == Spec => []StringsExact
  <1> DEFINE k == task
             s == input
             o == output
  <1>1. ASSUME subject = "string", StringState(task, input, position, output, pc)
        PROVE  String!JsonTypeOK
    BY <1>1 DEF StringState, String!JsonTypeOK, Bytes
  <1>2. ASSUME StringState(task, input, position, output, pc)
        PROVE  /\ StringTask(k)
               /\ pc = "accepted" => /\ Possible(k) /\ Good(Wanted(k))
                                     /\ String!Characters(o) = Wanted(k)
               /\ pc = "rejected" => ~ (Possible(k) /\ Good(Wanted(k)))
    BY <1>2, OpensAll DEF StringState, AtAccepted, AtRejected
  <1>3. ASSUME StringState(task, input, position, output, pc) PROVE String!RoundTrip
    <2> SUFFICES ASSUME k.kind = "write", String!Done PROVE
          LET chars == String!Characters(k.value)
          IN IF \E i \in DOMAIN chars : chars[i] = 0 THEN pc = "rejected"
             ELSE /\ pc = "accepted"
                  /\ String!Characters(o) =
                       [i \in DOMAIN chars |-> IF chars[i] = -1 THEN 65533 ELSE chars[i]]
      BY SMT DEF String!RoundTrip
    <2> DEFINE chars == String!Characters(k.value)
    <2>1. k.value \in Seq(Bytes)
      BY <1>2, <1>3 DEF StringTask
    <2>2. Possible(k) /\ Wanted(k) = Replaced(chars)
      BY DEF Possible, Wanted
    <2>3. chars \in Seq(Marks)
      BY <2>1, CharactersType
    <2> HIDE DEF chars
    <2>4. DOMAIN chars = 1..Len(chars)
      BY <2>3
    <2>5. Good(Wanted(k)) <=> ~ \E i \in DOMAIN chars : chars[i] = 0
      BY <2>2, <2>3, <2>4, ReplacedIsGood
    <2>6. Replaced(chars) = [i \in DOMAIN chars |-> IF chars[i] = -1 THEN 65533 ELSE chars[i]]
      BY SMT DEF Replaced, Shown
    <2>7. pc \in {"accepted", "rejected"}
      BY Zenon DEF String!Done
    <2>8. IF \E i \in DOMAIN chars : chars[i] = 0 THEN pc = "rejected"
          ELSE pc = "accepted" /\ String!Characters(o) = Replaced(chars)
      BY <1>2, <1>3, <2>2, <2>5, <2>7
    <2> QED BY <2>6, <2>8, SMT DEF chars
  <1>4. ASSUME StringState(task, input, position, output, pc) PROVE String!ReadsMeaning
    <2> SUFFICES ASSUME k.kind = "read", String!Done PROVE
          LET meaning == String!Meaning(k.text.elements)
              complete == k.text.cut = Len(String!TextOf(k.text.elements))
          IN IF complete /\ \A i \in DOMAIN meaning : meaning[i] > 0 /\ meaning[i] \notin String!Surrogates
             THEN pc = "accepted" /\ String!Characters(o) = meaning
             ELSE pc = "rejected"
      BY Zenon DEF String!ReadsMeaning
    <2> DEFINE meaning == String!Meaning(k.text.elements)
               complete == k.text.cut = Len(String!TextOf(k.text.elements))
    <2>1. "write" # "read"
      OBVIOUS
    <2>2. (Possible(k) <=> complete) /\ Wanted(k) = meaning
      BY <2>1, Zenon DEF Possible, Wanted
    <2>3. meaning \in Seq(Int)
      <3>1. k.text \in Texts
        BY <1>2, <1>4, <2>1, Zenon DEF StringTask
      <3>2. k.text.elements \in Seq(Elements)
        BY <3>1, ConversionsAssumption, Zenon DEF String!JsonStringAssumption
      <3>3. Elements \subseteq Forms
        BY DEF Forms
      <3> DEFINE es == k.text.elements
      <3> HIDE DEF es
      <3>4. es \in Seq(Forms)
        BY <3>2, <3>3, WiderSeq DEF es
      <3> QED BY <3>4, MeaningIs DEF es
    <2> HIDE DEF meaning, complete
    <2>4. Good(meaning) <=>
            \A i \in DOMAIN meaning : meaning[i] > 0 /\ meaning[i] \notin String!Surrogates
      BY <2>3 DEF Good
    <2>5. pc \in {"accepted", "rejected"}
      BY Zenon DEF String!Done
    <2>6. IF complete /\ Good(meaning)
          THEN pc = "accepted" /\ String!Characters(o) = meaning
          ELSE pc = "rejected"
      BY <1>2, <1>4, <2>2, <2>5
    <2> QED BY <2>4, <2>6, Zenon DEF meaning, complete
  <1>5. ASSUME StringState(task, input, position, output, pc) PROVE String!PrintedNoLonger
    <2> SUFFICES ASSUME k.kind = "read", pc = "escape"
                 PROVE  Len(String!Quoted(o)) <= k.text.cut
      BY Zenon DEF String!PrintedNoLonger
    <2> DEFINE rest == Rest(s, position)
               n == Cost(String!Characters(rest))
    <2>1. s \in Seq(Bytes) /\ o \in Seq(Bytes) /\ position \in 1..Len(s) + 1
          /\ AtPrinting(k, s, position, o)
      BY <1>5 DEF StringState
    <2>2. n \in Nat
      BY <2>1, RestIs, CharactersType, CostMore
    <2>3. k.text.cut \in Nat /\ Len(o) + n + 2 <= k.text.cut
      BY <2>1, Zenon DEF AtPrinting, Within
    <2>4. Len(String!Quoted(o)) = Len(o) + 2 /\ Len(o) \in Nat
      BY ByteIs, <2>1 DEF String!Quoted, String!Quote
    <2> HIDE DEF n
    <2> QED BY <2>2, <2>3, <2>4
  <1>6. StringInv => StringsExact
    BY <1>1, <1>3, <1>4, <1>5, Zenon DEF StringInv, StringsExact
  <1> QED BY <1>6, StringInvInductive, PTL
==============================================================================
