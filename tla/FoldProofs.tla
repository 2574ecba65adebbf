----------------------------- MODULE FoldProofs -----------------------------
(***************************************************************************)
(* Induction, and what a fold of a sequence gives.  The theorems of the    *)
(* library that have a predicate as a parameter cannot be used, but WFMin, *)
(* which has a set instead, can: induction is stated over sets here, and   *)
(* of folds of the constant operator of this module, which those who need  *)
(* it give in an INSTANCE.                                                 *)
(***************************************************************************)
EXTENDS Integers, Sequences, SequencesExt, WellFoundedInduction, TLAPS

CONSTANT Step(_, _)   \* what a fold does with each element

(* Every set of natural numbers that has an element has a least one. *)
LEMMA LeastNumber ==
    ASSUME NEW T, T \subseteq Nat, T # {}
    PROVE  \E n \in T : \A m \in T : n <= m
<1>1. IsWellFoundedOn(OpToRel(<,Nat), Nat)
  BY NatLessThanWellFounded
<1>2. PICK R : R = OpToRel(<,Nat)
  OBVIOUS
<1>3. PICK n \in T : \A m \in T : <<m, n>> \notin R
  BY <1>1, <1>2, WFMin, Zenon
<1>4. \A m \in T : ~(m < n)
  BY <1>2, <1>3 DEF OpToRel
<1> QED BY <1>3, <1>4

(* Induction over the natural numbers. *)
LEMMA SetInduction ==
    ASSUME NEW T, 0 \in T, \A n \in Nat : n \in T => n + 1 \in T
    PROVE  Nat \subseteq T
<1> SUFFICES ASSUME NEW x \in Nat, x \notin T PROVE FALSE
  OBVIOUS
<1> DEFINE U == Nat \ T
<1>1. PICK n \in U : \A m \in U : n <= m
  BY LeastNumber
<1>2. n # 0 /\ n - 1 \in Nat /\ n - 1 \notin U
  BY <1>1
<1> QED BY <1>1, <1>2

(* FoldLeft is defined by a recursive function on sets of indices.  There is
   such a function, and on the first k indices it is what k steps give. *)
LEMMA FoldRuns ==
    ASSUME NEW w, NEW X, NEW seq \in Seq(X)
    PROVE  \E run : /\ run[0] = w
                    /\ \A k \in 1..Len(seq) : run[k] = Step(run[k - 1], seq[k])
                    /\ run[Len(seq)] = FoldLeft(Step, w, seq)
<1> DEFINE Folds(n, f) == f = [s \in SUBSET (1..n) |->
                                  IF s = {} THEN w ELSE Step(f[s \ {Max(s)}], seq[Max(s)])]
           T == {n \in Nat : \E f : Folds(n, f)}
<1>1. ASSUME NEW n \in Nat, NEW s \in SUBSET (1..n), n \in s PROVE Max(s) = n
  <2>1. n \in s /\ \A y \in s : n >= y
    BY <1>1
  <2>2. \A x \in s : (\A y \in s : x >= y) => x = n
    BY <1>1
  <2>3. Max(s) \in s /\ \A y \in s : Max(s) >= y
    BY <2>1, Zenon DEF Max
  <2> QED BY <2>2, <2>3
<1>2. 0 \in T
  <2>1. 1..0 = {}
    OBVIOUS
  <2>2. PICK f : f = [s \in SUBSET (1..0) |-> w]
    OBVIOUS
  <2> QED BY <2>1, <2>2
<1>3. ASSUME NEW n \in Nat, n \in T PROVE n + 1 \in T
  <2>1. PICK f : Folds(n, f)
    BY <1>3
  <2>2. PICK g : g = [s \in SUBSET (1..n+1) |->
                        IF n + 1 \in s THEN Step(f[s \ {n+1}], seq[n+1]) ELSE f[s]]
    OBVIOUS
  <2>3. ASSUME NEW s \in SUBSET (1..n+1)
        PROVE  g[s] = IF s = {} THEN w ELSE Step(g[s \ {Max(s)}], seq[Max(s)])
    <3>1. CASE n + 1 \in s
      <4>1. Max(s) = n + 1 /\ s # {}
        BY <1>1, <3>1
      <4>2. s \ {n+1} \in SUBSET (1..n+1) /\ n + 1 \notin s \ {n+1}
        OBVIOUS
      <4>3. g[s \ {n+1}] = f[s \ {n+1}] /\ g[s] = Step(f[s \ {n+1}], seq[n+1])
        BY <2>2, <3>1, <4>2
      <4> QED BY <4>1, <4>3
    <3>2. CASE n + 1 \notin s
      <4>1. s \in SUBSET (1..n) /\ g[s] = f[s]
        BY <2>2, <3>2
      <4>2. CASE s = {}
        BY <2>1, <4>1, <4>2
      <4>3. CASE s # {}
        <5> DEFINE m == Max(s)
        <5>1. /\ s \ {m} \in SUBSET (1..n+1) /\ n + 1 \notin s \ {m}
              /\ s \ {m} \in SUBSET (1..n)
          BY <3>2, <4>1
        <5>2. f[s] = Step(f[s \ {m}], seq[m])
          BY <2>1, <4>1, <4>3
        <5>3. g[s \ {m}] = f[s \ {m}]
          BY <2>2, <5>1
        <5> QED BY <4>1, <4>3, <5>2, <5>3
      <4> QED BY <4>2, <4>3
    <3> QED BY <3>1, <3>2
  <2>4. DOMAIN g = SUBSET (1..n+1) /\ g = [s \in SUBSET (1..n+1) |-> g[s]]
    BY <2>2
  <2>5. Folds(n + 1, g)
    BY <2>3, <2>4
  <2>6. \E f2 : Folds(n + 1, f2)
    <3> HIDE DEF Folds
    <3> QED BY <2>5
  <2> HIDE DEF Folds
  <2> QED BY <2>6
<1>4. DOMAIN seq = 1..Len(seq) /\ Len(seq) \in Nat
  OBVIOUS
<1>5. Len(seq) \in T
  <2> HIDE DEF T
  <2> QED BY <1>2, <1>3, <1>4, SetInduction
<1>6. PICK f : /\ Folds(Len(seq), f)
               /\ FoldLeft(Step, w, seq) = f[1..Len(seq)]
  <2> DEFINE Eqn(f) == f = [s \in SUBSET (DOMAIN seq) |->
                               IF s = {} THEN w ELSE Step(f[s \ {Max(s)}], seq[Max(s)])]
             c == CHOOSE f : Eqn(f)
  <2>1. FoldLeft(Step, w, seq) = c[DOMAIN seq]
    BY Zenon DEF FoldLeft, MapThenFoldSet
  <2>2. \E f : Eqn(f)
    BY <1>4, <1>5
  <2>3. Eqn(c)
    <3> HIDE DEF Eqn
    <3> QED BY <2>2
  <2> HIDE DEF c
  <2> QED BY <1>4, <2>1, <2>3
<1>7. PICK run : run = [k \in 0..Len(seq) |-> f[1..k]]
  OBVIOUS
<1>8. run[0] = w
  <2>1. 1..0 = {} /\ 0 \in 0..Len(seq) /\ {} \in SUBSET (1..Len(seq))
    BY <1>4
  <2> QED BY <1>6, <1>7, <2>1
<1>9. ASSUME NEW k \in 1..Len(seq) PROVE run[k] = Step(run[k - 1], seq[k])
  <2>1. /\ k \in Nat /\ 1..k \in SUBSET (1..Len(seq)) /\ 1..k # {}
        /\ k \in 0..Len(seq) /\ k - 1 \in 0..Len(seq)
    BY <1>4
  <2>2. Max(1..k) = k /\ (1..k) \ {k} = 1..(k - 1)
    <3>1. (1..k) \ {k} = 1..(k - 1)
      BY <2>1
    <3>2. k \in 1..k /\ \A j \in 1..k : j \in Int /\ j <= k
      BY <2>1
    <3>3. Max(1..k) = k
      BY <1>1, <2>1, <3>2
    <3> QED BY <3>1, <3>3
  <2>3. f[1..k] = Step(f[(1..k) \ {k}], seq[k])
    BY <1>6, <2>1, <2>2
  <2> QED BY <1>7, <2>1, <2>2, <2>3
<1>10. run[Len(seq)] = FoldLeft(Step, w, seq)
  BY <1>4, <1>6, <1>7
<1> QED BY <1>8, <1>9, <1>10

(* A fold of nothing gives what it begins with. *)
LEMMA FoldEmpty ==
    ASSUME NEW w
    PROVE  FoldLeft(Step, w, <<>>) = w
<1>1. <<>> \in Seq(Nat) /\ Len(<<>>) = 0
  OBVIOUS
<1>2. PICK e \in Seq(Nat) : e = <<>>
  BY <1>1
<1>3. PICK run : run[0] = w /\ run[Len(e)] = FoldLeft(Step, w, e)
  BY FoldRuns
<1> QED BY <1>1, <1>2, <1>3

(* A fold of one element more takes one step more. *)
LEMMA FoldGrows ==
    ASSUME NEW w, NEW X, NEW seq \in Seq(X), NEW x \in X
    PROVE  FoldLeft(Step, w, Append(seq, x)) = Step(FoldLeft(Step, w, seq), x)
<1>0. Len(seq) \in Nat
  OBVIOUS
<1>1. PICK n \in Nat : n = Len(seq)
  BY <1>0
<1>a. Append(seq, x) \in Seq(X)
  OBVIOUS
<1>2. PICK more \in Seq(X) : more = Append(seq, x)
  BY <1>a
<1>3. Len(more) = n + 1 /\ more[n + 1] = x /\ \A k \in 1..n : more[k] = seq[k]
  BY <1>1, <1>2
<1>4. PICK f : /\ f[0] = w
               /\ \A k \in 1..Len(seq) : f[k] = Step(f[k - 1], seq[k])
               /\ f[Len(seq)] = FoldLeft(Step, w, seq)
  BY FoldRuns
<1>5. PICK g : /\ g[0] = w
               /\ \A k \in 1..Len(more) : g[k] = Step(g[k - 1], more[k])
               /\ g[Len(more)] = FoldLeft(Step, w, more)
  BY FoldRuns
<1> DEFINE T == {k \in Nat : k <= n => f[k] = g[k]}
<1>6. 0 \in T
  BY <1>4, <1>5
<1>7. ASSUME NEW k \in Nat, k \in T PROVE k + 1 \in T
  <2> SUFFICES ASSUME k + 1 <= n PROVE f[k + 1] = g[k + 1]
    OBVIOUS
  <2>1. k + 1 \in 1..Len(seq) /\ k + 1 \in 1..Len(more) /\ k + 1 \in 1..n /\ (k + 1) - 1 = k
    BY <1>1, <1>3
  <2>2. f[k] = g[k]
    BY <1>7, <1>1
  <2>3. f[k + 1] = Step(f[k], seq[k + 1]) /\ g[k + 1] = Step(g[k], more[k + 1])
    BY <1>4, <1>5, <2>1
  <2> QED BY <1>3, <2>1, <2>2, <2>3
<1>8. n \in T
  <2> HIDE DEF T
  <2> QED BY <1>1, <1>6, <1>7, SetInduction
<1>9. f[n] = g[n] /\ n + 1 \in 1..Len(more) /\ (n + 1) - 1 = n
  BY <1>1, <1>3, <1>8
<1>10. g[n + 1] = Step(g[n], x)
  BY <1>3, <1>5, <1>9
<1> QED BY <1>1, <1>2, <1>3, <1>4, <1>5, <1>9, <1>10
=============================================================================
