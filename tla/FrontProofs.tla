---------------------------- MODULE FrontProofs -----------------------------
(***************************************************************************)
(* Proofs about Front, for any number of goroutines, any program and any   *)
(* sets of ids, headers, sampling decisions and callbacks: the end of a    *)
(* span covers what was logged in it, every span and seed has the          *)
(* identifiers and the code that are its own, and the reactive callbacks   *)
(* are those of the seed that a logger was made from, and are called when  *)
(* the span begins. What is known of AtomicMax is used for each of the two *)
(* maxima, and what is known of Seeds for each seed.                       *)
(***************************************************************************)
EXTENDS Front, SequenceTheorems, TLAPS

-----------------------------------------------------------------------------
(* Lemmas about Seeds, for any seeds, callbacks and modifiers: what a        *)
(* modifier, a copy, a trace and react() make of a seed and of the slices of *)
(* the heap, and what they leave alone.                                      *)

ModsFold == INSTANCE FoldProofs WITH Step <- Modified
TakeFold == INSTANCE FoldProofs WITH Step <- TakeOutIf

Cells == Bases \cup DOMAIN Callbacks \cup {Nil}

IsHeap(h) == h \in Seq(Seq(Cells)) /\ Len(h) >= 1 /\ h[1] = <<>>

IsSlice(h, s) ==
    DOMAIN s = {"array", "len"} /\ s.array \in 1..Len(h) /\ s.len \in 0..Len(h[s.array])

(* From h to g no array goes or gets another length, and only those of A
   have other elements. *)
Untouched(h, g, A) ==
    /\ Len(g) >= Len(h)
    /\ \A a \in 1..Len(h) : Len(g[a]) = Len(h[a]) /\ (a \notin A => g[a] = h[a])

(* The arrays of a heap hold base loggers, callbacks and nil. *)
LEMMA HeapArray ==
    ASSUME NEW h, IsHeap(h)
    PROVE  /\ Len(h) \in Nat /\ DOMAIN h = 1..Len(h)
           /\ \A a \in 1..Len(h) : /\ h[a] \in Seq(Cells) /\ Len(h[a]) \in Nat
                                   /\ DOMAIN h[a] = 1..Len(h[a])
                                   /\ \A j \in 1..Len(h[a]) : h[a][j] \in Cells
<1>1. h \in Seq(Seq(Cells))
  BY DEF IsHeap
<1>2. Len(h) \in Nat /\ DOMAIN h = 1..Len(h) /\ \A a \in 1..Len(h) : h[a] \in Seq(Cells)
  BY <1>1
<1>3. \A s \in Seq(Cells) : Len(s) \in Nat /\ DOMAIN s = 1..Len(s) /\ \A j \in 1..Len(s) : s[j] \in Cells
  OBVIOUS
<1> QED BY <1>2, <1>3

(* What a slice shows are the first elements of its array. *)
LEMMA ViewOf ==
    ASSUME NEW h, IsHeap(h), NEW s, IsSlice(h, s)
    PROVE  /\ View(h, s) \in Seq(Cells) /\ Len(View(h, s)) = s.len
           /\ \A j \in 1..s.len : View(h, s)[j] = h[s.array][j]
<1>1. h[s.array] \in Seq(Cells) /\ Len(h[s.array]) \in Nat /\ s.len \in 0..Len(h[s.array])
  BY HeapArray DEF IsSlice
<1>2. \A c \in Seq(Cells), n \in Nat : n <= Len(c) =>
         /\ SubSeq(c, 1, n) \in Seq(Cells) /\ Len(SubSeq(c, 1, n)) = n
         /\ \A j \in 1..n : SubSeq(c, 1, n)[j] = c[j]
  <2> SUFFICES ASSUME NEW c \in Seq(Cells), NEW n \in Nat, n <= Len(c)
               PROVE  /\ SubSeq(c, 1, n) \in Seq(Cells) /\ Len(SubSeq(c, 1, n)) = n
                      /\ \A j \in 1..n : SubSeq(c, 1, n)[j] = c[j]
    OBVIOUS
  <2>1. SubSeq(c, 1, n) = [j \in 1..n |-> c[j]]
    OBVIOUS
  <2> QED BY <2>1
<1> QED BY <1>1, <1>2 DEF View

(* A new array. *)
LEMMA HeapGrows ==
    ASSUME NEW h, IsHeap(h), NEW c \in Seq(Cells)
    PROVE  /\ IsHeap(Append(h, c)) /\ Len(Append(h, c)) = Len(h) + 1
           /\ Append(h, c)[Len(h) + 1] = c
           /\ Untouched(h, Append(h, c), {})
<1>1. h \in Seq(Seq(Cells)) /\ Len(h) \in Nat
  BY HeapArray DEF IsHeap
<1>2. /\ Append(h, c) \in Seq(Seq(Cells)) /\ Len(Append(h, c)) = Len(h) + 1
      /\ \A a \in 1..Len(h) : Append(h, c)[a] = h[a]
      /\ Append(h, c)[Len(h) + 1] = c
  BY <1>1, AppendProperties
<1>3. 1 \in 1..Len(h)
  BY <1>1 DEF IsHeap
<1>4. IsHeap(Append(h, c))
  BY <1>1, <1>2, <1>3 DEF IsHeap
<1> QED BY <1>1, <1>2, <1>4 DEF Untouched

(* A new element in an array. *)
LEMMA HeapWritten ==
    ASSUME NEW h, IsHeap(h), NEW a \in 1..Len(h), NEW c \in Seq(Cells), Len(c) = Len(h[a])
    PROVE  LET g == [h EXCEPT ![a] = c] IN
           IsHeap(g) /\ Len(g) = Len(h) /\ g[a] = c /\ Untouched(h, g, {a})
<1> DEFINE g == [h EXCEPT ![a] = c]
<1>1. h \in Seq(Seq(Cells)) /\ Len(h) \in Nat
  BY HeapArray DEF IsHeap
<1>2. /\ g \in Seq(Seq(Cells)) /\ Len(g) = Len(h) /\ g[a] = c
      /\ \A b \in 1..Len(h) : b # a => g[b] = h[b]
  BY <1>1
<1>3. g[1] = <<>>
  <2>1. \A s \in Seq(Cells) : Len(s) = Len(<<>>) => s = <<>>
    OBVIOUS
  <2>2. 1 \in 1..Len(h) /\ h[1] = <<>>
    BY <1>1 DEF IsHeap
  <2>3. a = 1 => c = <<>>
    BY <2>1, <2>2
  <2> QED BY <1>2, <2>2, <2>3
<1> HIDE DEF g
<1>4. IsHeap(g)
  BY <1>1, <1>2, <1>3 DEF IsHeap
<1>5. Untouched(h, g, {a})
  BY <1>1, <1>2 DEF Untouched
<1> QED BY <1>2, <1>4, <1>5 DEF g

(* append(): the slice has one more element, in its array or in a new one. *)
Grown(h, s, x, g, t) ==
    /\ IsHeap(g) /\ IsSlice(g, t) /\ Untouched(h, g, {s.array})
    /\ t.len = s.len + 1 /\ g[t.array][t.len] = x
    /\ \/ /\ t.array = s.array
          /\ \A j \in 1..Len(h[s.array]) : j # t.len => g[s.array][j] = h[s.array][j]
       \/ /\ t.array = Len(h) + 1 /\ Len(g) = Len(h) + 1
          /\ g[s.array] = h[s.array]
          /\ \A j \in 1..s.len : g[t.array][j] = h[s.array][j]
          /\ \A j \in (t.len + 1)..Len(g[t.array]) : g[t.array][j] = Nil

(* append(): the slice shows one element more. It writes into its own array
   if there is room, and to a new one otherwise. *)
LEMMA AppendedGrows ==
    ASSUME NEW h, IsHeap(h), NEW s, IsSlice(h, s), NEW x \in Cells
    PROVE  LET a == Appended(h, s, x) IN Grown(h, s, x, a.heap, a.slice)
<1> DEFINE a == Appended(h, s, x)
<1>1. /\ Len(h) \in Nat /\ s.array \in 1..Len(h) /\ s.len \in Nat /\ s.len <= Len(h[s.array])
      /\ h[s.array] \in Seq(Cells) /\ Len(h[s.array]) \in Nat /\ DOMAIN s = {"array", "len"}
  BY HeapArray DEF IsSlice
<1>2. CASE Len(h[s.array]) > s.len
  <2> DEFINE c == [h[s.array] EXCEPT ![s.len + 1] = x]
             g == [h EXCEPT ![s.array] = c]
             t == [s EXCEPT !.len = s.len + 1]
  <2>1. a.heap = g /\ a.slice = t
    BY <1>2 DEF Appended
  <2>2. c \in Seq(Cells) /\ Len(c) = Len(h[s.array]) /\ c[s.len + 1] = x
        /\ \A j \in 1..Len(h[s.array]) : j # s.len + 1 => c[j] = h[s.array][j]
    BY <1>1, <1>2
  <2> HIDE DEF c
  <2>3. IsHeap(g) /\ Len(g) = Len(h) /\ g[s.array] = c /\ Untouched(h, g, {s.array})
    BY <1>1, <2>2, HeapWritten
  <2> HIDE DEF g
  <2>4. DOMAIN t = {"array", "len"} /\ t.array = s.array /\ t.len = s.len + 1
    BY <1>1
  <2> HIDE DEF t
  <2>5. IsSlice(g, t)
    BY <1>1, <1>2, <2>2, <2>3, <2>4 DEF IsSlice
  <2>6. Grown(h, s, x, g, t)
    BY <2>2, <2>3, <2>4, <2>5 DEF Grown
  <2> QED BY <2>1, <2>6
<1>3. CASE ~(Len(h[s.array]) > s.len)
  <2> DEFINE v == View(h, s)
             spare == IF s.len = 0 THEN <<>> ELSE [i \in 1..(s.len - 1) |-> Nil]
             c == Append(v, x) \o spare
             g == Append(h, c)
             t == [array |-> Len(h) + 1, len |-> s.len + 1]
  <2>1. a.heap = g /\ a.slice = t
    BY <1>3 DEF Appended
  <2>2. v \in Seq(Cells) /\ Len(v) = s.len /\ \A j \in 1..s.len : v[j] = h[s.array][j]
    BY ViewOf
  <2>3. spare \in Seq(Cells) /\ Len(spare) \in Nat /\ \A j \in 1..Len(spare) : spare[j] = Nil
    <3>1. Nil \in Cells
      BY DEF Cells
    <3>2. CASE s.len = 0
      BY <3>2
    <3>3. CASE s.len # 0
      <4>1. spare = [i \in 1..(s.len - 1) |-> Nil] /\ s.len - 1 \in Nat
        BY <1>1, <3>3
      <4> QED BY <3>1, <4>1
    <3> QED BY <3>2, <3>3
  <2> HIDE DEF v, spare
  <2>4. /\ c \in Seq(Cells) /\ Len(c) = s.len + 1 + Len(spare)
        /\ \A j \in 1..s.len : c[j] = h[s.array][j]
        /\ c[s.len + 1] = x
        /\ \A j \in (s.len + 2)..Len(c) : c[j] = Nil
    <3>1. /\ Append(v, x) \in Seq(Cells) /\ Len(Append(v, x)) = s.len + 1
          /\ \A j \in 1..s.len : Append(v, x)[j] = h[s.array][j]
          /\ Append(v, x)[s.len + 1] = x
      BY <2>2, AppendProperties
    <3>2. PICK p \in Seq(Cells) : p = Append(v, x)
      BY <3>1
    <3>3. /\ p \o spare \in Seq(Cells) /\ Len(p \o spare) = Len(p) + Len(spare)
          /\ \A j \in 1..Len(p) : (p \o spare)[j] = p[j]
          /\ \A j \in (Len(p) + 1)..(Len(p) + Len(spare)) : (p \o spare)[j] = spare[j - Len(p)]
      BY <2>3, <3>1, ConcatProperties
    <3>4. c = p \o spare
      BY <3>2
    <3>5. /\ Len(p) = s.len + 1 /\ s.len \in Nat /\ Len(spare) \in Nat
          /\ \A j \in 1..s.len : p[j] = h[s.array][j]
          /\ p[s.len + 1] = x
      BY <1>1, <2>3, <3>1, <3>2
    <3> HIDE DEF v, c
    <3>6. c \in Seq(Cells) /\ Len(c) = s.len + 1 + Len(spare)
      BY <3>3, <3>4, <3>5
    <3>7. /\ \A j \in 1..s.len : c[j] = h[s.array][j]
          /\ c[s.len + 1] = x
      <4>1. \A j \in 1..Len(p) : c[j] = p[j]
        BY <3>3, <3>4
      <4>2. \A j \in 1..s.len : j \in 1..Len(p)
        BY <3>5
      <4>3. s.len + 1 \in 1..Len(p)
        BY <3>5
      <4> QED BY <3>5, <4>1, <4>2, <4>3, Zenon
    <3>8. \A j \in (s.len + 2)..Len(c) : c[j] = Nil
      <4> SUFFICES ASSUME NEW j \in (s.len + 2)..Len(c) PROVE c[j] = Nil
        OBVIOUS
      <4>1. j \in (Len(p) + 1)..(Len(p) + Len(spare)) /\ j - Len(p) \in 1..Len(spare)
        BY <3>5, <3>6
      <4>2. c[j] = spare[j - Len(p)]
        BY <3>3, <3>4, <4>1
      <4> QED BY <2>3, <4>1, <4>2
    <3> QED BY <3>6, <3>7, <3>8
  <2> HIDE DEF c
  <2>5. IsHeap(g) /\ Len(g) = Len(h) + 1 /\ g[Len(h) + 1] = c /\ Untouched(h, g, {})
    BY <2>4, HeapGrows
  <2> HIDE DEF g
  <2>6. DOMAIN t = {"array", "len"} /\ t.array = Len(h) + 1 /\ t.len = s.len + 1
    OBVIOUS
  <2> HIDE DEF t
  <2>7. IsSlice(g, t)
    BY <1>1, <2>3, <2>4, <2>5, <2>6 DEF IsSlice
  <2>8. Untouched(h, g, {s.array}) /\ g[s.array] = h[s.array]
    BY <1>1, <2>5 DEF Untouched
  <2>9. Grown(h, s, x, g, t)
    <3>1. g[t.array] = c /\ t.len + 1 = s.len + 2
      BY <1>1, <2>5, <2>6
    <3> QED BY <2>4, <2>5, <2>6, <2>7, <2>8, <3>1 DEF Grown
  <2> QED BY <2>1, <2>9
<1> QED BY <1>2, <1>3

(* make() and copy(): an array of its own. *)
LEMMA FreshSlice ==
    ASSUME NEW h, IsHeap(h), NEW c \in Seq(Cells)
    PROVE  LET f == Fresh(h, c) IN
           /\ IsHeap(f.heap) /\ IsSlice(f.heap, f.slice) /\ Untouched(h, f.heap, {})
           /\ f.slice.array = Len(h) + 1 /\ Len(f.heap) = Len(h) + 1
           /\ f.slice.len = Len(c) /\ f.heap[Len(h) + 1] = c
<1> DEFINE g == Append(h, c)
           t == [array |-> Len(h) + 1, len |-> Len(c)]
<1>1. Fresh(h, c).heap = g /\ Fresh(h, c).slice = t
  BY DEF Fresh
<1>2. IsHeap(g) /\ Len(g) = Len(h) + 1 /\ g[Len(h) + 1] = c /\ Untouched(h, g, {})
  BY HeapGrows
<1> HIDE DEF g
<1>3. DOMAIN t = {"array", "len"} /\ t.array = Len(h) + 1 /\ t.len = Len(c) /\ Len(c) \in Nat
  OBVIOUS
<1> HIDE DEF t
<1>4. Len(h) \in Nat
  BY HeapArray
<1>5. IsSlice(g, t)
  BY <1>2, <1>3, <1>4 DEF IsSlice
<1> QED BY <1>1, <1>2, <1>3, <1>5

-----------------------------------------------------------------------------
(* Seeds and worlds. *)

SeedShape(d) ==
    /\ DOMAIN d = {"list", "added", "removed", "reactive", "current", "parent", "trace",
                   "traceSet", "spanSet", "code", "settings", "swapped", "used"}
    /\ IsPair(d.trace) /\ IsPair(d.parent)
    /\ d.trace.trace \in Int /\ d.trace.span \in Int
    /\ d.traceSet \in BOOLEAN /\ d.spanSet \in BOOLEAN

(* Its two slices have nothing in common, and hold bases and callbacks. *)
SeedSlices(h, d) ==
    /\ IsSlice(h, d.list) /\ IsSlice(h, d.reactive)
    /\ d.list.array = d.reactive.array => d.list.array = 1
    /\ \A j \in 1..Len(h[d.list.array]) : h[d.list.array][j] \in Bases \cup {Nil}
    /\ \A j \in 1..d.list.len : h[d.list.array][j] \in Bases
    /\ \A j \in 1..Len(h[d.reactive.array]) : h[d.reactive.array][j] \in DOMAIN Callbacks \cup {Nil}
    /\ d.current \in 0..d.reactive.len

IsWorld(w) ==
    /\ DOMAIN w = {"heap", "fresh", "seed", "called"}
    /\ IsHeap(w.heap)
    /\ SeedShape(w.seed)
    /\ SeedSlices(w.heap, w.seed)

(* What becomes of the heap of w, and of the slices of its seed.  The
   callbacks stay where they are, but for those of the slots S. *)
HeapMoves(w, v, S) ==
    LET l == w.seed.list.array  r == w.seed.reactive.array IN
    /\ Untouched(w.heap, v.heap, {l, r})
    /\ v.seed.list.array \in {l} \cup ((Len(w.heap) + 1)..Len(v.heap))
    /\ v.seed.reactive.array \in {r} \cup ((Len(w.heap) + 1)..Len(v.heap))
    /\ v.seed.reactive.len >= w.seed.reactive.len
    /\ \A j \in 1..Len(w.heap[l]) :
          /\ v.heap[l][j] \in Bases \cup {Nil}
          /\ w.heap[l][j] \in Bases => v.heap[l][j] \in Bases
    /\ \A j \in 1..Len(w.heap[r]) : v.heap[r][j] \in DOMAIN Callbacks \cup {Nil}
    /\ \A j \in 1..w.seed.reactive.len : j \notin S =>
          v.heap[v.seed.reactive.array][j] = w.heap[r][j]
    /\ \A j \in (w.seed.reactive.len + 1)..v.seed.reactive.len :
          v.heap[v.seed.reactive.array][j] \in DOMAIN Callbacks

(* Modifiers replace the current callback only. *)
HeapFollows(w, v) ==
    HeapMoves(w, v, {w.seed.current}) /\ v.seed.current = w.seed.current

(* The slices of a world, for the provers. *)
LEMMA WorldSlices ==
    ASSUME NEW w, IsWorld(w)
    PROVE  LET l == w.seed.list  r == w.seed.reactive IN
           /\ Len(w.heap) \in Nat /\ w.heap[1] = <<>> /\ 1 \in 1..Len(w.heap)
           /\ l.array \in 1..Len(w.heap) /\ r.array \in 1..Len(w.heap)
           /\ Len(w.heap[l.array]) \in Nat /\ Len(w.heap[r.array]) \in Nat
           /\ l.len \in 0..Len(w.heap[l.array]) /\ r.len \in 0..Len(w.heap[r.array])
           /\ l.array = r.array => l.array = 1
           /\ l.array = 1 => Len(w.heap[l.array]) = 0
           /\ r.array = 1 => Len(w.heap[r.array]) = 0
           /\ w.seed.current \in 0..r.len
<1>1. Len(w.heap) \in Nat /\ w.heap[1] = <<>> /\ 1 \in 1..Len(w.heap)
  BY HeapArray DEF IsWorld, IsHeap
<1>2. IsSlice(w.heap, w.seed.list) /\ IsSlice(w.heap, w.seed.reactive)
  BY DEF IsWorld, SeedSlices
<1>3. \A a \in 1..Len(w.heap) : Len(w.heap[a]) \in Nat
  BY HeapArray DEF IsWorld
<1>4. Len(<<>>) = 0
  OBVIOUS
<1> QED BY <1>1, <1>2, <1>3, <1>4 DEF IsWorld, SeedSlices, IsSlice

(* Two changes of the heap, each of some arrays only, are one of those of
   both. *)
LEMMA UntouchedTrans ==
    ASSUME NEW h, NEW g, NEW k, NEW A, NEW B, NEW C, Len(h) \in Nat, Len(g) \in Nat, Len(k) \in Nat,
           Untouched(h, g, A), Untouched(g, k, B),
           A \subseteq C, \A b \in B : b \in C \/ b > Len(h)
    PROVE  Untouched(h, k, C)
<1>1. Len(k) >= Len(h) /\ \A a \in 1..Len(h) : a \in 1..Len(g) /\ (a \notin C => a \notin A /\ a \notin B)
  BY DEF Untouched
<1> QED BY <1>1 DEF Untouched

(* Two changes of a seed and of the heap are one. *)
LEMMA HeapMovesTrans ==
    ASSUME NEW w, NEW v, NEW u, IsWorld(w), IsWorld(v), IsWorld(u), NEW R, NEW S, NEW T,
           HeapMoves(w, v, R), HeapMoves(v, u, S), R \subseteq T, S \subseteq T,
           S \subseteq 0..w.seed.reactive.len
    PROVE  HeapMoves(w, u, T)
<1> DEFINE l == w.seed.list.array  r == w.seed.reactive.array
           m == v.seed.list.array  s == v.seed.reactive.array
           x == u.seed.list.array  y == u.seed.reactive.array
           h == w.heap  g == v.heap  k == u.heap
<1> HIDE DEF l, r, m, s, x, y, h, g, k
<1>1. /\ Len(h) \in Nat /\ Len(g) \in Nat /\ Len(k) \in Nat
      /\ l \in 1..Len(h) /\ r \in 1..Len(h) /\ (l = r => l = 1)
      /\ m \in 1..Len(g) /\ s \in 1..Len(g)
      /\ Len(h[l]) \in Nat /\ Len(h[r]) \in Nat
      /\ (l = 1 => Len(h[l]) = 0) /\ (r = 1 => Len(h[r]) = 0)
  BY WorldSlices DEF l, r, m, s, x, y, h, g, k
<1>2. /\ Untouched(h, g, {l, r}) /\ Untouched(g, k, {m, s})
      /\ m \in {l} \cup ((Len(h) + 1)..Len(g))
      /\ s \in {r} \cup ((Len(h) + 1)..Len(g))
  BY DEF HeapMoves, l, r, m, s, x, y, h, g, k
<1>3. Untouched(h, k, {l, r})
  <2>1. {l, r} \subseteq {l, r} /\ \A b \in {m, s} : b \in {l, r} \/ b > Len(h)
    BY <1>1, <1>2
  <2> QED BY <1>1, <1>2, <2>1, UntouchedTrans
<1>4. Len(g) >= Len(h) /\ Len(k) >= Len(g)
      /\ l \in 1..Len(g) /\ r \in 1..Len(g)
      /\ Len(g[l]) = Len(h[l]) /\ Len(g[r]) = Len(h[r])
  BY <1>1, <1>2 DEF Untouched
<1>5. /\ x \in {l} \cup ((Len(h) + 1)..Len(k))
      /\ y \in {r} \cup ((Len(h) + 1)..Len(k))
  <2>1. /\ x \in {m} \cup ((Len(g) + 1)..Len(k))
        /\ y \in {s} \cup ((Len(g) + 1)..Len(k))
    BY DEF HeapMoves, l, r, m, s, x, y, h, g, k
  <2> QED BY <1>1, <1>2, <1>4, <2>1
<1>6. ASSUME NEW j \in 1..Len(h[l])
      PROVE  /\ k[l][j] \in Bases \cup {Nil}
             /\ h[l][j] \in Bases => k[l][j] \in Bases
  <2>1. /\ g[l][j] \in Bases \cup {Nil}
        /\ h[l][j] \in Bases => g[l][j] \in Bases
    BY <1>6 DEF HeapMoves, l, r, m, s, x, y, h, g, k
  <2>2. CASE m = l
    <3>1. /\ k[l][j] \in Bases \cup {Nil}
          /\ g[l][j] \in Bases => k[l][j] \in Bases
      BY <1>4, <1>6, <2>2 DEF HeapMoves, l, r, m, s, x, y, h, g, k
    <3> QED BY <2>1, <3>1
  <2>3. CASE m # l
    <3>1. l # r
      BY <1>1, <1>6
    <3>2. l # m /\ l # s
      BY <1>1, <1>2, <2>3, <3>1
    <3>3. k[l] = g[l]
      BY <1>2, <1>4, <3>2 DEF Untouched
    <3> QED BY <2>1, <3>3
  <2> QED BY <2>2, <2>3
<1>7. ASSUME NEW j \in 1..Len(h[r])
      PROVE  k[r][j] \in DOMAIN Callbacks \cup {Nil}
  <2>1. g[r][j] \in DOMAIN Callbacks \cup {Nil}
    BY <1>7 DEF HeapMoves, l, r, m, s, x, y, h, g, k
  <2>2. CASE s = r
    BY <1>4, <1>7, <2>2 DEF HeapMoves, l, r, m, s, x, y, h, g, k
  <2>3. CASE s # r
    <3>1. l # r
      BY <1>1, <1>7
    <3>2. r # m /\ r # s
      BY <1>1, <1>2, <2>3, <3>1
    <3>3. k[r] = g[r]
      BY <1>2, <1>4, <3>2 DEF Untouched
    <3> QED BY <2>1, <3>3
  <2> QED BY <2>2, <2>3
<1>8. /\ u.seed.reactive.len >= w.seed.reactive.len
      /\ \A j \in 1..w.seed.reactive.len : j \notin T => k[y][j] = h[r][j]
      /\ \A j \in (w.seed.reactive.len + 1)..u.seed.reactive.len : k[y][j] \in DOMAIN Callbacks
  <2> DEFINE a == w.seed.reactive.len  b == v.seed.reactive.len  c == u.seed.reactive.len
  <2>1. a \in Nat /\ b \in Nat /\ c \in Nat
    BY WorldSlices
  <2>2. /\ b >= a
        /\ \A j \in 1..a : j \notin R => g[s][j] = h[r][j]
        /\ \A j \in (a + 1)..b : g[s][j] \in DOMAIN Callbacks
    BY DEF HeapMoves, r, s, h, g
  <2>3. /\ c >= b
        /\ \A j \in 1..b : j \notin S => k[y][j] = g[s][j]
        /\ \A j \in (b + 1)..c : k[y][j] \in DOMAIN Callbacks
    BY DEF HeapMoves, s, y, g, k
  <2>4. S \subseteq 0..a
    OBVIOUS
  <2> HIDE DEF a, b, c
  <2>5. \A j \in 1..a : j \in 1..b
    BY <2>1, <2>2
  <2>6. \A j \in 1..a : j \notin T => k[y][j] = h[r][j]
    BY <2>2, <2>3, <2>5
  <2>7. ASSUME NEW j \in (a + 1)..c PROVE k[y][j] \in DOMAIN Callbacks
    <3>1. j \in (a + 1)..b \/ j \in (b + 1)..c
      BY <2>1, <2>2
    <3>2. j \in (a + 1)..b => j \in 1..b /\ j \notin S
      BY <2>1, <2>4
    <3> QED BY <2>2, <2>3, <3>1, <3>2
  <2> QED BY <2>1, <2>2, <2>3, <2>6, <2>7 DEF a, b, c
<1> QED BY <1>3, <1>5, <1>6, <1>7, <1>8 DEF HeapMoves, l, r, m, s, x, y, h, g, k

(* A seed that follows from one that follows from a seed follows from it. *)
LEMMA HeapFollowsTrans ==
    ASSUME NEW w, NEW v, NEW u, IsWorld(w), IsWorld(v), IsWorld(u),
           HeapFollows(w, v), HeapFollows(v, u)
    PROVE  HeapFollows(w, u)
<1>1. /\ HeapMoves(w, v, {w.seed.current}) /\ HeapMoves(v, u, {w.seed.current})
      /\ v.seed.current = w.seed.current /\ u.seed.current = w.seed.current
  BY DEF HeapFollows
<1>2. {w.seed.current} \subseteq 0..w.seed.reactive.len
  BY WorldSlices
<1>3. HeapMoves(w, u, {w.seed.current})
  BY <1>1, <1>2, HeapMovesTrans
<1> QED BY <1>1, <1>3 DEF HeapFollows

(* Between the end of the callbacks and itself there is no callback. *)
LEMMA NoneAfter ==
    ASSUME NEW w, IsWorld(w)
    PROVE  LET n == w.seed.reactive.len IN n >= n /\ (n + 1)..n = {}
<1>1. PICK n \in Nat : n = w.seed.reactive.len
  BY WorldSlices
<1>2. n >= n /\ (n + 1)..n = {}
  OBVIOUS
<1> QED BY <1>1, <1>2, Zenon

(* Where no callback is added. *)
LEMMA NoCallbackAdded ==
    ASSUME NEW w, IsWorld(w), NEW v,
           v.seed.current = w.seed.current, v.seed.reactive = w.seed.reactive,
           Untouched(w.heap, v.heap, {w.seed.list.array, w.seed.reactive.array}),
           v.seed.list.array \in {w.seed.list.array} \cup ((Len(w.heap) + 1)..Len(v.heap)),
           \A j \in 1..Len(w.heap[w.seed.list.array]) :
              /\ v.heap[w.seed.list.array][j] \in Bases \cup {Nil}
              /\ w.heap[w.seed.list.array][j] \in Bases => v.heap[w.seed.list.array][j] \in Bases,
           \A j \in 1..Len(w.heap[w.seed.reactive.array]) :
              v.heap[w.seed.reactive.array][j] \in DOMAIN Callbacks \cup {Nil},
           \A j \in 1..w.seed.reactive.len : j # w.seed.current =>
              v.heap[w.seed.reactive.array][j] = w.heap[w.seed.reactive.array][j]
    PROVE  HeapFollows(w, v)
<1>1. /\ w.seed.reactive.len >= w.seed.reactive.len
      /\ (w.seed.reactive.len + 1)..w.seed.reactive.len = {}
  BY NoneAfter, Zenon
<1>2. \A j : j \notin {w.seed.current} => j # w.seed.current
  OBVIOUS
<1>3. HeapMoves(w, v, {w.seed.current})
  BY <1>1, <1>2, Zenon DEF HeapMoves
<1> QED BY <1>3 DEF HeapFollows

(* A change that leaves the slices of a seed and the heap alone keeps them
   in place. *)
LEMMA SameSlices ==
    ASSUME NEW w, IsWorld(w), NEW v, DOMAIN v = DOMAIN w, v.heap = w.heap, SeedShape(v.seed),
           v.seed.list = w.seed.list, v.seed.reactive = w.seed.reactive,
           v.seed.current = w.seed.current
    PROVE  IsWorld(v) /\ HeapFollows(w, v)
<1>1. IsWorld(v)
  BY DEF IsWorld, SeedSlices
<1>2. Untouched(w.heap, v.heap, {w.seed.list.array, w.seed.reactive.array})
  BY WorldSlices DEF Untouched
<1>3. /\ \A j \in 1..Len(w.heap[w.seed.list.array]) : w.heap[w.seed.list.array][j] \in Bases \cup {Nil}
      /\ \A j \in 1..Len(w.heap[w.seed.reactive.array]) :
            w.heap[w.seed.reactive.array][j] \in DOMAIN Callbacks \cup {Nil}
  BY DEF IsWorld, SeedSlices
<1>4. w.seed.reactive.len >= w.seed.reactive.len
  BY WorldSlices
<1>5. HeapFollows(w, v)
  BY <1>2, <1>3, <1>4, NoCallbackAdded, Zenon
<1> QED BY <1>1, <1>5

(* What modifiers do to the rest of the seed. *)
Kept(w, v) ==
    /\ v.fresh = w.fresh /\ v.called = w.called
    /\ v.seed.code = w.seed.code /\ v.seed.used = w.seed.used

SameIds(d, e) ==
    /\ e.trace = d.trace /\ e.parent = d.parent
    /\ e.traceSet = d.traceSet /\ e.spanSet = d.spanSet

(* A base is appended, or a callback. *)
LEMMA ListGrows ==
    ASSUME NEW w, IsWorld(w), NEW b \in Bases, NEW v,
           Grown(w.heap, w.seed.list, b, v.heap, v.seed.list),
           v.seed.reactive = w.seed.reactive, v.seed.current = w.seed.current
    PROVE  SeedSlices(v.heap, v.seed) /\ HeapFollows(w, v)
<1> DEFINE l == w.seed.list.array     r == w.seed.reactive.array
           m == v.seed.list.array     h == w.heap   g == v.heap
           n == w.seed.list.len       k == v.seed.list.len
<1> HIDE DEF l, r, m, h, g, n, k
<1>1. /\ Len(h) \in Nat /\ l \in 1..Len(h) /\ r \in 1..Len(h) /\ (l = r => l = 1)
      /\ Len(h[l]) \in Nat /\ Len(h[r]) \in Nat /\ n \in 0..Len(h[l])
      /\ (l = 1 => Len(h[l]) = 0) /\ (r = 1 => Len(h[r]) = 0)
      /\ w.seed.reactive.len \in Nat
  BY WorldSlices DEF l, r, h, n
<1>2. /\ IsHeap(g) /\ IsSlice(g, v.seed.list) /\ Untouched(h, g, {l})
      /\ k = n + 1 /\ g[m][k] = b
      /\ \/ /\ m = l
            /\ \A j \in 1..Len(h[l]) : j # k => g[l][j] = h[l][j]
         \/ /\ m = Len(h) + 1 /\ Len(g) = Len(h) + 1
            /\ g[l] = h[l]
            /\ \A j \in 1..n : g[m][j] = h[l][j]
            /\ \A j \in (k + 1)..Len(g[m]) : g[m][j] = Nil
  BY Zenon DEF Grown, l, m, h, g, n, k
<1>3. /\ Len(g) \in Nat /\ m \in 1..Len(g) /\ k \in 0..Len(g[m]) /\ Len(g[m]) \in Nat
  BY <1>2, HeapArray DEF IsSlice, m, k
<1>4. /\ \A j \in 1..Len(h[l]) : h[l][j] \in Bases \cup {Nil}
      /\ \A j \in 1..n : h[l][j] \in Bases
      /\ \A j \in 1..Len(h[r]) : h[r][j] \in DOMAIN Callbacks \cup {Nil}
      /\ IsSlice(h, w.seed.reactive) /\ w.seed.current \in 0..w.seed.reactive.len
  BY DEF IsWorld, SeedSlices, l, r, h, n
<1>5. /\ Len(g) >= Len(h) /\ l \in 1..Len(g) /\ r \in 1..Len(g)
      /\ Len(g[l]) = Len(h[l]) /\ g[r] = h[r]
  <2>1. /\ Len(g) >= Len(h)
        /\ Len(g[l]) = Len(h[l]) /\ Len(g[r]) = Len(h[r]) /\ (r # l => g[r] = h[r])
    BY <1>1, <1>2 DEF Untouched
  <2>2. r = l => g[r] = h[r]
    <3> SUFFICES ASSUME r = l PROVE g[1] = h[1]
      BY <1>1
    <3>1. h[1] = <<>> /\ g[1] = <<>>
      BY <1>2 DEF IsWorld, IsHeap, h
    <3> QED BY <3>1
  <2> QED BY <1>1, <1>3, <2>1, <2>2
<1>6. IsSlice(g, v.seed.reactive)
  BY <1>4, <1>5, Zenon DEF IsSlice, r
<1>7. /\ \A j \in 1..Len(g[m]) : g[m][j] \in Bases \cup {Nil}
      /\ \A j \in 1..k : g[m][j] \in Bases
      /\ \A j \in 1..Len(h[l]) : /\ g[l][j] \in Bases \cup {Nil}
                                 /\ h[l][j] \in Bases => g[l][j] \in Bases
  <2>1. CASE m = l
    <3>1. \A j \in 1..Len(h[l]) : g[l][j] = h[l][j] \/ (j = k /\ g[l][j] = b)
      BY <1>1, <1>2, <2>1
    <3>2. k \in 0..Len(h[l])
      BY <1>3, <1>5, <2>1
    <3>3. \A j \in 1..k : j \in 1..Len(h[l]) /\ (j \in 1..n \/ j = k)
      BY <1>1, <1>2, <3>2
    <3> QED BY <1>2, <1>4, <1>5, <2>1, <3>1, <3>3
  <2>2. CASE m # l
    <3>1. \A j \in 1..Len(g[m]) : j \in 1..n \/ j = k \/ j \in (k+1)..Len(g[m])
      BY <1>1, <1>2, <1>3
    <3>2. \A j \in 1..k : j \in 1..n \/ j = k
      BY <1>1, <1>2
    <3>3. /\ g[l] = h[l] /\ \A j \in 1..n : g[m][j] \in Bases
          /\ \A j \in (k + 1)..Len(g[m]) : g[m][j] = Nil
      BY <1>2, <1>4, <2>2
    <3> QED BY <1>2, <1>4, <3>1, <3>2, <3>3
  <2> QED BY <2>1, <2>2
<1>8. m = r => m = 1
  BY <1>1, <1>2
<1>9. SeedSlices(g, v.seed)
  BY <1>2, <1>4, <1>5, <1>6, <1>7, <1>8 DEF SeedSlices, m, r, k
<1>10. Untouched(h, g, {l, r})
  BY <1>2 DEF Untouched
<1>11. m \in {l} \cup ((Len(h) + 1)..Len(g))
  BY <1>1, <1>2, <1>3
<1>12. HeapFollows(w, v)
  <2>1. \A j \in 1..Len(h[r]) : g[r][j] \in DOMAIN Callbacks \cup {Nil}
    BY <1>4, <1>5
  <2>2. w.seed.reactive.len >= w.seed.reactive.len /\ v.seed.reactive.array = r
    BY <1>1 DEF r
  <2>3. \A j \in 1..w.seed.reactive.len : g[r][j] = h[r][j]
    BY <1>5
  <2> QED BY <1>5, <1>7, <1>10, <1>11, <2>1, <2>2, <2>3, NoCallbackAdded, Zenon DEF l, r, m, h, g
<1> QED BY <1>9, <1>12 DEF g

(* An append to the reactive slice keeps both slices of the seed in place. *)
LEMMA ReactiveGrows ==
    ASSUME NEW w, IsWorld(w), NEW f \in DOMAIN Callbacks, NEW v,
           Grown(w.heap, w.seed.reactive, f, v.heap, v.seed.reactive),
           v.seed.list = w.seed.list, v.seed.current = w.seed.current
    PROVE  SeedSlices(v.heap, v.seed) /\ HeapFollows(w, v)
<1> DEFINE r == w.seed.list.array     l == w.seed.reactive.array
           m == v.seed.reactive.array h == w.heap   g == v.heap
           n == w.seed.reactive.len   k == v.seed.reactive.len
<1> HIDE DEF l, r, m, h, g, n, k
<1>1. /\ Len(h) \in Nat /\ l \in 1..Len(h) /\ r \in 1..Len(h) /\ (l = r => l = 1)
      /\ Len(h[l]) \in Nat /\ Len(h[r]) \in Nat /\ n \in 0..Len(h[l])
      /\ (l = 1 => Len(h[l]) = 0) /\ (r = 1 => Len(h[r]) = 0)
      /\ w.seed.reactive.len \in Nat
  BY WorldSlices DEF l, r, h, n
<1>2. /\ IsHeap(g) /\ IsSlice(g, v.seed.reactive) /\ Untouched(h, g, {l})
      /\ k = n + 1 /\ g[m][k] = f
      /\ \/ /\ m = l
            /\ \A j \in 1..Len(h[l]) : j # k => g[l][j] = h[l][j]
         \/ /\ m = Len(h) + 1 /\ Len(g) = Len(h) + 1
            /\ g[l] = h[l]
            /\ \A j \in 1..n : g[m][j] = h[l][j]
            /\ \A j \in (k + 1)..Len(g[m]) : g[m][j] = Nil
  BY Zenon DEF Grown, l, m, h, g, n, k
<1>3. /\ Len(g) \in Nat /\ m \in 1..Len(g) /\ k \in 0..Len(g[m]) /\ Len(g[m]) \in Nat
  BY <1>2, HeapArray DEF IsSlice, m, k
<1>4. /\ \A j \in 1..Len(h[l]) : h[l][j] \in DOMAIN Callbacks \cup {Nil}
      /\ \A j \in 1..Len(h[r]) : h[r][j] \in Bases \cup {Nil}
      /\ \A j \in 1..w.seed.list.len : h[r][j] \in Bases
      /\ IsSlice(h, w.seed.list) /\ w.seed.current \in 0..n
  BY DEF IsWorld, SeedSlices, l, r, h, n
<1>5. /\ Len(g) >= Len(h) /\ l \in 1..Len(g) /\ r \in 1..Len(g)
      /\ Len(g[l]) = Len(h[l]) /\ g[r] = h[r]
  <2>1. /\ Len(g) >= Len(h)
        /\ Len(g[l]) = Len(h[l]) /\ Len(g[r]) = Len(h[r]) /\ (r # l => g[r] = h[r])
    BY <1>1, <1>2 DEF Untouched
  <2>2. r = l => g[r] = h[r]
    <3> SUFFICES ASSUME r = l PROVE g[1] = h[1]
      BY <1>1
    <3>1. h[1] = <<>> /\ g[1] = <<>>
      BY <1>2 DEF IsWorld, IsHeap, h
    <3> QED BY <3>1
  <2> QED BY <1>1, <1>3, <2>1, <2>2
<1>6. IsSlice(g, v.seed.list)
  BY <1>4, <1>5, Zenon DEF IsSlice, r
<1>7. /\ \A j \in 1..Len(g[m]) : g[m][j] \in DOMAIN Callbacks \cup {Nil}
      /\ \A j \in 1..n : g[m][j] = h[l][j]
      /\ \A j \in 1..Len(h[l]) : g[l][j] \in DOMAIN Callbacks \cup {Nil}
  <2>1. CASE m = l
    <3>1. \A j \in 1..Len(h[l]) : g[l][j] = h[l][j] \/ (j = k /\ g[l][j] = f)
      BY <1>1, <1>2, <2>1
    <3>2. \A j \in 1..n : j \in 1..Len(h[l]) /\ j # k
      BY <1>1, <1>2
    <3>3. \A j \in 1..n : g[l][j] = h[l][j]
      BY <1>2, <2>1, <3>2
    <3> QED BY <1>2, <1>4, <1>5, <2>1, <3>1, <3>3
  <2>2. CASE m # l
    <3>1. \A j \in 1..Len(g[m]) : j \in 1..n \/ j = k \/ j \in (k+1)..Len(g[m])
      BY <1>1, <1>2, <1>3
    <3>2. \A j \in 1..n : j \in 1..Len(h[l])
      BY <1>1
    <3>3. /\ g[l] = h[l] /\ \A j \in 1..n : g[m][j] = h[l][j]
          /\ \A j \in (k + 1)..Len(g[m]) : g[m][j] = Nil
      BY <1>2, <2>2
    <3> QED BY <1>2, <1>4, <3>1, <3>2, <3>3
  <2> QED BY <2>1, <2>2
<1>8. m = r => m = 1
  BY <1>1, <1>2
<1>9. SeedSlices(g, v.seed)
  <2>1. \A j \in 1..Len(g[r]) : g[r][j] \in Bases \cup {Nil}
    BY <1>4, <1>5
  <2>2. \A j \in 1..w.seed.list.len : g[r][j] \in Bases
    BY <1>4, <1>5
  <2>3. v.seed.current \in 0..k
    BY <1>1, <1>2, <1>4
  <2> QED BY <1>2, <1>6, <1>7, <1>8, <2>1, <2>2, <2>3 DEF SeedSlices, m, r, k
<1>10. Untouched(h, g, {l, r})
  BY <1>2 DEF Untouched
<1>11. m \in {l} \cup ((Len(h) + 1)..Len(g))
  BY <1>1, <1>2, <1>3
<1>12. HeapFollows(w, v)
  <2>1. /\ \A j \in 1..Len(h[r]) : g[r][j] \in Bases \cup {Nil}
        /\ \A j \in 1..Len(h[r]) : h[r][j] \in Bases => g[r][j] \in Bases
    BY <1>4, <1>5
  <2>2. k >= n /\ v.seed.list.array = r /\ {l, r} = {r, l}
    BY <1>1, <1>2 DEF r
  <2>3. \A j \in (n + 1)..k : j = k
    BY <1>1, <1>2
  <2>4. \A j \in (n + 1)..k : g[m][j] \in DOMAIN Callbacks
    BY <1>2, <2>3
  <2>5. HeapMoves(w, v, {w.seed.current})
    BY <1>7, <1>10, <1>11, <2>1, <2>2, <2>4, Zenon DEF HeapMoves, l, r, m, h, g, k, n
  <2> QED BY <2>5 DEF HeapFollows
<1> QED BY <1>9, <1>12 DEF g

(* WithBase() keeps the slices of the seed in place, and its identifiers. *)
LEMMA WithBaseFollows ==
    ASSUME NEW w, IsWorld(w), NEW b \in Bases
    PROVE  LET v == WithBase(w, b) IN
           IsWorld(v) /\ HeapFollows(w, v) /\ Kept(w, v) /\ SameIds(w.seed, v.seed)
<1> DEFINE a == Appended(w.heap, w.seed.list, b)
           v == WithBase(w, b)
<1>1. /\ IsHeap(w.heap) /\ IsSlice(w.heap, w.seed.list) /\ b \in Cells
      /\ SeedShape(w.seed) /\ SeedSlices(w.heap, w.seed)
      /\ DOMAIN w = {"heap", "fresh", "seed", "called"}
  BY DEF IsWorld, SeedSlices, Cells
<1>2. Grown(w.heap, w.seed.list, b, a.heap, a.slice)
  BY <1>1, AppendedGrows
<1> HIDE DEF a
<1>3. v = [w EXCEPT !.heap = a.heap, !.seed.list = a.slice, !.seed.added = Append(@, b)]
  BY DEF WithBase, a
<1>4. /\ DOMAIN v = {"heap", "fresh", "seed", "called"} /\ v.heap = a.heap
      /\ v.fresh = w.fresh /\ v.called = w.called
      /\ DOMAIN v.seed = DOMAIN w.seed
      /\ v.seed.list = a.slice /\ v.seed.added = Append(w.seed.added, b)
      /\ \A f \in DOMAIN w.seed \ {"list", "added"} : v.seed[f] = w.seed[f]
  <2>1. /\ DOMAIN v = DOMAIN w /\ v.heap = a.heap /\ v.fresh = w.fresh /\ v.called = w.called
    BY <1>1, <1>3, Zenon
  <2>2. v.seed = [w.seed EXCEPT !.list = a.slice, !.added = Append(w.seed.added, b)]
    BY <1>1, <1>3, Zenon
  <2> HIDE DEF v
  <2>3. "list" \in DOMAIN w.seed /\ "added" \in DOMAIN w.seed
    BY <1>1 DEF SeedShape
  <2>4. /\ DOMAIN v.seed = DOMAIN w.seed /\ v.seed.list = a.slice /\ v.seed.added = Append(w.seed.added, b)
        /\ \A f \in DOMAIN w.seed \ {"list", "added"} : v.seed[f] = w.seed[f]
    BY <2>2, <2>3
  <2> QED BY <1>1, <2>1, <2>4
<1> HIDE DEF v
<1>5. /\ v.seed.removed = w.seed.removed /\ v.seed.reactive = w.seed.reactive
      /\ v.seed.current = w.seed.current /\ v.seed.parent = w.seed.parent
      /\ v.seed.trace = w.seed.trace /\ v.seed.traceSet = w.seed.traceSet
      /\ v.seed.spanSet = w.seed.spanSet /\ v.seed.code = w.seed.code
      /\ v.seed.used = w.seed.used
  BY <1>1, <1>4 DEF SeedShape
<1>6. SeedShape(v.seed)
  BY <1>1, <1>4, <1>5 DEF SeedShape
<1>7. SeedSlices(v.heap, v.seed) /\ HeapFollows(w, v)
  BY <1>2, <1>4, <1>5, ListGrows
<1>8. IsWorld(v)
  BY <1>2, <1>4, <1>6, <1>7 DEF IsWorld, Grown
<1>9. Kept(w, v) /\ SameIds(w.seed, v.seed)
  BY <1>4, <1>5 DEF Kept, SameIds
<1> QED BY <1>7, <1>8, <1>9 DEF v

(* WithReactive() keeps the slices of the seed in place, and its
   identifiers. *)
LEMMA WithReactiveFollows ==
    ASSUME NEW w, IsWorld(w), NEW f \in DOMAIN Callbacks
    PROVE  LET v == WithReactive(w, f) IN
           IsWorld(v) /\ HeapFollows(w, v) /\ Kept(w, v) /\ SameIds(w.seed, v.seed)
<1> DEFINE a == Appended(w.heap, w.seed.reactive, f)
           v == WithReactive(w, f)
<1>1. /\ IsHeap(w.heap) /\ IsSlice(w.heap, w.seed.reactive) /\ f \in Cells
      /\ SeedShape(w.seed) /\ SeedSlices(w.heap, w.seed)
      /\ DOMAIN w = {"heap", "fresh", "seed", "called"}
  BY DEF IsWorld, SeedSlices, Cells
<1>2. Grown(w.heap, w.seed.reactive, f, a.heap, a.slice)
  BY <1>1, AppendedGrows
<1> HIDE DEF a
<1>3. v = [w EXCEPT !.heap = a.heap, !.seed.reactive = a.slice]
  BY DEF WithReactive, a
<1>4. /\ DOMAIN v = {"heap", "fresh", "seed", "called"} /\ v.heap = a.heap
      /\ v.fresh = w.fresh /\ v.called = w.called
      /\ DOMAIN v.seed = DOMAIN w.seed
      /\ v.seed.reactive = a.slice
      /\ \A x \in DOMAIN w.seed \ {"reactive"} : v.seed[x] = w.seed[x]
  BY <1>1, <1>3 DEF SeedShape
<1> HIDE DEF v
<1>5. /\ v.seed.removed = w.seed.removed /\ v.seed.list = w.seed.list
      /\ v.seed.added = w.seed.added
      /\ v.seed.current = w.seed.current /\ v.seed.parent = w.seed.parent
      /\ v.seed.trace = w.seed.trace /\ v.seed.traceSet = w.seed.traceSet
      /\ v.seed.spanSet = w.seed.spanSet /\ v.seed.code = w.seed.code
      /\ v.seed.used = w.seed.used
  BY <1>1, <1>4 DEF SeedShape
<1>6. SeedShape(v.seed)
  BY <1>1, <1>4, <1>5 DEF SeedShape
<1>7. SeedSlices(v.heap, v.seed) /\ HeapFollows(w, v)
  BY <1>2, <1>4, <1>5, ReactiveGrows
<1>8. IsWorld(v)
  BY <1>2, <1>4, <1>6, <1>7 DEF IsWorld, Grown
<1>9. Kept(w, v) /\ SameIds(w.seed, v.seed)
  BY <1>4, <1>5 DEF Kept, SameIds
<1> QED BY <1>7, <1>8, <1>9 DEF v

(* A sequence of which one element is replaced. *)
LEMMA SeqExcept ==
    ASSUME NEW S, NEW q \in Seq(S), NEW i, NEW x \in S
    PROVE  LET c == [q EXCEPT ![i] = x] IN
           /\ c \in Seq(S) /\ Len(c) = Len(q)
           /\ \A j \in 1..Len(q) : c[j] = IF j = i THEN x ELSE q[j]
<1> DEFINE c == [q EXCEPT ![i] = x]
<1>1. Len(q) \in Nat /\ q \in [1..Len(q) -> S]
  BY LenProperties
<1>2. c \in [1..Len(q) -> S] /\ \A j \in 1..Len(q) : c[j] = IF j = i THEN x ELSE q[j]
  BY <1>1
<1> HIDE DEF c
<1>3. c \in Seq(S) /\ Len(c) = Len(q)
  BY <1>1, <1>2
<1> QED BY <1>2, <1>3 DEF c

(* A callback takes another's place, or leaves it empty. *)
LEMMA WithReactiveReplacedFollows ==
    ASSUME NEW w, IsWorld(w), NEW f \in DOMAIN Callbacks \cup {Nil}
    PROVE  LET v == WithReactiveReplaced(w, f) IN
           IsWorld(v) /\ HeapFollows(w, v) /\ Kept(w, v) /\ SameIds(w.seed, v.seed)
<1> DEFINE h == w.heap  r == w.seed.reactive.array  l == w.seed.list.array
           i == w.seed.current
           c == [h[r] EXCEPT ![i] = f]
           g == [h EXCEPT ![r] = c]
           v == WithReactiveReplaced(w, f)
<1>1. /\ IsHeap(h) /\ SeedShape(w.seed) /\ SeedSlices(h, w.seed)
      /\ DOMAIN w = {"heap", "fresh", "seed", "called"}
  BY DEF IsWorld
<1>2. DOMAIN v = DOMAIN w /\ v.heap = g /\ v.seed = w.seed /\ v.fresh = w.fresh /\ v.called = w.called
  BY <1>1 DEF WithReactiveReplaced
<1> HIDE DEF v
<1>3. /\ Len(h) \in Nat /\ r \in 1..Len(h) /\ l \in 1..Len(h) /\ (l = r => l = 1)
      /\ Len(h[l]) \in Nat /\ Len(h[r]) \in Nat /\ (l = 1 => Len(h[l]) = 0)
      /\ w.seed.reactive.len \in Nat /\ w.seed.reactive.len <= Len(h[r])
      /\ i \in 0..w.seed.reactive.len
  BY WorldSlices
<1>4. /\ h[r] \in Seq(Cells) /\ f \in Cells
  BY <1>1, <1>3, HeapArray DEF Cells
<1> HIDE DEF h, r, l, i
<1>5. /\ c \in Seq(Cells) /\ Len(c) = Len(h[r])
      /\ \A j \in 1..Len(h[r]) : c[j] = IF j = i THEN f ELSE h[r][j]
  <2>1. \A q \in Seq(Cells), x \in Cells :
           /\ [q EXCEPT ![i] = x] \in Seq(Cells) /\ Len([q EXCEPT ![i] = x]) = Len(q)
           /\ \A j \in 1..Len(q) : [q EXCEPT ![i] = x][j] = IF j = i THEN x ELSE q[j]
    BY SeqExcept
  <2> QED BY <1>4, <2>1, Zenon
<1> HIDE DEF c
<1>6. IsHeap(g) /\ Len(g) = Len(h) /\ g[r] = c /\ Untouched(h, g, {r})
  BY <1>1, <1>3, <1>5, HeapWritten
<1> HIDE DEF g
<1>7. /\ \A j \in 1..Len(h[r]) : h[r][j] \in DOMAIN Callbacks \cup {Nil}
      /\ \A j \in 1..Len(h[l]) : h[l][j] \in Bases \cup {Nil}
      /\ \A j \in 1..w.seed.list.len : h[l][j] \in Bases
      /\ IsSlice(h, w.seed.list) /\ IsSlice(h, w.seed.reactive)
  BY <1>1 DEF SeedSlices, h, r, l
<1>8. Len(g[r]) = Len(h[r]) /\ Len(g[l]) = Len(h[l]) /\ g[l] = h[l]
  <2>1. l # r => g[l] = h[l]
    BY <1>3, <1>6 DEF Untouched
  <2>2. l = r => g[l] = h[l]
    BY <1>3, <1>6 DEF IsHeap, IsWorld, h
  <2> QED BY <1>5, <1>6, <2>1, <2>2
<1>9. \A j \in 1..Len(h[r]) : g[r][j] \in DOMAIN Callbacks \cup {Nil}
  BY <1>5, <1>6, <1>7
<1>10. IsSlice(g, w.seed.list) /\ IsSlice(g, w.seed.reactive)
  BY <1>6, <1>7, <1>8 DEF IsSlice, l, r
<1>11. SeedSlices(g, w.seed)
  BY <1>1, <1>7, <1>8, <1>9, <1>10 DEF SeedSlices, l, r
<1>12. IsWorld(v)
  BY <1>1, <1>2, <1>6, <1>11 DEF IsWorld
<1>13. HeapFollows(w, v)
  <2>1. Untouched(h, g, {l, r})
    BY <1>6 DEF Untouched
  <2>2. \A j \in 1..w.seed.reactive.len : j # i => g[r][j] = h[r][j]
    BY <1>3, <1>5, <1>6
  <2>3. w.seed.reactive.len >= w.seed.reactive.len
    BY <1>3
  <2>4. /\ \A j \in 1..Len(h[l]) : g[l][j] \in Bases \cup {Nil}
        /\ \A j \in 1..Len(h[l]) : h[l][j] \in Bases => g[l][j] \in Bases
    BY <1>7, <1>8
  <2>5. /\ v.seed.current = w.seed.current /\ v.seed.reactive = w.seed.reactive /\ v.heap = g
        /\ v.seed.list.array \in {l} \cup ((Len(h) + 1)..Len(g))
    BY <1>2 DEF l
  <2> QED BY <1>9, <2>1, <2>2, <2>4, <2>5, NoCallbackAdded DEF l, r, h, i
<1>14. Kept(w, v) /\ SameIds(w.seed, v.seed)
  BY <1>2 DEF Kept, SameIds
<1> QED BY <1>12, <1>13, <1>14 DEF v

(* A sequence of which two elements change places. *)
LEMMA Exchanged ==
    ASSUME NEW S, NEW q \in Seq(S), NEW k \in 1..Len(q), NEW m \in 1..Len(q),
           NEW c, c = [q EXCEPT ![k] = q[m], ![m] = q[k]]
    PROVE  /\ c \in Seq(S) /\ Len(c) = Len(q)
           /\ \A j \in 1..Len(q) : c[j] = IF j = m THEN q[k] ELSE IF j = k THEN q[m] ELSE q[j]
<1>1. Len(q) \in Nat /\ q \in [1..Len(q) -> S]
  BY LenProperties
<1>2. /\ c \in [1..Len(q) -> S]
      /\ \A j \in 1..Len(q) : c[j] = IF j = m THEN q[k] ELSE IF j = k THEN q[m] ELSE q[j]
  BY <1>1
<1>3. c \in Seq(S) /\ Len(c) = Len(q)
  BY <1>1, <1>2
<1> QED BY <1>2, <1>3

(* What k turns of the loop of WithoutBase make of w. *)
TakenOut(w, v, k) ==
    LET l == w.seed.list.array  n == w.seed.list.len IN
    /\ DOMAIN v = DOMAIN w /\ v.fresh = w.fresh /\ v.called = w.called
    /\ DOMAIN v.seed = DOMAIN w.seed
    /\ \A f \in DOMAIN w.seed \ {"list", "removed", "swapped"} : v.seed[f] = w.seed[f]
    /\ DOMAIN v.seed.list = {"array", "len"}
    /\ v.seed.list.array = l /\ v.seed.list.len \in (n - k)..n
    /\ IsHeap(v.heap) /\ Untouched(w.heap, v.heap, {l})
    /\ Len(v.heap) = Len(w.heap)
    /\ \A j \in 1..Len(w.heap[l]) :
          IF j <= n THEN v.heap[l][j] \in Bases ELSE v.heap[l][j] = w.heap[l][j]

(* One turn of the loop of WithoutBase(): the base logger at k, if it is
   the one to go, is replaced by the last. *)
LEMMA TakeOutTurn ==
    ASSUME NEW w, IsWorld(w), NEW v, NEW k \in 1..w.seed.list.len, TakenOut(w, v, k - 1), NEW e,
           e.index = k
    PROVE  TakenOut(w, TakeOutIf(v, e), k)
<1> DEFINE h == w.heap  g == v.heap  l == w.seed.list.array  n == w.seed.list.len
           m == v.seed.list.len  x == TakeOut(v, k)
<1>1. /\ Len(h) \in Nat /\ l \in 1..Len(h) /\ Len(h[l]) \in Nat
      /\ n \in Nat /\ n <= Len(h[l]) /\ k \in 1..n
      /\ IsHeap(h) /\ SeedShape(w.seed) /\ DOMAIN w = {"heap", "fresh", "seed", "called"}
  BY WorldSlices DEF IsWorld
<1>2. /\ DOMAIN v = DOMAIN w /\ v.fresh = w.fresh /\ v.called = w.called
      /\ DOMAIN v.seed = DOMAIN w.seed
      /\ \A f \in DOMAIN w.seed \ {"list", "removed", "swapped"} : v.seed[f] = w.seed[f]
      /\ DOMAIN v.seed.list = {"array", "len"}
      /\ v.seed.list.array = l /\ m \in (n - (k - 1))..n
      /\ IsHeap(g) /\ Untouched(h, g, {l}) /\ Len(g) = Len(h)
      /\ \A j \in 1..Len(h[l]) :
            IF j <= n THEN g[l][j] \in Bases ELSE g[l][j] = h[l][j]
  BY DEF TakenOut
<1>3. /\ Len(g) \in Nat /\ l \in 1..Len(g) /\ Len(g[l]) = Len(h[l])
      /\ g[l] \in Seq(Cells) /\ \A j \in 1..Len(g[l]) : g[l][j] \in Cells
  BY <1>1, <1>2, HeapArray DEF Untouched
<1>4. TakenOut(w, v, k)
  <2>1. m \in (n - k)..n
    BY <1>1, <1>2
  <2> QED BY <1>2, <2>1, Zenon DEF TakenOut
<1>5. TakenOut(w, x, k)
  <2> DEFINE a == g[l]
             c == IF k < m THEN [a EXCEPT ![k] = a[m], ![m] = a[k]] ELSE a
             y == [g EXCEPT ![l] = c]
  <2>1. /\ DOMAIN x = DOMAIN w /\ x.fresh = w.fresh /\ x.called = w.called
        /\ x.heap = y
        /\ DOMAIN x.seed = DOMAIN w.seed
        /\ \A f \in DOMAIN w.seed \ {"list", "removed", "swapped"} : x.seed[f] = w.seed[f]
        /\ DOMAIN x.seed.list = {"array", "len"}
        /\ x.seed.list.array = l /\ x.seed.list.len = m - 1
    <3>1. PICK s : s = Append(v.seed.removed, a[k])
      OBVIOUS
    <3>2. PICK t : t = (v.seed.swapped \/ k < m)
      OBVIOUS
    <3>3. PICK v1 : v1 = [v EXCEPT !.seed.removed = s]
      OBVIOUS
    <3>4. /\ DOMAIN v1 = DOMAIN v /\ v1.heap = v.heap /\ v1.fresh = v.fresh /\ v1.called = v.called
          /\ DOMAIN v1.seed = DOMAIN v.seed
          /\ \A f \in DOMAIN v.seed \ {"removed"} : v1.seed[f] = v.seed[f]
      BY <1>1, <1>2, <3>3 DEF SeedShape
    <3>5. PICK v2 : v2 = [v1 EXCEPT !.heap[l] = c]
      OBVIOUS
    <3>6. /\ DOMAIN v2 = DOMAIN v1 /\ v2.heap = [v1.heap EXCEPT ![l] = c]
          /\ v2.fresh = v1.fresh /\ v2.called = v1.called /\ v2.seed = v1.seed
      BY <1>1, <1>2, <3>4, <3>5
    <3>7. PICK v3 : v3 = [v2 EXCEPT !.seed.swapped = t]
      OBVIOUS
    <3>8. /\ DOMAIN v3 = DOMAIN v2 /\ v3.heap = v2.heap /\ v3.fresh = v2.fresh /\ v3.called = v2.called
          /\ DOMAIN v3.seed = DOMAIN v2.seed
          /\ \A f \in DOMAIN v2.seed \ {"swapped"} : v3.seed[f] = v2.seed[f]
      BY <1>1, <1>2, <3>4, <3>6, <3>7 DEF SeedShape
    <3>9. PICK v4 : v4 = [v3 EXCEPT !.seed.list.len = m - 1]
      OBVIOUS
    <3>10. v3.seed.list = v.seed.list
      <4>1. "list" \in DOMAIN w.seed
        BY <1>1 DEF SeedShape
      <4>2. "list" \in DOMAIN v.seed \ {"removed"} /\ "list" \in DOMAIN v2.seed \ {"swapped"}
        BY <1>2, <3>4, <3>6, <4>1
      <4>3. v1.seed["list"] = v.seed["list"]
        BY <3>4, <4>2
      <4>4. v3.seed["list"] = v2.seed["list"]
        BY <3>8, <4>2
      <4> QED BY <3>6, <4>3, <4>4
    <3>11. /\ DOMAIN v4 = DOMAIN v3 /\ v4.heap = v3.heap /\ v4.fresh = v3.fresh /\ v4.called = v3.called
           /\ DOMAIN v4.seed = DOMAIN v3.seed
           /\ \A f \in DOMAIN v3.seed \ {"list"} : v4.seed[f] = v3.seed[f]
           /\ DOMAIN v4.seed.list = DOMAIN v3.seed.list
           /\ v4.seed.list.array = v3.seed.list.array /\ v4.seed.list.len = m - 1
      BY <1>1, <1>2, <3>4, <3>6, <3>8, <3>9, <3>10 DEF SeedShape
    <3>12. x = v4
      BY <1>2, <3>1, <3>2, <3>3, <3>5, <3>7, <3>9, Zenon DEF TakeOut
    <3>13. /\ DOMAIN v4.seed = DOMAIN w.seed
           /\ \A f \in DOMAIN w.seed \ {"list", "removed", "swapped"} : v4.seed[f] = w.seed[f]
      <4>1. /\ DOMAIN v1.seed = DOMAIN w.seed /\ DOMAIN v2.seed = DOMAIN w.seed
            /\ DOMAIN v3.seed = DOMAIN w.seed /\ DOMAIN v4.seed = DOMAIN w.seed
        BY <1>2, <3>4, <3>6, <3>8, <3>11
      <4> SUFFICES ASSUME NEW f \in DOMAIN w.seed \ {"list", "removed", "swapped"}
                   PROVE  v4.seed[f] = w.seed[f]
        BY <4>1
      <4>2. v4.seed[f] = v3.seed[f] /\ v3.seed[f] = v2.seed[f]
        BY <3>8, <3>11, <4>1
      <4>3. v2.seed[f] = v1.seed[f] /\ v1.seed[f] = v.seed[f] /\ v.seed[f] = w.seed[f]
        BY <1>2, <3>4, <3>6, <4>1
      <4> QED BY <4>2, <4>3
    <3>14. /\ DOMAIN v4 = DOMAIN w /\ v4.fresh = w.fresh /\ v4.called = w.called /\ v4.heap = y
           /\ DOMAIN v4.seed.list = {"array", "len"}
           /\ v4.seed.list.array = l /\ v4.seed.list.len = m - 1
      <4>1. DOMAIN v4 = DOMAIN w /\ v4.fresh = w.fresh /\ v4.called = w.called
        BY <1>2, <3>4, <3>6, <3>8, <3>11
      <4>2. v4.heap = [g EXCEPT ![l] = c]
        BY <3>4, <3>6, <3>8, <3>11
      <4>3. /\ DOMAIN v4.seed.list = {"array", "len"}
            /\ v4.seed.list.array = l /\ v4.seed.list.len = m - 1
        BY <1>2, <3>10, <3>11
      <4> QED BY <4>1, <4>2, <4>3
    <3> QED BY <3>12, <3>13, <3>14
  <2> HIDE DEF x
  <2>2. c \in Seq(Cells) /\ Len(c) = Len(h[l])
        /\ \A j \in 1..Len(h[l]) : c[j] = IF k < m /\ j = m THEN a[k]
                                          ELSE IF k < m /\ j = k THEN a[m] ELSE a[j]
    <3>1. CASE k < m
      <4>1. k \in 1..Len(a) /\ m \in 1..Len(a) /\ a[k] \in Cells /\ a[m] \in Cells
        <5>1. Len(a) = Len(h[l]) /\ a \in Seq(Cells) /\ \A j \in 1..Len(a) : a[j] \in Cells
          BY <1>3
        <5> HIDE DEF a
        <5>2. k \in 1..Len(a)
          BY <1>1, <5>1
        <5>3. m \in 1..Len(a)
          BY <1>1, <1>2, <3>1, <5>1
        <5> QED BY <5>1, <5>2, <5>3
      <4>2. c = [a EXCEPT ![k] = a[m], ![m] = a[k]] /\ a \in Seq(Cells) /\ Len(a) = Len(h[l])
        BY <1>3, <3>1
      <4> HIDE DEF a, c
      <4>3. c \in Seq(Cells) /\ Len(c) = Len(h[l])
            /\ \A j \in 1..Len(h[l]) : c[j] = IF j = m THEN a[k] ELSE IF j = k THEN a[m] ELSE a[j]
        <5>1. PICK z \in 1..Len(a) : z = m
          BY <4>1
        <5>2. c = [a EXCEPT ![k] = a[z], ![z] = a[k]]
          BY <4>2, <5>1
        <5>3. /\ c \in Seq(Cells) /\ Len(c) = Len(a)
              /\ \A j \in 1..Len(a) : c[j] = IF j = z THEN a[k] ELSE IF j = k THEN a[z] ELSE a[j]
          <6>1. a \in Seq(Cells) /\ k \in 1..Len(a)
            BY <4>1, <4>2
          <6> HIDE <5>1
          <6> QED BY <5>2, <6>1, Exchanged
        <5> QED BY <4>2, <5>1, <5>3
      <4> QED BY <3>1, <4>3
    <3>2. CASE ~(k < m)
      BY <1>3, <3>2
    <3> QED BY <3>1, <3>2
  <2> HIDE DEF a, c
  <2>3. IsHeap(y) /\ Len(y) = Len(g) /\ y[l] = c /\ Untouched(g, y, {l})
    <3>1. IsHeap(g) /\ l \in 1..Len(g) /\ c \in Seq(Cells) /\ Len(c) = Len(g[l])
      BY <1>2, <1>3, <2>2
    <3> HIDE DEF g, l
    <3> QED BY <3>1, HeapWritten
  <2> HIDE DEF y
  <2>4. Untouched(h, y, {l})
    BY <1>1, <1>2, <2>3 DEF Untouched
  <2>5. \A j \in 1..Len(h[l]) :
            IF j <= n THEN y[l][j] \in Bases ELSE y[l][j] = h[l][j]
    <3>1. \A j \in 1..Len(h[l]) : IF j <= n THEN a[j] \in Bases ELSE a[j] = h[l][j]
      BY <1>2 DEF a
    <3>2. k \in 1..Len(h[l]) /\ k <= n /\ (k < m => m \in 1..Len(h[l]) /\ m <= n)
      <4>1. Len(h[l]) \in Nat /\ n \in Nat /\ n <= Len(h[l]) /\ k \in 1..n
        BY <1>1
      <4>2. m \in (n - (k - 1))..n
        BY <1>2
      <4> HIDE DEF h, l, m, n
      <4> QED BY <4>1, <4>2
    <3> QED BY <1>1, <2>2, <2>3, <3>1, <3>2
  <2>6. m - 1 \in (n - k)..n
    BY <1>1, <1>2
  <2> QED BY <1>2, <2>1, <2>3, <2>4, <2>5, <2>6, Zenon DEF TakenOut
<1> QED BY <1>4, <1>5 DEF TakeOutIf

(* The loop of WithoutBase() has seen the whole list when it ends. *)
LEMMA WithoutBaseTakes ==
    ASSUME NEW w, IsWorld(w), NEW b
    PROVE  TakenOut(w, WithoutBase(w, b), w.seed.list.len)
<1> DEFINE n == w.seed.list.len
           es == [i \in 1..n |-> [index |-> i, base |-> b]]
           X == {[index |-> i, base |-> b] : i \in 1..n}
<1>1. n \in Nat /\ Len(w.heap[w.seed.list.array]) \in Nat /\ Len(w.heap) \in Nat
      /\ w.seed.list.array \in 1..Len(w.heap) /\ n <= Len(w.heap[w.seed.list.array])
  BY WorldSlices
<1>2. es \in Seq(X) /\ Len(es) = n /\ \A k \in 1..n : es[k].index = k
  BY <1>1
<1>3. PICK run : /\ run[0] = w
                 /\ \A k \in 1..Len(es) : run[k] = TakeOutIf(run[k - 1], es[k])
                 /\ run[Len(es)] = TakeFold!FoldLeft(TakeOutIf, w, es)
  <2> HIDE DEF es, X
  <2> QED BY <1>2, TakeFold!FoldRuns
<1>4. TakeFold!FoldLeft(TakeOutIf, w, es) = WithoutBase(w, b)
  BY Zenon DEF WithoutBase, FoldLeft, TakeFold!FoldLeft, MapThenFoldSet, TakeFold!MapThenFoldSet, Max, TakeFold!Max
<1> HIDE DEF es, X
<1> DEFINE K == {k \in Nat : k <= n => TakenOut(w, run[k], k)}
<1>5. 0 \in K
  <2>1. /\ \A j \in 1..n : w.heap[w.seed.list.array][j] \in Bases
        /\ DOMAIN w.seed.list = {"array", "len"} /\ IsHeap(w.heap)
    BY DEF IsWorld, SeedSlices, IsSlice
  <2>2. Untouched(w.heap, w.heap, {w.seed.list.array})
    BY <1>1 DEF Untouched
  <2>3. n \in (n - 0)..n
    BY <1>1
  <2>4. TakenOut(w, w, 0)
    BY <1>1, <2>1, <2>2, <2>3 DEF TakenOut
  <2> QED BY <1>3, <2>4
<1>6. ASSUME NEW k \in Nat, k \in K PROVE k + 1 \in K
  <2> SUFFICES ASSUME k + 1 <= n PROVE TakenOut(w, run[k + 1], k + 1)
    OBVIOUS
  <2>1. k + 1 \in 1..n /\ (k + 1) - 1 = k /\ TakenOut(w, run[k], k)
    BY <1>1, <1>6
  <2>2. run[k + 1] = TakeOutIf(run[k], es[k + 1]) /\ es[k + 1].index = k + 1
    BY <1>2, <1>3, <2>1
  <2> QED BY <2>1, <2>2, TakeOutTurn
<1>7. n \in K
  <2> HIDE DEF K
  <2> QED BY <1>1, <1>5, <1>6, ModsFold!SetInduction
<1> QED BY <1>1, <1>2, <1>3, <1>4, <1>7

(* WithoutBase() keeps the slices of the seed in place, and its
   identifiers. *)
LEMMA WithoutBaseFollows ==
    ASSUME NEW w, IsWorld(w), NEW b
    PROVE  LET v == WithoutBase(w, b) IN
           IsWorld(v) /\ HeapFollows(w, v) /\ Kept(w, v) /\ SameIds(w.seed, v.seed)
<1> DEFINE h == w.heap  l == w.seed.list.array  r == w.seed.reactive.array
           n == w.seed.list.len  v == WithoutBase(w, b)  g == v.heap  m == v.seed.list.len
<1>1. TakenOut(w, v, n)
  BY WithoutBaseTakes
<1> HIDE DEF v
<1>2. /\ Len(h) \in Nat /\ l \in 1..Len(h) /\ r \in 1..Len(h) /\ (l = r => l = 1)
      /\ Len(h[l]) \in Nat /\ Len(h[r]) \in Nat /\ (l = 1 => Len(h[l]) = 0)
      /\ n \in 0..Len(h[l])
  BY WorldSlices
<1>3. /\ IsHeap(h) /\ SeedShape(w.seed) /\ SeedSlices(h, w.seed)
      /\ DOMAIN w = {"heap", "fresh", "seed", "called"}
  BY DEF IsWorld
<1>4. /\ DOMAIN v = DOMAIN w /\ v.fresh = w.fresh /\ v.called = w.called
      /\ DOMAIN v.seed = DOMAIN w.seed
      /\ \A f \in DOMAIN w.seed \ {"list", "removed", "swapped"} : v.seed[f] = w.seed[f]
      /\ DOMAIN v.seed.list = {"array", "len"}
      /\ v.seed.list.array = l /\ m \in (n - n)..n
      /\ IsHeap(g) /\ Untouched(h, g, {l}) /\ Len(g) = Len(h)
      /\ \A j \in 1..Len(h[l]) :
            IF j <= n THEN g[l][j] \in Bases ELSE g[l][j] = h[l][j]
  BY <1>1 DEF TakenOut
<1>5. /\ v.seed.reactive = w.seed.reactive
      /\ v.seed.current = w.seed.current /\ v.seed.parent = w.seed.parent
      /\ v.seed.trace = w.seed.trace /\ v.seed.traceSet = w.seed.traceSet
      /\ v.seed.spanSet = w.seed.spanSet /\ v.seed.code = w.seed.code
      /\ v.seed.used = w.seed.used
  BY <1>3, <1>4 DEF SeedShape
<1>6. SeedShape(v.seed)
  BY <1>3, <1>4, <1>5 DEF SeedShape
<1> HIDE DEF h, l, r, n, g, m
<1>7. /\ \A j \in 1..Len(h[l]) : h[l][j] \in Bases \cup {Nil}
      /\ \A j \in 1..Len(h[r]) : h[r][j] \in DOMAIN Callbacks \cup {Nil}
      /\ IsSlice(h, w.seed.reactive) /\ w.seed.current \in 0..w.seed.reactive.len
  BY <1>3 DEF SeedSlices, h, l, r
<1>8. Len(g[l]) = Len(h[l]) /\ g[r] = h[r]
  <2>1. Len(g[l]) = Len(h[l]) /\ (l # r => g[r] = h[r])
    BY <1>2, <1>4 DEF Untouched
  <2>2. l = r => g[r] = h[r]
    BY <1>2, <1>3, <1>4 DEF IsHeap
  <2> QED BY <2>1, <2>2
<1>9. IsSlice(g, v.seed.list) /\ IsSlice(g, v.seed.reactive)
  <2>1. m \in 0..Len(g[l])
    BY <1>2, <1>4, <1>8
  <2> QED BY <1>2, <1>4, <1>5, <1>7, <1>8, <2>1 DEF IsSlice, l, r, m
<1>10. \A j \in 1..Len(h[l]) : g[l][j] \in Bases \cup {Nil}
  BY <1>4, <1>7
<1>11. \A j \in 1..m : g[l][j] \in Bases
  BY <1>2, <1>4
<1>12. SeedSlices(g, v.seed)
  BY <1>2, <1>4, <1>5, <1>7, <1>8, <1>9, <1>10, <1>11 DEF SeedSlices, l, r, m
<1>13. IsWorld(v)
  BY <1>3, <1>4, <1>6, <1>12 DEF IsWorld, g
<1>14. HeapFollows(w, v)
  <2>1. Untouched(h, g, {l, r})
    BY <1>4 DEF Untouched
  <2>2. \A j \in 1..Len(h[l]) : h[l][j] \in Bases => g[l][j] \in Bases
    BY <1>4
  <2>3. w.seed.reactive.len >= w.seed.reactive.len
    BY WorldSlices
  <2>4. \A j \in 1..Len(h[r]) : g[r][j] \in DOMAIN Callbacks \cup {Nil}
    BY <1>7, <1>8
  <2>5. \A j \in 1..w.seed.reactive.len : g[r][j] = h[r][j]
    BY <1>8
  <2> QED BY <1>4, <1>5, <1>8, <1>10, <2>1, <2>2, <2>4, <2>5, NoCallbackAdded DEF l, r, h, g
<1>15. Kept(w, v) /\ SameIds(w.seed, v.seed)
  BY <1>4, <1>5 DEF Kept, SameIds
<1> QED BY <1>13, <1>14, <1>15 DEF v

(* Identifiers change to those that the program gives, and are marked as set
   before the seed sprouts. *)
IdsFollow(d, e) ==
    /\ \/ e.trace.trace = d.trace.trace
       \/ FromProgram(e.trace.trace) /\ FromProgram(e.trace.span)
    /\ e.trace.span = d.trace.span \/ FromProgram(e.trace.span)
    /\ e.spanSet => d.spanSet \/ FromProgram(e.trace.span)
    /\ e.traceSet => \/ d.traceSet
                     \/ FromProgram(e.trace.trace) /\ FromProgram(e.trace.span)
    /\ d.current # 0 => e.traceSet = d.traceSet /\ e.spanSet = d.spanSet

Follows(w, v) ==
    IsWorld(v) /\ HeapFollows(w, v) /\ Kept(w, v) /\ IdsFollow(w.seed, v.seed)

SameTrace(w, v) == v.seed.trace = w.seed.trace /\ v.seed.parent = w.seed.parent

(* The modifiers that set identifiers. *)
Tracing == {"span", "trace", "bundle"}

(* Modifiers one after the other. *)
LEMMA FollowsTrans ==
    ASSUME NEW w, NEW v, NEW u, IsWorld(w), Follows(w, v), Follows(v, u)
    PROVE  Follows(w, u)
<1>0. v.seed.current = w.seed.current
  BY DEF Follows, HeapFollows
<1>1. HeapFollows(w, u)
  BY HeapFollowsTrans DEF Follows
<1>2. Kept(w, u)
  BY DEF Follows, Kept
<1>3. IdsFollow(w.seed, u.seed)
  BY <1>0 DEF Follows, IdsFollow
<1> QED BY <1>1, <1>2, <1>3 DEF Follows

(* WithSpan() gives the seed an id of the program, and leaves its slices
   alone. *)
LEMMA WithSpanFollows ==
    ASSUME NEW w, IsWorld(w), NEW id, FromProgram(id)
    PROVE  Follows(w, WithSpan(w, id))
<1> DEFINE v == WithSpan(w, id)
<1>1. DOMAIN w = {"heap", "fresh", "seed", "called"} /\ SeedShape(w.seed)
  BY DEF IsWorld
<1>2. /\ DOMAIN v = DOMAIN w /\ v.heap = w.heap /\ v.fresh = w.fresh /\ v.called = w.called
      /\ DOMAIN v.seed = DOMAIN w.seed
      /\ \A f \in DOMAIN w.seed \ {"trace", "spanSet"} : v.seed[f] = w.seed[f]
      /\ DOMAIN v.seed.trace = DOMAIN w.seed.trace
      /\ v.seed.trace.trace = w.seed.trace.trace /\ v.seed.trace.span = id
      /\ v.seed.spanSet = (w.seed.spanSet \/ w.seed.current = 0)
  BY <1>1 DEF WithSpan, SeedShape, IsPair
<1> HIDE DEF v
<1>3. /\ v.seed.list = w.seed.list /\ v.seed.reactive = w.seed.reactive
      /\ v.seed.current = w.seed.current /\ v.seed.parent = w.seed.parent
      /\ v.seed.traceSet = w.seed.traceSet /\ v.seed.code = w.seed.code
      /\ v.seed.used = w.seed.used
  BY <1>1, <1>2 DEF SeedShape
<1>4. SeedShape(v.seed)
  BY <1>1, <1>2, <1>3 DEF SeedShape, IsPair, FromProgram
<1>5. IsWorld(v) /\ HeapFollows(w, v)
  BY <1>2, <1>3, <1>4, SameSlices
<1>6. Kept(w, v) /\ IdsFollow(w.seed, v.seed)
  BY <1>1, <1>2, <1>3 DEF Kept, IdsFollow, SeedShape
<1> QED BY <1>5, <1>6 DEF Follows, v

(* WithTrace() sets trace and span id, and inside react() does not mark
   them as set. *)
LEMMA WithTraceGives ==
    ASSUME NEW w, IsWorld(w), NEW trace, IsPair(trace), trace.trace \in Int, trace.span \in Int
    PROVE  LET v == WithTrace(w, trace) IN
           /\ IsWorld(v) /\ HeapFollows(w, v) /\ Kept(w, v)
           /\ v.heap = w.heap /\ v.seed.reactive = w.seed.reactive
           /\ v.seed.trace = trace /\ v.seed.parent = w.seed.parent
           /\ v.seed.traceSet = (w.seed.traceSet \/ w.seed.current = 0)
           /\ v.seed.spanSet = (w.seed.spanSet \/ w.seed.current = 0)
<1> DEFINE v == WithTrace(w, trace)
<1>1. DOMAIN w = {"heap", "fresh", "seed", "called"} /\ SeedShape(w.seed)
  BY DEF IsWorld
<1>2. /\ DOMAIN v = DOMAIN w /\ v.heap = w.heap /\ v.fresh = w.fresh /\ v.called = w.called
      /\ DOMAIN v.seed = DOMAIN w.seed
      /\ \A f \in DOMAIN w.seed \ {"trace", "traceSet", "spanSet"} : v.seed[f] = w.seed[f]
      /\ v.seed.trace = trace
      /\ v.seed.traceSet = (w.seed.traceSet \/ w.seed.current = 0)
      /\ v.seed.spanSet = (w.seed.spanSet \/ w.seed.current = 0)
  BY <1>1 DEF WithTrace, SeedShape
<1> HIDE DEF v
<1>3. /\ v.seed.list = w.seed.list /\ v.seed.reactive = w.seed.reactive
      /\ v.seed.current = w.seed.current /\ v.seed.parent = w.seed.parent
      /\ v.seed.code = w.seed.code /\ v.seed.used = w.seed.used
  BY <1>1, <1>2 DEF SeedShape
<1>4. SeedShape(v.seed)
  BY <1>1, <1>2, <1>3 DEF SeedShape
<1>5. IsWorld(v) /\ HeapFollows(w, v)
  BY <1>2, <1>3, <1>4, SameSlices
<1>6. Kept(w, v)
  BY <1>2, <1>3 DEF Kept
<1> QED BY <1>2, <1>3, <1>5, <1>6 DEF v

(* WithTrace() with ids of the program. *)
LEMMA WithTraceFollows ==
    ASSUME NEW w, IsWorld(w), NEW trace, IsTrace(trace)
    PROVE  Follows(w, WithTrace(w, trace))
<1> DEFINE v == WithTrace(w, trace)
<1>1. trace.trace \in Int /\ trace.span \in Int /\ IsPair(trace)
  BY DEF IsTrace, FromProgram
<1>2. /\ IsWorld(v) /\ HeapFollows(w, v) /\ Kept(w, v)
      /\ v.seed.trace = trace
      /\ v.seed.traceSet = (w.seed.traceSet \/ w.seed.current = 0)
      /\ v.seed.spanSet = (w.seed.spanSet \/ w.seed.current = 0)
  BY <1>1, WithTraceGives
<1>3. IdsFollow(w.seed, v.seed)
  BY <1>2 DEF IdsFollow, IsTrace, IsWorld, SeedShape
<1> QED BY <1>2, <1>3 DEF Follows

(* WithBundle() sets trace and parent, and inside react() does not mark
   them as set. *)
LEMMA WithBundleGives ==
    ASSUME NEW w, IsWorld(w), NEW b, IsPair(b.parent), IsPair(b.trace),
           b.trace.trace \in Int, b.trace.span \in Int
    PROVE  LET v == WithBundle(w, b) IN
           /\ IsWorld(v) /\ HeapFollows(w, v) /\ Kept(w, v)
           /\ v.heap = w.heap /\ v.seed.reactive = w.seed.reactive
           /\ v.seed.trace = b.trace /\ v.seed.parent = b.parent
           /\ v.seed.traceSet = (w.seed.traceSet \/ w.seed.current = 0)
           /\ v.seed.spanSet = (w.seed.spanSet \/ w.seed.current = 0)
<1> DEFINE x == [w EXCEPT !.seed.parent = b.parent]
           v == WithTrace(x, b.trace)
<1>1. DOMAIN w = {"heap", "fresh", "seed", "called"} /\ SeedShape(w.seed)
  BY DEF IsWorld
<1>2. /\ DOMAIN x = DOMAIN w /\ x.heap = w.heap /\ x.fresh = w.fresh /\ x.called = w.called
      /\ DOMAIN x.seed = DOMAIN w.seed /\ x.seed.parent = b.parent
      /\ \A f \in DOMAIN w.seed \ {"parent"} : x.seed[f] = w.seed[f]
  BY <1>1 DEF SeedShape
<1> HIDE DEF x
<1>3. /\ x.seed.list = w.seed.list /\ x.seed.reactive = w.seed.reactive
      /\ x.seed.current = w.seed.current /\ x.seed.trace = w.seed.trace
      /\ x.seed.traceSet = w.seed.traceSet /\ x.seed.spanSet = w.seed.spanSet
      /\ x.seed.code = w.seed.code /\ x.seed.used = w.seed.used
  BY <1>1, <1>2 DEF SeedShape
<1>4. SeedShape(x.seed)
  BY <1>1, <1>2, <1>3 DEF SeedShape
<1>5. IsWorld(x) /\ HeapFollows(w, x) /\ Kept(w, x)
  BY <1>2, <1>3, <1>4, SameSlices DEF Kept
<1>6. /\ IsWorld(v) /\ HeapFollows(x, v) /\ Kept(x, v)
      /\ v.heap = x.heap /\ v.seed.reactive = x.seed.reactive
      /\ v.seed.trace = b.trace /\ v.seed.parent = x.seed.parent
      /\ v.seed.traceSet = (x.seed.traceSet \/ x.seed.current = 0)
      /\ v.seed.spanSet = (x.seed.spanSet \/ x.seed.current = 0)
  BY <1>5, WithTraceGives
<1> HIDE DEF v
<1>7. HeapFollows(w, v) /\ Kept(w, v)
  BY <1>5, <1>6, HeapFollowsTrans DEF Kept
<1>8. WithBundle(w, b) = v
  BY DEF WithBundle, v, x
<1> QED BY <1>2, <1>3, <1>6, <1>7, <1>8

(* WithSettings() leaves slices and identifiers alone. *)
LEMMA WithSettingsFollows ==
    ASSUME NEW w, IsWorld(w), NEW settings
    PROVE  LET v == WithSettings(w, settings) IN Follows(w, v) /\ SameTrace(w, v)
<1> DEFINE v == WithSettings(w, settings)
<1>1. DOMAIN w = {"heap", "fresh", "seed", "called"} /\ SeedShape(w.seed)
  BY DEF IsWorld
<1>2. /\ DOMAIN v = DOMAIN w /\ v.heap = w.heap /\ v.fresh = w.fresh /\ v.called = w.called
      /\ DOMAIN v.seed = DOMAIN w.seed
      /\ \A f \in DOMAIN w.seed \ {"settings"} : v.seed[f] = w.seed[f]
  BY <1>1 DEF WithSettings, SeedShape
<1> HIDE DEF v
<1>3. /\ v.seed.list = w.seed.list /\ v.seed.reactive = w.seed.reactive
      /\ v.seed.current = w.seed.current /\ v.seed.parent = w.seed.parent
      /\ v.seed.trace = w.seed.trace /\ v.seed.spanSet = w.seed.spanSet
      /\ v.seed.traceSet = w.seed.traceSet /\ v.seed.code = w.seed.code
      /\ v.seed.used = w.seed.used
  BY <1>1, <1>2 DEF SeedShape
<1>4. SeedShape(v.seed)
  BY <1>1, <1>2, <1>3 DEF SeedShape
<1>5. IsWorld(v) /\ HeapFollows(w, v)
  BY <1>2, <1>3, <1>4, SameSlices
<1>6. Kept(w, v) /\ IdsFollow(w.seed, v.seed) /\ SameTrace(w, v)
  BY <1>2, <1>3 DEF Kept, IdsFollow, SameTrace
<1> QED BY <1>5, <1>6 DEF Follows, v

(* Every modifier. *)
LEMMA ModifiedFollows ==
    ASSUME NEW w, IsWorld(w), NEW m, IsMod(m)
    PROVE  LET v == Modified(w, m) IN
           Follows(w, v) /\ (m.op \notin Tracing => SameTrace(w, v))
<1> DEFINE v == Modified(w, m)
<1>0. ASSUME NEW u, SameIds(w.seed, u.seed) PROVE IdsFollow(w.seed, u.seed) /\ SameTrace(w, u)
  BY <1>0 DEF SameIds, IdsFollow, SameTrace
<1>1. CASE m.op = "base"
  <2>1. m.arg \in Bases
    BY <1>1 DEF IsMod
  <2>2. v = WithBase(w, m.arg)
    BY <1>1 DEF Modified
  <2> QED BY <1>0, <2>1, <2>2, WithBaseFollows DEF Follows
<1>2. CASE m.op = "without"
  <2>1. v = WithoutBase(w, m.arg)
    BY <1>2 DEF Modified
  <2> QED BY <1>0, <2>1, WithoutBaseFollows DEF Follows
<1>3. CASE m.op = "reactive"
  <2>1. m.arg \in DOMAIN Callbacks
    BY <1>3 DEF IsMod
  <2>2. v = WithReactive(w, m.arg)
    BY <1>3 DEF Modified
  <2> QED BY <1>0, <2>1, <2>2, WithReactiveFollows DEF Follows
<1>4. CASE m.op = "replaced"
  <2>1. m.arg \in DOMAIN Callbacks \cup {Nil}
    BY <1>4 DEF IsMod
  <2>2. v = WithReactiveReplaced(w, m.arg)
    BY <1>4 DEF Modified
  <2> QED BY <1>0, <2>1, <2>2, WithReactiveReplacedFollows DEF Follows
<1>5. CASE m.op = "span"
  <2>1. FromProgram(m.arg)
    BY <1>5 DEF IsMod
  <2>2. v = WithSpan(w, m.arg)
    BY <1>5 DEF Modified
  <2> QED BY <1>5, <2>1, <2>2, WithSpanFollows DEF Tracing
<1>6. CASE m.op = "trace"
  <2>1. IsTrace(m.arg)
    BY <1>6 DEF IsMod
  <2>2. v = WithTrace(w, m.arg)
    BY <1>6 DEF Modified
  <2> QED BY <1>6, <2>1, <2>2, WithTraceFollows DEF Tracing
<1>7. CASE m.op = "bundle"
  <2>1. IsPair(m.arg.parent) /\ IsTrace(m.arg.trace)
    BY <1>7 DEF IsMod
  <2>2. v = WithBundle(w, m.arg)
    BY <1>7 DEF Modified
  <2>3. m.arg.trace.trace \in Int /\ m.arg.trace.span \in Int /\ IsPair(m.arg.trace)
    BY <2>1 DEF IsTrace, FromProgram
  <2>4. /\ IsWorld(v) /\ HeapFollows(w, v) /\ Kept(w, v)
        /\ v.seed.trace = m.arg.trace
        /\ v.seed.traceSet = (w.seed.traceSet \/ w.seed.current = 0)
        /\ v.seed.spanSet = (w.seed.spanSet \/ w.seed.current = 0)
    BY <2>1, <2>2, <2>3, WithBundleGives
  <2>5. IdsFollow(w.seed, v.seed)
    BY <2>1, <2>4 DEF IdsFollow, IsTrace, IsWorld, SeedShape
  <2> QED BY <1>7, <2>4, <2>5 DEF Follows, Tracing
<1>8. CASE m.op = "settings"
  <2>1. v = WithSettings(w, m.arg)
    BY <1>8 DEF Modified
  <2> QED BY <2>1, WithSettingsFollows
<1>9. m.op \in {"base", "without", "reactive", "replaced", "span", "trace", "bundle", "settings"}
  BY DEF IsMod
<1> QED BY <1>1, <1>2, <1>3, <1>4, <1>5, <1>6, <1>7, <1>8, <1>9

(* No modifier at all. *)
LEMMA FollowsSelf ==
    ASSUME NEW w, IsWorld(w)
    PROVE  Follows(w, w) /\ SameTrace(w, w)
<1>1. IsWorld(w) /\ HeapFollows(w, w)
  BY SameSlices DEF IsWorld
<1> QED BY <1>1 DEF Follows, Kept, IdsFollow, SameTrace

(* No modifier sets an identifier. *)
Untraced(mods) == \A m \in ToSet(mods) : m.op \notin Tracing

(* Any modifiers, in the order given. *)
LEMMA ModsFollow ==
    ASSUME NEW w, IsWorld(w), NEW mods, AreMods(mods)
    PROVE  LET v == ApplyMods(w, mods) IN
           Follows(w, v) /\ (Untraced(mods) => SameTrace(w, v))
<1>1. mods \in Seq(ToSet(mods)) /\ \A m \in ToSet(mods) : IsMod(m)
  BY DEF AreMods
<1>2. PICK run : /\ run[0] = w
                 /\ \A k \in 1..Len(mods) : run[k] = Modified(run[k - 1], mods[k])
                 /\ run[Len(mods)] = ModsFold!FoldLeft(Modified, w, mods)
  BY <1>1, ModsFold!FoldRuns
<1>3. ModsFold!FoldLeft(Modified, w, mods) = ApplyMods(w, mods)
  BY Zenon DEF ApplyMods, FoldLeft, ModsFold!FoldLeft, MapThenFoldSet, ModsFold!MapThenFoldSet, Max, ModsFold!Max
<1>4. Len(mods) \in Nat /\ \A k \in 1..Len(mods) : mods[k] \in ToSet(mods)
  BY <1>1
<1> DEFINE K == {k \in Nat : k <= Len(mods) =>
                    Follows(w, run[k]) /\ (Untraced(mods) => SameTrace(w, run[k]))}
<1>5. 0 \in K
  BY <1>2, FollowsSelf
<1>6. ASSUME NEW k \in Nat, k \in K PROVE k + 1 \in K
  <2> SUFFICES ASSUME k + 1 <= Len(mods)
               PROVE  Follows(w, run[k + 1]) /\ (Untraced(mods) => SameTrace(w, run[k + 1]))
    OBVIOUS
  <2>1. /\ k + 1 \in 1..Len(mods) /\ (k + 1) - 1 = k
        /\ Follows(w, run[k]) /\ (Untraced(mods) => SameTrace(w, run[k]))
    BY <1>4, <1>6
  <2> DEFINE v == run[k]  m == mods[k + 1]
  <2>2. run[k + 1] = Modified(v, m) /\ IsMod(m) /\ m \in ToSet(mods)
    BY <1>1, <1>2, <1>4, <2>1
  <2> HIDE DEF v, m
  <2>3. IsWorld(v)
    BY <2>1 DEF Follows, v
  <2>4. Follows(v, Modified(v, m)) /\ (m.op \notin Tracing => SameTrace(v, Modified(v, m)))
    BY <2>2, <2>3, ModifiedFollows
  <2>5. Follows(w, run[k + 1])
    BY <2>1, <2>2, <2>4, FollowsTrans DEF v
  <2>6. Untraced(mods) => SameTrace(w, run[k + 1])
    BY <2>1, <2>2, <2>4 DEF Untraced, SameTrace, v
  <2> QED BY <2>5, <2>6
<1>7. Len(mods) \in K
  <2> HIDE DEF K
  <2> QED BY <1>4, <1>5, <1>6, ModsFold!SetInduction
<1> QED BY <1>2, <1>3, <1>4, <1>7

(* The modifier with which the HTTP middleware makes the seed of a request. *)
LEMMA OneMod ==
    ASSUME NEW w, NEW m
    PROVE  ApplyMods(w, <<m>>) = Modified(w, m)
<1>1. <<m>> \in Seq({m}) /\ Len(<<m>>) = 1 /\ <<m>>[1] = m
  OBVIOUS
<1>2. PICK run : /\ run[0] = w
                 /\ \A k \in 1..Len(<<m>>) : run[k] = Modified(run[k - 1], <<m>>[k])
                 /\ run[Len(<<m>>)] = ModsFold!FoldLeft(Modified, w, <<m>>)
  BY <1>1, ModsFold!FoldRuns
<1>3. ModsFold!FoldLeft(Modified, w, <<m>>) = ApplyMods(w, <<m>>)
  BY Zenon DEF ApplyMods, FoldLeft, ModsFold!FoldLeft, MapThenFoldSet, ModsFold!MapThenFoldSet, Max, ModsFold!Max
<1>4. 1 \in 1..Len(<<m>>) /\ 1 - 1 = 0
  BY <1>1
<1> QED BY <1>1, <1>2, <1>3, <1>4

-----------------------------------------------------------------------------
(* Copies. *)

(* The seed of v views arrays that w did not have, and nothing that w had
   has changed. *)
Spawned(w, v) ==
    /\ IsWorld(v)
    /\ Untouched(w.heap, v.heap, {})
    /\ v.seed.list.array > Len(w.heap) /\ v.seed.reactive.array > Len(w.heap)

SameView(w, v) == View(v.heap, v.seed.reactive) = View(w.heap, w.seed.reactive)

(* Two slices are copied one after the other. *)
LEMMA SlicesCopied ==
    ASSUME NEW w, IsWorld(w)
    PROVE  LET l == Fresh(w.heap, View(w.heap, w.seed.list))
               r == Fresh(l.heap, View(l.heap, w.seed.reactive)) IN
           /\ IsHeap(r.heap) /\ Untouched(w.heap, r.heap, {})
           /\ IsSlice(r.heap, l.slice) /\ IsSlice(r.heap, r.slice)
           /\ l.slice.array = Len(w.heap) + 1 /\ r.slice.array = Len(w.heap) + 2
           /\ r.slice.len = w.seed.reactive.len /\ l.slice.len = w.seed.list.len
           /\ \A j \in 1..Len(r.heap[l.slice.array]) : r.heap[l.slice.array][j] \in Bases
           /\ r.heap[r.slice.array] = View(w.heap, w.seed.reactive)
           /\ \A j \in 1..Len(r.heap[r.slice.array]) :
                 r.heap[r.slice.array][j] \in DOMAIN Callbacks \cup {Nil}
<1> DEFINE h == w.heap
           a == View(h, w.seed.list)
           l == Fresh(h, a)
           g == l.heap
           b == View(g, w.seed.reactive)
           r == Fresh(g, b)
           k == r.heap
<1>1. /\ IsHeap(h) /\ IsSlice(h, w.seed.list) /\ IsSlice(h, w.seed.reactive)
      /\ Len(h) \in Nat /\ w.seed.reactive.len \in Nat
  BY WorldSlices DEF IsWorld, SeedSlices
<1>2. a \in Seq(Cells) /\ Len(a) = w.seed.list.len /\ \A j \in 1..Len(a) : a[j] \in Bases
  <2>1. /\ a \in Seq(Cells) /\ Len(a) = w.seed.list.len
        /\ \A j \in 1..w.seed.list.len : a[j] = h[w.seed.list.array][j]
    BY <1>1, ViewOf
  <2> QED BY <2>1 DEF IsWorld, SeedSlices
<1> HIDE DEF a
<1>3. /\ IsHeap(g) /\ IsSlice(g, l.slice) /\ Untouched(h, g, {})
      /\ l.slice.array = Len(h) + 1 /\ Len(g) = Len(h) + 1
      /\ l.slice.len = Len(a) /\ g[Len(h) + 1] = a
  BY <1>1, <1>2, FreshSlice
<1> HIDE DEF l
<1>4. IsSlice(g, w.seed.reactive) /\ b = View(h, w.seed.reactive)
  <2>1. w.seed.reactive.array \in 1..Len(h) /\ w.seed.reactive.array \in 1..Len(g)
        /\ g[w.seed.reactive.array] = h[w.seed.reactive.array]
    <3>1. w.seed.reactive.array \in 1..Len(h) /\ Len(g) \in Nat
      BY <1>1, <1>3 DEF IsSlice
    <3> QED BY <1>1, <1>3, <3>1 DEF Untouched
  <2> QED BY <1>1, <2>1 DEF IsSlice, View
<1>5. b \in Seq(Cells) /\ Len(b) = w.seed.reactive.len
      /\ \A j \in 1..Len(b) : b[j] \in DOMAIN Callbacks \cup {Nil}
  <2>1. /\ b \in Seq(Cells) /\ Len(b) = w.seed.reactive.len
        /\ \A j \in 1..w.seed.reactive.len : b[j] = h[w.seed.reactive.array][j]
    BY <1>1, <1>4, ViewOf
  <2>2. \A j \in 1..w.seed.reactive.len : j \in 1..Len(h[w.seed.reactive.array])
    BY WorldSlices
  <2> QED BY <2>1, <2>2 DEF IsWorld, SeedSlices
<1> HIDE DEF b
<1>6. /\ IsHeap(k) /\ IsSlice(k, r.slice) /\ Untouched(g, k, {})
      /\ r.slice.array = Len(g) + 1 /\ Len(k) = Len(g) + 1
      /\ r.slice.len = Len(b) /\ k[Len(g) + 1] = b
  BY <1>3, <1>5, FreshSlice
<1> HIDE DEF r
<1>7. k[Len(h) + 1] = a /\ IsSlice(k, l.slice)
  <2>1. Len(h) + 1 \in 1..Len(g) /\ Len(h) + 1 \in 1..Len(k)
    BY <1>1, <1>3, <1>6
  <2>2. k[Len(h) + 1] = a
    BY <1>3, <1>6, <2>1 DEF Untouched
  <2> QED BY <1>3, <2>1, <2>2 DEF IsSlice
<1>8. Untouched(h, k, {})
  BY <1>1, <1>3, <1>6, UntouchedTrans
<1>9. /\ l.slice.array = Len(h) + 1 /\ r.slice.array = Len(h) + 2
      /\ r.slice.len = w.seed.reactive.len /\ l.slice.len = w.seed.list.len
  BY <1>1, <1>2, <1>3, <1>5, <1>6
<1>10. k[l.slice.array] = a /\ k[r.slice.array] = b
  BY <1>3, <1>6, <1>7
<1>11. /\ \A j \in 1..Len(k[l.slice.array]) : k[l.slice.array][j] \in Bases
       /\ \A j \in 1..Len(k[r.slice.array]) :
             k[r.slice.array][j] \in DOMAIN Callbacks \cup {Nil}
  BY <1>2, <1>5, <1>10
<1>12. k[r.slice.array] = View(h, w.seed.reactive)
  BY <1>4, <1>10
<1> HIDE DEF h, k
<1>13. /\ IsHeap(k) /\ Untouched(h, k, {})
       /\ IsSlice(k, l.slice) /\ IsSlice(k, r.slice)
       /\ l.slice.array = Len(h) + 1 /\ r.slice.array = Len(h) + 2
       /\ r.slice.len = w.seed.reactive.len /\ l.slice.len = w.seed.list.len
       /\ \A j \in 1..Len(k[l.slice.array]) : k[l.slice.array][j] \in Bases
       /\ k[r.slice.array] = View(h, w.seed.reactive)
       /\ \A j \in 1..Len(k[r.slice.array]) :
             k[r.slice.array][j] \in DOMAIN Callbacks \cup {Nil}
  BY <1>6, <1>7, <1>8, <1>9, <1>11, <1>12
<1> QED BY ONLY <1>13, Zenon DEF h, a, l, g, b, r, k

(* spanSeed.copy(): a seed that shows what the original does, from slices
   that are clipped. *)
LEMMA CopySpanSeedGives ==
    ASSUME NEW w, IsWorld(w), NEW keepHistory \in BOOLEAN
    PROVE  LET v == CopySpanSeed(w, keepHistory) IN
           /\ Spawned(w, v) /\ Kept(w, v) /\ SameIds(w.seed, v.seed) /\ SameView(w, v)
           /\ v.seed.current = w.seed.current
           /\ keepHistory \/ (v.seed.added = <<>> /\ v.seed.removed = <<>>)
<1> DEFINE l == Fresh(w.heap, View(w.heap, w.seed.list))
           r == Fresh(l.heap, View(l.heap, w.seed.reactive))
           v == CopySpanSeed(w, keepHistory)
<1>1. DOMAIN w = {"heap", "fresh", "seed", "called"} /\ SeedShape(w.seed)
  BY DEF IsWorld
<1>2. /\ DOMAIN v = DOMAIN w /\ v.heap = r.heap /\ v.fresh = w.fresh /\ v.called = w.called
      /\ DOMAIN v.seed = DOMAIN w.seed /\ v.seed.list = l.slice /\ v.seed.reactive = r.slice
      /\ \A f \in DOMAIN w.seed \ {"list", "reactive", "added", "removed"} : v.seed[f] = w.seed[f]
      /\ keepHistory \/ (v.seed.added = <<>> /\ v.seed.removed = <<>>)
  BY <1>1, ZenonT(60) DEF CopySpanSeed, SeedShape
<1>3. /\ IsHeap(r.heap) /\ Untouched(w.heap, r.heap, {})
      /\ IsSlice(r.heap, l.slice) /\ IsSlice(r.heap, r.slice)
      /\ l.slice.array = Len(w.heap) + 1 /\ r.slice.array = Len(w.heap) + 2
      /\ r.slice.len = w.seed.reactive.len /\ l.slice.len = w.seed.list.len
      /\ \A j \in 1..Len(r.heap[l.slice.array]) : r.heap[l.slice.array][j] \in Bases
      /\ r.heap[r.slice.array] = View(w.heap, w.seed.reactive)
      /\ \A j \in 1..Len(r.heap[r.slice.array]) :
            r.heap[r.slice.array][j] \in DOMAIN Callbacks \cup {Nil}
  BY SlicesCopied
<1> HIDE DEF l, r, v
<1>4. /\ v.seed.current = w.seed.current /\ v.seed.parent = w.seed.parent
      /\ v.seed.trace = w.seed.trace /\ v.seed.spanSet = w.seed.spanSet
      /\ v.seed.traceSet = w.seed.traceSet /\ v.seed.code = w.seed.code
      /\ v.seed.used = w.seed.used
  BY <1>1, <1>2 DEF SeedShape
<1>5. SeedShape(v.seed)
  BY <1>1, <1>2, <1>4 DEF SeedShape
<1>6. SeedSlices(v.heap, v.seed)
  <2>1. w.seed.current \in 0..w.seed.reactive.len /\ Len(w.heap) \in Nat
    BY WorldSlices
  <2>2. v.seed.list.array # v.seed.reactive.array
    BY <1>2, <1>3, <2>1
  <2>3. \A j \in 1..v.seed.list.len : j \in 1..Len(v.heap[v.seed.list.array])
    BY <1>2, <1>3, HeapArray DEF IsSlice
  <2> QED BY <1>2, <1>3, <1>4, <2>1, <2>2, <2>3 DEF SeedSlices
<1>7. Spawned(w, v)
  <2>1. Len(w.heap) \in Nat
    BY WorldSlices
  <2>2. IsWorld(v)
    BY <1>1, <1>2, <1>3, <1>5, <1>6 DEF IsWorld
  <2> QED BY <1>2, <1>3, <2>1, <2>2 DEF Spawned
<1>8. SameView(w, v)
  <2> DEFINE c == r.heap[r.slice.array]
  <2>1. c \in Seq(Cells) /\ Len(c) = r.slice.len
    <3>1. c \in Seq(Cells)
      BY <1>3, HeapArray DEF IsSlice
    <3>2. Len(View(w.heap, w.seed.reactive)) = w.seed.reactive.len
      BY ViewOf DEF IsWorld, SeedSlices
    <3> QED BY <1>3, <3>1, <3>2
  <2>2. \A s \in Seq(Cells) : SubSeq(s, 1, Len(s)) = s
    OBVIOUS
  <2>3. View(r.heap, r.slice) = c
    BY <2>1, <2>2 DEF View
  <2> QED BY <1>2, <1>3, <2>3 DEF SameView
<1> QED BY <1>2, <1>4, <1>7, <1>8 DEF Kept, SameIds, v

(* The callbacks of the seed of w are the first of those of v. *)
FirstCallbacks(w, v) ==
    /\ v.seed.reactive.len >= w.seed.reactive.len
    /\ \A j \in 1..w.seed.reactive.len :
          v.heap[v.seed.reactive.array][j] = w.heap[w.seed.reactive.array][j]
    /\ \A j \in (w.seed.reactive.len + 1)..v.seed.reactive.len :
          v.heap[v.seed.reactive.array][j] \in DOMAIN Callbacks

SpanOfCopy(w) == IF w.seed.spanSet THEN w.seed.trace.span ELSE w.fresh + 1

(* The seed of v is a copy of that of w, with a span identifier of its own
   unless the program has set one. *)
Budded(w, v, parent) ==
    /\ Spawned(w, v) /\ FirstCallbacks(w, v) /\ SameView(w, v)
    /\ v.called = w.called /\ v.seed.code = w.seed.code /\ v.seed.used = w.seed.used
    /\ v.seed.current = w.seed.current
    /\ v.fresh = IF w.seed.spanSet THEN w.fresh ELSE w.fresh + 1
    /\ v.seed.trace.trace = w.seed.trace.trace /\ v.seed.trace.span = SpanOfCopy(w)
    /\ v.seed.parent = parent
    /\ v.seed.spanSet = w.seed.spanSet /\ v.seed.traceSet = w.seed.traceSet

(* And with what modifiers have changed since. *)
Sprung(w, v, parent, mods) ==
    /\ Spawned(w, v) /\ FirstCallbacks(w, v)
    /\ v.called = w.called /\ v.seed.code = w.seed.code /\ v.seed.used = w.seed.used
    /\ v.seed.current = w.seed.current
    /\ v.fresh = IF w.seed.spanSet THEN w.fresh ELSE w.fresh + 1
    /\ \/ v.seed.trace.trace = w.seed.trace.trace
       \/ FromProgram(v.seed.trace.trace) /\ FromProgram(v.seed.trace.span)
    /\ v.seed.trace.span = SpanOfCopy(w) \/ FromProgram(v.seed.trace.span)
    /\ v.seed.spanSet => w.seed.spanSet \/ FromProgram(v.seed.trace.span)
    /\ v.seed.traceSet => \/ w.seed.traceSet
                          \/ FromProgram(v.seed.trace.trace) /\ FromProgram(v.seed.trace.span)
    /\ Untraced(mods) => /\ v.seed.trace.trace = w.seed.trace.trace
                         /\ v.seed.trace.span = SpanOfCopy(w)
                         /\ v.seed.parent = parent

(* The new identifier, and no other change. *)
LEMMA RandomSpanGives ==
    ASSUME NEW w, IsWorld(w), w.fresh \in Int
    PROVE  LET v == RandomSpan(w) IN
           /\ IsWorld(v) /\ HeapFollows(w, v) /\ v.heap = w.heap
           /\ v.seed.list = w.seed.list /\ v.seed.reactive = w.seed.reactive
           /\ v.called = w.called /\ v.seed.code = w.seed.code /\ v.seed.used = w.seed.used
           /\ v.seed.current = w.seed.current /\ v.fresh = w.fresh + 1
           /\ v.seed.trace.trace = w.seed.trace.trace /\ v.seed.trace.span = w.fresh + 1
           /\ v.seed.parent = w.seed.parent
           /\ v.seed.spanSet = w.seed.spanSet /\ v.seed.traceSet = w.seed.traceSet
<1> DEFINE v == RandomSpan(w)
<1>1. DOMAIN w = {"heap", "fresh", "seed", "called"} /\ SeedShape(w.seed)
  BY DEF IsWorld
<1>2. /\ DOMAIN v = DOMAIN w /\ v.heap = w.heap /\ v.fresh = w.fresh + 1 /\ v.called = w.called
      /\ v.seed = [w.seed EXCEPT !.trace = [w.seed.trace EXCEPT !.span = w.fresh + 1]]
  BY <1>1 DEF RandomSpan, SeedShape, IsPair
<1> HIDE DEF v
<1>3. /\ DOMAIN v.seed = DOMAIN w.seed
      /\ \A f \in DOMAIN w.seed \ {"trace"} : v.seed[f] = w.seed[f]
      /\ v.seed.trace = [w.seed.trace EXCEPT !.span = w.fresh + 1]
  BY <1>1, <1>2 DEF SeedShape
<1>4. /\ DOMAIN v.seed.trace = DOMAIN w.seed.trace
      /\ v.seed.trace.trace = w.seed.trace.trace /\ v.seed.trace.span = w.fresh + 1
  BY <1>1, <1>3 DEF SeedShape, IsPair
<1>5. /\ v.seed.list = w.seed.list /\ v.seed.reactive = w.seed.reactive
      /\ v.seed.current = w.seed.current /\ v.seed.parent = w.seed.parent
      /\ v.seed.spanSet = w.seed.spanSet
      /\ v.seed.traceSet = w.seed.traceSet /\ v.seed.code = w.seed.code
      /\ v.seed.used = w.seed.used
  BY <1>1, <1>3 DEF SeedShape
<1>6. SeedShape(v.seed)
  BY <1>1, <1>3, <1>4, <1>5 DEF SeedShape, IsPair
<1>7. IsWorld(v) /\ HeapFollows(w, v)
  BY <1>2, <1>5, <1>6, SameSlices
<1> QED BY <1>2, <1>4, <1>5, <1>7 DEF v

(* Modifiers on a seed that has just been copied. *)
LEMMA SpawnedFollows ==
    ASSUME NEW w, NEW c, NEW v, IsWorld(w), Spawned(w, c), IsWorld(v), HeapFollows(c, v)
    PROVE  Spawned(w, v)
<1>1. Len(w.heap) \in Nat /\ Len(c.heap) \in Nat /\ Len(v.heap) \in Nat
  BY WorldSlices DEF Spawned
<1>2. /\ Untouched(w.heap, c.heap, {}) /\ Untouched(c.heap, v.heap, {c.seed.list.array, c.seed.reactive.array})
      /\ c.seed.list.array > Len(w.heap) /\ c.seed.reactive.array > Len(w.heap)
      /\ v.seed.list.array \in {c.seed.list.array} \cup ((Len(c.heap) + 1)..Len(v.heap))
      /\ v.seed.reactive.array \in {c.seed.reactive.array} \cup ((Len(c.heap) + 1)..Len(v.heap))
  BY DEF Spawned, HeapFollows, HeapMoves
<1>3. Untouched(w.heap, v.heap, {})
  BY <1>1, <1>2, UntouchedTrans
<1>4. Len(c.heap) >= Len(w.heap)
  BY <1>2 DEF Untouched
<1>5. v.seed.list.array > Len(w.heap) /\ v.seed.reactive.array > Len(w.heap)
  BY <1>1, <1>2, <1>4
<1> QED BY <1>3, <1>5 DEF Spawned

(* What a slot of the copy holds. *)
LEMMA SlotsCopied ==
    ASSUME NEW w, NEW c, IsWorld(w), IsWorld(c), SameView(w, c)
    PROVE  /\ c.seed.reactive.len = w.seed.reactive.len
           /\ \A j \in 1..w.seed.reactive.len :
                 c.heap[c.seed.reactive.array][j] = w.heap[w.seed.reactive.array][j]
<1>1. /\ IsHeap(w.heap) /\ IsSlice(w.heap, w.seed.reactive)
      /\ IsHeap(c.heap) /\ IsSlice(c.heap, c.seed.reactive)
  BY DEF IsWorld, SeedSlices
<1> DEFINE a == View(w.heap, w.seed.reactive)  b == View(c.heap, c.seed.reactive)
<1>2. /\ Len(a) = w.seed.reactive.len
      /\ \A j \in 1..w.seed.reactive.len : a[j] = w.heap[w.seed.reactive.array][j]
  BY <1>1, ViewOf
<1>3. /\ Len(b) = c.seed.reactive.len
      /\ \A j \in 1..c.seed.reactive.len : b[j] = c.heap[c.seed.reactive.array][j]
  BY <1>1, ViewOf
<1>4. a = b
  BY DEF SameView
<1> HIDE DEF a, b
<1> QED BY <1>2, <1>3, <1>4

(* Seed.Copy(), SubSeed() and newChildLog(): the copy keeps the span id
   that was set, or is given a new one. *)
LEMMA BudGives ==
    ASSUME NEW w, NEW c, NEW parent, IsWorld(w), w.fresh \in Int, Spawned(w, c), SameView(w, c),
           c.fresh = w.fresh, c.called = w.called,
           c.seed.code = w.seed.code, c.seed.used = w.seed.used, c.seed.current = w.seed.current,
           c.seed.trace = w.seed.trace, c.seed.parent = parent,
           c.seed.spanSet = w.seed.spanSet, c.seed.traceSet = w.seed.traceSet
    PROVE  Budded(w, IF w.seed.spanSet THEN c ELSE RandomSpan(c), parent)
<1>1. IsWorld(c)
  BY DEF Spawned
<1>2. FirstCallbacks(w, c)
  <2>1. /\ c.seed.reactive.len = w.seed.reactive.len /\ w.seed.reactive.len \in Nat
        /\ \A j \in 1..w.seed.reactive.len :
              c.heap[c.seed.reactive.array][j] = w.heap[w.seed.reactive.array][j]
    BY <1>1, SlotsCopied, WorldSlices
  <2> QED BY <2>1 DEF FirstCallbacks
<1>3. CASE w.seed.spanSet
  BY <1>2, <1>3 DEF Budded, SpanOfCopy
<1>4. CASE ~w.seed.spanSet
  <2> DEFINE v == RandomSpan(c)
  <2>1. /\ IsWorld(v) /\ HeapFollows(c, v) /\ v.heap = c.heap
        /\ v.seed.list = c.seed.list /\ v.seed.reactive = c.seed.reactive
        /\ v.called = c.called /\ v.seed.code = c.seed.code /\ v.seed.used = c.seed.used
        /\ v.seed.current = c.seed.current /\ v.fresh = w.fresh + 1
        /\ v.seed.trace.trace = c.seed.trace.trace /\ v.seed.trace.span = w.fresh + 1
        /\ v.seed.parent = c.seed.parent
        /\ v.seed.spanSet = c.seed.spanSet /\ v.seed.traceSet = c.seed.traceSet
    BY <1>1, RandomSpanGives
  <2> HIDE DEF v
  <2>2. Spawned(w, v)
    BY <2>1, SpawnedFollows
  <2>3. FirstCallbacks(w, v)
    BY <1>2, <2>1 DEF FirstCallbacks
  <2>a. SameView(w, v)
    BY <2>1 DEF SameView
  <2>4. Budded(w, v, parent)
    BY <1>4, <2>1, <2>2, <2>3, <2>a DEF Budded, SpanOfCopy
  <2> QED BY <1>4, <2>4 DEF v
<1> QED BY <1>3, <1>4

(* The modifiers of the call are applied to the copy. *)
LEMMA BudSprings ==
    ASSUME NEW w, NEW c, NEW parent, NEW mods, IsWorld(w), Budded(w, c, parent), AreMods(mods),
           w.seed.current = 0
    PROVE  Sprung(w, ApplyMods(c, mods), parent, mods)
<1> DEFINE v == ApplyMods(c, mods)
<1>1. IsWorld(c) /\ c.seed.current = 0
  BY DEF Budded, Spawned
<1>2. Follows(c, v) /\ (Untraced(mods) => SameTrace(c, v))
  BY <1>1, ModsFollow
<1> HIDE DEF v
<1>3. Spawned(w, v)
  BY <1>2, SpawnedFollows DEF Follows, Budded
<1>4. FirstCallbacks(w, v)
  <2> DEFINE a == w.seed.reactive.len  b == c.seed.reactive.len  n == v.seed.reactive.len
             x == w.heap[w.seed.reactive.array]  y == c.heap[c.seed.reactive.array]
             z == v.heap[v.seed.reactive.array]
  <2>1. a \in Nat /\ b \in Nat /\ n \in Nat
    BY <1>1, <1>2, WorldSlices DEF Follows
  <2>2. /\ b >= a /\ \A j \in 1..a : y[j] = x[j]
        /\ \A j \in (a + 1)..b : y[j] \in DOMAIN Callbacks
    BY DEF Budded, FirstCallbacks
  <2>3. /\ n >= b /\ \A j \in 1..b : j \notin {0} => z[j] = y[j]
        /\ \A j \in (b + 1)..n : z[j] \in DOMAIN Callbacks
    BY <1>1, <1>2 DEF Follows, HeapFollows, HeapMoves
  <2> HIDE DEF a, b, n, x, y, z
  <2>4. \A j \in 1..a : j \in 1..b /\ j \notin {0}
    BY <2>1, <2>2
  <2>5. \A j \in (a + 1)..n : j \in (b + 1)..n \/ (j \in (a + 1)..b /\ j \in 1..b /\ j \notin {0})
    BY <2>1, <2>2, <2>3
  <2>6. /\ n >= a /\ \A j \in 1..a : z[j] = x[j]
        /\ \A j \in (a + 1)..n : z[j] \in DOMAIN Callbacks
    BY <2>1, <2>2, <2>3, <2>4, <2>5
  <2> QED BY <2>6 DEF FirstCallbacks, a, n, x, z
<1>5. v.seed.current = c.seed.current
  BY <1>2 DEF Follows, HeapFollows
<1>6. Kept(c, v) /\ IdsFollow(c.seed, v.seed)
  BY <1>2 DEF Follows
<1>7. /\ c.called = w.called /\ c.seed.code = w.seed.code /\ c.seed.used = w.seed.used
      /\ c.seed.current = w.seed.current
      /\ c.fresh = IF w.seed.spanSet THEN w.fresh ELSE w.fresh + 1
      /\ c.seed.trace.trace = w.seed.trace.trace /\ c.seed.trace.span = SpanOfCopy(w)
      /\ c.seed.parent = parent
      /\ c.seed.spanSet = w.seed.spanSet /\ c.seed.traceSet = w.seed.traceSet
  BY DEF Budded
<1> QED BY <1>2, <1>3, <1>4, <1>5, <1>6, <1>7 DEF Sprung, Kept, IdsFollow, SameTrace, v

(* Seed.Copy *)
LEMMA CopySeedGives ==
    ASSUME NEW w, IsWorld(w), w.fresh \in Int, w.seed.current = 0, NEW mods
    PROVE  /\ \E c : Budded(w, c, w.seed.parent) /\ CopySeed(w, mods) = ApplyMods(c, mods)
           /\ AreMods(mods) => Sprung(w, CopySeed(w, mods), w.seed.parent, mods)
<1> DEFINE d == CopySpanSeed(w, TRUE)
           c == IF w.seed.spanSet THEN d ELSE RandomSpan(d)
<1>1. /\ Spawned(w, d) /\ Kept(w, d) /\ SameIds(w.seed, d.seed) /\ SameView(w, d)
      /\ d.seed.current = w.seed.current
  BY CopySpanSeedGives
<1> HIDE DEF d
<1>2. Budded(w, c, w.seed.parent)
  BY <1>1, BudGives DEF Kept, SameIds
<1>3. CopySeed(w, mods) = ApplyMods(c, mods)
  BY Zenon DEF CopySeed, c, d
<1> HIDE DEF c
<1> QED BY <1>2, <1>3, BudSprings

(* Span.SubSeed *)
LEMMA SubSeedGives ==
    ASSUME NEW w, IsWorld(w), w.fresh \in Int, w.seed.current = 0, NEW mods, AreMods(mods), NEW settings
    PROVE  Sprung(w, SubSeed(w, settings, mods), w.seed.trace, mods)
<1> DEFINE d == CopySpanSeed(w, FALSE)
           e == [d EXCEPT !.seed.settings = settings, !.seed.parent = w.seed.trace]
           c == IF w.seed.spanSet THEN e ELSE RandomSpan(e)
<1>1. /\ Spawned(w, d) /\ Kept(w, d) /\ SameIds(w.seed, d.seed) /\ SameView(w, d)
      /\ d.seed.current = w.seed.current
  BY CopySpanSeedGives
<1> HIDE DEF d
<1>2. IsWorld(d) /\ SeedShape(d.seed) /\ DOMAIN d = {"heap", "fresh", "seed", "called"} /\ IsPair(w.seed.trace)
  BY <1>1 DEF Spawned, IsWorld, SeedShape
<1>3. /\ DOMAIN e = DOMAIN d /\ e.heap = d.heap /\ e.fresh = d.fresh /\ e.called = d.called
      /\ DOMAIN e.seed = DOMAIN d.seed /\ e.seed.parent = w.seed.trace
      /\ \A f \in DOMAIN d.seed \ {"settings", "parent"} : e.seed[f] = d.seed[f]
  BY <1>2 DEF SeedShape
<1> HIDE DEF e
<1>4. /\ e.seed.list = d.seed.list /\ e.seed.reactive = d.seed.reactive
      /\ e.seed.current = d.seed.current /\ e.seed.trace = d.seed.trace
      /\ e.seed.spanSet = d.seed.spanSet /\ e.seed.traceSet = d.seed.traceSet
      /\ e.seed.code = d.seed.code /\ e.seed.used = d.seed.used
  BY <1>2, <1>3 DEF SeedShape
<1>5. SeedShape(e.seed)
  BY <1>2, <1>3, <1>4 DEF SeedShape
<1>6. IsWorld(e) /\ HeapFollows(d, e)
  BY <1>2, <1>3, <1>4, <1>5, SameSlices
<1>7. Spawned(w, e) /\ SameView(w, e)
  BY <1>1, <1>3, <1>4, <1>6, SpawnedFollows DEF SameView
<1>8. Budded(w, c, w.seed.trace)
  BY <1>1, <1>3, <1>4, <1>7, BudGives DEF Kept, SameIds
<1>9. SubSeed(w, settings, mods) = ApplyMods(c, mods)
  BY Zenon DEF SubSeed, c, d, e
<1> HIDE DEF c
<1> QED BY <1>8, <1>9, BudSprings

-----------------------------------------------------------------------------
(* react(): the slots that hold a callback. *)

FillFold == INSTANCE FoldProofs WITH Step <- AppendCallback

(* The callbacks that are not nil, in order. *)
LEMMA FilledGives ==
    ASSUME NEW slots, slots \in Seq(DOMAIN Callbacks \cup {Nil})
    PROVE  /\ Filled(slots) \in Seq(DOMAIN Callbacks)
           /\ (\A j \in 1..Len(slots) : slots[j] # Nil) => Filled(slots) = slots
<1> DEFINE D == DOMAIN Callbacks
<1>1. PICK run : /\ run[0] = <<>>
                 /\ \A k \in 1..Len(slots) : run[k] = AppendCallback(run[k - 1], slots[k])
                 /\ run[Len(slots)] = FillFold!FoldLeft(AppendCallback, <<>>, slots)
  BY FillFold!FoldRuns
<1>2. FillFold!FoldLeft(AppendCallback, <<>>, slots) = Filled(slots)
  BY Zenon DEF Filled, FoldLeft, FillFold!FoldLeft, MapThenFoldSet, FillFold!MapThenFoldSet, Max, FillFold!Max
<1>3. Len(slots) \in Nat /\ \A k \in 1..Len(slots) : slots[k] \in D \cup {Nil}
  OBVIOUS
<1> DEFINE Full == \A j \in 1..Len(slots) : slots[j] # Nil
           K == {k \in Nat : k <= Len(slots) =>
                    /\ run[k] \in Seq(D)
                    /\ Full => Len(run[k]) = k /\ \A j \in 1..k : run[k][j] = slots[j]}
<1> HIDE DEF D, Full
<1>4. 0 \in K
  <2>1. <<>> \in Seq(D) /\ Len(<<>>) = 0 /\ 1..0 = {}
    OBVIOUS
  <2> QED BY <1>1, <2>1
<1>5. ASSUME NEW k \in Nat, k \in K PROVE k + 1 \in K
  <2> SUFFICES ASSUME k + 1 <= Len(slots)
               PROVE  /\ run[k + 1] \in Seq(D)
                      /\ Full => /\ Len(run[k + 1]) = k + 1
                                 /\ \A j \in 1..(k + 1) : run[k + 1][j] = slots[j]
    OBVIOUS
  <2> DEFINE s == run[k]  f == slots[k + 1]
  <2>1. /\ k + 1 \in 1..Len(slots) /\ (k + 1) - 1 = k /\ s \in Seq(D)
        /\ Full => Len(s) = k /\ \A j \in 1..k : s[j] = slots[j]
    BY <1>3, <1>5
  <2>2. run[k + 1] = AppendCallback(s, f) /\ f \in D \cup {Nil}
    BY <1>1, <1>3, <2>1
  <2>3. Full => f # Nil
    BY <2>1 DEF Full
  <2> HIDE DEF s
  <2>4. CASE f = Nil
    BY <2>1, <2>2, <2>3, <2>4 DEF AppendCallback
  <2>5. CASE f # Nil
    <3>1. f \in D /\ run[k + 1] = Append(s, f)
      BY <2>2, <2>5 DEF AppendCallback
    <3> HIDE DEF f
    <3>2. /\ Append(s, f) \in Seq(D) /\ Len(Append(s, f)) = Len(s) + 1
          /\ \A j \in 1..Len(s) : Append(s, f)[j] = s[j]
          /\ Append(s, f)[Len(s) + 1] = f
      BY <2>1, <3>1, AppendProperties
    <3>3. ASSUME Full PROVE Len(run[k + 1]) = k + 1 /\ \A j \in 1..(k + 1) : run[k + 1][j] = slots[j]
      <4>1. \A j \in 1..(k + 1) : j \in 1..k \/ j = k + 1
        OBVIOUS
      <4> QED BY <2>1, <3>1, <3>2, <3>3, <4>1 DEF f
    <3> QED BY <3>1, <3>2, <3>3
  <2> QED BY <2>4, <2>5
<1>6. Len(slots) \in K
  <2> HIDE DEF K
  <2> QED BY <1>3, <1>4, <1>5, ModsFold!SetInduction
<1>7. run[Len(slots)] \in Seq(D)
      /\ (Full => Len(run[Len(slots)]) = Len(slots) /\ \A j \in 1..Len(slots) : run[Len(slots)][j] = slots[j])
  BY <1>3, <1>6
<1>8. Full => run[Len(slots)] = slots
  BY <1>7, SeqEqual
<1> QED BY <1>1, <1>2, <1>7, <1>8 DEF D, Full

(* react(): the loop.  After turn k, from w, of which "called" is empty. *)

Slot(w, j) == w.heap[w.seed.reactive.array][j]

AllUntraced(called) == \A j \in 1..Len(called) : Untraced(Callbacks[called[j]])

(* The identifiers that callbacks leave behind. *)
ReactedIds(d, e) ==
    /\ \/ e.trace.trace = d.trace.trace
       \/ FromProgram(e.trace.trace) /\ FromProgram(e.trace.span)
    /\ e.trace.span = d.trace.span \/ FromProgram(e.trace.span)
    /\ e.traceSet = d.traceSet /\ e.spanSet = d.spanSet

Turned(w, v, k) ==
    /\ DOMAIN v = {"heap", "fresh", "seed", "called", "skip", "nilSeen"}
    /\ IsWorld(World(v))
    /\ HeapMoves(w, World(v), 1..k)
    /\ \A j \in 1..k : Slot(v, j) \in DOMAIN Callbacks \/ v.nilSeen
    /\ v.skip => v.nilSeen
    /\ v.fresh = w.fresh /\ v.seed.code = w.seed.code /\ v.seed.used = w.seed.used
    /\ ReactedIds(w.seed, v.seed)
    /\ v.called \in Seq(DOMAIN Callbacks)
    /\ AllUntraced(v.called) => SameTrace(w, v)
    /\ (\A j \in 1..w.seed.reactive.len : Slot(w, j) # Nil) =>
          /\ ~v.skip
          /\ Len(v.called) = k
          /\ \A j \in 1..k : v.called[j] = Slot(w, j)

(* Before its first turn, the loop of react() has called nothing and
   replaced nothing. *)
LEMMA TurnedFirst ==
    ASSUME NEW w, IsWorld(w), w.called = <<>>
    PROVE  Turned(w, Turning(w, FALSE), 0)
<1> DEFINE v == Turning(w, FALSE)
<1>1. /\ DOMAIN v = {"heap", "fresh", "seed", "called", "skip", "nilSeen"}
      /\ v.heap = w.heap /\ v.fresh = w.fresh /\ v.seed = w.seed /\ v.called = w.called /\ ~v.skip
  BY DEF Turning
<1> HIDE DEF v
<1>2. /\ DOMAIN World(v) = DOMAIN w /\ World(v).heap = w.heap /\ World(v).seed = w.seed
  BY <1>1 DEF World, IsWorld
<1>3. SeedShape(World(v).seed)
  BY <1>2 DEF IsWorld
<1>4. IsWorld(World(v)) /\ HeapFollows(w, World(v))
  BY <1>2, <1>3, SameSlices
<1>5. HeapMoves(w, World(v), 1..0)
  <2>1. \A j \in 1..w.seed.reactive.len : World(v).heap[World(v).seed.reactive.array][j] = Slot(w, j)
    BY <1>2 DEF Slot
  <2> QED BY <1>4, <2>1 DEF HeapFollows, HeapMoves, Slot
<1>6. <<>> \in Seq(DOMAIN Callbacks) /\ Len(<<>>) = 0 /\ 1..0 = {}
  OBVIOUS
<1> QED BY <1>1, <1>4, <1>5, <1>6 DEF Turned, ReactedIds, SameTrace, v

(* A callback is called, for its own slot. *)
Calling(v, i, called) ==
    [heap |-> v.heap, fresh |-> v.fresh, called |-> called, seed |-> [v.seed EXCEPT !.current = i]]

CallFollows(v, i, called, f, u) ==
    /\ IsWorld(u) /\ HeapMoves(World(v), u, {i})
    /\ u.called = called /\ u.fresh = v.fresh /\ u.seed.code = v.seed.code /\ u.seed.used = v.seed.used
    /\ ReactedIds(v.seed, u.seed)
    /\ Untraced(Callbacks[f]) => SameTrace(v, u)

(* A callback gives modifiers, which are applied to the seed: what it
   appends with WithReactive(), and that it may replace itself. *)
LEMMA CallGives ==
    ASSUME NEW v, IsWorld(World(v)), NEW i \in 1..v.seed.reactive.len, NEW called,
           NEW f \in DOMAIN Callbacks
    PROVE  CallFollows(v, i, called, f, ApplyMods(Calling(v, i, called), Callbacks[f]))
<1> DEFINE x == Calling(v, i, called)
           u == ApplyMods(x, Callbacks[f])
<1>1. /\ World(v).heap = v.heap /\ World(v).seed = v.seed /\ SeedShape(v.seed) /\ SeedSlices(v.heap, v.seed)
      /\ IsHeap(v.heap)
  BY DEF World, IsWorld
<1>2. /\ DOMAIN x = {"heap", "fresh", "seed", "called"} /\ x.heap = v.heap /\ x.fresh = v.fresh
      /\ x.called = called /\ DOMAIN x.seed = DOMAIN v.seed /\ x.seed.current = i
      /\ \A n \in DOMAIN v.seed \ {"current"} : x.seed[n] = v.seed[n]
  BY <1>1 DEF SeedShape, Calling
<1> HIDE DEF x
<1>3. /\ x.seed.list = v.seed.list /\ x.seed.reactive = v.seed.reactive
      /\ x.seed.trace = v.seed.trace /\ x.seed.parent = v.seed.parent
      /\ x.seed.spanSet = v.seed.spanSet /\ x.seed.traceSet = v.seed.traceSet
      /\ x.seed.code = v.seed.code /\ x.seed.used = v.seed.used
  BY <1>1, <1>2 DEF SeedShape
<1>4. SeedShape(x.seed)
  BY <1>1, <1>2, <1>3 DEF SeedShape
<1>5. v.seed.reactive.len \in Nat
  BY <1>1, WorldSlices
<1>6. IsWorld(x)
  <2>1. x.seed.current \in 0..x.seed.reactive.len
    BY <1>2, <1>3, <1>5
  <2>2. SeedSlices(x.heap, x.seed)
    BY <1>1, <1>2, <1>3, <2>1 DEF SeedSlices
  <2> QED BY <1>1, <1>2, <1>4, <2>2 DEF IsWorld
<1>7. AreMods(Callbacks[f])
  BY CallbacksAssumption
<1>8. Follows(x, u) /\ (Untraced(Callbacks[f]) => SameTrace(x, u))
  BY <1>6, <1>7, ModsFollow
<1> HIDE DEF u
<1>9. HeapMoves(World(v), u, {i})
  <2>1. HeapMoves(x, u, {i})
    BY <1>2, <1>8 DEF Follows, HeapFollows
  <2>2. /\ x.heap = World(v).heap /\ x.seed.list = World(v).seed.list
        /\ x.seed.reactive = World(v).seed.reactive
    BY <1>1, <1>2, <1>3
  <2> QED BY <2>1, <2>2, Zenon DEF HeapMoves
<1>10. ReactedIds(v.seed, u.seed)
  <2>1. IdsFollow(x.seed, u.seed) /\ x.seed.current # 0
    BY <1>2, <1>8 DEF Follows
  <2> QED BY <1>3, <2>1 DEF IdsFollow, ReactedIds
<1>11. Untraced(Callbacks[f]) => SameTrace(v, u)
  BY <1>3, <1>8 DEF SameTrace
<1> QED BY <1>2, <1>3, <1>8, <1>9, <1>10, <1>11 DEF Follows, Kept, CallFollows, u, x

(* One turn of the loop of react(): the callback at k + 1 is called, and
   stays, is replaced or taken out as its modifiers say. *)
LEMMA TurnKeeps ==
    ASSUME NEW w, IsWorld(w), NEW v, NEW k \in Nat, k + 1 <= w.seed.reactive.len, Turned(w, v, k)
    PROVE  Turned(w, CallBack(v, k + 1), k + 1)
<1> DEFINE n == w.seed.reactive.len
           turn == k + 1
           cb == Slot(v, turn)
           before == [heap |-> v.heap, fresh |-> v.fresh, called |-> Append(v.called, cb),
                 seed |-> [v.seed EXCEPT !.current = turn]]
           after == ApplyMods(before, Callbacks[cb])
           t == CallBack(v, turn)
<1>1. /\ n \in Nat /\ turn \in 1..n /\ turn \in Nat
      /\ \A j \in 1..turn : j \in 1..k \/ j = turn
      /\ \A j \in 1..k : j \in 1..turn
  BY WorldSlices
<1>2. /\ IsWorld(World(v)) /\ HeapMoves(w, World(v), 1..k) /\ World(v).heap = v.heap /\ World(v).seed = v.seed
      /\ DOMAIN v = {"heap", "fresh", "seed", "called", "skip", "nilSeen"}
  BY DEF Turned, World
<1>3. /\ v.seed.reactive.len \in Nat /\ v.seed.reactive.len >= n
      /\ \A j \in 1..n : j \notin 1..k => Slot(v, j) = Slot(w, j)
      /\ \A j \in (n + 1)..v.seed.reactive.len : Slot(v, j) \in DOMAIN Callbacks
      /\ \A j \in 1..v.seed.reactive.len : j \in 1..Len(v.heap[v.seed.reactive.array])
  <2>1. /\ v.seed.reactive.len \in 0..Len(v.heap[v.seed.reactive.array])
        /\ Len(v.heap[v.seed.reactive.array]) \in Nat
    BY <1>2, WorldSlices
  <2>2. /\ v.seed.reactive.len >= n
        /\ \A j \in 1..n : j \notin 1..k => Slot(v, j) = Slot(w, j)
        /\ \A j \in (n + 1)..v.seed.reactive.len : Slot(v, j) \in DOMAIN Callbacks
    BY <1>2 DEF HeapMoves, Slot
  <2> QED BY <2>1, <2>2
<1>4. cb = Slot(w, turn) /\ cb \in DOMAIN Callbacks \cup {Nil}
  <2>1. cb = Slot(w, turn)
    BY <1>1, <1>3
  <2>2. turn \in 1..Len(w.heap[w.seed.reactive.array])
    <3>1. n \in 0..Len(w.heap[w.seed.reactive.array]) /\ Len(w.heap[w.seed.reactive.array]) \in Nat
      BY WorldSlices
    <3> QED BY <1>1, <3>1
  <2> QED BY <2>1, <2>2 DEF IsWorld, SeedSlices, Slot
<1>5. ASSUME NEW S, S \subseteq 1..turn, NEW v2, HeapMoves(World(v), v2, S), IsWorld(v2)
      PROVE  HeapMoves(w, v2, 1..turn)
  <2>1. 1..k \subseteq 1..turn /\ S \subseteq 0..w.seed.reactive.len
    BY <1>1, <1>5
  <2>2. PICK y, U, W : y = World(v) /\ U = 1..k /\ W = 1..turn
    OBVIOUS
  <2>3. /\ IsWorld(y) /\ HeapMoves(w, y, U) /\ HeapMoves(y, v2, S)
        /\ U \subseteq W /\ S \subseteq W /\ S \subseteq 0..w.seed.reactive.len
    BY <1>2, <1>5, <2>1, <2>2, Zenon
  <2>4. HeapMoves(w, v2, W)
    <3> HIDE <2>2
    <3>1. IsWorld(w) /\ IsWorld(y) /\ IsWorld(v2)
      BY <1>5, <2>3
    <3>2. HeapMoves(w, y, U) /\ HeapMoves(y, v2, S)
      BY <2>3
    <3>3. U \subseteq W /\ S \subseteq W /\ S \subseteq 0..w.seed.reactive.len
      BY <2>3
    <3> QED BY <3>1, <3>2, <3>3, HeapMovesTrans
  <2> QED BY <2>2, <2>4
<1>6. CASE v.skip
  <2>1. t = [v EXCEPT !.skip = FALSE]
    BY <1>6 DEF CallBack
  <2>2. /\ DOMAIN t = DOMAIN v /\ t.heap = v.heap /\ t.seed = v.seed /\ t.fresh = v.fresh
        /\ t.called = v.called /\ t.nilSeen = v.nilSeen /\ ~t.skip /\ World(t) = World(v)
    BY <1>2, <2>1 DEF World
  <2> HIDE DEF t
  <2>3. HeapMoves(w, World(t), 1..turn)
    BY <1>1, <1>2, <2>2 DEF HeapMoves
  <2>4. ~(\A j \in 1..n : Slot(w, j) # Nil) /\ v.nilSeen
    BY <1>6 DEF Turned
  <2>5. Turned(w, t, turn)
    BY <1>2, <2>2, <2>3, <2>4 DEF Turned, ReactedIds, SameTrace
  <2> QED BY <2>5 DEF t
<1>7. CASE ~v.skip /\ cb = Nil
  <2>1. t = [v EXCEPT !.skip = TRUE, !.nilSeen = TRUE]
    BY <1>7 DEF CallBack, Slot
  <2>2. /\ DOMAIN t = DOMAIN v /\ t.heap = v.heap /\ t.seed = v.seed /\ t.fresh = v.fresh
        /\ t.called = v.called /\ t.nilSeen /\ World(t) = World(v)
    BY <1>2, <2>1 DEF World
  <2> HIDE DEF t
  <2>3. HeapMoves(w, World(t), 1..turn)
    BY <1>1, <1>2, <2>2 DEF HeapMoves
  <2>4. ~(\A j \in 1..n : Slot(w, j) # Nil)
    BY <1>1, <1>4, <1>7
  <2>5. Turned(w, t, turn)
    BY <1>2, <2>2, <2>3, <2>4 DEF Turned, ReactedIds, SameTrace
  <2> QED BY <2>5 DEF t
<1>8. CASE ~v.skip /\ cb # Nil
  <2>1. t = Turning(after, v.nilSeen \/ Slot(after, turn) = Nil) /\ cb \in DOMAIN Callbacks
    BY <1>4, <1>8, Zenon DEF CallBack, Slot
  <2>2. turn \in 1..v.seed.reactive.len
    BY <1>1, <1>3
  <2>3. /\ IsWorld(after) /\ HeapMoves(World(v), after, {turn})
        /\ after.called = Append(v.called, cb) /\ after.fresh = v.fresh
        /\ after.seed.code = v.seed.code /\ after.seed.used = v.seed.used
        /\ ReactedIds(v.seed, after.seed)
        /\ Untraced(Callbacks[cb]) => SameTrace(v, after)
    <3>1. before = Calling(v, turn, Append(v.called, cb))
      BY DEF Calling
    <3>2. CallFollows(v, turn, Append(v.called, cb), cb, after)
      BY <1>2, <2>1, <2>2, <3>1, CallGives, Zenon
    <3> HIDE DEF after
    <3> QED BY <3>2 DEF CallFollows
  <2> HIDE DEF after
  <2>4. /\ DOMAIN t = {"heap", "fresh", "seed", "called", "skip", "nilSeen"}
        /\ t.heap = after.heap /\ t.seed = after.seed /\ t.fresh = after.fresh /\ t.called = after.called
        /\ t.nilSeen = (v.nilSeen \/ Slot(after, turn) = Nil) /\ ~t.skip
        /\ DOMAIN World(t) = {"heap", "fresh", "seed", "called"}
        /\ World(t).heap = after.heap /\ World(t).seed = after.seed
    BY <2>1 DEF Turning, World
  <2> HIDE DEF t
  <2>5. IsWorld(World(t)) /\ HeapMoves(World(v), World(t), {turn})
    BY <2>3, <2>4 DEF IsWorld, HeapMoves
  <2>6. HeapMoves(w, World(t), 1..turn)
    <3>1. {turn} \subseteq 1..turn
      BY <1>1
    <3> QED BY <1>5, <2>5, <3>1
  <2>7. \A j \in 1..turn : Slot(t, j) \in DOMAIN Callbacks \/ t.nilSeen
    <3>1. \A j \in 1..k : Slot(after, j) = Slot(v, j)
      <4>1. \A j \in 1..k : j \in 1..v.seed.reactive.len /\ j \notin {turn}
        BY <1>1, <1>3
      <4> QED BY <1>2, <2>3, <4>1 DEF HeapMoves, Slot
    <3>2. \A j \in 1..k : Slot(v, j) \in DOMAIN Callbacks \/ v.nilSeen
      BY DEF Turned
    <3>3. Slot(after, turn) \in DOMAIN Callbacks \cup {Nil}
      <4>1. IsWorld(after) /\ after.seed.reactive.len >= v.seed.reactive.len
        BY <1>2, <2>3 DEF HeapMoves
      <4>2. turn \in 1..Len(after.heap[after.seed.reactive.array])
        <5>1. /\ after.seed.reactive.len \in 0..Len(after.heap[after.seed.reactive.array])
              /\ Len(after.heap[after.seed.reactive.array]) \in Nat
          BY <4>1, WorldSlices
        <5>2. turn \in 1..n /\ n \in Nat /\ v.seed.reactive.len \in Nat /\ v.seed.reactive.len >= n
          BY <1>1, <1>3
        <5>3. after.seed.reactive.len >= v.seed.reactive.len
          BY <4>1
        <5> HIDE DEF n, turn
        <5> QED BY <5>1, <5>2, <5>3
      <4> QED BY <4>1, <4>2 DEF IsWorld, SeedSlices, Slot
    <3>4. Slot(t, turn) = Slot(after, turn) /\ \A j \in 1..k : Slot(t, j) = Slot(after, j)
      BY <2>4 DEF Slot
    <3> QED BY <1>1, <2>4, <3>1, <3>2, <3>3, <3>4
  <2>8. /\ v.called \in Seq(DOMAIN Callbacks) /\ Len(v.called) \in Nat
        /\ t.called \in Seq(DOMAIN Callbacks) /\ Len(t.called) = Len(v.called) + 1
        /\ \A j \in 1..Len(v.called) : t.called[j] = v.called[j]
        /\ t.called[Len(v.called) + 1] = cb
    <3>1. v.called \in Seq(DOMAIN Callbacks) /\ t.called = Append(v.called, cb)
      BY <2>3, <2>4 DEF Turned
    <3>2. cb \in DOMAIN Callbacks
      BY <2>1
    <3> DEFINE s == v.called
    <3> HIDE DEF cb, s
    <3>3. /\ Append(s, cb) \in Seq(DOMAIN Callbacks) /\ Len(Append(s, cb)) = Len(s) + 1 /\ Len(s) \in Nat
          /\ \A j \in 1..Len(s) : Append(s, cb)[j] = s[j]
          /\ Append(s, cb)[Len(s) + 1] = cb
      BY <3>1, <3>2, AppendProperties, LenProperties DEF s
    <3> QED BY <3>1, <3>3 DEF s
  <2>9. AllUntraced(t.called) => SameTrace(w, t)
    <3>1. ASSUME AllUntraced(t.called) PROVE AllUntraced(v.called) /\ Untraced(Callbacks[cb])
      <4>1. \A j \in 1..Len(v.called) : j \in 1..Len(t.called)
        BY <2>8
      <4>2. Len(v.called) + 1 \in 1..Len(t.called)
        BY <2>8
      <4> QED BY <2>8, <3>1, <4>1, <4>2 DEF AllUntraced
    <3> QED BY <2>3, <2>4, <3>1 DEF Turned, SameTrace
  <2>10. ReactedIds(w.seed, t.seed)
    BY <2>3, <2>4 DEF Turned, ReactedIds
  <2>11. ASSUME \A j \in 1..n : Slot(w, j) # Nil
         PROVE  Len(t.called) = turn /\ \A j \in 1..turn : t.called[j] = Slot(w, j)
    <3>1. Len(v.called) = k /\ \A j \in 1..k : v.called[j] = Slot(w, j)
      BY <2>11 DEF Turned
    <3> QED BY <1>1, <1>4, <2>8, <3>1
  <2>12. t.fresh = w.fresh /\ t.seed.code = w.seed.code /\ t.seed.used = w.seed.used
    BY <2>3, <2>4 DEF Turned
  <2>13. Turned(w, t, turn)
    BY <2>4, <2>5, <2>6, <2>7, <2>8, <2>9, <2>10, <2>11, <2>12 DEF Turned
  <2> QED BY <2>13 DEF t
<1> QED BY <1>6, <1>7, <1>8

-----------------------------------------------------------------------------
(* react(): before the loop. *)

Start(w, isRequest) ==
    IF isRequest /\ ~w.seed.traceSet THEN RebuildSetNonZero(w) ELSE w

(* Identifiers that were not set are drawn; nothing else changes. *)
Drawn(w, s) ==
    /\ IsWorld(s) /\ s.heap = w.heap /\ s.called = w.called
    /\ s.seed.list = w.seed.list /\ s.seed.reactive = w.seed.reactive
    /\ s.seed.current = w.seed.current /\ s.seed.parent = w.seed.parent
    /\ s.seed.code = w.seed.code /\ s.seed.used = w.seed.used
    /\ s.seed.spanSet = w.seed.spanSet /\ s.seed.traceSet = w.seed.traceSet
    /\ s.fresh \in Int /\ s.fresh >= w.fresh
    /\ \/ s.seed.trace.trace = w.seed.trace.trace
       \/ w.seed.trace.trace = Zero /\ s.seed.trace.trace \in (w.fresh + 1)..s.fresh
    /\ \/ s.seed.trace.span = w.seed.trace.span
       \/ w.seed.trace.span = Zero /\ s.seed.trace.span \in (w.fresh + 1)..s.fresh

(* react() begins: it draws the ids that were not set, of the trace for a
   request only. *)
LEMMA StartGives ==
    ASSUME NEW w, IsWorld(w), w.fresh \in Nat, NEW isRequest \in BOOLEAN
    PROVE  LET s == Start(w, isRequest) IN
           /\ Drawn(w, s)
           /\ isRequest /\ ~w.seed.traceSet => s.seed.trace.trace # Zero /\ s.seed.trace.span # Zero
<1> DEFINE t == IF w.seed.trace.trace = Zero
                THEN [w EXCEPT !.fresh = @ + 1, !.seed.trace.trace = w.fresh + 1]
                ELSE w
           s == IF t.seed.trace.span = Zero THEN RandomSpan(t) ELSE t
<1>1. DOMAIN w = {"heap", "fresh", "seed", "called"} /\ SeedShape(w.seed)
  BY DEF IsWorld
<1>2. Drawn(w, w)
  BY DEF Drawn
<1>3. Drawn(w, t) /\ t.seed.trace.trace # Zero /\ t.seed.trace.span = w.seed.trace.span
  <2>1. CASE w.seed.trace.trace # Zero
    BY <1>2, <2>1
  <2>2. CASE w.seed.trace.trace = Zero
    <3> PICK x : x = [w EXCEPT !.fresh = @ + 1, !.seed.trace.trace = w.fresh + 1]
      OBVIOUS
    <3>1. /\ DOMAIN x = DOMAIN w /\ x.heap = w.heap /\ x.fresh = w.fresh + 1 /\ x.called = w.called
          /\ x.seed = [w.seed EXCEPT !.trace = [w.seed.trace EXCEPT !.trace = w.fresh + 1]]
      BY <1>1 DEF SeedShape, IsPair
    <3>2. /\ DOMAIN x.seed = DOMAIN w.seed
          /\ \A f \in DOMAIN w.seed \ {"trace"} : x.seed[f] = w.seed[f]
          /\ x.seed.trace = [w.seed.trace EXCEPT !.trace = w.fresh + 1]
      BY <1>1, <3>1 DEF SeedShape
    <3>3. /\ DOMAIN x.seed.trace = DOMAIN w.seed.trace
          /\ x.seed.trace.span = w.seed.trace.span /\ x.seed.trace.trace = w.fresh + 1
      BY <1>1, <3>2 DEF SeedShape, IsPair
    <3>4. /\ x.seed.list = w.seed.list /\ x.seed.reactive = w.seed.reactive
          /\ x.seed.current = w.seed.current /\ x.seed.parent = w.seed.parent
          /\ x.seed.spanSet = w.seed.spanSet
          /\ x.seed.traceSet = w.seed.traceSet /\ x.seed.code = w.seed.code
          /\ x.seed.used = w.seed.used
      BY <1>1, <3>2 DEF SeedShape
    <3>5. SeedShape(x.seed)
      BY <1>1, <3>2, <3>3, <3>4 DEF SeedShape, IsPair
    <3>6. IsWorld(x)
      BY <3>1, <3>4, <3>5, SameSlices
    <3>7. Drawn(w, x) /\ x.seed.trace.trace # Zero
      BY <2>2, <3>1, <3>3, <3>4, <3>6 DEF Drawn, Zero
    <3>8. t = x
      BY <2>2
    <3> HIDE DEF t
    <3> QED BY <3>3, <3>7, <3>8
  <2> QED BY <2>1, <2>2
<1> HIDE DEF t
<1>4. Drawn(w, s) /\ s.seed.trace.trace # Zero /\ s.seed.trace.span # Zero
  <2>1. CASE t.seed.trace.span # Zero
    BY <1>3, <2>1
  <2>2. CASE t.seed.trace.span = Zero
    <3> DEFINE v == RandomSpan(t)
    <3>1. IsWorld(t) /\ t.fresh \in Int /\ t.fresh >= w.fresh
      BY <1>3 DEF Drawn
    <3>2. /\ IsWorld(v) /\ v.heap = t.heap
          /\ v.seed.list = t.seed.list /\ v.seed.reactive = t.seed.reactive
          /\ v.called = t.called /\ v.seed.code = t.seed.code /\ v.seed.used = t.seed.used
          /\ v.seed.current = t.seed.current /\ v.fresh = t.fresh + 1
          /\ v.seed.trace.trace = t.seed.trace.trace /\ v.seed.trace.span = t.fresh + 1
          /\ v.seed.parent = t.seed.parent
          /\ v.seed.spanSet = t.seed.spanSet /\ v.seed.traceSet = t.seed.traceSet
      BY <3>1, RandomSpanGives
    <3> HIDE DEF v
    <3>3. v.fresh \in Int /\ v.fresh >= w.fresh /\ v.seed.trace.span \in (w.fresh + 1)..v.fresh
          /\ \A x \in (w.fresh + 1)..t.fresh : x \in (w.fresh + 1)..v.fresh
      BY <3>1, <3>2
    <3>4. v.seed.trace.span # Zero
      BY <3>1, <3>2 DEF Zero
    <3>5. w.seed.trace.span = Zero
      BY <1>3, <2>2
    <3>6. Drawn(w, v)
      BY <1>3, <3>2, <3>3, <3>5 DEF Drawn
    <3> QED BY <1>3, <2>2, <3>2, <3>4, <3>6 DEF v
  <2> QED BY <2>1, <2>2
<1>5. RebuildSetNonZero(w) = s
  BY Zenon DEF RebuildSetNonZero, s, t
<1> HIDE DEF s
<1> QED BY <1>2, <1>4, <1>5 DEF Start

(* The overrides of the identifiers are no longer in force. *)
LEMMA Cleared ==
    ASSUME NEW s, IsWorld(s)
    PROVE  LET c == [s EXCEPT !.seed.traceSet = FALSE, !.seed.spanSet = FALSE] IN
           /\ IsWorld(c) /\ c.heap = s.heap /\ c.called = s.called /\ c.fresh = s.fresh
           /\ c.seed.list = s.seed.list /\ c.seed.reactive = s.seed.reactive
           /\ c.seed.current = s.seed.current /\ c.seed.parent = s.seed.parent
           /\ c.seed.code = s.seed.code /\ c.seed.used = s.seed.used
           /\ c.seed.trace = s.seed.trace /\ c.seed.traceSet = FALSE /\ c.seed.spanSet = FALSE
<1> DEFINE c == [s EXCEPT !.seed.traceSet = FALSE, !.seed.spanSet = FALSE]
<1>1. DOMAIN s = {"heap", "fresh", "seed", "called"} /\ SeedShape(s.seed)
  BY DEF IsWorld
<1>2. /\ DOMAIN c = DOMAIN s /\ c.heap = s.heap /\ c.fresh = s.fresh /\ c.called = s.called
      /\ c.seed = [s.seed EXCEPT !.traceSet = FALSE, !.spanSet = FALSE]
  BY <1>1 DEF SeedShape
<1> HIDE DEF c
<1>3. /\ DOMAIN c.seed = DOMAIN s.seed
      /\ \A f \in DOMAIN s.seed \ {"traceSet", "spanSet"} : c.seed[f] = s.seed[f]
      /\ c.seed.traceSet = FALSE /\ c.seed.spanSet = FALSE
  BY <1>1, <1>2 DEF SeedShape
<1>4. /\ c.seed.list = s.seed.list /\ c.seed.reactive = s.seed.reactive
      /\ c.seed.current = s.seed.current /\ c.seed.parent = s.seed.parent
      /\ c.seed.code = s.seed.code /\ c.seed.used = s.seed.used
      /\ c.seed.trace = s.seed.trace
  BY <1>1, <1>3 DEF SeedShape
<1>5. SeedShape(c.seed)
  BY <1>1, <1>3, <1>4 DEF SeedShape
<1>6. IsWorld(c)
  BY <1>2, <1>4, <1>5, SameSlices
<1> QED BY <1>2, <1>3, <1>4, <1>6 DEF c

-----------------------------------------------------------------------------
(* react(): the loop, and after it. *)

CallFold == INSTANCE FoldProofs WITH Step <- CallBack

(* The loop of react() takes its turns over the whole slice it began with. *)
LEMMA LoopTurns ==
    ASSUME NEW w, IsWorld(w), w.called = <<>>
    PROVE  Turned(w, FoldLeft(CallBack, Turning(w, FALSE), [i \in 1..w.seed.reactive.len |-> i]),
                  w.seed.reactive.len)
<1> DEFINE n == w.seed.reactive.len
           turns == [i \in 1..n |-> i]
           first == Turning(w, FALSE)
<1>1. n \in Nat
  BY WorldSlices
<1> HIDE DEF n
<1>2. turns \in Seq(Nat) /\ Len(turns) = n /\ \A k \in 1..n : turns[k] = k
  BY <1>1
<1> HIDE DEF turns, first
<1>3. PICK run : /\ run[0] = first
                 /\ \A k \in 1..Len(turns) : run[k] = CallBack(run[k - 1], turns[k])
                 /\ run[Len(turns)] = CallFold!FoldLeft(CallBack, first, turns)
  BY <1>2, CallFold!FoldRuns
<1>4. CallFold!FoldLeft(CallBack, first, turns) = FoldLeft(CallBack, first, turns)
  BY Zenon DEF FoldLeft, CallFold!FoldLeft, MapThenFoldSet, CallFold!MapThenFoldSet, Max, CallFold!Max
<1> DEFINE K == {k \in Nat : k <= n => Turned(w, run[k], k)}
<1>5. 0 \in K
  BY <1>3, TurnedFirst DEF first
<1>6. ASSUME NEW k \in Nat, k \in K PROVE k + 1 \in K
  <2> SUFFICES ASSUME k + 1 <= n PROVE Turned(w, run[k + 1], k + 1)
    OBVIOUS
  <2>1. /\ k + 1 \in 1..n /\ (k + 1) - 1 = k /\ Turned(w, run[k], k)
    BY <1>1, <1>6
  <2>2. run[k + 1] = CallBack(run[k], k + 1)
    BY <1>2, <1>3, <2>1
  <2> QED BY <2>1, <2>2, TurnKeeps DEF n
<1>7. n \in K
  <2> HIDE DEF K
  <2> QED BY <1>1, <1>5, <1>6, ModsFold!SetInduction
<1>8. Turned(w, run[n], n)
  BY <1>1, <1>7
<1>9. run[n] = FoldLeft(CallBack, first, turns)
  BY <1>2, <1>3, <1>4
<1> HIDE DEF K
<1>10. Turned(w, FoldLeft(CallBack, first, turns), n)
  BY <1>8, <1>9, Zenon
<1> QED BY <1>10, Zenon DEF n, turns, first

(* Of the heap of w, g has what the seed of w needs: the same arrays, with
   bases where there were bases. *)
HeapServes(w, g) ==
    LET l == w.seed.list.array  r == w.seed.reactive.array IN
    /\ Untouched(w.heap, g, {l, r})
    /\ \A j \in 1..Len(w.heap[l]) :
          /\ g[l][j] \in Bases \cup {Nil}
          /\ w.heap[l][j] \in Bases => g[l][j] \in Bases
    /\ \A j \in 1..Len(w.heap[r]) : g[r][j] \in DOMAIN Callbacks \cup {Nil}

(* What react() makes of the seed of w, after s, its start. *)
Sprouts(w, v, s) ==
    /\ IsWorld(v) /\ v.seed.current = 0
    /\ HeapServes(w, v.heap)
    /\ v.seed.list.array \in {w.seed.list.array} \cup ((Len(w.heap) + 1)..Len(v.heap))
    /\ v.seed.reactive.array \in {w.seed.reactive.array} \cup ((Len(w.heap) + 1)..Len(v.heap))
    /\ v.fresh = s.fresh /\ v.seed.code = w.seed.code /\ v.seed.used = w.seed.used
    /\ \/ v.seed.trace.trace = s.seed.trace.trace
       \/ FromProgram(v.seed.trace.trace) /\ FromProgram(v.seed.trace.span)
    /\ v.seed.trace.span = s.seed.trace.span \/ FromProgram(v.seed.trace.span)
    /\ v.seed.traceSet = FALSE /\ v.seed.spanSet = FALSE
    /\ v.called \in Seq(DOMAIN Callbacks)
    /\ AllUntraced(v.called) => v.seed.trace = s.seed.trace /\ v.seed.parent = w.seed.parent
    /\ (\A j \in 1..w.seed.reactive.len : Slot(w, j) # Nil) => v.called = View(w.heap, w.seed.reactive)

NoEmptySlot(w) == \A j \in 1..w.seed.reactive.len : Slot(w, j) # Nil

(* After the loop, "current" is reset. *)
LEMMA LoopDone ==
    ASSUME NEW w, IsWorld(w), w.called = <<>>, w.seed.traceSet = FALSE, w.seed.spanSet = FALSE,
           NEW v, Turned(w, v, w.seed.reactive.len)
    PROVE  LET d == [World(v) EXCEPT !.seed.current = 0] IN
           Sprouts(w, d, w) /\ (v.nilSeen \/ NoEmptySlot(d))
<1> DEFINE d == [World(v) EXCEPT !.seed.current = 0]
           n == w.seed.reactive.len
<1>1. /\ IsWorld(World(v)) /\ HeapMoves(w, World(v), 1..n)
      /\ World(v).heap = v.heap /\ World(v).seed = v.seed /\ World(v).called = v.called
      /\ World(v).fresh = v.fresh /\ DOMAIN World(v) = {"heap", "fresh", "seed", "called"}
      /\ SeedShape(v.seed) /\ n \in Nat /\ v.seed.reactive.len \in Nat
  BY WorldSlices DEF Turned, World, IsWorld
<1>2. /\ DOMAIN d = DOMAIN World(v) /\ d.heap = v.heap /\ d.fresh = v.fresh /\ d.called = v.called
      /\ d.seed = [v.seed EXCEPT !.current = 0]
  BY <1>1 DEF World
<1> HIDE DEF d
<1>3. /\ DOMAIN d.seed = DOMAIN v.seed /\ d.seed.current = 0
      /\ \A f \in DOMAIN v.seed \ {"current"} : d.seed[f] = v.seed[f]
  BY <1>1, <1>2 DEF SeedShape
<1>4. /\ d.seed.list = v.seed.list /\ d.seed.reactive = v.seed.reactive
      /\ d.seed.parent = v.seed.parent /\ d.seed.trace = v.seed.trace
      /\ d.seed.spanSet = v.seed.spanSet /\ d.seed.traceSet = v.seed.traceSet
      /\ d.seed.code = v.seed.code /\ d.seed.used = v.seed.used
  BY <1>1, <1>3 DEF SeedShape
<1>5. SeedShape(d.seed)
  BY <1>1, <1>3, <1>4 DEF SeedShape
<1>6. IsWorld(d)
  <2>1. SeedSlices(v.heap, v.seed) /\ IsHeap(v.heap) /\ 0 \in 0..v.seed.reactive.len
    BY <1>1 DEF IsWorld
  <2> QED BY <1>1, <1>2, <1>3, <1>4, <1>5, <2>1 DEF IsWorld, SeedSlices
<1>7. HeapServes(w, d.heap)
  BY <1>1, <1>2, Zenon DEF HeapMoves, HeapServes
<1>8. /\ d.seed.list.array \in {w.seed.list.array} \cup ((Len(w.heap) + 1)..Len(d.heap))
      /\ d.seed.reactive.array \in {w.seed.reactive.array} \cup ((Len(w.heap) + 1)..Len(d.heap))
  BY <1>1, <1>2, <1>4 DEF HeapMoves
<1>9. v.nilSeen \/ NoEmptySlot(d)
  <2> SUFFICES ASSUME ~v.nilSeen, NEW j \in 1..v.seed.reactive.len PROVE Slot(v, j) # Nil
    BY <1>2, <1>4 DEF NoEmptySlot, Slot
  <2>1. j \in 1..n => Slot(v, j) \in DOMAIN Callbacks
    BY DEF Turned
  <2>2. j \in (n + 1)..v.seed.reactive.len => Slot(v, j) \in DOMAIN Callbacks
    BY <1>1 DEF HeapMoves, Slot
  <2>3. j \in 1..n \/ j \in (n + 1)..v.seed.reactive.len
    BY <1>1
  <2> QED BY <2>1, <2>2, <2>3, CallbacksAssumption
<1>10. d.called \in Seq(DOMAIN Callbacks) /\ (AllUntraced(d.called) => SameTrace(w, d))
  BY <1>2, <1>4 DEF Turned, SameTrace
<1>11. ASSUME \A j \in 1..n : Slot(w, j) # Nil PROVE d.called = View(w.heap, w.seed.reactive)
  <2>1. Len(v.called) = n /\ \A j \in 1..n : v.called[j] = Slot(w, j)
    BY <1>11 DEF Turned
  <2>2. /\ View(w.heap, w.seed.reactive) \in Seq(Cells) /\ Len(View(w.heap, w.seed.reactive)) = n
        /\ \A j \in 1..n : View(w.heap, w.seed.reactive)[j] = Slot(w, j)
    BY ViewOf DEF IsWorld, SeedSlices, Slot
  <2>3. d.called \in Seq(Cells)
    BY <1>10 DEF Cells
  <2> DEFINE x == d.called  y == View(w.heap, w.seed.reactive)
  <2>4. x \in Seq(Cells) /\ y \in Seq(Cells) /\ Len(x) = Len(y) /\ \A j \in 1..Len(x) : x[j] = y[j]
    BY <1>2, <2>1, <2>2, <2>3
  <2> HIDE DEF x, y
  <2>5. x = y
    BY <2>4, SeqEqual
  <2> QED BY <2>5 DEF x, y
<1>12. d.fresh = w.fresh /\ d.seed.code = w.seed.code /\ d.seed.used = w.seed.used
       /\ ReactedIds(w.seed, d.seed)
  BY <1>2, <1>4 DEF Turned, ReactedIds
<1> QED BY <1>3, <1>6, <1>7, <1>8, <1>9, <1>10, <1>11, <1>12 DEF Sprouts, ReactedIds, SameTrace, d

(* The slots that are empty are left out. *)
LEMMA CompactedGives ==
    ASSUME NEW d, IsWorld(d), d.seed.current = 0
    PROVE  LET v == Compacted(d) IN
           /\ IsWorld(v) /\ NoEmptySlot(v) /\ Untouched(d.heap, v.heap, {})
           /\ v.seed.list = d.seed.list /\ v.seed.reactive.array \in (Len(d.heap) + 1)..Len(v.heap)
           /\ v.fresh = d.fresh /\ v.called = d.called /\ v.seed.current = 0
           /\ v.seed.parent = d.seed.parent /\ v.seed.trace = d.seed.trace
           /\ v.seed.code = d.seed.code /\ v.seed.used = d.seed.used
           /\ v.seed.spanSet = d.seed.spanSet /\ v.seed.traceSet = d.seed.traceSet
<1> DEFINE a == View(d.heap, d.seed.reactive)
           b == Filled(a)
           c == Fresh(d.heap, b)
           v == Compacted(d)
<1>1. DOMAIN d = {"heap", "fresh", "seed", "called"} /\ SeedShape(d.seed)
      /\ IsHeap(d.heap) /\ SeedSlices(d.heap, d.seed)
  BY DEF IsWorld
<1>2. a \in Seq(DOMAIN Callbacks \cup {Nil})
  <2>1. /\ a \in Seq(Cells) /\ Len(a) = d.seed.reactive.len
        /\ \A j \in 1..d.seed.reactive.len : a[j] = d.heap[d.seed.reactive.array][j]
    BY <1>1, ViewOf DEF SeedSlices
  <2>2. \A j \in 1..d.seed.reactive.len : j \in 1..Len(d.heap[d.seed.reactive.array])
    BY WorldSlices
  <2>3. \A j \in 1..Len(a) : a[j] \in DOMAIN Callbacks \cup {Nil}
    BY <1>1, <2>1, <2>2 DEF SeedSlices
  <2> HIDE DEF a
  <2>4. Len(a) \in Nat /\ a = [j \in 1..Len(a) |-> a[j]]
    BY <2>1
  <2> QED BY <2>3, <2>4
<1> HIDE DEF a
<1>3. b \in Seq(DOMAIN Callbacks) /\ b \in Seq(Cells) /\ Len(b) \in Nat
      /\ \A j \in 1..Len(b) : b[j] \in DOMAIN Callbacks
  <2>1. b \in Seq(DOMAIN Callbacks)
    BY <1>2, FilledGives
  <2> HIDE DEF b
  <2> QED BY <2>1 DEF Cells
<1> HIDE DEF b
<1>4. /\ IsHeap(c.heap) /\ IsSlice(c.heap, c.slice) /\ Untouched(d.heap, c.heap, {})
      /\ c.slice.array = Len(d.heap) + 1 /\ Len(c.heap) = Len(d.heap) + 1
      /\ c.slice.len = Len(b) /\ c.heap[Len(d.heap) + 1] = b
  BY <1>1, <1>3, FreshSlice
<1>5. /\ DOMAIN v = DOMAIN d /\ v.heap = c.heap /\ v.fresh = d.fresh /\ v.called = d.called
      /\ v.seed = [d.seed EXCEPT !.reactive = c.slice]
  BY <1>1 DEF Compacted, a, b, SeedShape
<1> HIDE DEF c, v
<1>6. /\ DOMAIN v.seed = DOMAIN d.seed /\ v.seed.reactive = c.slice
      /\ \A f \in DOMAIN d.seed \ {"reactive"} : v.seed[f] = d.seed[f]
  BY <1>1, <1>5 DEF SeedShape
<1>7. /\ v.seed.list = d.seed.list /\ v.seed.current = d.seed.current
      /\ v.seed.parent = d.seed.parent /\ v.seed.trace = d.seed.trace
      /\ v.seed.spanSet = d.seed.spanSet /\ v.seed.traceSet = d.seed.traceSet
      /\ v.seed.code = d.seed.code /\ v.seed.used = d.seed.used
  BY <1>1, <1>6 DEF SeedShape
<1>8. SeedShape(v.seed)
  BY <1>1, <1>6, <1>7 DEF SeedShape
<1>9. /\ Len(d.heap) \in Nat /\ d.seed.list.array \in 1..Len(d.heap)
      /\ IsSlice(v.heap, v.seed.list) /\ v.heap[d.seed.list.array] = d.heap[d.seed.list.array]
  <2>1. /\ Len(d.heap) \in Nat /\ d.seed.list.array \in 1..Len(d.heap)
        /\ IsSlice(d.heap, d.seed.list)
    BY <1>1, WorldSlices DEF SeedSlices
  <2>2. /\ Len(c.heap) \in Nat /\ d.seed.list.array \in 1..Len(c.heap)
        /\ Len(c.heap[d.seed.list.array]) = Len(d.heap[d.seed.list.array])
        /\ c.heap[d.seed.list.array] = d.heap[d.seed.list.array]
    <3>1. PICK i \in 1..Len(d.heap) : i = d.seed.list.array
      BY <2>1
    <3>2. Len(c.heap[i]) = Len(d.heap[i]) /\ c.heap[i] = d.heap[i]
      <4> HIDE <3>1
      <4> QED BY <1>4 DEF Untouched
    <3>3. Len(c.heap) \in Nat /\ i \in 1..Len(c.heap)
      <4> HIDE <3>1
      <4> QED BY <1>4, <2>1
    <3> QED BY <3>1, <3>2, <3>3
  <2>3. IsSlice(c.heap, d.seed.list)
    BY <2>1, <2>2 DEF IsSlice
  <2> QED BY <1>5, <1>7, <2>1, <2>2, <2>3
<1>10. SeedSlices(v.heap, v.seed)
  <2>1. v.seed.list.array # v.seed.reactive.array /\ 0 \in 0..v.seed.reactive.len
    BY <1>3, <1>4, <1>6, <1>7, <1>9
  <2>2. /\ \A j \in 1..Len(v.heap[v.seed.list.array]) : v.heap[v.seed.list.array][j] \in Bases \cup {Nil}
        /\ \A j \in 1..v.seed.list.len : v.heap[v.seed.list.array][j] \in Bases
    BY <1>1, <1>7, <1>9 DEF SeedSlices
  <2> QED BY <1>3, <1>4, <1>5, <1>6, <1>7, <1>9, <2>1, <2>2 DEF SeedSlices
<1>11. IsWorld(v)
  BY <1>1, <1>4, <1>5, <1>8, <1>10 DEF IsWorld
<1>12. NoEmptySlot(v)
  BY <1>3, <1>4, <1>5, <1>6, CallbacksAssumption DEF NoEmptySlot, Slot
<1>13. v.seed.reactive.array \in (Len(d.heap) + 1)..Len(v.heap)
  BY <1>4, <1>5, <1>6, <1>9
<1> QED BY <1>4, <1>5, <1>7, <1>11, <1>12, <1>13 DEF v

(* Writes to arrays that are newer than the heap of a seed leave it what it
   was served. *)
LEMMA ServedStill ==
    ASSUME NEW w, IsWorld(w), NEW g, NEW k, HeapServes(w, g), Len(g) \in Nat, Len(k) \in Nat,
           NEW S, Untouched(g, k, S), \A a \in S : a > Len(w.heap)
    PROVE  HeapServes(w, k)
<1> DEFINE l == w.seed.list.array  r == w.seed.reactive.array
<1>1. l \in 1..Len(w.heap) /\ r \in 1..Len(w.heap) /\ Len(w.heap) \in Nat
  BY WorldSlices
<1>2. Untouched(w.heap, g, {l, r})
  BY DEF HeapServes
<1>3. Untouched(w.heap, k, {l, r})
  <2>1. {l, r} \subseteq {l, r} /\ \A b \in S : b \in {l, r} \/ b > Len(w.heap)
    OBVIOUS
  <2> DEFINE h == w.heap  Q == {l, r}
  <2> HIDE DEF h, Q
  <2>2. Untouched(h, g, Q) /\ Untouched(g, k, S) /\ Len(h) \in Nat /\ Q \subseteq Q
        /\ \A b \in S : b \in Q \/ b > Len(h)
    BY <1>1, <1>2, <2>1 DEF h, Q
  <2>3. Untouched(h, k, Q)
    BY <2>2, UntouchedTrans
  <2> QED BY <2>3 DEF h, Q
<1>4. k[l] = g[l] /\ k[r] = g[r]
  <2>1. l \in 1..Len(g) /\ r \in 1..Len(g)
    BY <1>1, <1>2 DEF Untouched
  <2>2. l \notin S /\ r \notin S
    BY <1>1
  <2>3. \A a \in 1..Len(g) : a \notin S => k[a] = g[a]
    BY DEF Untouched
  <2> QED BY <2>1, <2>2, <2>3
<1> QED BY <1>3, <1>4 DEF HeapServes

(* react() *)
LEMMA ReactGives ==
    ASSUME NEW w, IsWorld(w), w.seed.current = 0, w.called = <<>>, w.fresh \in Nat,
           NEW isRequest \in BOOLEAN
    PROVE  Sprouts(w, React(w, isRequest), Start(w, isRequest)) /\ NoEmptySlot(React(w, isRequest))
<1> DEFINE s == Start(w, isRequest)
           c == [s EXCEPT !.seed.traceSet = FALSE, !.seed.spanSet = FALSE]
           turns == [i \in 1..w.seed.reactive.len |-> i]
           end == FoldLeft(CallBack, Turning(c, FALSE), turns)
           d == [World(end) EXCEPT !.seed.current = 0]
           v == React(w, isRequest)
<1>1. v = IF end.nilSeen THEN Compacted(d) ELSE d
  BY Zenon DEF React, Start, s, c, end, d
<1> HIDE DEF v
<1>2. Drawn(w, s)
  BY StartGives
<1> HIDE DEF s
<1>3. /\ IsWorld(c) /\ c.heap = s.heap /\ c.called = s.called /\ c.fresh = s.fresh
      /\ c.seed.list = s.seed.list /\ c.seed.reactive = s.seed.reactive
      /\ c.seed.current = s.seed.current /\ c.seed.parent = s.seed.parent
      /\ c.seed.code = s.seed.code /\ c.seed.used = s.seed.used
      /\ c.seed.trace = s.seed.trace /\ c.seed.traceSet = FALSE /\ c.seed.spanSet = FALSE
  BY <1>2, Cleared DEF Drawn
<1> HIDE DEF c
<1>4. /\ c.heap = w.heap /\ c.called = <<>> /\ c.seed.list = w.seed.list
      /\ c.seed.reactive = w.seed.reactive /\ c.seed.current = 0 /\ c.seed.parent = w.seed.parent
      /\ c.seed.code = w.seed.code /\ c.seed.used = w.seed.used
  BY <1>2, <1>3 DEF Drawn
<1>5. Turned(c, end, c.seed.reactive.len)
  <2>1. end = FoldLeft(CallBack, Turning(c, FALSE), [i \in 1..c.seed.reactive.len |-> i])
    BY <1>4
  <2> HIDE DEF end
  <2> QED BY <1>3, <1>4, <2>1, LoopTurns
<1> HIDE DEF end
<1>6. Sprouts(c, d, c) /\ (end.nilSeen \/ NoEmptySlot(d))
  BY <1>3, <1>4, <1>5, LoopDone
<1> HIDE DEF d
<1>7. Sprouts(c, v, c) /\ NoEmptySlot(v)
  <2>1. CASE ~end.nilSeen
    BY <1>1, <1>6, <2>1
  <2>2. CASE end.nilSeen
    <3>1. IsWorld(d) /\ d.seed.current = 0 /\ v = Compacted(d)
      BY <1>1, <1>6, <2>2 DEF Sprouts
    <3>2. /\ IsWorld(v) /\ NoEmptySlot(v) /\ Untouched(d.heap, v.heap, {})
          /\ v.seed.list = d.seed.list /\ v.seed.reactive.array \in (Len(d.heap) + 1)..Len(v.heap)
          /\ v.fresh = d.fresh /\ v.called = d.called /\ v.seed.current = 0
          /\ v.seed.parent = d.seed.parent /\ v.seed.trace = d.seed.trace
          /\ v.seed.code = d.seed.code /\ v.seed.used = d.seed.used
          /\ v.seed.spanSet = d.seed.spanSet /\ v.seed.traceSet = d.seed.traceSet
      BY <3>1, CompactedGives
    <3>3. /\ Len(c.heap) \in Nat /\ Len(d.heap) \in Nat /\ Len(v.heap) \in Nat
          /\ Len(d.heap) >= Len(c.heap) /\ Len(v.heap) >= Len(d.heap)
      BY <1>3, <1>6, <3>1, <3>2, WorldSlices DEF Sprouts, HeapServes, Untouched
    <3>4. HeapServes(c, v.heap)
      <4>1. \A a \in {} : a > Len(c.heap)
        OBVIOUS
      <4>2. HeapServes(c, d.heap)
        BY <1>6 DEF Sprouts
      <4>3. IsWorld(c) /\ Untouched(d.heap, v.heap, {})
        BY <1>3, <3>2
      <4> DEFINE g1 == d.heap  k1 == v.heap
      <4>4. HeapServes(c, g1) /\ Len(g1) \in Nat /\ Len(k1) \in Nat /\ Untouched(g1, k1, {})
        BY <3>3, <4>2, <4>3
      <4> HIDE DEF g1, k1
      <4>5. HeapServes(c, k1)
        BY <4>1, <4>3, <4>4, ServedStill
      <4> QED BY <4>5 DEF k1
    <3>5. /\ v.seed.list.array \in {c.seed.list.array} \cup ((Len(c.heap) + 1)..Len(v.heap))
          /\ v.seed.reactive.array \in {c.seed.reactive.array} \cup ((Len(c.heap) + 1)..Len(v.heap))
      <4>1. /\ d.seed.list.array \in {c.seed.list.array} \cup ((Len(c.heap) + 1)..Len(d.heap))
            /\ d.seed.reactive.array \in {c.seed.reactive.array} \cup ((Len(c.heap) + 1)..Len(d.heap))
        BY <1>6 DEF Sprouts
      <4> DEFINE la == d.seed.list.array  ra == v.seed.reactive.array
                 lc == c.seed.list.array  rc == c.seed.reactive.array
                 nc == Len(c.heap)  nd == Len(d.heap)  nv == Len(v.heap)
      <4>2. /\ la \in {lc} \cup ((nc + 1)..nd) /\ ra \in (nd + 1)..nv
            /\ nc \in Nat /\ nd \in Nat /\ nv \in Nat /\ nd >= nc /\ nv >= nd
        BY <3>2, <3>3, <4>1
      <4> HIDE DEF la, ra, lc, rc, nc, nd, nv
      <4>3. la \in {lc} \cup ((nc + 1)..nv) /\ ra \in {rc} \cup ((nc + 1)..nv)
        BY <4>2
      <4> QED BY <3>2, <4>3 DEF la, ra, lc, rc, nc, nd, nv
    <3> QED BY <1>6, <3>2, <3>4, <3>5 DEF Sprouts
  <2> QED BY <2>1, <2>2
<1>8. HeapServes(w, v.heap)
  BY <1>4, <1>7 DEF Sprouts, HeapServes
<1>9. (\A j \in 1..w.seed.reactive.len : Slot(w, j) # Nil) => v.called = View(w.heap, w.seed.reactive)
  BY <1>4, <1>7 DEF Sprouts, Slot
<1>10. Sprouts(w, v, s)
  BY <1>3, <1>4, <1>7, <1>8, <1>9 DEF Sprouts
<1> QED BY <1>7, <1>10 DEF v, s

-----------------------------------------------------------------------------
(* Front: the end of a span, seeds and spans, callbacks.                     *)

PMax == INSTANCE AtomicMaxProofs WITH Values <- Times, target <- provisional, loop <- raising
EMax == INSTANCE AtomicMaxProofs WITH Values <- Times, target <- endTime, loop <- ending

EndTypeOK ==
    /\ clock \in Int /\ written \in Int /\ floor \in Int
    /\ doing \in [Callers -> {"nothing", "line", "done", "end"}]
    /\ owed \in [Callers -> Int]

(* Only a line or a Done() raises provisionalEndTime, and only a Done() that
   has done so raises EndTime. *)
OneAtATime == \A c \in Callers :
    /\ raising[c].at # "idle" => doing[c] \in {"line", "done"}
    /\ ending[c].at # "idle" => doing[c] = "end"

(* No time is offered that was not taken, or that provisionalEndTime has not
   reached. *)
Offered == \A c \in Callers : raising[c].value <= clock /\ ending[c].value <= provisional

(* What a Done() has to cover is on its way: in its own offer or in
   provisionalEndTime, then in what it read there. *)
Covered == \A c \in Callers :
    /\ doing[c] = "done" => owed[c] <= raising[c].value \/ owed[c] <= provisional
    /\ doing[c] = "done" /\ raising[c].at = "idle" => owed[c] <= raising[c].result
    /\ doing[c] = "end" => owed[c] <= ending[c].value

EndInv ==
    /\ PMax!MaxInv /\ EMax!MaxInv
    /\ EndTypeOK /\ OneAtATime /\ Offered /\ Covered
    /\ written <= provisional
    /\ EndCovers

(* The span begins in a state of the invariant. *)
LEMMA EndInvInit == EndInit => EndInv
<1> SUFFICES ASSUME EndInit PROVE EndInv
  OBVIOUS
<1>1. PMax!MaxInv /\ EMax!MaxInv
  <2>1. PMax!Init /\ EMax!Init
    BY DEF EndInit, P!Init, E!Init, PMax!Init, EMax!Init
  <2> QED BY <2>1, PMax!MaxInvInit, EMax!MaxInvInit
<1>2. EndTypeOK
  BY DEF EndInit, EndTypeOK
<1>3. OneAtATime /\ Offered /\ Covered
  BY DEF EndInit, P!Init, E!Init, OneAtATime, Offered, Covered
<1>4. written <= provisional /\ EndCovers
  BY DEF EndInit, P!Init, E!Init, EndCovers
<1> QED BY <1>1, <1>2, <1>3, <1>4 DEF EndInv

(* Each access to provisionalEndTime keeps the invariant. *)
LEMMA RaisingKeeps ==
    ASSUME EndInv, NEW c \in Callers, Raising(c)
    PROVE  EndInv'
<1>1. PMax!MaxInv'
  <2>1. [PMax!Next]_(PMax!vars)
    BY DEF Raising, P!Load, P!Swap, PMax!Next, PMax!Load, PMax!Swap
  <2>2. Times \subseteq Int
    BY TimesAssumption
  <2> QED BY <2>1, <2>2, PMax!MaxInvStep DEF EndInv
<1>2. EMax!MaxInv'
  BY DEF Raising, EndInv, EMax!MaxInv, EMax!AtomicTypeOK, EMax!SwapRaises, EMax!ResultsKept
<1>3. EndTypeOK' /\ OneAtATime'
  BY DEF Raising, P!Load, P!Swap, EndInv, EndTypeOK, OneAtATime, PMax!MaxInv, PMax!AtomicTypeOK,
         PMax!Calls
<1>4. provisional <= provisional' /\ provisional' <= clock
  BY DEF Raising, P!Load, P!Swap, EndInv, EndTypeOK, Offered, EndCovers, PMax!MaxInv, PMax!AtomicTypeOK,
         PMax!SwapRaises, PMax!Calls
<1>5. Offered'
  BY <1>4 DEF Raising, P!Load, P!Swap, EndInv, EndTypeOK, Offered, PMax!MaxInv, EMax!MaxInv,
         PMax!AtomicTypeOK, EMax!AtomicTypeOK, PMax!Calls, EMax!Calls
<1>6. Covered'
  BY <1>4 DEF Raising, P!Load, P!Swap, EndInv, EndTypeOK, Covered, PMax!MaxInv, PMax!AtomicTypeOK,
         PMax!SwapRaises, PMax!Calls
<1>7. (written <= provisional)' /\ EndCovers'
  BY <1>1, <1>4 DEF Raising, EndInv, EndTypeOK, EndCovers, PMax!MaxInv, EMax!MaxInv, PMax!AtomicTypeOK,
         EMax!AtomicTypeOK
<1> QED BY <1>1, <1>2, <1>3, <1>5, <1>6, <1>7 DEF EndInv

(* Each access to EndTime keeps the invariant. *)
LEMMA EndingKeeps ==
    ASSUME EndInv, NEW c \in Callers, Ending(c)
    PROVE  EndInv'
<1>1. EMax!MaxInv'
  <2>1. [EMax!Next]_(EMax!vars)
    BY DEF Ending, E!Load, E!Swap, EMax!Next, EMax!Load, EMax!Swap
  <2>2. Times \subseteq Int
    BY TimesAssumption
  <2> QED BY <2>1, <2>2, EMax!MaxInvStep DEF EndInv
<1>2. PMax!MaxInv'
  BY DEF Ending, EndInv, PMax!MaxInv, PMax!AtomicTypeOK, PMax!SwapRaises, PMax!ResultsKept
<1>3. \A d \in Callers : ending'[d].value = ending[d].value /\ (ending'[d].at # "idle" => ending[d].at # "idle")
  BY DEF Ending, E!Load, E!Swap, EndInv, EMax!MaxInv, EMax!AtomicTypeOK, EMax!Calls
<1>4. endTime <= endTime' /\ endTime' <= provisional
  BY DEF Ending, E!Load, E!Swap, EndInv, Offered, EndCovers, EMax!MaxInv, EMax!AtomicTypeOK,
         PMax!MaxInv, PMax!AtomicTypeOK, EMax!SwapRaises, EMax!Calls
<1>5. EndTypeOK' /\ OneAtATime' /\ Offered' /\ Covered'
  BY <1>3 DEF Ending, EndInv, EndTypeOK, OneAtATime, Offered, Covered
<1>6. (written <= provisional)' /\ EndCovers'
  BY <1>1, <1>4 DEF Ending, EndInv, EndTypeOK, EndCovers, PMax!MaxInv, EMax!MaxInv, PMax!AtomicTypeOK,
         EMax!AtomicTypeOK
<1> QED BY <1>1, <1>2, <1>5, <1>6 DEF EndInv

(* The return of a line is what Done() has to cover from then on. *)
LEMMA LineReturnsKeeps ==
    ASSUME EndInv, NEW c \in Callers, LineReturns(c)
    PROVE  EndInv'
<1>1. raising[c].value <= raising[c].result /\ raising[c].result <= provisional
  BY DEF LineReturns, EndInv, PMax!MaxInv, PMax!ResultsKept
<1>2. raising[c].value \in Int /\ raising[c].result \in Int /\ provisional \in Int
  BY DEF EndInv, PMax!MaxInv, PMax!AtomicTypeOK, PMax!Calls
<1>3. PMax!MaxInv' /\ EMax!MaxInv'
  BY DEF LineReturns, EndInv, PMax!MaxInv, PMax!AtomicTypeOK, PMax!SwapRaises, PMax!ResultsKept,
         EMax!MaxInv, EMax!AtomicTypeOK, EMax!SwapRaises, EMax!ResultsKept
<1>4. EndTypeOK' /\ OneAtATime' /\ Offered' /\ Covered'
  BY <1>2 DEF LineReturns, EndInv, EndTypeOK, OneAtATime, Offered, Covered, Later
<1>5. (written <= provisional)' /\ EndCovers'
  BY <1>1, <1>2 DEF LineReturns, EndInv, EndTypeOK, EndCovers, Later
<1> QED BY <1>3, <1>4, <1>5 DEF EndInv

(* Done() raises EndTime to what it read of provisionalEndTime. *)
LEMMA BeginEndKeeps ==
    ASSUME EndInv, NEW c \in Callers, BeginEnd(c)
    PROVE  EndInv'
<1>1. raising[c].result <= provisional /\ owed[c] <= raising[c].result
  BY DEF BeginEnd, EndInv, PMax!MaxInv, PMax!ResultsKept, Covered
<1>2. PMax!MaxInv'
  BY DEF BeginEnd, EndInv, PMax!MaxInv, PMax!AtomicTypeOK, PMax!SwapRaises, PMax!ResultsKept
<1>3. EMax!MaxInv'
  BY DEF BeginEnd, E!Call, EndInv, PMax!MaxInv, PMax!AtomicTypeOK, PMax!Calls, EMax!MaxInv,
         EMax!AtomicTypeOK, EMax!SwapRaises, EMax!ResultsKept, EMax!Calls, EMax!Places
<1>4. EndTypeOK' /\ OneAtATime'
  BY DEF BeginEnd, E!Call, EndInv, EndTypeOK, OneAtATime, EMax!MaxInv, EMax!AtomicTypeOK
<1>5. Offered' /\ Covered'
  BY <1>1 DEF BeginEnd, E!Call, EndInv, EndTypeOK, Offered, Covered, EMax!MaxInv, EMax!AtomicTypeOK
<1>6. (written <= provisional)' /\ EndCovers'
  BY DEF BeginEnd, E!Call, EndInv, EndCovers
<1> QED BY <1>2, <1>3, <1>4, <1>5, <1>6 DEF EndInv

(* When Done() returns, EndTime has reached what it offered. *)
LEMMA DoneReturnsKeeps ==
    ASSUME EndInv, NEW c \in Callers, DoneReturns(c)
    PROVE  EndInv'
<1>1. owed[c] <= endTime
  <2>1. owed[c] <= ending[c].value
    BY DEF DoneReturns, EndInv, Covered
  <2>2. ending[c].value <= ending[c].result /\ ending[c].result <= endTime
    BY DEF DoneReturns, EndInv, EMax!MaxInv, EMax!ResultsKept
  <2> QED BY <2>1, <2>2 DEF EndInv, EndTypeOK, EMax!MaxInv, EMax!AtomicTypeOK, EMax!Calls
<1>2. PMax!MaxInv' /\ EMax!MaxInv'
  BY DEF DoneReturns, EndInv, PMax!MaxInv, PMax!AtomicTypeOK, PMax!SwapRaises, PMax!ResultsKept,
         EMax!MaxInv, EMax!AtomicTypeOK, EMax!SwapRaises, EMax!ResultsKept
<1>3. EndTypeOK' /\ OneAtATime' /\ Offered' /\ Covered'
  BY DEF DoneReturns, EndInv, EndTypeOK, OneAtATime, Offered, Covered, Later
<1>4. (written <= provisional)' /\ EndCovers'
  BY <1>1 DEF DoneReturns, EndInv, EndTypeOK, EndCovers, Later
<1> QED BY <1>2, <1>3, <1>4 DEF EndInv

(* A line or a Done() begins with a time and owes the lines before it. *)
LEMMA BeginKeeps ==
    ASSUME EndInv, NEW c \in Callers, NEW call \in {"line", "done"}, NEW t \in Times, Begin(c, call, t)
    PROVE  EndInv'
<1>1. t \in Int
  BY TimesAssumption
<1>2. PMax!MaxInv'
  BY <1>1 DEF Begin, P!Call, EndInv, PMax!MaxInv, PMax!AtomicTypeOK, PMax!SwapRaises,
              PMax!ResultsKept, PMax!Calls, PMax!Places
<1>3. EMax!MaxInv'
  BY DEF Begin, P!Call, EndInv, EMax!MaxInv, EMax!AtomicTypeOK, EMax!SwapRaises, EMax!ResultsKept
<1>4. EndTypeOK' /\ OneAtATime'
  BY <1>1 DEF Begin, P!Call, EndInv, EndTypeOK, OneAtATime, Later, PMax!MaxInv, PMax!AtomicTypeOK
<1>5. Offered'
  BY <1>1 DEF Begin, P!Call, EndInv, EndTypeOK, Offered, Later, PMax!MaxInv, PMax!AtomicTypeOK,
              PMax!Calls
<1>6. Covered'
  BY <1>1 DEF Begin, P!Call, EndInv, EndTypeOK, Covered, Later, PMax!MaxInv, PMax!AtomicTypeOK,
              PMax!Calls
<1>7. (written <= provisional)' /\ EndCovers'
  BY <1>1 DEF Begin, P!Call, EndInv, EndTypeOK, EndCovers, Later, PMax!MaxInv, PMax!AtomicTypeOK
<1> QED BY <1>2, <1>3, <1>4, <1>5, <1>6, <1>7 DEF EndInv

(* Every step of lines and calls of Done() keeps the invariant. *)
LEMMA EndInvStep == EndInv /\ [EndNext]_endVars => EndInv'
<1> SUFFICES ASSUME EndInv, [EndNext]_endVars PROVE EndInv'
  OBVIOUS
<1>1. CASE UNCHANGED endVars
  BY <1>1 DEF endVars, EndInv, EndTypeOK, OneAtATime, Offered, Covered, EndCovers,
              PMax!MaxInv, PMax!AtomicTypeOK, PMax!SwapRaises, PMax!ResultsKept,
              EMax!MaxInv, EMax!AtomicTypeOK, EMax!SwapRaises, EMax!ResultsKept
<1>2. ASSUME NEW c \in Callers, EndStep(c) PROVE EndInv'
  BY <1>2, RaisingKeeps, LineReturnsKeeps, BeginEndKeeps, EndingKeeps, DoneReturnsKeeps DEF EndStep
<1>3. ASSUME NEW c \in Callers, NEW call \in {"line", "done"}, NEW t \in Times, Begin(c, call, t)
      PROVE  EndInv'
  BY <1>3, BeginKeeps
<1> QED BY <1>1, <1>2, <1>3 DEF EndNext

-----------------------------------------------------------------------------
(* What the rest of the program does leaves the end of the span alone: a step
   of Front is a step of SpanEnd, or changes nothing there. *)
LEMMA FrontStep == [Next]_vars => [EndNext]_endVars
<1>1. CASE UNCHANGED vars
  BY <1>1 DEF vars
<1>2. ASSUME NEW g \in Goroutines, SpansNext(g) /\ UNCHANGED <<linesVars, endVars>>
      PROVE  [EndNext]_endVars
  BY <1>2
<1>3. ASSUME NEW g \in Goroutines, LinesNext(g) /\ UNCHANGED endVars
      PROVE  [EndNext]_endVars
  BY <1>3
<1>4. ASSUME NEW g \in Goroutines, NEW call \in {"line", "done"}, NEW t \in Times,
             BeginCall(g, call, t)
      PROVE  [EndNext]_endVars
  BY <1>4, GoroutinesCall DEF BeginCall, EndNext
<1>5. ASSUME NEW g \in Goroutines, EndStep(g)
      PROVE  [EndNext]_endVars
  BY <1>5, GoroutinesCall DEF EndNext
<1> QED BY <1>1, <1>2, <1>3, <1>4, <1>5 DEF Next

(* The end of a span in Front is that of SpanEnd. *)
LEMMA FrontEnds == Spec => EndSpec
<1>1. Init => EndInit
  BY DEF Init
<1> QED BY <1>1, FrontStep, PTL DEF Spec, EndSpec

(* Whatever lines and calls of Done() overlap, EndTime covers every call that
   has returned and the lines before it, and is a time that was taken. *)
THEOREM EndTimesCover == Spec => []EndCovers
<1>1. EndInv => EndCovers
  BY DEF EndInv
<1> QED BY <1>1, FrontEnds, EndInvInit, EndInvStep, PTL DEF EndSpec

(* Every time that is offered was taken: what a Done() reads back is the time
   of some line or Done(), if not its own. *)
Taken ==
    /\ provisional \in Times \cup {0}
    /\ \A c \in Callers :
          /\ doing[c] \in {"line", "done"} => raising[c].value \in Times
          /\ doing[c] = "done" /\ raising[c].at = "idle" => raising[c].result \in Times

(* No access to the end times brings in a time that nobody took. *)
LEMMA TakenStep == EndInv /\ Taken /\ [EndNext]_endVars => Taken'
<1> SUFFICES ASSUME EndInv, Taken, [EndNext]_endVars PROVE Taken'
  OBVIOUS
<1>0. Times \subseteq Nat
  BY TimesAssumption
<1>1. CASE UNCHANGED endVars
  BY <1>1 DEF endVars, Taken
<1>2. ASSUME NEW c \in Callers, Raising(c) PROVE Taken'
  <2>1. raising[c].value \in Times /\ doing' = doing
    BY <1>2 DEF Raising, P!Load, P!Swap, Taken, EndInv, OneAtATime
  <2>2. CASE P!Load(c)
    <3>1. provisional >= raising[c].value => provisional \in Times
      <4>1. raising[c].value \in Nat
        BY <2>1, <1>0
      <4>2. 0 >= raising[c].value => raising[c].value = 0
        BY <4>1
      <4> QED BY <2>1, <4>2 DEF Taken
    <3> QED BY <2>1, <2>2, <3>1 DEF P!Load, Taken, EndInv, PMax!MaxInv, PMax!AtomicTypeOK, PMax!Calls
  <2>3. CASE P!Swap(c)
    BY <2>1, <2>3 DEF P!Swap, Taken, EndInv, PMax!MaxInv, PMax!AtomicTypeOK, PMax!Calls
  <2> QED BY <1>2, <2>2, <2>3 DEF Raising
<1>3. ASSUME NEW c \in Callers, LineReturns(c) \/ BeginEnd(c) \/ Ending(c) \/ DoneReturns(c)
      PROVE  Taken'
  BY <1>3 DEF LineReturns, BeginEnd, Ending, DoneReturns, Taken, EndInv, EndTypeOK
<1>4. ASSUME NEW c \in Callers, NEW call \in {"line", "done"}, NEW t \in Times, Begin(c, call, t)
      PROVE  Taken'
  BY <1>4 DEF Begin, P!Call, Taken, EndInv, EndTypeOK, PMax!MaxInv, PMax!AtomicTypeOK, PMax!Calls
<1> QED BY <1>1, <1>2, <1>3, <1>4 DEF EndNext, EndStep

(* Every step of lines and calls of Done() is one of AtomicMaxInt64 on each
   of the end times, or leaves it alone. *)
LEMMA EndTimesStep ==
    ASSUME EndInv, Taken, [EndNext]_endVars
    PROVE  [PMax!Next]_(PMax!vars) /\ [EMax!Next]_(EMax!vars)
<1> DEFINE Goal == [PMax!Next]_(PMax!vars) /\ [EMax!Next]_(EMax!vars)
<1>1. CASE UNCHANGED endVars
  BY <1>1 DEF endVars, PMax!vars, EMax!vars
<1>2. ASSUME NEW c \in Callers, Raising(c) PROVE Goal
  BY <1>2 DEF Raising, P!Load, P!Swap, PMax!Load, PMax!Swap, PMax!Next, EMax!vars
<1>3. ASSUME NEW c \in Callers, Ending(c) PROVE Goal
  BY <1>3 DEF Ending, E!Load, E!Swap, EMax!Load, EMax!Swap, EMax!Next, PMax!vars
<1>4. ASSUME NEW c \in Callers, LineReturns(c) \/ DoneReturns(c) PROVE Goal
  BY <1>4 DEF LineReturns, DoneReturns, PMax!vars, EMax!vars
<1>5. ASSUME NEW c \in Callers, BeginEnd(c) PROVE Goal
  <2>1. raising[c].result \in Times
    BY <1>5 DEF BeginEnd, Taken
  <2>2. EMax!Call(c, raising[c].result)
    BY <1>5 DEF BeginEnd, E!Call, EMax!Call
  <2> QED BY <1>5, <2>1, <2>2 DEF BeginEnd, EMax!Next, PMax!vars
<1>6. ASSUME NEW c \in Callers, NEW call \in {"line", "done"}, NEW t \in Times, Begin(c, call, t)
      PROVE  Goal
  <2>1. PMax!Call(c, t)
    BY <1>6 DEF Begin, P!Call, PMax!Call
  <2> QED BY <1>6, <2>1 DEF Begin, PMax!Next, EMax!vars
<1> QED BY <1>1, <1>2, <1>3, <1>4, <1>5, <1>6 DEF EndNext, EndStep

(* Used as they are by lines and Done(), both end times are maxima. *)
THEOREM EndTimesRaised == Spec => EndTimesAreMaxima
<1>1. EndInit => PMax!Init /\ EMax!Init /\ Taken
  BY DEF EndInit, P!Init, E!Init, PMax!Init, EMax!Init, Taken
<1>2. EndInv /\ Taken /\ [EndNext]_endVars => [PMax!Next]_(PMax!vars) /\ [EMax!Next]_(EMax!vars)
  BY EndTimesStep
<1>3. EndSpec => PMax!Spec /\ EMax!Spec
  BY <1>1, <1>2, EndInvInit, EndInvStep, TakenStep, PTL DEF EndSpec, PMax!Spec, EMax!Spec
<1>4. Times \subseteq Int
  BY TimesAssumption
<1>5. PMax!Spec => PMax!IsMaximum
  BY <1>4, PMax!AtomicMaxImplements
<1>6. EMax!Spec => EMax!IsMaximum
  BY <1>4, EMax!AtomicMaxImplements
<1>7. PMax!IsMaximum => P!IsMaximum
  BY DEF P!IsMaximum, PMax!IsMaximum, P!Max!Spec, PMax!Max!Spec,
         P!Max!Init, PMax!Max!Init, P!Max!Next, PMax!Max!Next, P!Max!vars, PMax!Max!vars,
         P!Max!Call, PMax!Max!Call, P!Max!Raise, PMax!Max!Raise, P!Max!Higher, PMax!Max!Higher
<1>8. EMax!IsMaximum => E!IsMaximum
  BY DEF E!IsMaximum, EMax!IsMaximum, E!Max!Spec, EMax!Max!Spec,
         E!Max!Init, EMax!Max!Init, E!Max!Next, EMax!Max!Next, E!Max!vars, EMax!Max!vars,
         E!Max!Call, EMax!Max!Call, E!Max!Raise, EMax!Max!Raise, E!Max!Higher, EMax!Max!Higher
<1> QED BY <1>3, <1>5, <1>6, <1>7, <1>8, FrontEnds, PTL DEF EndTimesAreMaxima
-----------------------------------------------------------------------------
(* Lines and loggers.  They are kept in sequences, of which we say no more  *)
(* than that they are sequences.                                           *)
IsSequence(s) == \E S : s \in Seq(S)

(* What append and an update leave of a sequence. *)
LEMMA SequenceGrows ==
    ASSUME NEW s, IsSequence(s), NEW x
    PROVE  /\ IsSequence(Append(s, x))
           /\ DOMAIN Append(s, x) = DOMAIN s \cup {Len(s) + 1}
           /\ Append(s, x)[Len(s) + 1] = x
           /\ \A i \in DOMAIN s : Append(s, x)[i] = s[i]
<1>1. PICK S : s \in Seq(S)
  BY DEF IsSequence
<1>2. s \in Seq(S \cup {x}) /\ DOMAIN s = 1 .. Len(s) /\ Len(s) \in Nat
  BY <1>1
<1>3. Append(s, x) \in Seq(S \cup {x}) /\ Len(Append(s, x)) = Len(s) + 1
  BY <1>2
<1>4. DOMAIN Append(s, x) = 1 .. (Len(s) + 1)
  BY <1>3
<1>5. DOMAIN Append(s, x) = DOMAIN s \cup {Len(s) + 1}
  BY <1>2, <1>4
<1>6. Append(s, x)[Len(s) + 1] = x /\ \A i \in DOMAIN s : Append(s, x)[i] = s[i]
  BY <1>2
<1> QED BY <1>3, <1>5, <1>6 DEF IsSequence

(* A list of loggers or spans of which one is changed is a list. *)
LEMMA SequenceUpdated ==
    ASSUME NEW s, IsSequence(s), NEW i \in DOMAIN s, NEW x
    PROVE  IsSequence([s EXCEPT ![i] = x])
<1>1. PICK S : s \in Seq(S)
  BY DEF IsSequence
<1>2. [s EXCEPT ![i] = x] \in Seq(S \cup {x})
  BY <1>1
<1> QED BY <1>2 DEF IsSequence

(* Loggers are never changed or forgotten. *)
LEMMA LoggersStay ==
    ASSUME NEW g \in Goroutines, SpansNext(g)
    PROVE  loggers' = loggers \/ \E x : loggers' = Append(loggers, x)
<1> DEFINE Goal == loggers' = loggers \/ \E x : loggers' = Append(loggers, x)
<1>1. ASSUME NEW i, NEW mods, Copy(g, i, mods) \/ MakeSubSeed(g, i, mods) PROVE Goal
  BY <1>1 DEF Copy, MakeSubSeed
<1>2. ASSUME NEW w, NEW origin, Sprouted(w, origin) PROVE Goal
  BY <1>2 DEF Sprouted
<1>3. ASSUME NEW i, NEW isRequest, Request(g, i, isRequest) PROVE Goal
  BY <1>2, <1>3 DEF Request
<1>4. ASSUME NEW headers, HandleRequest(g, headers) PROVE Goal
  BY <1>2, <1>4 DEF HandleRequest
<1>5. ASSUME NEW l, NEW settings, SubLogger(g, l, settings) PROVE Goal
  BY <1>5 DEF SubLogger
<1>6. ASSUME NEW l, NEW op, NEW mods, NEW settings, NewChildLog(g, l, op, mods, settings) PROVE Goal
  BY <1>6 DEF NewChildLog
<1>7. ASSUME AskFlushers(g) \/ AddFlusher(g) \/ ChildReady(g) PROVE Goal
  BY <1>7 DEF AskFlushers, AddFlusher, ChildReady, ListSpan
<1> QED BY <1>1, <1>3, <1>4, <1>5, <1>6, <1>7 DEF SpansNext

LineFields == {"holder", "logger", "starter", "level", "skip", "redacted"}

LinesInv ==
    /\ IsSequence(loggers) /\ IsSequence(lines) /\ IsSequence(sent)
    /\ \A i \in DOMAIN lines : /\ DOMAIN lines[i] = LineFields
                               /\ lines[i].logger \in DOMAIN loggers
                               /\ lines[i].starter \in DOMAIN loggers
                               /\ SpanOf(lines[i].logger) = SpanOf(lines[i].starter)
    /\ \A i \in DOMAIN sent : sent[i].starter \in DOMAIN loggers
    /\ LinesAsStarted

(* A line that is started as logLine does keeps what is known of lines. *)
LEMMA StartLineKeeps ==
    ASSUME LinesInv, NEW g \in Goroutines, NEW l \in DOMAIN loggers, NEW level, StartLine(g, l, level)
    PROVE  LinesInv'
<1>0. loggers' = loggers /\ sent' = sent
  BY DEF StartLine
<1>1. ASSUME NEW line, DOMAIN line = LineFields
      PROVE  LET s == Started(line, g, l, level) IN
             /\ DOMAIN s = LineFields /\ s.logger = line.logger /\ s.starter = l /\ s.level = level
             /\ s.skip <=> level < SettingsOf(l).min
  BY <1>1 DEF Started, LineFields
<1>2. CASE \E i \in Pooled(l) : lines' = [lines EXCEPT ![i] = Started(@, g, l, level)]
  <2>1. PICK i \in Pooled(l) : lines' = [lines EXCEPT ![i] = Started(lines[i], g, l, level)]
    BY <1>2
  <2>2. i \in DOMAIN lines /\ SpanOf(lines[i].logger) = SpanOf(l) /\ DOMAIN lines[i] = LineFields
    BY DEF Pooled, LinesInv
  <2>3. /\ DOMAIN lines' = DOMAIN lines /\ lines'[i] = Started(lines[i], g, l, level)
        /\ \A j \in DOMAIN lines : j # i => lines'[j] = lines[j]
    BY <2>1, <2>2
  <2>4. IsSequence(lines')
    BY <2>1, <2>2, SequenceUpdated DEF LinesInv
  <2>5. /\ DOMAIN lines'[i] = LineFields /\ lines'[i].logger = lines[i].logger
        /\ lines'[i].starter = l
        /\ lines'[i].skip <=> lines'[i].level < SettingsOf(l).min
    BY <1>1, <2>2, <2>3
  <2> QED BY <1>0, <2>2, <2>3, <2>4, <2>5 DEF LinesInv, LinesAsStarted, SettingsOf, SpanOf
<1>3. CASE lines' = Append(lines, Started([holder |-> g, logger |-> l, starter |-> l, level |-> level,
                                          skip |-> FALSE, redacted |-> ""], g, l, level))
  <2> DEFINE new == [holder |-> g, logger |-> l, starter |-> l, level |-> level,
                     skip |-> FALSE, redacted |-> ""]
             line == Started(new, g, l, level)
             n == Len(lines) + 1
  <2>1. DOMAIN new = LineFields /\ new.logger = l
    BY DEF LineFields
  <2>2. /\ DOMAIN line = LineFields /\ line.logger = l /\ line.starter = l
        /\ line.skip <=> line.level < SettingsOf(l).min
    BY <1>1, <2>1
  <2>a. lines' = Append(lines, line)
    BY <1>3
  <2> HIDE DEF line
  <2>3. /\ IsSequence(lines') /\ DOMAIN lines' = DOMAIN lines \cup {n} /\ lines'[n] = line
        /\ \A j \in DOMAIN lines : lines'[j] = lines[j]
    BY <2>a, SequenceGrows DEF LinesInv
  <2> HIDE DEF n
  <2> QED BY <1>0, <2>2, <2>3 DEF LinesInv, LinesAsStarted, SettingsOf, SpanOf
<1> QED BY <1>2, <1>3 DEF StartLine

(* What happens to a line after that - an attribute, its end or no end -
   leaves it with its loggers, its level and the decision to skip it. *)
LEMMA LineGoesOn ==
    ASSUME LinesInv, NEW g \in Goroutines, NEW i \in DOMAIN lines, String(g, i) \/ Send(g, i) \/ Drop(g, i)
    PROVE  LinesInv'
<1>0. loggers' = loggers
  BY DEF String, Send, Drop, spansVars
<1>f. PICK f \in {"holder", "redacted"} : \E x : lines' = [lines EXCEPT ![i] = [lines[i] EXCEPT ![f] = x]]
  <2>1. CASE String(g, i)
    BY <2>1 DEF String
  <2>2. CASE Send(g, i) \/ Drop(g, i)
    BY <2>2 DEF Send, Drop
  <2> QED BY <2>1, <2>2
<1>1. PICK x : lines' = [lines EXCEPT ![i] = [lines[i] EXCEPT ![f] = x]]
  BY <1>f
<1>2. /\ IsSequence(lines') /\ DOMAIN lines' = DOMAIN lines
      /\ \A j \in DOMAIN lines : j # i => lines'[j] = lines[j]
      /\ lines'[i] = [lines[i] EXCEPT ![f] = x]
  BY <1>1, SequenceUpdated DEF LinesInv
<1>3. \A j \in DOMAIN lines : /\ DOMAIN lines'[j] = LineFields
                              /\ lines'[j].logger = lines[j].logger /\ lines'[j].starter = lines[j].starter
                              /\ lines'[j].level = lines[j].level /\ lines'[j].skip = lines[j].skip
  BY <1>2 DEF LinesInv, LineFields
<1>4. /\ IsSequence(sent')
      /\ \A j \in DOMAIN sent' : \/ j \in DOMAIN sent /\ sent'[j] = sent[j]
                                 \/ ~lines[i].skip /\ sent'[j].starter = lines[i].starter
                                                   /\ sent'[j].level = lines[i].level
  <2>1. CASE sent' = sent
    BY <2>1 DEF LinesInv
  <2>2. CASE ~lines[i].skip /\ sent' = Append(sent, [starter |-> lines[i].starter, level |-> lines[i].level,
                                                    redacted |-> lines[i].redacted])
    BY <2>2, SequenceGrows DEF LinesInv
  <2> QED BY <2>1, <2>2 DEF String, Send, Drop, Delivered
<1>5. \A j \in DOMAIN sent' : /\ sent'[j].starter \in DOMAIN loggers
                             /\ ~(sent'[j].level < SettingsOf(sent'[j].starter).min)
  BY <1>4 DEF LinesInv, LinesAsStarted
<1> QED BY <1>0, <1>2, <1>3, <1>4, <1>5 DEF LinesInv, LinesAsStarted, SettingsOf, SpanOf

(* What the rest of the program does leaves lines and loggers as they are. *)
LEMMA OthersKeepLines ==
    ASSUME LinesInv, UNCHANGED linesVars, loggers' = loggers \/ \E x : loggers' = Append(loggers, x)
    PROVE  LinesInv'
<1>1. /\ IsSequence(loggers') /\ DOMAIN loggers \subseteq DOMAIN loggers'
      /\ \A l \in DOMAIN loggers : loggers'[l] = loggers[l]
  <2>1. ASSUME NEW x, loggers' = Append(loggers, x) PROVE <1>1!1
    BY <2>1, SequenceGrows DEF LinesInv
  <2> QED BY <2>1 DEF LinesInv
<1> QED BY <1>1 DEF LinesInv, LinesAsStarted, SettingsOf, SpanOf, linesVars

(* Every operation of the program keeps what is known of the lines: they
   are of loggers that there are, and of the span in which they were
   started. *)
LEMMA LinesInvNext == LinesInv /\ [Next]_vars => LinesInv'
<1> SUFFICES ASSUME LinesInv, [Next]_vars PROVE LinesInv'
  OBVIOUS
<1>1. CASE UNCHANGED vars
  BY <1>1, OthersKeepLines DEF vars, spansVars
<1>2. ASSUME NEW g \in Goroutines, SpansNext(g) /\ UNCHANGED <<linesVars, endVars>> PROVE LinesInv'
  BY <1>2, LoggersStay, OthersKeepLines
<1>3. ASSUME NEW g \in Goroutines, LinesNext(g) PROVE LinesInv'
  BY <1>3, StartLineKeeps, LineGoesOn DEF LinesNext
<1>4. ASSUME NEW g \in Goroutines, NEW call, NEW t, BeginCall(g, call, t) /\ UNCHANGED linesVars
      PROVE  LinesInv'
  BY <1>4, OthersKeepLines DEF BeginCall
<1>5. ASSUME NEW g \in Goroutines, UNCHANGED <<spansVars, linesVars>> PROVE LinesInv'
  BY <1>5, OthersKeepLines DEF spansVars
<1> QED BY <1>1, <1>2, <1>3, <1>4, <1>5 DEF Next

(* Whatever the pool hands out, a line works for the span it was started in,
   and reaches the bases unless its level is below the minimum of its logger. *)
THEOREM LinesWorkAsStarted == Spec => []LinesAsStarted
<1>1. Init => LinesInv
  <2>1. IsSequence(<<>>) /\ DOMAIN <<>> = {}
    <3>1. <<>> \in Seq({})
      OBVIOUS
    <3> QED BY <3>1 DEF IsSequence
  <2> QED BY <2>1 DEF Init, SpansInit, LinesInit, LinesInv, LinesAsStarted
<1>2. LinesInv => LinesAsStarted
  BY DEF LinesInv
<1> QED BY <1>1, <1>2, LinesInvNext, PTL DEF Spec
-----------------------------------------------------------------------------
(* Base requests and Flushers.  A span writes to what the Flushers of its   *)
(* request have for a base, or had before another one took the place; while *)
(* newChildLog() is adding one, that one is still to come there.            *)
SpanFields == {"tree", "parent", "bases", "seed", "buffered", "forks", "steps", "mods", "called",
               "ignored", "origin"}
IsSpan(s, ts) == DOMAIN s = SpanFields /\ s.tree \in DOMAIN ts /\ DOMAIN s.bases = Bases

FlushedBut(s, unsettled, ts, old) ==
    \A b \in Bases \ unsettled : s.bases[b] \in {0, ts[s.tree][b]} \cup old

Adding(p, ts, old) ==
    /\ DOMAIN p = {"stage", "todo", "span"}
    /\ IsSpan(p.span, ts)
    /\ \/ p.stage = "ask" /\ FlushedBut(p.span, {}, ts, old)
       \/ p.stage = "add" /\ FlushedBut(p.span, {Head(p.todo)}, ts, old)

AloneInv == Program.sequential =>
    /\ superseded = {}
    /\ \A g, h \in Goroutines : g # h => pending[g] = None \/ pending[h] = None
    /\ \A g \in Goroutines : pending[g].stage = "add" => trees[pending[g].span.tree][Asked(g)] = 0

FlushInv ==
    /\ IsSequence(loggers) /\ IsSequence(spans) /\ IsSequence(trees)
    /\ \A l \in DOMAIN loggers : DOMAIN loggers[l] = {"span", "settings"} /\ loggers[l].span \in DOMAIN spans
    /\ \A t \in DOMAIN trees : DOMAIN trees[t] = Bases
    /\ \A i \in DOMAIN spans : IsSpan(spans[i], trees) /\ FlushedBut(spans[i], {}, trees, superseded)
    /\ DOMAIN pending = Goroutines
    /\ \A g \in Goroutines : pending[g] = None \/ Adding(pending[g], trees, superseded)
    /\ AloneInv

(* No request is taken out of Flushers, unless another one takes its place. *)
TreesGrow ==
    /\ DOMAIN trees \subseteq DOMAIN trees'
    /\ \A t \in DOMAIN trees, b \in Bases : trees[t][b] \in {0, trees'[t][b]} \cup superseded'
    /\ superseded \subseteq superseded'

(* So what is flushed stays so. *)
LEMMA FlushedStays ==
    ASSUME TreesGrow, NEW s, IsSpan(s, trees)
    PROVE  /\ IsSpan(s, trees')
           /\ \A e : FlushedBut(s, e, trees, superseded) => FlushedBut(s, e, trees', superseded')
BY DEF TreesGrow, IsSpan, FlushedBut

(* A span whose base loggers are being added is as it should be when other
   requests have taken their place in Flushers. *)
LEMMA AddingStays ==
    ASSUME TreesGrow, NEW p, Adding(p, trees, superseded)
    PROVE  Adding(p, trees', superseded')
BY FlushedStays DEF Adding

(* A step that brings no span and no base request. *)
LEMMA QuietFlush ==
    ASSUME FlushInv, UNCHANGED <<scenario, spans, trees, superseded, pending>>,
           \/ loggers' = loggers
           \/ \E l \in DOMAIN loggers : \E s : loggers' = Append(loggers, [loggers[l] EXCEPT !.settings = s])
    PROVE  FlushInv'
<1>1. TreesGrow
  BY DEF TreesGrow
<1>2. /\ IsSequence(loggers')
      /\ \A l \in DOMAIN loggers' : DOMAIN loggers'[l] = {"span", "settings"} /\ loggers'[l].span \in DOMAIN spans
  <2>1. ASSUME NEW k \in DOMAIN loggers, NEW s, loggers' = Append(loggers, [loggers[k] EXCEPT !.settings = s])
        PROVE  <1>2!:
    <3> DEFINE x == [loggers[k] EXCEPT !.settings = s]
    <3>1. DOMAIN x = {"span", "settings"} /\ x.span = loggers[k].span
      BY DEF FlushInv
    <3>2. loggers' = Append(loggers, x)
      BY <2>1
    <3> HIDE DEF x
    <3> QED BY <3>1, <3>2, SequenceGrows DEF FlushInv
  <2> QED BY <2>1 DEF FlushInv
<1>3. AloneInv'
  BY DEF FlushInv, AloneInv, Program, Asked
<1>4. \A i \in DOMAIN spans : IsSpan(spans[i], trees') /\ FlushedBut(spans[i], {}, trees', superseded')
  BY <1>1, FlushedStays DEF FlushInv
<1>5. \A g \in Goroutines : pending[g] = None \/ Adding(pending[g], trees', superseded')
  BY <1>1, AddingStays DEF FlushInv
<1> QED BY <1>2, <1>3, <1>4, <1>5 DEF FlushInv

(* What a request or a span adds at the end of the lists. *)
LEMMA SpanListed ==
    ASSUME FlushInv, TreesGrow, NEW s, IsSpan(s, trees'), FlushedBut(s, {}, trees', superseded'), NEW settings,
           NEW before, IsSequence(before), DOMAIN before = DOMAIN spans,
           \A i \in DOMAIN spans : IsSpan(before[i], trees') /\ FlushedBut(before[i], {}, trees', superseded'),
           spans' = Append(before, s),
           loggers' = Append(loggers, [span |-> Len(before) + 1, settings |-> settings])
    PROVE  /\ IsSequence(loggers') /\ IsSequence(spans')
           /\ \A l \in DOMAIN loggers' : DOMAIN loggers'[l] = {"span", "settings"} /\ loggers'[l].span \in DOMAIN spans'
           /\ \A i \in DOMAIN spans' : IsSpan(spans'[i], trees') /\ FlushedBut(spans'[i], {}, trees', superseded')
<1> DEFINE n == Len(before) + 1
           x == [span |-> n, settings |-> settings]
<1>1. /\ IsSequence(spans') /\ DOMAIN spans' = DOMAIN spans \cup {n} /\ spans'[n] = s
      /\ \A i \in DOMAIN spans : spans'[i] = before[i]
  BY SequenceGrows
<1>2. loggers' = Append(loggers, x) /\ DOMAIN x = {"span", "settings"} /\ x.span = n
  OBVIOUS
<1> HIDE DEF x, n
<1>3. /\ IsSequence(loggers') /\ DOMAIN loggers' = DOMAIN loggers \cup {Len(loggers) + 1}
      /\ loggers'[Len(loggers) + 1] = x
      /\ \A l \in DOMAIN loggers : loggers'[l] = loggers[l]
  <2>1. IsSequence(loggers)
    BY DEF FlushInv
  <2> QED BY <1>2, <2>1, SequenceGrows
<1>4. \A i \in DOMAIN spans' : IsSpan(spans'[i], trees') /\ FlushedBut(spans'[i], {}, trees', superseded')
  BY <1>1
<1> QED BY <1>1, <1>2, <1>3, <1>4 DEF FlushInv

(* A request brings its Flushers with it. *)
LEMMA SproutedFlush ==
    ASSUME FlushInv, NEW w, NEW origin, Sprouted(w, origin), UNCHANGED <<scenario, superseded, pending>>
    PROVE  FlushInv'
<1>1. PICK list, rest, settings :
          /\ trees' = Append(trees, StartRequests(list))
          /\ spans' = Append(spans, [tree |-> Len(trees) + 1, parent |-> 0, bases |-> StartRequests(list),
                               seed |-> rest.seed, buffered |-> rest.buffered,
                               forks |-> rest.forks, steps |-> 0,
                               mods |-> <<>>, called |-> rest.called, ignored |-> {}, origin |-> origin])
          /\ loggers' = Append(loggers, [span |-> Len(spans) + 1, settings |-> settings])
  <2> DEFINE c == CopySpanSeed(w, FALSE)
             list == View(c.heap, c.seed.list)
             rest == [seed |-> [c.seed EXCEPT !.used = FALSE], buffered |-> BufferedIn(list),
                      forks |-> Program.forks, called |-> c.called]
  <2>1. /\ trees' = Append(trees, StartRequests(list))
        /\ spans' = Append(spans, [tree |-> Len(trees) + 1, parent |-> 0, bases |-> StartRequests(list),
                               seed |-> rest.seed, buffered |-> rest.buffered,
                               forks |-> rest.forks, steps |-> 0,
                               mods |-> <<>>, called |-> rest.called, ignored |-> {}, origin |-> origin])
        /\ loggers' = Append(loggers, [span |-> Len(spans) + 1, settings |-> c.seed.settings])
    BY DEF Sprouted
  <2> HIDE DEF c, list, rest
  <2> QED BY <2>1
<1> DEFINE bases == StartRequests(list)
           n == Len(trees) + 1
           s == [tree |-> n, parent |-> 0, bases |-> bases, seed |-> rest.seed, buffered |-> rest.buffered,
                 forks |-> rest.forks, steps |-> 0,
                 mods |-> <<>>, called |-> rest.called, ignored |-> {}, origin |-> origin]
<1>2. DOMAIN bases = Bases
  BY DEF StartRequests
<1>3. DOMAIN s = SpanFields /\ s.tree = n /\ s.bases = bases
  BY DEF SpanFields
<1>4. /\ trees' = Append(trees, bases) /\ spans' = Append(spans, s)
      /\ loggers' = Append(loggers, [span |-> Len(spans) + 1, settings |-> settings])
  BY <1>1
<1> HIDE DEF bases, s
<1>5. /\ IsSequence(trees') /\ DOMAIN trees' = DOMAIN trees \cup {n} /\ trees'[n] = bases
      /\ \A t \in DOMAIN trees : trees'[t] = trees[t]
  BY <1>4, SequenceGrows DEF FlushInv
<1> HIDE DEF n
<1>6. TreesGrow
  BY <1>5 DEF TreesGrow
<1>7. IsSpan(s, trees') /\ FlushedBut(s, {}, trees', superseded')
  BY <1>2, <1>3, <1>5 DEF IsSpan, FlushedBut
<1>8. \A i \in DOMAIN spans : IsSpan(spans[i], trees') /\ FlushedBut(spans[i], {}, trees', superseded')
  BY <1>6, FlushedStays DEF FlushInv
<1>9. /\ IsSequence(loggers') /\ IsSequence(spans')
      /\ \A l \in DOMAIN loggers' : DOMAIN loggers'[l] = {"span", "settings"} /\ loggers'[l].span \in DOMAIN spans'
      /\ \A i \in DOMAIN spans' : IsSpan(spans'[i], trees') /\ FlushedBut(spans'[i], {}, trees', superseded')
  BY <1>4, <1>6, <1>7, <1>8, SpanListed DEF FlushInv
<1>10. \A g \in Goroutines : pending[g] = None \/ Adding(pending[g], trees', superseded')
  BY <1>6, AddingStays DEF FlushInv
<1>11. AloneInv'
  <2>0. None.stage # "add"
    BY DEF None
  <2>1. \A g \in Goroutines : pending[g].stage = "add" => pending[g].span.tree \in DOMAIN trees
    BY <2>0 DEF FlushInv, Adding, IsSpan
  <2> QED BY <2>1, <1>5 DEF FlushInv, AloneInv, Program, Asked
<1> QED BY <1>2, <1>5, <1>9, <1>10, <1>11 DEF FlushInv

(* A span writes where its parent does, less what was removed for it, while
   it waits for what is added. *)
LEMMA NewChildFlush ==
    ASSUME FlushInv, NEW g \in Goroutines, NEW l \in DOMAIN loggers, NEW op, NEW mods, NEW settings,
           NewChildLog(g, l, op, mods, settings)
    PROVE  FlushInv'
<1>0. scenario' = scenario /\ trees' = trees /\ superseded' = superseded
  BY DEF NewChildLog, Does
<1>1. TreesGrow
  BY <1>0 DEF TreesGrow
<1> DEFINE p   == loggers[l].span
           bud == ChildSeed(l, op, mods, settings)
           w   == React(bud, FALSE)
           counted == [spans EXCEPT ![p].forks = IF op = "fork" THEN @ + 1 ELSE @,
                                    ![p].steps = IF op = "step" THEN @ + 1 ELSE @]
           born == [spans[p] EXCEPT !.parent = p, !.seed = w.seed, !.forks = 0, !.steps = 0,
                                    !.mods = mods, !.called = w.called,
                                    !.origin = [callbacks |-> View(bud.heap, bud.seed.reactive),
                                                reused |-> FALSE, headers |-> NoHeaders],
                                    !.bases = [b \in Bases |-> IF b \in ToSet(w.seed.removed) THEN 0 ELSE @[b]]]
<1>a. IF w.seed.added = <<>> /\ w.seed.removed = <<>>
      THEN /\ spans' = Append(counted, born)
           /\ loggers' = Append(loggers, [span |-> Len(spans) + 1, settings |-> w.seed.settings])
           /\ UNCHANGED pending
      ELSE /\ pending' = [pending EXCEPT ![g] = [stage |-> "ask", todo |-> w.seed.added, span |-> born]]
           /\ spans' = counted
           /\ UNCHANGED loggers
  BY DEF NewChildLog
<1>2. p \in DOMAIN spans
  BY DEF FlushInv
<1> HIDE DEF p, bud, w, counted, born
<1>c. PICK origin, removed, forks, steps :
          /\ origin = [callbacks |-> View(bud.heap, bud.seed.reactive), reused |-> FALSE, headers |-> NoHeaders]
          /\ removed = ToSet(w.seed.removed)
          /\ forks = IF op = "fork" THEN spans[p].forks + 1 ELSE spans[p].forks
          /\ steps = IF op = "step" THEN spans[p].steps + 1 ELSE spans[p].steps
  OBVIOUS
<1>d. PICK before : before = [spans EXCEPT ![p].forks = forks, ![p].steps = steps]
  OBVIOUS
<1>e. PICK child : child = [spans[p] EXCEPT !.parent = p, !.seed = w.seed, !.forks = 0, !.steps = 0,
                                            !.mods = mods, !.called = w.called, !.origin = origin,
                                            !.bases = [b \in Bases |-> IF b \in removed THEN 0 ELSE @[b]]]
  OBVIOUS
<1>3. \/ /\ spans' = Append(before, child)
         /\ loggers' = Append(loggers, [span |-> Len(spans) + 1, settings |-> w.seed.settings])
         /\ UNCHANGED pending
      \/ /\ pending' = [pending EXCEPT ![g] = [stage |-> "ask", todo |-> w.seed.added, span |-> child]]
         /\ spans' = before
         /\ UNCHANGED loggers
  <2>1. before = counted
    BY <1>2, <1>c, <1>d DEF FlushInv, IsSpan, SpanFields, counted
  <2>2. child = born
    BY <1>c, <1>e DEF born
  <2> QED BY <1>a, <2>1, <2>2
<1>4. /\ IsSequence(before) /\ DOMAIN before = DOMAIN spans /\ Len(before) = Len(spans)
      /\ \A i \in DOMAIN spans : /\ DOMAIN before[i] = DOMAIN spans[i]
                                /\ before[i].tree = spans[i].tree /\ before[i].bases = spans[i].bases
  <2>1. before = [spans EXCEPT ![p] = [spans[p] EXCEPT !.forks = forks, !.steps = steps]]
    BY <1>d DEF FlushInv
  <2>2. PICK x : x = [spans[p] EXCEPT !.forks = forks, !.steps = steps]
    OBVIOUS
  <2>3. DOMAIN x = SpanFields /\ x.tree = spans[p].tree /\ x.bases = spans[p].bases
    BY <1>2, <2>2 DEF FlushInv, IsSpan, SpanFields
  <2>4. /\ IsSequence(before) /\ DOMAIN before = DOMAIN spans /\ before[p] = x
        /\ \A i \in DOMAIN spans : i # p => before[i] = spans[i]
    BY <1>2, <2>1, <2>2, SequenceUpdated DEF FlushInv
  <2>5. Len(before) = Len(spans)
    <3>1. PICK S, R : spans \in Seq(S) /\ before \in Seq(R)
      BY <2>4 DEF FlushInv, IsSequence
    <3> QED BY <2>4, <3>1
  <2> QED BY <2>3, <2>4, <2>5 DEF FlushInv, IsSpan
<1>5. \A i \in DOMAIN spans : IsSpan(before[i], trees') /\ FlushedBut(before[i], {}, trees', superseded')
  BY <1>0, <1>4 DEF FlushInv, IsSpan, FlushedBut
<1>6. IsSpan(child, trees') /\ FlushedBut(child, {}, trees', superseded')
  <2>1. /\ DOMAIN child = SpanFields /\ child.tree = spans[p].tree
        /\ child.bases = [b \in Bases |-> IF b \in removed THEN 0 ELSE spans[p].bases[b]]
    BY <1>2, <1>e DEF FlushInv, IsSpan, SpanFields
  <2> QED BY <1>0, <1>2, <2>1 DEF FlushInv, IsSpan, FlushedBut
<1>7. CASE /\ spans' = Append(before, child)
           /\ loggers' = Append(loggers, [span |-> Len(spans) + 1, settings |-> w.seed.settings])
           /\ UNCHANGED pending
  <2>1. PICK given : given = w.seed.settings
    OBVIOUS
  <2>2. loggers' = Append(loggers, [span |-> Len(before) + 1, settings |-> given])
    BY <1>4, <1>7, <2>1
  <2>3. /\ IsSequence(loggers') /\ IsSequence(spans')
        /\ \A k \in DOMAIN loggers' : DOMAIN loggers'[k] = {"span", "settings"} /\ loggers'[k].span \in DOMAIN spans'
        /\ \A i \in DOMAIN spans' : IsSpan(spans'[i], trees') /\ FlushedBut(spans'[i], {}, trees', superseded')
    BY <1>1, <1>4, <1>5, <1>6, <1>7, <2>2, SpanListed
  <2> QED BY <1>0, <1>7, <2>3 DEF FlushInv, AloneInv, Program, Asked
<1>8. CASE /\ pending' = [pending EXCEPT ![g] = [stage |-> "ask", todo |-> w.seed.added, span |-> child]]
           /\ spans' = before
           /\ UNCHANGED loggers
  <2>1. PICK x : x = [stage |-> "ask", todo |-> w.seed.added, span |-> child]
    OBVIOUS
  <2>2. Adding(x, trees', superseded') /\ x.stage = "ask"
    BY <1>6, <2>1 DEF Adding
  <2>3. /\ DOMAIN pending' = Goroutines /\ pending'[g] = x
        /\ \A h \in Goroutines : h # g => pending'[h] = pending[h]
    BY <1>8, <2>1 DEF FlushInv
  <2>4. AloneInv'
    <3>1. Program.sequential => \A h \in Goroutines : pending[h] = None
      BY DEF NewChildLog, Idle
    <3> QED BY <1>0, <2>2, <2>3, <3>1 DEF FlushInv, AloneInv, Program, Asked
  <2> QED BY <1>0, <1>4, <1>5, <1>8, <2>2, <2>3, <2>4 DEF FlushInv
<1> QED BY <1>3, <1>7, <1>8

(* A goroutine that asks for the flushers, or adds to them, has a span to add. *)
LEMMA PendingAdds ==
    ASSUME FlushInv, NEW g \in Goroutines, pending[g].stage \in {"ask", "add"}
    PROVE  Adding(pending[g], trees, superseded)
<1>1. None.stage \notin {"ask", "add"}
  BY DEF None
<1> QED BY <1>1 DEF FlushInv

(* What is asked for is there, or gets a request that Flushers do not have yet. *)
LEMMA AskFlushersFlush ==
    ASSUME FlushInv, NEW g \in Goroutines, AskFlushers(g)
    PROVE  FlushInv'
<1>0. UNCHANGED <<scenario, spans, loggers, trees, superseded>>
  BY DEF AskFlushers
<1>1. PICK old : old = pending[g]
  OBVIOUS
<1>2. /\ Adding(old, trees, superseded) /\ old.stage = "ask" /\ DOMAIN old = {"stage", "todo", "span"}
      /\ IsSpan(old.span, trees) /\ FlushedBut(old.span, {}, trees, superseded)
  BY <1>1, PendingAdds DEF AskFlushers, Adding
<1>3. PICK new : /\ pending' = [pending EXCEPT ![g] = new] /\ Adding(new, trees, superseded)
                 /\ new.stage = "add" => trees[new.span.tree][Head(new.todo)] = 0
  <2> DEFINE b == Head(old.todo)
  <2>1. CASE old.span.bases[b] # 0 \/ trees[old.span.tree][b] # 0
    <3>1. PICK x : x = IF old.span.bases[b] # 0 THEN old.span.ignored ELSE old.span.ignored \cup {b}
      OBVIOUS
    <3>2. PICK s : s = [old.span EXCEPT !.ignored = x]
      OBVIOUS
    <3>3. PICK new : new = [old EXCEPT !.todo = Tail(@), !.span = s]
      OBVIOUS
    <3>4. pending' = [pending EXCEPT ![g] = new]
      BY <1>1, <1>2, <2>1, <3>1, <3>2, <3>3 DEF AskFlushers, Asked, FlushInv
    <3>5. DOMAIN s = SpanFields /\ s.tree = old.span.tree /\ s.bases = old.span.bases
      BY <1>2, <3>2 DEF IsSpan, SpanFields
    <3>6. DOMAIN new = {"stage", "todo", "span"} /\ new.stage = "ask" /\ new.span = s
      BY <1>2, <3>3
    <3> QED BY <1>2, <3>4, <3>5, <3>6 DEF Adding, IsSpan, FlushedBut
  <2>2. CASE ~(old.span.bases[b] # 0 \/ trees[old.span.tree][b] # 0)
    <3>1. PICK x : x = [old.span.bases EXCEPT ![b] = baseRequests + 1]
      OBVIOUS
    <3>2. PICK s : s = [old.span EXCEPT !.bases = x]
      OBVIOUS
    <3>3. PICK new : new = [old EXCEPT !.stage = "add", !.span = s]
      OBVIOUS
    <3>4. pending' = [pending EXCEPT ![g] = new]
      BY <1>1, <1>2, <2>2, <3>1, <3>2, <3>3 DEF AskFlushers, Asked, FlushInv, IsSpan, SpanFields
    <3>5. DOMAIN s = SpanFields /\ s.tree = old.span.tree /\ s.bases = x
      BY <1>2, <3>2 DEF IsSpan, SpanFields
    <3>6. DOMAIN new = {"stage", "todo", "span"} /\ new.stage = "add" /\ new.span = s /\ new.todo = old.todo
      BY <1>2, <3>3
    <3>7. DOMAIN x = Bases /\ \A c \in Bases : c # b => x[c] = old.span.bases[c]
      BY <1>2, <3>1 DEF IsSpan
    <3>8. IsSpan(s, trees)
      BY <1>2, <3>5, <3>7 DEF IsSpan
    <3>9. FlushedBut(s, {b}, trees, superseded)
      BY <1>2, <3>5, <3>7 DEF FlushedBut
    <3>10. Head(new.todo) = b
      BY <3>6
    <3> HIDE DEF b
    <3> QED BY <2>2, <3>4, <3>5, <3>6, <3>8, <3>9, <3>10 DEF Adding
  <2> QED BY <2>1, <2>2
<1>4. /\ DOMAIN pending' = Goroutines /\ pending'[g] = new
      /\ \A h \in Goroutines : h # g => pending'[h] = pending[h]
  BY <1>3 DEF FlushInv
<1>5. old # None
  BY <1>2 DEF None
<1>6. AloneInv'
  BY <1>0, <1>1, <1>3, <1>4, <1>5 DEF FlushInv, AloneInv, Program, Asked
<1> QED BY <1>0, <1>3, <1>4, <1>6 DEF FlushInv

(* The new request comes to Flushers, and what was there is superseded. *)
LEMMA AddFlusherFlush ==
    ASSUME FlushInv, NEW g \in Goroutines, AddFlusher(g)
    PROVE  FlushInv'
<1>0. UNCHANGED <<scenario, spans, loggers>>
  BY DEF AddFlusher
<1>1. PICK old : old = pending[g]
  OBVIOUS
<1>b. PICK b : b = Head(old.todo)
  OBVIOUS
<1>t. PICK t : t = old.span.tree
  OBVIOUS
<1>2. /\ old.stage = "add" /\ DOMAIN old = {"stage", "todo", "span"}
      /\ IsSpan(old.span, trees) /\ FlushedBut(old.span, {b}, trees, superseded)
  BY <1>1, <1>b, PendingAdds DEF AddFlusher, Adding
<1>3. PICK row : row = [trees[t] EXCEPT ![b] = old.span.bases[b]]
  OBVIOUS
<1>4. /\ trees' = [trees EXCEPT ![t] = row] /\ superseded' = superseded \cup ({trees[t][b]} \ {0})
      /\ pending' = [pending EXCEPT ![g] = [old EXCEPT !.stage = "ask", !.todo = Tail(@)]]
  BY <1>1, <1>b, <1>t, <1>2, <1>3 DEF AddFlusher, Asked, FlushInv
<1>5. /\ t \in DOMAIN trees /\ DOMAIN row = Bases /\ (b \in Bases => row[b] = old.span.bases[b])
      /\ \A c \in Bases : c # b => row[c] = trees[t][c]
  BY <1>t, <1>2, <1>3 DEF IsSpan, FlushInv
<1>6. /\ IsSequence(trees') /\ DOMAIN trees' = DOMAIN trees /\ trees'[t] = row
      /\ \A u \in DOMAIN trees : u # t => trees'[u] = trees[u]
  BY <1>4, <1>5, SequenceUpdated DEF FlushInv
<1>7. TreesGrow
  BY <1>4, <1>5, <1>6 DEF TreesGrow
<1>8. PICK new : new = [old EXCEPT !.stage = "ask", !.todo = Tail(@)]
  OBVIOUS
<1>9. DOMAIN new = {"stage", "todo", "span"} /\ new.stage = "ask" /\ new.span = old.span
  BY <1>2, <1>8
<1>10. Adding(new, trees', superseded')
  <2>1. IsSpan(old.span, trees') /\ FlushedBut(old.span, {b}, trees', superseded')
    BY <1>2, <1>7, FlushedStays
  <2>2. b \in Bases => old.span.bases[b] = trees'[old.span.tree][b]
    BY <1>t, <1>5, <1>6
  <2>3. FlushedBut(old.span, {}, trees', superseded')
    BY <2>1, <2>2 DEF FlushedBut
  <2> QED BY <1>9, <2>1, <2>3 DEF Adding
<1>11. /\ DOMAIN pending' = Goroutines /\ pending'[g] = new
       /\ \A h \in Goroutines : h # g => pending'[h] = pending[h]
  BY <1>4, <1>8 DEF FlushInv
<1>12. \A h \in Goroutines : pending'[h] = None \/ Adding(pending'[h], trees', superseded')
  BY <1>7, <1>10, <1>11, AddingStays DEF FlushInv
<1>13. \A i \in DOMAIN spans : IsSpan(spans[i], trees') /\ FlushedBut(spans[i], {}, trees', superseded')
  BY <1>7, FlushedStays DEF FlushInv
<1>14. AloneInv'
  <2>1. old # None /\ None.stage # "add"
    BY <1>2 DEF None
  <2>2. Program.sequential => trees[t][b] = 0
    BY <1>1, <1>b, <1>t, <1>2 DEF FlushInv, AloneInv, Asked
  <2>3. Program.sequential => \A h \in Goroutines : pending'[h].stage # "add"
    BY <1>1, <1>9, <1>11, <2>1 DEF FlushInv, AloneInv
  <2> QED BY <1>0, <1>1, <1>4, <1>11, <2>1, <2>2, <2>3 DEF FlushInv, AloneInv, Program
<1>15. \A u \in DOMAIN trees' : DOMAIN trees'[u] = Bases
  BY <1>5, <1>6 DEF FlushInv
<1> QED BY <1>0, <1>6, <1>11, <1>12, <1>13, <1>14, <1>15 DEF FlushInv

(* The span is ready when nothing is left to add. *)
LEMMA ChildReadyFlush ==
    ASSUME FlushInv, NEW g \in Goroutines, ChildReady(g)
    PROVE  FlushInv'
<1>0. UNCHANGED <<scenario, trees, superseded>>
  BY DEF ChildReady
<1>1. PICK old : old = pending[g].span
  OBVIOUS
<1>2. IsSpan(old, trees) /\ FlushedBut(old, {}, trees, superseded)
  BY <1>1, PendingAdds DEF ChildReady, Adding
<1>3. PICK buffered : buffered = BufferedIn(View(heap, old.seed.list))
  OBVIOUS
<1>4. PICK s : s = [old EXCEPT !.buffered = buffered]
  OBVIOUS
<1>5. DOMAIN s = SpanFields /\ s.tree = old.tree /\ s.bases = old.bases
  BY <1>2, <1>4 DEF IsSpan, SpanFields
<1>6. IsSpan(s, trees') /\ FlushedBut(s, {}, trees', superseded')
  BY <1>0, <1>2, <1>5 DEF IsSpan, FlushedBut
<1>7. PICK settings, before : settings = old.seed.settings /\ before = spans
  OBVIOUS
<1>8. /\ spans' = Append(before, s)
      /\ loggers' = Append(loggers, [span |-> Len(before) + 1, settings |-> settings])
      /\ pending' = [pending EXCEPT ![g] = None]
  BY <1>1, <1>3, <1>4, <1>7 DEF ChildReady, ListSpan
<1>9. TreesGrow
  BY <1>0 DEF TreesGrow
<1>10. /\ IsSequence(before) /\ DOMAIN before = DOMAIN spans
       /\ \A i \in DOMAIN spans : IsSpan(before[i], trees') /\ FlushedBut(before[i], {}, trees', superseded')
  BY <1>0, <1>7 DEF FlushInv
<1>11. /\ IsSequence(loggers') /\ IsSequence(spans')
       /\ \A l \in DOMAIN loggers' : DOMAIN loggers'[l] = {"span", "settings"} /\ loggers'[l].span \in DOMAIN spans'
       /\ \A i \in DOMAIN spans' : IsSpan(spans'[i], trees') /\ FlushedBut(spans'[i], {}, trees', superseded')
  BY <1>6, <1>8, <1>9, <1>10, SpanListed
<1>12. /\ DOMAIN pending' = Goroutines /\ pending'[g] = None
       /\ \A h \in Goroutines : h # g => pending'[h] = pending[h]
  BY <1>8 DEF FlushInv
<1>13. AloneInv'
  <2>1. None.stage # "add"
    BY DEF None
  <2> QED BY <1>0, <1>12, <2>1 DEF FlushInv, AloneInv, Program, Asked
<1> QED BY <1>0, <1>11, <1>12, <1>13 DEF FlushInv

(* Nothing else in the program touches spans and Flushers. *)
LEMMA FlushInvNext == FlushInv /\ [Next]_vars => FlushInv'
<1> SUFFICES ASSUME FlushInv, [Next]_vars PROVE FlushInv'
  OBVIOUS
<1>1. CASE UNCHANGED vars
  BY <1>1, QuietFlush DEF vars, spansVars
<1>2. ASSUME NEW g \in Goroutines, NEW i, NEW mods, Copy(g, i, mods) \/ MakeSubSeed(g, i, mods) PROVE FlushInv'
  BY <1>2, QuietFlush DEF Copy, MakeSubSeed, Does
<1>3. ASSUME NEW g \in Goroutines, NEW i, NEW isRequest, Request(g, i, isRequest) PROVE FlushInv'
  <2>1. PICK w, origin : Sprouted(w, origin)
    BY <1>3 DEF Request
  <2>2. UNCHANGED <<scenario, superseded, pending>>
    BY <1>3 DEF Request, Does
  <2> QED BY <2>1, <2>2, SproutedFlush
<1>4. ASSUME NEW g \in Goroutines, NEW headers, HandleRequest(g, headers) PROVE FlushInv'
  <2>1. PICK w, origin : Sprouted(w, origin)
    BY <1>4 DEF HandleRequest
  <2>2. UNCHANGED <<scenario, superseded, pending>>
    BY <1>4 DEF HandleRequest, Does
  <2> QED BY <2>1, <2>2, SproutedFlush
<1>5. ASSUME NEW g \in Goroutines, NEW l \in DOMAIN loggers, NEW settings, SubLogger(g, l, settings)
      PROVE  FlushInv'
  BY <1>5, QuietFlush DEF SubLogger, Does
<1>6. ASSUME NEW g \in Goroutines, SpansNext(g) PROVE FlushInv'
  BY <1>2, <1>3, <1>4, <1>5, <1>6, NewChildFlush, AskFlushersFlush, AddFlusherFlush, ChildReadyFlush DEF SpansNext
<1>7. ASSUME NEW g \in Goroutines, NEW l, NEW level, StartLine(g, l, level) PROVE FlushInv'
  BY <1>7, QuietFlush DEF StartLine, Does
<1>8. ASSUME NEW g \in Goroutines, NEW i, String(g, i) \/ Send(g, i) \/ Drop(g, i) PROVE FlushInv'
  BY <1>8, QuietFlush DEF String, Send, Drop, spansVars
<1>9. ASSUME NEW g \in Goroutines, NEW call, NEW t, BeginCall(g, call, t) PROVE FlushInv'
  BY <1>9, QuietFlush DEF BeginCall, Does
<1>10. ASSUME UNCHANGED spansVars PROVE FlushInv'
  BY <1>10, QuietFlush DEF spansVars
<1> QED BY <1>1, <1>6, <1>7, <1>8, <1>9, <1>10 DEF Next, LinesNext

(* Every base request that a span writes to is in Flushers, or lost its place
   there to one that another goroutine made for the same base meanwhile. *)
THEOREM WritersAreFlushed == Spec => []WritersFlushed
<1>1. Init => FlushInv
  <2>1. IsSequence(<<>>) /\ DOMAIN <<>> = {}
    <3>1. <<>> \in Seq({})
      OBVIOUS
    <3> QED BY <3>1 DEF IsSequence
  <2>2. None.stage # "add"
    BY DEF None
  <2> QED BY <2>1, <2>2 DEF Init, SpansInit, FlushInv, AloneInv
<1>2. FlushInv => WritersFlushed
  BY DEF FlushInv, IsSpan, FlushedBut, AloneInv, WritersFlushed
<1> QED BY <1>1, <1>2, FlushInvNext, PTL DEF Spec

-----------------------------------------------------------------------------
(***************************************************************************)
(* The numbers of the codes that spans and sub-loggers are given.          *)
(***************************************************************************)

(* What Digits says of a number, given what it says of smaller ones. *)
DigitsOf(d, k, radix, first) ==
    IF k < radix THEN <<first + k>> ELSE Append(d[k \div radix], first + (k % radix))

(* Division takes a number to a smaller one, with a rest below the radix. *)
LEMMA Quotient ==
    ASSUME NEW k \in Nat, NEW radix \in Nat, radix > 1, k >= radix
    PROVE  k \div radix \in 0..(k-1) /\ k % radix \in 0..(radix - 1)
  OBVIOUS

(* Quotient and rest determine the number. *)
LEMMA QuotientAndRest ==
    ASSUME NEW k \in Nat, NEW n \in Nat, NEW radix \in Nat, radix > 1,
           k \div radix = n \div radix, k % radix = n % radix
    PROVE  k = n
  OBVIOUS

(* It depends on the digits of smaller numbers only. *)
LEMMA DigitsDepend ==
    ASSUME NEW radix \in Nat, radix > 1, NEW first \in Nat, NEW k \in Nat, NEW d, NEW e,
           \A j \in 0..(k - 1) : d[j] = e[j]
    PROVE  DigitsOf(d, k, radix, first) = DigitsOf(e, k, radix, first)
<1>1. CASE k < radix
  BY <1>1, Zenon DEF DigitsOf
<1>2. CASE k >= radix
  <2>1. d[k \div radix] = e[k \div radix]
    BY <1>2, Quotient
  <2> QED BY <2>1, Zenon DEF DigitsOf
<1> QED BY <1>1, <1>2

(* Digits is what its recursive definition says. *)
LEMMA DigitsRecur ==
    ASSUME NEW radix \in Nat, radix > 1, NEW first \in Nat, NEW n \in Nat
    PROVE  Digits(n, radix, first) =
               IF n < radix THEN <<first + n>>
               ELSE Append(Digits(n \div radix, radix, first), first + (n % radix))
<1> DEFINE B(d, k) == DigitsOf(d, k, radix, first)
           Part(m, d) == d = [k \in 0..m |-> B(d, k)]
           T == {m \in Nat : \E d : Part(m, d)}
           Eqn(f) == f = [k \in Nat |-> B(f, k)]
           c == CHOOSE f : Eqn(f)
<1>1. ASSUME NEW k \in Nat, NEW d, NEW e, \A j \in 0..(k - 1) : d[j] = e[j]
      PROVE  B(d, k) = B(e, k)
  BY <1>1, DigitsDepend
<1>2. c = CHOOSE d : d = [k \in Nat |-> IF k < radix THEN <<first + k>>
                        ELSE Append(d[k \div radix], first + (k % radix))]
  BY DEF DigitsOf
<1>3. \A k \in Nat : Digits(k, radix, first) = c[k]
  BY <1>2, Zenon DEF Digits
<1>4. \A k \in Nat : B(c, k) = IF k < radix THEN <<first + k>>
                              ELSE Append(c[k \div radix], first + (k % radix))
  BY DEF DigitsOf
<1> HIDE DEF B
<1>5. 0 \in T
  <2>1. PICK d : d = [k \in 0..0 |-> B(<<>>, k)]
    OBVIOUS
  <2>2. ASSUME NEW k \in 0..0 PROVE B(d, k) = B(<<>>, k)
    <3>1. k \in Nat /\ \A j \in 0..(k - 1) : d[j] = <<>>[j]
      OBVIOUS
    <3> QED BY <3>1, <1>1
  <2>3. Part(0, d)
    BY <2>1, <2>2
  <2> HIDE DEF Part
  <2> QED BY <2>3
<1>6. ASSUME NEW m \in Nat, m \in T PROVE m + 1 \in T
  <2>1. PICK d : Part(m, d)
    BY <1>6
  <2>2. PICK e : e = [k \in 0..(m+1) |-> B(d, k)]
    OBVIOUS
  <2>3. \A k \in 0..m : e[k] = d[k]
    BY <2>1, <2>2
  <2>4. ASSUME NEW k \in 0..(m+1) PROVE B(e, k) = B(d, k)
    <3>1. \A j \in 0..(k - 1) : e[j] = d[j]
      BY <2>3
    <3> QED BY <3>1, <1>1
  <2>5. Part(m+1, e)
    BY <2>2, <2>4
  <2> HIDE DEF Part
  <2> QED BY <2>5
<1>7. \A m \in Nat : m \in T
  <2> HIDE DEF T
  <2> QED BY <1>5, <1>6, ModsFold!SetInduction
<1>8. ASSUME NEW m \in Nat, NEW j \in Nat, m <= j, NEW d, NEW e, Part(m, d), Part(j, e)
      PROVE  \A k \in 0..m : d[k] = e[k]
  <2> DEFINE U == {i \in 0..m : d[i] # e[i]}
  <2> SUFFICES ASSUME U # {} PROVE FALSE
    OBVIOUS
  <2>2. PICK i \in U : \A h \in U : i <= h
    <3>1. U \subseteq Nat
      OBVIOUS
    <3> HIDE DEF U
    <3> QED BY <3>1, ModsFold!LeastNumber
  <2>3. i \in Nat /\ \A h \in 0..(i - 1) : d[h] = e[h]
    BY <2>2
  <2>4. B(d, i) = B(e, i)
    BY <1>1, <2>3
  <2> QED BY <1>8, <2>2, <2>4
<1> DEFINE H(m) == CHOOSE d : Part(m, d)
<1>9. \A m \in Nat : Part(m, H(m))
  <2>1. \A m \in Nat : \E d : Part(m, d)
    BY <1>7
  <2> HIDE DEF Part
  <2> QED BY <2>1
<1> HIDE DEF H
<1>10. PICK d : d = [k \in Nat |-> H(k)[k]]
  OBVIOUS
<1>11. ASSUME NEW k \in Nat PROVE d[k] = B(d, k)
  <2>1. ASSUME NEW j \in 0..k PROVE d[j] = H(k)[j]
    <3>1. d[j] = H(j)[j] /\ j \in Nat /\ j <= k /\ j \in 0..j
      BY <1>10
    <3>2. H(j)[j] = H(k)[j]
      <4> HIDE DEF Part
      <4> QED BY <3>1, <1>8, <1>9
    <3> QED BY <3>1, <3>2
  <2>2. B(d, k) = B(H(k), k)
    BY <1>1, <2>1
  <2>3. H(k)[k] = B(H(k), k)
    <3>1. Part(k, H(k)) /\ k \in 0..k
      BY <1>9
    <3> QED BY <3>1
  <2> QED BY <1>10, <2>2, <2>3
<1>12. Eqn(d)
  BY <1>10, <1>11
<1>13. Eqn(c)
  <2> HIDE DEF Eqn
  <2> QED BY <1>12
<1> HIDE DEF c
<1>14. \A k \in Nat : c[k] = B(c, k)
  BY <1>13
<1>15. n >= radix => n \div radix \in Nat
  BY Quotient
<1>16. Digits(n, radix, first) = B(c, n)
  BY <1>3, <1>14
<1>17. CASE n < radix
  BY <1>4, <1>16, <1>17
<1>18. CASE n >= radix
  <2>1. ~(n < radix)
    BY <1>18
  <2>2. c[n \div radix] = Digits(n \div radix, radix, first)
    BY <1>3, <1>15, <1>18
  <2>3. B(c, n) = Append(c[n \div radix], first + (n % radix))
    BY <1>4, <2>1, Zenon
  <2> QED BY <1>16, <2>1, <2>2, <2>3, Zenon
<1> QED BY <1>17, <1>18

(* A number has digits, and they are those of its radix. *)
LEMMA DigitsTyped ==
    ASSUME NEW radix \in Nat, radix > 1, NEW first \in Nat, NEW n \in Nat
    PROVE  /\ Digits(n, radix, first) \in Seq(first..(first + radix - 1))
           /\ Digits(n, radix, first) # <<>>
<1> DEFINE R == first..(first + radix - 1)
           D(m) == Digits(m, radix, first)
           U == {m \in Nat : ~(D(m) \in Seq(R) /\ D(m) # <<>>)}
<1> SUFFICES ASSUME U # {} PROVE FALSE
  OBVIOUS
<1>1. \A m \in Nat : D(m) = IF m < radix THEN <<first + m>>
                            ELSE Append(D(m \div radix), first + (m % radix))
  BY DigitsRecur
<1> HIDE DEF D
<1>2. PICK m \in U : \A h \in U : m <= h
  <2>1. U \subseteq Nat
    OBVIOUS
  <2> HIDE DEF U
  <2> QED BY <2>1, ModsFold!LeastNumber
<1>3. m \in Nat /\ ~(D(m) \in Seq(R) /\ D(m) # <<>>)
  OBVIOUS
<1>4. \A h \in 0..(m - 1) : D(h) \in Seq(R)
  BY <1>2
<1>5. first \in R /\ \A x \in 0..(radix - 1) : first + x \in R
  OBVIOUS
<1> HIDE DEF U, R
<1>6. CASE m < radix
  <2>1. D(m) = <<first + m>> /\ first + m \in R
    BY <1>1, <1>3, <1>5, <1>6
  <2>2. \A x \in R : <<x>> \in Seq(R) /\ <<x>> # <<>>
    OBVIOUS
  <2> QED BY <1>3, <2>1, <2>2
<1>7. CASE m >= radix
  <2>1. m \div radix \in 0..(m - 1) /\ m % radix \in 0..(radix - 1)
    BY <1>3, <1>7, Quotient
  <2>2. D(m \div radix) \in Seq(R) /\ first + (m % radix) \in R
    BY <1>4, <1>5, <2>1
  <2>3. ~(m < radix)
    BY <1>3, <1>7
  <2>4. D(m) = Append(D(m \div radix), first + (m % radix))
    BY <1>1, <1>3, <2>3, Zenon
  <2>5. \A s \in Seq(R), x \in R : Append(s, x) \in Seq(R) /\ Append(s, x) # <<>>
    BY AppendProperties
  <2> QED BY <1>3, <2>2, <2>4, <2>5, Zenon
<1> QED BY <1>3, <1>6, <1>7

(* A sequence of two or more is not one of a single element. *)
LEMMA AppendLonger ==
    ASSUME NEW S, NEW s \in Seq(S), s # <<>>, NEW x \in S, NEW y
    PROVE  Append(s, x) # <<y>>
<1>1. Len(Append(s, x)) = Len(s) + 1 /\ Len(s) \in Nat \ {0}
  BY AppendProperties, EmptySeq
<1>2. Len(<<y>>) = 1
  OBVIOUS
<1> QED BY <1>1, <1>2

(* No two numbers have the same digits. *)
LEMMA DigitsInjective ==
    ASSUME NEW radix \in Nat, radix > 1, NEW first \in Nat, NEW k \in Nat, NEW n \in Nat,
           Digits(k, radix, first) = Digits(n, radix, first)
    PROVE  k = n
<1> DEFINE D(m) == Digits(m, radix, first)
           U == {m \in Nat : \E j \in Nat : D(m) = D(j) /\ m # j}
<1> SUFFICES ASSUME U # {} PROVE FALSE
  OBVIOUS
<1>1. \A m \in Nat : D(m) = IF m < radix THEN <<first + m>>
                            ELSE Append(D(m \div radix), first + (m % radix))
  BY DigitsRecur
<1>2. \A m \in Nat : D(m) \in Seq(Nat) /\ D(m) # <<>>
  <2> DEFINE R == first..(first + radix - 1)
  <2>1. \A m \in Nat : D(m) \in Seq(R) /\ D(m) # <<>>
    BY DigitsTyped
  <2>2. \A s : s \in Seq(R) => s \in Seq(Nat)
    OBVIOUS
  <2> HIDE DEF R, D
  <2> QED BY <2>1, <2>2
<1> HIDE DEF D
<1>3. PICK m \in U : \A h \in U : m <= h
  <2>1. U \subseteq Nat
    OBVIOUS
  <2> HIDE DEF U
  <2> QED BY <2>1, ModsFold!LeastNumber
<1>4. m \in Nat /\ \A h \in 0..(m - 1) : \A i \in Nat : D(h) = D(i) => h = i
  BY <1>3
<1>5. PICK j \in Nat : D(m) = D(j) /\ m # j
  BY <1>3
<1> HIDE DEF U
<1>6. \A i \in Nat : i < radix => D(i) = <<first + i>>
  BY <1>1
<1>7. ASSUME NEW i \in Nat, i >= radix
      PROVE  \E q \in 0..(i - 1), x \in Nat :
                /\ q = i \div radix /\ x = i % radix
                /\ D(q) \in Seq(Nat) \ {<<>>} /\ D(i) = Append(D(q), first + x)
  <2>1. PICK q \in 0..(i - 1), x \in Nat : q = i \div radix /\ x = i % radix
    <3>1. i \div radix \in 0..(i - 1) /\ i % radix \in 0..(radix - 1)
      BY <1>7, Quotient
    <3>2. i % radix \in Nat
      BY <3>1
    <3> QED BY <3>1, <3>2, Zenon
  <2>2. ~(i < radix)
    BY <1>7
  <2>3. D(i) = Append(D(q), first + x)
    BY <1>1, <2>1, <2>2, Zenon
  <2>4. D(q) \in Seq(Nat) \ {<<>>}
    <3>1. q \in Nat
      OBVIOUS
    <3> QED BY <1>2, <3>1
  <2> QED BY <2>1, <2>3, <2>4, Zenon
<1>8. ASSUME NEW i \in Nat, NEW h \in Nat, i >= radix, h < radix PROVE D(i) # D(h)
  <2>1. PICK q \in 0..(i - 1), x \in Nat :
            D(q) \in Seq(Nat) \ {<<>>} /\ D(i) = Append(D(q), first + x)
    <3>1. \E q \in 0..(i - 1), x \in Nat :
             /\ q = i \div radix /\ x = i % radix
             /\ D(q) \in Seq(Nat) \ {<<>>} /\ D(i) = Append(D(q), first + x)
      BY <1>7, <1>8, Zenon
    <3> QED BY <3>1, Zenon
  <2>2. first + x \in Nat /\ D(h) = <<first + h>>
    BY <1>6, <1>8, <2>1
  <2> QED BY <2>1, <2>2, AppendLonger
<1>9. CASE m < radix /\ j < radix
  <2>1. <<first + m>> = <<first + j>>
    BY <1>4, <1>5, <1>6, <1>9
  <2> QED BY <1>4, <1>5, <2>1
<1>10. CASE m < radix /\ j >= radix
  BY <1>4, <1>5, <1>8, <1>10
<1>11. CASE m >= radix /\ j < radix
  BY <1>4, <1>5, <1>8, <1>11
<1>12. CASE m >= radix /\ j >= radix
  <2>1. PICK q \in 0..(m - 1), x \in Nat :
            /\ q = m \div radix /\ x = m % radix
            /\ D(q) \in Seq(Nat) \ {<<>>} /\ D(m) = Append(D(q), first + x)
    BY <1>4, <1>7, <1>12
  <2>2. PICK r \in 0..(j - 1), y \in Nat :
            /\ r = j \div radix /\ y = j % radix
            /\ D(r) \in Seq(Nat) \ {<<>>} /\ D(j) = Append(D(r), first + y)
    BY <1>7, <1>12
  <2>3. PICK c \in Nat, d \in Nat : c = first + x /\ d = first + y
    OBVIOUS
  <2>4. D(q) = D(r) /\ c = d
    <3>1. Append(D(q), c) = Append(D(r), d)
      BY <1>5, <2>1, <2>2, <2>3, Zenon
    <3>2. D(q) \in Seq(Nat) /\ D(r) \in Seq(Nat)
      BY <2>1, <2>2
    <3> QED BY <3>1, <3>2, AppendInjective, SMTT(60)
  <2>5. q = r
    <3>1. r \in Nat
      OBVIOUS
    <3> QED BY <1>4, <2>4, <3>1, Zenon
  <2>6. x = y
    BY <2>3, <2>4
  <2> QED BY <1>4, <1>5, <2>1, <2>2, <2>5, <2>6, QuotientAndRest
<1> QED BY <1>4, <1>9, <1>10, <1>11, <1>12

(* A sequence over a set is one over a larger set. *)
LEMMA SeqWithin ==
    ASSUME NEW S, NEW T, S \subseteq T, NEW s \in Seq(S)
    PROVE  s \in Seq(T) /\ \A i \in 1..Len(s) : s[i] \in S
<1>1. Len(s) \in Nat /\ s \in [1..Len(s) -> S]
  BY LenProperties
<1>2. s \in [1..Len(s) -> T]
  BY <1>1
<1> QED BY <1>1, <1>2 DEF Seq

NoDot(s) == \A i \in 1..Len(s) : s[i] # Dot

(* What comes after the last dot of a text, and what before, can be told. *)
LEMMA CodeParts ==
    ASSUME NEW a \in Seq(Nat), NEW b \in Seq(Nat), NEW c \in Seq(Nat), NEW d \in Seq(Nat),
           NoDot(b), NoDot(d), a \o (<<Dot>> \o b) = c \o (<<Dot>> \o d)
    PROVE  a = c /\ b = d
<1> USE DEF NoDot
<1> DEFINE s == a \o (<<Dot>> \o b)
           t == c \o (<<Dot>> \o d)
<1>1. /\ Len(a) \in Nat /\ Len(b) \in Nat /\ Len(c) \in Nat /\ Len(d) \in Nat
      /\ Len(s) = Len(a) + 1 + Len(b) /\ Len(t) = Len(c) + 1 + Len(d)
      /\ \A i \in 1..Len(a) : s[i] = a[i]
      /\ s[Len(a) + 1] = Dot
      /\ \A i \in 1..Len(b) : s[Len(a) + 1 + i] = b[i]
      /\ \A i \in 1..Len(c) : t[i] = c[i]
      /\ t[Len(c) + 1] = Dot
      /\ \A i \in 1..Len(d) : t[Len(c) + 1 + i] = d[i]
  BY SMTT(60) DEF Dot
<1>2. s = t
  OBVIOUS
<1> HIDE DEF s, t
<1>3. ~(Len(a) < Len(c))
  <2> SUFFICES ASSUME Len(a) < Len(c) PROVE FALSE
    OBVIOUS
  <2>1. PICK i \in 1..Len(b) : Len(a) + 1 + i = Len(c) + 1
    <3>1. Len(c) - Len(a) \in 1..Len(b) /\ Len(a) + 1 + (Len(c) - Len(a)) = Len(c) + 1
      BY <1>1, <1>2
    <3> QED BY <3>1
  <2>2. s[Len(c) + 1] = b[i] /\ b[i] # Dot
    BY <1>1, <2>1
  <2> QED BY <1>1, <1>2, <2>2
<1>4. ~(Len(c) < Len(a))
  <2> SUFFICES ASSUME Len(c) < Len(a) PROVE FALSE
    OBVIOUS
  <2>1. PICK i \in 1..Len(d) : Len(c) + 1 + i = Len(a) + 1
    <3>1. Len(a) - Len(c) \in 1..Len(d) /\ Len(c) + 1 + (Len(a) - Len(c)) = Len(a) + 1
      BY <1>1, <1>2
    <3> QED BY <3>1
  <2>2. t[Len(a) + 1] = d[i] /\ d[i] # Dot
    BY <1>1, <2>1
  <2> QED BY <1>1, <1>2, <2>2
<1>5. Len(a) = Len(c) /\ Len(b) = Len(d)
  BY <1>1, <1>2, <1>3, <1>4
<1>6. \A i \in 1..Len(a) : a[i] = c[i]
  BY <1>1, <1>2, <1>5
<1>7. \A i \in 1..Len(b) : b[i] = d[i]
  BY <1>1, <1>2, <1>5
<1> QED BY <1>5, <1>6, <1>7, SeqEqual

(* The codes of the forks and steps of a span, numbered from 1. *)
IsSegment(c, forks, steps) ==
    \/ \E n \in 1..forks : c = ForkCode(n)
    \/ \E n \in 1..steps : c = StepCode(n)

(* The digits of both kinds of segment, the letters of a Fork() and the
   decimals of a Step(), are digits, and there is one at least. *)
LEMMA SegmentDigits ==
    ASSUME NEW n \in Nat
    PROVE  /\ Digits(n, 26, 10) \in Seq(10..35) /\ Digits(n, 26, 10) # <<>>
           /\ Digits(n, 10, 0) \in Seq(0..9) /\ Digits(n, 10, 0) # <<>>
<1>1. 26 \in Nat /\ 10 \in Nat /\ 0 \in Nat /\ 26 > 1 /\ 10 > 1 /\ 10 + 26 - 1 = 35 /\ 0 + 10 - 1 = 9
  OBVIOUS
<1>2. Digits(n, 26, 10) \in Seq(10..(10 + 26 - 1)) /\ Digits(n, 26, 10) # <<>>
  BY <1>1, DigitsTyped, Zenon
<1>3. Digits(n, 10, 0) \in Seq(0..(0 + 10 - 1)) /\ Digits(n, 10, 0) # <<>>
  BY <1>1, DigitsTyped, Zenon
<1> QED BY <1>1, <1>2, <1>3, Zenon

(* A code is a dot and digits that are no dots. *)
LEMMA SegmentTyped ==
    ASSUME NEW forks \in Nat, NEW steps \in Nat, NEW c, IsSegment(c, forks, steps)
    PROVE  \E d \in Seq(Nat) : /\ c = <<Dot>> \o d /\ d # <<>>
                               /\ \A i \in 1..Len(d) : d[i] # Dot
<1>1. ASSUME NEW n \in 1..forks, c = ForkCode(n)
      PROVE  \E d \in Seq(Nat) : /\ c = <<Dot>> \o d /\ d # <<>>
                                 /\ \A i \in 1..Len(d) : d[i] # Dot
  <2>1. n - 1 \in Nat
    OBVIOUS
  <2>2. PICK d : d = Digits(n - 1, 26, 10)
    OBVIOUS
  <2>3. d \in Seq(10..35) /\ d # <<>> /\ c = <<Dot>> \o d
    BY <1>1, <2>1, <2>2, SegmentDigits DEF ForkCode
  <2>4. d \in Seq(Nat) /\ \A i \in 1..Len(d) : d[i] # 36
    <3>1. 10..35 \subseteq Nat /\ 36 \notin 10..35
      OBVIOUS
    <3> QED BY <2>3, <3>1, SeqWithin
  <2> QED BY <2>3, <2>4 DEF Dot
<1>2. ASSUME NEW n \in 1..steps, c = StepCode(n)
      PROVE  \E d \in Seq(Nat) : /\ c = <<Dot>> \o d /\ d # <<>>
                                 /\ \A i \in 1..Len(d) : d[i] # Dot
  <2>1. n \in Nat
    OBVIOUS
  <2>2. PICK d : d = Digits(n, 10, 0)
    OBVIOUS
  <2>3. d \in Seq(0..9) /\ d # <<>> /\ c = <<Dot>> \o d
    BY <1>2, <2>1, <2>2, SegmentDigits DEF StepCode
  <2>4. d \in Seq(Nat) /\ \A i \in 1..Len(d) : d[i] # 36
    <3>1. 0..9 \subseteq Nat /\ 36 \notin 0..9
      OBVIOUS
    <3> QED BY <2>3, <3>1, SeqWithin
  <2> QED BY <2>3, <2>4 DEF Dot
<1> QED BY <1>1, <1>2 DEF IsSegment

(* A fork and a step, or two forks, or two steps, have different codes. *)
LEMMA SegmentsDiffer ==
    ASSUME NEW k \in Nat \ {0}, NEW n \in Nat \ {0}
    PROVE  /\ ForkCode(k) # StepCode(n)
           /\ ForkCode(k) = ForkCode(n) => k = n
           /\ StepCode(k) = StepCode(n) => k = n
<1>1. k - 1 \in Nat /\ n - 1 \in Nat /\ k \in Nat /\ n \in Nat
  OBVIOUS
<1>2. \A b, d \in Seq(Nat) : <<Dot>> \o b = <<Dot>> \o d => b = d
  <2> SUFFICES ASSUME NEW b \in Seq(Nat), NEW d \in Seq(Nat), <<Dot>> \o b = <<Dot>> \o d
               PROVE  b = d
    OBVIOUS
  <2>1. /\ Len(<<Dot>> \o b) = 1 + Len(b) /\ Len(<<Dot>> \o d) = 1 + Len(d)
        /\ Len(b) \in Nat /\ Len(d) \in Nat
        /\ \A i \in 1..Len(b) : (<<Dot>> \o b)[1 + i] = b[i]
        /\ \A i \in 1..Len(d) : (<<Dot>> \o d)[1 + i] = d[i]
    BY DEF Dot
  <2>2. Len(b) = Len(d)
    BY <2>1
  <2>3. \A i \in 1..Len(b) : b[i] = d[i]
    BY <2>1, <2>2
  <2> QED BY <2>2, <2>3, SeqEqual
<1>3. \A m \in Nat :
         /\ Digits(m, 26, 10) \in Seq(Nat) /\ Digits(m, 10, 0) \in Seq(Nat)
         /\ Len(Digits(m, 26, 10)) \in Nat \ {0}
         /\ \A i \in 1..Len(Digits(m, 26, 10)) : Digits(m, 26, 10)[i] \in 10..35
         /\ \A i \in 1..Len(Digits(m, 10, 0)) : Digits(m, 10, 0)[i] \in 0..9
  <2> SUFFICES ASSUME NEW m \in Nat, NEW f, f = Digits(m, 26, 10), NEW s, s = Digits(m, 10, 0)
               PROVE  /\ f \in Seq(Nat) /\ s \in Seq(Nat)
                      /\ Len(f) \in Nat \ {0}
                      /\ \A i \in 1..Len(f) : f[i] \in 10..35
                      /\ \A i \in 1..Len(s) : s[i] \in 0..9
    BY Zenon
  <2>1. f \in Seq(10..35) /\ f # <<>> /\ s \in Seq(0..9)
    BY SegmentDigits
  <2>2. \A T : T \subseteq Nat =>
            \A r \in Seq(T) : r \in Seq(Nat) /\ \A i \in 1..Len(r) : r[i] \in T
    BY SeqWithin
  <2>3. 10..35 \subseteq Nat /\ 0..9 \subseteq Nat
    OBVIOUS
  <2>4. f \in Seq(Nat) /\ \A i \in 1..Len(f) : f[i] \in 10..35
    BY <2>1, <2>2, <2>3, Zenon
  <2>5. s \in Seq(Nat) /\ \A i \in 1..Len(s) : s[i] \in 0..9
    BY <2>1, <2>2, <2>3, Zenon
  <2> QED BY <2>1, <2>4, <2>5, EmptySeq
<1>4. ForkCode(k) # StepCode(n)
  <2> SUFFICES ASSUME NEW f, f = Digits(k - 1, 26, 10), NEW s, s = Digits(n, 10, 0), f = s
               PROVE  FALSE
    BY <1>1, <1>2, <1>3 DEF ForkCode, StepCode
  <2>1. 1 \in 1..Len(f)
    BY <1>1, <1>3
  <2>2. f[1] \in 10..35 /\ f[1] \in 0..9
    BY <1>1, <1>3, <2>1
  <2> QED BY <2>2
<1>5. ForkCode(k) = ForkCode(n) => k = n
  <2> SUFFICES ASSUME ForkCode(k) = ForkCode(n) PROVE k = n
    OBVIOUS
  <2>1. Digits(k - 1, 26, 10) = Digits(n - 1, 26, 10)
    BY <1>1, <1>2, <1>3 DEF ForkCode
  <2>2. 26 \in Nat /\ 26 > 1 /\ 10 \in Nat
    OBVIOUS
  <2>3. k - 1 = n - 1
    BY <1>1, <2>1, <2>2, DigitsInjective
  <2> QED BY <2>3
<1>6. StepCode(k) = StepCode(n) => k = n
  <2> SUFFICES ASSUME StepCode(k) = StepCode(n) PROVE k = n
    OBVIOUS
  <2>1. Digits(k, 10, 0) = Digits(n, 10, 0)
    BY <1>1, <1>2, <1>3 DEF StepCode
  <2>2. 10 \in Nat /\ 10 > 1 /\ 0 \in Nat
    OBVIOUS
  <2> QED BY <1>1, <2>1, <2>2, DigitsInjective
<1> QED BY <1>4, <1>5, <1>6

-----------------------------------------------------------------------------
(***************************************************************************)
(* What the heap holds: whoever can still use a seed or a span sees what   *)
(* was put in it, whatever the appends of others write.                    *)
(***************************************************************************)

(* A seed that nobody is at work on, and its place on the heap. *)
Seated(h, d) == SeedShape(d) /\ SeedSlices(h, d) /\ d.current = 0

ArraysOf(d) == {d.list.array, d.reactive.array}

(* No array is viewed by both, but for the empty one. *)
Apart(d, e) == \A a \in ArraysOf(d) : a \in ArraysOf(e) => a = 1

(* No slot is empty. *)
Full(h, d) == \A j \in 1..d.reactive.len : h[d.reactive.array][j] # Nil

(* What does not write to the arrays of a seed leaves it alone. *)
LEMMA SeatedStill ==
    ASSUME NEW h, IsHeap(h), NEW k, IsHeap(k), NEW S, Untouched(h, k, S),
           NEW d, Seated(h, d), \A a \in S : a \in ArraysOf(d) => a = 1
    PROVE  /\ Seated(k, d) /\ View(k, d.reactive) = View(h, d.reactive)
           /\ Full(h, d) => Full(k, d)
<1>1. d.list.array \in 1..Len(h) /\ d.reactive.array \in 1..Len(h) /\ Len(h) \in Nat
  BY HeapArray DEF Seated, SeedSlices, IsSlice
<1>2. Len(k) >= Len(h) /\ \A a \in 1..Len(h) : a \notin S => k[a] = h[a]
  BY DEF Untouched
<1>3. h[1] = <<>> /\ k[1] = <<>> /\ Len(k) \in Nat
  BY HeapArray DEF IsHeap
<1>4. \A a \in ArraysOf(d) : a \in 1..Len(h) /\ k[a] = h[a]
  BY <1>1, <1>2, <1>3 DEF ArraysOf
<1>5. /\ k[d.list.array] = h[d.list.array] /\ k[d.reactive.array] = h[d.reactive.array]
      /\ d.list.array \in 1..Len(k) /\ d.reactive.array \in 1..Len(k)
  BY <1>1, <1>2, <1>3, <1>4 DEF ArraysOf
<1>6. Seated(k, d)
  BY <1>5 DEF Seated, SeedSlices, IsSlice
<1> QED BY <1>5, <1>6 DEF View, Full

(* The seed of a world, when nobody is at work on it any more. *)
LEMMA WorldSeated ==
    ASSUME NEW w, IsWorld(w), w.seed.current = 0
    PROVE  IsHeap(w.heap) /\ Seated(w.heap, w.seed)
BY DEF IsWorld, Seated

(* What react() leaves of the seed it was called for. *)
LEMMA SeatedServed ==
    ASSUME NEW w, IsWorld(w), w.seed.current = 0, NEW k, IsHeap(k), HeapServes(w, k)
    PROVE  Seated(k, w.seed)
<1> DEFINE l == w.seed.list.array  r == w.seed.reactive.array  h == w.heap  d == w.seed
<1>1. l \in 1..Len(h) /\ r \in 1..Len(h) /\ Len(h) \in Nat /\ IsHeap(h)
  BY WorldSlices DEF IsWorld
<1>2. Len(k) >= Len(h) /\ Len(k[l]) = Len(h[l]) /\ Len(k[r]) = Len(h[r]) /\ Len(k) \in Nat
  BY <1>1, HeapArray DEF HeapServes, Untouched
<1>3. /\ \A j \in 1..Len(h[l]) : k[l][j] \in Bases \cup {Nil} /\ (h[l][j] \in Bases => k[l][j] \in Bases)
      /\ \A j \in 1..Len(h[r]) : k[r][j] \in DOMAIN Callbacks \cup {Nil}
  BY DEF HeapServes
<1>4. SeedShape(d) /\ SeedSlices(h, d) /\ d.current = 0
  BY DEF IsWorld
<1>5. IsSlice(k, d.list) /\ IsSlice(k, d.reactive)
  <2>1. IsSlice(h, d.list) /\ IsSlice(h, d.reactive)
    BY <1>4 DEF SeedSlices
  <2>2. l \in 1..Len(k) /\ r \in 1..Len(k)
    BY <1>1, <1>2
  <2> QED BY <1>2, <2>1, <2>2 DEF IsSlice
<1>6. \A j \in 1..d.list.len : j \in 1..Len(h[l])
  BY WorldSlices
<1>7. SeedSlices(k, d)
  BY <1>2, <1>3, <1>4, <1>5, <1>6 DEF SeedSlices
<1> QED BY <1>4, <1>7 DEF Seated

(* A seed in the hands of an operation. *)
LEMMA OfWorld ==
    ASSUME NEW d, IsHeap(heap), Seated(heap, d)
    PROVE  /\ IsWorld(Of(d)) /\ Of(d).heap = heap /\ Of(d).fresh = fresh /\ Of(d).seed = d
           /\ Of(d).called = <<>> /\ Of(d).seed.current = 0
BY DEF Of, IsWorld, Seated

-----------------------------------------------------------------------------
(* The seeds there are: those that the program holds, those of the spans, and *)
(* those of the spans that newChildLog() has not listed yet.                *)
Live ==
    ({"seed"} \X DOMAIN seeds) \cup ({"span"} \X DOMAIN spans)
    \cup ({"pending"} \X {g \in Goroutines : pending[g] # None})

SpanAt(x) == IF x[1] = "span" THEN spans[x[2]] ELSE pending[x[2]].span

SeedAt(x) == IF x[1] = "seed" THEN seeds[x[2]] ELSE SpanAt(x).seed

(* A seed that has sprouted, or a span of such a seed. *)
Reused(x) == IF x[1] = "seed" THEN seeds[x[2]].used ELSE SpanAt(x).origin.reused

(* The identifiers of a seed: overrides are from the program, and there is no
   trace without a span. *)
Settled(f, d) ==
    /\ d.trace.trace <= f /\ d.trace.span <= f
    /\ d.traceSet => d.trace.trace # Zero
    /\ d.trace.trace # Zero => d.trace.span # Zero

Ids(f, d) == Settled(f, d) /\ (d.spanSet => FromProgram(d.trace.span))

Good(h, f, d) ==
    /\ Seated(h, d)
    /\ d.used \in BOOLEAN /\ (~d.used => Full(h, d))
    /\ d.code \in Seq(Nat)
    /\ Ids(f, d)

(* And that of a span. *)
OfSpan(d) == ~d.spanSet /\ ~d.traceSet /\ d.trace.trace # Zero /\ ~d.used

(* Two that have the same identifier, unless the program gave it. *)
Alike(x, y) == SeedAt(x).trace.span = SeedAt(y).trace.span /\ SeedAt(x).trace.span > 0

First == <<"seed", 1>>

LiveInv ==
    /\ IsHeap(heap) /\ fresh \in Nat
    /\ \A x \in Live : Good(heap, fresh, SeedAt(x)) /\ (x[1] # "seed" => OfSpan(SeedAt(x)))
    /\ \A x, y \in Live : x # y => Apart(SeedAt(x), SeedAt(y))
    /\ \A x, y \in Live : x # y /\ Alike(x, y) =>
          ~(x[1] = "seed" /\ y[1] = "seed") /\ (Reused(x) \/ Reused(y))
    /\ First \in Live /\ SeedAt(First).trace.span <= 0

(* A seed whose arrays are its own keeps what it views when another one is
   worked on. *)
LEMMA OthersSeated ==
    ASSUME LiveInv, NEW k, IsHeap(k), NEW s \in Live, Untouched(heap, k, ArraysOf(SeedAt(s))),
           NEW x \in Live, x # s
    PROVE  /\ Seated(k, SeedAt(x)) /\ View(k, SeedAt(x).reactive) = View(heap, SeedAt(x).reactive)
           /\ Full(heap, SeedAt(x)) => Full(k, SeedAt(x))
<1> DEFINE d == SeedAt(x)  S == ArraysOf(SeedAt(s))
<1>1. IsHeap(heap) /\ Seated(heap, d) /\ \A a \in S : a \in ArraysOf(d) => a = 1
  BY DEF LiveInv, Good, Apart
<1> HIDE DEF d, S
<1>2. Untouched(heap, k, S)
  BY DEF S
<1>3. Seated(k, d) /\ View(k, d.reactive) = View(heap, d.reactive) /\ (Full(heap, d) => Full(k, d))
  BY <1>1, <1>2, SeatedStill
<1> QED BY <1>3 DEF d

(* Nothing in a seed changes but that it has sprouted. *)
Like(d, e) == e = d \/ e = [d EXCEPT !.used = TRUE]

(* A seed like another, as seeds that only go on being used are, has its
   slices, its identifiers and its code. *)
LEMMA LikeFields ==
    ASSUME NEW d, SeedShape(d), NEW e, Like(d, e)
    PROVE  /\ SeedShape(e) /\ e.list = d.list /\ e.reactive = d.reactive /\ e.current = d.current
           /\ e.code = d.code /\ e.trace = d.trace /\ e.spanSet = d.spanSet /\ e.traceSet = d.traceSet
           /\ e.used = d.used \/ e.used = TRUE
<1>1. CASE e = d
  BY <1>1
<1>2. CASE e = [d EXCEPT !.used = TRUE]
  BY <1>2 DEF SeedShape
<1> QED BY <1>1, <1>2 DEF Like

(* A seed like a good one is good, on a later heap on which its slices are
   still in place. *)
LEMMA LikeGood ==
    ASSUME NEW h, NEW k, NEW f \in Nat, NEW g \in Nat, g >= f,
           NEW d, NEW e, Like(d, e), Good(h, f, d), Seated(k, d),
           e.used \/ Full(k, d)
    PROVE  Good(k, g, e) /\ ArraysOf(e) = ArraysOf(d)
<1>1. /\ e.list = d.list /\ e.reactive = d.reactive /\ e.current = d.current /\ SeedShape(e)
      /\ e.code = d.code /\ e.trace = d.trace /\ e.spanSet = d.spanSet /\ e.traceSet = d.traceSet
      /\ e.used = d.used \/ e.used = TRUE
  <2>1. SeedShape(d)
    BY DEF Good, Seated
  <2> QED BY <2>1, LikeFields
<1>2. Seated(k, e)
  BY <1>1 DEF Seated, SeedSlices
<1>3. e.used \in BOOLEAN /\ (~e.used => Full(k, e))
  BY <1>1 DEF Good, Full
<1>4. d.trace.trace \in Int /\ d.trace.span \in Int
  BY DEF Good, Seated, SeedShape
<1>5. Ids(g, e)
  BY <1>1, <1>4 DEF Good, Ids, Settled
<1>6. Good(k, g, e)
  BY <1>1, <1>2, <1>3, <1>5 DEF Good
<1> QED BY <1>1, <1>6 DEF ArraysOf

(* A step makes the seed d, of that of s; it may write to what s views, and
   give s and d the same identifier when s is marked. *)
Births(s, z, d) ==
    /\ IsHeap(heap') /\ fresh' \in Nat /\ fresh' >= fresh
    /\ Untouched(heap, heap', ArraysOf(SeedAt(s)))
    /\ Seated(heap', SeedAt(s))
    /\ SeedAt(s)'.used \/ Full(heap', SeedAt(s))
    /\ Good(heap', fresh', d)
    /\ z[1] # "seed" => OfSpan(d)
    /\ \A a \in ArraysOf(d) : a > Len(heap)
    /\ d.trace.span \in 1..fresh =>
          d.trace.span = SeedAt(s).trace.span /\ z[1] # "seed" /\ Reused(s)' /\ (Reused(s) => Reused(z)')

(* The other seeds stay. *)
Others(z) ==
    /\ \A x \in Live' : x # z =>
          /\ x \in Live /\ Like(SeedAt(x), SeedAt(x)') /\ (Reused(x) => Reused(x)')
          /\ x[1] # "seed" => SeedAt(x)' = SeedAt(x)
    /\ First \in Live' /\ z # First

(* A seed made of a live one, by Copy(), SubSeed(), Request() or for a new
   logger, may take its place beside the others: LiveInv goes on. *)
LEMMA LiveGrows ==
    ASSUME LiveInv, NEW s \in Live, NEW z, NEW d, Births(s, z, d), Others(z),
           z \in Live' => SeedAt(z)' = d
    PROVE  LiveInv'
<1>1. IsHeap(heap) /\ Len(heap) \in Nat /\ IsHeap(heap') /\ fresh \in Nat /\ fresh' \in Nat /\ fresh' >= fresh
  BY HeapArray DEF LiveInv, Births
<1>2. ASSUME NEW x \in Live', x # z
      PROVE  /\ Good(heap', fresh', SeedAt(x)') /\ ArraysOf(SeedAt(x)') = ArraysOf(SeedAt(x))
             /\ SeedAt(x)'.trace = SeedAt(x).trace
             /\ x[1] # "seed" => OfSpan(SeedAt(x)')
             /\ x \in Live /\ (Reused(x) => Reused(x)')
  <2>1. /\ x \in Live /\ Like(SeedAt(x), SeedAt(x)') /\ (Reused(x) => Reused(x)')
        /\ x[1] # "seed" => SeedAt(x)' = SeedAt(x)
    BY <1>2 DEF Others
  <2>2. Good(heap, fresh, SeedAt(x)) /\ (x[1] # "seed" => OfSpan(SeedAt(x)))
    BY <2>1 DEF LiveInv
  <2>3. /\ SeedAt(x)'.trace = SeedAt(x).trace
        /\ SeedAt(x)'.used = SeedAt(x).used \/ SeedAt(x)'.used = TRUE
    <3>1. SeedShape(SeedAt(x))
      BY <2>2 DEF Good, Seated
    <3> QED BY <2>1, <3>1, LikeFields
  <2>4. Seated(heap', SeedAt(x)) /\ (SeedAt(x)'.used \/ Full(heap', SeedAt(x)))
    <3>1. CASE x = s
      BY <3>1 DEF Births
    <3>2. CASE x # s
      <4>1. Seated(heap', SeedAt(x)) /\ (Full(heap, SeedAt(x)) => Full(heap', SeedAt(x)))
        BY <1>1, <2>1, <3>2, OthersSeated DEF Births
      <4> QED BY <2>2, <2>3, <4>1 DEF Good
    <3> QED BY <3>1, <3>2
  <2> QED BY <1>1, <2>1, <2>2, <2>3, <2>4, LikeGood, SMTT(60)
<1>3. ASSUME z \in Live', NEW x \in Live', x # z
      PROVE  Apart(SeedAt(z)', SeedAt(x)') /\ Apart(SeedAt(x)', SeedAt(z)')
  <2>1. \A a \in ArraysOf(d) : a > Len(heap)
    BY DEF Births
  <2>2. \A a \in ArraysOf(SeedAt(x)) : a \in 1..Len(heap)
    <3>1. SeedSlices(heap, SeedAt(x))
      BY <1>2, <1>3 DEF LiveInv, Good, Seated
    <3> QED BY <3>1 DEF ArraysOf, SeedSlices, IsSlice
  <2>3. ArraysOf(SeedAt(x)') = ArraysOf(SeedAt(x))
    BY <1>2, <1>3
  <2>4. SeedAt(z)' = d
    BY <1>3
  <2> QED BY <1>1, <2>1, <2>2, <2>3, <2>4 DEF Apart
<1>4. ASSUME NEW x \in Live', NEW y \in Live', x # z, y # z, x # y
      PROVE  Apart(SeedAt(x)', SeedAt(y)')
  <2>1. Apart(SeedAt(x), SeedAt(y))
    BY <1>2, <1>4 DEF LiveInv
  <2> QED BY <1>2, <1>4, <2>1 DEF Apart
<1>5. \A x, y \in Live' : x # y => Apart(SeedAt(x)', SeedAt(y)')
  BY <1>3, <1>4
<1>6. ASSUME NEW x \in Live', NEW y \in Live', x # z, y # z, x # y, Alike(x, y)'
      PROVE  ~(x[1] = "seed" /\ y[1] = "seed") /\ (Reused(x)' \/ Reused(y)')
  <2>1. Alike(x, y)
    BY <1>2, <1>6 DEF Alike
  <2>2. x \in Live /\ y \in Live /\ (Reused(x) => Reused(x)') /\ (Reused(y) => Reused(y)')
    BY <1>2, <1>6
  <2>3. ~(x[1] = "seed" /\ y[1] = "seed") /\ (Reused(x) \/ Reused(y))
    BY <1>6, <2>1, <2>2 DEF LiveInv
  <2> QED BY <2>2, <2>3
<1>7. ASSUME z \in Live', NEW y \in Live', y # z, d.trace.span = SeedAt(y)'.trace.span, d.trace.span > 0
      PROVE  ~(z[1] = "seed" /\ y[1] = "seed") /\ (Reused(z)' \/ Reused(y)')
  <2>1. /\ y \in Live /\ SeedAt(y)'.trace = SeedAt(y).trace /\ (Reused(y) => Reused(y)')
    BY <1>2, <1>7
  <2>2. SeedAt(y).trace.span <= fresh
    BY <2>1 DEF LiveInv, Good, Ids, Settled
  <2>3. d.trace.span \in Int
    BY DEF Births, Good, Seated, SeedShape
  <2>4. d.trace.span \in 1..fresh
    BY <1>1, <1>7, <2>1, <2>2, <2>3
  <2>5. d.trace.span = SeedAt(s).trace.span /\ z[1] # "seed" /\ Reused(s)' /\ (Reused(s) => Reused(z)')
    BY <2>4 DEF Births
  <2>6. CASE y = s
    BY <2>5, <2>6
  <2>7. CASE y # s
    <3>1. Alike(s, y)
      BY <1>7, <2>1, <2>5 DEF Alike
    <3>2. Reused(s) \/ Reused(y)
      BY <2>1, <2>7, <3>1 DEF LiveInv
    <3> QED BY <2>1, <2>5, <3>2
  <2> QED BY <2>6, <2>7
<1>8. \A x, y \in Live' : x # y /\ Alike(x, y)' =>
         ~(x[1] = "seed" /\ y[1] = "seed") /\ (Reused(x)' \/ Reused(y)')
  <2> SUFFICES ASSUME NEW x \in Live', NEW y \in Live', x # y, Alike(x, y)'
               PROVE  ~(x[1] = "seed" /\ y[1] = "seed") /\ (Reused(x)' \/ Reused(y)')
    OBVIOUS
  <2>1. SeedAt(x)'.trace.span = SeedAt(y)'.trace.span /\ SeedAt(x)'.trace.span > 0
    BY DEF Alike
  <2>2. CASE x = z
    BY <1>7, <2>1, <2>2
  <2>3. CASE y = z
    BY <1>7, <2>1, <2>3
  <2> QED BY <1>6, <2>2, <2>3
<1>9. First \in Live' /\ SeedAt(First)'.trace.span <= 0
  BY <1>2 DEF Others, LiveInv
<1>10. \A x \in Live' : Good(heap', fresh', SeedAt(x)') /\ (x[1] # "seed" => OfSpan(SeedAt(x)'))
  BY <1>2 DEF Births
<1> QED BY <1>1, <1>5, <1>8, <1>9, <1>10 DEF LiveInv

(* A span under another key, or as it was. *)
LEMMA LiveMoves ==
    ASSUME LiveInv, UNCHANGED <<heap, fresh>>, NEW was,
           \A x \in Live' : /\ was[x] \in Live /\ SeedAt(x)' = SeedAt(was[x])
                            /\ Reused(was[x]) => Reused(x)'
                            /\ x[1] = "seed" <=> was[x][1] = "seed",
           \A x, y \in Live' : was[x] = was[y] => x = y,
           First \in Live', was[First] = First
    PROVE  LiveInv'
<1>1. \A x \in Live' : Good(heap, fresh, SeedAt(x)') /\ (x[1] # "seed" => OfSpan(SeedAt(x)'))
  BY DEF LiveInv
<1>2. \A x, y \in Live' : x # y => Apart(SeedAt(x)', SeedAt(y)')
  BY DEF LiveInv
<1>3. ASSUME NEW x \in Live', NEW y \in Live', x # y, Alike(x, y)'
      PROVE  ~(x[1] = "seed" /\ y[1] = "seed") /\ (Reused(x)' \/ Reused(y)')
  <2>1. was[x] \in Live /\ was[y] \in Live /\ was[x] # was[y] /\ Alike(was[x], was[y])
    BY <1>3 DEF Alike
  <2>2. ~(was[x][1] = "seed" /\ was[y][1] = "seed") /\ (Reused(was[x]) \/ Reused(was[y]))
    BY <2>1 DEF LiveInv
  <2> QED BY <2>2
<1>4. SeedAt(First)' = SeedAt(First)
  OBVIOUS
<1> QED BY <1>1, <1>2, <1>3, <1>4 DEF LiveInv

(* What a span keeps while it is added to and counted. *)
SameSpan(s, t) ==
    /\ t.tree = s.tree /\ t.parent = s.parent /\ t.seed = s.seed
    /\ t.mods = s.mods /\ t.called = s.called /\ t.origin = s.origin

(* What a step leaves alone: of the spans and seeds all but that of z, but for
   the mark that a seed has sprouted. *)
Rest(z) ==
    /\ First \in Live' /\ z # First
    /\ \A x \in Live' : x # z =>
          /\ x \in Live
          /\ x[1] = "seed" => Like(seeds[x[2]], seeds'[x[2]])
          /\ x[1] # "seed" => SameSpan(SpanAt(x), SpanAt(x)')

(* All others that are live then were live before. *)
LEMMA RestOthers ==
    ASSUME LiveInv, NEW z, Rest(z)
    PROVE  Others(z)
<1> SUFFICES ASSUME NEW x \in Live', x # z
             PROVE  /\ x \in Live /\ Like(SeedAt(x), SeedAt(x)') /\ (Reused(x) => Reused(x)')
                    /\ x[1] # "seed" => SeedAt(x)' = SeedAt(x)
  BY DEF Others, Rest
<1>1. CASE x[1] = "seed"
  <2>1. x \in Live /\ Like(seeds[x[2]], seeds'[x[2]])
    BY <1>1 DEF Rest
  <2>2. SeedAt(x) = seeds[x[2]] /\ SeedAt(x)' = seeds'[x[2]]
    BY <1>1 DEF SeedAt
  <2>3. SeedShape(SeedAt(x))
    BY <2>1 DEF LiveInv, Good, Seated
  <2>4. Like(SeedAt(x), SeedAt(x)')
    BY <2>1, <2>2
  <2>5. SeedAt(x)'.used = SeedAt(x).used \/ SeedAt(x)'.used = TRUE
    BY <2>3, <2>4, LikeFields
  <2>6. Reused(x) = SeedAt(x).used /\ Reused(x)' = SeedAt(x)'.used
    BY <1>1, <2>2 DEF Reused
  <2> QED BY <1>1, <2>1, <2>4, <2>5, <2>6
<1>2. CASE x[1] # "seed"
  <2>1. x \in Live /\ SameSpan(SpanAt(x), SpanAt(x)')
    BY <1>2 DEF Rest
  <2>2. SeedAt(x)' = SeedAt(x) /\ Reused(x)' = Reused(x)
    BY <1>2, <2>1 DEF SeedAt, Reused, SameSpan
  <2> QED BY <1>2, <2>1, <2>2 DEF Like
<1> QED BY <1>1, <1>2

(* A span is the same as itself. *)
LEMMA SameSpanSelf == \A s : SameSpan(s, s)
BY DEF SameSpan

(* The seed that Copy() or SubSeed() returns. *)
LEMMA HoldsOne ==
    ASSUME LiveInv, IsSequence(seeds), NEW d, seeds' = Append(seeds, d), UNCHANGED <<spans, pending>>,
           NEW z, z = <<"seed", Len(seeds) + 1>>
    PROVE  /\ Rest(z) /\ z \in Live' /\ SeedAt(z)' = d /\ IsSequence(seeds')
           /\ \A x \in Live : x \in Live'
<1> DEFINE n == Len(seeds) + 1
<1>1. /\ IsSequence(seeds') /\ DOMAIN seeds' = DOMAIN seeds \cup {n} /\ seeds'[n] = d
      /\ \A i \in DOMAIN seeds : seeds'[i] = seeds[i]
  BY SequenceGrows
<1>2. n \notin DOMAIN seeds
  BY DEF IsSequence
<1>3. 1 \in DOMAIN seeds
  BY DEF LiveInv, Live, First
<1> HIDE DEF n
<1>4. z = <<"seed", n>>
  BY DEF n
<1>5. z # First /\ First \in Live' /\ z \in Live' /\ SeedAt(z)' = d
  BY <1>1, <1>2, <1>3, <1>4 DEF First, Live, SeedAt
<1>6. ASSUME NEW x \in Live', x # z
      PROVE  /\ x \in Live
             /\ x[1] = "seed" => Like(seeds[x[2]], seeds'[x[2]])
             /\ x[1] # "seed" => SameSpan(SpanAt(x), SpanAt(x)')
  <2>1. CASE x \in {"seed"} \X DOMAIN seeds'
    <3>1. x[1] = "seed" /\ x[2] \in DOMAIN seeds
      BY <1>1, <1>4, <1>6, <2>1
    <3> QED BY <1>1, <2>1, <3>1 DEF Live, Like
  <2>2. CASE x \in ({"span"} \X DOMAIN spans) \cup ({"pending"} \X {g \in Goroutines : pending[g] # None})
    <3>1. x[1] # "seed" /\ x \in Live /\ SpanAt(x)' = SpanAt(x)
      BY <2>2 DEF Live, SpanAt
    <3> QED BY <3>1, SameSpanSelf
  <2> QED BY <2>1, <2>2 DEF Live
<1>7. \A x \in Live : x \in Live'
  BY <1>1 DEF Live
<1> QED BY <1>1, <1>5, <1>6, <1>7 DEF Rest

(* The spans, some of which have been counted. *)
Counted(before) ==
    /\ IsSequence(before) /\ DOMAIN before = DOMAIN spans /\ Len(before) = Len(spans)
    /\ \A i \in DOMAIN spans : SameSpan(spans[i], before[i])

Marked ==
    /\ IsSequence(seeds') /\ DOMAIN seeds' = DOMAIN seeds
    /\ \A i \in DOMAIN seeds : Like(seeds[i], seeds'[i])

(* A span that is listed. *)
LEMMA ListsOne ==
    ASSUME LiveInv, IsSequence(spans), NEW before, Counted(before), NEW s, spans' = Append(before, s), Marked,
           UNCHANGED pending, NEW z, z = <<"span", Len(spans) + 1>>
    PROVE  /\ Rest(z) /\ z \in Live' /\ SpanAt(z)' = s /\ SeedAt(z)' = s.seed /\ z[1] = "span"
           /\ IsSequence(spans') /\ DOMAIN spans' = DOMAIN spans \cup {Len(spans) + 1}
           /\ \A x \in Live : x \in Live'
           /\ \A i \in DOMAIN spans : spans'[i] = before[i]
<1> DEFINE n == Len(spans) + 1
<1>1. /\ IsSequence(spans') /\ DOMAIN spans' = DOMAIN spans \cup {n} /\ spans'[n] = s
      /\ \A i \in DOMAIN spans : spans'[i] = before[i]
  <2>1. IsSequence(before) /\ DOMAIN before = DOMAIN spans /\ Len(before) = Len(spans)
    BY DEF Counted
  <2>2. /\ IsSequence(Append(before, s)) /\ DOMAIN Append(before, s) = DOMAIN before \cup {Len(before) + 1}
        /\ Append(before, s)[Len(before) + 1] = s
        /\ \A i \in DOMAIN before : Append(before, s)[i] = before[i]
    BY <2>1, SequenceGrows
  <2> QED BY <2>1, <2>2
<1>2. n \notin DOMAIN spans
  BY DEF IsSequence
<1>3. 1 \in DOMAIN seeds
  BY DEF LiveInv, Live, First
<1> HIDE DEF n
<1>4. z = <<"span", n>>
  BY DEF n
<1>5. z # First /\ First \in Live' /\ z \in Live' /\ SpanAt(z)' = s /\ SeedAt(z)' = s.seed /\ z[1] = "span"
  BY <1>1, <1>3, <1>4 DEF First, Live, SeedAt, SpanAt, Marked
<1>6. ASSUME NEW x \in Live', x # z
      PROVE  /\ x \in Live
             /\ x[1] = "seed" => Like(seeds[x[2]], seeds'[x[2]])
             /\ x[1] # "seed" => SameSpan(SpanAt(x), SpanAt(x)')
  <2>1. CASE x \in {"seed"} \X DOMAIN seeds'
    BY <2>1 DEF Live, Marked
  <2>2. CASE x \in {"span"} \X DOMAIN spans'
    <3>1. x[1] = "span" /\ x[2] \in DOMAIN spans
      BY <1>1, <1>4, <1>6, <2>2
    <3>2. SpanAt(x) = spans[x[2]] /\ SpanAt(x)' = before[x[2]]
      BY <1>1, <3>1 DEF SpanAt
    <3> QED BY <2>2, <3>1, <3>2 DEF Live, Counted
  <2>3. CASE x \in {"pending"} \X {g \in Goroutines : pending[g] # None}
    <3>1. x[1] = "pending" /\ x \in Live /\ SpanAt(x)' = SpanAt(x)
      BY <2>3 DEF Live, SpanAt
    <3> QED BY <3>1, SameSpanSelf
  <2> QED BY <2>1, <2>2, <2>3 DEF Live
<1>7. \A x \in Live : x \in Live'
  BY <1>1 DEF Live, Marked
<1>8. Rest(z)
  BY <1>5, <1>6 DEF Rest
<1> QED BY <1>1, <1>5, <1>7, <1>8 DEF n

(* A span that newChildLog() has not listed yet. *)
LEMMA PendsOne ==
    ASSUME LiveInv, DOMAIN pending = Goroutines, NEW g \in Goroutines, pending[g] = None, Counted(spans'),
           NEW p, p # None, pending' = [pending EXCEPT ![g] = p], UNCHANGED seeds,
           NEW z, z = <<"pending", g>>
    PROVE  /\ Rest(z) /\ z \in Live' /\ SpanAt(z)' = p.span /\ SeedAt(z)' = p.span.seed /\ z[1] = "pending"
           /\ \A x \in Live : x \in Live'
<1>1. pending'[g] = p /\ \A h \in Goroutines : h # g => pending'[h] = pending[h]
  OBVIOUS
<1>2. First \in Live
  BY DEF LiveInv
<1>3. z # First /\ First \in Live' /\ z \in Live' /\ SpanAt(z)' = p.span /\ SeedAt(z)' = p.span.seed /\ z[1] = "pending"
  BY <1>1, <1>2 DEF First, Live, SeedAt, SpanAt
<1>4. ASSUME NEW x \in Live', x # z
      PROVE  /\ x \in Live
             /\ x[1] = "seed" => Like(seeds[x[2]], seeds'[x[2]])
             /\ x[1] # "seed" => SameSpan(SpanAt(x), SpanAt(x)')
  <2>1. CASE x \in {"seed"} \X DOMAIN seeds'
    BY <2>1 DEF Live, Like
  <2>2. CASE x \in {"span"} \X DOMAIN spans'
    BY <2>2 DEF Live, SpanAt, Counted
  <2>3. CASE x \in {"pending"} \X {h \in Goroutines : pending'[h] # None}
    <3>1. x[1] = "pending" /\ x[2] \in Goroutines /\ x[2] # g /\ pending'[x[2]] # None
      BY <1>4, <2>3
    <3>2. x \in Live /\ SpanAt(x)' = SpanAt(x)
      BY <1>1, <2>3, <3>1 DEF Live, SpanAt
    <3> QED BY <3>1, <3>2, SameSpanSelf
  <2> QED BY <2>1, <2>2, <2>3 DEF Live
<1>5. \A x \in Live : x \in Live'
  BY <1>1 DEF Live, Counted
<1>6. Rest(z)
  BY <1>3, <1>4 DEF Rest
<1> QED BY <1>3, <1>5, <1>6

-----------------------------------------------------------------------------
(* What react() makes of a seed: a span has both identifiers, of which that of
   the span is the one that the seed had, or new, or from the program. *)
LEMMA SproutGives ==
    ASSUME NEW w, IsWorld(w), w.seed.current = 0, w.called = <<>>, w.fresh \in Nat, Settled(w.fresh, w.seed),
           NEW isRequest \in BOOLEAN, isRequest \/ w.seed.trace.trace # Zero, NEW v, v = React(w, isRequest)
    PROVE  /\ Sprouts(w, v, Start(w, isRequest)) /\ Full(v.heap, v.seed)
           /\ v.fresh \in Nat /\ v.fresh >= w.fresh /\ Ids(v.fresh, v.seed)
           /\ v.seed.trace.trace # Zero
           /\ v.seed.trace.span = w.seed.trace.span \/ v.seed.trace.span \notin 1..w.fresh
<1> DEFINE s == Start(w, isRequest)
<1>1. Sprouts(w, v, s) /\ NoEmptySlot(v)
  BY ReactGives
<1>2. Drawn(w, s) /\ (isRequest /\ ~w.seed.traceSet => s.seed.trace.trace # Zero /\ s.seed.trace.span # Zero)
      /\ (~(isRequest /\ ~w.seed.traceSet) => s = w)
  BY StartGives DEF Start
<1> HIDE DEF s
<1>3. /\ w.seed.trace.trace \in Int /\ w.seed.trace.span \in Int
      /\ w.seed.trace.trace <= w.fresh /\ w.seed.trace.span <= w.fresh
  BY DEF IsWorld, SeedShape, Ids, Settled
<1>4. s.fresh \in Nat /\ s.fresh >= w.fresh
  BY <1>2 DEF Drawn
<1>5. /\ s.seed.trace.trace \in Int /\ s.seed.trace.trace <= s.fresh
      /\ s.seed.trace.span \in Int /\ s.seed.trace.span <= s.fresh
      /\ s.seed.trace.span = w.seed.trace.span \/ s.seed.trace.span \notin 1..w.fresh
  BY <1>2, <1>3, <1>4 DEF Drawn
<1>6. s.seed.trace.trace # Zero /\ s.seed.trace.span # Zero
  BY <1>2 DEF Ids, Settled
<1>7. v.fresh = s.fresh /\ v.seed.traceSet = FALSE /\ v.seed.spanSet = FALSE
  BY <1>1 DEF Sprouts
<1>8. \A id : FromProgram(id) => id # Zero /\ id <= s.fresh /\ id \notin 1..w.fresh
  BY <1>4 DEF FromProgram, Zero
<1>9. /\ v.seed.trace.trace # Zero /\ v.seed.trace.trace <= v.fresh
      /\ v.seed.trace.span # Zero /\ v.seed.trace.span <= v.fresh
      /\ v.seed.trace.span = w.seed.trace.span \/ v.seed.trace.span \notin 1..w.fresh
  <2>1. /\ v.seed.trace.trace = s.seed.trace.trace \/ FromProgram(v.seed.trace.trace)
        /\ v.seed.trace.span = s.seed.trace.span \/ FromProgram(v.seed.trace.span)
    BY <1>1 DEF Sprouts
  <2> QED BY <1>5, <1>6, <1>7, <1>8, <2>1
<1>10. Ids(v.fresh, v.seed)
  BY <1>7, <1>9 DEF Ids, Settled
<1>11. Full(v.heap, v.seed)
  BY <1>1 DEF NoEmptySlot, Slot, Full
<1> QED BY <1>1, <1>4, <1>7, <1>9, <1>10, <1>11 DEF s

(* What Copy() and SubSeed() make of a seed. *)
LEMMA SprungGives ==
    ASSUME IsHeap(heap), fresh \in Nat, NEW d, Good(heap, fresh, d),
           NEW v, NEW parent, NEW mods, Sprung(Of(d), v, parent, mods)
    PROVE  /\ IsWorld(v) /\ v.seed.current = 0 /\ v.called = <<>>
           /\ v.fresh \in Nat /\ v.fresh >= fresh
           /\ Untouched(heap, v.heap, {}) /\ \A a \in ArraysOf(v.seed) : a > Len(heap)
           /\ Good(v.heap, v.fresh, v.seed)
           /\ v.seed.trace.span # Zero /\ v.seed.trace.span \notin 1..fresh
           /\ v.seed.code = d.code /\ v.seed.used = d.used
<1> PICK w : w = Of(d)
  OBVIOUS
<1>1. /\ IsWorld(w) /\ w.heap = heap /\ w.fresh = fresh /\ w.seed = d
      /\ w.called = <<>> /\ w.seed.current = 0
  BY OfWorld DEF Good
<1>2. /\ Spawned(w, v) /\ FirstCallbacks(w, v)
      /\ v.called = <<>> /\ v.seed.code = d.code /\ v.seed.used = d.used /\ v.seed.current = 0
      /\ v.fresh = IF d.spanSet THEN fresh ELSE fresh + 1
      /\ v.seed.trace.trace = d.trace.trace \/ FromProgram(v.seed.trace.trace)
      /\ v.seed.trace.span = SpanOfCopy(w) \/ FromProgram(v.seed.trace.span)
      /\ v.seed.spanSet => d.spanSet \/ FromProgram(v.seed.trace.span)
      /\ v.seed.traceSet => d.traceSet \/ FromProgram(v.seed.trace.trace)
  BY <1>1 DEF Sprung
<1>3. SpanOfCopy(w) = IF d.spanSet THEN d.trace.span ELSE fresh + 1
  BY <1>1 DEF SpanOfCopy
<1>4. /\ d.trace.trace \in Int /\ d.trace.span \in Int /\ d.trace.trace <= fresh
      /\ d.spanSet => FromProgram(d.trace.span)
      /\ d.traceSet => d.trace.trace # Zero
  BY DEF Good, Seated, SeedShape, Ids, Settled
<1>5. v.fresh \in Nat /\ v.fresh >= fresh /\ (d.spanSet \/ v.fresh = fresh + 1)
  BY <1>2
<1>6. \A id : FromProgram(id) => id # Zero /\ id <= v.fresh /\ id \notin 1..fresh
  BY <1>5 DEF FromProgram, Zero
<1>7. v.seed.trace.span # Zero /\ v.seed.trace.span <= v.fresh /\ v.seed.trace.span \notin 1..fresh
  BY <1>2, <1>3, <1>4, <1>5, <1>6 DEF Zero
<1>8. v.seed.trace.trace <= v.fresh
  BY <1>2, <1>4, <1>5, <1>6
<1>9. Ids(v.fresh, v.seed)
  BY <1>2, <1>3, <1>4, <1>6, <1>7, <1>8 DEF Ids, Settled
<1>10. IsWorld(v) /\ Untouched(heap, v.heap, {}) /\ \A a \in ArraysOf(v.seed) : a > Len(heap)
  BY <1>1, <1>2 DEF Spawned, ArraysOf
<1>11. ~d.used => Full(v.heap, v.seed)
  <2> SUFFICES ASSUME ~d.used, NEW j \in 1..v.seed.reactive.len
               PROVE  v.heap[v.seed.reactive.array][j] # Nil
    BY DEF Full
  <2>1. d.reactive.len \in Nat /\ v.seed.reactive.len \in Nat
    BY <1>1, <1>10, WorldSlices
  <2>2. \A i \in 1..d.reactive.len : heap[d.reactive.array][i] # Nil
    BY DEF Good, Full
  <2>3. /\ \A i \in 1..d.reactive.len : v.heap[v.seed.reactive.array][i] = heap[d.reactive.array][i]
        /\ \A i \in (d.reactive.len + 1)..v.seed.reactive.len :
              v.heap[v.seed.reactive.array][i] \in DOMAIN Callbacks
    BY <1>1, <1>2 DEF FirstCallbacks
  <2>4. j \in 1..d.reactive.len \/ j \in (d.reactive.len + 1)..v.seed.reactive.len
    BY <2>1
  <2> QED BY <2>2, <2>3, <2>4, CallbacksAssumption
<1>12. Good(v.heap, v.fresh, v.seed)
  BY <1>2, <1>9, <1>10, <1>11 DEF Good, Seated, IsWorld
<1> QED BY <1>2, <1>5, <1>7, <1>10, <1>12

(* A new seed, and all that was there as it was. *)
QuietBirth(d, k, f) ==
    /\ IsHeap(k) /\ f \in Nat /\ f >= fresh
    /\ Untouched(heap, k, {})
    /\ Good(k, f, d)
    /\ \A a \in ArraysOf(d) : a > Len(heap)
    /\ d.trace.span \notin 1..fresh

(* A seed that is made of arrays of its own only, as by Copy(), takes its
   place beside the others. *)
LEMMA QuietlyBorn ==
    ASSUME LiveInv, NEW z, NEW d, QuietBirth(d, heap', fresh'), z[1] # "seed" => OfSpan(d),
           Others(z), z \in Live' => SeedAt(z)' = d
    PROVE  LiveInv'
<1> DEFINE e == SeedAt(First)
<1>1. First \in Live /\ IsHeap(heap) /\ Good(heap, fresh, e)
  BY DEF LiveInv
<1>2. First \in Live' /\ First # z /\ Like(e, SeedAt(First)')
  BY DEF Others
<1> HIDE DEF e
<1>3. Seated(heap', e) /\ (Full(heap, e) => Full(heap', e))
  BY <1>1, SeatedStill DEF QuietBirth, Good
<1>4. SeedAt(First)'.used \/ Full(heap', e)
  <2>1. SeedShape(e)
    BY <1>1 DEF Good, Seated
  <2>2. SeedAt(First)'.used = e.used \/ SeedAt(First)'.used = TRUE
    BY <1>2, <2>1, LikeFields
  <2> QED BY <1>1, <1>3, <2>2 DEF Good
<1>5. Untouched(heap, heap', ArraysOf(e))
  BY DEF QuietBirth, Untouched
<1>6. Births(First, z, d)
  BY <1>3, <1>4, <1>5 DEF QuietBirth, Births, e
<1> QED BY <1>1, <1>6, LiveGrows

(* And nobody's callbacks change. *)
LEMMA QuietViews ==
    ASSUME LiveInv, NEW d, NEW k, NEW f, QuietBirth(d, k, f), NEW x \in Live
    PROVE  View(k, SeedAt(x).reactive) = View(heap, SeedAt(x).reactive)
<1> PICK e : e = SeedAt(x)
  OBVIOUS
<1>1. IsHeap(heap) /\ Seated(heap, e)
  BY DEF LiveInv, Good
<1>2. View(k, e.reactive) = View(heap, e.reactive)
  BY <1>1, SeatedStill DEF QuietBirth
<1> QED BY <1>2

(* The seed that a copy of a live one and its modifiers give is such a
   seed: spanSeed.copy() clips both slices, so that appends to it write to
   new arrays. *)
LEMMA SprungQuietly ==
    ASSUME LiveInv, NEW s \in Live, NEW v, NEW parent, NEW mods, Sprung(Of(SeedAt(s)), v, parent, mods)
    PROVE  QuietBirth(v.seed, v.heap, v.fresh)
<1> PICK e : e = SeedAt(s)
  OBVIOUS
<1>1. IsHeap(heap) /\ fresh \in Nat /\ Good(heap, fresh, e) /\ Sprung(Of(e), v, parent, mods)
  BY DEF LiveInv
<1>2. /\ IsWorld(v) /\ v.fresh \in Nat /\ v.fresh >= fresh
      /\ Untouched(heap, v.heap, {}) /\ \A a \in ArraysOf(v.seed) : a > Len(heap)
      /\ Good(v.heap, v.fresh, v.seed) /\ v.seed.trace.span \notin 1..fresh
  BY <1>1, SprungGives
<1> QED BY <1>2 DEF QuietBirth, IsWorld

(* A seed that the program gets from Copy() or SubSeed(). *)
LEMMA HeldLive ==
    ASSUME LiveInv, IsSequence(seeds), NEW s \in Live, NEW v, NEW parent, NEW mods,
           Sprung(Of(SeedAt(s)), v, parent, mods), Take(v), seeds' = Append(seeds, v.seed),
           UNCHANGED <<spans, pending>>
    PROVE  LiveInv' /\ IsSequence(seeds')
<1> PICK z : z = <<"seed", Len(seeds) + 1>>
  OBVIOUS
<1>1. Rest(z) /\ z \in Live' /\ SeedAt(z)' = v.seed /\ IsSequence(seeds')
  BY HoldsOne
<1>2. Others(z)
  BY <1>1, RestOthers
<1>3. QuietBirth(v.seed, heap', fresh')
  BY SprungQuietly DEF Take
<1>4. z[1] = "seed"
  OBVIOUS
<1> QED BY <1>1, <1>2, <1>3, <1>4, QuietlyBorn

(* react() for a seed whose arrays are all its own. *)
LEMMA SproutQuietly ==
    ASSUME IsHeap(heap), fresh \in Nat, NEW b, IsWorld(b), b.seed.current = 0, b.called = <<>>,
           b.fresh \in Nat, b.fresh >= fresh, Settled(b.fresh, b.seed),
           Untouched(heap, b.heap, {}), \A a \in ArraysOf(b.seed) : a > Len(heap),
           b.seed.code \in Seq(Nat), b.seed.used \in BOOLEAN, b.seed.trace.span \notin 1..fresh,
           NEW isRequest \in BOOLEAN, isRequest \/ b.seed.trace.trace # Zero, NEW v, v = React(b, isRequest)
    PROVE  /\ QuietBirth(v.seed, v.heap, v.fresh) /\ IsWorld(v) /\ v.seed.current = 0
           /\ Full(v.heap, v.seed)
           /\ ~v.seed.spanSet /\ ~v.seed.traceSet /\ v.seed.trace.trace # Zero
           /\ Sprouts(b, v, Start(b, isRequest))
<1>1. /\ Sprouts(b, v, Start(b, isRequest)) /\ Full(v.heap, v.seed)
      /\ v.fresh \in Nat /\ v.fresh >= b.fresh /\ Ids(v.fresh, v.seed)
      /\ v.seed.trace.trace # Zero
      /\ v.seed.trace.span = b.seed.trace.span \/ v.seed.trace.span \notin 1..b.fresh
  BY SproutGives
<1>2. /\ IsWorld(v) /\ v.seed.current = 0 /\ HeapServes(b, v.heap)
      /\ v.seed.list.array \in {b.seed.list.array} \cup ((Len(b.heap) + 1)..Len(v.heap))
      /\ v.seed.reactive.array \in {b.seed.reactive.array} \cup ((Len(b.heap) + 1)..Len(v.heap))
      /\ v.seed.code = b.seed.code /\ v.seed.used = b.seed.used
      /\ v.seed.traceSet = FALSE /\ v.seed.spanSet = FALSE
  BY <1>1 DEF Sprouts
<1>3. Len(heap) \in Nat /\ Len(b.heap) \in Nat /\ Len(v.heap) \in Nat /\ IsHeap(v.heap)
  BY <1>2, HeapArray, WorldSlices DEF IsWorld
<1>4. Untouched(heap, v.heap, {})
  <2> PICK S : S = {b.seed.list.array, b.seed.reactive.array}
    OBVIOUS
  <2>1. Untouched(b.heap, v.heap, S) /\ \A a \in S : a > Len(heap)
    BY <1>2 DEF HeapServes, ArraysOf
  <2> PICK h, g, k : h = heap /\ g = b.heap /\ k = v.heap
    OBVIOUS
  <2>2. Untouched(h, g, {}) /\ Untouched(g, k, S) /\ Len(h) \in Nat /\ Len(g) \in Nat /\ Len(k) \in Nat
        /\ \A a \in S : a > Len(h)
    BY <1>3, <2>1
  <2>3. Untouched(h, k, {})
    BY <2>2, UntouchedTrans
  <2> QED BY <2>3
<1>5. \A a \in ArraysOf(v.seed) : a > Len(heap)
  <2>1. Len(b.heap) >= Len(heap)
    BY DEF Untouched
  <2>2. \A a \in (Len(b.heap) + 1)..Len(v.heap) : a > Len(heap)
    BY <1>3, <2>1
  <2>3. b.seed.list.array > Len(heap) /\ b.seed.reactive.array > Len(heap)
    BY DEF ArraysOf
  <2> QED BY <1>2, <2>2, <2>3 DEF ArraysOf
<1>6. v.seed.trace.span \notin 1..fresh
  <2>1. \A id : id \notin 1..b.fresh => id \notin 1..fresh
    OBVIOUS
  <2> QED BY <1>1, <2>1
<1>7. Good(v.heap, v.fresh, v.seed)
  BY <1>1, <1>2 DEF Good, Seated, IsWorld
<1>8. v.fresh >= fresh
  BY <1>1
<1> QED BY <1>1, <1>2, <1>3, <1>4, <1>5, <1>6, <1>7, <1>8 DEF QuietBirth

(* The seed of a child, when it has been given its code. *)
Coded(b, u, code, settings) == b = [u EXCEPT !.seed.code = @ \o code, !.seed.settings = settings]

Bud(d, b, mods, code) ==
    /\ IsWorld(b) /\ b.seed.current = 0 /\ b.called = <<>>
    /\ b.fresh \in Nat /\ b.fresh >= fresh /\ Settled(b.fresh, b.seed)
    /\ Untouched(heap, b.heap, {}) /\ \A a \in ArraysOf(b.seed) : a > Len(heap)
    /\ b.seed.code = d.code \o code /\ b.seed.code \in Seq(Nat) /\ b.seed.used = FALSE
    /\ b.seed.trace.span \notin 1..fresh /\ b.seed.trace.trace # Zero
    /\ Full(b.heap, b.seed)
    /\ Untraced(mods) => /\ b.seed.trace.trace = d.trace.trace /\ b.seed.trace.span = fresh + 1
                         /\ b.seed.parent = d.trace

(* newChildLog() with modifiers: what the copy, a new span id and the
   modifiers make of the seed of the parent is the seed of a child. *)
LEMMA ChildBud ==
    ASSUME IsHeap(heap), fresh \in Nat, NEW d, Good(heap, fresh, d), OfSpan(d),
           NEW u, NEW mods, Sprung(Of(d), u, d.trace, mods), NEW code \in Seq(Nat), NEW settings,
           NEW b, Coded(b, u, code, settings)
    PROVE  Bud(d, b, mods, code)
<1>a. Of(d).seed = d /\ Of(d).fresh = fresh
  BY DEF Of
<1>1. /\ IsWorld(u) /\ u.seed.current = 0 /\ u.called = <<>> /\ u.fresh \in Nat /\ u.fresh >= fresh
      /\ Untouched(heap, u.heap, {}) /\ \A a \in ArraysOf(u.seed) : a > Len(heap)
      /\ Good(u.heap, u.fresh, u.seed)
      /\ u.seed.trace.span \notin 1..fresh /\ u.seed.code = d.code /\ u.seed.used = d.used
  BY SprungGives
<1>2. DOMAIN u = {"heap", "fresh", "seed", "called"} /\ SeedShape(u.seed)
  BY <1>1 DEF IsWorld
<1>3. /\ DOMAIN b = DOMAIN u /\ b.heap = u.heap /\ b.fresh = u.fresh /\ b.called = u.called
      /\ b.seed = [u.seed EXCEPT !.code = u.seed.code \o code, !.settings = settings]
  BY <1>2 DEF SeedShape, Coded
<1>4. /\ DOMAIN b.seed = DOMAIN u.seed /\ b.seed.code = u.seed.code \o code
      /\ \A f \in DOMAIN u.seed \ {"code", "settings"} : b.seed[f] = u.seed[f]
  BY <1>2, <1>3 DEF SeedShape
<1>5. /\ b.seed.list = u.seed.list /\ b.seed.reactive = u.seed.reactive
      /\ b.seed.current = u.seed.current /\ b.seed.trace = u.seed.trace /\ b.seed.parent = u.seed.parent
      /\ b.seed.spanSet = u.seed.spanSet /\ b.seed.traceSet = u.seed.traceSet
      /\ b.seed.used = u.seed.used
  BY <1>2, <1>4 DEF SeedShape
<1>6. SeedShape(b.seed)
  BY <1>2, <1>4, <1>5 DEF SeedShape
<1>7. IsWorld(b)
  BY <1>1, <1>2, <1>3, <1>5, <1>6, SameSlices
<1>8. Settled(b.fresh, b.seed)
  BY <1>1, <1>3, <1>5 DEF Good, Ids, Settled
<1>9. b.seed.code = d.code \o code /\ b.seed.code \in Seq(Nat)
  <2>1. d.code \in Seq(Nat)
    BY DEF Good
  <2>2. \A a, c \in Seq(Nat) : a \o c \in Seq(Nat)
    BY ConcatProperties
  <2>3. b.seed.code = d.code \o code
    BY <1>1, <1>4, Zenon
  <2> QED BY <2>1, <2>2, <2>3
<1>10. b.seed.used = FALSE /\ Full(b.heap, b.seed)
  BY <1>1, <1>3, <1>5 DEF Good, OfSpan, Full
<1>11. u.seed.trace.trace # Zero
  <2>1. u.seed.trace.trace = d.trace.trace \/ FromProgram(u.seed.trace.trace)
    BY <1>a DEF Sprung
  <2> QED BY <2>1 DEF OfSpan, FromProgram, Zero
<1>12. Untraced(mods) => /\ u.seed.trace.trace = d.trace.trace /\ u.seed.trace.span = fresh + 1
                         /\ u.seed.parent = d.trace
  BY <1>a DEF Sprung, SpanOfCopy, OfSpan
<1>13. \A a \in ArraysOf(b.seed) : a > Len(heap)
  BY <1>1, <1>5 DEF ArraysOf
<1>14. /\ b.seed.current = 0 /\ b.called = <<>> /\ b.fresh \in Nat /\ b.fresh >= fresh
       /\ Untouched(heap, b.heap, {})
       /\ b.seed.trace.span \notin 1..fresh /\ b.seed.trace.trace # Zero
  BY <1>1, <1>3, <1>5, <1>11
<1>15. Untraced(mods) => /\ b.seed.trace.trace = d.trace.trace /\ b.seed.trace.span = fresh + 1
                         /\ b.seed.parent = d.trace
  BY <1>5, <1>12
<1> QED BY <1>7, <1>8, <1>9, <1>10, <1>13, <1>14, <1>15 DEF Bud

(* The callbacks of at most one seed change, and of no span. *)
ViewsKept ==
    /\ \A i, j \in DOMAIN seeds :
          /\ View(heap, seeds[i].reactive) # View(heap', seeds'[i].reactive)
          /\ View(heap, seeds[j].reactive) # View(heap', seeds'[j].reactive)
          => i = j
    /\ \A i \in DOMAIN spans :
          View(heap, spans[i].seed.reactive) = View(heap', spans'[i].seed.reactive)

(* The slices of the callbacks are where they were. *)
SlicesStay ==
    /\ \A i \in DOMAIN seeds : seeds'[i].reactive = seeds[i].reactive
    /\ \A i \in DOMAIN spans : spans'[i].seed = spans[i].seed

(* When the reactive slices of all but one new seed show what they did, all
   that are listed do. *)
LEMMA ViewsOfOthers ==
    ASSUME SlicesStay, NEW n,
           \A x \in Live : x # <<"seed", n>> => View(heap', SeedAt(x).reactive) = View(heap, SeedAt(x).reactive)
    PROVE  ViewsKept
<1>1. ASSUME NEW i \in DOMAIN seeds, i # n
      PROVE  View(heap', seeds'[i].reactive) = View(heap, seeds[i].reactive)
  <2>1. PICK x : x = <<"seed", i>>
    OBVIOUS
  <2>2. x \in Live /\ SeedAt(x) = seeds[i] /\ x # <<"seed", n>>
    BY <1>1, <2>1 DEF Live, SeedAt
  <2>3. View(heap', seeds[i].reactive) = View(heap, seeds[i].reactive)
    BY <2>2
  <2> QED BY <2>3 DEF SlicesStay
<1>2. ASSUME NEW i \in DOMAIN spans
      PROVE  View(heap', spans'[i].seed.reactive) = View(heap, spans[i].seed.reactive)
  <2>1. PICK x : x = <<"span", i>>
    OBVIOUS
  <2>2. x \in Live /\ SeedAt(x) = spans[i].seed /\ x # <<"seed", n>>
    BY <2>1 DEF Live, SeedAt, SpanAt
  <2>3. View(heap', spans[i].seed.reactive) = View(heap, spans[i].seed.reactive)
    BY <2>2
  <2> QED BY <2>3 DEF SlicesStay
<1> QED BY <1>1, <1>2 DEF ViewsKept

(* Making a seed that appends to new arrays only changes nobody's reactive
   callbacks. *)
LEMMA QuietViewsKept ==
    ASSUME LiveInv, NEW d, QuietBirth(d, heap', fresh'), SlicesStay
    PROVE  ViewsKept
<1>1. \A x \in Live : View(heap', SeedAt(x).reactive) = View(heap, SeedAt(x).reactive)
  BY QuietViews
<1>2. PICK n : n = 0
  OBVIOUS
<1>3. \A x \in Live : x # <<"seed", n>> => View(heap', SeedAt(x).reactive) = View(heap, SeedAt(x).reactive)
  BY <1>1
<1> QED BY <1>3, ViewsOfOthers

-----------------------------------------------------------------------------
(***************************************************************************)
(* What a new span says of its parent, and how a span is made of a seed.   *)
(***************************************************************************)

ThoseFold == INSTANCE FoldProofs WITH Step <- ThenThoseOf

(* A span of which neither a modifier nor a callback says otherwise has the
   identifiers that newChildLog() and Seed.request() gave it. *)
LEMMA NotOverriding ==
    ASSUME NEW s, AreMods(s.mods), s.called \in Seq(DOMAIN Callbacks), ~Overrides(s)
    PROVE  Untraced(s.mods) /\ AllUntraced(s.called)
<1> DEFINE X == ToSet(s.mods) \cup UNION {ToSet(Callbacks[f]) : f \in DOMAIN Callbacks}
<1>1. /\ s.mods \in Seq(X) /\ \A f \in DOMAIN Callbacks : Callbacks[f] \in Seq(X)
  <2>1. s.mods \in Seq(ToSet(s.mods)) /\ \A f \in DOMAIN Callbacks : Callbacks[f] \in Seq(ToSet(Callbacks[f]))
    BY CallbacksAssumption DEF AreMods
  <2> QED BY <2>1, SeqWithin
<1> HIDE DEF X
<1> DEFINE c == s.called
<1>2. PICK run : /\ run[0] = s.mods
                 /\ \A k \in 1..Len(c) : run[k] = ThenThoseOf(run[k - 1], c[k])
                 /\ run[Len(c)] = ThoseFold!FoldLeft(ThenThoseOf, s.mods, c)
  BY ThoseFold!FoldRuns
<1>3. ThoseFold!FoldLeft(ThenThoseOf, s.mods, c) = AllMods(s)
  BY Zenon DEF AllMods, FoldLeft, ThoseFold!FoldLeft, MapThenFoldSet, ThoseFold!MapThenFoldSet, Max, ThoseFold!Max
<1>4. Len(c) \in Nat /\ \A k \in 1..Len(c) : c[k] \in DOMAIN Callbacks
  OBVIOUS
<1> HIDE DEF c
<1> DEFINE Holds(k) == /\ run[k] \in Seq(X) /\ ToSet(s.mods) \subseteq ToSet(run[k])
                       /\ \A j \in 1..k : ToSet(Callbacks[c[j]]) \subseteq ToSet(run[k])
           K == {k \in Nat : k <= Len(c) => Holds(k)}
<1>5. \A a, b \in Seq(X) : /\ a \o b \in Seq(X) /\ ToSet(a) \subseteq ToSet(a \o b)
                           /\ ToSet(b) \subseteq ToSet(a \o b)
  <2> SUFFICES ASSUME NEW a \in Seq(X), NEW b \in Seq(X)
               PROVE  /\ a \o b \in Seq(X) /\ ToSet(a) \subseteq ToSet(a \o b)
                      /\ ToSet(b) \subseteq ToSet(a \o b)
    OBVIOUS
  <2>1. /\ Len(a \o b) = Len(a) + Len(b) /\ Len(a) \in Nat /\ Len(b) \in Nat /\ a \o b \in Seq(X)
        /\ \A i \in 1..Len(a) : (a \o b)[i] = a[i]
        /\ \A i \in 1..Len(b) : (a \o b)[Len(a) + i] = b[i]
    OBVIOUS
  <2>2. /\ DOMAIN a = 1..Len(a) /\ DOMAIN b = 1..Len(b)
        /\ DOMAIN (a \o b) = 1..(Len(a) + Len(b))
    OBVIOUS
  <2>3. ToSet(a) \subseteq ToSet(a \o b)
    <3>1. \A i \in 1..Len(a) : i \in 1..(Len(a) + Len(b))
      BY <2>1
    <3> QED BY <2>1, <2>2, <3>1 DEF ToSet
  <2>4. ToSet(b) \subseteq ToSet(a \o b)
    <3>1. \A i \in 1..Len(b) : Len(a) + i \in 1..(Len(a) + Len(b))
      BY <2>1
    <3> QED BY <2>1, <2>2, <3>1 DEF ToSet
  <2> QED BY <2>1, <2>3, <2>4
<1>6. 0 \in K
  BY <1>1, <1>2
<1>7. ASSUME NEW k \in Nat, k \in K PROVE k + 1 \in K
  <2> HIDE DEF Holds
  <2> SUFFICES ASSUME k + 1 <= Len(c) PROVE Holds(k + 1)
    OBVIOUS
  <2>1. Holds(k) /\ k + 1 \in 1..Len(c)
    BY <1>4, <1>7
  <2> USE DEF Holds
  <2>2. run[k + 1] = run[k] \o Callbacks[c[k + 1]]
    <3>1. \A i \in 1..Len(c) : run[i] = ThenThoseOf(run[i - 1], c[i])
      BY <1>2
    <3>2. (k + 1) - 1 = k
      OBVIOUS
    <3> QED BY <2>1, <3>1, <3>2 DEF ThenThoseOf
  <2>3. run[k] \in Seq(X) /\ Callbacks[c[k + 1]] \in Seq(X)
    BY <1>1, <1>4, <2>1
  <2>4. /\ run[k + 1] \in Seq(X) /\ ToSet(run[k]) \subseteq ToSet(run[k + 1])
        /\ ToSet(Callbacks[c[k + 1]]) \subseteq ToSet(run[k + 1])
    BY <1>5, <2>2, <2>3
  <2>5. \A j \in 1..(k + 1) : j \in 1..k \/ j = k + 1
    OBVIOUS
  <2> QED BY <2>1, <2>4, <2>5
<1> HIDE DEF Holds, K
<1>8. Nat \subseteq K
  BY <1>6, <1>7, ThoseFold!SetInduction
<1>9. Holds(Len(c))
  BY <1>4, <1>8 DEF K
<1>10. /\ ToSet(s.mods) \subseteq ToSet(AllMods(s))
       /\ \A j \in 1..Len(c) : ToSet(Callbacks[c[j]]) \subseteq ToSet(AllMods(s))
  BY <1>2, <1>3, <1>9 DEF Holds
<1>11. \A m \in ToSet(AllMods(s)) : m.op \notin Tracing
  BY DEF Overrides, Asks, Tracing
<1> QED BY <1>10, <1>11 DEF Untraced, AllUntraced, c

-----------------------------------------------------------------------------
(* What there is to say of spans, those that newChildLog() has not listed yet
   among them. *)
Spanned == {x \in Live : x[1] # "seed"}

(* A request that came with the identifiers of a trace is in that trace. *)
InTrace(s) ==
    LET h == s.origin.headers
        used == IF h.b3.is # "none" THEN h.b3
                ELSE IF h.traceparent.is # "none" THEN h.traceparent ELSE h.xb3 IN
    used.is = "ids" /\ used.trace # Zero /\ ~Overrides(s) =>
        s.seed.trace.trace = used.trace /\ s.seed.parent.trace = used.trace

(* A sub-span, which its parent has numbered. *)
OfParent(s, sp) ==
    /\ s.parent \in DOMAIN sp /\ sp[s.parent].tree = s.tree
    /\ FromProgram(s.seed.trace.span) => Overrides(s)
    /\ ~Overrides(s) => /\ s.seed.parent = sp[s.parent].seed.trace
                        /\ s.seed.trace.trace = sp[s.parent].seed.trace.trace
    /\ \E c : /\ IsSegment(c, sp[s.parent].forks, sp[s.parent].steps)
              /\ s.seed.code = sp[s.parent].seed.code \o c

Known(s, sp) ==
    /\ s.forks \in Nat /\ s.steps \in Nat
    /\ s.called = s.origin.callbacks \/ (s.origin.reused /\ s.parent = 0)
    /\ InTrace(s)
    /\ s.parent # 0 => OfParent(s, sp)

(* The codes of two spans of a request, of which that of the request itself is
   the shortest. *)
CodesApart(s, t) ==
    s.tree = t.tree => /\ s.seed.code # t.seed.code
                       /\ s.parent = 0 => Len(s.seed.code) <= Len(t.seed.code)

SpanInv ==
    /\ \A x \in Spanned : Known(SpanAt(x), spans)
    /\ \A x, y \in Spanned : x # y => CodesApart(SpanAt(x), SpanAt(y))

(* Spans stay, and what they have forked and stepped is counted. *)
Numbered(s) == s.forks \in Nat /\ s.steps \in Nat

Counting ==
    \A i \in DOMAIN spans :
        /\ i \in DOMAIN spans' /\ SameSpan(spans[i], spans'[i])
        /\ Numbered(spans'[i])
        /\ spans'[i].forks >= spans[i].forks /\ spans'[i].steps >= spans[i].steps

(* What is known of a span is still known when other spans have come. *)
LEMMA KnownStill ==
    ASSUME SpanInv, Counting, NEW s, NEW t, SameSpan(s, t), Numbered(t), Known(s, spans)
    PROVE  Known(t, spans')
<1>1. Overrides(t) = Overrides(s)
  BY DEF SameSpan, Overrides, Asks, AllMods
<1>2. InTrace(t)
  BY <1>1 DEF Known, InTrace, SameSpan
<1>3. ASSUME s.parent # 0 PROVE OfParent(t, spans')
  <2>1. OfParent(s, spans)
    BY <1>3 DEF Known
  <2> PICK p : p = s.parent
    OBVIOUS
  <2>2. /\ p \in DOMAIN spans /\ p \in DOMAIN spans' /\ SameSpan(spans[p], spans'[p])
        /\ spans'[p].forks >= spans[p].forks /\ spans'[p].steps >= spans[p].steps /\ Numbered(spans'[p])
    BY <2>1 DEF OfParent, Counting
  <2>3. Numbered(spans[p])
    <3>1. <<"span", p>> \in Spanned /\ SpanAt(<<"span", p>>) = spans[p]
      BY <2>2 DEF Spanned, Live, SpanAt
    <3> QED BY <3>1 DEF SpanInv, Known, Numbered
  <2>4. PICK c : /\ IsSegment(c, spans[p].forks, spans[p].steps)
                 /\ s.seed.code = spans[p].seed.code \o c
    BY <2>1 DEF OfParent
  <2>5. IsSegment(c, spans'[p].forks, spans'[p].steps)
    <3>1. /\ \A n \in 1..spans[p].forks : n \in 1..spans'[p].forks
          /\ \A n \in 1..spans[p].steps : n \in 1..spans'[p].steps
      BY <2>2, <2>3 DEF Numbered
    <3> QED BY <2>4, <3>1 DEF IsSegment
  <2>6. t.seed.code = spans'[p].seed.code \o c
    BY <2>2, <2>4 DEF SameSpan
  <2> QED BY <1>1, <2>1, <2>2, <2>5, <2>6 DEF OfParent, SameSpan
<1> QED BY <1>2, <1>3 DEF Known, Numbered, SameSpan

(* A span z comes, and others may have another key than they were under. *)
LEMMA SpansGo ==
    ASSUME SpanInv, Counting, NEW z, NEW was,
           \A x \in Spanned' : x # z =>
              was[x] \in Spanned /\ SameSpan(SpanAt(was[x]), SpanAt(x)') /\ Numbered(SpanAt(x)'),
           \A x, y \in Spanned' : x # z /\ y # z /\ was[x] = was[y] => x = y,
           z \in Spanned' =>
              /\ Known(SpanAt(z)', spans')
              /\ \A x \in Spanned : CodesApart(SpanAt(x), SpanAt(z)') /\ CodesApart(SpanAt(z)', SpanAt(x))
    PROVE  SpanInv'
<1>1. ASSUME NEW x \in Spanned' PROVE Known(SpanAt(x)', spans')
  <2>1. CASE x = z
    BY <2>1
  <2>2. CASE x # z
    <3>1. /\ was[x] \in Spanned /\ SameSpan(SpanAt(was[x]), SpanAt(x)') /\ Numbered(SpanAt(x)')
          /\ Known(SpanAt(was[x]), spans)
      BY <2>2 DEF SpanInv
    <3> QED BY <3>1, KnownStill
  <2> QED BY <2>1, <2>2
<1>2. \A s, t, u, v : SameSpan(s, t) /\ SameSpan(u, v) /\ CodesApart(s, u) => CodesApart(t, v)
  BY DEF SameSpan, CodesApart
<1>3. ASSUME NEW x \in Spanned', NEW y \in Spanned', x # y
      PROVE  CodesApart(SpanAt(x)', SpanAt(y)')
  <2>1. CASE x # z /\ y # z
    <3>1. /\ was[x] \in Spanned /\ SameSpan(SpanAt(was[x]), SpanAt(x)')
          /\ was[y] \in Spanned /\ SameSpan(SpanAt(was[y]), SpanAt(y)') /\ was[x] # was[y]
      BY <1>3, <2>1
    <3>2. CodesApart(SpanAt(was[x]), SpanAt(was[y]))
      BY <3>1 DEF SpanInv
    <3> QED BY <1>2, <3>1, <3>2
  <2>2. CASE x = z /\ y # z
    <3>1. was[y] \in Spanned /\ SameSpan(SpanAt(was[y]), SpanAt(y)')
      BY <2>2
    <3>2. CodesApart(SpanAt(z)', SpanAt(was[y]))
      BY <2>2, <3>1
    <3> QED BY <1>2, <2>2, <3>1, <3>2, SameSpanSelf
  <2>3. CASE x # z /\ y = z
    <3>1. was[x] \in Spanned /\ SameSpan(SpanAt(was[x]), SpanAt(x)')
      BY <2>3
    <3>2. CodesApart(SpanAt(was[x]), SpanAt(z)')
      BY <2>3, <3>1
    <3> QED BY <1>2, <2>3, <3>1, <3>2, SameSpanSelf
  <2> QED BY <1>3, <2>1, <2>2, <2>3
<1> QED BY <1>1, <1>3 DEF SpanInv

-----------------------------------------------------------------------------
(* What newChildLog() adds to the code of a span, s, for a fork or step. *)
ChildCode(op, s) == IF op = "fork" THEN ForkCode(s.forks + 1) ELSE StepCode(s.steps + 1)

Sprouting(p, l, op, mods, settings, code, bud, v) ==
    /\ p = loggers[l].span /\ code = ChildCode(op, spans[p])
    /\ bud = ChildSeed(l, op, mods, settings) /\ v = React(bud, FALSE)

SproutsChild(p, mods, code, bud, v) ==
    /\ QuietBirth(v.seed, v.heap, v.fresh) /\ OfSpan(v.seed)
    /\ v.called \in Seq(DOMAIN Callbacks) /\ v.called = View(bud.heap, bud.seed.reactive)
    /\ v.seed.code = spans[p].seed.code \o code
    /\ Untraced(mods) /\ AllUntraced(v.called) =>
          /\ v.seed.trace.trace = spans[p].seed.trace.trace /\ v.seed.trace.span = fresh + 1
          /\ v.seed.parent = spans[p].seed.trace

(* The seed that newChildLog() makes for the fork or step of a span p. *)
LEMMA ChildSeeds ==
    ASSUME LiveInv, SpanInv, NEW p \in DOMAIN spans, NEW l,
           NEW op \in {"fork", "step"}, NEW mods, AreMods(mods), NEW settings,
           NEW code, NEW bud, NEW v,
           Sprouting(p, l, op, mods, settings, code, bud, v)
    PROVE  SproutsChild(p, mods, code, bud, v)
<1>a. PICK own, twin : own = spans[p].seed /\ twin = SubSeed(Of(own), loggers[l].settings, mods)
  OBVIOUS
<1>1. IsHeap(heap) /\ fresh \in Nat /\ Good(heap, fresh, own) /\ OfSpan(own) /\ Numbered(spans[p])
  <2> PICK x : x = <<"span", p>>
    OBVIOUS
  <2>1. x \in Live /\ x[1] = "span" /\ SpanAt(x) = spans[p] /\ SeedAt(x) = own
    BY <1>a DEF Live, SpanAt, SeedAt
  <2>2. Known(spans[p], spans)
    BY <2>1 DEF Spanned, SpanInv
  <2>3. Good(heap, fresh, SeedAt(x)) /\ OfSpan(SeedAt(x)) /\ IsHeap(heap) /\ fresh \in Nat
    BY <2>1 DEF LiveInv
  <2> QED BY <2>1, <2>2, <2>3 DEF Known, Numbered
<1>2. Sprung(Of(own), twin, own.trace, mods)
  <2>1. IsWorld(Of(own)) /\ Of(own).fresh = fresh /\ Of(own).seed = own /\ Of(own).seed.current = 0
    BY <1>1, OfWorld DEF Good
  <2> QED BY <1>a, <1>1, <2>1, SubSeedGives
<1>3. code \in Seq(Nat)
  <2>1. IsSegment(code, spans[p].forks + 1, spans[p].steps + 1)
    BY <1>1 DEF IsSegment, Numbered, ChildCode, Sprouting
  <2>2. spans[p].forks + 1 \in Nat /\ spans[p].steps + 1 \in Nat
    BY <1>1 DEF Numbered
  <2>3. PICK tail \in Seq(Nat) : code = <<Dot>> \o tail
    BY <2>1, <2>2, SegmentTyped
  <2>4. <<Dot>> \in Seq(Nat)
    BY DEF Dot
  <2> QED BY <2>3, <2>4, ConcatProperties
<1>4. Coded(bud, twin, code, settings)
  BY <1>a DEF ChildSeed, Coded, ChildCode, Sprouting
<1>b. Bud(own, bud, mods, code)
  BY <1>1, <1>2, <1>3, <1>4, ChildBud
<1>5. /\ IsWorld(bud) /\ bud.seed.current = 0 /\ bud.called = <<>>
      /\ bud.fresh \in Nat /\ bud.fresh >= fresh /\ Settled(bud.fresh, bud.seed)
      /\ Untouched(heap, bud.heap, {}) /\ \A a \in ArraysOf(bud.seed) : a > Len(heap)
      /\ bud.seed.code = own.code \o code /\ bud.seed.code \in Seq(Nat) /\ bud.seed.used = FALSE
      /\ bud.seed.trace.span \notin 1..fresh /\ bud.seed.trace.trace # Zero
      /\ Full(bud.heap, bud.seed)
      /\ Untraced(mods) => /\ bud.seed.trace.trace = own.trace.trace /\ bud.seed.trace.span = fresh + 1
                           /\ bud.seed.parent = own.trace
  BY <1>b DEF Bud
<1>6. /\ QuietBirth(v.seed, v.heap, v.fresh)
      /\ ~v.seed.spanSet /\ ~v.seed.traceSet /\ v.seed.trace.trace # Zero
      /\ Sprouts(bud, v, Start(bud, FALSE))
  <2>1. FALSE \in BOOLEAN /\ bud.seed.used \in BOOLEAN
    BY <1>5
  <2>2. v = React(bud, FALSE)
    BY DEF Sprouting
  <2> QED BY <1>1, <1>5, <2>1, <2>2, SproutQuietly
<1>7. Start(bud, FALSE) = bud
  BY DEF Start
<1>8. \A j \in 1..bud.seed.reactive.len : Slot(bud, j) # Nil
  BY <1>5 DEF Full, Slot
<1>9. /\ v.seed.code = bud.seed.code /\ v.seed.used = bud.seed.used
      /\ v.called \in Seq(DOMAIN Callbacks) /\ v.called = View(bud.heap, bud.seed.reactive)
      /\ AllUntraced(v.called) => v.seed.trace = bud.seed.trace /\ v.seed.parent = bud.seed.parent
  BY <1>6, <1>7, <1>8 DEF Sprouts
<1> QED BY <1>a, <1>5, <1>6, <1>9 DEF OfSpan, SproutsChild

(* What newChildLog() makes of a span p and of the seed of its child. *)
IsChild(child, p, bud, v, mods) ==
    /\ child.tree = spans[p].tree /\ child.parent = p /\ child.seed = v.seed
    /\ child.forks = 0 /\ child.steps = 0 /\ child.mods = mods /\ child.called = v.called
    /\ child.origin.callbacks = View(bud.heap, bud.seed.reactive)
    /\ child.origin.reused = FALSE /\ child.origin.headers = NoHeaders

CountedFor(op, p, before) ==
    /\ before[p].forks = IF op = "fork" THEN spans[p].forks + 1 ELSE spans[p].forks
    /\ before[p].steps = IF op = "step" THEN spans[p].steps + 1 ELSE spans[p].steps
    /\ \A i \in DOMAIN spans : i # p => before[i] = spans[i]

(* The child is listed, or waits for the bases that are added. *)
Places(g, before, child) ==
    \/ spans' = Append(before, child) /\ UNCHANGED pending
    \/ /\ spans' = before
       /\ \E todo : pending' = [pending EXCEPT ![g] = [stage |-> "ask", todo |-> todo, span |-> child]]

(* Fork(), Step() and the sub-loggers: newChildLog() in its parts, the
   count of the parent, the seed, and the place of the new span. *)
LEMMA ChildMade ==
    ASSUME FlushInv, NEW g \in Goroutines, NEW l \in DOMAIN loggers, NEW op, NEW mods, NEW settings,
           NewChildLog(g, l, op, mods, settings)
    PROVE  \E p \in DOMAIN spans : \E code, bud, v, before, child :
              /\ Sprouting(p, l, op, mods, settings, code, bud, v)
              /\ Take(v) /\ UNCHANGED seeds /\ pending[g] = None
              /\ IsChild(child, p, bud, v, mods)
              /\ Counted(before) /\ CountedFor(op, p, before)
              /\ Places(g, before, child)
<1> DEFINE p   == loggers[l].span
           bud == ChildSeed(l, op, mods, settings)
           v   == React(bud, FALSE)
           before == [spans EXCEPT ![p].forks = IF op = "fork" THEN @ + 1 ELSE @,
                                   ![p].steps = IF op = "step" THEN @ + 1 ELSE @]
           child == [spans[p] EXCEPT !.parent = p, !.seed = v.seed, !.forks = 0, !.steps = 0,
                                     !.mods = mods, !.called = v.called,
                                     !.origin = [callbacks |-> View(bud.heap, bud.seed.reactive),
                                                 reused |-> FALSE, headers |-> NoHeaders],
                                     !.bases = [b \in Bases |-> IF b \in ToSet(v.seed.removed) THEN 0 ELSE @[b]]]
<1>1. /\ Take(v) /\ UNCHANGED seeds /\ pending[g] = None
      /\ IF v.seed.added = <<>> /\ v.seed.removed = <<>>
         THEN spans' = Append(before, child) /\ UNCHANGED pending
         ELSE /\ pending' = [pending EXCEPT ![g] = [stage |-> "ask", todo |-> v.seed.added, span |-> child]]
              /\ spans' = before
  BY DEF NewChildLog, Idle
<1>2. p \in DOMAIN spans /\ DOMAIN spans[p] = SpanFields /\ IsSequence(spans)
  BY DEF FlushInv, IsSpan
<1>3. Sprouting(p, l, op, mods, settings, ChildCode(op, spans[p]), bud, v)
  BY DEF Sprouting
<1> HIDE DEF bud, v, p
<1>4. Places(g, before, child)
  <2> HIDE DEF before, child
  <2> QED BY <1>1 DEF Places
<1>5. IsChild(child, p, bud, v, mods)
  <2> DEFINE made == [callbacks |-> View(bud.heap, bud.seed.reactive), reused |-> FALSE, headers |-> NoHeaders]
  <2>1. PICK origin, removed : origin = made /\ removed = ToSet(v.seed.removed)
    OBVIOUS
  <2>2. PICK e : e = [spans[p] EXCEPT !.parent = p, !.seed = v.seed, !.forks = 0, !.steps = 0,
                                      !.mods = mods, !.called = v.called, !.origin = origin,
                                      !.bases = [b \in Bases |-> IF b \in removed THEN 0 ELSE @[b]]]
    OBVIOUS
  <2>3. child = e
    BY <2>1, <2>2 DEF child
  <2>4. /\ e.tree = spans[p].tree /\ e.parent = p /\ e.seed = v.seed
        /\ e.forks = 0 /\ e.steps = 0 /\ e.mods = mods /\ e.called = v.called /\ e.origin = origin
    BY <1>2, <2>2 DEF SpanFields
  <2> HIDE DEF child
  <2> QED BY <2>1, <2>3, <2>4 DEF IsChild
<1> HIDE DEF child
<1>6. PICK forks, steps : /\ forks = IF op = "fork" THEN spans[p].forks + 1 ELSE spans[p].forks
                          /\ steps = IF op = "step" THEN spans[p].steps + 1 ELSE spans[p].steps
  OBVIOUS
<1>7. PICK x : x = [spans[p] EXCEPT !.forks = forks, !.steps = steps]
  OBVIOUS
<1>8. before = [spans EXCEPT ![p] = x]
  BY <1>2, <1>6, <1>7 DEF SpanFields
<1>9. /\ x.forks = forks /\ x.steps = steps /\ SameSpan(spans[p], x)
  BY <1>2, <1>7 DEF SpanFields, SameSpan
<1> HIDE DEF before
<1>10. /\ IsSequence(before) /\ DOMAIN before = DOMAIN spans /\ before[p] = x
       /\ \A i \in DOMAIN spans : i # p => before[i] = spans[i]
  BY <1>2, <1>8, SequenceUpdated
<1>11. Len(before) = Len(spans)
  <2>1. PICK S, R : spans \in Seq(S) /\ before \in Seq(R)
    BY <1>2, <1>10 DEF IsSequence
  <2> QED BY <1>10, <2>1
<1>12. CountedFor(op, p, before)
  BY <1>6, <1>9, <1>10 DEF CountedFor
<1>13. Counted(before)
  BY <1>9, <1>10, <1>11, SameSpanSelf DEF Counted
<1> QED BY <1>1, <1>2, <1>3, <1>4, <1>5, <1>12, <1>13

(* The number that a fork or step gets has not been used for its parent. *)
LEMMA ChildCodeNew ==
    ASSUME NEW s, Numbered(s), NEW op \in {"fork", "step"}
    PROVE  ~IsSegment(ChildCode(op, s), s.forks, s.steps)
<1> DEFINE f == s.forks + 1  t == s.steps + 1
<1>1. /\ f \in Nat \ {0} /\ t \in Nat \ {0}
      /\ \A n \in 1..s.forks : n \in Nat \ {0} /\ n # f
      /\ \A n \in 1..s.steps : n \in Nat \ {0} /\ n # t
  BY DEF Numbered
<1>2. ChildCode(op, s) = IF op = "fork" THEN ForkCode(f) ELSE StepCode(t)
  BY DEF ChildCode
<1> HIDE DEF f, t
<1>3. CASE op = "fork"
  <2>1. \A n \in 1..s.forks : ForkCode(f) # ForkCode(n)
    BY <1>1, SegmentsDiffer
  <2>2. \A n \in 1..s.steps : ForkCode(f) # StepCode(n)
    BY <1>1, SegmentsDiffer
  <2> QED BY <1>2, <1>3, <2>1, <2>2 DEF IsSegment
<1>4. CASE op = "step"
  <2>1. \A n \in 1..s.forks : StepCode(t) # ForkCode(n)
    <3> SUFFICES ASSUME NEW n \in 1..s.forks, StepCode(t) = ForkCode(n) PROVE FALSE
      OBVIOUS
    <3>1. ForkCode(n) # StepCode(t)
      BY <1>1, SegmentsDiffer
    <3> QED BY <3>1
  <2>2. \A n \in 1..s.steps : StepCode(t) # StepCode(n)
    BY <1>1, SegmentsDiffer
  <2> QED BY <1>2, <1>4, <2>1, <2>2 DEF IsSegment
<1> QED BY <1>3, <1>4

(* Codes are joined from pieces that begin with a dot and have no other. *)
IsDotted(c) == \E d \in Seq(Nat) : c = <<Dot>> \o d /\ NoDot(d)

(* A segment begins with a dot and has no other. *)
LEMMA SegmentDotted ==
    ASSUME NEW forks \in Nat, NEW steps \in Nat, NEW c, IsSegment(c, forks, steps)
    PROVE  IsDotted(c)
<1>1. \E d \in Seq(Nat) : /\ c = <<Dot>> \o d /\ d # <<>>
                         /\ \A i \in 1..Len(d) : d[i] # Dot
  BY SegmentTyped
<1> QED BY <1>1, Zenon DEF IsDotted, NoDot

(* A code ends in one segment only: before the last dot is the code of the
   parent. *)
LEMMA CodesSplit ==
    ASSUME NEW a \in Seq(Nat), NEW b \in Seq(Nat), NEW c, NEW e, IsDotted(c), IsDotted(e)
    PROVE  a \o c = b \o e => a = b /\ c = e
<1>1. PICK d \in Seq(Nat) : c = <<Dot>> \o d /\ NoDot(d)
  BY Zenon DEF IsDotted
<1>2. PICK f \in Seq(Nat) : e = <<Dot>> \o f /\ NoDot(f)
  BY Zenon DEF IsDotted
<1>3. NoDot(d) /\ NoDot(f)
  BY <1>1, <1>2
<1>4. a \o (<<Dot>> \o d) = b \o (<<Dot>> \o f) => a = b /\ d = f
  BY <1>3, CodeParts
<1> QED BY <1>1, <1>2, <1>4

(* A code with a segment more is longer. *)
LEMMA DottedLonger ==
    ASSUME NEW a \in Seq(Nat), NEW c, IsDotted(c)
    PROVE  c \in Seq(Nat) /\ a \o c \in Seq(Nat) /\ Len(a \o c) > Len(a)
<1>1. PICK d \in Seq(Nat) : c = <<Dot>> \o d
  BY Zenon DEF IsDotted
<1>2. <<Dot>> \in Seq(Nat) /\ Len(<<Dot>>) = 1
  BY DEF Dot
<1>3. <<Dot>> \o d \in Seq(Nat) /\ Len(<<Dot>> \o d) = 1 + Len(d)
  BY <1>2, ConcatProperties
<1>4. c \in Seq(Nat) /\ Len(c) = 1 + Len(d)
  BY <1>1, <1>3, Zenon
<1>5. a \o c \in Seq(Nat) /\ Len(a \o c) = Len(a) + Len(c)
  BY <1>4, ConcatProperties
<1>6. Len(a) \in Nat /\ Len(d) \in Nat
  OBVIOUS
<1> QED BY <1>4, <1>5, <1>6

(* The segment that Fork() and Step() add to the code is dotted. *)
LEMMA ChildCodeDotted ==
    ASSUME NEW s, Numbered(s), NEW op \in {"fork", "step"}
    PROVE  IsDotted(ChildCode(op, s))
<1>1. IsSegment(ChildCode(op, s), s.forks + 1, s.steps + 1)
  BY DEF IsSegment, Numbered, ChildCode
<1>2. s.forks + 1 \in Nat /\ s.steps + 1 \in Nat
  BY DEF Numbered
<1> QED BY <1>1, <1>2, SegmentDotted

CodedAs(child, p, op) ==
    /\ child.tree = spans[p].tree /\ child.parent = p
    /\ child.seed.code = spans[p].seed.code \o ChildCode(op, spans[p])

(* The code of a child differs from that of every span of its request: the
   counters of the parent, span.forkCount and span.stepCount, go up by one
   with each. *)
LEMMA ChildApart ==
    ASSUME FlushInv, LiveInv, SpanInv, NEW p \in DOMAIN spans, NEW op \in {"fork", "step"}, NEW child,
           CodedAs(child, p, op), NEW x \in Spanned
    PROVE  CodesApart(SpanAt(x), child) /\ CodesApart(child, SpanAt(x))
<1>1. PICK a : a = spans[p].seed.code
  OBVIOUS
<1>2. PICK s : s = SpanAt(x)
  OBVIOUS
<1>3. \A i \in DOMAIN spans : /\ <<"span", i>> \in Spanned /\ SpanAt(<<"span", i>>) = spans[i]
                              /\ SeedAt(<<"span", i>>) = spans[i].seed /\ i # 0
  BY DEF FlushInv, IsSequence, Spanned, Live, SpanAt, SeedAt
<1>4. \A y \in Spanned : SpanAt(y).seed.code \in Seq(Nat) /\ Numbered(SpanAt(y))
  <2>1. \A y \in Spanned : y \in Live /\ SeedAt(y) = SpanAt(y).seed
    BY DEF Spanned, SeedAt
  <2>2. \A y \in Spanned : Good(heap, fresh, SeedAt(y))
    BY <2>1 DEF LiveInv
  <2>3. \A y \in Spanned : Known(SpanAt(y), spans)
    BY DEF SpanInv
  <2> QED BY <2>1, <2>2, <2>3 DEF Good, Known, Numbered
<1>5. a \in Seq(Nat) /\ s.seed.code \in Seq(Nat) /\ Numbered(spans[p])
  BY <1>1, <1>2, <1>3, <1>4
<1>6. PICK m : m = ChildCode(op, spans[p])
  OBVIOUS
<1>7. IsDotted(m)
  BY <1>5, <1>6, ChildCodeDotted
<1>8. PICK b : b = a \o m
  OBVIOUS
<1>9. child.seed.code = b /\ Len(b) > Len(a) /\ b \in Seq(Nat)
  <2>1. a \o m \in Seq(Nat) /\ Len(a \o m) > Len(a)
    BY <1>5, <1>7, DottedLonger
  <2>2. child.seed.code = a \o m
    BY <1>1, <1>6 DEF CodedAs
  <2> QED BY <1>8, <2>1, <2>2
<1>10. ASSUME s.tree = child.tree, s.parent = 0
       PROVE  s.seed.code # b /\ Len(s.seed.code) <= Len(b)
  <2>1. Len(s.seed.code) <= Len(a)
    <3>1. CASE x = <<"span", p>>
      BY <1>1, <1>2, <1>3, <1>5, <3>1
    <3>2. CASE x # <<"span", p>>
      <4>1. CodesApart(s, spans[p])
        BY <1>2, <1>3, <3>2 DEF SpanInv
      <4> QED BY <1>1, <1>10, <4>1 DEF CodesApart, CodedAs
    <3> QED BY <3>1, <3>2
  <2>2. Len(s.seed.code) \in Nat /\ Len(b) \in Nat /\ Len(a) \in Nat
    BY <1>5, <1>9
  <2>3. Len(s.seed.code) < Len(b)
    BY <1>9, <2>1, <2>2
  <2> QED BY <2>2, <2>3
<1>11. ASSUME s.tree = child.tree, s.parent # 0, s.seed.code = b
       PROVE  FALSE
  <2>1. OfParent(s, spans)
    BY <1>2, <1>11 DEF SpanInv, Known
  <2>2. PICK q : q = s.parent
    OBVIOUS
  <2>3. PICK c : /\ q \in DOMAIN spans /\ spans[q].tree = s.tree
                 /\ IsSegment(c, spans[q].forks, spans[q].steps)
                 /\ s.seed.code = spans[q].seed.code \o c
    BY <2>1, <2>2 DEF OfParent
  <2>4. Numbered(spans[q]) /\ spans[q].seed.code \in Seq(Nat)
    BY <1>3, <1>4, <2>3
  <2>5. IsDotted(c)
    BY <2>3, <2>4, SegmentDotted DEF Numbered
  <2>6. PICK r : r = spans[q].seed.code
    OBVIOUS
  <2>7. r \in Seq(Nat) /\ r \o c = a \o m
    BY <1>8, <1>11, <2>3, <2>4, <2>6
  <2>8. r = a /\ c = m
    BY <1>5, <1>7, <2>5, <2>7, CodesSplit
  <2>9. q = p
    <3> SUFFICES ASSUME q # p PROVE FALSE
      OBVIOUS
    <3>1. <<"span", q>> # <<"span", p>>
      OBVIOUS
    <3>2. CodesApart(spans[q], spans[p])
      BY <1>3, <2>3, <3>1 DEF SpanInv
    <3> QED BY <1>1, <1>11, <2>3, <2>6, <2>8, <3>2 DEF CodesApart, CodedAs
  <2>10. IsSegment(ChildCode(op, spans[p]), spans[p].forks, spans[p].steps)
    BY <1>6, <2>3, <2>8, <2>9
  <2> QED BY <1>5, <2>10, ChildCodeNew
<1>12. p # 0
  BY <1>3
<1> QED BY <1>2, <1>9, <1>10, <1>11, <1>12 DEF CodesApart, CodedAs

(* The counters and the code of a listed span are numbers. *)
LEMMA AllNumbered ==
    ASSUME SpanInv, NEW i \in DOMAIN spans
    PROVE  Numbered(spans[i])
<1>1. <<"span", i>> \in Spanned /\ SpanAt(<<"span", i>>) = spans[i]
  BY DEF Spanned, Live, SpanAt
<1>2. Known(SpanAt(<<"span", i>>), spans)
  BY <1>1 DEF SpanInv
<1> QED BY <1>1, <1>2 DEF Known, Numbered

(* A span z comes, and the others stay where they are. *)
LEMMA SpansRest ==
    ASSUME SpanInv, Counting, NEW z, Rest(z),
           \A x \in Spanned' : x # z => \/ x[1] = "span" /\ x[2] \in DOMAIN spans
                                    \/ SpanAt(x)' = SpanAt(x),
           z \in Spanned' =>
              /\ Known(SpanAt(z)', spans')
              /\ \A x \in Spanned : CodesApart(SpanAt(x), SpanAt(z)') /\ CodesApart(SpanAt(z)', SpanAt(x))
    PROVE  SpanInv'
<1>1. PICK was : was = [x \in Spanned' |-> x]
  OBVIOUS
<1>2. \A x \in Spanned' : was[x] = x
  BY <1>1
<1>3. ASSUME NEW x \in Spanned', x # z
      PROVE  x \in Spanned /\ SameSpan(SpanAt(x), SpanAt(x)') /\ Numbered(SpanAt(x)')
  <2>1. x \in Live' /\ x[1] # "seed"
    BY DEF Spanned
  <2>2. x \in Spanned /\ SameSpan(SpanAt(x), SpanAt(x)')
    BY <1>3, <2>1 DEF Rest, Spanned
  <2>3. CASE x[1] = "span" /\ x[2] \in DOMAIN spans
    <3>1. SpanAt(x)' = spans'[x[2]]
      BY <2>3 DEF SpanAt
    <3> QED BY <2>2, <2>3, <3>1 DEF Counting
  <2>4. CASE SpanAt(x)' = SpanAt(x)
    BY <2>2, <2>4 DEF SpanInv, Known, Numbered
  <2> QED BY <1>3, <2>2, <2>3, <2>4
<1>4. \A x \in Spanned' : x # z =>
         was[x] \in Spanned /\ SameSpan(SpanAt(was[x]), SpanAt(x)') /\ Numbered(SpanAt(x)')
  BY <1>2, <1>3
<1>5. \A x, y \in Spanned' : x # z /\ y # z /\ was[x] = was[y] => x = y
  BY <1>2
<1> QED BY <1>4, <1>5, SpansGo

(* A fork or step knows its parent. *)
LEMMA ChildKnown ==
    ASSUME FlushInv, LiveInv, SpanInv, NEW p \in DOMAIN spans, NEW l, NEW op \in {"fork", "step"},
           NEW mods, AreMods(mods), NEW settings, NEW code, NEW bud, NEW v,
           Sprouting(p, l, op, mods, settings, code, bud, v),
           NEW child, IsChild(child, p, bud, v, mods), NEW before, Counted(before), CountedFor(op, p, before),
           NEW sp, p \in DOMAIN sp, SameSpan(before[p], sp[p]),
           sp[p].forks = before[p].forks, sp[p].steps = before[p].steps
    PROVE  /\ Known(child, sp) /\ CodedAs(child, p, op)
           /\ QuietBirth(child.seed, v.heap, v.fresh) /\ OfSpan(child.seed)
<1>1. /\ QuietBirth(v.seed, v.heap, v.fresh) /\ OfSpan(v.seed)
      /\ v.called \in Seq(DOMAIN Callbacks) /\ v.called = View(bud.heap, bud.seed.reactive)
      /\ v.seed.code = spans[p].seed.code \o code
      /\ Untraced(mods) /\ AllUntraced(v.called) =>
            /\ v.seed.trace.trace = spans[p].seed.trace.trace /\ v.seed.trace.span = fresh + 1
            /\ v.seed.parent = spans[p].seed.trace
  <2>1. SproutsChild(p, mods, code, bud, v)
    BY ChildSeeds
  <2> QED BY <2>1 DEF SproutsChild
<1>2. /\ child.tree = spans[p].tree /\ child.parent = p /\ child.seed = v.seed
      /\ child.forks = 0 /\ child.steps = 0 /\ child.mods = mods /\ child.called = v.called
      /\ child.origin.callbacks = View(bud.heap, bud.seed.reactive)
      /\ child.origin.headers = NoHeaders
  BY DEF IsChild
<1>3. code = ChildCode(op, spans[p])
  BY DEF Sprouting
<1>4. CodedAs(child, p, op)
  BY <1>1, <1>2, <1>3 DEF CodedAs
<1>5. SameSpan(spans[p], sp[p]) /\ Numbered(spans[p])
  BY AllNumbered DEF Counted, SameSpan
<1>6. IsSegment(code, sp[p].forks, sp[p].steps)
  BY <1>3, <1>5 DEF CountedFor, IsSegment, ChildCode, Numbered
<1>7. ~Overrides(child) => /\ child.seed.trace.trace = spans[p].seed.trace.trace
                           /\ child.seed.trace.span = fresh + 1
                           /\ child.seed.parent = spans[p].seed.trace
  BY <1>1, <1>2, NotOverriding
<1>8. ~FromProgram(fresh + 1)
  BY DEF LiveInv, FromProgram, Zero
<1>9. OfParent(child, sp)
  <2>1. /\ sp[p].tree = spans[p].tree /\ sp[p].seed = spans[p].seed
    BY <1>5 DEF SameSpan
  <2> QED BY <1>1, <1>2, <1>6, <1>7, <1>8, <2>1 DEF OfParent
<1>10. InTrace(child)
  BY <1>2 DEF InTrace, NoHeaders
<1> QED BY <1>1, <1>2, <1>4, <1>9, <1>10 DEF Known

(* A child is like nothing that was there. *)
LEMMA ChildBorn ==
    ASSUME FlushInv, LiveInv, SpanInv, IsSequence(seeds), NEW g \in Goroutines, NEW l \in DOMAIN loggers,
           NEW op \in {"fork", "step"}, NEW mods, AreMods(mods), NEW settings,
           NewChildLog(g, l, op, mods, settings)
    PROVE  LiveInv' /\ SpanInv' /\ IsSequence(seeds') /\ ViewsKept
<1>1. PICK p \in DOMAIN spans : \E code, bud, v, before, child :
              /\ Sprouting(p, l, op, mods, settings, code, bud, v)
              /\ Take(v) /\ UNCHANGED seeds /\ pending[g] = None
              /\ IsChild(child, p, bud, v, mods)
              /\ Counted(before) /\ CountedFor(op, p, before)
              /\ Places(g, before, child)
  BY ChildMade
<1>2. PICK code, bud, v, before, child :
              /\ Sprouting(p, l, op, mods, settings, code, bud, v)
              /\ Take(v) /\ UNCHANGED seeds /\ pending[g] = None
              /\ IsChild(child, p, bud, v, mods)
              /\ Counted(before) /\ CountedFor(op, p, before)
              /\ Places(g, before, child)
  BY <1>1
<1>3. IsSequence(seeds') /\ Marked
  BY <1>2 DEF Marked, Like
<1>4. ASSUME NEW sp, p \in DOMAIN sp, sp[p] = before[p]
      PROVE  /\ Known(child, sp) /\ CodedAs(child, p, op)
             /\ QuietBirth(child.seed, heap', fresh') /\ OfSpan(child.seed)
  <2>1. SameSpan(before[p], sp[p]) /\ sp[p].forks = before[p].forks /\ sp[p].steps = before[p].steps
    BY <1>4, SameSpanSelf
  <2>2. /\ Known(child, sp) /\ CodedAs(child, p, op)
        /\ QuietBirth(child.seed, v.heap, v.fresh) /\ OfSpan(child.seed)
    BY <1>2, <1>4, <2>1, ChildKnown
  <2> QED BY <1>2, <2>2 DEF Take
<1>5. ASSUME NEW i \in DOMAIN spans
      PROVE  /\ SameSpan(spans[i], before[i]) /\ Numbered(before[i])
             /\ before[i].forks >= spans[i].forks /\ before[i].steps >= spans[i].steps
  <2>1. Numbered(spans[i]) /\ SameSpan(spans[i], before[i])
    BY <1>2, AllNumbered DEF Counted
  <2>2. CASE i = p
    BY <1>2, <2>1, <2>2 DEF CountedFor, Numbered
  <2>3. CASE i # p
    <3>1. before[i] = spans[i]
      BY <1>2, <2>3 DEF CountedFor
    <3> QED BY <2>1, <3>1 DEF Numbered
  <2> QED BY <2>2, <2>3, <2>1
<1>6. ASSUME NEW z, z \in Live', z[1] # "seed", Rest(z), SpanAt(z)' = child, SeedAt(z)' = child.seed,
             p \in DOMAIN spans', \A i \in DOMAIN spans : i \in DOMAIN spans' /\ spans'[i] = before[i],
             \A x \in Spanned' : x # z => \/ x[1] = "span" /\ x[2] \in DOMAIN spans
                                    \/ SpanAt(x)' = SpanAt(x)
      PROVE  LiveInv' /\ SpanInv' /\ ViewsKept
  <2>1. /\ Known(child, spans') /\ CodedAs(child, p, op)
        /\ QuietBirth(child.seed, heap', fresh') /\ OfSpan(child.seed)
    BY <1>4, <1>6
  <2>2. Others(z)
    BY <1>6, RestOthers
  <2>3. LiveInv'
    BY <1>6, <2>1, <2>2, QuietlyBorn
  <2>4. Counting
    BY <1>5, <1>6 DEF Counting
  <2>5. \A x \in Spanned : CodesApart(SpanAt(x), child) /\ CodesApart(child, SpanAt(x))
    BY <2>1, ChildApart
  <2>6. Known(SpanAt(z)', spans')
        /\ \A x \in Spanned : CodesApart(SpanAt(x), SpanAt(z)') /\ CodesApart(SpanAt(z)', SpanAt(x))
    BY <1>6, <2>1, <2>5
  <2>7. SpanInv'
    BY <1>6, <2>4, <2>6, SpansRest
  <2>8. SlicesStay
    BY <1>2, <1>5, <1>6 DEF SlicesStay, SameSpan
  <2>9. ViewsKept
    BY <2>1, <2>8, QuietViewsKept
  <2> QED BY <2>3, <2>7, <2>9
<1>7. CASE spans' = Append(before, child) /\ UNCHANGED pending
  <2>1. PICK z : z = <<"span", Len(spans) + 1>>
    OBVIOUS
  <2>2. /\ Rest(z) /\ z \in Live' /\ SpanAt(z)' = child /\ SeedAt(z)' = child.seed /\ z[1] = "span"
        /\ DOMAIN spans' = DOMAIN spans \cup {Len(spans) + 1}
        /\ \A i \in DOMAIN spans : spans'[i] = before[i]
    BY <1>2, <1>3, <1>7, <2>1, ListsOne DEF FlushInv
  <2>3. ASSUME NEW x \in Spanned', x # z
        PROVE  (x[1] = "span" /\ x[2] \in DOMAIN spans) \/ SpanAt(x)' = SpanAt(x)
    <3>1. CASE x \in {"span"} \X DOMAIN spans'
      BY <2>1, <2>2, <2>3, <3>1
    <3>2. CASE x \in {"pending"} \X {h \in Goroutines : pending'[h] # None}
      BY <1>7, <3>2 DEF SpanAt
    <3> QED BY <3>1, <3>2 DEF Spanned, Live
  <2>4. /\ z \in Live' /\ z[1] # "seed" /\ Rest(z) /\ SpanAt(z)' = child /\ SeedAt(z)' = child.seed
        /\ p \in DOMAIN spans' /\ \A i \in DOMAIN spans : i \in DOMAIN spans' /\ spans'[i] = before[i]
    BY <2>2
  <2>5. \A x \in Spanned' : x # z => \/ x[1] = "span" /\ x[2] \in DOMAIN spans
                                    \/ SpanAt(x)' = SpanAt(x)
    BY <2>3
  <2> QED BY <1>3, <1>6, <2>4, <2>5
<1>8. ASSUME spans' = before, NEW todo,
             pending' = [pending EXCEPT ![g] = [stage |-> "ask", todo |-> todo, span |-> child]]
      PROVE  LiveInv' /\ SpanInv' /\ ViewsKept
  <2>1. PICK z, item : z = <<"pending", g>> /\ item = [stage |-> "ask", todo |-> todo, span |-> child]
    OBVIOUS
  <2>2. item # None /\ item.span = child
    BY <2>1 DEF None
  <2>3. DOMAIN pending = Goroutines /\ Counted(spans') /\ DOMAIN spans' = DOMAIN spans
    BY <1>2, <1>8 DEF FlushInv, Counted
  <2>4. /\ Rest(z) /\ z \in Live' /\ SpanAt(z)' = child /\ SeedAt(z)' = child.seed /\ z[1] = "pending"
    BY <1>2, <1>8, <2>1, <2>2, <2>3, PendsOne, ZenonT(60)
  <2>5. ASSUME NEW x \in Spanned', x # z
        PROVE  (x[1] = "span" /\ x[2] \in DOMAIN spans) \/ SpanAt(x)' = SpanAt(x)
    <3>1. CASE x \in {"span"} \X DOMAIN spans'
      BY <2>3, <3>1
    <3>2. CASE x \in {"pending"} \X {h \in Goroutines : pending'[h] # None}
      BY <1>8, <2>1, <2>3, <2>5, <3>2 DEF SpanAt
    <3> QED BY <3>1, <3>2 DEF Spanned, Live
  <2> QED BY <1>6, <1>8, <2>3, <2>4, <2>5
<1> QED BY <1>2, <1>3, <1>7, <1>8 DEF Places

-----------------------------------------------------------------------------
(***************************************************************************)
(* A request: react() has been, the codes and the copy are made, and the   *)
(* base loggers are told.                                                  *)
(***************************************************************************)

(* Seed.request: the seed of the request is a copy of the one that react() has
   been through. *)
Reacted(v) ==
    /\ IsWorld(v) /\ v.seed.current = 0 /\ Full(v.heap, v.seed)
    /\ v.fresh \in Nat /\ Ids(v.fresh, v.seed) /\ v.seed.code \in Seq(Nat)
    /\ ~v.seed.spanSet /\ ~v.seed.traceSet /\ v.seed.trace.trace # Zero

Rooting(v, c, d) == c = CopySpanSeed(v, FALSE) /\ d = [c.seed EXCEPT !.used = FALSE]

Rooted(v, c, d) ==
    /\ IsHeap(c.heap) /\ c.fresh = v.fresh /\ c.called = v.called
    /\ Untouched(v.heap, c.heap, {}) /\ \A a \in ArraysOf(d) : a > Len(v.heap)
    /\ Good(c.heap, c.fresh, d) /\ OfSpan(d)
    /\ d.trace = v.seed.trace /\ d.parent = v.seed.parent

(* The copy of the seed that react() has been through is a good seed of a
   span, with ids that are not zero. *)
LEMMA RootSeed ==
    ASSUME NEW v, Reacted(v), NEW c, NEW d, Rooting(v, c, d)
    PROVE  Rooted(v, c, d)
<1>1. IsWorld(v) /\ v.seed.current = 0 /\ FALSE \in BOOLEAN
  BY DEF Reacted
<1>2. PICK e : e = CopySpanSeed(v, FALSE)
  OBVIOUS
<1>3. /\ Spawned(v, e) /\ Kept(v, e) /\ SameIds(v.seed, e.seed) /\ SameView(v, e)
      /\ e.seed.current = v.seed.current
  BY <1>1, <1>2, CopySpanSeedGives
<1>4. c = e
  BY <1>2 DEF Rooting
<1>5. SeedShape(e.seed) /\ IsWorld(e)
  BY <1>3 DEF Spawned, IsWorld
<1>6. DOMAIN d = DOMAIN e.seed /\ d.used = FALSE /\ \A f \in DOMAIN e.seed \ {"used"} : d[f] = e.seed[f]
  BY <1>4, <1>5 DEF Rooting, SeedShape
<1>7. /\ d.list = e.seed.list /\ d.reactive = e.seed.reactive /\ d.current = e.seed.current
      /\ d.trace = e.seed.trace /\ d.parent = e.seed.parent /\ d.code = e.seed.code
      /\ d.spanSet = e.seed.spanSet /\ d.traceSet = e.seed.traceSet
  BY <1>5, <1>6 DEF SeedShape
<1>8. SeedShape(d)
  BY <1>5, <1>6, <1>7 DEF SeedShape
<1>9. Seated(e.heap, d)
  BY <1>1, <1>3, <1>5, <1>7, <1>8 DEF Seated, SeedSlices, IsWorld
<1>10. Full(e.heap, d)
  <2>1. /\ e.seed.reactive.len = v.seed.reactive.len
        /\ \A j \in 1..v.seed.reactive.len :
              e.heap[e.seed.reactive.array][j] = v.heap[v.seed.reactive.array][j]
    BY <1>1, <1>3, <1>5, SlotsCopied
  <2>2. Full(v.heap, v.seed)
    BY DEF Reacted
  <2> QED BY <1>7, <2>1, <2>2 DEF Full
<1>11. /\ e.seed.trace = v.seed.trace /\ e.seed.parent = v.seed.parent /\ e.seed.code = v.seed.code
       /\ e.seed.spanSet = v.seed.spanSet /\ e.seed.traceSet = v.seed.traceSet
       /\ e.fresh = v.fresh /\ e.called = v.called
  BY <1>3 DEF SameIds, Kept
<1>12. Ids(e.fresh, d) /\ OfSpan(d) /\ d.code \in Seq(Nat)
  BY <1>6, <1>7, <1>11 DEF Reacted, Ids, Settled, OfSpan
<1>13. Good(e.heap, e.fresh, d)
  BY <1>6, <1>9, <1>10, <1>12 DEF Good
<1>14. Untouched(v.heap, e.heap, {}) /\ \A a \in ArraysOf(d) : a > Len(v.heap)
  BY <1>3, <1>7 DEF Spawned, ArraysOf
<1> QED BY <1>4, <1>5, <1>7, <1>11, <1>12, <1>13, <1>14 DEF Rooted, IsWorld

-----------------------------------------------------------------------------
(* The span of a request. *)
IsRoot(s, c, d, origin) ==
    /\ s.tree = Len(trees) + 1 /\ s.parent = 0 /\ s.seed = d /\ s.forks = Program.forks /\ s.steps = 0
    /\ s.mods = <<>> /\ s.called = c.called /\ s.origin = origin

(* Seed.request() in its parts: react(), the copy, and the span of the
   request at the end of the list. *)
LEMMA RootMade ==
    ASSUME NEW v, NEW origin, Sprouted(v, origin)
    PROVE  \E c, d, s : Rooting(v, c, d) /\ Take(c) /\ IsRoot(s, c, d, origin) /\ spans' = Append(spans, s)
<1> DEFINE c == CopySpanSeed(v, FALSE)
           d == [c.seed EXCEPT !.used = FALSE]
<1>1. PICK s : /\ Take(c) /\ spans' = Append(spans, s)
               /\ \E bases, buffered :
                     s = [tree |-> Len(trees) + 1, parent |-> 0, bases |-> bases,
                          seed |-> d, buffered |-> buffered,
                          forks |-> Program.forks, steps |-> 0,
                          mods |-> <<>>, called |-> c.called, ignored |-> {}, origin |-> origin]
  BY DEF Sprouted
<1>2. Rooting(v, c, d)
  BY DEF Rooting
<1> HIDE DEF c, d
<1>3. IsRoot(s, c, d, origin)
  BY <1>1 DEF IsRoot
<1> QED BY <1>1, <1>2, <1>3

(* It is the first span with its tree, so its code is no other's. *)
LEMMA RootApart ==
    ASSUME FlushInv, NEW s, s.tree = Len(trees) + 1, NEW x \in Spanned
    PROVE  CodesApart(SpanAt(x), s) /\ CodesApart(s, SpanAt(x))
<1>1. Len(trees) + 1 \notin DOMAIN trees
  BY DEF FlushInv, IsSequence
<1>2. SpanAt(x).tree \in DOMAIN trees
  <2>1. CASE x \in {"span"} \X DOMAIN spans
    BY <2>1 DEF SpanAt, FlushInv, IsSpan
  <2>2. CASE x \in {"pending"} \X {g \in Goroutines : pending[g] # None}
    BY <2>2 DEF SpanAt, FlushInv, Adding, IsSpan
  <2> QED BY <2>1, <2>2 DEF Spanned, Live
<1> QED BY <1>1, <1>2 DEF CodesApart

(* What else is to be known of it. *)
RootKnown(s) ==
    /\ s.called = s.origin.callbacks \/ s.origin.reused
    /\ InTrace(s)

(* The span of a request may take its place in the list: it is in a tree of
   its own, so that no other span of that request has its code. *)
LEMMA RootSpans ==
    ASSUME FlushInv, LiveInv, SpanInv, NEW s, NEW c, NEW d, NEW origin, IsRoot(s, c, d, origin), RootKnown(s),
           Program.forks \in Nat, spans' = Append(spans, s), Marked, UNCHANGED pending,
           NEW z, z = <<"span", Len(spans) + 1>>
    PROVE  /\ SpanInv' /\ Rest(z) /\ Others(z) /\ z \in Live' /\ z[1] = "span"
           /\ SpanAt(z)' = s /\ SeedAt(z)' = d
<1>1. IsSequence(spans) /\ Counted(spans)
  BY SameSpanSelf DEF FlushInv, Counted
<1>2. /\ Rest(z) /\ z \in Live' /\ SpanAt(z)' = s /\ SeedAt(z)' = s.seed /\ z[1] = "span"
      /\ IsSequence(spans') /\ DOMAIN spans' = DOMAIN spans \cup {Len(spans) + 1}
      /\ \A i \in DOMAIN spans : spans'[i] = spans[i]
  BY <1>1, ListsOne
<1>3. Others(z)
  BY <1>2, RestOthers
<1>4. ASSUME NEW x \in Spanned', x # z
      PROVE  (x[1] = "span" /\ x[2] \in DOMAIN spans) \/ SpanAt(x)' = SpanAt(x)
  <2>1. CASE x \in {"span"} \X DOMAIN spans'
    BY <1>2, <1>4, <2>1
  <2>2. CASE x \in {"pending"} \X {h \in Goroutines : pending'[h] # None}
    BY <2>2 DEF SpanAt
  <2> QED BY <2>1, <2>2 DEF Spanned, Live
<1>5. Counting
  <2>1. \A i \in DOMAIN spans : Numbered(spans[i])
    BY AllNumbered
  <2> QED BY <1>2, <2>1, SameSpanSelf DEF Counting, Numbered
<1>6. Known(s, spans')
  BY DEF RootKnown, IsRoot, Known
<1>7. \A x \in Spanned : CodesApart(SpanAt(x), s) /\ CodesApart(s, SpanAt(x))
  <2>1. s.tree = Len(trees) + 1
    BY DEF IsRoot
  <2> QED BY <2>1, RootApart
<1>8. SpanInv'
  BY <1>2, <1>4, <1>5, <1>6, <1>7, SpansRest
<1> QED BY <1>2, <1>3, <1>8 DEF IsRoot

-----------------------------------------------------------------------------
(* Seed.Request and Seed.SubSpan: react() for a seed e that the program holds. *)
Requesting(e, v, isRequest) ==
    v = React(Of(e), isRequest) /\ (isRequest \/ e.trace.trace # Zero)

Requested(e, v) ==
    /\ Reacted(v) /\ v.fresh >= fresh
    /\ HeapServes(Of(e), v.heap)
    /\ v.seed.trace.span \in 1..fresh => v.seed.trace.span = e.trace.span
    /\ ~e.used => v.called = Filled(View(heap, e.reactive))

(* Seed.Request() and Seed.SubSpan() call react() on the seed itself, into
   whose slices it writes: its own still have what they need, and an id
   that was drawn before is the one the seed had. *)
LEMMA RequestSeed ==
    ASSUME IsHeap(heap), fresh \in Nat, NEW e, Good(heap, fresh, e), NEW isRequest \in BOOLEAN, NEW v,
           Requesting(e, v, isRequest)
    PROVE  Requested(e, v)
<1>1. PICK w : w = Of(e)
  OBVIOUS
<1>2. /\ IsWorld(w) /\ w.heap = heap /\ w.fresh = fresh /\ w.seed = e
      /\ w.called = <<>> /\ w.seed.current = 0
  BY <1>1, OfWorld DEF Good
<1>3. Settled(w.fresh, w.seed) /\ v = React(w, isRequest) /\ (isRequest \/ w.seed.trace.trace # Zero)
  BY <1>1, <1>2 DEF Good, Ids, Requesting
<1>4. /\ Sprouts(w, v, Start(w, isRequest)) /\ Full(v.heap, v.seed)
      /\ v.fresh \in Nat /\ v.fresh >= w.fresh /\ Ids(v.fresh, v.seed)
      /\ v.seed.trace.trace # Zero
      /\ v.seed.trace.span = w.seed.trace.span \/ v.seed.trace.span \notin 1..w.fresh
  BY <1>2, <1>3, SproutGives
<1>5. /\ IsWorld(v) /\ v.seed.current = 0 /\ HeapServes(w, v.heap)
      /\ v.seed.code = w.seed.code /\ v.seed.traceSet = FALSE /\ v.seed.spanSet = FALSE
      /\ (\A j \in 1..w.seed.reactive.len : Slot(w, j) # Nil) => v.called = View(w.heap, w.seed.reactive)
  BY <1>4 DEF Sprouts
<1>6. Reacted(v)
  BY <1>2, <1>4, <1>5 DEF Reacted, Good
<1>7. ASSUME ~e.used
      PROVE  v.called = Filled(View(heap, e.reactive))
  <2>1. Full(heap, e)
    BY <1>7 DEF Good
  <2>2. PICK slots : slots = View(heap, e.reactive)
    OBVIOUS
  <2>3. v.called = slots
    BY <1>2, <1>5, <2>1, <2>2 DEF Full, Slot
  <2>4. IsSlice(heap, e.reactive)
    BY <1>2 DEF IsWorld, SeedSlices
  <2>5. Len(slots) = e.reactive.len /\ \A j \in 1..e.reactive.len : slots[j] = heap[e.reactive.array][j]
    BY <2>2, <2>4, ViewOf
  <2>6. \A j \in 1..Len(slots) : slots[j] # Nil
    BY <2>1, <2>5 DEF Full
  <2>7. slots \in Seq(DOMAIN Callbacks \cup {Nil})
    <3>1. slots \in Seq(DOMAIN Callbacks)
      BY <1>4, <2>3 DEF Sprouts
    <3> QED BY <3>1, SeqWithin
  <2>8. Filled(slots) = slots
    BY <2>6, <2>7, FilledGives
  <2> QED BY <2>2, <2>3, <2>8
<1> QED BY <1>1, <1>2, <1>4, <1>5, <1>6, <1>7 DEF Requested

(* What was there before, and the arrays of the seed that sprouts. *)
LEMMA RequestHeap ==
    ASSUME IsHeap(heap), NEW e, Seated(heap, e), NEW v, Requested(e, v), NEW c, NEW d, Rooted(v, c, d)
    PROVE  /\ Untouched(heap, c.heap, ArraysOf(e)) /\ Seated(c.heap, e)
           /\ \A a \in ArraysOf(d) : a > Len(heap)
<1>1. PICK w : w = Of(e)
  OBVIOUS
<1>2. /\ IsWorld(w) /\ w.heap = heap /\ w.seed = e /\ w.seed.current = 0
  BY <1>1, OfWorld
<1>3. PICK h, k : h = v.heap /\ k = c.heap
  OBVIOUS
<1>4. /\ HeapServes(w, h) /\ Untouched(h, k, {}) /\ IsHeap(h) /\ IsHeap(k)
      /\ \A a \in ArraysOf(d) : a > Len(h)
  BY <1>1, <1>3 DEF Requested, Rooted, Reacted, IsWorld
<1>5. Len(h) \in Nat /\ Len(k) \in Nat /\ \A a \in {} : a > Len(w.heap)
  BY <1>4, HeapArray
<1>6. HeapServes(w, k)
  BY <1>2, <1>4, <1>5, ServedStill
<1>7. Seated(k, w.seed)
  BY <1>2, <1>4, <1>6, SeatedServed
<1>8. Untouched(heap, k, ArraysOf(e))
  BY <1>2, <1>6 DEF HeapServes, ArraysOf
<1>9. Len(h) >= Len(heap) /\ Len(heap) \in Nat
  BY <1>2, <1>4, HeapArray DEF HeapServes, Untouched
<1>10. \A a \in ArraysOf(d) : a > Len(heap)
  <2>1. \A a \in ArraysOf(d) : a \in Int
    BY DEF Rooted, Good, Seated, SeedSlices, IsSlice, ArraysOf
  <2> QED BY <1>4, <1>5, <1>9, <2>1
<1> QED BY <1>2, <1>3, <1>7, <1>8, <1>10

(* Seed.Request() and Seed.SubSpan() keep the invariant and everybody's
   callbacks. *)
LEMMA RequestKeeps ==
    ASSUME FlushInv, LiveInv, SpanInv, IsSequence(seeds), Program.forks \in Nat, NEW g, NEW i \in DOMAIN seeds,
           NEW isRequest \in BOOLEAN, Request(g, i, isRequest)
    PROVE  LiveInv' /\ SpanInv' /\ IsSequence(seeds') /\ ViewsKept
<1>1. PICK e, x, z : e = seeds[i] /\ x = <<"seed", i>> /\ z = <<"span", Len(spans) + 1>>
  OBVIOUS
<1>2. x \in Live /\ x[1] = "seed" /\ SeedAt(x) = e /\ Reused(x) = e.used
  BY <1>1 DEF Live, SeedAt, Reused
<1>3. IsHeap(heap) /\ fresh \in Nat /\ Good(heap, fresh, e)
  BY <1>2 DEF LiveInv
<1>4. PICK v, origin : /\ Requesting(e, v, isRequest) /\ origin = Origin(e, NoHeaders)
                       /\ Sprouted(v, origin)
  BY <1>1 DEF Request, Requesting
<1>5. Requested(e, v) /\ Reacted(v)
  BY <1>3, <1>4, RequestSeed DEF Requested
<1>6. PICK c, d, s : Rooting(v, c, d) /\ Take(c) /\ IsRoot(s, c, d, origin) /\ spans' = Append(spans, s)
  BY <1>4, RootMade
<1>7. Rooted(v, c, d)
  BY <1>5, <1>6, RootSeed
<1>8. /\ Untouched(heap, c.heap, ArraysOf(e)) /\ Seated(c.heap, e)
      /\ \A a \in ArraysOf(d) : a > Len(heap)
  BY <1>3, <1>5, <1>7, RequestHeap DEF Good
<1>9. IsSequence(seeds') /\ DOMAIN seeds' = DOMAIN seeds /\ Marked /\ seeds'[i].used = TRUE
  <2>1. PICK t : t = [e EXCEPT !.used = TRUE]
    OBVIOUS
  <2>2. seeds' = [seeds EXCEPT ![i] = t]
    BY <1>1, <2>1 DEF Request
  <2>3. /\ IsSequence(seeds') /\ DOMAIN seeds' = DOMAIN seeds /\ seeds'[i] = t
        /\ \A j \in DOMAIN seeds : j # i => seeds'[j] = seeds[j]
    BY <2>2, SequenceUpdated
  <2>4. t.used = TRUE
    BY <1>3, <2>1 DEF Good, Seated, SeedShape
  <2> QED BY <1>1, <2>1, <2>3, <2>4 DEF Marked, Like
<1>10. /\ origin.callbacks = Filled(View(heap, e.reactive)) /\ origin.reused = e.used
       /\ origin.headers = NoHeaders
  BY <1>4 DEF Origin
<1>11. RootKnown(s)
  <2>1. s.origin = origin /\ s.called = v.called
    BY <1>6, <1>7 DEF IsRoot, Rooted
  <2>2. InTrace(s)
    BY <1>10, <2>1 DEF InTrace, NoHeaders
  <2>3. e.used \in BOOLEAN /\ (~e.used => v.called = Filled(View(heap, e.reactive)))
    BY <1>3, <1>5 DEF Good, Requested
  <2> QED BY <1>10, <2>1, <2>2, <2>3 DEF RootKnown
<1>12. /\ SpanInv' /\ Rest(z) /\ Others(z) /\ z \in Live' /\ z[1] = "span"
       /\ SpanAt(z)' = s /\ SeedAt(z)' = d
  <2>1. UNCHANGED pending
    BY DEF Request
  <2> QED BY <1>1, <1>6, <1>9, <1>11, <2>1, RootSpans
<1>13. /\ IsHeap(heap') /\ fresh' \in Nat /\ fresh' >= fresh /\ heap' = c.heap /\ fresh' = c.fresh
  BY <1>5, <1>6, <1>7 DEF Take, Rooted, Reacted, Requested
<1>14. Good(heap', fresh', d) /\ OfSpan(d) /\ d.trace = v.seed.trace
  BY <1>7, <1>13 DEF Rooted
<1>15. d.trace.span \in 1..fresh => d.trace.span = e.trace.span
  BY <1>5, <1>14 DEF Requested
<1>16. Reused(x)' /\ (Reused(x) => Reused(z)')
  <2>1. s.origin = origin
    BY <1>6 DEF IsRoot
  <2>2. Reused(z)' = e.used /\ Reused(x)' = TRUE
    BY <1>1, <1>9, <1>10, <1>12, <2>1 DEF Reused
  <2> QED BY <1>2, <2>2
<1>17. SeedAt(x)'.used = TRUE
  BY <1>1, <1>9 DEF SeedAt
<1>18. Births(x, z, d)
  BY <1>2, <1>8, <1>12, <1>13, <1>14, <1>15, <1>16, <1>17 DEF Births
<1>19. LiveInv'
  BY <1>2, <1>12, <1>18, LiveGrows
<1>20. SlicesStay
  <2>1. \A j \in DOMAIN seeds : seeds'[j].reactive = seeds[j].reactive
    <3>1. \A j \in DOMAIN seeds : SeedShape(seeds[j])
      <4>1. \A j \in DOMAIN seeds : <<"seed", j>> \in Live /\ SeedAt(<<"seed", j>>) = seeds[j]
        BY DEF Live, SeedAt
      <4> QED BY <4>1 DEF LiveInv, Good, Seated
    <3> QED BY <1>9, <3>1, LikeFields DEF Marked
  <2>2. \A j \in DOMAIN spans : spans'[j] = spans[j]
    BY <1>6, SequenceGrows DEF FlushInv
  <2> QED BY <2>1, <2>2 DEF SlicesStay
<1>21. ViewsKept
  <2>1. ASSUME NEW y \in Live, y # x
        PROVE  View(heap', SeedAt(y).reactive) = View(heap, SeedAt(y).reactive)
    <3>1. IsHeap(heap') /\ Untouched(heap, heap', ArraysOf(SeedAt(x)))
      BY <1>2, <1>8, <1>13
    <3> QED BY <1>2, <2>1, <3>1, OthersSeated
  <2>2. \A y \in Live : y # <<"seed", i>> => View(heap', SeedAt(y).reactive) = View(heap, SeedAt(y).reactive)
    BY <1>1, <2>1
  <2> QED BY <1>20, <2>2, ViewsOfOthers
<1> QED BY <1>9, <1>12, <1>19, <1>21

-----------------------------------------------------------------------------
(* xopmiddle: the bundle in the making, where n identifiers had been drawn. *)
Bundled(b, n) ==
    /\ DOMAIN b = {"parent", "trace", "fresh"} /\ IsPair(b.parent) /\ IsPair(b.trace)
    /\ b.fresh \in Nat /\ b.fresh >= n
    /\ b.trace.trace \in Int /\ b.trace.trace <= b.fresh
    /\ b.trace.span \in Int /\ b.trace.span <= b.fresh /\ b.trace.span \notin 1..n

Ran(b, trace, span, c) == c = RandomIds(b, trace, span)

(* A random trace or span id is one that was never drawn before; what is
   not drawn stays. *)
LEMMA RandomIdsGive ==
    ASSUME NEW n \in Nat, NEW b, Bundled(b, n), NEW trace \in BOOLEAN, NEW span \in BOOLEAN,
           NEW c, Ran(b, trace, span, c)
    PROVE  /\ Bundled(c, n) /\ c.parent = b.parent
           /\ trace => c.trace.trace # Zero
           /\ ~trace => c.trace.trace = b.trace.trace
           /\ span => c.trace.span # Zero
           /\ ~span => c.trace.span = b.trace.span
<1> DEFINE t == IF trace THEN [b EXCEPT !.fresh = @ + 1, !.trace.trace = b.fresh + 1] ELSE b
<1>1. c = IF span THEN [t EXCEPT !.fresh = @ + 1, !.trace.span = t.fresh + 1] ELSE t
  BY DEF RandomIds, Ran
<1>2. /\ Bundled(t, n) /\ t.parent = b.parent /\ t.trace.span = b.trace.span
      /\ trace => t.trace.trace # Zero
      /\ ~trace => t.trace.trace = b.trace.trace
  <2>1. CASE ~trace
    BY <2>1
  <2>2. CASE trace
    <3>1. /\ DOMAIN t = DOMAIN b /\ t.parent = b.parent /\ t.fresh = b.fresh + 1
          /\ DOMAIN t.trace = DOMAIN b.trace /\ t.trace.trace = b.fresh + 1
          /\ t.trace.span = b.trace.span
      BY <2>2 DEF Bundled, IsPair
    <3> HIDE DEF t
    <3> QED BY <2>2, <3>1 DEF Bundled, IsPair, Zero
  <2> QED BY <2>1, <2>2
<1> HIDE DEF t
<1>3. CASE ~span
  BY <1>1, <1>2, <1>3
<1>4. CASE span
  <2>1. /\ DOMAIN c = DOMAIN t /\ c.parent = t.parent /\ c.fresh = t.fresh + 1
        /\ DOMAIN c.trace = DOMAIN t.trace /\ c.trace.span = t.fresh + 1
        /\ c.trace.trace = t.trace.trace
    BY <1>1, <1>2, <1>4 DEF Bundled, IsPair
  <2>2. t.fresh + 1 \notin 1..n
    BY <1>2 DEF Bundled
  <2>3. Bundled(c, n)
    BY <1>2, <2>1, <2>2 DEF Bundled, IsPair
  <2>4. c.trace.span # Zero
    BY <1>2, <2>1 DEF Bundled, Zero
  <2> QED BY <1>2, <1>4, <2>1, <2>3, <2>4
<1> QED BY <1>2, <1>3, <1>4

(* The headers that are used, and that the trace and its parent are theirs. *)
Used(h) == IF h.b3.is # "none" THEN h.b3
           ELSE IF h.traceparent.is # "none" THEN h.traceparent ELSE h.xb3

FromTrace(u, b) ==
    u.is = "ids" /\ u.trace # Zero => b.trace.trace = u.trace /\ b.parent.trace = u.trace

(* An identifier of a header is one that nobody has drawn. *)
LEMMA HeaderId ==
    ASSUME NEW n \in Nat, NEW id, IsId(id)
    PROVE  id \in Int /\ \A f \in Nat : id <= f /\ id \notin 1..n
BY DEF IsId, FromProgram, Zero

AsB3(b, h, c) == c = SetByB3Header(b, h)
AsParentTrace(b, h, c) == c = SetByParentTraceHeader(b, h)
AsXB3(b, h, c) == c = SetByXB3Headers(b, h)

(* The b3 header: the bundle and its parent are in the trace of the header,
   if it has one, and its span id is one that was not drawn before the
   request. *)
LEMMA B3Gives ==
    ASSUME NEW n \in Nat, NEW b, Bundled(b, n), NEW h, h.is # "none",
           h.is \in {"none", "malformed", "sampled"} \/ HasIds(h), NEW c, AsB3(b, h, c)
    PROVE  Bundled(c, n) /\ FromTrace(h, c)
<1>1. CASE h.is = "sampled"
  <2>1. PICK t : t = [b EXCEPT !.parent = NoTrace, !.trace = NoTrace]
    OBVIOUS
  <2>2. Bundled(t, n)
    BY <2>1 DEF Bundled, NoTrace, IsPair, Zero
  <2>3. Ran(t, TRUE, TRUE, c)
    BY <1>1, <2>1 DEF SetByB3Header, AsB3, Ran
  <2>4. Bundled(c, n)
    BY <2>2, <2>3, RandomIdsGive
  <2> QED BY <1>1, <2>4 DEF FromTrace
<1>2. CASE h.is = "malformed"
  BY <1>2 DEF SetByB3Header, AsB3, Ran, FromTrace
<1>3. CASE h.is = "ids"
  <2>1. HasIds(h)
    BY <1>3
  <2>2. c = [b EXCEPT !.parent = [trace |-> h.trace, span |-> h.parent],
                      !.trace  = [trace |-> h.trace, span |-> h.span]]
    BY <1>3 DEF SetByB3Header, AsB3, Ran
  <2>3. /\ DOMAIN c = DOMAIN b /\ c.fresh = b.fresh
        /\ IsPair(c.parent) /\ IsPair(c.trace) /\ c.parent.trace = h.trace
        /\ c.trace.trace = h.trace /\ c.trace.span = h.span
    BY <2>2 DEF Bundled, IsPair
  <2>4. /\ h.trace \in Int /\ h.span \in Int
        /\ \A f \in Nat : h.trace <= f /\ h.span <= f /\ h.span \notin 1..n
    BY <2>1, HeaderId DEF HasIds
  <2>5. Bundled(c, n)
    BY <2>3, <2>4 DEF Bundled
  <2> QED BY <2>3, <2>5 DEF FromTrace
<1> QED BY <1>1, <1>2, <1>3 DEF HasIds

(* The traceparent header: the bundle and its parent are in the trace of
   the header, if it has one, and its span id is one that was not drawn
   before the request. *)
LEMMA ParentTraceGives ==
    ASSUME NEW n \in Nat, NEW b, Bundled(b, n), NEW h, h.is # "none",
           h.is \in {"none", "malformed"} \/ HasIds(h), NEW c, AsParentTrace(b, h, c)
    PROVE  Bundled(c, n) /\ FromTrace(h, c)
<1>1. CASE h.is = "malformed"
  <2>1. PICK t : t = [b EXCEPT !.trace = NoTrace]
    OBVIOUS
  <2>2. Bundled(t, n)
    BY <2>1 DEF Bundled, NoTrace, IsPair, Zero
  <2>3. Ran(t, TRUE, TRUE, c)
    BY <1>1, <2>1 DEF SetByParentTraceHeader, AsParentTrace, Ran
  <2>4. Bundled(c, n)
    BY <2>2, <2>3, RandomIdsGive
  <2> QED BY <1>1, <2>4 DEF FromTrace
<1>2. CASE h.is = "ids"
  <2>1. HasIds(h)
    BY <1>2
  <2>2. PICK p, t : p = [trace |-> h.trace, span |-> h.span] /\ t = [b EXCEPT !.parent = p, !.trace = p]
    OBVIOUS
  <2>3. Ran(t, FALSE, TRUE, c)
    BY <1>2, <2>2 DEF SetByParentTraceHeader, AsParentTrace, Ran
  <2>4. /\ DOMAIN t = DOMAIN b /\ t.fresh = b.fresh
        /\ IsPair(t.parent) /\ IsPair(t.trace) /\ t.parent.trace = h.trace
        /\ t.trace.trace = h.trace /\ t.trace.span = h.span
    BY <2>2 DEF Bundled, IsPair
  <2>5. /\ h.trace \in Int /\ h.span \in Int
        /\ \A f \in Nat : h.trace <= f /\ h.span <= f /\ h.span \notin 1..n
    BY <2>1, HeaderId DEF HasIds
  <2>6. Bundled(t, n)
    BY <2>4, <2>5 DEF Bundled
  <2>a. PICK never \in BOOLEAN, always \in BOOLEAN : never = FALSE /\ always = TRUE
    OBVIOUS
  <2>b. Ran(t, never, always, c)
    BY <2>3, <2>a
  <2>c. /\ Bundled(c, n) /\ c.parent = t.parent
        /\ ~never => c.trace.trace = t.trace.trace
    BY <2>6, <2>b, RandomIdsGive
  <2>7. Bundled(c, n) /\ c.parent = t.parent /\ c.trace.trace = t.trace.trace
    BY <2>a, <2>c
  <2> QED BY <2>4, <2>7 DEF FromTrace
<1> QED BY <1>1, <1>2 DEF HasIds

(* The X-B3 headers: the bundle and its parent are in the trace of the
   header, if it has one, and its span id is one that was not drawn before
   the request. *)
LEMMA XB3Gives ==
    ASSUME NEW n \in Nat, NEW b, Bundled(b, n), NEW h, HasIds(h), NEW c, AsXB3(b, h, c)
    PROVE  Bundled(c, n) /\ FromTrace(h, c)
<1>1. PICK p, t : /\ p = [trace |-> h.trace, span |-> h.parent]
                  /\ t = [b EXCEPT !.trace.trace = h.trace, !.parent = p]
  OBVIOUS
<1>2. /\ DOMAIN t = DOMAIN b /\ t.fresh = b.fresh
      /\ IsPair(t.parent) /\ IsPair(t.trace) /\ t.parent.trace = h.trace
      /\ t.trace.trace = h.trace /\ t.trace.span = b.trace.span
  BY <1>1 DEF Bundled, IsPair
<1>3. /\ h.trace \in Int /\ h.span \in Int
      /\ \A f \in Nat : h.trace <= f /\ h.span <= f /\ h.span \notin 1..n
  BY HeaderId DEF HasIds
<1>4. Bundled(t, n)
  BY <1>2, <1>3 DEF Bundled
<1>5. CASE h.span = Zero
  <2>1. Ran(t, FALSE, TRUE, c)
    BY <1>1, <1>5 DEF SetByXB3Headers, AsXB3, Ran
  <2>a. PICK never \in BOOLEAN, always \in BOOLEAN : never = FALSE /\ always = TRUE
    OBVIOUS
  <2>b. Ran(t, never, always, c)
    BY <2>1, <2>a
  <2>c. /\ Bundled(c, n) /\ c.parent = t.parent
        /\ ~never => c.trace.trace = t.trace.trace
    BY <1>4, <2>b, RandomIdsGive
  <2>2. Bundled(c, n) /\ c.parent = t.parent /\ c.trace.trace = t.trace.trace
    BY <2>a, <2>c
  <2> QED BY <1>2, <2>2 DEF FromTrace
<1>6. CASE h.span # Zero
  <2>1. c = [t EXCEPT !.trace.span = h.span]
    BY <1>1, <1>6 DEF SetByXB3Headers, AsXB3, Ran
  <2>2. /\ DOMAIN c = DOMAIN t /\ c.fresh = t.fresh /\ c.parent = t.parent
        /\ DOMAIN c.trace = DOMAIN t.trace /\ c.trace.trace = t.trace.trace /\ c.trace.span = h.span
    BY <1>4, <2>1 DEF Bundled, IsPair
  <2>3. Bundled(c, n)
    BY <1>3, <1>4, <2>2 DEF Bundled, IsPair
  <2> QED BY <1>2, <2>2, <2>3 DEF FromTrace
<1> QED BY <1>5, <1>6

AsHeaders(b, h, c) == c = FromHeaders(b, h)

(* makeChildSpan(): the request has both identifiers, and those of the trace
   that it came with. *)
LEMMA HeadersGive ==
    ASSUME NEW n \in Nat, NEW b, Bundled(b, n), NEW h, AreHeaders(h), NEW c, AsHeaders(b, h, c)
    PROVE  Bundled(c, n) /\ c.trace.trace # Zero /\ c.trace.span # Zero /\ FromTrace(Used(h), c)
<1>1. PICK s : /\ h.b3.is # "none" => AsB3(b, h.b3, s)
               /\ h.b3.is = "none" /\ h.traceparent.is # "none" => AsParentTrace(b, h.traceparent, s)
               /\ h.b3.is = "none" /\ h.traceparent.is = "none" /\ h.xb3.is # "none" => AsXB3(b, h.xb3, s)
               /\ h.b3.is = "none" /\ h.traceparent.is = "none" /\ h.xb3.is = "none" => s = b
               /\ Ran(s, s.trace.trace = Zero, s.trace.span = Zero, c)
  <2>1. PICK t : t = CASE h.b3.is # "none" -> SetByB3Header(b, h.b3)
                       [] h.b3.is = "none" /\ h.traceparent.is # "none" -> SetByParentTraceHeader(b, h.traceparent)
                       [] h.b3.is = "none" /\ h.traceparent.is = "none" /\ h.xb3.is # "none" ->
                              SetByXB3Headers(b, h.xb3)
                       [] OTHER -> b
    OBVIOUS
  <2>2. Ran(t, t.trace.trace = Zero, t.trace.span = Zero, c)
    BY <2>1 DEF AsHeaders, FromHeaders, Ran
  <2>3. /\ h.b3.is # "none" => AsB3(b, h.b3, t)
        /\ h.b3.is = "none" /\ h.traceparent.is # "none" => AsParentTrace(b, h.traceparent, t)
        /\ h.b3.is = "none" /\ h.traceparent.is = "none" /\ h.xb3.is # "none" => AsXB3(b, h.xb3, t)
        /\ h.b3.is = "none" /\ h.traceparent.is = "none" /\ h.xb3.is = "none" => t = b
    BY <2>1 DEF AsB3, AsParentTrace, AsXB3
  <2> QED BY <2>2, <2>3
<1>2. Bundled(s, n) /\ FromTrace(Used(h), s)
  <2>1. CASE h.b3.is # "none"
    <3>1. h.b3.is \in {"none", "malformed", "sampled"} \/ HasIds(h.b3)
      BY DEF AreHeaders
    <3>2. AsB3(b, h.b3, s)
      BY <1>1, <2>1
    <3>3. Bundled(s, n) /\ FromTrace(h.b3, s)
      BY <2>1, <3>1, <3>2, B3Gives
    <3> QED BY <2>1, <3>3 DEF Used
  <2>2. CASE h.b3.is = "none" /\ h.traceparent.is # "none"
    <3>1. h.traceparent.is \in {"none", "malformed"} \/ HasIds(h.traceparent)
      BY DEF AreHeaders
    <3>2. AsParentTrace(b, h.traceparent, s)
      BY <1>1, <2>2
    <3>3. Bundled(s, n) /\ FromTrace(h.traceparent, s)
      BY <2>2, <3>1, <3>2, ParentTraceGives
    <3> QED BY <2>2, <3>3 DEF Used
  <2>3. CASE h.b3.is = "none" /\ h.traceparent.is = "none" /\ h.xb3.is # "none"
    <3>1. HasIds(h.xb3)
      BY <2>3 DEF AreHeaders
    <3>2. AsXB3(b, h.xb3, s)
      BY <1>1, <2>3
    <3>3. Bundled(s, n) /\ FromTrace(h.xb3, s)
      BY <3>1, <3>2, XB3Gives
    <3> QED BY <2>3, <3>3 DEF Used
  <2>4. CASE h.b3.is = "none" /\ h.traceparent.is = "none" /\ h.xb3.is = "none"
    BY <1>1, <2>4 DEF Used, FromTrace
  <2> QED BY <2>1, <2>2, <2>3, <2>4
<1>3. PICK trace \in BOOLEAN, span \in BOOLEAN : trace = (s.trace.trace = Zero) /\ span = (s.trace.span = Zero)
  OBVIOUS
<1>4. Ran(s, trace, span, c)
  BY <1>1, <1>3
<1>5. /\ Bundled(c, n) /\ c.parent = s.parent
      /\ trace => c.trace.trace # Zero
      /\ ~trace => c.trace.trace = s.trace.trace
      /\ span => c.trace.span # Zero
      /\ ~span => c.trace.span = s.trace.span
  BY <1>2, <1>4, RandomIdsGive
<1>6. c.trace.trace # Zero /\ c.trace.span # Zero
  BY <1>3, <1>5
<1>7. FromTrace(Used(h), c)
  <2>1. FromTrace(Used(h), s)
    BY <1>2
  <2> QED BY <1>3, <1>5, <2>1 DEF FromTrace
<1> QED BY <1>5, <1>6, <1>7

-----------------------------------------------------------------------------
(***************************************************************************)
(* The middleware: headers to a seed, and the seed to a request.           *)
(***************************************************************************)

Bundling(e, b, headers) ==
    AsHeaders([parent |-> e.parent, trace |-> e.trace, fresh |-> fresh], headers, b)

(* Whatever the headers, the middleware ends up with trace and span ids
   that are not zero; the span id was not drawn before, and the trace is
   that of the header that is used, if it has one. *)
LEMMA BundleGives ==
    ASSUME fresh \in Nat, NEW e, Good(heap, fresh, e), e.trace.span <= 0, NEW headers, AreHeaders(headers),
           NEW b, Bundling(e, b, headers)
    PROVE  /\ Bundled(b, fresh) /\ b.trace.trace # Zero /\ b.trace.span # Zero
           /\ FromTrace(Used(headers), b)
<1>1. PICK a : a = [parent |-> e.parent, trace |-> e.trace, fresh |-> fresh]
  OBVIOUS
<1>2. AsHeaders(a, headers, b)
  BY <1>1 DEF Bundling
<1>3. /\ IsPair(e.parent) /\ IsPair(e.trace) /\ e.trace.trace \in Int /\ e.trace.span \in Int
      /\ e.trace.trace <= fresh
  BY DEF Good, Seated, SeedShape, Ids, Settled
<1>4. Bundled(a, fresh)
  BY <1>1, <1>3 DEF Bundled
<1> QED BY <1>2, <1>4, HeadersGive

(* The seed for a request: a copy of that of the middleware, with the bundle. *)
HttpBud(e, b, u) ==
    u = CopySeed([Of(e) EXCEPT !.fresh = b.fresh], <<[op |-> "bundle", arg |-> b]>>)

HttpBudded(e, b, u) ==
    /\ IsWorld(u) /\ u.seed.current = 0 /\ u.called = <<>>
    /\ u.fresh \in Nat /\ u.fresh >= fresh /\ Settled(u.fresh, u.seed)
    /\ Untouched(heap, u.heap, {}) /\ \A a \in ArraysOf(u.seed) : a > Len(heap)
    /\ u.seed.code \in Seq(Nat) /\ u.seed.used \in BOOLEAN
    /\ u.seed.trace = b.trace /\ u.seed.parent = b.parent /\ u.seed.traceSet = TRUE
    /\ u.seed.trace.span \notin 1..fresh
    /\ View(u.heap, u.seed.reactive) = View(heap, e.reactive)

(* The middleware copies the seed that it was given, and puts the bundle
   into the copy. *)
LEMMA HttpBudGives ==
    ASSUME IsHeap(heap), fresh \in Nat, NEW e, Good(heap, fresh, e),
           NEW b, Bundled(b, fresh), b.trace.trace # Zero, b.trace.span # Zero,
           NEW u, HttpBud(e, b, u)
    PROVE  HttpBudded(e, b, u)
<1>1. PICK w : w = [Of(e) EXCEPT !.fresh = b.fresh]
  OBVIOUS
<1>2. PICK o : o = Of(e)
  OBVIOUS
<1>3. /\ IsWorld(o) /\ o.heap = heap /\ o.seed = e /\ o.called = <<>> /\ e.current = 0
  BY <1>2, OfWorld DEF Good, Seated
<1>4. /\ DOMAIN w = DOMAIN o /\ w.heap = o.heap /\ w.seed = o.seed /\ w.called = o.called /\ w.fresh = b.fresh
  BY <1>1, <1>2, <1>3 DEF IsWorld
<1>5. IsWorld(w) /\ w.heap = heap /\ w.seed = e /\ w.called = <<>> /\ w.seed.current = 0
  BY <1>3, <1>4 DEF IsWorld
<1>6. w.fresh \in Nat /\ w.fresh >= fresh
  BY <1>4 DEF Bundled
<1>7. PICK m : m = [op |-> "bundle", arg |-> b]
  OBVIOUS
<1>8. PICK c : Budded(w, c, w.seed.parent) /\ CopySeed(w, <<m>>) = ApplyMods(c, <<m>>)
  <2>1. w.fresh \in Int
    BY <1>6
  <2> QED BY <1>5, <2>1, CopySeedGives
<1>9. u = WithBundle(c, b)
  <2>1. u = CopySeed(w, <<m>>)
    BY <1>1, <1>7 DEF HttpBud
  <2>2. ApplyMods(c, <<m>>) = Modified(c, m)
    BY OneMod
  <2>3. Modified(c, m) = WithBundle(c, b)
    BY <1>7 DEF Modified
  <2> QED BY <1>8, <2>1, <2>2, <2>3
<1>10. /\ Spawned(w, c) /\ IsWorld(c) /\ c.called = <<>> /\ c.seed.code = e.code /\ c.seed.used = e.used
       /\ c.seed.current = 0 /\ c.fresh \in {w.fresh, w.fresh + 1}
       /\ View(c.heap, c.seed.reactive) = View(heap, e.reactive)
  BY <1>5, <1>8 DEF Budded, Spawned, SameView
<1>11. /\ IsWorld(u) /\ HeapFollows(c, u) /\ Kept(c, u)
       /\ u.heap = c.heap /\ u.seed.reactive = c.seed.reactive
       /\ u.seed.trace = b.trace /\ u.seed.parent = b.parent
       /\ u.seed.traceSet = (c.seed.traceSet \/ c.seed.current = 0)
  <2>1. IsPair(b.parent) /\ IsPair(b.trace) /\ b.trace.trace \in Int /\ b.trace.span \in Int
    BY DEF Bundled
  <2> QED BY <1>9, <1>10, <2>1, WithBundleGives
<1>12. /\ Untouched(heap, u.heap, {}) /\ \A a \in ArraysOf(u.seed) : a > Len(heap)
  <2>1. Spawned(w, u)
    BY <1>5, <1>10, <1>11, SpawnedFollows
  <2> QED BY <1>5, <2>1 DEF Spawned, ArraysOf
<1>13. u.fresh \in Nat /\ u.fresh >= b.fresh /\ u.fresh >= fresh /\ u.seed.current = 0 /\ u.called = <<>>
  BY <1>4, <1>6, <1>10, <1>11 DEF Kept, HeapFollows
<1>14. Settled(u.fresh, u.seed) /\ u.seed.trace.span \notin 1..fresh
  BY <1>11, <1>13 DEF Settled, Bundled
<1>15. u.seed.code \in Seq(Nat) /\ u.seed.used \in BOOLEAN
  BY <1>10, <1>11 DEF Kept, Good
<1> QED BY <1>10, <1>11, <1>12, <1>13, <1>14, <1>15 DEF HttpBudded

Handled(e, b, v) ==
    /\ Reacted(v) /\ QuietBirth(v.seed, v.heap, v.fresh)
    /\ ~e.used => v.called = Filled(View(heap, e.reactive))
    /\ v.called \in Seq(DOMAIN Callbacks)
    /\ AllUntraced(v.called) => v.seed.trace = b.trace /\ v.seed.parent = b.parent

AsRequest(u, v) == v = React(u, TRUE)

(* react() on that copy, as of a request, keeps the ids of the bundle
   unless a callback of the program changes them. *)
LEMMA HttpSeed ==
    ASSUME IsHeap(heap), fresh \in Nat, NEW e, Good(heap, fresh, e),
           NEW b, NEW u, HttpBudded(e, b, u), NEW v, AsRequest(u, v)
    PROVE  Handled(e, b, v)
<1>1. PICK isRequest \in BOOLEAN : isRequest = TRUE
  OBVIOUS
<1>2. v = React(u, isRequest) /\ (isRequest \/ u.seed.trace.trace # Zero)
  BY <1>1 DEF AsRequest
<1>3. /\ QuietBirth(v.seed, v.heap, v.fresh) /\ IsWorld(v) /\ v.seed.current = 0
      /\ Full(v.heap, v.seed)
      /\ ~v.seed.spanSet /\ ~v.seed.traceSet /\ v.seed.trace.trace # Zero
      /\ Sprouts(u, v, Start(u, isRequest))
  BY <1>2, SproutQuietly DEF HttpBudded
<1>4. Reacted(v)
  BY <1>3 DEF Reacted, QuietBirth, Good
<1>5. Start(u, isRequest) = u
  BY DEF Start, HttpBudded
<1>6. /\ v.called \in Seq(DOMAIN Callbacks)
      /\ AllUntraced(v.called) => v.seed.trace = u.seed.trace /\ v.seed.parent = u.seed.parent
      /\ (\A j \in 1..u.seed.reactive.len : Slot(u, j) # Nil) => v.called = View(u.heap, u.seed.reactive)
  BY <1>3, <1>5 DEF Sprouts
<1>7. ASSUME ~e.used
      PROVE  v.called = Filled(View(heap, e.reactive))
  <2>1. PICK slots : slots = View(heap, e.reactive)
    OBVIOUS
  <2>2. IsSlice(heap, e.reactive) /\ IsHeap(u.heap) /\ IsSlice(u.heap, u.seed.reactive)
    BY DEF Good, Seated, HttpBudded, IsWorld, SeedSlices
  <2>a. /\ Len(View(heap, e.reactive)) = e.reactive.len
        /\ \A j \in 1..e.reactive.len : View(heap, e.reactive)[j] = heap[e.reactive.array][j]
    BY <2>2, ViewOf, SMTT(60)
  <2>b. /\ Len(View(u.heap, u.seed.reactive)) = u.seed.reactive.len
        /\ \A j \in 1..u.seed.reactive.len :
              View(u.heap, u.seed.reactive)[j] = u.heap[u.seed.reactive.array][j]
    BY <2>2, ViewOf
  <2>3. Len(slots) = e.reactive.len /\ \A j \in 1..e.reactive.len : slots[j] = heap[e.reactive.array][j]
    BY <2>1, <2>a
  <2>4. \A j \in 1..Len(slots) : slots[j] # Nil
    BY <1>7, <2>3 DEF Good, Full
  <2>5. View(u.heap, u.seed.reactive) = slots
    BY <2>1 DEF HttpBudded
  <2>6. /\ Len(slots) = u.seed.reactive.len
        /\ \A j \in 1..u.seed.reactive.len : slots[j] = u.heap[u.seed.reactive.array][j]
    BY <2>5, <2>b
  <2>7. v.called = slots
    BY <1>6, <2>4, <2>5, <2>6 DEF Slot
  <2>8. slots \in Seq(DOMAIN Callbacks \cup {Nil})
    BY <1>6, <2>7, SeqWithin
  <2>9. Filled(slots) = slots
    BY <2>4, <2>8, FilledGives
  <2> QED BY <2>1, <2>7, <2>9
<1>8. u.seed.trace = b.trace /\ u.seed.parent = b.parent
  BY DEF HttpBudded
<1> QED BY <1>3, <1>4, <1>6, <1>7, <1>8 DEF Handled

(* The middleware: the seed of a request is a copy of its own, and the request
   is in the trace that it came with. *)
LEMMA HandleRequestKeeps ==
    ASSUME FlushInv, LiveInv, SpanInv, IsSequence(seeds), Program.forks \in Nat, NEW g,
           NEW headers, AreHeaders(headers), HandleRequest(g, headers)
    PROVE  LiveInv' /\ SpanInv' /\ IsSequence(seeds') /\ ViewsKept
<1>1. PICK e, z : e = seeds[1] /\ z = <<"span", Len(spans) + 1>>
  OBVIOUS
<1>2. First \in Live /\ First[1] = "seed" /\ SeedAt(First) = e
  BY <1>1 DEF First, LiveInv, SeedAt
<1>3. IsHeap(heap) /\ fresh \in Nat /\ Good(heap, fresh, e) /\ e.trace.span <= 0
  BY <1>2 DEF LiveInv
<1>4. PICK b, u, v, origin : /\ Bundling(e, b, headers) /\ HttpBud(e, b, u) /\ AsRequest(u, v)
                             /\ origin = Origin(e, headers) /\ Sprouted(v, origin)
  BY <1>1 DEF HandleRequest, Bundling, AsHeaders, HttpBud, AsRequest
<1>5. /\ Bundled(b, fresh) /\ b.trace.trace # Zero /\ b.trace.span # Zero
      /\ FromTrace(Used(headers), b)
  BY <1>3, <1>4, BundleGives
<1>6. HttpBudded(e, b, u)
  BY <1>3, <1>4, <1>5, HttpBudGives
<1>7. Handled(e, b, v)
  BY <1>3, <1>4, <1>6, HttpSeed
<1>8. /\ Reacted(v) /\ QuietBirth(v.seed, v.heap, v.fresh)
      /\ ~e.used => v.called = Filled(View(heap, e.reactive))
      /\ v.called \in Seq(DOMAIN Callbacks)
      /\ AllUntraced(v.called) => v.seed.trace = b.trace /\ v.seed.parent = b.parent
  BY <1>7 DEF Handled
<1>9. PICK c, d, s : Rooting(v, c, d) /\ Take(c) /\ IsRoot(s, c, d, origin) /\ spans' = Append(spans, s)
  BY <1>4, RootMade
<1>10. Rooted(v, c, d)
  BY <1>8, <1>9, RootSeed
<1>11. /\ IsHeap(c.heap) /\ c.fresh = v.fresh /\ c.called = v.called
       /\ Untouched(v.heap, c.heap, {}) /\ \A a \in ArraysOf(d) : a > Len(v.heap)
       /\ Good(c.heap, c.fresh, d) /\ OfSpan(d)
       /\ d.trace = v.seed.trace /\ d.parent = v.seed.parent
  BY <1>10 DEF Rooted
<1>12. QuietBirth(d, c.heap, c.fresh)
  <2>1. /\ IsHeap(v.heap) /\ v.fresh \in Nat /\ v.fresh >= fresh /\ Untouched(heap, v.heap, {})
        /\ v.seed.trace.span \notin 1..fresh
    BY <1>8 DEF QuietBirth
  <2>2. Len(heap) \in Nat /\ Len(v.heap) \in Nat /\ Len(c.heap) \in Nat
    BY <1>3, <1>11, <2>1, HeapArray
  <2>3. Untouched(heap, c.heap, {})
    BY <1>11, <2>1, <2>2, UntouchedTrans
  <2>4. Len(v.heap) >= Len(heap)
    BY <2>1 DEF Untouched
  <2>5. \A a \in ArraysOf(d) : a \in Int
    BY <1>11 DEF Good, Seated, SeedSlices, IsSlice, ArraysOf
  <2>6. \A a \in ArraysOf(d) : a > Len(heap)
    BY <1>11, <2>2, <2>4, <2>5
  <2> QED BY <1>11, <2>1, <2>3, <2>6 DEF QuietBirth
<1>13. IsSequence(seeds') /\ Marked
  BY DEF HandleRequest, Marked, Like
<1>14. /\ origin.callbacks = Filled(View(heap, e.reactive)) /\ origin.reused = e.used
       /\ origin.headers = headers
  BY <1>4 DEF Origin
<1>15. /\ s.origin = origin /\ s.called = v.called /\ s.mods = <<>> /\ s.seed = d
  BY <1>9, <1>11 DEF IsRoot
<1>16. ~Overrides(s) => AllUntraced(s.called)
  <2>1. AreMods(s.mods)
    BY <1>15 DEF AreMods, ToSet
  <2> QED BY <1>8, <1>15, <2>1, NotOverriding
<1>17. InTrace(s)
  <2>1. ~Overrides(s) => d.trace = b.trace /\ d.parent = b.parent
    BY <1>8, <1>11, <1>15, <1>16
  <2>2. FromTrace(Used(s.origin.headers), b)
    BY <1>5, <1>14, <1>15
  <2> QED BY <1>15, <2>1, <2>2 DEF InTrace, Used, FromTrace
<1>18. RootKnown(s)
  <2>1. e.used \in BOOLEAN
    BY <1>3 DEF Good
  <2> QED BY <1>8, <1>14, <1>15, <1>17, <2>1 DEF RootKnown
<1>19. /\ SpanInv' /\ Others(z) /\ z \in Live' /\ z[1] = "span" /\ SeedAt(z)' = d
  <2>1. UNCHANGED pending
    BY DEF HandleRequest
  <2> QED BY <1>1, <1>9, <1>13, <1>18, <2>1, RootSpans
<1>20. QuietBirth(d, heap', fresh')
  BY <1>9, <1>12 DEF Take
<1>21. LiveInv'
  BY <1>11, <1>19, <1>20, QuietlyBorn
<1>22. SlicesStay
  <2>1. \A j \in DOMAIN spans : spans'[j] = spans[j]
    BY <1>9, SequenceGrows DEF FlushInv
  <2> QED BY <2>1 DEF SlicesStay, HandleRequest
<1>23. ViewsKept
  BY <1>20, <1>22, QuietViewsKept
<1> QED BY <1>13, <1>19, <1>21, <1>23

-----------------------------------------------------------------------------
(***************************************************************************)
(* The other operations: copies, sub-seeds, and the loggers that are made. *)
(***************************************************************************)

(* Neither the seeds nor the spans that are listed change, and those that are
   not listed yet only get on with their bases. *)
LEMMA PendingGoesOn ==
    ASSUME LiveInv, SpanInv, UNCHANGED <<heap, fresh, seeds, spans>>,
           \A g \in Goroutines :
              /\ pending'[g] # None <=> pending[g] # None
              /\ pending[g] # None => /\ SameSpan(pending[g].span, pending'[g].span)
                                      /\ pending'[g].span.forks = pending[g].span.forks
                                      /\ pending'[g].span.steps = pending[g].span.steps
    PROVE  LiveInv' /\ SpanInv' /\ ViewsKept
<1>1. PICK was : was = [x \in Live' |-> x]
  OBVIOUS
<1>2. Live' = Live /\ \A x \in Live' : was[x] = x
  BY <1>1 DEF Live
<1>3. ASSUME NEW x \in Live, x[1] # "seed"
      PROVE  SameSpan(SpanAt(x), SpanAt(x)') /\ Numbered(SpanAt(x)')
  <2>1. Known(SpanAt(x), spans)
    BY <1>3 DEF SpanInv, Spanned
  <2>2. CASE x \in {"span"} \X DOMAIN spans
    <3>1. SpanAt(x)' = SpanAt(x)
      BY <2>2 DEF SpanAt
    <3> QED BY <2>1, <3>1, SameSpanSelf DEF Known, Numbered
  <2>3. CASE x \in {"pending"} \X {g \in Goroutines : pending[g] # None}
    <3>1. SpanAt(x) = pending[x[2]].span /\ SpanAt(x)' = pending'[x[2]].span
      BY <2>3 DEF SpanAt
    <3> QED BY <2>1, <2>3, <3>1 DEF Known, Numbered
  <2> QED BY <1>3, <2>2, <2>3 DEF Live
<1>4. \A x \in Live : SeedAt(x)' = SeedAt(x) /\ (Reused(x) => Reused(x)')
  BY <1>3 DEF SeedAt, Reused, SameSpan
<1>5. First \in Live' /\ was[First] = First
  BY <1>2 DEF LiveInv
<1>6. LiveInv'
  <2>1. \A x \in Live' : /\ was[x] \in Live /\ SeedAt(x)' = SeedAt(was[x])
                         /\ Reused(was[x]) => Reused(x)'
                         /\ x[1] = "seed" <=> was[x][1] = "seed"
    BY <1>2, <1>4
  <2>2. \A x, y \in Live' : was[x] = was[y] => x = y
    BY <1>2
  <2> QED BY <1>5, <2>1, <2>2, LiveMoves
<1>7. SpanInv'
  <2>1. PICK z : z = First
    OBVIOUS
  <2>2. Spanned' = Spanned /\ z \notin Spanned' /\ \A x \in Spanned' : was[x] = x
    BY <1>2, <2>1 DEF Spanned, First
  <2>3. Counting
    <3>1. \A i \in DOMAIN spans : Numbered(spans[i])
      BY AllNumbered
    <3> QED BY <3>1, SameSpanSelf DEF Counting, Numbered
  <2>4. \A x \in Spanned' : x # z =>
           was[x] \in Spanned /\ SameSpan(SpanAt(was[x]), SpanAt(x)') /\ Numbered(SpanAt(x)')
    BY <1>3, <2>2 DEF Spanned
  <2>5. \A x, y \in Spanned' : x # z /\ y # z /\ was[x] = was[y] => x = y
    BY <2>2
  <2>6. z \notin Spanned'
    BY <2>2
  <2> QED BY <2>3, <2>4, <2>5, <2>6, SpansGo, SMTT(60)
<1>8. ViewsKept
  BY DEF ViewsKept
<1> QED BY <1>6, <1>7, <1>8

(* An operation that touches neither seeds nor spans keeps what is known of
   them. *)
LEMMA SeedsStay ==
    ASSUME LiveInv, SpanInv, UNCHANGED <<heap, fresh, seeds, spans, pending>>
    PROVE  LiveInv' /\ SpanInv' /\ ViewsKept
BY PendingGoesOn, SameSpanSelf

(* newChildLog() asks for the flushers, and adds to them. *)
LEMMA AskingKeeps ==
    ASSUME FlushInv, LiveInv, SpanInv, NEW g \in Goroutines, AskFlushers(g) \/ AddFlusher(g)
    PROVE  LiveInv' /\ SpanInv' /\ ViewsKept
<1>1. UNCHANGED <<heap, fresh, seeds, spans>> /\ pending[g] # None /\ Adding(pending[g], trees, superseded)
  BY DEF AskFlushers, AddFlusher, None, FlushInv
<1>2. DOMAIN pending = Goroutines /\ DOMAIN pending[g] = {"stage", "todo", "span"}
      /\ DOMAIN pending[g].span = SpanFields
  BY <1>1 DEF FlushInv, Adding, IsSpan
<1>3. /\ \A h \in Goroutines : h # g => pending'[h] = pending[h]
      /\ DOMAIN pending'[g] = DOMAIN pending[g]
      /\ DOMAIN pending'[g].span = DOMAIN pending[g].span
      /\ \A f \in SpanFields \ {"bases", "ignored"} : pending'[g].span[f] = pending[g].span[f]
  <2>1. CASE AddFlusher(g)
    BY <1>2, <2>1 DEF AddFlusher
  <2>2. CASE AskFlushers(g)
    BY <1>2, <2>2 DEF AskFlushers, SpanFields
  <2> QED BY <2>1, <2>2
<1>4. pending'[g] # None
  BY <1>2, <1>3 DEF None
<1>5. /\ SameSpan(pending[g].span, pending'[g].span)
      /\ pending'[g].span.forks = pending[g].span.forks
      /\ pending'[g].span.steps = pending[g].span.steps
  BY <1>3 DEF SameSpan, SpanFields
<1> QED BY <1>1, <1>3, <1>4, <1>5, PendingGoesOn, SameSpanSelf

(* Seed.Copy and Span.SubSeed: one more seed, and the spans stay. *)
LEMMA HeldSpans ==
    ASSUME LiveInv, SpanInv, IsSequence(seeds), NEW d, seeds' = Append(seeds, d), UNCHANGED <<spans, pending>>
    PROVE  SpanInv' /\ SlicesStay
<1>1. PICK z : z = <<"seed", Len(seeds) + 1>>
  OBVIOUS
<1>2. Rest(z)
  BY <1>1, HoldsOne
<1>3. z \notin Spanned' /\ \A x \in Spanned' : SpanAt(x)' = SpanAt(x)
  BY <1>1 DEF Spanned, SpanAt
<1>4. Counting
  <2>1. \A i \in DOMAIN spans : Numbered(spans[i])
    BY AllNumbered
  <2> QED BY <2>1, SameSpanSelf DEF Counting, Numbered
<1>5. SpanInv'
  BY <1>2, <1>3, <1>4, SpansRest
<1>6. \A i \in DOMAIN seeds : seeds'[i] = seeds[i]
  BY SequenceGrows
<1> QED BY <1>5, <1>6 DEF SlicesStay

AsCopy(e, mods, w) == w = CopySeed(Of(e), mods)
AsSubSeed(e, settings, mods, w) == w = SubSeed(Of(e), settings, mods)

(* Seed.Copy() keeps the invariant and everybody's callbacks. *)
LEMMA CopyKeeps ==
    ASSUME LiveInv, SpanInv, IsSequence(seeds), NEW g, NEW i \in DOMAIN seeds,
           NEW mods, AreMods(mods), Copy(g, i, mods)
    PROVE  LiveInv' /\ SpanInv' /\ IsSequence(seeds') /\ ViewsKept
<1>1. PICK x : x = <<"seed", i>>
  OBVIOUS
<1>2. x \in Live /\ SeedAt(x) = seeds[i]
  BY <1>1 DEF Live, SeedAt
<1>3. PICK w : AsCopy(SeedAt(x), mods, w) /\ Take(w) /\ seeds' = Append(seeds, w.seed)
  BY <1>2 DEF Copy, AsCopy
<1>4. UNCHANGED <<spans, pending>>
  BY DEF Copy
<1>5. IsHeap(heap) /\ fresh \in Nat /\ Seated(heap, SeedAt(x))
  BY <1>2 DEF LiveInv, Good
<1>6. Sprung(Of(SeedAt(x)), w, Of(SeedAt(x)).seed.parent, mods)
  <2>1. IsWorld(Of(SeedAt(x))) /\ Of(SeedAt(x)).fresh = fresh /\ Of(SeedAt(x)).seed.current = 0
    BY <1>5, OfWorld
  <2>2. Of(SeedAt(x)).fresh \in Int
    BY <1>5, <2>1
  <2>3. Sprung(Of(SeedAt(x)), CopySeed(Of(SeedAt(x)), mods), Of(SeedAt(x)).seed.parent, mods)
    BY <2>1, <2>2, CopySeedGives
  <2> QED BY <1>3, <2>3 DEF AsCopy
<1>7. LiveInv' /\ IsSequence(seeds')
  BY <1>2, <1>3, <1>4, <1>6, HeldLive
<1>8. SpanInv' /\ SlicesStay
  BY <1>3, <1>4, HeldSpans
<1>9. ViewsKept
  <2>1. QuietBirth(w.seed, heap', fresh')
    BY <1>2, <1>3, <1>6, SprungQuietly DEF Take
  <2> QED BY <1>8, <2>1, QuietViewsKept
<1> QED BY <1>7, <1>8, <1>9

(* Logger.SubSeed() keeps the invariant and everybody's callbacks. *)
LEMMA SubSeedKeeps ==
    ASSUME FlushInv, LiveInv, SpanInv, IsSequence(seeds), NEW g, NEW l \in DOMAIN loggers,
           NEW mods, AreMods(mods), MakeSubSeed(g, l, mods)
    PROVE  LiveInv' /\ SpanInv' /\ IsSequence(seeds') /\ ViewsKept
<1>1. PICK x : x = <<"span", loggers[l].span>>
  OBVIOUS
<1>2. x \in Live /\ SeedAt(x) = spans[loggers[l].span].seed
  <2>1. loggers[l].span \in DOMAIN spans
    BY DEF FlushInv
  <2> QED BY <1>1, <2>1 DEF Live, SeedAt, SpanAt
<1>3. PICK w : AsSubSeed(SeedAt(x), loggers[l].settings, mods, w) /\ Take(w) /\ seeds' = Append(seeds, w.seed)
  BY <1>2 DEF MakeSubSeed, AsSubSeed
<1>4. UNCHANGED <<spans, pending>>
  BY DEF MakeSubSeed
<1>5. IsHeap(heap) /\ fresh \in Nat /\ Seated(heap, SeedAt(x))
  BY <1>2 DEF LiveInv, Good
<1>6. Sprung(Of(SeedAt(x)), w, Of(SeedAt(x)).seed.trace, mods)
  <2>1. IsWorld(Of(SeedAt(x))) /\ Of(SeedAt(x)).fresh = fresh /\ Of(SeedAt(x)).seed.current = 0
    BY <1>5, OfWorld
  <2>2. Of(SeedAt(x)).fresh \in Int
    BY <1>5, <2>1
  <2>3. Sprung(Of(SeedAt(x)), SubSeed(Of(SeedAt(x)), loggers[l].settings, mods), Of(SeedAt(x)).seed.trace, mods)
    BY <2>1, <2>2, SubSeedGives
  <2> QED BY <1>3, <2>3 DEF AsSubSeed
<1>7. LiveInv' /\ IsSequence(seeds')
  BY <1>2, <1>3, <1>4, <1>6, HeldLive
<1>8. SpanInv' /\ SlicesStay
  BY <1>3, <1>4, HeldSpans
<1>9. ViewsKept
  <2>1. QuietBirth(w.seed, heap', fresh')
    BY <1>2, <1>3, <1>6, SprungQuietly DEF Take
  <2> QED BY <1>8, <2>1, QuietViewsKept
<1> QED BY <1>7, <1>8, <1>9

(* newChildLog() is done: the span is listed as it is. *)
LEMMA ReadyMade ==
    ASSUME FlushInv, NEW g \in Goroutines, ChildReady(g)
    PROVE  /\ pending[g] # None /\ UNCHANGED <<heap, fresh, seeds>>
           /\ pending' = [pending EXCEPT ![g] = None]
           /\ \E s : /\ spans' = Append(spans, s) /\ SameSpan(pending[g].span, s)
                     /\ s.forks = pending[g].span.forks /\ s.steps = pending[g].span.steps
<1>1. pending[g] # None /\ Adding(pending[g], trees, superseded)
  BY DEF ChildReady, None, FlushInv
<1>2. PICK p : p = pending[g].span
  OBVIOUS
<1>3. DOMAIN p = SpanFields
  BY <1>1, <1>2 DEF Adding, IsSpan
<1>4. PICK s : s = [p EXCEPT !.buffered = BufferedIn(View(heap, p.seed.list))]
  OBVIOUS
<1>5. spans' = Append(spans, s)
  BY <1>2, <1>4 DEF ChildReady, ListSpan
<1>6. \A f \in SpanFields \ {"buffered"} : s[f] = p[f]
  BY <1>3, <1>4
<1>7. SameSpan(p, s) /\ s.forks = p.forks /\ s.steps = p.steps
  BY <1>6 DEF SameSpan, SpanFields
<1> QED BY <1>1, <1>2, <1>5, <1>7 DEF ChildReady

(* A child that is told to its base loggers moves from the call that makes
   it to the list, and keeps the invariant and everybody's callbacks. *)
LEMMA ReadyKeeps ==
    ASSUME FlushInv, LiveInv, SpanInv, NEW g \in Goroutines, ChildReady(g)
    PROVE  LiveInv' /\ SpanInv' /\ ViewsKept
<1>1. /\ pending[g] # None /\ UNCHANGED <<heap, fresh, seeds>>
      /\ pending' = [pending EXCEPT ![g] = None]
  BY ReadyMade
<1>2. PICK s : /\ spans' = Append(spans, s) /\ SameSpan(pending[g].span, s)
               /\ s.forks = pending[g].span.forks /\ s.steps = pending[g].span.steps
  BY ReadyMade
<1>3. PICK n : n = Len(spans) + 1
  OBVIOUS
<1>4. /\ DOMAIN spans' = DOMAIN spans \cup {n} /\ spans'[n] = s /\ n \notin DOMAIN spans
      /\ \A i \in DOMAIN spans : spans'[i] = spans[i]
  <2>1. IsSequence(spans)
    BY DEF FlushInv
  <2>2. Len(spans) + 1 \notin DOMAIN spans
    BY <2>1 DEF IsSequence
  <2>3. /\ DOMAIN Append(spans, s) = DOMAIN spans \cup {Len(spans) + 1} /\ Append(spans, s)[Len(spans) + 1] = s
        /\ \A i \in DOMAIN spans : Append(spans, s)[i] = spans[i]
    BY <2>1, SequenceGrows
  <2> QED BY <1>2, <1>3, <2>2, <2>3
<1>5. pending'[g] = None /\ \A h \in Goroutines : h # g => pending'[h] = pending[h]
  BY <1>1 DEF FlushInv
<1>6. PICK y, p : y = <<"span", n>> /\ p = <<"pending", g>>
  OBVIOUS
<1>7. PICK was : was = [x \in Live' |-> IF x = y THEN p ELSE x]
  OBVIOUS
<1>8. y \in Live' /\ p \in Live /\ p \notin Live' /\ First \in Live' /\ First # y
  <2>1. y \in Live' /\ p \in Live
    BY <1>1, <1>4, <1>6 DEF Live
  <2>2. p \notin Live'
    BY <1>5, <1>6 DEF Live
  <2>3. First \in Live' /\ First # y
    BY <1>1, <1>6 DEF LiveInv, Live, First
  <2> QED BY <2>1, <2>2, <2>3
<1>9. was[y] = p /\ \A x \in Live' : x # y => was[x] = x
  BY <1>7, <1>8
<1>10. /\ SpanAt(p) = pending[g].span /\ SpanAt(y)' = s
       /\ SeedAt(p) = pending[g].span.seed /\ SeedAt(y)' = s.seed
       /\ Reused(p) = pending[g].span.origin.reused /\ Reused(y)' = s.origin.reused
       /\ y[1] = "span" /\ p[1] = "pending"
  BY <1>4, <1>6 DEF SpanAt, SeedAt, Reused
<1>11. ASSUME NEW x \in Live', x # y
       PROVE  /\ x \in Live
              /\ SpanAt(x)' = SpanAt(x) \/ x[1] = "seed"
              /\ SeedAt(x)' = SeedAt(x) /\ (Reused(x) => Reused(x)')
  <2>1. CASE x \in {"seed"} \X DOMAIN seeds'
    BY <1>1, <2>1 DEF Live, SeedAt, Reused
  <2>2. CASE x \in {"span"} \X DOMAIN spans'
    <3>1. x[1] = "span" /\ x[2] \in DOMAIN spans /\ x \in Live
      BY <1>4, <1>6, <1>11, <2>2 DEF Live
    <3>2. SpanAt(x)' = SpanAt(x)
      BY <1>4, <3>1 DEF SpanAt
    <3> QED BY <3>1, <3>2 DEF SeedAt, Reused
  <2>3. CASE x \in {"pending"} \X {h \in Goroutines : pending'[h] # None}
    <3>1. x[1] = "pending" /\ x[2] \in Goroutines /\ pending'[x[2]] = pending[x[2]] /\ x \in Live
      BY <1>5, <2>3 DEF Live
    <3>2. SpanAt(x)' = SpanAt(x)
      BY <3>1 DEF SpanAt
    <3> QED BY <3>1, <3>2 DEF SeedAt, Reused
  <2> QED BY <2>1, <2>2, <2>3 DEF Live
<1>12. LiveInv'
  <2>1. \A x \in Live' : /\ was[x] \in Live /\ SeedAt(x)' = SeedAt(was[x])
                         /\ Reused(was[x]) => Reused(x)'
                         /\ x[1] = "seed" <=> was[x][1] = "seed"
    BY <1>2, <1>8, <1>9, <1>10, <1>11 DEF SameSpan
  <2>2. \A x, z \in Live' : was[x] = was[z] => x = z
    BY <1>8, <1>9
  <2>3. was[First] = First /\ First \in Live'
    BY <1>8, <1>9
  <2>4. UNCHANGED <<heap, fresh>>
    BY <1>1
  <2> QED BY <2>1, <2>2, <2>3, <2>4, LiveMoves
<1>13. SpanInv'
  <2>1. PICK z : z = First
    OBVIOUS
  <2>2. z \notin Spanned'
    BY <2>1 DEF Spanned, First
  <2>3. \A i \in DOMAIN spans : Numbered(spans[i])
    BY AllNumbered
  <2>4. Counting
    BY <1>4, <2>3, SameSpanSelf DEF Counting, Numbered
  <2>5. \A x \in Spanned : Numbered(SpanAt(x))
    BY DEF SpanInv, Known, Numbered
  <2>6. ASSUME NEW x \in Spanned'
        PROVE  was[x] \in Spanned /\ SameSpan(SpanAt(was[x]), SpanAt(x)') /\ Numbered(SpanAt(x)')
    <3>1. x \in Live' /\ x[1] # "seed"
      BY DEF Spanned
    <3>2. CASE x = y
      <4>1. was[x] = p /\ p \in Spanned
        BY <1>8, <1>9, <1>10, <3>2 DEF Spanned
      <4>2. SameSpan(SpanAt(p), SpanAt(y)')
        BY <1>2, <1>10
      <4>3. Numbered(SpanAt(y)')
        BY <1>2, <1>10, <2>5, <4>1 DEF Numbered
      <4> QED BY <3>2, <4>1, <4>2, <4>3
    <3>3. CASE x # y
      <4>1. was[x] = x /\ x \in Spanned /\ SpanAt(x)' = SpanAt(x)
        BY <1>9, <1>11, <3>1, <3>3 DEF Spanned
      <4> QED BY <2>5, <4>1, SameSpanSelf
    <3> QED BY <3>2, <3>3
  <2>7. \A x, u \in Spanned' : x # z /\ u # z /\ was[x] = was[u] => x = u
    BY <1>8, <1>9 DEF Spanned
  <2>8. \A x \in Spanned' : x # z =>
           was[x] \in Spanned /\ SameSpan(SpanAt(was[x]), SpanAt(x)') /\ Numbered(SpanAt(x)')
    BY <2>6
  <2> QED BY <2>2, <2>4, <2>7, <2>8, SpansGo
<1>14. ViewsKept
  BY <1>1, <1>4 DEF ViewsKept
<1> QED BY <1>12, <1>13, <1>14

-----------------------------------------------------------------------------
(***************************************************************************)
(* The beginning, and the theorems.                                        *)
(***************************************************************************)

Empty(settings) ==
    [heap   |-> NewHeap, fresh |-> 0, called |-> <<>>,
     seed   |-> [list |-> NoSlice, added |-> <<>>, removed |-> <<>>,
                 reactive |-> NoSlice, current |-> 0,
                 parent |-> NoTrace, trace |-> NoTrace,
                 traceSet |-> FALSE, spanSet |-> FALSE,
                 code |-> <<>>, settings |-> settings,
                 swapped |-> FALSE, used |-> FALSE]]

(* Nothing is in a seed but what the modifiers of NewSeed() put there. *)
LEMMA EmptyWorld ==
    ASSUME NEW w, NEW settings, w = Empty(settings)
    PROVE  /\ IsWorld(w) /\ w.fresh = 0 /\ w.seed.current = 0 /\ w.seed.reactive.len = 0
           /\ w.seed.trace.trace = Zero /\ w.seed.trace.span = Zero
           /\ w.seed.traceSet = FALSE /\ w.seed.spanSet = FALSE
           /\ w.seed.code = <<>> /\ w.seed.used = FALSE
<1>1. IsHeap(NewHeap) /\ Len(NewHeap[1]) = 0 /\ 1 \in 1..Len(NewHeap)
  <2>1. <<>> \in Seq(Cells)
    OBVIOUS
  <2> HIDE DEF Cells
  <2>2. <<<<>>>> \in Seq(Seq(Cells)) /\ Len(<<<<>>>>) = 1 /\ <<<<>>>>[1] = <<>>
    BY <2>1
  <2> QED BY <2>2 DEF NewHeap, IsHeap
<1>2. /\ DOMAIN w = {"heap", "fresh", "seed", "called"} /\ w.heap = NewHeap /\ w.fresh = 0
      /\ w.seed.list = NoSlice /\ w.seed.reactive = NoSlice /\ w.seed.current = 0
      /\ w.seed.trace = NoTrace /\ w.seed.parent = NoTrace
      /\ w.seed.traceSet = FALSE /\ w.seed.spanSet = FALSE
      /\ w.seed.code = <<>> /\ w.seed.used = FALSE
      /\ DOMAIN w.seed = {"list", "added", "removed", "reactive", "current", "parent", "trace",
                          "traceSet", "spanSet", "code", "settings", "swapped", "used"}
  BY DEF Empty
<1>3. /\ DOMAIN NoSlice = {"array", "len"} /\ NoSlice.array = 1 /\ NoSlice.len = 0
      /\ IsPair(NoTrace) /\ NoTrace.trace = Zero /\ NoTrace.span = Zero /\ Zero \in Int
  BY DEF NoSlice, NoTrace, IsPair, Zero
<1> HIDE DEF NoSlice, NoTrace, NewHeap
<1>4. IsSlice(NewHeap, NoSlice)
  BY <1>1, <1>3 DEF IsSlice
<1>5. SeedShape(w.seed)
  BY <1>2, <1>3 DEF SeedShape
<1>6. SeedSlices(w.heap, w.seed)
  BY <1>1, <1>2, <1>3, <1>4 DEF SeedSlices
<1> QED BY <1>1, <1>2, <1>3, <1>5, <1>6 DEF IsWorld

AsNew(w, settings, mods) == w = NewSeed(NewHeap, 0, settings, mods)

(* NewSeed(): a new seed with its modifiers has slices in place, and no
   span id of which it does not know the source. *)
LEMMA NewSeedGood ==
    ASSUME NEW settings, NEW mods, AreMods(mods), NEW w, AsNew(w, settings, mods)
    PROVE  IsHeap(w.heap) /\ w.fresh = 0 /\ Good(w.heap, 0, w.seed) /\ w.seed.trace.span <= 0
<1>1. PICK e : e = Empty(settings)
  OBVIOUS
<1>2. /\ IsWorld(e) /\ e.fresh = 0 /\ e.seed.current = 0 /\ e.seed.reactive.len = 0
      /\ e.seed.trace.trace = Zero /\ e.seed.trace.span = Zero
      /\ e.seed.traceSet = FALSE /\ e.seed.spanSet = FALSE
      /\ e.seed.code = <<>> /\ e.seed.used = FALSE
  BY <1>1, EmptyWorld
<1>3. Follows(e, ApplyMods(e, mods))
  BY <1>2, ModsFollow
<1>4. w = ApplyMods(e, mods)
  BY <1>1 DEF AsNew, NewSeed, Empty
<1>5. Follows(e, w)
  BY <1>3, <1>4
<1>6. IsWorld(w) /\ w.seed.current = 0 /\ w.fresh = 0 /\ w.seed.code = <<>> /\ w.seed.used = FALSE
  BY <1>2, <1>5 DEF Follows, HeapFollows, Kept
<1>7. Full(w.heap, w.seed)
  <2>1. \A j \in 1..w.seed.reactive.len : w.heap[w.seed.reactive.array][j] \in DOMAIN Callbacks
    BY <1>2, <1>5 DEF Follows, HeapFollows, HeapMoves
  <2> QED BY <2>1, CallbacksAssumption DEF Full
<1>8. Ids(0, w.seed) /\ w.seed.trace.span <= 0
  BY <1>2, <1>5 DEF Follows, IdsFollow, Ids, Settled, FromProgram, Zero
<1>9. <<>> \in Seq(Nat)
  OBVIOUS
<1> QED BY <1>6, <1>7, <1>8, <1>9 DEF Good, Seated, IsWorld

(* The program begins with one seed and no span. *)
LEMMA IdsInit == Init => LiveInv /\ SpanInv /\ IsSequence(seeds)
<1> SUFFICES ASSUME Init PROVE LiveInv /\ SpanInv /\ IsSequence(seeds)
  OBVIOUS
<1>1. scenario \in DOMAIN Programs
  BY DEF Init, SpansInit
<1>2. PICK mods \in Program.seeds : \E w :
         /\ AsNew(w, Program.settings, mods)
         /\ heap = w.heap /\ fresh = w.fresh /\ seeds = <<w.seed>>
  BY DEF Init, SpansInit, AsNew
<1>3. PICK w :
         /\ AsNew(w, Program.settings, mods)
         /\ heap = w.heap /\ fresh = w.fresh /\ seeds = <<w.seed>>
  BY <1>2
<1>4. AreMods(mods)
  BY <1>1, <1>2, ProgramsAssumption DEF Program
<1>5. IsHeap(heap) /\ fresh = 0 /\ Good(heap, fresh, w.seed) /\ w.seed.trace.span <= 0
  <2>1. IsHeap(w.heap) /\ w.fresh = 0 /\ Good(w.heap, 0, w.seed) /\ w.seed.trace.span <= 0
    BY <1>3, <1>4, NewSeedGood
  <2> QED BY <1>3, <2>1
<1>6. DOMAIN seeds = {1} /\ seeds[1] = w.seed
  BY <1>3
<1>7. IsSequence(seeds)
  <2>1. \A x : <<x>> \in Seq({x})
    OBVIOUS
  <2> QED BY <1>3, <2>1 DEF IsSequence
<1>8. DOMAIN spans = {} /\ {g \in Goroutines : pending[g] # None} = {}
  BY DEF Init, SpansInit
<1>9. Live = {First} /\ SeedAt(First) = w.seed
  BY <1>6, <1>8 DEF Live, First, SeedAt
<1>10. Spanned = {}
  BY <1>9 DEF Spanned, First
<1>11. LiveInv
  BY <1>5, <1>9 DEF LiveInv, First
<1>12. SpanInv
  BY <1>10 DEF SpanInv
<1> QED BY <1>7, <1>11, <1>12

-----------------------------------------------------------------------------
IdsInv ==
    /\ FlushInv /\ LiveInv /\ SpanInv
    /\ IsSequence(seeds) /\ scenario \in DOMAIN Programs

(* The modifiers, headers and counts that a program gives are such. *)
LEMMA ProgramTyped ==
    ASSUME scenario \in DOMAIN Programs
    PROVE  /\ \A mods \in Program.mods : AreMods(mods)
           /\ \A headers \in Program.headers : AreHeaders(headers)
           /\ Program.forks \in Nat
BY ProgramsAssumption DEF Program

(* Every step of the program keeps the invariant, and changes nobody's
   reactive callbacks. *)
LEMMA IdsInvNext == IdsInv /\ [Next]_vars => IdsInv' /\ ViewsKept
<1> SUFFICES ASSUME IdsInv, [Next]_vars
             PROVE  LiveInv' /\ SpanInv' /\ IsSequence(seeds') /\ ViewsKept /\ scenario' = scenario
  BY FlushInvNext DEF IdsInv
<1>1. FlushInv /\ LiveInv /\ SpanInv /\ IsSequence(seeds) /\ Program.forks \in Nat
  BY ProgramTyped DEF IdsInv
<1>2. ASSUME UNCHANGED <<scenario, heap, fresh, seeds, spans, pending>>
      PROVE  LiveInv' /\ SpanInv' /\ IsSequence(seeds') /\ ViewsKept /\ scenario' = scenario
  BY <1>1, <1>2, SeedsStay
<1>3. CASE UNCHANGED vars
  BY <1>2, <1>3 DEF vars, spansVars
<1>4. ASSUME NEW g \in Goroutines, NEW i \in DOMAIN seeds, NEW mods \in Program.mods, Copy(g, i, mods)
      PROVE  LiveInv' /\ SpanInv' /\ IsSequence(seeds') /\ ViewsKept /\ scenario' = scenario
  <2>1. AreMods(mods)
    BY ProgramTyped DEF IdsInv
  <2>2. scenario' = scenario
    BY <1>4 DEF Copy, Does
  <2> QED BY <1>1, <1>4, <2>1, <2>2, CopyKeeps
<1>5. ASSUME NEW g \in Goroutines, NEW i \in DOMAIN seeds, NEW isRequest \in BOOLEAN, Request(g, i, isRequest)
      PROVE  LiveInv' /\ SpanInv' /\ IsSequence(seeds') /\ ViewsKept /\ scenario' = scenario
  <2>1. scenario' = scenario
    BY <1>5 DEF Request, Does
  <2> QED BY <1>1, <1>5, <2>1, RequestKeeps
<1>6. ASSUME NEW g \in Goroutines, NEW l \in DOMAIN loggers, NEW mods \in Program.mods, MakeSubSeed(g, l, mods)
      PROVE  LiveInv' /\ SpanInv' /\ IsSequence(seeds') /\ ViewsKept /\ scenario' = scenario
  <2>1. AreMods(mods)
    BY ProgramTyped DEF IdsInv
  <2>2. scenario' = scenario
    BY <1>6 DEF MakeSubSeed, Does
  <2> QED BY <1>1, <1>6, <2>1, <2>2, SubSeedKeeps
<1>7. ASSUME NEW g \in Goroutines, NEW headers \in Program.headers, HandleRequest(g, headers)
      PROVE  LiveInv' /\ SpanInv' /\ IsSequence(seeds') /\ ViewsKept /\ scenario' = scenario
  <2>1. AreHeaders(headers)
    BY ProgramTyped DEF IdsInv
  <2>2. scenario' = scenario
    BY <1>7 DEF HandleRequest, Does
  <2> QED BY <1>1, <1>7, <2>1, <2>2, HandleRequestKeeps
<1>8. ASSUME NEW g \in Goroutines, NEW l \in DOMAIN loggers, NEW op \in {"fork", "step"},
             NEW mods \in Program.mods, NEW settings, NewChildLog(g, l, op, mods, settings)
      PROVE  LiveInv' /\ SpanInv' /\ IsSequence(seeds') /\ ViewsKept /\ scenario' = scenario
  <2>1. AreMods(mods)
    BY ProgramTyped DEF IdsInv
  <2>2. scenario' = scenario
    BY <1>8 DEF NewChildLog, Does
  <2> QED BY <1>1, <1>8, <2>1, <2>2, ChildBorn
<1>9. ASSUME NEW g \in Goroutines, AskFlushers(g) \/ AddFlusher(g)
      PROVE  LiveInv' /\ SpanInv' /\ IsSequence(seeds') /\ ViewsKept /\ scenario' = scenario
  <2>1. UNCHANGED <<scenario, seeds>>
    BY <1>9 DEF AskFlushers, AddFlusher
  <2> QED BY <1>1, <1>9, <2>1, AskingKeeps
<1>10. ASSUME NEW g \in Goroutines, ChildReady(g)
       PROVE  LiveInv' /\ SpanInv' /\ IsSequence(seeds') /\ ViewsKept /\ scenario' = scenario
  <2>1. UNCHANGED <<scenario, seeds>>
    BY <1>10 DEF ChildReady
  <2> QED BY <1>1, <1>10, <2>1, ReadyKeeps
<1>11. ASSUME NEW g \in Goroutines, NEW l, NEW settings, SubLogger(g, l, settings)
       PROVE  LiveInv' /\ SpanInv' /\ IsSequence(seeds') /\ ViewsKept /\ scenario' = scenario
  BY <1>2, <1>11 DEF SubLogger, Does
<1>12. ASSUME NEW g \in Goroutines, SpansNext(g)
       PROVE  LiveInv' /\ SpanInv' /\ IsSequence(seeds') /\ ViewsKept /\ scenario' = scenario
  BY <1>4, <1>5, <1>6, <1>7, <1>8, <1>9, <1>10, <1>11, <1>12 DEF SpansNext
<1>13. ASSUME NEW g \in Goroutines, LinesNext(g)
       PROVE  LiveInv' /\ SpanInv' /\ IsSequence(seeds') /\ ViewsKept /\ scenario' = scenario
  BY <1>2, <1>13 DEF LinesNext, StartLine, String, Send, Drop, Does, spansVars
<1>14. ASSUME NEW g \in Goroutines, NEW call, NEW t, BeginCall(g, call, t)
       PROVE  LiveInv' /\ SpanInv' /\ IsSequence(seeds') /\ ViewsKept /\ scenario' = scenario
  BY <1>2, <1>14 DEF BeginCall, Does
<1>15. ASSUME UNCHANGED spansVars
       PROVE  LiveInv' /\ SpanInv' /\ IsSequence(seeds') /\ ViewsKept /\ scenario' = scenario
  BY <1>2, <1>15 DEF spansVars
<1> QED BY <1>3, <1>12, <1>13, <1>14, <1>15 DEF Next

(* The program begins in a state of the invariant of the flushes. *)
LEMMA FlushInit == Init => FlushInv
<1>1. IsSequence(<<>>) /\ DOMAIN <<>> = {}
  <2>1. <<>> \in Seq({})
    OBVIOUS
  <2> QED BY <2>1 DEF IsSequence
<1>2. None.stage # "add"
  BY DEF None
<1> QED BY <1>1, <1>2 DEF Init, SpansInit, FlushInv, AloneInv

(* The invariant always holds, and no step ever changes the callbacks that
   a seed or a logger has. *)
LEMMA IdsInvAlways == Spec => [](IdsInv) /\ [][ViewsKept]_vars
<1>1. Init => IdsInv
  BY FlushInit, IdsInit DEF IdsInv, Init, SpansInit
<1>2. IdsInv /\ [Next]_vars => IdsInv' /\ [ViewsKept]_vars
  BY IdsInvNext
<1> QED BY <1>1, <1>2, PTL DEF Spec

(* What the invariant says of a span of the list. *)
LEMMA SpanKnown ==
    ASSUME IdsInv, NEW i \in DOMAIN spans
    PROVE  /\ <<"span", i>> \in Live /\ <<"span", i>> \in Spanned
           /\ SpanAt(<<"span", i>>) = spans[i] /\ SeedAt(<<"span", i>>) = spans[i].seed
           /\ Reused(<<"span", i>>) = spans[i].origin.reused
           /\ Known(spans[i], spans)
           /\ spans[i].seed.trace.trace # Zero /\ spans[i].seed.trace.span # Zero
           /\ spans[i].seed.trace.span \in Int
<1>1. PICK x : x = <<"span", i>>
  OBVIOUS
<1>2. /\ x \in Live /\ x \in Spanned /\ SpanAt(x) = spans[i] /\ SeedAt(x) = spans[i].seed
      /\ Reused(x) = spans[i].origin.reused /\ x[1] = "span"
  BY <1>1 DEF Live, Spanned, SpanAt, SeedAt, Reused
<1>3. Known(SpanAt(x), spans)
  BY <1>2 DEF IdsInv, SpanInv
<1>4. Good(heap, fresh, SeedAt(x)) /\ OfSpan(SeedAt(x))
  BY <1>2 DEF IdsInv, LiveInv
<1>5. /\ SeedAt(x).trace.trace # Zero /\ SeedAt(x).trace.span # Zero
      /\ SeedAt(x).trace.span \in Int
  BY <1>4 DEF Good, Ids, Settled, OfSpan, Seated, SeedShape
<1> QED BY <1>1, <1>2, <1>3, <1>5

(* No two spans have the same identifier, but for requests of one seed that
   has sprouted before and identifiers that the program gave. *)
THEOREM IdentifiersAreDistinct == Spec => []IdentifiersDistinct
<1>1. ASSUME IdsInv, NEW i \in DOMAIN spans, NEW j \in DOMAIN spans, i # j,
             spans[i].seed.trace.span = spans[j].seed.trace.span
      PROVE  \/ FromProgram(spans[i].seed.trace.span)
             \/ spans[i].origin.reused \/ spans[j].origin.reused
  <2>1. PICK x, y : x = <<"span", i>> /\ y = <<"span", j>>
    OBVIOUS
  <2>2. /\ x \in Live /\ y \in Live /\ x # y
        /\ SeedAt(x) = spans[i].seed /\ SeedAt(y) = spans[j].seed
        /\ Reused(x) = spans[i].origin.reused /\ Reused(y) = spans[j].origin.reused
        /\ spans[i].seed.trace.span # Zero /\ spans[i].seed.trace.span \in Int
    BY <1>1, <2>1, SpanKnown
  <2>3. CASE spans[i].seed.trace.span > 0
    <3>1. Alike(x, y)
      BY <1>1, <2>2, <2>3 DEF Alike
    <3> QED BY <1>1, <2>2, <3>1 DEF IdsInv, LiveInv
  <2>4. CASE ~(spans[i].seed.trace.span > 0)
    BY <2>2, <2>4 DEF FromProgram, Zero
  <2> QED BY <2>3, <2>4
<1>2. IdsInv => IdentifiersDistinct
  <2>1. ASSUME IdsInv, NEW i \in Children
        PROVE  FromProgram(spans[i].seed.trace.span) => Overrides(spans[i])
    BY <2>1, SpanKnown DEF Children, Known, OfParent
  <2> QED BY <1>1, <2>1 DEF IdentifiersDistinct
<1> QED BY <1>2, IdsInvAlways, PTL

(* Every span has a trace and a span identifier, and is in the trace that the
   headers of its request, or its parent, were in. *)
THEOREM SpansIdentified == Spec => []Identified
<1>1. ASSUME IdsInv, NEW i \in DOMAIN spans
      PROVE  /\ spans[i].seed.trace.trace # Zero /\ spans[i].seed.trace.span # Zero
             /\ InTrace(spans[i])
             /\ spans[i].parent # 0 => OfParent(spans[i], spans)
  BY <1>1, SpanKnown DEF Known
<1>2. IdsInv => Identified
  BY <1>1 DEF Identified, InTrace, OfParent, Children
<1> QED BY <1>2, IdsInvAlways, PTL

(* No two spans of a request have the same sequence code, however many were
   forked and stepped before. *)
THEOREM CodesAreDistinct == Spec => []CodesDistinct
<1>1. ASSUME IdsInv, NEW i \in DOMAIN spans, NEW j \in DOMAIN spans, i # j
      PROVE  CodesApart(spans[i], spans[j])
  <2>1. PICK x, y : x = <<"span", i>> /\ y = <<"span", j>>
    OBVIOUS
  <2>2. x \in Spanned /\ y \in Spanned /\ x # y /\ SpanAt(x) = spans[i] /\ SpanAt(y) = spans[j]
    BY <1>1, <2>1, SpanKnown
  <2>3. CodesApart(SpanAt(x), SpanAt(y))
    BY <1>1, <2>2 DEF IdsInv, SpanInv
  <2> QED BY <2>2, <2>3
<1>2. IdsInv => CodesDistinct
  BY <1>1 DEF CodesDistinct, CodesApart
<1> QED BY <1>2, IdsInvAlways, PTL

(* Just as a seed sprouts, each of its callbacks is called, once and in order,
   and none that they add. *)
THEOREM CallbacksAreCalled == Spec => []CallbacksCalled
<1>1. IdsInv => CallbacksCalled
  BY SpanKnown DEF CallbacksCalled, Known
<1> QED BY <1>1, IdsInvAlways, PTL

(* A callback that changes its place in the list reaches one seed: the copies
   of a seed and the spans made from it keep their callbacks. *)
THEOREM CallbacksStayApart == Spec => CallbacksNotShared
<1>1. ViewsKept <=>
         /\ \A i, j \in DOMAIN seeds :
               /\ View(heap, seeds[i].reactive) # View(heap', seeds'[i].reactive)
               /\ View(heap, seeds[j].reactive) # View(heap', seeds'[j].reactive)
               => i = j
         /\ \A i \in DOMAIN spans :
               View(heap, spans[i].seed.reactive) = View(heap', spans'[i].seed.reactive)
  BY DEF ViewsKept
<1> QED BY <1>1, IdsInvAlways, PTL DEF CallbacksNotShared
=============================================================================
