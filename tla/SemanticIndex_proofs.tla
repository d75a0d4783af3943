------------------------ MODULE SemanticIndex_proofs ------------------------
(***************************************************************************)
(* Proofs about SemanticIndex for every set of utterances, every window    *)
(* and threshold and transcripts of every length: where the transcript is  *)
(* cut, whose points stand where in the index, and what the filter keeps.  *)
(*                                                                         *)
(* The invariant is IInv.  The loop over the transcript and the filter are *)
(* recursions over sequences; what they compute follows by induction,      *)
(* which is taken here from the least element of a set of naturals.        *)
(***************************************************************************)
EXTENDS SemanticIndex, FiniteSetTheorems, SequenceTheorems, WellFoundedInduction, TLAPS

-----------------------------------------------------------------------------
(* Induction and recursion up to a number *)

(* Every nonempty set of naturals has a least element. *)
LEMMA LeastElement ==
  ASSUME NEW T \in SUBSET Nat, T # {}
  PROVE  \E m \in T : \A k \in T : m <= k
<1>. DEFINE R == {ss \in Nat \X Nat : ss[1] < ss[2]}
<1>1. IsWellFoundedOn(R, Nat)
  BY NatLessThanWellFounded DEF OpToRel
<1>2. PICK m \in T : \A y \in T : ~ (<<y, m>> \in R)
  <2>. HIDE DEF R
  <2>. QED
    BY <1>1, WFMin
<1>3. \A y \in T : ~ (y < m)
  BY <1>2
<1>. QED
  BY <1>3

(* What holds at 0 and goes on from each number to the next holds up to n. *)
LEMMA Induction ==
  ASSUME NEW n \in Nat, NEW T, 0 \in T, \A i \in 1 .. n : i - 1 \in T => i \in T
  PROVE  \A i \in 0 .. n : i \in T
<1>. DEFINE Bad == {i \in 0 .. n : i \notin T}
<1>. SUFFICES ASSUME Bad # {} PROVE FALSE
  OBVIOUS
<1>1. PICK m \in Bad : \A k \in Bad : m <= k
  <2>1. Bad \in SUBSET Nat
    OBVIOUS
  <2>. HIDE DEF Bad
  <2>. QED
    BY <2>1, LeastElement
<1>2. m \in 1 .. n /\ m - 1 \in 0 .. n /\ m - 1 \notin Bad
  BY <1>1
<1>. QED
  BY <1>2

(* f begins with b, and the i-th of the maps d takes it on to its value at i. *)
Follows(f, n, S, b, d) ==
  f \in [0 .. n -> S] /\ f[0] = b /\ \A i \in 1 .. n : f[i] = d[i][f[i - 1]]

(* A function that goes from each value to the next is defined up to n. *)
LEMMA Recursion ==
  ASSUME NEW n \in Nat, NEW S, NEW b \in S, NEW d \in [1 .. n -> [S -> S]]
  PROVE  \E f : Follows(f, n, S, b, d)
<1>. DEFINE Good(f, m) == f[0] = b /\ \A i \in 1 .. m : f[i] = d[i][f[i - 1]]
            T == {m \in 0 .. n : \E f \in [0 .. m -> S] : Good(f, m)}
<1>1. 0 \in T
  <2>. DEFINE f == [k \in 0 .. 0 |-> b]
  <2>1. f \in [0 .. 0 -> S] /\ Good(f, 0)
    OBVIOUS
  <2>2. \E h \in [0 .. 0 -> S] : Good(h, 0)
    <3>. HIDE DEF f, Good
    <3>. QED
      BY <2>1
  <2>. QED
    BY <2>2
<1>2. ASSUME NEW m \in 1 .. n, m - 1 \in T
      PROVE  m \in T
  <2>1. PICK f \in [0 .. m - 1 -> S] : Good(f, m - 1)
    BY <1>2
  <2>. DEFINE g == [k \in 0 .. m |-> IF k = m THEN d[m][f[m - 1]] ELSE f[k]]
  <2>2. g \in [0 .. m -> S]
    OBVIOUS
  <2>3. g[0] = b
    BY <2>1
  <2>4. ASSUME NEW i \in 1 .. m PROVE g[i] = d[i][g[i - 1]]
    <3>1. CASE i = m
      BY <3>1
    <3>2. CASE i # m
      BY <2>1, <3>2
    <3>. QED
      BY <3>1, <3>2
  <2>5. \E h \in [0 .. m -> S] : Good(h, m)
    <3>1. Good(g, m)
      BY <2>3, <2>4
    <3>. HIDE DEF g, Good
    <3>. QED
      BY <2>2, <3>1
  <2>. HIDE DEF Good, g
  <2>. QED
    BY <2>5
<1>3. n \in T
  <2>. HIDE DEF T
  <2>1. \A i \in 0 .. n : i \in T
    BY <1>1, <1>2, Induction
  <2>. QED
    BY <2>1
<1>. QED
  BY <1>3 DEF Follows

-----------------------------------------------------------------------------
(* The noise of a transcript *)

(* Noise(s) is the running sum: what its definition says is so. *)
LEMMA NoiseSums ==
  ASSUME NEW s \in Seq(Segment)
  PROVE  /\ Noise(s) \in [0 .. Len(s) -> Nat]
         /\ Noise(s)[0] = 0
         /\ \A n \in 1 .. Len(s) : Noise(s)[n] = Noise(s)[n - 1] + s[n].noise
<1>. DEFINE L == Len(s)
            sum == CHOOSE g : g = [n \in 0 .. L |-> IF n = 0 THEN 0 ELSE g[n - 1] + s[n].noise]
<1>1. L \in Nat /\ \A n \in 1 .. L : s[n].noise \in Nat
  <2>1. L \in Nat /\ \A n \in 1 .. L : s[n] \in Segment
    OBVIOUS
  <2>. QED
    BY <2>1 DEF Segment
<1>2. \E g : g = [n \in 0 .. L |-> IF n = 0 THEN 0 ELSE g[n - 1] + s[n].noise]
  <2>. DEFINE d == [i \in 1 .. L |-> [v \in Nat |-> v + s[i].noise]]
  <2>1. d \in [1 .. L -> [Nat -> Nat]]
    BY <1>1
  <2>2. PICK f \in [0 .. L -> Nat] : f[0] = 0 /\ \A i \in 1 .. L : f[i] = d[i][f[i - 1]]
    <3>1. \E f : Follows(f, L, Nat, 0, d)
      <4>. HIDE DEF d, L
      <4>. QED
        BY <1>1, <2>1, Recursion
    <3>. HIDE DEF d, L
    <3>. QED
      BY <3>1 DEF Follows
  <2>3. \A i \in 1 .. L : f[i] = f[i - 1] + s[i].noise
    <3>1. \A i \in 1 .. L : d[i] = [v \in Nat |-> v + s[i].noise]
      OBVIOUS
    <3>2. \A i \in 1 .. L : i - 1 \in 0 .. L
      BY <1>1
    <3>. HIDE DEF d, L
    <3>. TAKE i \in 1 .. L
    <3>3. f[i - 1] \in Nat
      BY <2>2, <3>2
    <3>4. d[i][f[i - 1]] = f[i - 1] + s[i].noise
      BY <3>1, <3>3
    <3>. QED
      BY <2>2, <3>4
  <2>4. f = [n \in 0 .. L |-> IF n = 0 THEN 0 ELSE f[n - 1] + s[n].noise]
    BY <1>1, <2>2, <2>3
  <2>. QED
    BY <2>4
<1>3. sum = [n \in 0 .. L |-> IF n = 0 THEN 0 ELSE sum[n - 1] + s[n].noise]
  BY <1>2
<1>4. Noise(s) = sum
  BY DEF Noise
<1>. HIDE DEF sum
<1>5. sum[0] = 0 /\ \A n \in 1 .. L : sum[n] = sum[n - 1] + s[n].noise
  BY <1>1, <1>3
<1>6. \A n \in 0 .. L : sum[n] \in Nat
  <2>. DEFINE T == {n \in 0 .. L : sum[n] \in Nat}
  <2>. HIDE DEF L
  <2>1. ASSUME NEW i \in 1 .. L, i - 1 \in T
        PROVE  i \in T
    <3>1. i \in 0 .. L /\ s[i].noise \in Nat /\ sum[i - 1] \in Nat
      BY <1>1, <2>1
    <3>2. sum[i] = sum[i - 1] + s[i].noise
      BY <1>5
    <3>. HIDE DEF L
    <3>. QED
      BY <3>1, <3>2
  <2>2. 0 \in T
    BY <1>1, <1>5
  <2>3. \A i \in 0 .. L : i \in T
    <3>. HIDE DEF T, L
    <3>. QED
      BY <1>1, <2>1, <2>2, Induction
  <2>. QED
    BY <2>3
<1>. QED
  BY <1>3, <1>4, <1>5, <1>6

(* A segment that is appended changes nothing of the sums before it. *)
LEMMA NoiseAppend ==
  ASSUME NEW s \in Seq(Segment), NEW x \in Segment
  PROVE  /\ \A n \in 0 .. Len(s) : Noise(Append(s, x))[n] = Noise(s)[n]
         /\ Noise(Append(s, x))[Len(s) + 1] = Noise(s)[Len(s)] + x.noise
<1>. DEFINE L == Len(s)
            u == Append(s, x)
            p == Noise(s)
            q == Noise(u)
            T == {n \in 0 .. L : q[n] = p[n]}
<1>1. /\ u \in Seq(Segment) /\ Len(u) = L + 1 /\ L \in Nat
      /\ \A n \in 1 .. L : u[n] = s[n]
      /\ u[L + 1] = x
  OBVIOUS
<1>2. p[0] = 0 /\ \A n \in 1 .. L : p[n] = p[n - 1] + s[n].noise
  BY NoiseSums
<1>3. q[0] = 0 /\ \A n \in 1 .. L + 1 : q[n] = q[n - 1] + u[n].noise
  <2>. HIDE DEF u, L
  <2>. QED
    BY <1>1, NoiseSums
<1>. HIDE DEF u, p, q, L
<1>4. 0 \in T
  BY <1>1, <1>2, <1>3
<1>5. ASSUME NEW i \in 1 .. L, i - 1 \in T
      PROVE  i \in T
  <2>1. i \in 0 .. L /\ i \in 1 .. L + 1 /\ q[i - 1] = p[i - 1]
    BY <1>1, <1>5
  <2>2. q[i] = q[i - 1] + u[i].noise /\ p[i] = p[i - 1] + s[i].noise /\ u[i] = s[i]
    BY <1>1, <1>2, <1>3, <2>1
  <2>. QED
    BY <2>1, <2>2
<1>6. \A i \in 0 .. L : i \in T
  <2>. HIDE DEF T
  <2>. QED
    BY <1>1, <1>4, <1>5, Induction
<1>7. L \in 0 .. L /\ L + 1 \in 1 .. L + 1 /\ (L + 1) - 1 = L
  BY <1>1
<1>8. q[L + 1] = p[L] + x.noise
  BY <1>1, <1>3, <1>6, <1>7
<1>. QED
  BY <1>6, <1>8 DEF u, p, q, L

-----------------------------------------------------------------------------
(* The filter of the chunks *)

(* The first n chunks of s reduced to t: f tells where the chunks of t were. *)
Selects(f, t, s, n) ==
  /\ f \in [1 .. Len(t) -> 1 .. n]
  /\ \A i, j \in 1 .. Len(t) : i < j => f[i] < f[j]
  /\ \A i \in 1 .. Len(t) : t[i] = s[f[i]] /\ Clearly(s[f[i]])
  /\ \A k \in 1 .. n : Clearly(s[k]) => \E i \in 1 .. Len(t) : f[i] = k

(* One more chunk is appended when it is clear, and left out when it is not. *)
LEMMA SelectsStep ==
  ASSUME NEW s \in Seq(Chunk), NEW t \in Seq(Chunk), NEW n \in 1 .. Len(s), NEW f,
         Selects(f, t, s, n - 1)
  PROVE  IF Clearly(s[n])
         THEN Append(t, s[n]) \in Seq(Chunk) /\ \E g : Selects(g, Append(t, s[n]), s, n)
         ELSE Selects(f, t, s, n)
<1>. DEFINE m == Len(t)
<1>0. n \in Nat /\ n - 1 \in Nat /\ m \in Nat /\ s[n] \in Chunk
  OBVIOUS
<1>1. CASE Clearly(s[n])
  <2>. DEFINE u == Append(t, s[n])
              g == [i \in 1 .. m + 1 |-> IF i = m + 1 THEN n ELSE f[i]]
  <2>1. /\ u \in Seq(Chunk) /\ Len(u) = m + 1 /\ u[m + 1] = s[n]
        /\ \A i \in 1 .. m : u[i] = t[i]
    BY <1>0
  <2>2. /\ f \in [1 .. m -> 1 .. n - 1]
        /\ \A i, j \in 1 .. m : i < j => f[i] < f[j]
        /\ \A i \in 1 .. m : t[i] = s[f[i]] /\ Clearly(s[f[i]])
        /\ \A k \in 1 .. n - 1 : Clearly(s[k]) => \E i \in 1 .. m : f[i] = k
    BY DEF Selects
  <2>. HIDE DEF u, m
  <2>3. /\ \A i \in 1 .. m : g[i] = f[i] /\ f[i] \in 1 .. n - 1
        /\ g[m + 1] = n
        /\ \A i \in 1 .. m + 1 : i = m + 1 \/ i \in 1 .. m
        /\ m + 1 \in 1 .. m + 1
    BY <1>0, <2>2
  <2>4. g \in [1 .. m + 1 -> 1 .. n]
    <3>1. \A i \in 1 .. m + 1 : g[i] \in 1 .. n
      <4>1. 1 .. n - 1 \subseteq 1 .. n /\ n \in 1 .. n
        BY <1>0
      <4>. HIDE DEF g
      <4>. QED
        BY <2>3, <4>1
    <3>. QED
      BY <3>1
  <2>. HIDE DEF g
  <2>5. ASSUME NEW i \in 1 .. m + 1, NEW j \in 1 .. m + 1, i < j
        PROVE  g[i] < g[j]
    <3>1. i \in 1 .. m
      BY <1>0, <2>5
    <3>2. CASE j = m + 1
      BY <1>0, <2>3, <3>1, <3>2
    <3>3. CASE j \in 1 .. m
      BY <2>2, <2>3, <2>5, <3>1, <3>3
    <3>. QED
      BY <2>3, <3>2, <3>3
  <2>6. \A i \in 1 .. m + 1 : u[i] = s[g[i]] /\ Clearly(s[g[i]])
    BY <1>1, <2>1, <2>2, <2>3
  <2>7. ASSUME NEW k \in 1 .. n, Clearly(s[k])
        PROVE  \E i \in 1 .. m + 1 : g[i] = k
    <3>1. CASE k = n
      BY <2>3, <3>1
    <3>2. CASE k # n
      <4>1. PICK i \in 1 .. m : f[i] = k
        BY <1>0, <2>2, <2>7, <3>2
      <4>. QED
        BY <1>0, <2>3, <4>1
    <3>. QED
      BY <3>1, <3>2
  <2>8. Selects(g, u, s, n)
    BY <2>1, <2>4, <2>5, <2>6, <2>7 DEF Selects
  <2>. QED
    BY <1>1, <2>1, <2>8 DEF u
<1>2. CASE ~ Clearly(s[n])
  BY <1>2 DEF Selects
<1>. QED
  BY <1>1, <1>2

(* The filter keeps the clear chunks, all of them, in their order. *)
LEMMA ClearSelects ==
  ASSUME NEW s \in Seq(Chunk)
  PROVE  Clear(s) \in Seq(Chunk) /\ \E f : Selects(f, Clear(s), s, Len(s))
<1>. DEFINE L == Len(s)
            More(n, t) == IF Clearly(s[n]) THEN Append(t, s[n]) ELSE t
            kept == CHOOSE g : g = [n \in 0 .. L |-> IF n = 0 THEN <<>>
                       ELSE IF Clearly(s[n]) THEN Append(g[n - 1], s[n]) ELSE g[n - 1]]
<1>1. L \in Nat /\ \A n \in 1 .. L : s[n] \in Chunk
  OBVIOUS
<1>2. \E g : g = [n \in 0 .. L |-> IF n = 0 THEN <<>>
                       ELSE IF Clearly(s[n]) THEN Append(g[n - 1], s[n]) ELSE g[n - 1]]
  <2>. DEFINE d == [i \in 1 .. L |-> [t \in Seq(Chunk) |-> More(i, t)]]
  <2>1. d \in [1 .. L -> [Seq(Chunk) -> Seq(Chunk)]] /\ <<>> \in Seq(Chunk)
    BY <1>1
  <2>2. PICK f \in [0 .. L -> Seq(Chunk)] : f[0] = <<>> /\ \A i \in 1 .. L : f[i] = d[i][f[i - 1]]
    <3>1. \E f : Follows(f, L, Seq(Chunk), <<>>, d)
      <4>. HIDE DEF d, L
      <4>. QED
        BY <1>1, <2>1, Recursion
    <3>. HIDE DEF d, L
    <3>. QED
      BY <3>1 DEF Follows
  <2>3. \A i \in 1 .. L : f[i] = IF Clearly(s[i]) THEN Append(f[i - 1], s[i]) ELSE f[i - 1]
    <3>1. \A i \in 1 .. L : d[i] = [t \in Seq(Chunk) |-> More(i, t)]
      OBVIOUS
    <3>2. \A i \in 1 .. L : i - 1 \in 0 .. L
      BY <1>1
    <3>. HIDE DEF d, L
    <3>. TAKE i \in 1 .. L
    <3>3. f[i - 1] \in Seq(Chunk)
      BY <2>2, <3>2
    <3>4. d[i][f[i - 1]] = More(i, f[i - 1])
      <4>1. d[i] = [t \in Seq(Chunk) |-> More(i, t)]
        BY <3>1
      <4>. HIDE DEF More
      <4>. QED
        BY <3>3, <4>1
    <3>. QED
      BY <2>2, <3>4
  <2>4. f = [n \in 0 .. L |-> IF n = 0 THEN <<>>
                       ELSE IF Clearly(s[n]) THEN Append(f[n - 1], s[n]) ELSE f[n - 1]]
    <3>. DEFINE e(n) == IF n = 0 THEN <<>>
                        ELSE IF Clearly(s[n]) THEN Append(f[n - 1], s[n]) ELSE f[n - 1]
    <3>1. \A n \in 0 .. L : f[n] = e(n)
      <4>1. \A n \in 0 .. L : n = 0 \/ (n \in 1 .. L /\ n # 0)
        BY <1>1
      <4>. HIDE DEF d, L
      <4>. QED
        BY <2>2, <2>3, <4>1
    <3>2. f = [n \in 0 .. L |-> f[n]]
      BY <2>2
    <3>3. f = [n \in 0 .. L |-> e(n)]
      <4>. HIDE DEF e, L, d
      <4>. QED
        BY <3>1, <3>2
    <3>. QED
      BY <3>3
  <2>. QED
    BY <2>4
<1>3. kept = [n \in 0 .. L |-> IF n = 0 THEN <<>>
                       ELSE IF Clearly(s[n]) THEN Append(kept[n - 1], s[n]) ELSE kept[n - 1]]
  BY <1>2
<1>4. Clear(s) = kept[L]
  BY DEF Clear
<1>. HIDE DEF kept
<1>5. kept[0] = <<>> /\ \A n \in 1 .. L : kept[n] =
        IF Clearly(s[n]) THEN Append(kept[n - 1], s[n]) ELSE kept[n - 1]
  <2>. DEFINE e(n) == IF n = 0 THEN <<>>
                      ELSE IF Clearly(s[n]) THEN Append(kept[n - 1], s[n]) ELSE kept[n - 1]
  <2>1. kept = [n \in 0 .. L |-> e(n)]
    BY <1>3
  <2>2. \A n \in 0 .. L : kept[n] = e(n)
    <3>. HIDE DEF e, L
    <3>. QED
      BY <2>1
  <2>3. 0 \in 0 .. L /\ \A n \in 1 .. L : n \in 0 .. L /\ n # 0
    BY <1>1
  <2>. HIDE DEF L
  <2>. QED
    BY <2>2, <2>3
<1>. DEFINE T == {n \in 0 .. L : kept[n] \in Seq(Chunk) /\ \E f : Selects(f, kept[n], s, n)}
<1>6. 0 \in T
  <2>. DEFINE f == [i \in 1 .. 0 |-> 0]
  <2>1. Selects(f, <<>>, s, 0)
    BY DEF Selects
  <2>2. \E h : Selects(h, kept[0], s, 0)
    <3>. HIDE DEF f
    <3>. QED
      BY <1>5, <2>1
  <2>3. 0 \in 0 .. L /\ kept[0] \in Seq(Chunk)
    BY <1>1, <1>5
  <2>. QED
    BY <2>2, <2>3
<1>7. ASSUME NEW n \in 1 .. L, n - 1 \in T
      PROVE  n \in T
  <2>1. PICK f : Selects(f, kept[n - 1], s, n - 1)
    BY <1>7
  <2>2. kept[n - 1] \in Seq(Chunk)
    BY <1>7
  <2>3. IF Clearly(s[n])
        THEN Append(kept[n - 1], s[n]) \in Seq(Chunk)
             /\ \E g : Selects(g, Append(kept[n - 1], s[n]), s, n)
        ELSE Selects(f, kept[n - 1], s, n)
    BY <2>1, <2>2, SelectsStep
  <2>4. kept[n] \in Seq(Chunk) /\ \E g : Selects(g, kept[n], s, n)
    <3>1. CASE Clearly(s[n])
      BY <1>5, <2>3, <3>1
    <3>2. CASE ~ Clearly(s[n])
      BY <1>5, <2>2, <2>3, <3>2
    <3>. QED
      BY <3>1, <3>2
  <2>. QED
    BY <1>1, <2>4
<1>8. L \in T
  <2>. HIDE DEF T, L
  <2>1. \A i \in 0 .. L : i \in T
    BY <1>1, <1>6, <1>7, Induction
  <2>. QED
    BY <1>1, <2>1
<1>. QED
  BY <1>4, <1>8

-----------------------------------------------------------------------------
(* The cuts *)

(* A nonempty set of numbers up to n has a greatest. *)
LEMMA MaxOf ==
  ASSUME NEW n \in Nat, NEW T \in SUBSET (0 .. n), T # {}
  PROVE  Max(T) \in T /\ \A k \in T : Max(T) >= k
<1>. DEFINE D == {n - k : k \in T}
<1>1. PICK m \in D : \A k \in D : m <= k
  <2>1. D \in SUBSET Nat /\ D # {}
    <3>1. \A k \in T : n - k \in Nat
      OBVIOUS
    <3>2. PICK k : k \in T
      OBVIOUS
    <3>3. n - k \in D
      BY <3>2
    <3>. QED
      BY <3>1, <3>3
  <2>. HIDE DEF D
  <2>. QED
    BY <2>1, LeastElement
<1>2. PICK x \in T : m = n - x
  BY <1>1
<1>3. \A y \in T : x >= y
  <2>. TAKE y \in T
  <2>1. n - y \in D
    OBVIOUS
  <2>2. m <= n - y
    <3>. HIDE DEF D
    <3>. QED
      BY <1>1, <2>1
  <2>. QED
    BY <1>2, <2>2
<1>. QED
  BY <1>3 DEF Max

(* What ends with j begins after a cut before j, or with the transcript. *)
LEMMA FirstIs ==
  ASSUME NEW n \in Nat, NEW cuts \in SUBSET (1 .. n), NEW j \in 1 .. n + 1
  PROVE  First(cuts, j) \in 1 .. j
<1>. DEFINE T == {0} \cup {k \in cuts : k < j}
<1>1. T \in SUBSET (0 .. n) /\ T # {} /\ \A k \in T : k < j /\ k \in Nat
  <2>1. \A k \in T : k \in 0 .. n /\ k < j /\ k \in Nat
    <3>1. \A k \in cuts : k \in 1 .. n
      OBVIOUS
    <3>. QED
      BY <3>1
  <2>2. 0 \in T
    OBVIOUS
  <2>. HIDE DEF T
  <2>. QED
    BY <2>1, <2>2
<1>2. Max(T) \in T
  <2>. HIDE DEF T
  <2>. QED
    BY <1>1, MaxOf
<1>3. First(cuts, j) = Max(T) + 1
  BY DEF First
<1>4. j \in Nat
  OBVIOUS
<1>. HIDE DEF T
<1>5. Max(T) < j /\ Max(T) \in Nat
  BY <1>1, <1>2
<1>. HIDE DEF First
<1>6. \A x \in Nat : x < j => x + 1 \in 1 .. j
  BY <1>4
<1>. QED
  BY <1>3, <1>5, <1>6

(* It begins at k at the latest when all the cuts before it are before k. *)
LEMMA FirstUpTo ==
  ASSUME NEW n \in Nat, NEW cuts \in SUBSET (1 .. n), NEW j \in 1 .. n + 1,
         NEW k \in 1 .. j, \A i \in cuts : i < j => i < k
  PROVE  First(cuts, j) \in 1 .. k
<1>. DEFINE T == {0} \cup {i \in cuts : i < j}
            U == {0} \cup {i \in cuts : i < k}
<1>1. T = U
  <2>1. \A i \in cuts : i \in Nat
    OBVIOUS
  <2>2. \A i \in cuts : i < k => i < j
    BY <2>1
  <2>. QED
    BY <2>2
<1>2. First(cuts, j) = First(cuts, k)
  BY <1>1 DEF First
<1>3. k \in 1 .. n + 1
  OBVIOUS
<1>. QED
  BY <1>2, <1>3, FirstIs

(* A later cut, or none, changes nothing of what is before it. *)
LEMMA FirstKept ==
  ASSUME NEW n \in Nat, NEW cuts \in SUBSET (1 .. n)
  PROVE  /\ \A j \in 1 .. n + 1 : First(cuts \cup {n + 1}, j) = First(cuts, j)
         /\ First(cuts, n + 2) = First(cuts, n + 1)
         /\ First(cuts \cup {n + 1}, n + 2) = n + 2
<1>1. ASSUME NEW j \in 1 .. n + 1
      PROVE  First(cuts \cup {n + 1}, j) = First(cuts, j)
  <2>1. {k \in cuts \cup {n + 1} : k < j} = {k \in cuts : k < j}
    OBVIOUS
  <2>. QED
    BY <2>1 DEF First
<1>2. First(cuts, n + 2) = First(cuts, n + 1)
  <2>1. {k \in cuts : k < n + 2} = {k \in cuts : k < n + 1}
    <3>1. \A k \in cuts : k < n + 2 /\ k < n + 1
      <4>1. \A k \in cuts : k \in 1 .. n
        OBVIOUS
      <4>. QED
        BY <4>1
    <3>. QED
      BY <3>1
  <2>. QED
    BY <2>1 DEF First
<1>3. First(cuts \cup {n + 1}, n + 2) = n + 2
  <2>. DEFINE T == {0} \cup {k \in cuts \cup {n + 1} : k < n + 2}
  <2>1. n + 1 \in Nat /\ T \in SUBSET (0 .. n + 1) /\ n + 1 \in T
    <3>1. \A k \in cuts \cup {n + 1} : k \in 0 .. n + 1
      <4>1. \A k \in cuts : k \in 1 .. n
        OBVIOUS
      <4>. QED
        BY <4>1
    <3>2. \A k \in T : k \in 0 .. n + 1
      BY <3>1
    <3>3. n + 1 \in T
      OBVIOUS
    <3>. HIDE DEF T
    <3>. QED
      BY <3>2, <3>3
  <2>2. Max(T) \in T /\ \A k \in T : Max(T) >= k
    <3>. HIDE DEF T
    <3>. QED
      BY <2>1, MaxOf
  <2>3. First(cuts \cup {n + 1}, n + 2) = Max(T) + 1
    BY DEF First
  <2>. HIDE DEF T
  <2>4. Max(T) \in 0 .. n + 1 /\ Max(T) >= n + 1
    BY <2>1, <2>2
  <2>5. \A y \in 0 .. n + 1 : y >= n + 1 => y + 1 = n + 2
    OBVIOUS
  <2>. QED
    BY <2>3, <2>4, <2>5
<1>. QED
  BY <1>1, <1>2, <1>3

-----------------------------------------------------------------------------
(* A segment more *)

(* What was said up to an earlier segment stays as it was. *)
LEMMA TextKept ==
  ASSUME TypeOK, NEW x \in Segment, segments' = Append(segments, x),
         NEW j \in 1 .. Len(segments), NEW i \in 1 .. j
  PROVE  Text(i, j)' = Text(i, j) /\ Whole(i, j)' = Whole(i, j) /\ Span(i, j)' = Span(i, j)
<1>1. /\ segments'[i] = segments[i] /\ segments'[j] = segments[j]
      /\ \A k \in i .. j : segments'[k] = segments[k]
  BY DEF TypeOK
<1>2. Noise(segments')[j] = Noise(segments)[j] /\ Noise(segments')[i - 1] = Noise(segments)[i - 1]
  <2>1. j \in 0 .. Len(segments) /\ i - 1 \in 0 .. Len(segments) /\ segments \in Seq(Segment)
    BY DEF TypeOK
  <2>. QED
    BY <2>1, NoiseAppend
<1>3. Text(i, j)' = Text(i, j) /\ Span(i, j)' = Span(i, j)
  BY <1>1, <1>2 DEF Text, Span
<1>. QED
  BY <1>3 DEF Whole, AudioChunk

(* The new segment by itself, and at the end of what began before it. *)
LEMMA TextGrows ==
  ASSUME TypeOK, NEW x \in Segment, segments' = Append(segments, x),
         NEW n, n = Len(segments)
  PROVE  /\ Text(n + 1, n + 1)' = [start |-> x.start, end |-> x.end, noise |-> x.noise,
                                   count |-> 1, blank |-> x.blank]
         /\ \A i \in 1 .. n :
              Text(i, n + 1)' = [start |-> segments[i].start, end |-> x.end,
                                 noise |-> Text(i, n).noise + x.noise,
                                 count |-> Text(i, n).count + 1,
                                 blank |-> Text(i, n).blank /\ x.blank]
<1>1. /\ n \in Nat /\ segments \in Seq(Segment)
      /\ \A k \in 1 .. n : segments'[k] = segments[k]
      /\ segments'[n + 1] = x
  BY DEF TypeOK
<1>2. /\ \A k \in 0 .. n : Noise(segments')[k] = Noise(segments)[k]
      /\ Noise(segments')[n + 1] = Noise(segments)[n] + x.noise
  BY <1>1, NoiseAppend
<1>3. x.noise \in Nat /\ x.blank \in BOOLEAN /\ \A k \in 0 .. n : Noise(segments)[k] \in Nat
  BY <1>1, NoiseSums DEF Segment
<1>4. Text(n + 1, n + 1)' = [start |-> x.start, end |-> x.end, noise |-> x.noise,
                             count |-> 1, blank |-> x.blank]
  <2>1. Noise(segments')[n + 1] - Noise(segments')[(n + 1) - 1] = x.noise
    <3>1. (n + 1) - 1 = n /\ n \in 0 .. n
      BY <1>1
    <3>. QED
      BY <1>2, <1>3, <3>1
  <2>2. (n + 1) - (n + 1) + 1 = 1
    BY <1>1
  <2>3. (\A k \in n + 1 .. n + 1 : segments'[k].blank) = x.blank
    <3>1. n + 1 .. n + 1 = {n + 1}
      BY <1>1
    <3>2. (\A k \in {n + 1} : segments'[k].blank) = x.blank
      BY <1>1, <1>3
    <3>. QED
      BY <3>1, <3>2
  <2>. QED
    BY <1>1, <2>1, <2>2, <2>3 DEF Text
<1>5. ASSUME NEW i \in 1 .. n
      PROVE  Text(i, n + 1)' = [start |-> segments[i].start, end |-> x.end,
                                noise |-> Text(i, n).noise + x.noise,
                                count |-> Text(i, n).count + 1,
                                blank |-> Text(i, n).blank /\ x.blank]
  <2>1. /\ Text(i, n).noise = Noise(segments)[n] - Noise(segments)[i - 1]
        /\ Text(i, n).count = n - i + 1
        /\ Text(i, n).blank = \A k \in i .. n : segments[k].blank
    BY DEF Text
  <2>2. Noise(segments')[n + 1] - Noise(segments')[i - 1] = Text(i, n).noise + x.noise
    <3>1. i - 1 \in 0 .. n /\ n \in 0 .. n
      BY <1>1
    <3>. QED
      BY <1>2, <1>3, <2>1, <3>1
  <2>3. (n + 1) - i + 1 = Text(i, n).count + 1
    BY <1>1, <2>1
  <2>4. (\A k \in i .. n + 1 : segments'[k].blank) = (Text(i, n).blank /\ x.blank)
    <3>1. \A k : k \in i .. n + 1 <=> k \in i .. n \/ k = n + 1
      BY <1>1
    <3>2. \A k \in i .. n : segments'[k] = segments[k]
      BY <1>1
    <3>. QED
      BY <1>1, <2>1, <3>1, <3>2, Zenon
  <2>5. segments'[i] = segments[i] /\ segments'[n + 1] = x
    BY <1>1
  <2>. QED
    BY <2>2, <2>3, <2>4, <2>5 DEF Text
<1>. QED
  BY <1>4, <1>5

-----------------------------------------------------------------------------
(* The cuts, segment by segment *)

USE SemanticAssumption DEF Utterance

(* The buffer holds nothing, or segments that are not blank without a count. *)
LEMMA BufferIs ==
  ASSUME TypeOK, NEW cuts \in SUBSET DOMAIN segments, CutAt(cuts)
  PROVE  buffer = NoText \/ (buffer.count \in Nat \ {0} /\ segments # <<>>)
<1>. DEFINE n == Len(segments)
            f == First(cuts, n + 1)
<1>1. n \in Nat /\ cuts \in SUBSET (1 .. n) /\ n + 1 \in 1 .. n + 1
  BY DEF TypeOK
<1>2. f \in 1 .. n + 1
  <2>. HIDE DEF n
  <2>. QED
    BY <1>1, FirstIs
<1>3. buffer = IF f > n THEN NoText ELSE Text(f, n)
  BY DEF CutAt, Remainder
<1>4. ASSUME f <= n
      PROVE  Text(f, n).count \in Nat \ {0} /\ segments # <<>>
  <2>. HIDE DEF f
  <2>. QED
    BY <1>1, <1>2, <1>4 DEF Text
<1>. HIDE DEF n, f
<1>5. CASE f > n
  BY <1>3, <1>5
<1>6. CASE ~ (f > n)
  <2>1. f <= n
    BY <1>1, <1>2, <1>6
  <2>2. buffer = Text(f, n)
    BY <1>3, <1>6
  <2>3. buffer.count \in Nat \ {0} /\ segments # <<>>
    BY <1>4, <2>1, <2>2
  <2>. QED
    BY <2>3
<1>. QED
  BY <1>5, <1>6

(* What Whisper hears next is a segment. *)
LEMMA HeardIs ==
  ASSUME TypeOK, NEW u \in Utterances
  PROVE  Heard(u) \in Segment /\ Clock \in Nat
<1>1. Clock \in Nat
  <2>1. CASE segments = <<>>
    BY <2>1 DEF Clock
  <2>2. CASE segments # <<>>
    <3>1. segments[Len(segments)] \in Segment
      BY <2>2 DEF TypeOK
    <3>. QED
      BY <2>2, <3>1 DEF Clock, Segment
  <2>. QED
    BY <2>1, <2>2
<1>2. u \in Utterance
  OBVIOUS
<1>. HIDE DEF Clock
<1>. QED
  BY <1>1, <1>2 DEF Heard, Segment

(* The buffer with the new segment is what goes from the last cut to it. *)
LEMMA MergedIs ==
  ASSUME TypeOK, NEW x \in Segment, segments' = Append(segments, x),
         NEW n, n = Len(segments),
         NEW cuts \in SUBSET (1 .. n), NEW f, f = First(cuts, n + 1), f \in 1 .. n + 1,
         buffer = IF f > n THEN NoText ELSE Text(f, n)
  PROVE  /\ Merged(x) = Text(f, n + 1)'
         /\ Merged(x).end - Merged(x).start = Span(f, n + 1)'
<1>1. n \in Nat
  BY DEF TypeOK
<1>2. CASE f = n + 1
  <2>1. buffer = NoText
    BY <1>1, <1>2
  <2>2. Merged(x) = [start |-> x.start, end |-> x.end, noise |-> x.noise,
                     count |-> 1, blank |-> x.blank]
    BY <2>1 DEF Merged, NoText, Segment
  <2>3. Span(f, n + 1)' = x.end - x.start
    BY <1>1, <1>2 DEF Span, TypeOK
  <2>4. Merged(x) = Text(f, n + 1)'
    BY <1>2, <2>2, TextGrows
  <2>. QED
    BY <2>2, <2>3, <2>4
<1>3. CASE f # n + 1
  <2>1. f \in 1 .. n /\ buffer = Text(f, n)
    BY <1>1, <1>3
  <2>2. buffer.count # 0 /\ buffer.start = segments[f].start
    BY <1>1, <2>1 DEF Text
  <2>3. Merged(x) = [start |-> segments[f].start, end |-> x.end,
                     noise |-> buffer.noise + x.noise,
                     count |-> buffer.count + 1,
                     blank |-> buffer.blank /\ x.blank]
    BY <2>2 DEF Merged
  <2>4. Span(f, n + 1)' = x.end - segments[f].start
    BY <1>1, <2>1 DEF Span, TypeOK
  <2>5. Text(f, n + 1)' = [start |-> segments[f].start, end |-> x.end,
                           noise |-> Text(f, n).noise + x.noise,
                           count |-> Text(f, n).count + 1,
                           blank |-> Text(f, n).blank /\ x.blank]
    <3>1. f \in 1 .. n
      BY <2>1
    <3>. HIDE DEF Text
    <3>. QED
      BY <3>1, TextGrows
  <2>6. Merged(x) = Text(f, n + 1)'
    BY <2>1, <2>3, <2>5
  <2>. QED
    BY <2>3, <2>4, <2>6
<1>. QED
  BY <1>2, <1>3

(* A cut has its chunk, as many as there are cuts up to it. *)
LEMMA CutCount ==
  ASSUME NEW n \in Nat, NEW cuts \in SUBSET (1 .. n), NEW j \in cuts
  PROVE  Cardinality({k \in cuts : k <= j}) \in 1 .. Cardinality(cuts)
<1>. DEFINE T == {k \in cuts : k <= j}
<1>1. T \in SUBSET cuts /\ T # {}
  <2>1. j \in T
    OBVIOUS
  <2>. QED
    BY <2>1
<1>2. IsFiniteSet(cuts)
  <2>1. IsFiniteSet(1 .. n)
    BY FS_Interval
  <2>. QED
    BY <2>1, FS_Subset
<1>. HIDE DEF T
<1>3. IsFiniteSet(T) /\ Cardinality(T) <= Cardinality(cuts)
  BY <1>1, <1>2, FS_Subset
<1>4. Cardinality(T) \in Nat /\ Cardinality(cuts) \in Nat
  BY <1>2, <1>3, FS_CardinalityType
<1>5. Cardinality(T) # 0
  BY <1>1, <1>3, FS_EmptySet
<1>. QED
  BY <1>3, <1>4, <1>5 DEF T

(* A segment goes on with the buffer, or fills the window and is cut off with
   it. *)
LEMMA CutStep ==
  ASSUME TypeOK, CutWhereFull, NEW u \in Utterances, AddSegment(u)
  PROVE  CutWhereFull'
<1>. DEFINE x == Heard(u)
            b == Merged(x)
<1>0. PICK n : n = Len(segments)
  OBVIOUS
<1>1. x \in Segment /\ segments' = Append(segments, x)
  BY HeardIs DEF AddSegment
<1>2. PICK cuts \in SUBSET DOMAIN segments : CutAt(cuts)
  BY DEF CutWhereFull, AddSegment
<1>3. /\ n \in Nat /\ DOMAIN segments = 1 .. n /\ DOMAIN segments' = 1 .. n + 1
      /\ Len(segments') = n + 1 /\ cuts \in SUBSET (1 .. n)
  BY <1>0, <1>1 DEF TypeOK
<1>. DEFINE f == First(cuts, n + 1)
<1>4. f \in 1 .. n + 1
  <2>1. n + 1 \in 1 .. n + 1
    BY <1>3
  <2>. QED
    BY <1>3, <2>1, FirstIs
<1>5. /\ Cardinality(cuts) = Len(chunks)
      /\ \A j \in cuts :
           /\ chunks[Cardinality({k \in cuts : k <= j})] = Whole(First(cuts, j), j)
           /\ Span(First(cuts, j), j) >= Window
      /\ \A j \in 1 .. n \ cuts : Span(First(cuts, j), j) < Window
      /\ buffer = IF f > n THEN NoText ELSE Text(f, n)
  BY <1>0, <1>2, <1>3 DEF CutAt, Remainder
<1>6. b = Text(f, n + 1)' /\ b.end - b.start = Span(f, n + 1)'
  <2>1. n = Len(segments) /\ f = First(cuts, n + 1)
    BY <1>0
  <2>. HIDE DEF x, f
  <2>. QED
    BY <1>1, <1>3, <1>4, <1>5, <2>1, MergedIs DEF b
<1>7. \A j \in 1 .. n : First(cuts, j) \in 1 .. j
  <2>1. \A j \in 1 .. n : j \in 1 .. n + 1
    BY <1>3
  <2>. QED
    BY <1>3, <2>1, FirstIs
<1>8. \A j \in 1 .. n : /\ Whole(First(cuts, j), j)' = Whole(First(cuts, j), j)
                          /\ Span(First(cuts, j), j)' = Span(First(cuts, j), j)
  <2>. TAKE j \in 1 .. n
  <2>1. PICK i \in 1 .. j : i = First(cuts, j)
    BY <1>7
  <2>2. j \in 1 .. Len(segments)
    BY <1>0
  <2>3. Whole(i, j)' = Whole(i, j) /\ Span(i, j)' = Span(i, j)
    <3>. HIDE DEF x
    <3>. QED
      BY <1>1, <2>2, TextKept
  <2>. QED
    BY <2>1, <2>3
<1>9. CASE b.end - b.start >= Window
  <2>. DEFINE cut == cuts \cup {n + 1}
  <2>1. chunks' = Append(chunks, AudioChunk(b)) /\ buffer' = NoText
    BY <1>9 DEF AddSegment
  <2>2. \A j \in 1 .. n + 1 : First(cut, j) = First(cuts, j)
    <3>. QED
      BY <1>3, FirstKept
  <2>3. First(cut, n + 2) = n + 2
    <3>. QED
      BY <1>3, FirstKept
  <2>4. n + 1 \notin cuts /\ IsFiniteSet(cuts)
    <3>1. IsFiniteSet(1 .. n)
      BY <1>3, FS_Interval
    <3>2. n + 1 \notin 1 .. n
      BY <1>3
    <3>. QED
      BY <1>3, <3>1, <3>2, FS_Subset
  <2>5. Cardinality(cut) = Cardinality(cuts) + 1 /\ Cardinality(cuts) \in Nat
    <3>. QED
      BY <2>4, FS_AddElement, FS_CardinalityType
  <2>6. AudioChunk(b) = Whole(f, n + 1)'
    BY <1>6 DEF Whole, AudioChunk
  <2>7. /\ Len(chunks') = Len(chunks) + 1
        /\ \A k \in 1 .. Len(chunks) : chunks'[k] = chunks[k]
        /\ chunks'[Len(chunks) + 1] = AudioChunk(b)
    <3>. HIDE DEF b
    <3>1. /\ AudioChunk(b) = [start |-> b.start, end |-> b.end, noise |-> b.noise,
                               count |-> b.count, source |-> "audio"]
          /\ chunks \in Seq(Chunk)
      BY DEF AudioChunk, TypeOK
    <3>. QED
      BY <2>1, <3>1
  <2>8. ASSUME NEW j \in cuts
        PROVE  /\ chunks'[Cardinality({k \in cut : k <= j})] = Whole(First(cut, j), j)'
               /\ Span(First(cut, j), j)' >= Window
    <3>1. j \in 1 .. n /\ j \in 1 .. n + 1 /\ ~ (n + 1 <= j)
      BY <1>3
    <3>2. {k \in cut : k <= j} = {k \in cuts : k <= j}
      BY <3>1
    <3>. DEFINE z == Cardinality({k \in cuts : k <= j})
    <3>3. z \in 1 .. Len(chunks)
      <4>. QED
        BY <1>3, <1>5, CutCount
    <3>4. chunks'[z] = Whole(First(cuts, j), j)
      BY <1>5, <2>7, <3>3
    <3>5. First(cut, j) = First(cuts, j)
      BY <2>2, <3>1
    <3>6. chunks'[z] = Whole(First(cut, j), j)'
      BY <1>8, <3>1, <3>4, <3>5
    <3>. HIDE DEF cut
    <3>. QED
      BY <1>5, <1>8, <3>1, <3>2, <3>5, <3>6
  <2>9. /\ chunks'[Cardinality({k \in cut : k <= n + 1})] = Whole(First(cut, n + 1), n + 1)'
        /\ Span(First(cut, n + 1), n + 1)' >= Window
    <3>1. {k \in cut : k <= n + 1} = cut
      BY <1>3
    <3>2. First(cut, n + 1) = f
      <4>1. n + 1 \in 1 .. n + 1
        BY <1>3
      <4>. QED
        BY <2>2, <4>1
    <3>. HIDE DEF cut, f, b
    <3>. QED
      BY <1>5, <1>6, <1>9, <2>5, <2>6, <2>7, <3>1, <3>2
  <2>10. \A j \in 1 .. n + 1 \ cut : Span(First(cut, j), j)' < Window
    <3>1. \A j \in 1 .. n + 1 \ cut : j \in 1 .. n \ cuts /\ j \in 1 .. n + 1
      BY <1>3
    <3>. HIDE DEF cut
    <3>. QED
      BY <1>5, <1>8, <2>2, <3>1
  <2>11. Remainder(cut)' = NoText
    <3>1. (n + 1) + 1 = n + 2 /\ n + 2 > n + 1
      BY <1>3
    <3>. HIDE DEF cut
    <3>. QED
      BY <1>3, <2>3, <3>1 DEF Remainder, NoText
  <2>12. CutAt(cut)'
    <3>1. \A j \in cut : j \in cuts \/ j = n + 1
      OBVIOUS
    <3>. HIDE DEF cut
    <3>. QED
      BY <1>3, <1>5, <2>1, <2>5, <2>7, <2>8, <2>9, <2>10, <2>11, <3>1 DEF CutAt
  <2>13. cut \in SUBSET DOMAIN segments'
    BY <1>3
  <2>. HIDE DEF cut
  <2>. QED
    BY <2>12, <2>13 DEF CutWhereFull
<1>10. CASE ~ (b.end - b.start >= Window)
  <2>1. chunks' = chunks /\ buffer' = b
    BY <1>10 DEF AddSegment
  <2>2. Span(f, n + 1)' < Window
    <3>1. b.end \in Nat /\ b.start \in Nat
      <4>. HIDE DEF x
      <4>. QED
        BY <1>1 DEF Merged, TypeOK, Segment, Buffer
    <3>. HIDE DEF b, f
    <3>. QED
      BY <1>6, <1>10, <3>1
  <2>3. \A j \in 1 .. n + 1 \ cuts : Span(First(cuts, j), j)' < Window
    <3>1. \A j \in 1 .. n + 1 \ cuts : j \in 1 .. n \ cuts \/ j = n + 1
      BY <1>3
    <3>. QED
      BY <1>5, <1>8, <2>2, <3>1
  <2>4. Remainder(cuts)' = b
    <3>1. First(cuts, n + 2) = f
      <4>. QED
        BY <1>3, FirstKept
    <3>2. (n + 1) + 1 = n + 2 /\ ~ (f > n + 1)
      BY <1>3, <1>4
    <3>. HIDE DEF b, f
    <3>. QED
      BY <1>3, <1>6, <3>1, <3>2 DEF Remainder
  <2>5. \A j \in cuts : /\ chunks'[Cardinality({k \in cuts : k <= j})] = Whole(First(cuts, j), j)'
                           /\ Span(First(cuts, j), j)' >= Window
    BY <1>3, <1>5, <1>8, <2>1
  <2>6. CutAt(cuts)'
    <3>. HIDE DEF b
    <3>. QED
      BY <1>3, <1>5, <2>1, <2>3, <2>4, <2>5 DEF CutAt
  <2>7. cuts \in SUBSET DOMAIN segments'
    BY <1>3
  <2>. QED
    BY <2>6, <2>7 DEF CutWhereFull
<1>. QED
  BY <1>9, <1>10

-----------------------------------------------------------------------------
(* The invariant, part by part *)

(* Nothing is heard, said or indexed at first. *)
LEMMA InitInv ==
  Init => IInv
  BY DEF Init, IInv, TypeOK, StageInv, TimeInv, OrderInv, IndexInv, CutWhereFull,
         OlderBehindNewer, Stage, NoText, Buffer, Segment, Chunk, Point

(* What is not spoken of the audio is a chunk like the others. *)
LEMMA AllChunksIs ==
  ASSUME TypeOK
  PROVE  AllChunks \in Seq(Chunk)
<1>1. AudioChunk(buffer) \in Chunk
  BY DEF TypeOK, Buffer, Chunk, AudioChunk
<1>. QED
  BY <1>1 DEF AllChunks, TypeOK

(* The points of a job are those of its chunks, and those of the index that
   are behind them stay where they are. *)
LEMMA UpsertIs ==
  ASSUME TypeOK, Upsert
  PROVE  /\ index' \in Seq(Point)
         /\ \A i \in DOMAIN index' :
              \/ /\ i \in DOMAIN chunks
                 /\ index'[i] = [job |-> job, start |-> chunks[i].start,
                                 end |-> chunks[i].end, source |-> chunks[i].source]
              \/ i > Len(chunks) /\ i \in DOMAIN index /\ index'[i] = index[i]
<1>. DEFINE m == Len(chunks)
            n == Len(index)
            rest == SubSeq(index, m + 1, n)
<1>1. /\ m \in Nat /\ n \in Nat /\ DOMAIN chunks = 1 .. m /\ DOMAIN index = 1 .. n
      /\ \A i \in 1 .. m : chunks[i] \in Chunk
      /\ \A i \in 1 .. n : index[i] \in Point
      /\ job \in Nat
  BY DEF TypeOK
<1>2. Points \in Seq(Point) /\ Len(Points) = m
  <2>1. \A i \in 1 .. m : [job |-> job, start |-> chunks[i].start,
                           end |-> chunks[i].end, source |-> chunks[i].source] \in Point
    BY <1>1 DEF Chunk, Point
  <2>2. Points = [i \in 1 .. m |-> [job |-> job, start |-> chunks[i].start,
                                   end |-> chunks[i].end, source |-> chunks[i].source]]
    BY <1>1 DEF Points
  <2>. HIDE DEF m
  <2>. QED
    BY <1>1, <2>1, <2>2
<1>3. \A i \in 1 .. m : Points[i] = [job |-> job, start |-> chunks[i].start,
                                     end |-> chunks[i].end, source |-> chunks[i].source]
  BY <1>1 DEF Points
<1>4. /\ rest \in Seq(Point)
      /\ Len(rest) = IF m + 1 <= n THEN n - (m + 1) + 1 ELSE 0
      /\ \A i \in 1 .. n - (m + 1) + 1 : rest[i] = index[(m + 1) + i - 1]
  <2>1. m + 1 \in Int /\ n \in Int /\ \A i \in m + 1 .. n : index[i] \in Point
    BY <1>1
  <2>. HIDE DEF m, n
  <2>. QED
    BY <2>1, SubSeqProperties
<1>5. index' = Points \o rest
  BY DEF Upsert
<1>. HIDE DEF m, n, rest
<1>6. /\ index' \in Seq(Point)
      /\ Len(index') = m + Len(rest)
      /\ \A i \in 1 .. m + Len(rest) : index'[i] = IF i <= m THEN Points[i] ELSE rest[i - m]
  <2>1. Points \in Seq(Point) /\ rest \in Seq(Point) /\ Len(Points) = m
    BY <1>2, <1>4
  <2>. QED
    BY <1>5, <2>1, ConcatProperties
<1>7. ASSUME NEW i \in 1 .. m + Len(rest)
      PROVE  \/ /\ i \in 1 .. m
                /\ index'[i] = [job |-> job, start |-> chunks[i].start,
                                end |-> chunks[i].end, source |-> chunks[i].source]
             \/ i > m /\ i \in 1 .. n /\ index'[i] = index[i]
  <2>1. CASE i <= m
    <3>1. i \in 1 .. m /\ index'[i] = Points[i]
      BY <1>1, <1>6, <2>1
    <3>. QED
      BY <1>3, <3>1
  <2>2. CASE ~ (i <= m)
    <3>1. i - m \in 1 .. n - (m + 1) + 1 /\ i \in 1 .. n /\ (m + 1) + (i - m) - 1 = i
      BY <1>1, <1>4, <2>2
    <3>2. index'[i] = rest[i - m]
      BY <1>6, <2>2
    <3>3. rest[i - m] = index[(m + 1) + (i - m) - 1]
      BY <1>4, <3>1
    <3>. QED
      BY <1>1, <2>2, <3>1, <3>2, <3>3
  <2>. QED
    BY <2>1, <2>2
<1>8. DOMAIN index' = 1 .. m + Len(rest)
  BY <1>6
<1>. QED
  BY <1>1, <1>6, <1>7, <1>8 DEF m, n

(* A caption is a chunk, from where the last window ended to where it ends. *)
LEMMA CaptionIs ==
  ASSUME TypeOK, start < duration
  PROVE  /\ CaptionChunk \in Chunk
         /\ CaptionChunk.start = start /\ CaptionChunk.end \in Nat /\ CaptionChunk.end >= start
  BY DEF TypeOK, CaptionChunk, Chunk

(* Every step keeps the types. *)
LEMMA TypeStep ==
  ASSUME TypeOK, [Next]_vars
  PROVE  TypeOK'
<1>. USE DEF TypeOK, Stage
<1>0. NoText \in Buffer /\ <<>> \in Seq(Segment) /\ <<>> \in Seq(Chunk)
  BY DEF NoText, Buffer
<1>1. CASE Start
  BY <1>1 DEF Start
<1>2. CASE Download
  BY <1>0, <1>2 DEF Download, Rest
<1>3. CASE ExtractAudio
  BY <1>3 DEF ExtractAudio
<1>4. CASE EndOfTranscript
  <2>1. Valid \in Seq(Chunk)
    BY AllChunksIs, ClearSelects DEF Valid
  <2>. QED
    BY <1>0, <1>4, <2>1 DEF EndOfTranscript
<1>5. ASSUME NEW u \in Utterances, AddSegment(u)
      PROVE  TypeOK'
  <2>. DEFINE x == Heard(u)
              b == Merged(x)
  <2>1. x \in Segment
    BY HeardIs
  <2>. HIDE DEF x
  <2>2. b \in Buffer
    BY <2>1 DEF Merged, Segment, Buffer
  <2>. HIDE DEF b
  <2>3. AudioChunk(b) \in Chunk
    BY <2>2 DEF AudioChunk, Buffer, Chunk
  <2>4. segments' \in Seq(Segment)
    BY <1>5, <2>1 DEF AddSegment, x
  <2>5. chunks' \in Seq(Chunk) /\ buffer' \in Buffer
    <3>1. \/ chunks' = Append(chunks, AudioChunk(b)) /\ buffer' = NoText
          \/ chunks' = chunks /\ buffer' = b
      BY <1>5 DEF AddSegment, b, x
    <3>2. chunks \in Seq(Chunk)
      OBVIOUS
    <3>3. Append(chunks, AudioChunk(b)) \in Seq(Chunk)
      <4>. HIDE DEF TypeOK
      <4>. QED
        BY <2>3, <3>2
    <3>. HIDE DEF TypeOK
    <3>. QED
      BY <1>0, <2>2, <3>1, <3>2, <3>3, Zenon
  <2>6. UNCHANGED <<job, stage, start, duration, index>>
    BY <1>5 DEF AddSegment
  <2>. QED
    BY <2>4, <2>5, <2>6
<1>6. ASSUME NEW d \in Durations, NoAudio(d) \/ NoClearSpeech(d)
      PROVE  TypeOK'
  <2>1. d \in Nat
    OBVIOUS
  <2>2. ToCaptions(d)
    BY <1>6 DEF NoAudio, NoClearSpeech
  <2>. QED
    BY <1>0, <2>1, <2>2 DEF ToCaptions
<1>7. CASE Describe
  <2>. HIDE DEF TypeOK
  <2>1. CaptionChunk \in Chunk /\ CaptionChunk.end \in Nat
    BY <1>7, CaptionIs DEF Describe
  <2>. QED
    BY <1>7, <2>1 DEF Describe, TypeOK
<1>8. CASE Skip
  <2>. HIDE DEF TypeOK
  <2>1. CaptionChunk.end \in Nat
    BY <1>8, CaptionIs DEF Skip
  <2>. QED
    BY <1>8, <2>1 DEF Skip, TypeOK
<1>9. CASE EndOfCaptions
  BY <1>0, <1>9 DEF EndOfCaptions, Rest
<1>10. CASE Upsert
  <2>1. index' \in Seq(Point)
    <3>. HIDE DEF TypeOK
    <3>. QED
      BY <1>10, UpsertIs
  <2>. QED
    BY <1>0, <1>10, <2>1 DEF Upsert, Rest
<1>11. CASE Fail
  BY <1>0, <1>11 DEF Fail, Rest
<1>12. CASE UNCHANGED vars
  BY <1>12 DEF vars
<1>. HIDE DEF TypeOK, Stage
<1>. QED
  BY <1>1, <1>2, <1>3, <1>4, <1>5, <1>6, <1>7, <1>8, <1>9, <1>10, <1>11, <1>12
  DEF Next, Work

(* Every step leaves a transcript only where it is merged. *)
LEMMA StageStep ==
  ASSUME StageInv, [Next]_vars
  PROVE  StageInv'
<1>. USE DEF StageInv
<1>1. CASE Start
  BY <1>1 DEF Start
<1>2. CASE Download
  BY <1>2 DEF Download, Rest
<1>3. CASE ExtractAudio
  BY <1>3 DEF ExtractAudio
<1>4. CASE EndOfTranscript
  BY <1>4 DEF EndOfTranscript
<1>5. ASSUME NEW u \in Utterances, AddSegment(u)
      PROVE  StageInv'
  BY <1>5 DEF AddSegment
<1>6. ASSUME NEW d \in Durations, NoAudio(d) \/ NoClearSpeech(d)
      PROVE  StageInv'
  BY <1>6 DEF NoAudio, NoClearSpeech, ToCaptions
<1>7. CASE Describe \/ Skip
  BY <1>7 DEF Describe, Skip
<1>8. CASE EndOfCaptions
  BY <1>8 DEF EndOfCaptions, Rest
<1>9. CASE Upsert
  BY <1>9 DEF Upsert, Rest
<1>10. CASE Fail
  BY <1>10 DEF Fail, Rest
<1>11. CASE UNCHANGED vars
  BY <1>11 DEF vars
<1>. HIDE DEF StageInv
<1>. QED
  BY <1>1, <1>2, <1>3, <1>4, <1>5, <1>6, <1>7, <1>8, <1>9, <1>10, <1>11 DEF Next, Work

(* Only what is heard changes the cuts, and the merge begins without any. *)
LEMMA CutsStep ==
  ASSUME TypeOK, StageInv, CutWhereFull, [Next]_vars
  PROVE  CutWhereFull'
<1>1. CASE stage' # "merge"
  BY <1>1 DEF CutWhereFull
<1>2. CASE ExtractAudio
  <2>1. segments' = <<>> /\ chunks' = <<>> /\ buffer' = NoText
    BY <1>2 DEF ExtractAudio, StageInv
  <2>2. DOMAIN segments' = {} /\ Len(segments') = 0 /\ Len(chunks') = 0
    BY <2>1
  <2>3. First({}, 1) \in 1 .. 1
    <3>1. {} \in SUBSET (1 .. 0) /\ 1 \in 1 .. 0 + 1 /\ 0 \in Nat
      OBVIOUS
    <3>. HIDE DEF First
    <3>. QED
      BY <3>1, FirstIs
  <2>4. Remainder({})' = NoText
    <3>1. First({}, 0 + 1) > 0
      BY <2>3
    <3>. QED
      BY <2>2, <3>1 DEF Remainder, NoText
  <2>5. Cardinality({}) = 0
    BY FS_EmptySet
  <2>6. CutAt({})'
    BY <2>1, <2>2, <2>4, <2>5 DEF CutAt
  <2>. QED
    BY <2>2, <2>6 DEF CutWhereFull
<1>3. ASSUME NEW u \in Utterances, AddSegment(u)
      PROVE  CutWhereFull'
  BY <1>3, CutStep
<1>4. CASE UNCHANGED <<stage, segments, chunks, buffer>>
  <2>1. stage' = stage /\ segments' = segments /\ chunks' = chunks /\ buffer' = buffer
    BY <1>4
  <2>2. \A i, j : Whole(i, j)' = Whole(i, j) /\ Span(i, j)' = Span(i, j)
    BY <2>1 DEF Whole, Text, Span, AudioChunk
  <2>3. ASSUME NEW cuts
        PROVE  Remainder(cuts)' = Remainder(cuts)
    BY <2>1 DEF Remainder, Text
  <2>. HIDE DEF Whole, Span, Remainder
  <2>4. ASSUME NEW cuts, CutAt(cuts)
        PROVE  CutAt(cuts)'
    BY <2>1, <2>2, <2>3, <2>4 DEF CutAt
  <2>. QED
    BY <2>1, <2>4 DEF CutWhereFull
<1>5. ASSUME ~ ExtractAudio, \A u \in Utterances : ~ AddSegment(u),
             ~ UNCHANGED <<stage, segments, chunks, buffer>>
      PROVE  stage' # "merge"
  BY <1>5 DEF Next, Work, Start, Download, Rest, EndOfTranscript, NoAudio, NoClearSpeech,
              ToCaptions, Describe, Skip, EndOfCaptions, Upsert, Fail, vars
<1>. HIDE DEF CutWhereFull
<1>. QED
  BY <1>1, <1>2, <1>3, <1>4, <1>5

(* A segment is heard after those before it. *)
LEMMA TimeStep ==
  ASSUME TypeOK, TimeInv, [Next]_vars
  PROVE  TimeInv'
<1>1. CASE UNCHANGED segments \/ segments' = <<>>
  BY <1>1 DEF TimeInv
<1>2. ASSUME NEW u \in Utterances, AddSegment(u)
      PROVE  TimeInv'
  <2>. DEFINE x == Heard(u)
              n == Len(segments)
  <2>1. x \in Segment /\ x.start >= Clock /\ x.start <= x.end
    <3>1. /\ u.pause \in Nat /\ u.length \in Nat
          /\ Heard(u).start = Clock + u.pause /\ Heard(u).end = Clock + u.pause + u.length
      BY SemanticAssumption DEF Heard, Utterance
    <3>2. Heard(u) \in Segment /\ Clock \in Nat
      BY HeardIs
    <3>. HIDE DEF Clock
    <3>. QED
      BY <3>1, <3>2
  <2>2. \A i \in DOMAIN segments : segments[i].end <= x.start
    <3>. TAKE i \in DOMAIN segments
    <3>1. n \in Nat /\ i \in 1 .. n /\ n \in DOMAIN segments /\ Clock = segments[n].end
      BY DEF TypeOK, Clock
    <3>2. segments[i] \in Segment /\ segments[n] \in Segment
      BY <3>1 DEF TypeOK
    <3>3. segments[i].end <= segments[n].end
      <4>1. CASE i = n
        BY <3>2, <4>1 DEF Segment
      <4>2. CASE i # n
        <5>1. segments[i].end <= segments[n].start /\ segments[n].start <= segments[n].end
          BY <3>1, <4>2 DEF TimeInv
        <5>. QED
          BY <3>2, <5>1 DEF Segment
      <4>. QED
        BY <4>1, <4>2
    <3>. HIDE DEF x, n, Clock
    <3>. QED
      BY <2>1, <3>1, <3>2, <3>3 DEF Segment
  <2>3. segments' = Append(segments, x) /\ segments \in Seq(Segment)
    BY <1>2 DEF AddSegment, TypeOK
  <2>. HIDE DEF x
  <2>4. /\ n \in Nat /\ DOMAIN segments = 1 .. n /\ DOMAIN segments' = 1 .. n + 1
        /\ segments'[n + 1] = x /\ \A i \in 1 .. n : segments'[i] = segments[i]
    BY <2>1, <2>3
  <2>5. \A i \in DOMAIN segments' : segments'[i].start <= segments'[i].end
    BY <2>1, <2>4 DEF TimeInv
  <2>6. ASSUME NEW i \in DOMAIN segments', NEW j \in DOMAIN segments', i < j
        PROVE  segments'[i].end <= segments'[j].start
    <3>1. i \in 1 .. n
      BY <2>4, <2>6
    <3>2. CASE j = n + 1
      BY <2>2, <2>4, <3>1, <3>2
    <3>3. CASE j # n + 1
      BY <2>4, <2>6, <3>1, <3>3 DEF TimeInv
    <3>. QED
      BY <3>2, <3>3
  <2>. QED
    BY <2>5, <2>6 DEF TimeInv
<1>3. ASSUME \A u \in Utterances : ~ AddSegment(u)
      PROVE  UNCHANGED segments \/ segments' = <<>>
  BY <1>3 DEF Next, Work, Start, Download, Rest, ExtractAudio, EndOfTranscript, NoAudio,
              NoClearSpeech, ToCaptions, Describe, Skip, EndOfCaptions, Upsert, Fail, vars
<1>. QED
  BY <1>1, <1>2, <1>3

(* A segment lies inside every text that it is a part of. *)
LEMMA PartOfText ==
  ASSUME TypeOK, TimeInv, NEW i \in DOMAIN segments, NEW k \in DOMAIN segments,
         NEW j \in DOMAIN segments, i <= k, k <= j
  PROVE  Inside(k, Whole(i, j))
<1>1. /\ segments[i] \in Segment /\ segments[k] \in Segment /\ segments[j] \in Segment
      /\ i \in Nat /\ k \in Nat /\ j \in Nat
  BY DEF TypeOK
<1>2. /\ segments[i].start \in Nat /\ segments[i].end \in Nat
      /\ segments[k].start \in Nat /\ segments[k].end \in Nat
      /\ segments[j].start \in Nat /\ segments[j].end \in Nat
  BY <1>1 DEF Segment
<1>3. segments[i].start <= segments[k].start
  <2>1. CASE i = k
    BY <1>2, <2>1
  <2>2. CASE i # k
    BY <1>1, <1>2, <2>2 DEF TimeInv
  <2>. QED
    BY <2>1, <2>2
<1>4. segments[k].end <= segments[j].end
  <2>1. CASE k = j
    BY <1>2, <2>1
  <2>2. CASE k # j
    BY <1>1, <1>2, <2>2 DEF TimeInv
  <2>. QED
    BY <2>1, <2>2
<1>5. Whole(i, j).start = segments[i].start /\ Whole(i, j).end = segments[j].end
  BY DEF Whole, Text, AudioChunk
<1>. QED
  BY <1>3, <1>4, <1>5 DEF Inside

(* A segment belongs to the chunk of the first cut that is not before it, or
   to the remainder, which is blank only when all of it is. *)
LEMMA SaidKept ==
  ASSUME TypeOK, TimeInv, CutWhereFull
  PROVE  SaidIsKept
<1>. SUFFICES ASSUME stage = "merge", NEW k \in DOMAIN segments, ~ segments[k].blank
              PROVE  \E i \in DOMAIN AllChunks : Inside(k, AllChunks[i])
  BY DEF SaidIsKept
<1>. DEFINE n == Len(segments)
<1>1. PICK cuts \in SUBSET DOMAIN segments : CutAt(cuts)
  BY DEF CutWhereFull
<1>2. n \in Nat /\ DOMAIN segments = 1 .. n /\ cuts \in SUBSET (1 .. n) /\ k \in 1 .. n
  BY DEF TypeOK
<1>3. /\ chunks \in Seq(Chunk) /\ AudioChunk(buffer) \in Chunk
  BY DEF TypeOK, Buffer, Chunk, AudioChunk
<1>4. /\ DOMAIN chunks \subseteq DOMAIN AllChunks
      /\ \A i \in DOMAIN chunks : AllChunks[i] = chunks[i]
  BY <1>3 DEF AllChunks
<1>. HIDE DEF n
<1>5. CASE \E j \in cuts : k <= j
  <2>. DEFINE T == {j \in cuts : k <= j}
  <2>1. T \in SUBSET Nat /\ T # {}
    BY <1>2, <1>5
  <2>2. PICK j \in T : \A i \in T : j <= i
    <3>. HIDE DEF T
    <3>. QED
      BY <2>1, LeastElement
  <2>3. j \in cuts /\ k <= j /\ j \in 1 .. n
    BY <1>2
  <2>4. \A i \in cuts : i < j => i < k
    BY <1>2, <2>2, <2>3
  <2>5. First(cuts, j) \in 1 .. k
    BY <1>2, <2>3, <2>4, FirstUpTo
  <2>. DEFINE i == Cardinality({m \in cuts : m <= j})
  <2>6. i \in DOMAIN chunks
    <3>1. i \in 1 .. Cardinality(cuts)
      BY <1>2, <2>3, CutCount
    <3>2. Cardinality(cuts) = Len(chunks)
      BY <1>1 DEF CutAt
    <3>. HIDE DEF i
    <3>. QED
      BY <1>3, <3>1, <3>2
  <2>7. chunks[i] = Whole(First(cuts, j), j)
    BY <1>1, <2>3 DEF CutAt
  <2>8. Inside(k, Whole(First(cuts, j), j))
    <3>1. First(cuts, j) \in DOMAIN segments /\ j \in DOMAIN segments /\ First(cuts, j) <= k
      BY <1>2, <2>3, <2>5
    <3>. QED
      BY <2>3, <3>1, PartOfText
  <2>. HIDE DEF i
  <2>. QED
    BY <1>4, <2>6, <2>7, <2>8
<1>6. CASE \A j \in cuts : j < k
  <2>. DEFINE f == First(cuts, n + 1)
  <2>1. f \in 1 .. k
    <3>1. k <= n + 1 /\ n + 1 \in 1 .. n + 1 /\ \A j \in cuts : j < n + 1 => j < k
      BY <1>2, <1>6
    <3>. QED
      BY <1>2, <3>1, FirstUpTo
  <2>2. buffer = Text(f, n)
    <3>1. buffer = Remainder(cuts)
      BY <1>1 DEF CutAt
    <3>2. ~ (f > n)
      BY <1>2, <2>1
    <3>. QED
      BY <3>1, <3>2 DEF Remainder, n
  <2>. HIDE DEF f
  <2>3. ~ buffer.blank
    <3>1. buffer.blank = (\A m \in f .. n : segments[m].blank)
      BY <2>2 DEF Text
    <3>2. k \in f .. n
      BY <1>2, <2>1
    <3>. QED
      BY <3>1, <3>2
  <2>4. /\ Len(chunks) + 1 \in DOMAIN AllChunks
        /\ AllChunks[Len(chunks) + 1] = Whole(f, n)
    <3>1. AllChunks = Append(chunks, AudioChunk(buffer))
      BY <2>3 DEF AllChunks
    <3>2. AudioChunk(buffer) = Whole(f, n)
      BY <2>2 DEF Whole
    <3>. QED
      BY <1>3, <3>1, <3>2
  <2>5. Inside(k, Whole(f, n))
    <3>1. f \in DOMAIN segments /\ n \in DOMAIN segments /\ f <= k /\ k <= n
      BY <1>2, <2>1
    <3>. QED
      BY <3>1, PartOfText
  <2>. QED
    BY <2>4, <2>5
<1>7. \A j \in cuts : j < k \/ k <= j
  BY <1>2
<1>. QED
  BY <1>5, <1>6, <1>7

(* The chunks of what is said follow one another, the end of the video too. *)
LEMMA AllChunksInOrder ==
  ASSUME TypeOK, OrderInv, CutWhereFull, stage = "merge",
         NEW i \in DOMAIN AllChunks, NEW j \in DOMAIN AllChunks, i < j
  PROVE  AllChunks[i].end <= AllChunks[j].start
<1>1. /\ chunks \in Seq(Chunk) /\ AudioChunk(buffer) \in Chunk
      /\ AudioChunk(buffer).start = buffer.start
  BY DEF TypeOK, Buffer, Chunk, AudioChunk
<1>. HIDE DEF AudioChunk
<1>2. CASE buffer.blank
  BY <1>2 DEF AllChunks, OrderInv
<1>3. CASE ~ buffer.blank
  <2>1. buffer.count # 0
    <3>1. PICK cuts \in SUBSET DOMAIN segments : CutAt(cuts)
      BY DEF CutWhereFull
    <3>2. buffer # NoText
      BY <1>3 DEF NoText
    <3>. QED
      BY <3>1, <3>2, BufferIs
  <2>2. \A k \in DOMAIN chunks : chunks[k].end <= buffer.start
    BY <2>1 DEF OrderInv
  <2>3. AllChunks = Append(chunks, AudioChunk(buffer))
    BY <1>3 DEF AllChunks
  <2>4. /\ Len(chunks) \in Nat /\ DOMAIN chunks = 1 .. Len(chunks)
        /\ DOMAIN AllChunks = 1 .. Len(chunks) + 1
        /\ AllChunks[Len(chunks) + 1] = AudioChunk(buffer)
        /\ \A k \in 1 .. Len(chunks) : AllChunks[k] = chunks[k]
    BY <1>1, <2>3
  <2>. HIDE DEF AllChunks
  <2>5. i \in 1 .. Len(chunks)
    BY <2>4
  <2>6. CASE j = Len(chunks) + 1
    BY <1>1, <2>2, <2>4, <2>5, <2>6
  <2>7. CASE j # Len(chunks) + 1
    <3>1. j \in 1 .. Len(chunks)
      BY <2>4, <2>7
    <3>. QED
      BY <2>4, <2>5, <3>1 DEF OrderInv
  <2>. QED
    BY <2>6, <2>7
<1>. QED
  BY <1>2, <1>3

(* Every step keeps the chunks in the order of the video. *)
LEMMA OrderStep ==
  ASSUME TypeOK, StageInv, OrderInv, CutWhereFull, [Next]_vars
  PROVE  OrderInv'
<1>1. CASE chunks' = <<>>
  BY <1>1 DEF OrderInv
<1>2. CASE stage' = "embed" /\ UNCHANGED chunks
  BY <1>2 DEF OrderInv
<1>3. CASE UNCHANGED vars
  BY <1>3 DEF OrderInv, vars, Clock
<1>4. CASE EndOfTranscript
  <2>1. AllChunks \in Seq(Chunk)
    BY AllChunksIs
  <2>2. PICK f : Selects(f, chunks', AllChunks, Len(AllChunks))
    BY <1>4, <2>1, ClearSelects DEF EndOfTranscript, Valid
  <2>3. chunks' \in Seq(Chunk)
    BY <1>4, <2>1, ClearSelects DEF EndOfTranscript, Valid
  <2>4. ASSUME NEW i \in DOMAIN chunks', NEW j \in DOMAIN chunks', i < j
        PROVE  chunks'[i].end <= chunks'[j].start
    <3>1. i \in 1 .. Len(chunks') /\ j \in 1 .. Len(chunks')
      BY <2>3
    <3>2. /\ f[i] \in 1 .. Len(AllChunks) /\ f[j] \in 1 .. Len(AllChunks) /\ f[i] < f[j]
          /\ chunks'[i] = AllChunks[f[i]] /\ chunks'[j] = AllChunks[f[j]]
      BY <2>2, <2>4, <3>1 DEF Selects
    <3>3. f[i] \in DOMAIN AllChunks /\ f[j] \in DOMAIN AllChunks
      BY <2>1, <3>2
    <3>4. AllChunks[f[i]].end <= AllChunks[f[j]].start
      BY <1>4, <3>2, <3>3, AllChunksInOrder DEF EndOfTranscript
    <3>. QED
      BY <3>2, <3>4
  <2>. QED
    BY <1>4, <2>4 DEF EndOfTranscript, OrderInv
<1>5. ASSUME NEW u \in Utterances, AddSegment(u)
      PROVE  OrderInv'
  <2>. DEFINE x == Heard(u)
              b == Merged(x)
  <2>1. x \in Segment /\ Clock \in Nat /\ x.start >= Clock
    <3>1. Heard(u).start = Clock + u.pause /\ u.pause \in Nat
      BY DEF Heard
    <3>2. Heard(u) \in Segment /\ Clock \in Nat
      BY HeardIs
    <3>. HIDE DEF Clock
    <3>. QED
      BY <3>1, <3>2
  <2>2. Clock' = x.end
    BY <1>5, <2>1 DEF AddSegment, Clock, TypeOK
  <2>. HIDE DEF x
  <2>3. /\ b.start = IF buffer.count = 0 THEN x.start ELSE buffer.start
        /\ b.end = x.end /\ b.count = buffer.count + 1
        /\ b.start \in Nat /\ b.end \in Nat /\ b.count # 0
    BY <2>1 DEF Merged, Segment, TypeOK, Buffer
  <2>4. \A k \in DOMAIN chunks : chunks[k].end \in Nat /\ chunks[k].end <= b.start
    <3>. TAKE k \in DOMAIN chunks
    <3>1. chunks[k] \in Chunk
      BY DEF TypeOK
    <3>2. chunks[k].end <= IF buffer.count = 0 THEN Clock ELSE buffer.start
      BY <1>5 DEF OrderInv, AddSegment
    <3>3. chunks[k].end \in Nat
      BY <3>1 DEF Chunk
    <3>. HIDE DEF b, Clock
    <3>. QED
      BY <2>1, <2>3, <3>2, <3>3 DEF Segment
  <2>5. stage' = "merge"
    BY <1>5 DEF AddSegment
  <2>6. \/ b.end - b.start >= Window /\ chunks' = Append(chunks, AudioChunk(b)) /\ buffer' = NoText
        \/ chunks' = chunks /\ buffer' = b
    BY <1>5 DEF AddSegment, x
  <2>. HIDE DEF b
  <2>7. CASE /\ b.end - b.start >= Window
             /\ chunks' = Append(chunks, AudioChunk(b)) /\ buffer' = NoText
    <3>1. AudioChunk(b) = [start |-> b.start, end |-> b.end, noise |-> b.noise, count |-> b.count,
                           source |-> "audio"]
      BY DEF AudioChunk
    <3>2. /\ Len(chunks) \in Nat /\ DOMAIN chunks = 1 .. Len(chunks)
          /\ DOMAIN chunks' = 1 .. Len(chunks) + 1
          /\ chunks'[Len(chunks) + 1] = AudioChunk(b)
          /\ \A k \in 1 .. Len(chunks) : chunks'[k] = chunks[k]
      <4>1. chunks \in Seq(Chunk)
        BY DEF TypeOK
      <4>. HIDE DEF AudioChunk
      <4>. QED
        BY <2>7, <4>1
    <3>3. buffer'.count = 0
      BY <2>7 DEF NoText
    <3>4. b.start <= b.end
      BY <2>3, <2>7
    <3>5. \A k \in DOMAIN chunks' :
             \/ k \in DOMAIN chunks /\ chunks'[k] = chunks[k]
             \/ k = Len(chunks) + 1 /\ chunks'[k].start = b.start /\ chunks'[k].end = b.end
      BY <3>1, <3>2
    <3>6. \A k \in DOMAIN chunks' : chunks'[k].end <= Clock'
      <4>. HIDE DEF Clock
      <4>. QED
        BY <2>2, <2>3, <2>4, <3>4, <3>5
    <3>7. ASSUME NEW i \in DOMAIN chunks', NEW j \in DOMAIN chunks', i < j
          PROVE  chunks'[i].end <= chunks'[j].start
      <4>1. i \in DOMAIN chunks /\ chunks'[i] = chunks[i]
        BY <3>2, <3>7
      <4>2. CASE j \in DOMAIN chunks
        BY <3>2, <3>7, <4>1, <4>2 DEF OrderInv
      <4>3. CASE j \notin DOMAIN chunks
        BY <2>4, <3>5, <4>1, <4>3
      <4>. QED
        BY <4>2, <4>3
    <3>. HIDE DEF Clock
    <3>. QED
      BY <2>5, <3>3, <3>6, <3>7 DEF OrderInv
  <2>8. CASE chunks' = chunks /\ buffer' = b
    <3>1. \A k \in DOMAIN chunks' : chunks'[k].end <= IF buffer'.count = 0 THEN Clock' ELSE buffer'.start
      BY <2>3, <2>4, <2>8
    <3>. HIDE DEF Clock
    <3>. QED
      BY <2>5, <2>8, <3>1 DEF OrderInv
  <2>. QED
    BY <2>6, <2>7, <2>8
<1>6. CASE Describe
  <2>. DEFINE c == CaptionChunk
  <2>1. c \in Chunk /\ c.start = start /\ c.end >= start /\ start \in Nat /\ c.end \in Nat
    BY <1>6, CaptionIs DEF Describe, TypeOK
  <2>2. chunks' = Append(chunks, c) /\ start' = c.end /\ stage = "captions" /\ stage' = "captions"
    BY <1>6 DEF Describe
  <2>. HIDE DEF c
  <2>3. /\ Len(chunks) \in Nat /\ DOMAIN chunks = 1 .. Len(chunks)
        /\ DOMAIN chunks' = 1 .. Len(chunks) + 1
        /\ chunks'[Len(chunks) + 1] = c
        /\ \A k \in 1 .. Len(chunks) : chunks'[k] = chunks[k]
    BY <2>1, <2>2 DEF TypeOK
  <2>4. \A k \in DOMAIN chunks : chunks[k].end \in Nat /\ chunks[k].end <= start
    <3>1. \A k \in DOMAIN chunks : chunks[k] \in Chunk
      BY DEF TypeOK
    <3>. QED
      BY <2>2, <3>1 DEF OrderInv, Chunk
  <2>5. ASSUME NEW i \in DOMAIN chunks', NEW j \in DOMAIN chunks', i < j
        PROVE  chunks'[i].end <= chunks'[j].start
    <3>1. i \in DOMAIN chunks /\ chunks'[i] = chunks[i]
      BY <2>3, <2>5
    <3>2. CASE j \in DOMAIN chunks
      BY <2>3, <2>5, <3>1, <3>2 DEF OrderInv
    <3>3. CASE j \notin DOMAIN chunks
      BY <2>1, <2>3, <2>4, <3>1, <3>3
    <3>. QED
      BY <3>2, <3>3
  <2>6. \A i \in DOMAIN chunks' : chunks'[i].end <= start'
    BY <2>1, <2>2, <2>3, <2>4
  <2>. QED
    BY <2>2, <2>5, <2>6 DEF OrderInv
<1>7. CASE Skip
  <2>1. CaptionChunk.end \in Nat /\ CaptionChunk.end >= start /\ start \in Nat
    BY <1>7, CaptionIs DEF Skip, TypeOK
  <2>2. \A k \in DOMAIN chunks : chunks[k].end \in Nat
    <3>1. \A k \in DOMAIN chunks : chunks[k] \in Chunk
      BY DEF TypeOK
    <3>. QED
      BY <3>1 DEF Chunk
  <2>. HIDE DEF CaptionChunk
  <2>. QED
    BY <1>7, <2>1, <2>2 DEF Skip, OrderInv
<1>8. ASSUME ~ EndOfTranscript, ~ Describe, ~ Skip, \A u \in Utterances : ~ AddSegment(u),
             ~ UNCHANGED vars
      PROVE  chunks' = <<>> \/ (stage' = "embed" /\ UNCHANGED chunks)
  BY <1>8 DEF Next, Work, Start, Download, Rest, ExtractAudio, NoAudio, NoClearSpeech,
              ToCaptions, EndOfCaptions, Upsert, Fail, StageInv
<1>. QED
  BY <1>1, <1>2, <1>3, <1>4, <1>5, <1>6, <1>7, <1>8

(* Every step leaves the points of the job at work, if any, behind its end. *)
LEMMA IndexStep ==
  ASSUME TypeOK, IndexInv, [Next]_vars
  PROVE  IndexInv'
<1>1. job \in Nat /\ \A i \in DOMAIN index : index[i].job \in Nat
  <2>1. \A i \in DOMAIN index : index[i] \in Point
    BY DEF TypeOK
  <2>. QED
    BY <2>1 DEF TypeOK, Point
<1>2. CASE Start
  BY <1>1, <1>2 DEF Start, IndexInv
<1>3. CASE Upsert
  <2>1. \A i \in DOMAIN index' : index'[i].job = job \/ (i \in DOMAIN index /\ index'[i] = index[i])
    BY <1>3, UpsertIs
  <2>2. job' = job /\ stage' = "idle"
    BY <1>3 DEF Upsert
  <2>. QED
    BY <1>1, <2>1, <2>2 DEF IndexInv
<1>4. CASE UNCHANGED <<job, index>> /\ (stage' # "idle" => stage # "idle")
  BY <1>4 DEF IndexInv
<1>5. ASSUME ~ Start, ~ Upsert
      PROVE  UNCHANGED <<job, index>> /\ (stage' # "idle" => stage # "idle")
  BY <1>5 DEF Next, Work, Download, Rest, ExtractAudio, EndOfTranscript, AddSegment, NoAudio,
              NoClearSpeech, ToCaptions, Describe, Skip, EndOfCaptions, Fail, vars
<1>. QED
  BY <1>2, <1>3, <1>4, <1>5

(* The upsert leaves what is older behind what is newer. *)
LEMMA OlderStep ==
  ASSUME TypeOK, OrderInv, IndexInv, OlderBehindNewer, [Next]_vars
  PROVE  OlderBehindNewer'
<1>1. CASE UNCHANGED index
  BY <1>1 DEF OlderBehindNewer
<1>2. CASE Upsert
  <2>1. /\ job \in Nat /\ DOMAIN chunks = 1 .. Len(chunks) /\ Len(chunks) \in Nat
        /\ DOMAIN index = 1 .. Len(index) /\ Len(index) \in Nat
        /\ \A i \in DOMAIN index : index[i].job \in Nat
    <3>1. \A i \in DOMAIN index : index[i] \in Point
      BY DEF TypeOK
    <3>. QED
      BY <3>1 DEF TypeOK, Point
  <2>2. \A i \in DOMAIN index' :
          \/ /\ i \in DOMAIN chunks
             /\ index'[i].job = job /\ index'[i].start = chunks[i].start
             /\ index'[i].end = chunks[i].end
          \/ i > Len(chunks) /\ i \in DOMAIN index /\ index'[i] = index[i]
    BY <1>2, UpsertIs
  <2>3. DOMAIN index' \subseteq Nat
    <3>1. index' \in Seq(Point)
      BY <1>2, UpsertIs
    <3>. QED
      BY <3>1
  <2>4. \A i \in DOMAIN index : index[i].job < job
    BY <1>2 DEF IndexInv, Upsert
  <2>5. ASSUME NEW i \in DOMAIN index', NEW j \in DOMAIN index', i < j
        PROVE  /\ index'[i].job >= index'[j].job
               /\ index'[i].job = index'[j].job => index'[i].end <= index'[j].start
    <3>1. i \in Nat /\ j \in Nat
      BY <2>3
    <3>2. CASE i > Len(chunks)
      <4>1. i \in DOMAIN index /\ index'[i] = index[i]
        BY <2>1, <2>2, <3>2
      <4>2. j \in DOMAIN index /\ index'[j] = index[j]
        BY <2>1, <2>2, <2>5, <3>1, <3>2
      <4>. QED
        BY <2>5, <4>1, <4>2 DEF OlderBehindNewer
    <3>3. CASE ~ (i > Len(chunks))
      <4>1. i \in DOMAIN chunks /\ index'[i].job = job /\ index'[i].end = chunks[i].end
        BY <2>2, <3>3
      <4>2. CASE j > Len(chunks)
        <5>1. j \in DOMAIN index /\ index'[j] = index[j]
          BY <2>1, <2>2, <4>2
        <5>. QED
          BY <2>1, <2>4, <4>1, <5>1
      <4>3. CASE ~ (j > Len(chunks))
        <5>1. j \in DOMAIN chunks /\ index'[j].job = job /\ index'[j].start = chunks[j].start
          BY <2>2, <4>3
        <5>. QED
          BY <2>1, <2>5, <4>1, <5>1 DEF OrderInv
      <4>. QED
        BY <4>2, <4>3
    <3>. QED
      BY <3>2, <3>3
  <2>. QED
    BY <2>5 DEF OlderBehindNewer
<1>3. ASSUME ~ Upsert
      PROVE  UNCHANGED index
  BY <1>3 DEF Next, Work, Start, Download, ExtractAudio, EndOfTranscript, AddSegment, NoAudio,
              NoClearSpeech, ToCaptions, Describe, Skip, EndOfCaptions, Fail, vars
<1>. QED
  BY <1>1, <1>2, <1>3

(* Every step keeps the invariant. *)
LEMMA StepInv ==
  IInv /\ [Next]_vars => IInv'
<1>. SUFFICES ASSUME IInv, [Next]_vars PROVE IInv'
  OBVIOUS
<1>1. /\ TypeOK /\ StageInv /\ TimeInv /\ OrderInv /\ IndexInv
      /\ CutWhereFull /\ OlderBehindNewer
  BY DEF IInv
<1>. QED
  BY <1>1, TypeStep, StageStep, TimeStep, OrderStep, IndexStep, CutsStep, OlderStep DEF IInv

-----------------------------------------------------------------------------
(* Theorems *)

(* The invariant holds of every behaviour: any transcript, any number of jobs
   over the video, failed or not. *)
THEOREM InvHolds == Spec => []IInv
BY InitInv, StepInv, PTL DEF Spec

(* The variables keep their types. *)
THEOREM TypesHold == Spec => []TypeOK
<1>1. IInv => TypeOK
  BY DEF IInv
<1>. QED
  BY <1>1, InvHolds, PTL

(* However long the transcript, every segment of it is in exactly one chunk or
   still in the buffer, a chunk ends where the window is full and nowhere else,
   and what is left at the end is dropped only when it is blank
   (transcription_service.py:70). *)
THEOREM TranscriptsAreKept == Spec => []TranscriptIsKept
<1>1. IInv => TranscriptIsKept
  BY SaidKept DEF IInv, TranscriptIsKept
<1>. QED
  BY <1>1, InvHolds, PTL

(* After any number of jobs, shorter or longer, the points of older ones are
   only behind those of newer ones, and a job's points follow the video
   (chunk_qdrant.py:95). *)
THEOREM OlderStaysBehind == Spec => []OlderBehindNewer
<1>1. IInv => OlderBehindNewer
  BY DEF IInv
<1>. QED
  BY <1>1, InvHolds, PTL

(* What goes on to be embedded at the end of a transcript is every chunk of it
   that is clear, the last short one included, in the order of the video, and
   no other (transcription_service.py:149). *)
THEOREM TheFilterKeepsTheClear ==
  Spec => [][EndOfTranscript => \E f : Selects(f, chunks', AllChunks, Len(AllChunks))]_vars
<1>1. IInv /\ [Next]_vars =>
        [EndOfTranscript => \E f : Selects(f, chunks', AllChunks, Len(AllChunks))]_vars
  BY AllChunksIs, ClearSelects DEF IInv, EndOfTranscript, Valid
<1>. QED
  BY <1>1, InvHolds, PTL DEF Spec
=============================================================================
