------------------------- MODULE ConversationProofs -------------------------
(***************************************************************************)
(* Proofs about what a conversation is.                                    *)
(*                                                                         *)
(* About SessionManager, for any number of files, entries, forks and       *)
(* crashes: what is on disk rebuilds the session that wrote it; what is    *)
(* written is never altered; and every file whose first flush or copy was  *)
(* not cut short has one header and an answer.                             *)
(*                                                                         *)
(* About what is compacted of a conversation, for branches of any length,  *)
(* any sizes and any budget, compacted any number of times.                *)
(***************************************************************************)
EXTENDS MCConversation, SequenceTheorems, WellFoundedInduction, TLAPS

(* Lemmas about numbers and about functions that are defined by recursion: *)
(* they are stated for sets, not for operators, and rest on the well-      *)
(* foundedness of the natural numbers.                                     *)
Less == {p \in Nat \X Nat : p[1] < p[2]}

(* Every set of numbers that is not empty has a smallest one.              *)
LEMMA LeastNumber ==
    ASSUME NEW S \in SUBSET Nat, S # {}
    PROVE  \E x \in S : \A y \in S : x <= y
<1>1. IsWellFoundedOn(Less, Nat)
  <2>1. Less = OpToRel(<, Nat)
    BY DEF Less, OpToRel
  <2> QED BY <2>1, NatLessThanWellFounded
<1>2. PICK x \in S : \A y \in S : ~(<<y, x>> \in Less)
  BY <1>1, WFMin
<1>3. \A y \in S : x <= y
  <2> SUFFICES ASSUME NEW y \in S, y < x PROVE FALSE
    BY S \subseteq Nat
  <2>1. <<y, x>> \in Less
    BY DEF Less
  <2> QED BY <1>2, <2>1
<1> QED BY <1>3

(* A set of places of a sequence that is not empty has a last one.         *)
LEMMA GreatestNumber ==
    ASSUME NEW n \in Nat, NEW S \in SUBSET (1 .. n), S # {}
    PROVE  \E x \in S : \A y \in S : y <= x
<1> DEFINE T == {n - x : x \in S}
<1>1. T \in SUBSET Nat /\ T # {}
  OBVIOUS
<1> HIDE DEF T
<1>2. PICK t \in T : \A y \in T : t <= y
  BY <1>1, LeastNumber
<1>3. PICK x \in S : t = n - x
  BY DEF T
<1>4. ASSUME NEW y \in S PROVE y <= x
  <2>1. n - y \in T
    BY DEF T
  <2>2. x \in Nat /\ y \in Nat
    OBVIOUS
  <2> QED BY <1>2, <1>3, <2>1, <2>2
<1> QED BY <1>4

(* A set that has 0, and with a number the next one, up to n, has them all.*)
LEMMA UpTo ==
    ASSUME NEW n \in Nat, NEW S,
           0 \in S, \A i \in 1 .. n : i - 1 \in S => i \in S
    PROVE  0 .. n \subseteq S
<1> SUFFICES ASSUME 0 .. n \ S # {} PROVE FALSE
  OBVIOUS
<1>1. (0 .. n) \ S \in SUBSET Nat
  OBVIOUS
<1>2. PICK x \in (0 .. n) \ S : \A y \in (0 .. n) \ S : x <= y
  BY <1>1, LeastNumber
<1>3. x # 0 /\ x \in 1 .. n /\ x - 1 \in 0 .. n /\ ~(x <= x - 1)
  BY <1>2
<1> QED BY <1>2, <1>3

(* A function on 0 .. n may be defined by its value at 0 and, at every     *)
(* other place, by that at an earlier place (prev).                        *)
Earlier(prev, n) == prev \in [1 .. n -> Nat] /\ \A i \in 1 .. n : prev[i] < i
Steps(step, n, V) == step \in [1 .. n -> [V -> V]]
Follows(f, n, base, prev, step) ==
    f[0] = base /\ \A i \in 1 .. n : f[i] = step[i][f[prev[i]]]

LEMMA RecursiveFunction ==
    ASSUME NEW n \in Nat, NEW V, NEW base \in V,
           NEW prev, Earlier(prev, n), NEW step, Steps(step, n, V)
    PROVE  \E f \in [0 .. n -> V] : Follows(f, n, base, prev, step)
<1> USE DEF Earlier, Steps
<1> DEFINE Good(m, f) == f[0] = base /\ \A i \in 1 .. m : f[i] = step[i][f[prev[i]]]
           S == {m \in 0 .. n : \E f \in [0 .. m -> V] : Good(m, f)}
<1>1. 0 \in S
  <2> DEFINE f == [i \in 0 .. 0 |-> base]
  <2>1. f \in [0 .. 0 -> V] /\ f[0] = base /\ 0 \in 0 .. n
    OBVIOUS
  <2>2. \A i \in 1 .. 0 : f[i] = step[i][f[prev[i]]]
    OBVIOUS
  <2> QED BY <2>1, <2>2
<1>2. ASSUME NEW i \in 1 .. n, i - 1 \in S PROVE i \in S
  <2>1. PICK f \in [0 .. i - 1 -> V] : Good(i - 1, f)
    BY <1>2
  <2> DEFINE g == [j \in 0 .. i |-> IF j = i THEN step[i][f[prev[i]]] ELSE f[j]]
  <2>2. prev[i] \in 0 .. i - 1 /\ i \in Nat /\ i \in 0 .. n
    OBVIOUS
  <2>3. step[i][f[prev[i]]] \in V
    BY <2>2
  <2>4. g \in [0 .. i -> V]
    BY <2>2, <2>3
  <2>5. g[0] = base
    BY <2>1, <2>2
  <2>6. ASSUME NEW j \in 1 .. i PROVE g[j] = step[j][g[prev[j]]]
    <3>1. prev[j] \in 0 .. j - 1 /\ prev[j] \in 0 .. i - 1 /\ prev[j] # i /\ prev[j] \in 0 .. i
      OBVIOUS
    <3>2. g[prev[j]] = f[prev[j]]
      BY <3>1
    <3>3. CASE j = i
      BY <3>2, <3>3
    <3>4. CASE j # i
      <4>1. j \in 1 .. i - 1 /\ g[j] = f[j]
        BY <3>4
      <4> QED BY <2>1, <3>2, <4>1
    <3> QED BY <3>3, <3>4
  <2>7. Good(i, g)
    BY <2>5, <2>6
  <2> QED BY <2>2, <2>4, <2>7
<1> HIDE DEF S
<1>3. 0 .. n \subseteq S
  BY <1>1, <1>2, UpTo
<1>4. n \in S
  BY <1>3
<1> QED BY <1>4 DEF S, Follows
-----------------------------------------------------------------------------

(* How r comes out of the first n places of s: g says where each of its    *)
(* elements stood, in order, and those of S are all there.                 *)
Picks(g, r, s, n, S) ==
    /\ g \in [1 .. Len(r) -> 1 .. n]
    /\ \A i \in 1 .. Len(r) : r[i] = s[g[i]] /\ s[g[i]] \in S
    /\ \A i, j \in 1 .. Len(r) : i < j => g[i] < g[j]
    /\ \A k \in 1 .. n : s[k] \in S => \E i \in 1 .. Len(r) : g[i] = k

LEMMA PicksNext ==
    ASSUME NEW T, NEW s \in Seq(T), NEW S, NEW r \in Seq(T), NEW n \in 1 .. Len(s), NEW g,
           Picks(g, r, s, n - 1, S)
    PROVE  IF s[n] \in S THEN \E h : Picks(h, Append(r, s[n]), s, n, S)
                         ELSE Picks(g, r, s, n, S)
<1>1. Len(r) \in Nat /\ n \in Nat /\ s[n] \in T /\ 1 .. n - 1 \subseteq 1 .. n /\ n \in 1 .. n
  OBVIOUS
<1>2. CASE s[n] \in S
  <2> DEFINE q == Append(r, s[n])
             h == [i \in 1 .. Len(r) + 1 |-> IF i = Len(r) + 1 THEN n ELSE g[i]]
  <2>1. /\ Len(q) = Len(r) + 1 /\ q[Len(r) + 1] = s[n]
        /\ \A i \in 1 .. Len(r) : q[i] = r[i] /\ h[i] = g[i] /\ g[i] \in 1 .. n - 1
        /\ h[Len(r) + 1] = n
    <3>1. /\ Len(q) = Len(r) + 1 /\ q[Len(r) + 1] = s[n]
          /\ \A i \in 1 .. Len(r) : q[i] = r[i]
      BY <1>1
    <3>2. \A i \in 1 .. Len(r) : g[i] \in 1 .. n - 1
      BY DEF Picks
    <3>3. \A i \in 1 .. Len(r) : h[i] = g[i]
      BY <1>1
    <3>4. h[Len(r) + 1] = n
      BY <1>1
    <3> HIDE DEF q, h
    <3> QED BY <3>1, <3>2, <3>3, <3>4
  <2>2. \A i \in 1 .. Len(r) + 1 : i = Len(r) + 1 \/ i \in 1 .. Len(r)
    BY <1>1
  <2>3. h \in [1 .. Len(q) -> 1 .. n]
    BY <1>1, <2>1, <2>2
  <2>4. \A i \in 1 .. Len(q) : q[i] = s[h[i]] /\ s[h[i]] \in S
    BY <1>2, <2>1, <2>2 DEF Picks
  <2>5. ASSUME NEW i \in 1 .. Len(q), NEW j \in 1 .. Len(q), i < j PROVE h[i] < h[j]
    <3>1. i \in 1 .. Len(r)
      BY <1>1, <2>1, <2>5
    <3>2. CASE j = Len(r) + 1
      <4>1. h[i] = g[i] /\ g[i] \in 1 .. n - 1
        BY <2>1, <3>1
      <4>2. h[j] = n
        BY <2>1, <3>2
      <4> HIDE DEF h
      <4> QED BY <1>1, <4>1, <4>2
    <3>3. CASE j \in 1 .. Len(r)
      BY <2>1, <2>5, <3>1, <3>3 DEF Picks
    <3> QED BY <2>1, <2>2, <3>2, <3>3
  <2>6. ASSUME NEW k \in 1 .. n, s[k] \in S PROVE \E i \in 1 .. Len(q) : h[i] = k
    <3>1. CASE k = n
      BY <1>1, <2>1, <3>1
    <3>2. CASE k # n
      <4>1. k \in 1 .. n - 1
        BY <3>2
      <4>2. PICK i \in 1 .. Len(r) : g[i] = k
        BY <2>6, <4>1 DEF Picks
      <4> QED BY <1>1, <2>1, <4>2
    <3> QED BY <3>1, <3>2
  <2> HIDE DEF q, h
  <2>7. Picks(h, q, s, n, S)
    BY <2>3, <2>4, <2>5, <2>6 DEF Picks
  <2> QED BY <1>2, <2>7 DEF q
<1>3. CASE ~(s[n] \in S)
  <2>1. g \in [1 .. Len(r) -> 1 .. n]
    BY <1>1 DEF Picks
  <2>2. \A k \in 1 .. n : s[k] \in S => k \in 1 .. n - 1
    BY <1>3
  <2>3. Picks(g, r, s, n, S)
    BY <2>1, <2>2 DEF Picks
  <2> QED BY <1>3, <2>3
<1> QED BY <1>2, <1>3

LEMMA OnlyIs ==
    ASSUME NEW T, NEW s \in Seq(T), NEW S
    PROVE  /\ Only(s, S) \in Seq(T)
           /\ \E g : Picks(g, Only(s, S), s, Len(s), S)
<1> DEFINE n == Len(s)
           only == CHOOSE only : only = [i \in 0 .. Len(s) |->
                       IF i = 0 THEN << >>
                       ELSE IF s[i] \in S THEN Append(only[i - 1], s[i])
                       ELSE only[i - 1]]
           step == [i \in 1 .. n |-> [v \in Seq(T) |->
                       IF s[i] \in S THEN Append(v, s[i]) ELSE v]]
           prev == [i \in 1 .. n |-> i - 1]
<1>1. n \in Nat /\ \A i \in 1 .. n : s[i] \in T
  OBVIOUS
<1>2. Steps(step, n, Seq(T)) /\ Earlier(prev, n)
  BY <1>1 DEF Steps, Earlier
<1>3. << >> \in Seq(T)
  OBVIOUS
<1>4. PICK f \in [0 .. n -> Seq(T)] : Follows(f, n, << >>, prev, step)
  <2> HIDE DEF n, step, prev
  <2> QED BY <1>1, <1>2, <1>3, RecursiveFunction
<1>5. \A i \in 0 .. n : f[i] = IF i = 0 THEN << >>
                               ELSE IF s[i] \in S THEN Append(f[i - 1], s[i])
                               ELSE f[i - 1]
  <2> TAKE i \in 0 .. n
  <2>1. CASE i = 0
    BY <1>4, <2>1 DEF Follows
  <2>2. CASE i # 0
    <3>1. i \in 1 .. n /\ i - 1 \in 0 .. n
      BY <1>1, <2>2
    <3>2. f[i] = step[i][f[i - 1]] /\ f[i - 1] \in Seq(T)
      BY <1>4, <3>1 DEF Follows
    <3> QED BY <2>2, <3>1, <3>2
  <2> QED BY <2>1, <2>2
<1>6. f = [i \in 0 .. Len(s) |-> IF i = 0 THEN << >>
                                 ELSE IF s[i] \in S THEN Append(f[i - 1], s[i])
                                 ELSE f[i - 1]]
  BY <1>5
<1>7. only = [i \in 0 .. Len(s) |-> IF i = 0 THEN << >>
                                    ELSE IF s[i] \in S THEN Append(only[i - 1], s[i])
                                    ELSE only[i - 1]]
  BY <1>6
<1>8. Only(s, S) = only[n]
  BY DEF Only
<1> HIDE DEF only, step, prev
<1> DEFINE Good == {m \in 0 .. n : only[m] \in Seq(T) /\ \E g : Picks(g, only[m], s, m, S)}
<1>9. 0 \in Good
  <2>1. only[0] = << >> /\ 0 \in 0 .. n
    BY <1>1, <1>7
  <2>2. Picks(<< >>, << >>, s, 0, S)
    BY DEF Picks
  <2>3. only[0] \in Seq(T) /\ Picks(<< >>, only[0], s, 0, S)
    BY <2>1, <2>2
  <2>4. \E g : Picks(g, only[0], s, 0, S)
    BY <2>3
  <2> QED BY <2>1, <2>3, <2>4
<1>10. ASSUME NEW m \in 1 .. n, m - 1 \in Good PROVE m \in Good
  <2>1. m \in 0 .. n /\ m # 0 /\ m \in 1 .. Len(s)
    BY <1>1
  <2>2. only[m] = IF s[m] \in S THEN Append(only[m - 1], s[m]) ELSE only[m - 1]
    BY <1>7, <2>1
  <2>3. only[m - 1] \in Seq(T)
    BY <1>10
  <2>4. PICK g : Picks(g, only[m - 1], s, m - 1, S)
    BY <1>10
  <2>5. IF s[m] \in S THEN \E h : Picks(h, Append(only[m - 1], s[m]), s, m, S)
                      ELSE Picks(g, only[m - 1], s, m, S)
    BY <2>1, <2>3, <2>4, PicksNext
  <2>6. \E h : Picks(h, only[m], s, m, S)
    BY <2>2, <2>5
  <2>7. only[m] \in Seq(T)
    BY <1>1, <2>2, <2>3
  <2> QED BY <2>1, <2>6, <2>7
<1> HIDE DEF Good
<1>11. 0 .. n \subseteq Good
  BY <1>1, <1>9, <1>10, UpTo
<1>12. n \in Good
  BY <1>1, <1>11
<1> QED BY <1>8, <1>12 DEF Good
-----------------------------------------------------------------------------
LEMMA OnlyHas ==
    ASSUME NEW T, NEW s \in Seq(T), NEW S
    PROVE  ToSet(Only(s, S)) = ToSet(s) \cap S
<1> DEFINE r == Only(s, S)
<1>1. PICK g : Picks(g, r, s, Len(s), S)
  BY OnlyIs
<1>2. r \in Seq(T)
  BY OnlyIs
<1> HIDE DEF r
<1>3. DOMAIN r = 1 .. Len(r) /\ DOMAIN s = 1 .. Len(s)
  BY <1>2
<1>4. ASSUME NEW i \in DOMAIN r PROVE r[i] \in ToSet(s) \cap S
  <2>1. g[i] \in DOMAIN s /\ r[i] = s[g[i]] /\ s[g[i]] \in S
    BY <1>1, <1>3 DEF Picks
  <2> QED BY <2>1 DEF ToSet
<1>5. ASSUME NEW k \in DOMAIN s, s[k] \in S PROVE s[k] \in ToSet(r)
  <2>1. PICK i \in 1 .. Len(r) : g[i] = k
    BY <1>1, <1>3, <1>5 DEF Picks
  <2>2. r[i] = s[k]
    BY <1>1, <2>1 DEF Picks
  <2> QED BY <1>3, <2>1, <2>2 DEF ToSet
<1>6. ToSet(r) = ToSet(s) \cap S
  BY <1>4, <1>5 DEF ToSet
<1> QED BY <1>6 DEF r

(* There is one way to pick what is in S, so Only(s, S) is any sequence    *)
(* that was picked so.                                                     *)
LEMMA PicksOnce ==
    ASSUME NEW T, NEW s, NEW n \in Nat, NEW S, NEW r \in Seq(T), NEW q \in Seq(T),
           NEW g, Picks(g, r, s, n, S), NEW h, Picks(h, q, s, n, S)
    PROVE  r = q
<1>1. /\ Len(r) \in Nat /\ Len(q) \in Nat
      /\ \A i \in 1 .. Len(r) : g[i] \in 1 .. n /\ s[g[i]] \in S /\ r[i] = s[g[i]]
      /\ \A i \in 1 .. Len(q) : h[i] \in 1 .. n /\ s[h[i]] \in S /\ q[i] = s[h[i]]
  <2>1. Len(r) \in Nat /\ Len(q) \in Nat
    OBVIOUS
  <2>2. \A i \in 1 .. Len(r) : g[i] \in 1 .. n /\ s[g[i]] \in S /\ r[i] = s[g[i]]
    BY DEF Picks
  <2>3. \A i \in 1 .. Len(q) : h[i] \in 1 .. n /\ s[h[i]] \in S /\ q[i] = s[h[i]]
    BY DEF Picks
  <2> QED BY <2>1, <2>2, <2>3
<1>2. /\ \A i, j \in 1 .. Len(r) : i < j => g[i] < g[j]
      /\ \A i, j \in 1 .. Len(q) : i < j => h[i] < h[j]
  BY DEF Picks
<1>3. /\ \A k \in 1 .. n : s[k] \in S => \E i \in 1 .. Len(r) : g[i] = k
      /\ \A k \in 1 .. n : s[k] \in S => \E i \in 1 .. Len(q) : h[i] = k
  BY DEF Picks
<1> DEFINE Same == {k \in Nat : \A i \in 1 .. k :
                      i <= Len(r) \/ i <= Len(q) =>
                        i <= Len(r) /\ i <= Len(q) /\ g[i] = h[i]}
<1>4. 0 \in Same
  OBVIOUS
<1>5. ASSUME NEW k \in 1 .. Len(r) + Len(q), k - 1 \in Same PROVE k \in Same
  <2>0. k \in Nat /\ \A i \in 1 .. k : i = k \/ i \in 1 .. k - 1
    OBVIOUS
  <2>1. ASSUME k <= Len(r) PROVE k <= Len(q) /\ h[k] <= g[k]
    <3>1. k \in 1 .. Len(r) /\ g[k] \in 1 .. n /\ s[g[k]] \in S
      BY <1>1, <2>0, <2>1
    <3>2. PICK j \in 1 .. Len(q) : h[j] = g[k]
      BY <1>3, <3>1
    <3>3. ~(j < k)
      <4> SUFFICES ASSUME j < k PROVE FALSE
        OBVIOUS
      <4>1. j \in 1 .. k - 1 /\ j \in 1 .. Len(r) /\ g[j] = h[j]
        BY <1>1, <1>5, <2>1, <3>2
      <4>2. g[j] < g[k] /\ g[j] = g[k] /\ g[k] \in Nat
        BY <1>2, <3>1, <3>2, <4>1
      <4> QED BY <4>2
    <3>4. k \in 1 .. Len(q) /\ (j = k \/ k < j)
      BY <1>1, <3>2, <3>3
    <3>5. h[k] <= h[j]
      BY <1>1, <1>2, <3>4
    <3> QED BY <3>2, <3>4, <3>5
  <2>2. ASSUME k <= Len(q) PROVE k <= Len(r) /\ g[k] <= h[k]
    <3>1. k \in 1 .. Len(q) /\ h[k] \in 1 .. n /\ s[h[k]] \in S
      BY <1>1, <2>0, <2>2
    <3>2. PICK j \in 1 .. Len(r) : g[j] = h[k]
      BY <1>3, <3>1
    <3>3. ~(j < k)
      <4> SUFFICES ASSUME j < k PROVE FALSE
        OBVIOUS
      <4>1. j \in 1 .. k - 1 /\ j \in 1 .. Len(q) /\ g[j] = h[j]
        BY <1>1, <1>5, <2>2, <3>2
      <4>2. h[j] < h[k]
        BY <1>2, <3>1, <4>1
      <4>3. h[j] = h[k] /\ h[k] \in Nat
        BY <3>1, <3>2, <4>1
      <4> QED BY <4>2, <4>3
    <3>4. k \in 1 .. Len(r) /\ (j = k \/ k < j)
      BY <1>1, <3>2, <3>3
    <3>5. g[k] <= g[j]
      BY <1>1, <1>2, <3>4
    <3> QED BY <3>2, <3>4, <3>5
  <2>3. ASSUME k <= Len(r) \/ k <= Len(q)
        PROVE  k <= Len(r) /\ k <= Len(q) /\ g[k] = h[k]
    <3>1. k <= Len(r) /\ k <= Len(q) /\ h[k] <= g[k] /\ g[k] <= h[k]
      BY <2>1, <2>2, <2>3
    <3>2. g[k] \in Nat /\ h[k] \in Nat
      BY <1>1, <2>0, <3>1
    <3> QED BY <3>1, <3>2
  <2> QED BY <1>5, <2>0, <2>3
<1>6. 0 .. Len(r) + Len(q) \subseteq Same
  <2> HIDE DEF Same
  <2>1. Len(r) + Len(q) \in Nat
    BY <1>1
  <2> QED BY <1>4, <1>5, <2>1, UpTo
<1>7. Len(r) + Len(q) \in Same
  BY <1>1, <1>6
<1>8. \A i \in 1 .. Len(r) + Len(q) :
          i <= Len(r) \/ i <= Len(q) => i <= Len(r) /\ i <= Len(q) /\ g[i] = h[i]
  BY <1>7
<1>9. Len(r) = Len(q)
  <2>1. ~(Len(r) < Len(q))
    BY <1>1, <1>8
  <2>2. ~(Len(q) < Len(r))
    BY <1>1, <1>8
  <2> QED BY <1>1, <2>1, <2>2
<1>10. \A i \in 1 .. Len(r) : r[i] = q[i]
  BY <1>1, <1>8, <1>9
<1> QED BY <1>9, <1>10

LEMMA OnlyPicked ==
    ASSUME NEW T, NEW s \in Seq(T), NEW S, NEW r \in Seq(T), NEW g, Picks(g, r, s, Len(s), S)
    PROVE  Only(s, S) = r
<1>1. Only(s, S) \in Seq(T) /\ \E h : Picks(h, Only(s, S), s, Len(s), S)
  BY OnlyIs
<1>2. Len(s) \in Nat
  OBVIOUS
<1> QED BY <1>1, <1>2, PicksOnce

LEMMA RelabelledIs ==
    ASSUME NEW labels \in Seq(Nat), NEW e \in Entry
    PROVE  /\ Relabelled(labels, e) \in Seq(Nat)
           /\ \A t : t \in ToSet(Relabelled(labels, e)) <=>
                \/ e.type = "label" /\ e.ref = t
                \/ ~(e.type = "unlabel" /\ e.ref = t) /\ t \in ToSet(labels)
<1>1. e.ref \in Nat /\ DOMAIN labels = 1 .. Len(labels) /\ Len(labels) \in Nat
  BY DEF Entry
<1>2. CASE e.type = "label"
  <2>1. Relabelled(labels, e) = Labelled(labels, e.ref) /\ e.type # "unlabel"
    BY <1>2 DEF Relabelled
  <2>2. CASE \E i \in DOMAIN labels : labels[i] = e.ref
    <3>1. Labelled(labels, e.ref) = labels /\ e.ref \in ToSet(labels)
      BY <2>2 DEF Labelled, ToSet
    <3> QED BY <1>2, <2>1, <3>1
  <2>3. CASE ~\E i \in DOMAIN labels : labels[i] = e.ref
    <3> DEFINE r == Append(labels, e.ref)
    <3>1. Labelled(labels, e.ref) = r
      BY <2>3 DEF Labelled
    <3>2. r \in Seq(Nat) /\ DOMAIN r = 1 .. Len(labels) + 1 /\ r[Len(labels) + 1] = e.ref
          /\ \A i \in DOMAIN labels : r[i] = labels[i]
      BY <1>1
    <3> HIDE DEF r
    <3>3. \A i \in DOMAIN r : i = Len(labels) + 1 \/ i \in DOMAIN labels
      BY <1>1, <3>2
    <3>4. Len(labels) + 1 \in DOMAIN r /\ DOMAIN labels \subseteq DOMAIN r
      BY <1>1, <3>2
    <3>5. \A t : t \in ToSet(r) <=> t = e.ref \/ t \in ToSet(labels)
      BY <3>2, <3>3, <3>4 DEF ToSet
    <3> QED BY <1>2, <2>1, <3>1, <3>2, <3>5
  <2> QED BY <2>2, <2>3
<1>3. CASE e.type = "unlabel"
  <2> DEFINE S == ToSet(labels) \ {e.ref}
  <2>1. Relabelled(labels, e) = Only(labels, S)
    BY <1>3 DEF Relabelled, Unlabelled
  <2>2. Only(labels, S) \in Seq(Nat) /\ ToSet(Only(labels, S)) = ToSet(labels) \cap S
    <3> HIDE DEF S
    <3> QED BY OnlyIs, OnlyHas
  <2> QED BY <1>3, <2>1, <2>2
<1>4. CASE ~(e.type \in {"label", "unlabel"})
  BY <1>4 DEF Relabelled
<1> QED BY <1>2, <1>3, <1>4

(* What the first n entries say of a label: put on t, and not taken off    *)
(* since.                                                                  *)
Marked(es, n, t) ==
    \E i \in 1 .. n : /\ es[i].type = "label" /\ es[i].ref = t
                      /\ \A j \in i + 1 .. n : ~(es[j].type = "unlabel" /\ es[j].ref = t)

LEMMA MarkedNext ==
    ASSUME NEW n \in Nat \ {0}, NEW es, NEW t
    PROVE  Marked(es, n, t) <=>
             \/ es[n].type = "label" /\ es[n].ref = t
             \/ ~(es[n].type = "unlabel" /\ es[n].ref = t) /\ Marked(es, n - 1, t)
<1>1. ASSUME es[n].type = "label", es[n].ref = t PROVE Marked(es, n, t)
  <2>1. n \in 1 .. n /\ \A j \in n + 1 .. n : FALSE
    OBVIOUS
  <2> QED BY <1>1, <2>1 DEF Marked
<1>2. ASSUME ~(es[n].type = "unlabel" /\ es[n].ref = t), Marked(es, n - 1, t)
      PROVE  Marked(es, n, t)
  <2>1. PICK i \in 1 .. n - 1 :
            /\ es[i].type = "label" /\ es[i].ref = t
            /\ \A j \in i + 1 .. n - 1 : ~(es[j].type = "unlabel" /\ es[j].ref = t)
    BY <1>2 DEF Marked
  <2>2. i \in 1 .. n /\ \A j \in i + 1 .. n : j = n \/ j \in i + 1 .. n - 1
    OBVIOUS
  <2> QED BY <1>2, <2>1, <2>2 DEF Marked
<1>3. ASSUME Marked(es, n, t), ~(es[n].type = "label" /\ es[n].ref = t)
      PROVE  ~(es[n].type = "unlabel" /\ es[n].ref = t) /\ Marked(es, n - 1, t)
  <2>1. PICK i \in 1 .. n :
            /\ es[i].type = "label" /\ es[i].ref = t
            /\ \A j \in i + 1 .. n : ~(es[j].type = "unlabel" /\ es[j].ref = t)
    BY <1>3 DEF Marked
  <2>2. i # n
    BY <1>3, <2>1
  <2>3. i \in 1 .. n - 1 /\ n \in i + 1 .. n /\ \A j \in i + 1 .. n - 1 : j \in i + 1 .. n
    BY <2>2
  <2> QED BY <2>1, <2>3 DEF Marked
<1> QED BY <1>1, <1>2, <1>3

(* _buildIndex finds the labels the entries speak of.                      *)
LEMMA LabelsAre ==
    ASSUME NEW es \in Seq(Entry)
    PROVE  /\ LabelsOf(es) \in Seq(Nat)
           /\ \A t : t \in ToSet(LabelsOf(es)) <=> Marked(es, Len(es), t)
<1> DEFINE n == Len(es)
           labels == CHOOSE labels : labels = [i \in 0 .. Len(es) |->
                         IF i = 0 THEN << >> ELSE Relabelled(labels[i - 1], es[i])]
           step == [i \in 1 .. n |-> [v \in Seq(Nat) |-> Relabelled(v, es[i])]]
           prev == [i \in 1 .. n |-> i - 1]
<1>1. n \in Nat /\ \A i \in 1 .. n : es[i] \in Entry
  OBVIOUS
<1>2. Steps(step, n, Seq(Nat)) /\ Earlier(prev, n)
  <2>1. \A i \in 1 .. n : \A v \in Seq(Nat) : Relabelled(v, es[i]) \in Seq(Nat)
    BY <1>1, RelabelledIs
  <2>2. \A i \in 1 .. n : [v \in Seq(Nat) |-> Relabelled(v, es[i])] \in [Seq(Nat) -> Seq(Nat)]
    BY <2>1
  <2>3. step \in [1 .. n -> [Seq(Nat) -> Seq(Nat)]]
    BY <2>2
  <2>4. prev \in [1 .. n -> Nat] /\ \A i \in 1 .. n : prev[i] < i
    BY <1>1
  <2> HIDE DEF step, prev, n
  <2> QED BY <2>3, <2>4 DEF Steps, Earlier
<1>3. << >> \in Seq(Nat)
  OBVIOUS
<1>4. PICK f \in [0 .. n -> Seq(Nat)] : Follows(f, n, << >>, prev, step)
  <2> HIDE DEF n, step, prev
  <2> QED BY <1>1, <1>2, <1>3, RecursiveFunction
<1>5. \A i \in 0 .. n : f[i] = IF i = 0 THEN << >> ELSE Relabelled(f[i - 1], es[i])
  <2> TAKE i \in 0 .. n
  <2>1. CASE i = 0
    BY <1>4, <2>1 DEF Follows
  <2>2. CASE i # 0
    <3>1. i \in 1 .. n /\ i - 1 \in 0 .. n
      BY <1>1, <2>2
    <3>2. f[i] = step[i][f[i - 1]] /\ f[i - 1] \in Seq(Nat)
      BY <1>4, <3>1 DEF Follows
    <3> QED BY <2>2, <3>1, <3>2
  <2> QED BY <2>1, <2>2
<1>6. f = [i \in 0 .. Len(es) |->
             IF i = 0 THEN << >> ELSE Relabelled(f[i - 1], es[i])]
  BY <1>5
<1>7. labels = [i \in 0 .. Len(es) |->
                  IF i = 0 THEN << >> ELSE Relabelled(labels[i - 1], es[i])]
  BY <1>6
<1>8. LabelsOf(es) = labels[n]
  BY DEF LabelsOf
<1> HIDE DEF labels, step, prev
<1> DEFINE Good == {m \in 0 .. n : /\ labels[m] \in Seq(Nat)
                                   /\ \A t : t \in ToSet(labels[m]) <=> Marked(es, m, t)}
<1>9. 0 \in Good
  <2>1. labels[0] = << >> /\ 0 \in 0 .. n
    BY <1>1, <1>7
  <2>2. \A t : ~(t \in ToSet(<< >>)) /\ ~Marked(es, 0, t)
    BY DEF ToSet, Marked
  <2>3. /\ labels[0] \in Seq(Nat)
        /\ \A t : t \in ToSet(labels[0]) <=> Marked(es, 0, t)
    BY <2>1, <2>2
  <2> QED BY <2>1, <2>3
<1>10. ASSUME NEW m \in 1 .. n, m - 1 \in Good PROVE m \in Good
  <2>1. m \in 0 .. n /\ m # 0 /\ m \in Nat \ {0}
    BY <1>1
  <2>2. labels[m] = Relabelled(labels[m - 1], es[m])
    BY <1>7, <2>1
  <2>3. labels[m - 1] \in Seq(Nat) /\ es[m] \in Entry
    BY <1>1, <1>10
  <2>4. /\ labels[m] \in Seq(Nat)
        /\ \A t : t \in ToSet(labels[m]) <=>
                \/ es[m].type = "label" /\ es[m].ref = t
                \/ ~(es[m].type = "unlabel" /\ es[m].ref = t) /\ t \in ToSet(labels[m - 1])
    BY <2>2, <2>3, RelabelledIs
  <2>5. ASSUME NEW t PROVE t \in ToSet(labels[m]) <=> Marked(es, m, t)
    <3>1. t \in ToSet(labels[m - 1]) <=> Marked(es, m - 1, t)
      BY <1>10
    <3> QED BY <2>1, <2>4, <3>1, MarkedNext
  <2> QED BY <2>1, <2>4, <2>5
<1> HIDE DEF Good
<1>11. 0 .. n \subseteq Good
  BY <1>1, <1>9, <1>10, UpTo
<1>12. n \in Good
  BY <1>1, <1>11
<1> QED BY <1>8, <1>12 DEF Good
-----------------------------------------------------------------------------
(* What holds of the entries of a session, in memory and in a file, when   *)
(* the ids below n are given: parents are older, labels name what stands   *)
(* before them, and a header may stand further down, since a first flush   *)
(* that was cut short is repeated.                                         *)
Sound(es, n) ==
    \A i \in 1 .. Len(es) :
        /\ ~IsEntry(es[i]) => es[i] = Header
        /\ IsEntry(es[i]) => es[i].id \in 1 .. n - 1 /\ es[i].parent < es[i].id
        /\ IsLabel(es[i]) => \E j \in 1 .. i - 1 : IsEntry(es[j]) /\ es[j].id = es[i].ref

Session(es, n) == es \in Seq(Entry) /\ es # << >> /\ es[1] = Header /\ Sound(es, n)

LEMMA HeaderIs == /\ Header \in Entry /\ ~IsEntry(Header) /\ ~IsLabel(Header)
                  /\ Header.id = 0 /\ Header.type # "assistant"
  BY DEF Header, Entry, IsEntry, IsLabel, LabelType

LEMMA LabelsAreEntries == \A e : IsLabel(e) => IsEntry(e)
  BY DEF IsLabel, IsEntry, LabelType

LEMMA IdsAre ==
    ASSUME NEW es \in Seq(Entry)
    PROVE  \A id : id \in Ids(es) <=> \E i \in 1 .. Len(es) : IsEntry(es[i]) /\ es[i].id = id
<1>1. DOMAIN es = 1 .. Len(es)
  OBVIOUS
<1> QED BY <1>1 DEF Ids

LEMMA StartedSession ==
    ASSUME NEW n \in Nat \ {0}
    PROVE  Session(<< Header >>, n)
<1> DEFINE es == << Header >>
<1>1. es \in Seq(Entry) /\ Len(es) = 1 /\ es[1] = Header /\ es # << >>
  BY HeaderIs
<1> HIDE DEF es
<1>2. \A i \in 1 .. Len(es) : es[i] = Header
  BY <1>1
<1>3. Sound(es, n)
  BY <1>2, HeaderIs DEF Sound
<1>4. Session(es, n)
  BY <1>1, <1>3 DEF Session
<1> QED BY <1>4 DEF es

LEMMA SessionLater ==
    ASSUME NEW n \in Nat, NEW m \in Nat, n <= m, NEW es, Session(es, n)
    PROVE  Session(es, m)
<1>1. \A i \in 1 .. Len(es) : es[i].id \in 1 .. n - 1 => es[i].id \in 1 .. m - 1
  OBVIOUS
<1> QED BY <1>1 DEF Session, Sound

LEMMA SessionPrefix ==
    ASSUME NEW n \in Nat, NEW es, Session(es, n), NEW k \in 1 .. Len(es)
    PROVE  Session(SubSeq(es, 1, k), n)
<1> DEFINE p == SubSeq(es, 1, k)
<1>1. es \in Seq(Entry) /\ Len(es) \in Nat
  BY DEF Session
<1>2. p \in Seq(Entry) /\ Len(p) = k /\ \A i \in 1 .. k : p[i] = es[i]
  BY <1>1, SubSeqProperties
<1>3. k \in Nat /\ 1 \in 1 .. k /\ \A i \in 1 .. k : i \in 1 .. Len(es)
  BY <1>1
<1> HIDE DEF p
<1>4. p # << >>
  BY <1>2, <1>3
<1>5. p[1] = Header
  BY <1>2, <1>3 DEF Session
<1>6. ASSUME NEW i \in 1 .. Len(p)
      PROVE  /\ ~IsEntry(p[i]) => p[i] = Header
             /\ IsEntry(p[i]) => p[i].id \in 1 .. n - 1 /\ p[i].parent < p[i].id
             /\ IsLabel(p[i]) => \E j \in 1 .. i - 1 : IsEntry(p[j]) /\ p[j].id = p[i].ref
  <2>1. i \in 1 .. Len(es) /\ p[i] = es[i]
    BY <1>2, <1>3
  <2>2. ASSUME IsLabel(p[i])
        PROVE  \E j \in 1 .. i - 1 : IsEntry(p[j]) /\ p[j].id = p[i].ref
    <3>1. PICK j \in 1 .. i - 1 : IsEntry(es[j]) /\ es[j].id = es[i].ref
      BY <2>1, <2>2 DEF Session, Sound
    <3>2. j \in 1 .. k
      BY <1>2, <1>3
    <3>3. p[j] = es[j]
      BY <1>2, <3>2
    <3> QED BY <2>1, <3>1, <3>3
  <2> QED BY <2>1, <2>2 DEF Session, Sound
<1>7. Session(p, n)
  BY <1>2, <1>4, <1>5, <1>6 DEF Session, Sound
<1> QED BY <1>7 DEF p

LEMMA SessionTwice ==
    ASSUME NEW n \in Nat, NEW p \in Seq(Entry), p = << >> \/ Session(p, n),
           NEW es, Session(es, n)
    PROVE  Session(p \o es, n)
<1> DEFINE q == p \o es
           a == Len(p)
           b == Len(es)
<1>1. es \in Seq(Entry) /\ a \in Nat /\ b \in Nat /\ b # 0
  BY DEF Session
<1>2. /\ q \in Seq(Entry) /\ Len(q) = a + b
      /\ \A i \in 1 .. a : q[i] = p[i]
      /\ \A i \in 1 .. b : q[i + a] = es[i]
  BY <1>1
<1>3. q # << >> /\ q[1] = Header
  <2>1. CASE a = 0
    <3>1. q[1 + a] = es[1] /\ 1 + a = 1
      BY <1>1, <1>2, <2>1
    <3> QED BY <1>1, <1>2, <3>1 DEF Session
  <2>2. CASE a # 0
    <3>1. 1 \in 1 .. a /\ p # << >>
      BY <1>1, <2>2
    <3>2. q[1] = p[1] /\ p[1] = Header
      BY <1>2, <3>1 DEF Session
    <3> QED BY <1>1, <1>2, <3>2
  <2> QED BY <2>1, <2>2
<1>4. ASSUME NEW i \in 1 .. Len(q)
      PROVE  /\ ~IsEntry(q[i]) => q[i] = Header
             /\ IsEntry(q[i]) => q[i].id \in 1 .. n - 1 /\ q[i].parent < q[i].id
             /\ IsLabel(q[i]) => \E j \in 1 .. i - 1 : IsEntry(q[j]) /\ q[j].id = q[i].ref
  <2>1. CASE i \in 1 .. a
    <3>1. q[i] = p[i] /\ Session(p, n)
      BY <1>2, <2>1
    <3>2. \A j \in 1 .. i - 1 : q[j] = p[j]
      BY <1>1, <1>2, <2>1
    <3> QED BY <2>1, <3>1, <3>2 DEF Session, Sound
  <2>2. CASE ~(i \in 1 .. a)
    <3>1. PICK l \in 1 .. b : i = l + a
      <4>1. i - a \in 1 .. b /\ i = (i - a) + a
        BY <1>1, <1>2, <2>2
      <4> QED BY <4>1
    <3>2. q[i] = es[l]
      BY <1>2, <3>1
    <3>3. ASSUME IsLabel(q[i])
          PROVE  \E j \in 1 .. i - 1 : IsEntry(q[j]) /\ q[j].id = q[i].ref
      <4>1. PICK j \in 1 .. l - 1 : IsEntry(es[j]) /\ es[j].id = es[l].ref
        BY <3>2, <3>3 DEF Session, Sound
      <4>2. j + a \in 1 .. i - 1 /\ j \in 1 .. b
        BY <1>1, <3>1
      <4>3. q[j + a] = es[j]
        BY <1>2, <4>2
      <4> QED BY <3>2, <4>1, <4>2, <4>3
    <3> QED BY <3>2, <3>3 DEF Session, Sound
  <2> QED BY <2>1, <2>2
<1> HIDE DEF q
<1>5. Session(q, n)
  BY <1>2, <1>3, <1>4 DEF Session, Sound
<1> QED BY <1>5 DEF q

(* An entry that may be appended to es when the ids below n are given.     *)
Fits(e, es, n) ==
    /\ e \in Entry /\ IsEntry(e)
    /\ e.id = n /\ e.parent \in Ids(es) \cup {0}
    /\ IsLabel(e) => e.ref \in Ids(es)

LEMMA Appended ==
    ASSUME NEW es \in Seq(Entry), NEW e \in Entry
    PROVE  /\ Append(es, e) \in Seq(Entry)
           /\ Len(es) \in Nat
           /\ Len(Append(es, e)) = Len(es) + 1
           /\ \A i \in 1 .. Len(es) : Append(es, e)[i] = es[i]
           /\ Append(es, e)[Len(es) + 1] = e
  OBVIOUS

LEMMA SessionAppend ==
    ASSUME NEW n \in Nat \ {0}, NEW es, Session(es, n), NEW e, Fits(e, es, n)
    PROVE  Session(Append(es, e), n + 1)
<1> DEFINE q == Append(es, e)
           a == Len(es)
<1>1. es \in Seq(Entry) /\ e \in Entry /\ 1 \in 1 .. a
  BY DEF Session, Fits
<1>2. /\ q \in Seq(Entry) /\ a \in Nat /\ Len(q) = a + 1
      /\ \A i \in 1 .. a : q[i] = es[i]
      /\ q[a + 1] = e
  BY <1>1, Appended
<1> HIDE DEF q
<1>3. q # << >> /\ q[1] = Header
  BY <1>1, <1>2 DEF Session
<1>4. ASSUME NEW i \in 1 .. Len(q)
      PROVE  /\ ~IsEntry(q[i]) => q[i] = Header
             /\ IsEntry(q[i]) => q[i].id \in 1 .. n + 1 - 1 /\ q[i].parent < q[i].id
             /\ IsLabel(q[i]) => \E j \in 1 .. i - 1 : IsEntry(q[j]) /\ q[j].id = q[i].ref
  <2>1. CASE i \in 1 .. a
    <3>1. q[i] = es[i] /\ \A j \in 1 .. i - 1 : q[j] = es[j]
      BY <1>2, <2>1
    <3>2. es[i].id \in 1 .. n - 1 => es[i].id \in 1 .. n + 1 - 1
      OBVIOUS
    <3> QED BY <2>1, <3>1, <3>2 DEF Session, Sound
  <2>2. CASE i = a + 1
    <3>1. q[i] = e /\ IsEntry(e) /\ e.id = n
      BY <1>2, <2>2 DEF Fits
    <3>2. \A id \in Ids(es) : \E j \in 1 .. a : IsEntry(es[j]) /\ es[j].id = id
      BY <1>1, IdsAre
    <3>3. e.parent < n
      <4>1. CASE e.parent = 0
        BY <4>1
      <4>2. CASE e.parent \in Ids(es)
        <5>1. PICK j \in 1 .. a : IsEntry(es[j]) /\ es[j].id = e.parent
          BY <3>2, <4>2
        <5>2. e.parent \in 1 .. n - 1
          BY <5>1 DEF Session, Sound
        <5> QED BY <5>2
      <4> QED BY <4>1, <4>2 DEF Fits
    <3>4. ASSUME IsLabel(e)
          PROVE  \E j \in 1 .. i - 1 : IsEntry(q[j]) /\ q[j].id = q[i].ref
      <4>1. PICK j \in 1 .. a : IsEntry(es[j]) /\ es[j].id = e.ref
        BY <3>2, <3>4 DEF Fits
      <4>2. q[j] = es[j] /\ j \in 1 .. i - 1
        BY <1>2, <2>2
      <4> QED BY <3>1, <4>1, <4>2
    <3>5. n \in 1 .. n + 1 - 1
      OBVIOUS
    <3> QED BY <3>1, <3>3, <3>4, <3>5
  <2> QED BY <1>2, <2>1, <2>2
<1>5. Session(q, n + 1)
  BY <1>2, <1>3, <1>4 DEF Session, Sound
<1> QED BY <1>5 DEF q
-----------------------------------------------------------------------------
LEMMA LastEntryIs ==
    ASSUME NEW es \in Seq(Entry)
    PROVE  LastEntryId(es) \in Ids(es) \cup {0}
<1> DEFINE r == Only(es, Tree(es))
<1>1. r \in Seq(Entry) /\ ToSet(r) = ToSet(es) \cap Tree(es)
  BY OnlyIs, OnlyHas
<1>2. LastEntryId(es) = IF r = << >> THEN 0 ELSE r[Len(r)].id
  BY DEF LastEntryId, Last
<1> HIDE DEF r
<1>3. CASE r = << >>
  BY <1>2, <1>3
<1>4. CASE r # << >>
  <2>1. Len(r) \in DOMAIN r
    BY <1>1, <1>4
  <2>2. r[Len(r)] \in Tree(es)
    BY <1>1, <2>1 DEF ToSet
  <2>3. r[Len(r)].id \in Ids(es)
    BY <2>2 DEF Tree, Ids
  <2> QED BY <1>2, <1>4, <2>3
<1> QED BY <1>3, <1>4

(* A way through es from the root: entries of es, with ids up to m, in the *)
(* order of their ids.                                                     *)
Path(b, es, m) ==
    /\ b \in Seq(Entry)
    /\ \A i \in 1 .. Len(b) : /\ IsEntry(b[i]) /\ b[i].id <= m
                              /\ \E k \in 1 .. Len(es) : b[i] = es[k]
    /\ \A i, j \in 1 .. Len(b) : i < j => b[i].id < b[j].id

LEMMA FoundIs ==
    ASSUME NEW n \in Nat, NEW es, Session(es, n), NEW id \in Ids(es)
    PROVE  /\ Lookup(es, id) \in Entry /\ IsEntry(Lookup(es, id))
           /\ Lookup(es, id).id = id
           /\ Lookup(es, id).parent \in 0 .. id - 1
           /\ \E k \in 1 .. Len(es) : Lookup(es, id) = es[k]
<1>1. es \in Seq(Entry) /\ DOMAIN es = 1 .. Len(es)
  BY DEF Session
<1>2. PICK i \in 1 .. Len(es) : IsEntry(es[i]) /\ es[i].id = id
  BY <1>1, IdsAre
<1>3. id # 0
  BY <1>2 DEF Session, Sound
<1>4. PICK k \in DOMAIN es : Lookup(es, id) = es[k] /\ es[k].id = id
  BY <1>1, <1>2 DEF Lookup
<1>5. es[k] \in Entry /\ es[k].parent \in Nat /\ es[k].id \in Nat
  <2>1. es[k] \in Entry
    BY <1>1
  <2> QED BY <2>1 DEF Entry
<1>6. IsEntry(es[k])
  BY <1>1, <1>3, <1>4, HeaderIs DEF Session, Sound
<1>7. es[k].parent < es[k].id
  BY <1>1, <1>6 DEF Session, Sound
<1> QED BY <1>1, <1>4, <1>5, <1>6, <1>7

(* The recursion that getBranch goes up the tree by.                       *)
Up(to, es, node) ==
    \A id \in 0 .. node : to[id] = IF id \in Ids(es)
                                   THEN Append(to[Lookup(es, id).parent], Lookup(es, id))
                                   ELSE << >>

LEMMA BranchFunction ==
    ASSUME NEW n \in Nat, NEW es, Session(es, n), NEW node \in Nat
    PROVE  \E to : Branch(es, node) = to[node] /\ Up(to, es, node) /\ ~(0 \in Ids(es))
<1> DEFINE to == CHOOSE to : to = [id \in 0 .. node |->
                     IF id \in Ids(es)
                     THEN LET e == Lookup(es, id) IN Append(to[e.parent], e)
                     ELSE << >>]
           step == [id \in 1 .. node |-> [v \in Seq(Entry) |->
                       IF id \in Ids(es) THEN Append(v, Lookup(es, id)) ELSE << >>]]
           prev == [id \in 1 .. node |->
                       IF id \in Ids(es) THEN Lookup(es, id).parent ELSE 0]
<1>1. es \in Seq(Entry) /\ Len(es) \in Nat /\ ~(0 \in Ids(es))
  <2>1. es \in Seq(Entry)
    BY DEF Session
  <2>2. ASSUME 0 \in Ids(es) PROVE FALSE
    <3>1. PICK i \in 1 .. Len(es) : IsEntry(es[i]) /\ es[i].id = 0
      BY <2>1, <2>2, IdsAre
    <3> QED BY <3>1 DEF Session, Sound
  <2> QED BY <2>1, <2>2
<1>2. Steps(step, node, Seq(Entry))
  <2>1. ASSUME NEW id \in 1 .. node
        PROVE  [v \in Seq(Entry) |->
                  IF id \in Ids(es) THEN Append(v, Lookup(es, id)) ELSE << >>]
                 \in [Seq(Entry) -> Seq(Entry)]
    <3>1. CASE id \in Ids(es)
      <4>1. Lookup(es, id) \in Entry
        BY <3>1, FoundIs
      <4>2. \A v \in Seq(Entry) : Append(v, Lookup(es, id)) \in Seq(Entry)
        BY <4>1
      <4> QED BY <3>1, <4>2
    <3>2. CASE ~(id \in Ids(es))
      BY <3>2
    <3> QED BY <3>1, <3>2
  <2>2. step \in [1 .. node -> [Seq(Entry) -> Seq(Entry)]]
    BY <2>1
  <2> HIDE DEF step
  <2> QED BY <2>2 DEF Steps
<1>3. Earlier(prev, node)
  <2>1. ASSUME NEW id \in 1 .. node PROVE prev[id] \in Nat /\ prev[id] < id
    <3>1. CASE id \in Ids(es)
      <4>1. Lookup(es, id).parent \in 0 .. id - 1
        BY <3>1, FoundIs
      <4> QED BY <3>1, <4>1
    <3>2. CASE ~(id \in Ids(es))
      BY <3>2
    <3> QED BY <3>1, <3>2
  <2>2. prev \in [1 .. node -> Nat]
    BY <2>1
  <2> HIDE DEF prev
  <2> QED BY <2>1, <2>2 DEF Earlier
<1>4. PICK f \in [0 .. node -> Seq(Entry)] : Follows(f, node, << >>, prev, step)
  <2>1. << >> \in Seq(Entry)
    OBVIOUS
  <2> HIDE DEF step, prev
  <2> QED BY <1>2, <1>3, <2>1, RecursiveFunction
<1>5. \A id \in 0 .. node : f[id] = IF id \in Ids(es)
                                    THEN Append(f[Lookup(es, id).parent], Lookup(es, id))
                                    ELSE << >>
  <2> TAKE id \in 0 .. node
  <2>1. CASE id = 0
    BY <1>1, <1>4, <2>1 DEF Follows
  <2>2. CASE id # 0
    <3>1. id \in 1 .. node
      BY <2>2
    <3>2. f[id] = step[id][f[prev[id]]] /\ prev[id] \in 0 .. node
      <4>1. prev[id] \in Nat /\ prev[id] < id
        BY <1>3, <3>1 DEF Earlier
      <4>2. f[id] = step[id][f[prev[id]]]
        BY <1>4, <3>1 DEF Follows
      <4> HIDE DEF prev, step
      <4> QED BY <4>1, <4>2
    <3>3. f[prev[id]] \in Seq(Entry)
      BY <1>4, <3>2
    <3>4. f[id] = IF id \in Ids(es) THEN Append(f[prev[id]], Lookup(es, id)) ELSE << >>
      BY <3>1, <3>2, <3>3
    <3> QED BY <3>1, <3>4
  <2> QED BY <2>1, <2>2
<1>6. f = [id \in 0 .. node |->
             IF id \in Ids(es)
             THEN LET e == Lookup(es, id) IN Append(f[e.parent], e)
             ELSE << >>]
  BY <1>5
<1>7. to = [id \in 0 .. node |->
              IF id \in Ids(es)
              THEN LET e == Lookup(es, id) IN Append(to[e.parent], e)
              ELSE << >>]
  BY <1>6
<1>8. Branch(es, node) = to[node]
  BY DEF Branch
<1> HIDE DEF to, step, prev
<1>9. Up(to, es, node)
  BY <1>7 DEF Up
<1> QED BY <1>1, <1>8, <1>9

LEMMA BranchIs ==
    ASSUME NEW n \in Nat, NEW es, Session(es, n), NEW node \in Nat
    PROVE  Path(Branch(es, node), es, node)
<1>1. PICK to : Branch(es, node) = to[node] /\ Up(to, es, node) /\ ~(0 \in Ids(es))
  BY BranchFunction
<1>2. \A id \in 0 .. node : to[id] = IF id \in Ids(es)
                                     THEN Append(to[Lookup(es, id).parent], Lookup(es, id))
                                     ELSE << >>
  BY <1>1 DEF Up
<1>3. Branch(es, node) = to[node]
  BY <1>1
<1> DEFINE Good == {m \in 0 .. node : \A id \in 0 .. m : Path(to[id], es, id)}
<1>4. \A m \in Nat : Path(<< >>, es, m)
  BY DEF Path
<1>5. 0 \in Good
  <2>1. to[0] = << >> /\ 0 \in 0 .. node
    BY <1>1, <1>2
  <2> QED BY <1>4, <2>1
<1>6. ASSUME NEW m \in 1 .. node, m - 1 \in Good PROVE m \in Good
  <2>1. m \in 0 .. node /\ m \in Nat
    OBVIOUS
  <2>2. Path(to[m], es, m)
    <3>1. CASE m \in Ids(es)
      <4> DEFINE e == Lookup(es, m)
                 b == to[e.parent]
      <4>1. /\ e \in Entry /\ IsEntry(e) /\ e.id = m /\ e.parent \in 0 .. m - 1
            /\ \E k \in 1 .. Len(es) : e = es[k]
        BY <3>1, FoundIs
      <4>2. to[m] = Append(b, e)
        BY <1>2, <2>1, <3>1
      <4>3. Path(b, es, e.parent)
        BY <1>6, <4>1
      <4> HIDE DEF e, b
      <4>4. b \in Seq(Entry)
        BY <4>3 DEF Path
      <4> DEFINE q == Append(b, e)
      <4>5. /\ q \in Seq(Entry) /\ Len(b) \in Nat /\ Len(q) = Len(b) + 1
            /\ \A i \in 1 .. Len(b) : q[i] = b[i]
            /\ q[Len(b) + 1] = e
        BY <4>1, <4>4, Appended
      <4>6. \A i \in 1 .. Len(q) : i \in 1 .. Len(b) \/ i = Len(b) + 1
        BY <4>5
      <4> HIDE DEF q
      <4>7. \A i \in 1 .. Len(b) : b[i].id \in Nat /\ b[i].id <= e.parent
        <5>1. \A i \in 1 .. Len(b) : b[i] \in Entry
          BY <4>4
        <5> QED BY <4>3, <5>1 DEF Path, Entry
      <4>8. ASSUME NEW i \in 1 .. Len(q)
            PROVE  IsEntry(q[i]) /\ q[i].id <= m /\ \E k \in 1 .. Len(es) : q[i] = es[k]
        <5>1. CASE i \in 1 .. Len(b)
          <6>1. q[i] = b[i] /\ b[i].id <= m
            BY <2>1, <4>1, <4>5, <4>7, <5>1
          <6> QED BY <4>3, <5>1, <6>1 DEF Path
        <5>2. CASE i = Len(b) + 1
          BY <2>1, <4>1, <4>5, <5>2
        <5> QED BY <4>6, <5>1, <5>2
      <4>9. ASSUME NEW i \in 1 .. Len(q), NEW j \in 1 .. Len(q), i < j
            PROVE  q[i].id < q[j].id
        <5>1. i \in 1 .. Len(b)
          BY <4>5, <4>9
        <5>2. CASE j \in 1 .. Len(b)
          BY <4>3, <4>5, <4>9, <5>1, <5>2 DEF Path
        <5>3. CASE j = Len(b) + 1
          <6>1. q[i] = b[i] /\ q[j] = e
            BY <4>5, <5>1, <5>3
          <6>2. b[i].id \in Nat /\ b[i].id <= e.parent
            BY <4>7, <5>1
          <6>3. e.parent \in Nat /\ e.parent < m
            BY <2>1, <4>1
          <6>4. b[i].id < m
            BY <2>1, <6>2, <6>3
          <6>5. q[i].id = b[i].id /\ q[j].id = m
            BY <4>1, <6>1
          <6> QED BY <6>4, <6>5
        <5> QED BY <4>6, <5>2, <5>3
      <4>10. Path(q, es, m)
        BY <4>5, <4>8, <4>9 DEF Path
      <4> QED BY <4>2, <4>10 DEF q
    <3>2. CASE ~(m \in Ids(es))
      <4>1. to[m] = << >>
        BY <1>2, <2>1, <3>2
      <4> QED BY <1>4, <2>1, <4>1
    <3> QED BY <3>1, <3>2
  <2>3. \A id \in 0 .. m : id = m \/ id \in 0 .. m - 1
    OBVIOUS
  <2> QED BY <1>6, <2>1, <2>2, <2>3
<1> HIDE DEF Good
<1>7. 0 .. node \subseteq Good
  BY <1>5, <1>6, UpTo
<1>8. node \in Good
  BY <1>7
<1> QED BY <1>3, <1>8 DEF Good
-----------------------------------------------------------------------------
Distinct(es) == \A i, j \in 1 .. Len(es) : i # j => es[i].id # es[j].id

(* Entries that a header is put in front of.                               *)
LEMMA HeadedSession ==
    ASSUME NEW m \in Nat \ {0}, NEW r \in Seq(Entry),
           \A i \in 1 .. Len(r) :
               /\ IsEntry(r[i]) /\ r[i].id \in 1 .. m - 1 /\ r[i].parent < r[i].id
               /\ IsLabel(r[i]) => \E j \in 1 .. i - 1 : r[j].id = r[i].ref
    PROVE  /\ Session(<< Header >> \o r, m)
           /\ Distinct(r) => Distinct(<< Header >> \o r)
           /\ HasAssistant(<< Header >> \o r) <=> HasAssistant(r)
<1> DEFINE q == << Header >> \o r
           a == Len(r)
<1>1. /\ q \in Seq(Entry) /\ a \in Nat /\ Len(q) = a + 1
      /\ q[1] = Header /\ \A i \in 1 .. a : q[i + 1] = r[i]
  BY HeaderIs
<1> HIDE DEF q
<1>2. ASSUME NEW i \in 1 .. Len(q), i # 1
      PROVE  i - 1 \in 1 .. a /\ q[i] = r[i - 1]
  <2>1. i - 1 \in 1 .. a /\ (i - 1) + 1 = i
    BY <1>1, <1>2
  <2> QED BY <1>1, <2>1
<1>3. ASSUME NEW i \in 1 .. Len(q)
      PROVE  /\ ~IsEntry(q[i]) => q[i] = Header
             /\ IsEntry(q[i]) => q[i].id \in 1 .. m - 1 /\ q[i].parent < q[i].id
             /\ IsLabel(q[i]) => \E j \in 1 .. i - 1 : IsEntry(q[j]) /\ q[j].id = q[i].ref
  <2>1. CASE i = 1
    BY <1>1, <2>1, HeaderIs
  <2>2. CASE i # 1
    <3>1. i - 1 \in 1 .. a /\ q[i] = r[i - 1]
      BY <1>2, <2>2
    <3>2. ASSUME IsLabel(q[i])
          PROVE  \E j \in 1 .. i - 1 : IsEntry(q[j]) /\ q[j].id = q[i].ref
      <4>1. PICK j \in 1 .. (i - 1) - 1 : r[j].id = r[i - 1].ref
        BY <3>1, <3>2
      <4>2. j \in 1 .. a /\ j + 1 \in 1 .. i - 1
        BY <1>1, <3>1
      <4>3. q[j + 1] = r[j] /\ IsEntry(r[j])
        BY <1>1, <4>2
      <4> QED BY <3>1, <4>1, <4>2, <4>3
    <3> QED BY <3>1, <3>2
  <2> QED BY <2>1, <2>2
<1>4. q # << >>
  BY <1>1
<1>5. Session(q, m)
  BY <1>1, <1>3, <1>4 DEF Session, Sound
<1>6. ASSUME Distinct(r), NEW i \in 1 .. Len(q), NEW j \in 1 .. Len(q), i # j
      PROVE  q[i].id # q[j].id
  <2>1. \A k \in 1 .. Len(q) : k # 1 => q[k].id \in 1 .. m - 1
    BY <1>2
  <2>2. q[1].id = 0
    BY <1>1, HeaderIs
  <2>3. CASE i = 1 \/ j = 1
    BY <1>6, <2>1, <2>2, <2>3
  <2>4. CASE i # 1 /\ j # 1
    <3>1. i - 1 \in 1 .. a /\ j - 1 \in 1 .. a /\ i - 1 # j - 1
      BY <1>2, <1>6, <2>4
    <3> QED BY <1>2, <1>6, <2>4, <3>1 DEF Distinct
  <2> QED BY <2>3, <2>4
<1>7. Distinct(r) => Distinct(q)
  BY <1>6 DEF Distinct
<1>8. HasAssistant(q) <=> HasAssistant(r)
  <2>1. DOMAIN q = 1 .. Len(q) /\ DOMAIN r = 1 .. a
    BY <1>1
  <2>2. ASSUME NEW i \in 1 .. Len(q), q[i].type = "assistant" PROVE HasAssistant(r)
    <3>1. i # 1
      BY <1>1, <2>2, HeaderIs
    <3>2. i - 1 \in 1 .. a /\ q[i] = r[i - 1]
      BY <1>2, <3>1
    <3> QED BY <2>1, <2>2, <3>2 DEF HasAssistant
  <2>3. ASSUME NEW i \in 1 .. a, r[i].type = "assistant" PROVE HasAssistant(q)
    <3>1. i + 1 \in 1 .. Len(q)
      BY <1>1
    <3>2. q[i + 1] = r[(i + 1) - 1] /\ (i + 1) - 1 = i
      BY <1>1, <3>1
    <3> QED BY <2>1, <2>3, <3>1, <3>2 DEF HasAssistant
  <2> QED BY <2>1, <2>2, <2>3 DEF HasAssistant
<1> QED BY <1>5, <1>7, <1>8 DEF q

(* forkFrom copies what follows the header.                                *)
LEMMA CopiedSession ==
    ASSUME NEW n \in Nat \ {0}, NEW es, Session(es, n)
    PROVE  LET q == << Header >> \o Only(es, Tree(es))
           IN  /\ Session(q, n)
               /\ Distinct(es) => Distinct(q)
               /\ HasAssistant(es) => HasAssistant(q)
<1> DEFINE r == Only(es, Tree(es))
<1>1. es \in Seq(Entry) /\ DOMAIN es = 1 .. Len(es)
  BY DEF Session
<1>2. r \in Seq(Entry) /\ DOMAIN r = 1 .. Len(r)
  BY <1>1, OnlyIs
<1>3. PICK g : Picks(g, r, es, Len(es), Tree(es))
  BY <1>1, OnlyIs
<1> HIDE DEF r
<1>4. \A k \in 1 .. Len(es) : es[k] \in Tree(es) <=> IsEntry(es[k])
  BY <1>1 DEF Tree
<1>5. ASSUME NEW i \in 1 .. Len(r)
      PROVE  /\ g[i] \in 1 .. Len(es) /\ r[i] = es[g[i]]
             /\ IsEntry(r[i]) /\ r[i].id \in 1 .. n - 1 /\ r[i].parent < r[i].id
             /\ IsLabel(r[i]) => \E j \in 1 .. i - 1 : r[j].id = r[i].ref
  <2>1. g[i] \in 1 .. Len(es) /\ r[i] = es[g[i]] /\ IsEntry(r[i])
    BY <1>3, <1>4 DEF Picks
  <2>2. ASSUME IsLabel(r[i]) PROVE \E j \in 1 .. i - 1 : r[j].id = r[i].ref
    <3>1. PICK k \in 1 .. g[i] - 1 : IsEntry(es[k]) /\ es[k].id = es[g[i]].ref
      BY <2>1, <2>2 DEF Session, Sound
    <3>2. k \in 1 .. Len(es)
      BY <2>1, <3>1
    <3>3. PICK j \in 1 .. Len(r) : g[j] = k
      BY <1>3, <1>4, <3>1, <3>2 DEF Picks
    <3>4. j < i
      <4>1. i < j => g[i] < g[j]
        BY <1>3, <3>3 DEF Picks
      <4>2. g[j] < g[i] /\ ~(g[i] < g[j]) /\ g[i] # g[j]
        BY <2>1, <3>1, <3>2, <3>3
      <4> QED BY <4>1, <4>2
    <3>5. r[j] = es[k] /\ j \in 1 .. i - 1
      BY <1>3, <3>3, <3>4 DEF Picks
    <3> QED BY <2>1, <3>1, <3>5
  <2> QED BY <2>1, <2>2 DEF Session, Sound
<1>6. Distinct(es) => Distinct(r)
  <2> SUFFICES ASSUME Distinct(es), NEW i \in 1 .. Len(r), NEW j \in 1 .. Len(r), i # j
               PROVE  r[i].id # r[j].id
    BY DEF Distinct
  <2>1. g[i] \in 1 .. Len(es) /\ g[j] \in 1 .. Len(es) /\ r[i] = es[g[i]] /\ r[j] = es[g[j]]
    BY <1>5
  <2>2. g[i] # g[j]
    <3>1. (i < j => g[i] < g[j]) /\ (j < i => g[j] < g[i]) /\ (i < j \/ j < i)
      BY <1>3 DEF Picks
    <3> QED BY <2>1, <3>1
  <2> QED BY <2>1, <2>2 DEF Distinct
<1>7. ASSUME HasAssistant(es) PROVE HasAssistant(r)
  <2>1. PICK k \in 1 .. Len(es) : es[k].type = "assistant"
    BY <1>1, <1>7 DEF HasAssistant
  <2>2. es[k] \in Tree(es)
    BY <1>4, <2>1 DEF IsEntry
  <2>3. PICK i \in 1 .. Len(r) : g[i] = k
    BY <1>3, <2>2 DEF Picks
  <2> QED BY <1>2, <1>5, <2>1, <2>3 DEF HasAssistant
<1>8. \A i \in 1 .. Len(r) :
          /\ IsEntry(r[i]) /\ r[i].id \in 1 .. n - 1 /\ r[i].parent < r[i].id
          /\ IsLabel(r[i]) => \E j \in 1 .. i - 1 : r[j].id = r[i].ref
  BY <1>5
<1>9. /\ Session(<< Header >> \o r, n)
      /\ Distinct(r) => Distinct(<< Header >> \o r)
      /\ HasAssistant(<< Header >> \o r) <=> HasAssistant(r)
  BY <1>2, <1>8, HeadedSession
<1> QED BY <1>6, <1>7, <1>9 DEF r

(* createBranchedSession: what is on the way to the leaf, but its labels,  *)
(* and new entries for these labels.                                       *)
LEMMA UnlabelledPath ==
    ASSUME NEW n \in Nat \ {0}, NEW es, Session(es, n), NEW node \in Nat
    PROVE  LET w == WithoutLabels(Branch(es, node))
           IN  /\ w \in Seq(Entry)
               /\ \A i \in 1 .. Len(w) : /\ IsEntry(w[i]) /\ ~IsLabel(w[i])
                                         /\ w[i].id \in 1 .. n - 1 /\ w[i].parent < w[i].id
               /\ \A i, j \in 1 .. Len(w) : i < j => w[i].id < w[j].id
<1> DEFINE b == Branch(es, node)
           S == {e \in Tree(b) : ~IsLabel(e)}
           w == WithoutLabels(b)
<1>1. Path(b, es, node)
  BY BranchIs
<1>2. w = Only(b, S)
  BY DEF WithoutLabels
<1>3. b \in Seq(Entry)
  BY <1>1 DEF Path
<1> HIDE DEF b, w
<1>4. \A x \in S : IsEntry(x) /\ ~IsLabel(x)
  BY DEF Tree
<1> HIDE DEF S
<1>5. w \in Seq(Entry) /\ \E g : Picks(g, w, b, Len(b), S)
  BY <1>2, <1>3, OnlyIs
<1>6. PICK g : Picks(g, w, b, Len(b), S)
  BY <1>5
<1>7. ASSUME NEW i \in 1 .. Len(w)
      PROVE  /\ IsEntry(w[i]) /\ ~IsLabel(w[i])
             /\ w[i].id \in 1 .. n - 1 /\ w[i].parent < w[i].id
  <2>1. g[i] \in 1 .. Len(b) /\ w[i] = b[g[i]] /\ w[i] \in S
    BY <1>6 DEF Picks
  <2>2. \E k \in 1 .. Len(es) : w[i] = es[k]
    BY <1>1, <2>1 DEF Path
  <2> QED BY <1>4, <2>1, <2>2 DEF Session, Sound
<1>8. ASSUME NEW i \in 1 .. Len(w), NEW j \in 1 .. Len(w), i < j
      PROVE  w[i].id < w[j].id
  <2>1. g[i] \in 1 .. Len(b) /\ g[j] \in 1 .. Len(b) /\ w[i] = b[g[i]] /\ w[j] = b[g[j]]
    BY <1>6 DEF Picks
  <2>2. g[i] < g[j]
    BY <1>6, <1>8 DEF Picks
  <2> QED BY <1>1, <2>1, <2>2 DEF Path
<1> QED BY <1>5, <1>7, <1>8 DEF w, b

LEMMA RewrittenAre ==
    ASSUME nextId \in Nat \ {0}, Session(fileEntries, nextId), labelsById \in Seq(Nat),
           NEW node \in Nat
    PROVE  LET b == Branch(fileEntries, node)
               w == WithoutLabels(b)
               l == LabelsRewritten(b)
           IN  /\ l \in Seq(Entry)
               /\ \A i \in 1 .. Len(l) : /\ l[i].type = "label" /\ l[i].id = nextId + i - 1
                                         /\ l[i].parent < l[i].id /\ l[i].ref \in Ids(w)
<1> DEFINE b == Branch(fileEntries, node)
           w == WithoutLabels(b)
           l == LabelsRewritten(b)
           labels == LabelsOn(b)
<1>1. w \in Seq(Entry) /\ \A i \in 1 .. Len(w) : w[i].id \in 1 .. nextId - 1
  BY UnlabelledPath
<1> HIDE DEF w
<1>2. labels \in Seq(Nat) /\ ToSet(labels) \subseteq Ids(w)
  BY OnlyIs, OnlyHas DEF LabelsOn, w
<1>3. l = [i \in DOMAIN labels |->
             NewEntry("label", nextId + i - 1,
                      IF i = 1 THEN LastEntryId(w) ELSE nextId + i - 2, labels[i])]
  BY DEF LabelsRewritten, w
<1> HIDE DEF l, labels, b
<1>4. DOMAIN labels = 1 .. Len(labels) /\ Len(labels) \in Nat
  BY <1>2
<1>5. LastEntryId(w) \in 0 .. nextId - 1
  <2>1. LastEntryId(w) \in Ids(w) \cup {0}
    BY <1>1, LastEntryIs
  <2>2. \A id \in Ids(w) : id \in 1 .. nextId - 1
    BY <1>1, IdsAre
  <2> QED BY <2>1, <2>2
<1>6. ASSUME NEW i \in 1 .. Len(labels)
      PROVE  /\ l[i] \in Entry /\ l[i].type = "label" /\ l[i].id = nextId + i - 1
             /\ l[i].parent < l[i].id /\ l[i].ref \in Ids(w)
  <2> DEFINE parent == IF i = 1 THEN LastEntryId(w) ELSE nextId + i - 2
  <2>1. l[i] = [type |-> "label", id |-> nextId + i - 1, parent |-> parent, ref |-> labels[i]]
    BY <1>3, <1>4 DEF NewEntry
  <2>2. parent \in Nat /\ parent < nextId + i - 1 /\ nextId + i - 1 \in Nat
    BY <1>4, <1>5
  <2>3. labels[i] \in Nat /\ labels[i] \in Ids(w)
    <3> HIDE DEF parent
    <3>1. i \in DOMAIN labels /\ labels[i] \in Nat
      BY <1>2, <1>4
    <3>2. labels[i] \in ToSet(labels)
      BY <3>1 DEF ToSet
    <3> QED BY <1>2, <3>1, <3>2
  <2> HIDE DEF parent
  <2>4. l[i].type = "label" /\ l[i].id = nextId + i - 1 /\ l[i].parent = parent
        /\ l[i].ref = labels[i]
    BY <2>1
  <2>5. l[i] \in Entry
    BY <2>1, <2>2, <2>3 DEF Entry, EntryType, LabelType
  <2> QED BY <2>2, <2>3, <2>4, <2>5
<1>7. Len(l) = Len(labels) /\ l \in Seq(Entry)
  <2>1. DOMAIN l = 1 .. Len(labels)
    BY <1>3, <1>4
  <2>2. l \in [1 .. Len(labels) -> Entry]
    BY <1>3, <1>4, <1>6, <2>1
  <2>3. l \in Seq(Entry)
    BY <1>4, <2>2
  <2> QED BY <1>4, <2>1, <2>3
<1> QED BY <1>6, <1>7 DEF l, b, w

LEMMA ForkedSession ==
    ASSUME nextId \in Nat \ {0}, Session(fileEntries, nextId), labelsById \in Seq(Nat),
           NEW node \in Nat
    PROVE  LET b == Branch(fileEntries, node)
               es == << Header >> \o WithoutLabels(b) \o LabelsRewritten(b)
           IN  /\ Len(LabelsRewritten(b)) \in Nat
               /\ Session(es, nextId + Len(LabelsRewritten(b)))
               /\ Distinct(es)
<1> DEFINE b == Branch(fileEntries, node)
           w == WithoutLabels(b)
           l == LabelsRewritten(b)
           r == w \o l
           m == nextId + Len(l)
<1>1. /\ w \in Seq(Entry)
      /\ \A i \in 1 .. Len(w) : /\ IsEntry(w[i]) /\ ~IsLabel(w[i])
                                /\ w[i].id \in 1 .. nextId - 1 /\ w[i].parent < w[i].id
      /\ \A i, j \in 1 .. Len(w) : i < j => w[i].id < w[j].id
  BY UnlabelledPath
<1>2. /\ l \in Seq(Entry)
      /\ \A i \in 1 .. Len(l) : /\ l[i].type = "label" /\ l[i].id = nextId + i - 1
                                /\ l[i].parent < l[i].id /\ l[i].ref \in Ids(w)
  BY RewrittenAre
<1> HIDE DEF w, l, b
<1>3. << Header >> \o w \o l = << Header >> \o r
  <2>1. << Header >> \in Seq(Entry)
    BY HeaderIs
  <2> QED BY <1>1, <1>2, <2>1, ConcatAssociative
<1>4. /\ r \in Seq(Entry) /\ Len(w) \in Nat /\ Len(l) \in Nat /\ Len(r) = Len(w) + Len(l)
      /\ \A i \in 1 .. Len(w) : r[i] = w[i]
      /\ \A i \in 1 .. Len(l) : r[i + Len(w)] = l[i]
  BY <1>1, <1>2
<1> HIDE DEF r
<1>5. m \in Nat \ {0} /\ nextId - 1 <= m - 1
  BY <1>4
<1>6. ASSUME NEW i \in 1 .. Len(r)
      PROVE  \/ i \in 1 .. Len(w) /\ r[i] = w[i]
             \/ /\ i - Len(w) \in 1 .. Len(l)
                /\ r[i] = l[i - Len(w)]
                /\ r[i].id = nextId + (i - Len(w)) - 1
  <2>1. CASE i \in 1 .. Len(w)
    BY <1>4, <2>1
  <2>2. CASE ~(i \in 1 .. Len(w))
    <3>1. i - Len(w) \in 1 .. Len(l) /\ (i - Len(w)) + Len(w) = i
      BY <1>4, <2>2
    <3>2. r[i] = l[i - Len(w)]
      BY <1>4, <3>1
    <3> QED BY <1>2, <3>1, <3>2
  <2> QED BY <2>1, <2>2
<1>7. ASSUME NEW i \in 1 .. Len(r)
      PROVE  /\ IsEntry(r[i]) /\ r[i].id \in 1 .. m - 1 /\ r[i].parent < r[i].id
             /\ IsLabel(r[i]) => \E j \in 1 .. i - 1 : r[j].id = r[i].ref
  <2>1. CASE i \in 1 .. Len(w) /\ r[i] = w[i]
    <3>1. r[i].id \in 1 .. nextId - 1
      BY <1>1, <2>1
    <3>2. r[i].id \in 1 .. m - 1
      BY <1>4, <1>5, <3>1
    <3> QED BY <1>1, <2>1, <3>2
  <2>2. CASE /\ i - Len(w) \in 1 .. Len(l)
             /\ r[i] = l[i - Len(w)]
             /\ r[i].id = nextId + (i - Len(w)) - 1
    <3>1. r[i].id \in 1 .. m - 1
      <4> DEFINE k == i - Len(w)
      <4>1. k \in 1 .. Len(l) /\ r[i].id = nextId + k - 1
        BY <2>2
      <4>2. m = nextId + Len(l) /\ nextId \in Nat \ {0} /\ Len(l) \in Nat
        BY <1>4
      <4> HIDE DEF k, m, l
      <4> QED BY <4>1, <4>2
    <3>2. r[i].type = "label" /\ r[i].parent < r[i].id /\ r[i].ref \in Ids(w)
      BY <1>2, <2>2
    <3>3. PICK j \in 1 .. Len(w) : w[j].id = r[i].ref
      <4>1. \A id : id \in Ids(w) <=> \E j \in 1 .. Len(w) : w[j].id = id
        BY <1>1, IdsAre
      <4> QED BY <3>2, <4>1
    <3>4. r[j].id = r[i].ref /\ j \in 1 .. i - 1
      BY <1>4, <2>2, <3>3
    <3> QED BY <3>1, <3>2, <3>4 DEF IsEntry
  <2> QED BY <1>6, <2>1, <2>2
<1>8. ASSUME NEW i \in 1 .. Len(r), NEW j \in 1 .. Len(r), i < j
      PROVE  r[i].id < r[j].id
  <2>1. CASE j \in 1 .. Len(w)
    <3>1. i \in 1 .. Len(w)
      BY <1>4, <1>8, <2>1
    <3> QED BY <1>1, <1>4, <1>8, <2>1, <3>1
  <2>2. CASE ~(j \in 1 .. Len(w))
    <3>1. j - Len(w) \in 1 .. Len(l) /\ r[j].id = nextId + (j - Len(w)) - 1
      BY <1>6, <2>2
    <3>2. CASE i \in 1 .. Len(w)
      <4>1. r[i].id \in 1 .. nextId - 1
        BY <1>1, <1>4, <3>2
      <4> QED BY <1>4, <3>1, <4>1
    <3>3. CASE ~(i \in 1 .. Len(w))
      <4>1. r[i].id = nextId + (i - Len(w)) - 1
        BY <1>6, <3>3
      <4> QED BY <1>4, <1>8, <3>1, <4>1
    <3> QED BY <3>2, <3>3
  <2> QED BY <2>1, <2>2
<1>9. Distinct(r)
  <2> SUFFICES ASSUME NEW i \in 1 .. Len(r), NEW j \in 1 .. Len(r), i # j
               PROVE  r[i].id # r[j].id
    BY DEF Distinct
  <2>1. r[i].id \in Nat /\ r[j].id \in Nat /\ (i < j \/ j < i)
    BY <1>5, <1>7
  <2> QED BY <1>8, <2>1
<1>10. Session(<< Header >> \o r, m) /\ Distinct(<< Header >> \o r)
  BY <1>4, <1>5, <1>7, <1>9, HeadedSession
<1> QED BY <1>3, <1>4, <1>10 DEF b, w, l

(* A file of a session loads as it is.                                     *)
LEMMA LoadedIs ==
    ASSUME NEW n, NEW es, Session(es, n)
    PROVE  Loaded(es) = es
<1>1. es # << >> /\ Head(es) = Header
  BY DEF Session
<1> QED BY <1>1, HeaderIs DEF Loaded
-----------------------------------------------------------------------------
(* Sequences: beginnings, and one more element.                            *)
LEMMA BeginningIs ==
    ASSUME NEW T, NEW s \in Seq(T), NEW k \in 0 .. Len(s)
    PROVE  /\ SubSeq(s, 1, k) \in Seq(T)
           /\ Len(SubSeq(s, 1, k)) = k
           /\ \A i \in 1 .. k : SubSeq(s, 1, k)[i] = s[i]
<1> DEFINE p == SubSeq(s, 1, k)
<1>1. k \in Int /\ 1 \in Int /\ \A i \in 1 .. k : s[i] \in T
  OBVIOUS
<1>2. /\ p \in Seq(T) /\ Len(p) = (IF 1 <= k THEN k - 1 + 1 ELSE 0)
      /\ \A i \in 1 .. k - 1 + 1 : p[i] = s[1 + i - 1]
  BY <1>1, SubSeqProperties
<1> HIDE DEF p
<1>3. p \in Seq(T) /\ Len(p) = k /\ \A i \in 1 .. k : p[i] = s[i]
  BY <1>2
<1> QED BY <1>3 DEF p

LEMMA BeginningOfAppend ==
    ASSUME NEW T, NEW s \in Seq(T), NEW x \in T, NEW k \in 0 .. Len(s)
    PROVE  SubSeq(Append(s, x), 1, k) = SubSeq(s, 1, k)
<1> DEFINE q == Append(s, x)
<1>1. q \in Seq(T) /\ k \in 0 .. Len(q) /\ \A i \in 1 .. Len(s) : q[i] = s[i]
  OBVIOUS
<1> HIDE DEF q
<1> DEFINE a == SubSeq(q, 1, k)
           b == SubSeq(s, 1, k)
<1>2. a \in Seq(T) /\ Len(a) = k /\ \A i \in 1 .. k : a[i] = q[i]
  BY <1>1, BeginningIs
<1>3. b \in Seq(T) /\ Len(b) = k /\ \A i \in 1 .. k : b[i] = s[i]
  BY BeginningIs
<1> HIDE DEF a, b
<1>4. a = b
  <2>1. \A i \in 1 .. k : a[i] = b[i]
    BY <1>1, <1>2, <1>3
  <2> QED BY <1>2, <1>3, <2>1, SeqEqual
<1> QED BY <1>4 DEF a, b, q

LEMMA ConcatAppend ==
    ASSUME NEW T, NEW p \in Seq(T), NEW s \in Seq(T), NEW x \in T
    PROVE  (p \o s) \o << x >> = p \o Append(s, x)
<1>1. << x >> \in Seq(T) /\ Append(s, x) = s \o << x >>
  BY AppendIsConcat
<1> QED BY <1>1, ConcatAssociative

LEMMA PrefixOfConcat ==
    ASSUME NEW T, NEW s \in Seq(T), NEW u \in Seq(T)
    PROVE  IsPrefix(s, s \o u)
<1> DEFINE q == s \o u
<1>1. q \in Seq(T) /\ Len(s) \in 0 .. Len(q) /\ \A i \in 1 .. Len(s) : q[i] = s[i]
  OBVIOUS
<1> HIDE DEF q
<1>2. SubSeq(s, 1, Len(s)) = s
  BY SubSeqFull
<1> DEFINE a == SubSeq(q, 1, Len(s))
<1>3. a \in Seq(T) /\ Len(a) = Len(s) /\ \A i \in 1 .. Len(s) : a[i] = q[i]
  BY <1>1, BeginningIs
<1> HIDE DEF a
<1>4. a = s
  <2>1. \A i \in 1 .. Len(s) : a[i] = s[i]
    BY <1>1, <1>3
  <2> QED BY <1>3, <2>1, SeqEqual
<1>5. IsPrefix(s, q)
  BY <1>1, <1>2, <1>4 DEF IsPrefix, a
<1> QED BY <1>5 DEF q

LEMMA PrefixOfItself ==
    ASSUME NEW T, NEW s \in Seq(T)
    PROVE  IsPrefix(s, s)
  BY DEF IsPrefix

LEMMA EmptyPrefix ==
    ASSUME NEW T, NEW s \in Seq(T)
    PROVE  IsPrefix(<< >>, s)
<1>1. << >> \in Seq(T) /\ << >> \o s = s
  BY ConcatEmptySeq
<1> QED BY <1>1, PrefixOfConcat

LEMMA Answered ==
    ASSUME NEW es \in Seq(Entry), NEW e \in Entry
    PROVE  HasAssistant(Append(es, e)) <=> (HasAssistant(es) \/ e.type = "assistant")
<1> DEFINE q == Append(es, e)
<1>1. /\ DOMAIN es = 1 .. Len(es) /\ DOMAIN q = 1 .. Len(es) + 1 /\ Len(es) \in Nat
      /\ \A i \in 1 .. Len(es) : q[i] = es[i]
      /\ q[Len(es) + 1] = e
  BY Appended
<1> HIDE DEF q
<1>2. \A i \in DOMAIN q : i \in DOMAIN es \/ i = Len(es) + 1
  BY <1>1
<1>3. DOMAIN es \subseteq DOMAIN q /\ Len(es) + 1 \in DOMAIN q
  BY <1>1
<1>4. HasAssistant(q) <=> (HasAssistant(es) \/ e.type = "assistant")
  BY <1>1, <1>2, <1>3 DEF HasAssistant
<1> QED BY <1>4 DEF q

LEMMA AppendDistinct ==
    ASSUME NEW n \in Nat \ {0}, NEW es, Session(es, n), Distinct(es), NEW e, Fits(e, es, n)
    PROVE  Distinct(Append(es, e))
<1> DEFINE q == Append(es, e)
<1>1. /\ Len(es) \in Nat /\ Len(q) = Len(es) + 1
      /\ \A i \in 1 .. Len(es) : q[i] = es[i]
      /\ q[Len(es) + 1] = e
  BY Appended DEF Session, Fits
<1> HIDE DEF q
<1>2. \A i \in 1 .. Len(q) : i \in 1 .. Len(es) \/ i = Len(es) + 1
  BY <1>1
<1>3. \A i \in 1 .. Len(es) : q[i].id # n
  <2> TAKE i \in 1 .. Len(es)
  <2>1. es[i].id \in 1 .. n - 1 \/ es[i].id = 0
    BY HeaderIs DEF Session, Sound
  <2> QED BY <1>1, <2>1
<1>4. q[Len(es) + 1].id = n
  BY <1>1 DEF Fits
<1>5. Distinct(q)
  <2> SUFFICES ASSUME NEW i \in 1 .. Len(q), NEW j \in 1 .. Len(q), i # j
               PROVE  q[i].id # q[j].id
    BY DEF Distinct
  <2>1. CASE i \in 1 .. Len(es) /\ j \in 1 .. Len(es)
    BY <1>1, <2>1 DEF Distinct
  <2>2. CASE ~(i \in 1 .. Len(es) /\ j \in 1 .. Len(es))
    BY <1>2, <1>3, <1>4, <2>2
  <2> QED BY <2>1, <2>2
<1> QED BY <1>5 DEF q
-----------------------------------------------------------------------------
(* An unlucky start: a first flush that was cut short wrote p, the         *)
(* beginning of es, and the next one wrote es after it.  What the file     *)
(* says of the tree and of the labels is what es says.                     *)
LEMMA TwiceSameTree ==
    ASSUME NEW es \in Seq(Entry), NEW k \in 0 .. Len(es)
    PROVE  Tree(SubSeq(es, 1, k) \o es) = Tree(es)
<1> DEFINE p == SubSeq(es, 1, k)
           q == p \o es
<1>1. p \in Seq(Entry) /\ Len(p) = k /\ \A i \in 1 .. k : p[i] = es[i]
  BY BeginningIs
<1> HIDE DEF p
<1>2. /\ q \in Seq(Entry) /\ DOMAIN q = 1 .. k + Len(es)
      /\ DOMAIN es = 1 .. Len(es) /\ Len(es) \in Nat
      /\ \A i \in 1 .. k : q[i] = es[i]
      /\ \A i \in 1 .. Len(es) : q[i + k] = es[i]
  BY <1>1
<1> HIDE DEF q
<1>3. ASSUME NEW i \in DOMAIN q PROVE \E j \in DOMAIN es : q[i] = es[j]
  <2>1. CASE i \in 1 .. k
    BY <1>2, <2>1
  <2>2. CASE ~(i \in 1 .. k)
    <3>1. i - k \in 1 .. Len(es) /\ (i - k) + k = i
      BY <1>2, <2>2
    <3> QED BY <1>2, <3>1
  <2> QED BY <2>1, <2>2
<1>4. ASSUME NEW j \in DOMAIN es PROVE \E i \in DOMAIN q : q[i] = es[j]
  <2>1. j + k \in DOMAIN q /\ q[j + k] = es[j]
    BY <1>2
  <2> QED BY <2>1
<1>5. Tree(q) = Tree(es)
  BY <1>3, <1>4 DEF Tree
<1> QED BY <1>5 DEF q, p

LEMMA TwiceSameLabels ==
    ASSUME NEW es \in Seq(Entry), NEW k \in 0 .. Len(es), NEW t
    PROVE  Marked(SubSeq(es, 1, k) \o es, k + Len(es), t) <=> Marked(es, Len(es), t)
<1> DEFINE p == SubSeq(es, 1, k)
           q == p \o es
           n == Len(es)
<1>1. p \in Seq(Entry) /\ Len(p) = k /\ \A i \in 1 .. k : p[i] = es[i]
  BY BeginningIs
<1> HIDE DEF p
<1>2. /\ n \in Nat
      /\ \A i \in 1 .. k : q[i] = es[i]
      /\ \A i \in 1 .. n : q[i + k] = es[i]
  BY <1>1
<1> HIDE DEF q
<1>3. ASSUME Marked(es, n, t) PROVE Marked(q, k + n, t)
  <2>1. PICK i \in 1 .. n :
            /\ es[i].type = "label" /\ es[i].ref = t
            /\ \A j \in i + 1 .. n : ~(es[j].type = "unlabel" /\ es[j].ref = t)
    BY <1>3 DEF Marked
  <2>2. i + k \in 1 .. k + n /\ q[i + k] = es[i]
    BY <1>2
  <2>3. ASSUME NEW j \in i + k + 1 .. k + n
        PROVE  ~(q[j].type = "unlabel" /\ q[j].ref = t)
    <3>1. j - k \in i + 1 .. n /\ (j - k) + k = j /\ j - k \in 1 .. n
      BY <1>2
    <3>2. q[j] = es[j - k]
      BY <1>2, <3>1
    <3> QED BY <2>1, <3>1, <3>2
  <2> QED BY <2>1, <2>2, <2>3 DEF Marked
<1>4. ASSUME Marked(q, k + n, t) PROVE Marked(es, n, t)
  <2>1. PICK i \in 1 .. k + n :
            /\ q[i].type = "label" /\ q[i].ref = t
            /\ \A j \in i + 1 .. k + n : ~(q[j].type = "unlabel" /\ q[j].ref = t)
    BY <1>4 DEF Marked
  <2>2. PICK l \in 1 .. n : q[i] = es[l] /\ i <= l + k
    <3>1. CASE i \in 1 .. k
      <4>1. q[i] = es[i] /\ i \in 1 .. n /\ i <= i + k
        BY <1>2, <3>1
      <4> QED BY <4>1
    <3>2. CASE ~(i \in 1 .. k)
      <4>1. i - k \in 1 .. n /\ (i - k) + k = i /\ i <= (i - k) + k
        BY <1>2, <3>2
      <4>2. q[(i - k) + k] = es[i - k]
        BY <1>2, <4>1
      <4> QED BY <4>1, <4>2
    <3> QED BY <3>1, <3>2
  <2>3. ASSUME NEW j \in l + 1 .. n
        PROVE  ~(es[j].type = "unlabel" /\ es[j].ref = t)
    <3>1. j + k \in i + 1 .. k + n /\ j \in 1 .. n
      BY <1>2, <2>2
    <3>2. q[j + k] = es[j]
      BY <1>2, <3>1
    <3> QED BY <2>1, <3>1, <3>2
  <2> QED BY <2>1, <2>2, <2>3 DEF Marked
<1>5. Marked(q, k + n, t) <=> Marked(es, n, t)
  BY <1>3, <1>4
<1> QED BY <1>5 DEF q, p
-----------------------------------------------------------------------------
(* What is in memory and in the files.  The labels of the session are      *)
(* those its entries speak of.                                             *)
TypeInv ==
    /\ Session(fileEntries, nextId)
    /\ leafId \in Ids(fileEntries) \cup {0}
    /\ labelsById \in Seq(Nat)
    /\ \A t : t \in ToSet(labelsById) <=> Marked(fileEntries, Len(fileEntries), t)
    /\ flushed \in BOOLEAN
    /\ up \in BOOLEAN
    /\ sessionFile \in Files
    /\ nextId \in Nat \ {0}
    /\ DOMAIN disk \subseteq Files
    /\ \A f \in DOMAIN disk : disk[f] = << >> \/ Session(disk[f], nextId)
    /\ torn \subseteq Files

(* What the file of the session that is alive holds: the session, after    *)
(* what a first flush that was cut short had left, or only that.           *)
KeptInv ==
    up => \E k \in 0 .. Len(fileEntries) :
              IF flushed
              THEN /\ sessionFile \in DOMAIN disk
                   /\ disk[sessionFile] = SubSeq(fileEntries, 1, k) \o fileEntries
                   /\ ~HasAssistant(fileEntries) => k = 0
              ELSE /\ ~HasAssistant(fileEntries)
                   /\ Stored(sessionFile) = SubSeq(fileEntries, 1, k)

(* No flush of the session's file was cut short: it has what is in memory, *)
(* or does not exist yet.                                                  *)
WholeInv ==
    /\ \A f \in DOMAIN disk \ torn : Distinct(disk[f]) /\ HasAssistant(disk[f])
    /\ sessionFile \notin torn =>
           /\ Distinct(fileEntries)
           /\ up => IF flushed
                    THEN /\ HasAssistant(fileEntries)
                         /\ sessionFile \in DOMAIN disk
                         /\ disk[sessionFile] = fileEntries
                    ELSE sessionFile \notin DOMAIN disk

Inv == TypeInv /\ KeptInv /\ WholeInv

(* A step that puts x in the file f, and leaves the others alone.          *)
Puts(f, x) == /\ DOMAIN disk' = DOMAIN disk \cup {f}
              /\ \A g \in DOMAIN disk \cup {f} : disk'[g] = IF g = f THEN x ELSE disk[g]

LEMMA SavedIs ==
    ASSUME NEW f, NEW x, disk' = Saved(f, x)
    PROVE  Puts(f, x)
<1>1. DOMAIN disk' = DOMAIN disk \cup {f}
  BY DEF Saved
<1>2. \A g \in DOMAIN disk \cup {f} : disk'[g] = IF g = f THEN x ELSE disk[g]
  BY DEF Saved
<1> QED BY <1>1, <1>2 DEF Puts

LEMMA WrittenIs ==
    ASSUME NEW f, NEW lines, disk' = Written(f, lines)
    PROVE  IF lines = << >> THEN disk' = disk ELSE Puts(f, Stored(f) \o lines)
  BY SavedIs DEF Written

LEMMA LineIsLast ==
    ASSUME NEW es \in Seq(Entry), NEW e \in Entry
    PROVE  /\ << Last(Append(es, e)) >> = << e >>
           /\ \A n \in 0 .. 1 : SubSeq(<< e >>, 1, n) = IF n = 0 THEN << >> ELSE << e >>
<1>1. Last(Append(es, e)) = e
  BY Appended DEF Last
<1>2. << e >> \in Seq(Entry) /\ Len(<< e >>) = 1
  OBVIOUS
<1>3. SubSeq(<< e >>, 1, 1) = << e >>
  BY <1>2, SubSeqFull
<1>4. SubSeq(<< e >>, 1, 0) = << >>
  BY SubSeqEmpty
<1>5. \A n \in 0 .. 1 : n = 0 \/ n = 1
  OBVIOUS
<1>6. << Last(Append(es, e)) >> = << e >>
  BY <1>1
<1>7. ASSUME NEW n \in 0 .. 1
      PROVE  SubSeq(<< e >>, 1, n) = IF n = 0 THEN << >> ELSE << e >>
  <2>1. CASE n = 0
    BY <1>4, <2>1
  <2>2. CASE n = 1
    BY <1>3, <2>2
  <2> QED BY <1>5, <2>1, <2>2
<1> QED BY <1>6, <1>7

(* The cases of _persist: nothing to write, a line more, or everything.    *)
LEMMA LinesAre ==
    ASSUME Inv, up, NEW e, Fits(e, fileEntries, nextId)
    PROVE  LET es == Append(fileEntries, e)
           IN  \/ /\ Lines(es) = << >> /\ ~HasAssistant(es)
               \/ /\ Lines(es) = << e >> /\ HasAssistant(es) /\ flushed
                  /\ sessionFile \in DOMAIN disk
               \/ /\ Lines(es) = es /\ HasAssistant(es) /\ ~flushed
<1>1. fileEntries \in Seq(Entry) /\ e \in Entry
  BY DEF Inv, TypeInv, Session, Fits
<1>2. << Last(Append(fileEntries, e)) >> = << e >>
  BY <1>1, LineIsLast
<1>3. flushed => sessionFile \in DOMAIN disk
  BY DEF Inv, KeptInv
<1> QED BY <1>2, <1>3 DEF Lines

(* An append that is written to the end.                                   *)
LEMMA AppendKeeps ==
    ASSUME Inv, up, NEW e, Fits(e, fileEntries, nextId),
           disk' = Written(sessionFile, Lines(Append(fileEntries, e)))
    PROVE  LET es == Append(fileEntries, e)
           IN  \E k \in 0 .. Len(es) :
                   IF HasAssistant(es)
                   THEN /\ sessionFile \in DOMAIN disk'
                        /\ disk'[sessionFile] = SubSeq(es, 1, k) \o es
                   ELSE disk' = disk /\ Stored(sessionFile) = SubSeq(es, 1, k)
<1> DEFINE es == Append(fileEntries, e)
           Kept(k) == IF HasAssistant(es)
                      THEN /\ sessionFile \in DOMAIN disk'
                           /\ disk'[sessionFile] = SubSeq(es, 1, k) \o es
                      ELSE disk' = disk /\ Stored(sessionFile) = SubSeq(es, 1, k)
<1>1. /\ fileEntries \in Seq(Entry) /\ e \in Entry
      /\ es \in Seq(Entry) /\ Len(fileEntries) \in Nat /\ Len(es) = Len(fileEntries) + 1
  BY Appended DEF Inv, TypeInv, Session, Fits
<1>2. PICK k \in 0 .. Len(fileEntries) :
              IF flushed
              THEN /\ sessionFile \in DOMAIN disk
                   /\ disk[sessionFile] = SubSeq(fileEntries, 1, k) \o fileEntries
                   /\ ~HasAssistant(fileEntries) => k = 0
              ELSE /\ ~HasAssistant(fileEntries)
                   /\ Stored(sessionFile) = SubSeq(fileEntries, 1, k)
  BY DEF Inv, KeptInv
<1>3. k \in 0 .. Len(es) /\ Len(fileEntries) \in 0 .. Len(es) /\ k \in Nat
  BY <1>1
<1> DEFINE p == SubSeq(fileEntries, 1, k)
<1>4. p = SubSeq(es, 1, k) /\ p \in Seq(Entry)
  BY <1>1, BeginningOfAppend, BeginningIs
<1>5. IF Lines(es) = << >> THEN disk' = disk
                           ELSE Puts(sessionFile, Stored(sessionFile) \o Lines(es))
  BY WrittenIs
<1>6. \/ /\ Lines(es) = << >> /\ ~HasAssistant(es)
      \/ /\ Lines(es) = << e >> /\ HasAssistant(es) /\ flushed
         /\ sessionFile \in DOMAIN disk
      \/ /\ Lines(es) = es /\ HasAssistant(es) /\ ~flushed
  BY LinesAre
<1> HIDE DEF p, es
<1>7. \E j \in 0 .. Len(es) : Kept(j)
  <2>1. CASE Lines(es) = << >> /\ ~HasAssistant(es)
    <3>1. disk' = disk
      BY <1>5, <2>1
    <3>2. ~HasAssistant(fileEntries)
      BY <1>1, <2>1, Answered DEF es
    <3>3. CASE flushed
      <4>1. k = 0 /\ p = << >>
        BY <1>2, <1>1, <3>2, <3>3, SubSeqEmpty DEF p
      <4>2. disk[sessionFile] = fileEntries /\ sessionFile \in DOMAIN disk
        BY <1>1, <1>2, <3>3, <4>1, ConcatEmptySeq DEF p
      <4>3. SubSeq(es, 1, Len(fileEntries)) = fileEntries
        <5>1. Len(fileEntries) \in 0 .. Len(fileEntries)
          BY <1>1
        <5>2. SubSeq(es, 1, Len(fileEntries)) = SubSeq(fileEntries, 1, Len(fileEntries))
          BY <1>1, <5>1, BeginningOfAppend DEF es
        <5>3. SubSeq(fileEntries, 1, Len(fileEntries)) = fileEntries
          BY <1>1, SubSeqFull
        <5> QED BY <5>2, <5>3
      <4> QED BY <1>3, <2>1, <3>1, <4>2, <4>3 DEF Stored
    <3>4. CASE ~flushed
      BY <1>2, <1>3, <1>4, <2>1, <3>1, <3>4 DEF Stored, p
    <3> QED BY <3>3, <3>4
  <2>2. CASE /\ Lines(es) = << e >> /\ HasAssistant(es) /\ flushed
             /\ sessionFile \in DOMAIN disk
    <3>1. << e >> # << >>
      OBVIOUS
    <3>2. Puts(sessionFile, Stored(sessionFile) \o << e >>)
      BY <1>5, <2>2, <3>1
    <3>3. Stored(sessionFile) = p \o fileEntries
      BY <1>2, <2>2 DEF Stored, p
    <3>4. (p \o fileEntries) \o << e >> = p \o es
      <4>1. p \in Seq(Entry) /\ fileEntries \in Seq(Entry) /\ e \in Entry
        BY <1>1, <1>4
      <4> HIDE DEF Kept
      <4> QED BY <4>1, ConcatAppend DEF es
    <3>5. sessionFile \in DOMAIN disk' /\ disk'[sessionFile] = p \o es
      BY <3>2, <3>3, <3>4 DEF Puts
    <3> QED BY <1>3, <1>4, <2>2, <3>5
  <2>3. CASE Lines(es) = es /\ HasAssistant(es) /\ ~flushed
    <3>1. es # << >>
      BY <1>1
    <3>2. Puts(sessionFile, Stored(sessionFile) \o es)
      BY <1>5, <2>3, <3>1
    <3>3. sessionFile \in DOMAIN disk' /\ disk'[sessionFile] = p \o es
      BY <1>2, <2>3, <3>2 DEF Puts, p
    <3> QED BY <1>3, <1>4, <2>3, <3>3
  <2> QED BY <1>6, <2>1, <2>2, <2>3
<1> QED BY <1>7 DEF es

(* Whatever part of it is written, the files stay those of sessions, and   *)
(* none loses what it had.                                                 *)
LEMMA AppendWrites ==
    ASSUME Inv, up, NEW e, Fits(e, fileEntries, nextId),
           NEW n \in 0 .. Len(Lines(Append(fileEntries, e))),
           disk' = Written(sessionFile, SubSeq(Lines(Append(fileEntries, e)), 1, n))
    PROVE  /\ DOMAIN disk' \subseteq Files
           /\ \A f \in DOMAIN disk' : disk'[f] = << >> \/ Session(disk'[f], nextId + 1)
           /\ \A f \in DOMAIN disk : f \in DOMAIN disk' /\ IsPrefix(disk[f], disk'[f])
           /\ \A f \in DOMAIN disk' : f # sessionFile => f \in DOMAIN disk /\ disk'[f] = disk[f]
<1> DEFINE es == Append(fileEntries, e)
           lines == SubSeq(Lines(es), 1, n)
           old == Stored(sessionFile)
<1>1. /\ fileEntries \in Seq(Entry) /\ e \in Entry /\ es \in Seq(Entry)
      /\ nextId \in Nat \ {0} /\ nextId + 1 \in Nat /\ nextId <= nextId + 1
      /\ sessionFile \in Files /\ DOMAIN disk \subseteq Files
      /\ Session(fileEntries, nextId) /\ Session(es, nextId + 1)
      /\ \A f \in DOMAIN disk : disk[f] = << >> \/ Session(disk[f], nextId)
  BY SessionAppend DEF Inv, TypeInv, Session, Fits
<1>2. \A f \in DOMAIN disk : disk[f] = << >> \/ Session(disk[f], nextId + 1)
  <2> TAKE f \in DOMAIN disk
  <2> QED BY <1>1, SessionLater
<1>3. \A f \in DOMAIN disk : disk[f] \in Seq(Entry)
  <2> TAKE f \in DOMAIN disk
  <2>1. CASE disk[f] = << >>
    BY <2>1
  <2>2. CASE Session(disk[f], nextId)
    BY <2>2 DEF Session
  <2> QED BY <1>1, <2>1, <2>2
<1>4. old \in Seq(Entry) /\ (old = << >> \/ Session(old, nextId + 1))
  BY <1>2, <1>3 DEF Stored
<1>5. lines = << >> \/ (lines \in Seq(Entry) /\ Session(old \o lines, nextId + 1))
  <2>1. CASE Lines(es) = << >> /\ ~HasAssistant(es)
    <3>1. n = 0
      BY <2>1
    <3> QED BY <2>1, <3>1, SubSeqEmpty
  <2>2. CASE /\ Lines(es) = << e >> /\ HasAssistant(es) /\ flushed
             /\ sessionFile \in DOMAIN disk
    <3>1. Len(<< e >>) = 1
      OBVIOUS
    <3>2. n \in 0 .. 1
      BY <2>2, <3>1
    <3>3. lines = << >> \/ lines = << e >>
      BY <1>1, <2>2, <3>2, LineIsLast
    <3>4. PICK k \in 0 .. Len(fileEntries) :
                  old = SubSeq(fileEntries, 1, k) \o fileEntries
      BY <2>2 DEF Inv, KeptInv, Stored
    <3> DEFINE p == SubSeq(fileEntries, 1, k)
    <3>5. p \in Seq(Entry)
      BY <1>1, BeginningIs
    <3>6. p = << >> \/ Session(p, nextId)
      <4>1. CASE k = 0
        BY <4>1, SubSeqEmpty
      <4>2. CASE k # 0
        <5>1. k \in 1 .. Len(fileEntries)
          BY <4>2
        <5> QED BY <1>1, <5>1, SessionPrefix
      <4> QED BY <4>1, <4>2
    <3> HIDE DEF p, es, old, lines
    <3>7. p = << >> \/ Session(p, nextId + 1)
      BY <1>1, <3>6, SessionLater
    <3>8. old \o << e >> = p \o es
      <4>1. (p \o fileEntries) \o << e >> = p \o es
        <5>1. fileEntries \in Seq(Entry) /\ e \in Entry
          BY <1>1
        <5> QED BY <3>5, <5>1, ConcatAppend DEF es
      <4> QED BY <3>4, <4>1 DEF p
    <3>9. Session(p \o es, nextId + 1)
      BY <1>1, <3>5, <3>7, SessionTwice
    <3>10. << e >> \in Seq(Entry)
      BY <1>1
    <3> QED BY <3>3, <3>8, <3>9, <3>10
  <2>3. CASE Lines(es) = es /\ HasAssistant(es) /\ ~flushed
    <3>1. CASE n = 0
      BY <3>1, SubSeqEmpty
    <3>2. CASE n # 0
      <4>1. n \in 1 .. Len(es) /\ lines = SubSeq(es, 1, n)
        BY <2>3, <3>2
      <4> HIDE DEF es, lines, old
      <4>2. Session(lines, nextId + 1)
        BY <1>1, <4>1, SessionPrefix
      <4>3. Session(old \o lines, nextId + 1)
        BY <1>1, <1>4, <4>2, SessionTwice
      <4> QED BY <4>2, <4>3 DEF Session
    <3> QED BY <3>1, <3>2
  <2> QED BY <2>1, <2>2, <2>3, LinesAre
<1>6. IF lines = << >> THEN disk' = disk ELSE Puts(sessionFile, old \o lines)
  BY WrittenIs
<1> HIDE DEF es, lines
<1>7. CASE lines = << >>
  <2>1. disk' = disk
    BY <1>6, <1>7
  <2> QED BY <1>1, <1>2, <1>3, <2>1, PrefixOfItself
<1>8. CASE lines # << >>
  <2>1. Puts(sessionFile, old \o lines)
    BY <1>6, <1>8
  <2>2. /\ DOMAIN disk' = DOMAIN disk \cup {sessionFile}
        /\ disk'[sessionFile] = old \o lines
        /\ \A f \in DOMAIN disk : f # sessionFile => disk'[f] = disk[f]
    BY <2>1 DEF Puts
  <2>3. Session(old \o lines, nextId + 1) /\ IsPrefix(old, old \o lines)
    <3> HIDE DEF old
    <3> QED BY <1>4, <1>5, <1>8, PrefixOfConcat
  <2>4. sessionFile \in DOMAIN disk => disk[sessionFile] = old
    BY DEF Stored
  <2> HIDE DEF old
  <2>5. \A f \in DOMAIN disk : f \in DOMAIN disk' /\ IsPrefix(disk[f], disk'[f])
    <3> TAKE f \in DOMAIN disk
    <3>1. CASE f = sessionFile
      BY <2>2, <2>3, <2>4, <3>1
    <3>2. CASE f # sessionFile
      BY <1>3, <2>2, <3>2, PrefixOfItself
    <3> QED BY <3>1, <3>2
  <2>6. \A f \in DOMAIN disk' : disk'[f] = << >> \/ Session(disk'[f], nextId + 1)
    BY <1>2, <2>2, <2>3
  <2> QED BY <1>1, <2>2, <2>5, <2>6
<1> QED BY <1>7, <1>8

(* An append to a session whose file is whole leaves it whole.             *)
LEMMA AppendWhole ==
    ASSUME Inv, up, NEW e, Fits(e, fileEntries, nextId),
           disk' = Written(sessionFile, Lines(Append(fileEntries, e))),
           sessionFile \notin torn
    PROVE  LET es == Append(fileEntries, e)
           IN  /\ Distinct(es)
               /\ IF HasAssistant(es)
                  THEN sessionFile \in DOMAIN disk' /\ disk'[sessionFile] = es
                  ELSE sessionFile \notin DOMAIN disk'
<1> DEFINE es == Append(fileEntries, e)
<1>1. /\ fileEntries \in Seq(Entry) /\ e \in Entry /\ es \in Seq(Entry)
      /\ nextId \in Nat \ {0} /\ Session(fileEntries, nextId) /\ Len(es) # 0
  BY Appended DEF Inv, TypeInv, Session, Fits
<1>2. /\ Distinct(fileEntries)
      /\ IF flushed
         THEN /\ HasAssistant(fileEntries)
              /\ sessionFile \in DOMAIN disk
              /\ disk[sessionFile] = fileEntries
         ELSE sessionFile \notin DOMAIN disk
  BY DEF Inv, WholeInv
<1>3. Distinct(es)
  BY <1>1, <1>2, AppendDistinct
<1>4. IF Lines(es) = << >> THEN disk' = disk
                           ELSE Puts(sessionFile, Stored(sessionFile) \o Lines(es))
  BY WrittenIs
<1>5. HasAssistant(fileEntries) => HasAssistant(es)
  BY <1>1, Answered
<1>6. CASE Lines(es) = << >> /\ ~HasAssistant(es)
  BY <1>2, <1>3, <1>4, <1>5, <1>6
<1>7. CASE /\ Lines(es) = << e >> /\ HasAssistant(es) /\ flushed
           /\ sessionFile \in DOMAIN disk
  <2>1. << e >> # << >> /\ fileEntries \o << e >> = es
    BY <1>1, AppendIsConcat
  <2>2. Stored(sessionFile) = fileEntries
    BY <1>2, <1>7 DEF Stored
  <2>3. sessionFile \in DOMAIN disk' /\ disk'[sessionFile] = es
    BY <1>4, <1>7, <2>1, <2>2 DEF Puts
  <2> QED BY <1>3, <1>7, <2>3
<1>8. CASE Lines(es) = es /\ HasAssistant(es) /\ ~flushed
  <2>1. Stored(sessionFile) \o es = es
    BY <1>1, <1>2, <1>8, ConcatEmptySeq DEF Stored
  <2> HIDE DEF es
  <2>2. es # << >>
    BY <1>1
  <2>3. sessionFile \in DOMAIN disk' /\ disk'[sessionFile] = es
    BY <1>4, <1>8, <2>1, <2>2 DEF Puts
  <2> QED BY <1>3, <1>8, <2>3 DEF es
<1> QED BY <1>6, <1>7, <1>8, LinesAre
-----------------------------------------------------------------------------
LEMMA InitInv ==
    ASSUME Init
    PROVE  Inv
<1>1. /\ fileEntries = << Header >> /\ nextId = 1 /\ leafId = 0 /\ labelsById = << >>
      /\ flushed = FALSE /\ up = TRUE
      /\ torn \subseteq Files /\ sessionFile \in Files /\ sessionFile \notin torn
      /\ DOMAIN disk = torn /\ \A f \in torn : disk[f] = << >>
  BY DEF Init
<1>2. Session(fileEntries, nextId)
  BY <1>1, StartedSession
<1>3. \A t : ~(t \in ToSet(labelsById)) /\ ~Marked(fileEntries, Len(fileEntries), t)
  <2>1. \A i \in 1 .. Len(fileEntries) : fileEntries[i] = Header
    BY <1>1
  <2>2. \A t : ~Marked(fileEntries, Len(fileEntries), t)
    BY <2>1 DEF Marked, Header
  <2>3. \A t : ~(t \in ToSet(labelsById))
    BY <1>1 DEF ToSet
  <2> QED BY <2>2, <2>3
<1>4. labelsById \in Seq(Nat)
  BY <1>1
<1>5. TypeInv
  <2>1. \A t : t \in ToSet(labelsById) <=> Marked(fileEntries, Len(fileEntries), t)
    BY <1>3
  <2>2. \A f \in DOMAIN disk : disk[f] = << >> \/ Session(disk[f], nextId)
    BY <1>1
  <2>3. /\ leafId \in Ids(fileEntries) \cup {0} /\ flushed \in BOOLEAN /\ up \in BOOLEAN
        /\ nextId \in Nat \ {0} /\ DOMAIN disk \subseteq Files
        /\ sessionFile \in Files /\ torn \subseteq Files
    <3>1. 1 \in Nat \ {0}
      OBVIOUS
    <3>2. DOMAIN disk \subseteq Files /\ sessionFile \in Files /\ torn \subseteq Files
      BY <1>1
    <3>3. leafId \in Ids(fileEntries) \cup {0}
      BY <1>1
    <3> QED BY <1>1, <3>1, <3>2, <3>3
  <2> QED BY <1>2, <1>4, <2>1, <2>2, <2>3 DEF TypeInv
<1>6. ~HasAssistant(fileEntries) /\ Distinct(fileEntries)
  BY <1>1 DEF HasAssistant, Distinct, Header
<1>7. KeptInv
  <2>1. SubSeq(fileEntries, 1, 0) = << >> /\ 0 \in 0 .. Len(fileEntries)
    BY <1>1, SubSeqEmpty
  <2> QED BY <1>1, <1>6, <2>1 DEF KeptInv, Stored
<1>8. WholeInv
  BY <1>1, <1>6 DEF WholeInv
<1> QED BY <1>5, <1>7, <1>8 DEF Inv

(* The five appends.                                                       *)
Appends(e) ==
    /\ Fits(e, fileEntries, nextId)
    /\ up
    /\ fileEntries' = Append(fileEntries, e)
    /\ leafId' = e.id
    /\ nextId' = nextId + 1
    /\ labelsById' = Relabelled(labelsById, e)
    /\ disk' = Written(sessionFile, Lines(Append(fileEntries, e)))
    /\ flushed' = HasAssistant(Append(fileEntries, e))
    /\ UNCHANGED <<sessionFile, up, torn>>

LEMMA MarkedAppend ==
    ASSUME NEW es \in Seq(Entry), NEW e \in Entry, NEW t
    PROVE  Marked(Append(es, e), Len(Append(es, e)), t) <=>
             \/ e.type = "label" /\ e.ref = t
             \/ ~(e.type = "unlabel" /\ e.ref = t) /\ Marked(es, Len(es), t)
<1> DEFINE q == Append(es, e)
           n == Len(q)
<1>1. /\ n = Len(es) + 1 /\ Len(es) \in Nat /\ q[n] = e
      /\ \A i \in 1 .. Len(es) : q[i] = es[i]
  BY Appended
<1> HIDE DEF q
<1>2. n \in Nat \ {0} /\ n - 1 = Len(es)
  BY <1>1
<1>3. Marked(q, Len(es), t) <=> Marked(es, Len(es), t)
  <2>1. \A i \in 1 .. Len(es) : \A j \in i + 1 .. Len(es) : j \in 1 .. Len(es)
    BY <1>1
  <2>2. Marked(es, Len(es), t) => Marked(q, Len(es), t)
    BY <1>1, <2>1 DEF Marked
  <2>3. Marked(q, Len(es), t) => Marked(es, Len(es), t)
    BY <1>1, <2>1 DEF Marked
  <2> QED BY <2>2, <2>3
<1> HIDE DEF n
<1>4. Marked(q, n, t) <=>
        \/ q[n].type = "label" /\ q[n].ref = t
        \/ ~(q[n].type = "unlabel" /\ q[n].ref = t) /\ Marked(q, n - 1, t)
  BY <1>2, MarkedNext
<1>5. Marked(q, n, t) <=>
        \/ e.type = "label" /\ e.ref = t
        \/ ~(e.type = "unlabel" /\ e.ref = t) /\ Marked(es, Len(es), t)
  BY <1>1, <1>2, <1>3, <1>4
<1> QED BY <1>5 DEF n, q

LEMMA AppendsInv ==
    ASSUME Inv, NEW e, Appends(e)
    PROVE  Inv' /\ Grows
<1> DEFINE es == Append(fileEntries, e)
<1>1. /\ fileEntries \in Seq(Entry) /\ e \in Entry /\ es \in Seq(Entry)
      /\ Len(es) \in Nat /\ e.id \in Ids(es)
  <2>1. fileEntries \in Seq(Entry) /\ e \in Entry /\ IsEntry(e)
    BY DEF Inv, TypeInv, Session, Appends, Fits
  <2>2. /\ es \in Seq(Entry) /\ Len(fileEntries) \in Nat
        /\ Len(es) = Len(fileEntries) + 1 /\ es[Len(fileEntries) + 1] = e
    BY <2>1, Appended
  <2> HIDE DEF es
  <2>3. Len(fileEntries) + 1 \in 1 .. Len(es)
    BY <2>2
  <2> QED BY <2>1, <2>2, <2>3, IdsAre
<1>2. /\ nextId \in Nat \ {0} /\ Session(fileEntries, nextId) /\ labelsById \in Seq(Nat)
      /\ \A t : t \in ToSet(labelsById) <=> Marked(fileEntries, Len(fileEntries), t)
      /\ sessionFile \in Files /\ torn \subseteq Files
  BY DEF Inv, TypeInv
<1>3. /\ Fits(e, fileEntries, nextId) /\ up /\ up' = up
      /\ fileEntries' = es /\ leafId' = e.id /\ nextId' = nextId + 1
      /\ labelsById' = Relabelled(labelsById, e)
      /\ disk' = Written(sessionFile, Lines(es))
      /\ flushed' = HasAssistant(es) /\ sessionFile' = sessionFile /\ torn' = torn
  BY DEF Appends
<1>4. /\ DOMAIN disk' \subseteq Files
      /\ \A f \in DOMAIN disk' : disk'[f] = << >> \/ Session(disk'[f], nextId + 1)
      /\ Grows
      /\ \A f \in DOMAIN disk' : f # sessionFile => f \in DOMAIN disk /\ disk'[f] = disk[f]
  <2> DEFINE n == Len(Lines(es))
  <2>1. Lines(es) \in Seq(Entry)
    <3>1. << e >> \in Seq(Entry)
      BY <1>1
    <3> HIDE DEF es
    <3>2. << >> \in Seq(Entry)
      OBVIOUS
    <3> QED BY <1>1, <1>3, <3>1, <3>2, LinesAre DEF es
  <2> HIDE DEF es
  <2>2. n \in 0 .. n /\ SubSeq(Lines(es), 1, n) = Lines(es)
    BY <2>1, SubSeqFull
  <2>3. n \in 0 .. Len(Lines(es))
    BY <2>2
  <2>4. disk' = Written(sessionFile, SubSeq(Lines(es), 1, n))
    BY <1>3, <2>2
  <2> HIDE DEF n
  <2> QED BY <1>3, <2>3, <2>4, AppendWrites DEF es, Grows
<1>5. Session(es, nextId + 1)
  BY <1>2, <1>3, SessionAppend
<1>6. labelsById' \in Seq(Nat) /\ \A t : t \in ToSet(labelsById') <=> Marked(es, Len(es), t)
  <2>1. /\ labelsById' \in Seq(Nat)
        /\ \A t : t \in ToSet(labelsById') <=>
                    \/ e.type = "label" /\ e.ref = t
                    \/ ~(e.type = "unlabel" /\ e.ref = t) /\ t \in ToSet(labelsById)
    BY <1>1, <1>2, <1>3, RelabelledIs
  <2>2. \A t : Marked(es, Len(es), t) <=>
                    \/ e.type = "label" /\ e.ref = t
                    \/ ~(e.type = "unlabel" /\ e.ref = t)
                         /\ Marked(fileEntries, Len(fileEntries), t)
    BY <1>1, MarkedAppend
  <2> HIDE DEF es
  <2> QED BY <1>2, <2>1, <2>2
<1>7. TypeInv'
  <2>1. nextId + 1 \in Nat \ {0} /\ HasAssistant(es) \in BOOLEAN /\ up \in BOOLEAN
    BY <1>2 DEF HasAssistant, Inv, TypeInv
  <2> HIDE DEF es
  <2>2. Session(fileEntries', nextId') /\ leafId' \in Ids(fileEntries') \cup {0}
    BY <1>1, <1>3, <1>5
  <2>3. \A t : t \in ToSet(labelsById') <=> Marked(fileEntries', Len(fileEntries'), t)
    BY <1>3, <1>6
  <2>4. \A f \in DOMAIN disk' : disk'[f] = << >> \/ Session(disk'[f], nextId')
    BY <1>3, <1>4
  <2> QED BY <1>2, <1>3, <1>4, <1>6, <2>1, <2>2, <2>3, <2>4 DEF TypeInv
<1>8. KeptInv'
  <2>1. PICK k \in 0 .. Len(es) :
            IF HasAssistant(es)
            THEN sessionFile \in DOMAIN disk' /\ disk'[sessionFile] = SubSeq(es, 1, k) \o es
            ELSE disk' = disk /\ Stored(sessionFile) = SubSeq(es, 1, k)
    BY <1>3, AppendKeeps
  <2> HIDE DEF es
  <2>2. k \in 0 .. Len(fileEntries')
    BY <1>3
  <2>3. CASE HasAssistant(es)
    <3>1. flushed' = TRUE /\ sessionFile' \in DOMAIN disk'
          /\ disk'[sessionFile'] = SubSeq(fileEntries', 1, k) \o fileEntries'
          /\ HasAssistant(fileEntries')
      BY <1>3, <2>1, <2>3
    <3> QED BY <2>2, <3>1 DEF KeptInv
  <2>4. CASE ~HasAssistant(es)
    <3>1. Stored(sessionFile)' = Stored(sessionFile)
      BY <1>3, <2>1, <2>4 DEF Stored
    <3>2. flushed' = FALSE /\ ~HasAssistant(fileEntries')
          /\ Stored(sessionFile)' = SubSeq(fileEntries', 1, k)
      BY <1>3, <2>1, <2>4, <3>1
    <3> QED BY <2>2, <3>2 DEF KeptInv
  <2> QED BY <2>3, <2>4
<1>9. WholeInv'
  <2>1. ASSUME sessionFile \notin torn
        PROVE  /\ Distinct(es)
               /\ IF HasAssistant(es)
                  THEN sessionFile \in DOMAIN disk' /\ disk'[sessionFile] = es
                  ELSE sessionFile \notin DOMAIN disk'
    BY <1>3, <2>1, AppendWhole
  <2> HIDE DEF es
  <2>2. ASSUME NEW f \in DOMAIN disk' \ torn'
        PROVE  Distinct(disk'[f]) /\ HasAssistant(disk'[f])
    <3>1. CASE f = sessionFile
      BY <1>3, <2>1, <2>2, <3>1
    <3>2. CASE f # sessionFile
      BY <1>3, <1>4, <3>2 DEF Inv, WholeInv
    <3> QED BY <3>1, <3>2
  <2>3. ASSUME sessionFile' \notin torn'
        PROVE  /\ Distinct(fileEntries')
               /\ up' => IF flushed'
                         THEN /\ HasAssistant(fileEntries')
                              /\ sessionFile' \in DOMAIN disk'
                              /\ disk'[sessionFile'] = fileEntries'
                         ELSE sessionFile' \notin DOMAIN disk'
    BY <1>3, <2>1, <2>3
  <2> QED BY <2>2, <2>3 DEF WholeInv
<1> QED BY <1>4, <1>7, <1>8, <1>9 DEF Inv
-----------------------------------------------------------------------------
LEMMA CrashInv ==
    ASSUME Inv, NEW type \in Plain, CrashAppending(type)
    PROVE  Inv' /\ Grows
<1> DEFINE e == NewEntry(type, nextId, leafId, 0)
           es == Append(fileEntries, e)
           lines == Lines(es)
<1>1. Fits(e, fileEntries, nextId) /\ up
  <2>1. leafId \in Nat /\ nextId \in Nat /\ leafId \in Ids(fileEntries) \cup {0}
    <3>1. \A id \in Ids(fileEntries) : id \in Nat
      BY IdsAre DEF Inv, TypeInv, Session, Sound
    <3> QED BY <3>1 DEF Inv, TypeInv
  <2>2. type \in {"user", "assistant", "custom"}
    BY PlainAssumption
  <2> QED BY <2>1, <2>2
          DEF CrashAppending, NewEntry, Fits, Entry, EntryType, IsEntry, IsLabel, LabelType
<1>2. /\ nextId \in Nat \ {0} /\ sessionFile \in Files /\ torn \subseteq Files
      /\ fileEntries \in Seq(Entry)
  BY DEF Inv, TypeInv, Session
<1>3. PICK n \in 0 .. Len(lines) :
          /\ disk' = Written(sessionFile, SubSeq(lines, 1, n))
          /\ torn' = IF n \in 1 .. (Len(lines) - 1) THEN torn \cup {sessionFile} ELSE torn
  BY DEF CrashAppending
<1>4. /\ up' = FALSE /\ nextId' = nextId + 1 /\ flushed' = FALSE
      /\ fileEntries' = << Header >> /\ leafId' = 0 /\ labelsById' = << >>
      /\ sessionFile' = sessionFile
  BY DEF CrashAppending, Start
<1>5. /\ DOMAIN disk' \subseteq Files
      /\ \A f \in DOMAIN disk' : disk'[f] = << >> \/ Session(disk'[f], nextId + 1)
      /\ Grows
      /\ \A f \in DOMAIN disk' : f # sessionFile => f \in DOMAIN disk /\ disk'[f] = disk[f]
  <2> HIDE DEF e
  <2> QED BY <1>1, <1>3, AppendWrites DEF Grows
<1>6. TypeInv'
  <2>1. Session(fileEntries', nextId')
    <3>1. nextId + 1 \in Nat \ {0}
      BY <1>2
    <3> QED BY <1>4, <3>1, StartedSession
  <2>2. \A t : t \in ToSet(labelsById') <=> Marked(fileEntries', Len(fileEntries'), t)
    <3>1. \A i \in 1 .. Len(fileEntries') : fileEntries'[i] = Header
      BY <1>4
    <3>2. \A t : ~Marked(fileEntries', Len(fileEntries'), t)
      BY <3>1 DEF Marked, Header
    <3>3. \A t : ~(t \in ToSet(labelsById'))
      BY <1>4 DEF ToSet
    <3> QED BY <3>2, <3>3
  <2>3. \A f \in DOMAIN disk' : disk'[f] = << >> \/ Session(disk'[f], nextId')
    BY <1>4, <1>5
  <2>4. /\ leafId' \in Ids(fileEntries') \cup {0} /\ labelsById' \in Seq(Nat)
        /\ flushed' \in BOOLEAN /\ up' \in BOOLEAN /\ sessionFile' \in Files
        /\ nextId' \in Nat \ {0} /\ torn' \subseteq Files
    <3>1. torn' \subseteq Files
      <4>1. torn' = torn \/ torn' = torn \cup {sessionFile}
        BY <1>3
      <4> QED BY <1>2, <4>1
    <3>2. labelsById' \in Seq(Nat)
      BY <1>4
    <3>3. nextId' \in Nat \ {0}
      BY <1>2, <1>4
    <3> HIDE DEF e, es, lines
    <3> QED BY <1>2, <1>4, <3>1, <3>2, <3>3
  <2> QED BY <1>5, <2>1, <2>2, <2>3, <2>4 DEF TypeInv
<1>7. KeptInv'
  BY <1>4 DEF KeptInv
<1>8. WholeInv'
  <2>1. Distinct(fileEntries')
    BY <1>4 DEF Distinct
  <2>2. ASSUME NEW f \in DOMAIN disk' \ torn'
        PROVE  Distinct(disk'[f]) /\ HasAssistant(disk'[f])
    <3>1. CASE f # sessionFile
      <4>1. f \in DOMAIN disk \ torn /\ disk'[f] = disk[f]
        BY <1>3, <1>5, <2>2, <3>1
      <4> QED BY <4>1 DEF Inv, WholeInv
    <3>2. CASE f = sessionFile
      <4>1. sessionFile \notin torn /\ ~(n \in 1 .. (Len(lines) - 1))
        BY <1>3, <2>2, <3>2
      <4>2. CASE n = 0
        <5>1. disk' = disk
          BY <1>3, <4>2, SubSeqEmpty DEF Written
        <5> QED BY <2>2, <3>2, <4>1, <5>1 DEF Inv, WholeInv
      <4>3. CASE n # 0
        <5>1. lines \in Seq(Entry)
          <6>1. << e >> \in Seq(Entry) /\ es \in Seq(Entry) /\ << >> \in Seq(Entry)
            <7>1. e \in Entry
              BY <1>1 DEF Fits
            <7> HIDE DEF e
            <7> QED BY <1>2, <7>1
          <6> HIDE DEF e
          <6> QED BY <1>1, <6>1, LinesAre
        <5> HIDE DEF lines
        <5>2. n = Len(lines)
          BY <4>1, <4>3, <5>1
        <5>3. SubSeq(lines, 1, n) = lines
          BY <5>1, <5>2, SubSeqFull
        <5>4. disk' = Written(sessionFile, lines)
          BY <1>3, <5>3
        <5> HIDE DEF e
        <5>5. /\ Distinct(es)
              /\ IF HasAssistant(es)
                 THEN sessionFile \in DOMAIN disk' /\ disk'[sessionFile] = es
                 ELSE sessionFile \notin DOMAIN disk'
          BY <1>1, <4>1, <5>4, AppendWhole DEF lines
        <5> QED BY <2>2, <3>2, <5>5
      <4> QED BY <4>2, <4>3
    <3> QED BY <3>1, <3>2
  <2> QED BY <1>4, <2>1, <2>2 DEF WholeInv
<1> QED BY <1>5, <1>6, <1>7, <1>8 DEF Inv

LEMMA MoveInv ==
    ASSUME Inv, NEW id \in Ids(fileEntries) \cup {0}, MoveLeaf(id)
    PROVE  Inv' /\ Grows
<1>1. /\ leafId' = id
      /\ UNCHANGED <<fileEntries, labelsById, flushed, sessionFile, disk, up, nextId, torn>>
  BY DEF MoveLeaf
<1>2. TypeInv' /\ KeptInv' /\ WholeInv'
  BY <1>1 DEF Inv, TypeInv, KeptInv, WholeInv, Stored
<1>3. Grows
  <2>1. \A f \in DOMAIN disk : disk[f] \in Seq(Entry)
    <3> TAKE f \in DOMAIN disk
    <3>1. CASE disk[f] = << >>
      BY <3>1
    <3>2. CASE Session(disk[f], nextId)
      BY <3>2 DEF Session
    <3> QED BY <3>1, <3>2 DEF Inv, TypeInv
  <2> QED BY <1>1, <2>1, PrefixOfItself DEF Grows
<1> QED BY <1>2, <1>3 DEF Inv
-----------------------------------------------------------------------------
(* A session that is taken over: es, from a file or from a fork.           *)
LEMMA Adopted ==
    ASSUME nextId' \in Nat \ {0}, NEW es, Session(es, nextId'), NEW f \in Files, Adopt(es, f)
    PROVE  /\ fileEntries' = es /\ sessionFile' = f
           /\ Session(fileEntries', nextId')
           /\ leafId' \in Ids(fileEntries') \cup {0}
           /\ labelsById' \in Seq(Nat)
           /\ \A t : t \in ToSet(labelsById') <=> Marked(fileEntries', Len(fileEntries'), t)
<1>1. /\ fileEntries' = es /\ sessionFile' = f /\ leafId' = LastEntryId(es)
      /\ labelsById' = LabelsOf(es) /\ es \in Seq(Entry)
  BY DEF Adopt, Session
<1>2. LastEntryId(es) \in Ids(es) \cup {0}
  BY <1>1, LastEntryIs
<1>3. /\ LabelsOf(es) \in Seq(Nat)
      /\ \A t : t \in ToSet(LabelsOf(es)) <=> Marked(es, Len(es), t)
  BY <1>1, LabelsAre
<1> QED BY <1>1, <1>2, <1>3

LEMMA Started ==
    ASSUME nextId' \in Nat \ {0}, NEW f \in Files, Start(f)
    PROVE  /\ fileEntries' = << Header >> /\ sessionFile' = f
           /\ Session(fileEntries', nextId')
           /\ leafId' \in Ids(fileEntries') \cup {0}
           /\ labelsById' \in Seq(Nat)
           /\ \A t : t \in ToSet(labelsById') <=> Marked(fileEntries', Len(fileEntries'), t)
           /\ Distinct(fileEntries') /\ ~HasAssistant(fileEntries')
<1>1. /\ fileEntries' = << Header >> /\ sessionFile' = f /\ leafId' = 0
      /\ labelsById' = << >>
  BY DEF Start
<1>2. Session(fileEntries', nextId')
  BY <1>1, StartedSession
<1>3. \A i \in DOMAIN fileEntries' : i = 1 /\ fileEntries'[i] = Header
  BY <1>1
<1>4. \A t : t \in ToSet(labelsById') <=> Marked(fileEntries', Len(fileEntries'), t)
  <2>1. DOMAIN fileEntries' = 1 .. Len(fileEntries')
    BY <1>1
  <2>2. \A t : ~Marked(fileEntries', Len(fileEntries'), t)
    BY <1>3, <2>1 DEF Marked, Header
  <2>3. \A t : ~(t \in ToSet(labelsById'))
    BY <1>1 DEF ToSet
  <2> QED BY <2>2, <2>3
<1>5. Distinct(fileEntries') /\ ~HasAssistant(fileEntries')
  BY <1>1, <1>3 DEF Distinct, HasAssistant, Header
<1>6. labelsById' \in Seq(Nat)
  BY <1>1
<1> QED BY <1>1, <1>2, <1>4, <1>5, <1>6

LEMMA FilesLater ==
    ASSUME Inv, nextId' \in Nat, nextId <= nextId'
    PROVE  /\ \A f \in DOMAIN disk : /\ disk[f] \in Seq(Entry)
                                     /\ disk[f] = << >> \/ Session(disk[f], nextId')
           /\ disk' = disk => Grows
<1>1. \A f \in DOMAIN disk : disk[f] = << >> \/ Session(disk[f], nextId)
  BY DEF Inv, TypeInv
<1>2. nextId \in Nat
  BY DEF Inv, TypeInv
<1>3. ASSUME NEW f \in DOMAIN disk
      PROVE  /\ disk[f] \in Seq(Entry)
             /\ disk[f] = << >> \/ Session(disk[f], nextId')
  <2>1. CASE disk[f] = << >>
    BY <2>1
  <2>2. CASE Session(disk[f], nextId)
    <3>1. Session(disk[f], nextId')
      BY <1>2, <2>2, SessionLater
    <3> QED BY <3>1 DEF Session
  <2> QED BY <1>1, <2>1, <2>2
<1> QED BY <1>3, PrefixOfItself DEF Grows

(* A step that starts or takes over a session.  When there is a file for   *)
(* it, it holds exactly that session.                                      *)
Settles == /\ nextId' \in Nat \ {0} /\ nextId <= nextId'
           /\ sessionFile' \in Files
           /\ Session(fileEntries', nextId')
           /\ leafId' \in Ids(fileEntries') \cup {0}
           /\ labelsById' \in Seq(Nat)
           /\ \A t : t \in ToSet(labelsById') <=> Marked(fileEntries', Len(fileEntries'), t)
           /\ flushed' \in BOOLEAN /\ up' \in BOOLEAN /\ torn' \subseteq Files
           /\ IF flushed'
              THEN sessionFile' \in DOMAIN disk' /\ disk'[sessionFile'] = fileEntries'
              ELSE sessionFile' \notin DOMAIN disk' /\ ~HasAssistant(fileEntries')

(* It leaves the files alone, or puts the session in a file that has       *)
(* nothing in it.                                                          *)
Spares == \/ disk' = disk
          \/ /\ Puts(sessionFile', fileEntries')
             /\ sessionFile' \in DOMAIN disk => disk[sessionFile'] = << >>

(* Its file is whole, if any.                                              *)
StaysWhole == /\ torn' = torn \/ torn' = torn \cup {sessionFile'}
              /\ sessionFile' \notin torn' =>
                     /\ Distinct(fileEntries')
                     /\ flushed' => HasAssistant(fileEntries')

LEMMA SettlesInv ==
    ASSUME Inv, Settles, Spares, StaysWhole
    PROVE  Inv' /\ Grows
<1>1. /\ \A f \in DOMAIN disk : /\ disk[f] \in Seq(Entry)
                                /\ disk[f] = << >> \/ Session(disk[f], nextId')
      /\ disk' = disk => Grows
  BY FilesLater DEF Settles
<1>2. DOMAIN disk \subseteq Files
  BY DEF Inv, TypeInv
<1>3. fileEntries' \in Seq(Entry)
  BY DEF Settles, Session
<1>4. /\ DOMAIN disk' \subseteq Files
      /\ \A f \in DOMAIN disk' : disk'[f] = << >> \/ Session(disk'[f], nextId')
      /\ Grows
      /\ \A f \in DOMAIN disk' : f # sessionFile' => f \in DOMAIN disk /\ disk'[f] = disk[f]
  <2>1. CASE disk' = disk
    BY <1>1, <1>2, <2>1
  <2>2. CASE /\ Puts(sessionFile', fileEntries')
             /\ sessionFile' \in DOMAIN disk => disk[sessionFile'] = << >>
    <3>1. /\ DOMAIN disk' = DOMAIN disk \cup {sessionFile'}
          /\ disk'[sessionFile'] = fileEntries'
          /\ \A f \in DOMAIN disk : f # sessionFile' => disk'[f] = disk[f]
      BY <2>2 DEF Puts
    <3>2. Grows
      <4> SUFFICES ASSUME NEW f \in DOMAIN disk PROVE IsPrefix(disk[f], disk'[f])
        BY <3>1 DEF Grows
      <4>1. CASE f = sessionFile'
        BY <1>3, <2>2, <3>1, <4>1, EmptyPrefix
      <4>2. CASE f # sessionFile'
        BY <1>1, <3>1, <4>2, PrefixOfItself
      <4> QED BY <4>1, <4>2
    <3> QED BY <1>1, <1>2, <3>1, <3>2 DEF Settles
  <2> QED BY <2>1, <2>2 DEF Spares
<1>5. TypeInv'
  BY <1>4 DEF Settles, TypeInv
<1>6. KeptInv'
  <2>1. 0 \in 0 .. Len(fileEntries') /\ SubSeq(fileEntries', 1, 0) = << >>
    BY <1>3, SubSeqEmpty
  <2>2. << >> \o fileEntries' = fileEntries'
    BY <1>3, ConcatEmptySeq
  <2> QED BY <2>1, <2>2 DEF KeptInv, Settles, Stored
<1>7. WholeInv'
  <2>1. ASSUME NEW f \in DOMAIN disk' \ torn'
        PROVE  Distinct(disk'[f]) /\ HasAssistant(disk'[f])
    <3>1. CASE f = sessionFile'
      BY <2>1, <3>1 DEF Settles, StaysWhole
    <3>2. CASE f # sessionFile'
      <4>1. f \in DOMAIN disk \ torn /\ disk'[f] = disk[f]
        BY <1>4, <2>1, <3>2 DEF StaysWhole
      <4> QED BY <4>1 DEF Inv, WholeInv
    <3> QED BY <3>1, <3>2
  <2> QED BY <2>1 DEF WholeInv, Settles, StaysWhole
<1> QED BY <1>4, <1>5, <1>6, <1>7 DEF Inv

LEMMA ForkInv ==
    ASSUME Inv, NEW node \in Ids(fileEntries), NEW f \in Fresh, CreateBranchedSession(node, f)
    PROVE  Inv' /\ Grows
<1> DEFINE b == Branch(fileEntries, node)
           es == << Header >> \o WithoutLabels(b) \o LabelsRewritten(b)
           m == nextId + Len(LabelsRewritten(b))
<1>1. /\ up /\ Adopt(es, f) /\ nextId' = m
      /\ disk' = IF HasAssistant(es) THEN Saved(f, es) ELSE disk
      /\ flushed' = HasAssistant(es) /\ up' = up /\ torn' = torn
  BY DEF CreateBranchedSession
<1>2. /\ nextId \in Nat \ {0} /\ Session(fileEntries, nextId) /\ labelsById \in Seq(Nat)
      /\ torn \subseteq Files /\ f \in Files /\ f \notin DOMAIN disk
  BY DEF Inv, TypeInv, Fresh
<1>3. node \in Nat
  BY <1>2, IdsAre DEF Session, Sound
<1>4. Len(LabelsRewritten(b)) \in Nat /\ Session(es, m) /\ Distinct(es)
  BY <1>2, <1>3, ForkedSession
<1> HIDE DEF es
<1>5. nextId' \in Nat \ {0} /\ nextId <= nextId' /\ Session(es, nextId')
  BY <1>1, <1>2, <1>4
<1>6. /\ fileEntries' = es /\ sessionFile' = f
      /\ Session(fileEntries', nextId')
      /\ leafId' \in Ids(fileEntries') \cup {0}
      /\ labelsById' \in Seq(Nat)
      /\ \A t : t \in ToSet(labelsById') <=> Marked(fileEntries', Len(fileEntries'), t)
  BY <1>1, <1>2, <1>5, Adopted
<1>7. IF HasAssistant(es) THEN Puts(f, es) ELSE disk' = disk
  BY <1>1, SavedIs
<1>8. Settles
  <2>1. flushed' \in BOOLEAN /\ up' \in BOOLEAN
    BY <1>1 DEF HasAssistant, Inv, TypeInv
  <2>2. IF flushed'
        THEN sessionFile' \in DOMAIN disk' /\ disk'[sessionFile'] = fileEntries'
        ELSE sessionFile' \notin DOMAIN disk' /\ ~HasAssistant(fileEntries')
    <3>1. CASE HasAssistant(es)
      BY <1>1, <1>6, <1>7, <3>1 DEF Puts
    <3>2. CASE ~HasAssistant(es)
      BY <1>1, <1>2, <1>6, <1>7, <3>2
    <3> QED BY <3>1, <3>2
  <2> QED BY <1>1, <1>2, <1>5, <1>6, <2>1, <2>2 DEF Settles
<1>9. Spares
  BY <1>2, <1>6, <1>7 DEF Spares
<1>10. StaysWhole
  BY <1>1, <1>4, <1>6 DEF StaysWhole
<1> QED BY <1>8, <1>9, <1>10, SettlesInv

LEMMA ForkFromInv ==
    ASSUME Inv, NEW source \in Files, NEW f \in Fresh, ForkFrom(source, f)
    PROVE  Inv' /\ Grows
<1> DEFINE old == disk[source]
           es == CopyOf(old)
<1>1. source \in DOMAIN disk /\ Loaded(old) # << >>
  BY DEF ForkFrom
<1>2. /\ nextId \in Nat \ {0} /\ torn \subseteq Files /\ f \in Files /\ f \notin DOMAIN disk
      /\ old = << >> \/ Session(old, nextId)
  BY <1>1 DEF Inv, TypeInv, Fresh
<1>3. Session(old, nextId)
  BY <1>1, <1>2 DEF Loaded
<1>4. Loaded(old) = old
  BY <1>3, LoadedIs
<1>5. /\ disk' = Saved(f, es) /\ Adopt(es, f)
      /\ torn' = IF source \in torn THEN torn \cup {f} ELSE torn
      /\ flushed' = TRUE /\ up' = TRUE /\ nextId' = nextId
  BY <1>4 DEF ForkFrom
<1>6. /\ Session(es, nextId)
      /\ Distinct(old) => Distinct(es)
      /\ HasAssistant(old) => HasAssistant(es)
  BY <1>2, <1>3, CopiedSession DEF CopyOf
<1> HIDE DEF es, old
<1>7. /\ fileEntries' = es /\ sessionFile' = f
      /\ Session(fileEntries', nextId')
      /\ leafId' \in Ids(fileEntries') \cup {0}
      /\ labelsById' \in Seq(Nat)
      /\ \A t : t \in ToSet(labelsById') <=> Marked(fileEntries', Len(fileEntries'), t)
  BY <1>2, <1>5, <1>6, Adopted
<1>8. Puts(f, es)
  BY <1>5, SavedIs
<1>9. Settles
  <2>1. sessionFile' \in DOMAIN disk' /\ disk'[sessionFile'] = fileEntries'
    BY <1>7, <1>8 DEF Puts
  <2>2. torn' \subseteq Files /\ nextId' \in Nat \ {0} /\ nextId <= nextId'
    BY <1>2, <1>5
  <2> QED BY <1>2, <1>5, <1>7, <2>1, <2>2 DEF Settles
<1>10. Spares
  BY <1>2, <1>7, <1>8 DEF Spares
<1>11. StaysWhole
  <2>1. ASSUME f \notin torn' PROVE Distinct(es) /\ HasAssistant(es)
    <3>1. source \in DOMAIN disk \ torn
      BY <1>1, <1>5, <2>1
    <3>2. Distinct(old) /\ HasAssistant(old)
      BY <3>1 DEF Inv, WholeInv, old
    <3> QED BY <1>6, <3>2
  <2> QED BY <1>5, <1>7, <2>1 DEF StaysWhole
<1> QED BY <1>9, <1>10, <1>11, SettlesInv

(* A copy that is cut short is the beginning of one.                       *)
LEMMA CrashForkInv ==
    ASSUME Inv, NEW source \in Files, NEW f \in Fresh, CrashForking(source, f)
    PROVE  Inv' /\ Grows
<1> DEFINE old == disk[source]
           es == CopyOf(old)
<1>1. source \in DOMAIN disk /\ Loaded(old) # << >>
  BY DEF CrashForking
<1>2. /\ nextId \in Nat \ {0} /\ torn \subseteq Files /\ f \in Files /\ f \notin DOMAIN disk
      /\ old = << >> \/ Session(old, nextId)
      /\ DOMAIN disk \subseteq Files /\ sessionFile \in Files /\ f # sessionFile
  BY <1>1 DEF Inv, TypeInv, Fresh
<1>3. Session(old, nextId)
  BY <1>1, <1>2 DEF Loaded
<1>4. Loaded(old) = old
  BY <1>3, LoadedIs
<1>5. /\ up' = FALSE /\ nextId' = nextId /\ flushed' = FALSE /\ Start(sessionFile)
  BY DEF CrashForking
<1>6. PICK n \in 1 .. Len(es) :
          /\ disk' = Saved(f, SubSeq(es, 1, n))
          /\ torn' = IF n < Len(es) \/ source \in torn THEN torn \cup {f} ELSE torn
  BY <1>4 DEF CrashForking
<1>7. /\ Session(es, nextId)
      /\ Distinct(old) => Distinct(es)
      /\ HasAssistant(old) => HasAssistant(es)
  BY <1>2, <1>3, CopiedSession DEF CopyOf
<1> HIDE DEF es, old
<1>8. /\ fileEntries' = << Header >> /\ sessionFile' = sessionFile
      /\ Session(fileEntries', nextId')
      /\ leafId' \in Ids(fileEntries') \cup {0}
      /\ labelsById' \in Seq(Nat)
      /\ \A t : t \in ToSet(labelsById') <=> Marked(fileEntries', Len(fileEntries'), t)
      /\ Distinct(fileEntries')
  BY <1>2, <1>5, Started
<1>9. /\ DOMAIN disk' = DOMAIN disk \cup {f} /\ disk'[f] = SubSeq(es, 1, n)
      /\ \A g \in DOMAIN disk : disk'[g] = disk[g]
  BY <1>2, <1>6, SavedIs DEF Puts
<1>10. Session(SubSeq(es, 1, n), nextId)
  BY <1>2, <1>7, SessionPrefix
<1>11. /\ \A g \in DOMAIN disk : /\ disk[g] \in Seq(Entry)
                                 /\ disk[g] = << >> \/ Session(disk[g], nextId)
  BY <1>2, <1>5, FilesLater
<1>12. torn' \subseteq Files /\ torn \subseteq torn'
  BY <1>2, <1>6
<1>13. TypeInv'
  BY <1>2, <1>5, <1>8, <1>9, <1>10, <1>11, <1>12 DEF TypeInv
<1>14. KeptInv'
  BY <1>5 DEF KeptInv
<1>15. ASSUME NEW g \in DOMAIN disk' \ torn'
       PROVE  Distinct(disk'[g]) /\ HasAssistant(disk'[g])
  <2>1. CASE g = f
    <3>1. n = Len(es) /\ source \in DOMAIN disk \ torn
      BY <1>1, <1>6, <1>15, <2>1
    <3>2. Distinct(old) /\ HasAssistant(old)
      BY <3>1 DEF Inv, WholeInv, old
    <3>3. SubSeq(es, 1, n) = es
      BY <1>7, <3>1, SubSeqFull DEF Session
    <3> QED BY <1>7, <1>9, <2>1, <3>2, <3>3
  <2>2. CASE g # f
    <3>1. g \in DOMAIN disk \ torn /\ disk'[g] = disk[g]
      BY <1>9, <1>12, <1>15, <2>2
    <3> QED BY <3>1 DEF Inv, WholeInv
  <2> QED BY <2>1, <2>2
<1>16. WholeInv'
  BY <1>5, <1>8, <1>15 DEF WholeInv
<1>17. Grows
  BY <1>9, <1>11, PrefixOfItself DEF Grows
<1> QED BY <1>13, <1>14, <1>16, <1>17 DEF Inv

LEMMA NewInv ==
    ASSUME Inv, NEW f \in Fresh, NewSession(f)
    PROVE  Inv' /\ Grows
<1>1. /\ Start(f) /\ flushed' = FALSE /\ up' = TRUE
      /\ disk' = disk /\ nextId' = nextId /\ torn' = torn
  BY DEF NewSession
<1>2. /\ nextId \in Nat \ {0} /\ torn \subseteq Files /\ f \in Files /\ f \notin DOMAIN disk
  BY DEF Inv, TypeInv, Fresh
<1>3. /\ fileEntries' = << Header >> /\ sessionFile' = f
      /\ Session(fileEntries', nextId')
      /\ leafId' \in Ids(fileEntries') \cup {0}
      /\ labelsById' \in Seq(Nat)
      /\ \A t : t \in ToSet(labelsById') <=> Marked(fileEntries', Len(fileEntries'), t)
      /\ Distinct(fileEntries') /\ ~HasAssistant(fileEntries')
  BY <1>1, <1>2, Started
<1>4. Settles
  <2>1. /\ nextId' \in Nat \ {0} /\ nextId <= nextId' /\ torn' \subseteq Files
        /\ flushed' \in BOOLEAN /\ up' \in BOOLEAN /\ flushed' = FALSE
        /\ sessionFile' \in Files /\ sessionFile' \notin DOMAIN disk'
    <3>1. sessionFile' = f /\ f \notin DOMAIN disk /\ disk' = disk
      BY <1>1, <1>2, <1>3
    <3>2. nextId' \in Nat \ {0} /\ nextId <= nextId'
      BY <1>1, <1>2
    <3> QED BY <1>1, <1>2, <3>1, <3>2
  <2> QED BY <1>3, <2>1 DEF Settles
<1>5. Spares /\ StaysWhole
  BY <1>1, <1>3 DEF Spares, StaysWhole
<1> QED BY <1>4, <1>5, SettlesInv

LEMMA OpenInv ==
    ASSUME Inv, NEW f \in Files, Open(f)
    PROVE  Inv' /\ Grows
<1>1. up' = TRUE /\ nextId' = nextId /\ torn' = torn
  BY DEF Open
<1>2. nextId \in Nat \ {0} /\ torn \subseteq Files
  BY DEF Inv, TypeInv
<1>3. CASE f \notin DOMAIN disk /\ Start(f) /\ flushed' = FALSE /\ disk' = disk
  <2>1. /\ fileEntries' = << Header >> /\ sessionFile' = f
        /\ Session(fileEntries', nextId')
        /\ leafId' \in Ids(fileEntries') \cup {0}
        /\ labelsById' \in Seq(Nat)
        /\ \A t : t \in ToSet(labelsById') <=> Marked(fileEntries', Len(fileEntries'), t)
        /\ Distinct(fileEntries') /\ ~HasAssistant(fileEntries')
    BY <1>1, <1>2, <1>3, Started
  <2>2. Settles
    <3>1. /\ nextId' \in Nat \ {0} /\ nextId <= nextId' /\ torn' \subseteq Files
          /\ flushed' \in BOOLEAN /\ up' \in BOOLEAN /\ flushed' = FALSE
          /\ sessionFile' \in Files /\ sessionFile' \notin DOMAIN disk'
      <4>1. sessionFile' = f /\ f \notin DOMAIN disk /\ disk' = disk
        BY <1>3, <2>1
      <4>2. nextId' \in Nat \ {0} /\ nextId <= nextId'
        BY <1>1, <1>2
      <4> QED BY <1>1, <1>2, <1>3, <4>1, <4>2
    <3> QED BY <2>1, <3>1 DEF Settles
  <2>3. Spares /\ StaysWhole
    BY <1>1, <1>3, <2>1 DEF Spares, StaysWhole
  <2> QED BY <2>2, <2>3, SettlesInv
<1>4. CASE /\ f \in DOMAIN disk /\ Loaded(disk[f]) # << >>
           /\ Adopt(Loaded(disk[f]), f) /\ flushed' = TRUE /\ disk' = disk
  <2> DEFINE es == disk[f]
  <2>1. es = << >> \/ Session(es, nextId)
    BY <1>4 DEF Inv, TypeInv
  <2>2. Session(es, nextId)
    BY <1>4, <2>1 DEF Loaded
  <2>3. Adopt(es, f)
    BY <1>4, <2>2, LoadedIs
  <2> HIDE DEF es
  <2>4. /\ fileEntries' = es /\ sessionFile' = f
        /\ Session(fileEntries', nextId')
        /\ leafId' \in Ids(fileEntries') \cup {0}
        /\ labelsById' \in Seq(Nat)
        /\ \A t : t \in ToSet(labelsById') <=> Marked(fileEntries', Len(fileEntries'), t)
    BY <1>1, <1>2, <2>2, <2>3, Adopted
  <2>5. Settles
    BY <1>1, <1>2, <1>4, <2>4 DEF Settles, es
  <2>6. Spares
    BY <1>4 DEF Spares
  <2>7. StaysWhole
    <3>1. f \notin torn => Distinct(es) /\ HasAssistant(es)
      BY <1>4 DEF Inv, WholeInv, es
    <3> QED BY <1>1, <2>4, <3>1 DEF StaysWhole
  <2> QED BY <2>5, <2>6, <2>7, SettlesInv
<1>5. CASE /\ f \in DOMAIN disk /\ Loaded(disk[f]) = << >>
           /\ Start(f) /\ flushed' = TRUE /\ disk' = Saved(f, << Header >>)
  <2>1. /\ fileEntries' = << Header >> /\ sessionFile' = f
        /\ Session(fileEntries', nextId')
        /\ leafId' \in Ids(fileEntries') \cup {0}
        /\ labelsById' \in Seq(Nat)
        /\ \A t : t \in ToSet(labelsById') <=> Marked(fileEntries', Len(fileEntries'), t)
        /\ Distinct(fileEntries') /\ ~HasAssistant(fileEntries')
    BY <1>1, <1>2, <1>5, Started
  <2>2. disk[f] = << >>
    <3>1. disk[f] = << >> \/ Session(disk[f], nextId)
      BY <1>5 DEF Inv, TypeInv
    <3>2. ~Session(disk[f], nextId)
      <4> SUFFICES ASSUME Session(disk[f], nextId) PROVE FALSE
        OBVIOUS
      <4>1. Loaded(disk[f]) = disk[f] /\ disk[f] # << >>
        BY LoadedIs DEF Session
      <4> QED BY <1>5, <4>1
    <3> QED BY <3>1, <3>2
  <2>3. f \in torn
    <3>1. ~HasAssistant(disk[f])
      BY <2>2 DEF HasAssistant
    <3> QED BY <1>5, <3>1 DEF Inv, WholeInv
  <2>4. Puts(f, << Header >>)
    BY <1>5, SavedIs
  <2>5. Settles
    <3>1. sessionFile' \in DOMAIN disk' /\ disk'[sessionFile'] = fileEntries'
      BY <2>1, <2>4 DEF Puts
    <3> QED BY <1>1, <1>2, <1>5, <2>1, <3>1 DEF Settles
  <2>6. Spares /\ StaysWhole
    BY <1>1, <2>1, <2>2, <2>3, <2>4 DEF Spares, StaysWhole
  <2> QED BY <2>5, <2>6, SettlesInv
<1> QED BY <1>3, <1>4, <1>5 DEF Open
-----------------------------------------------------------------------------
(* Each append makes an entry that fits.                                   *)
LEMMA AppendsAre ==
    ASSUME Inv, NEW type \in EntryType, NEW parent \in Ids(fileEntries) \cup {0},
           NEW ref \in Ids(fileEntries) \cup {0},
           type \in LabelType => ref \in Ids(fileEntries),
           AppendEntry(type, parent, ref),
           labelsById' = Relabelled(labelsById, NewEntry(type, nextId, parent, ref))
    PROVE  \E e : Appends(e)
<1> DEFINE e == NewEntry(type, nextId, parent, ref)
<1>1. parent \in Nat /\ ref \in Nat /\ nextId \in Nat
  <2>1. \A id \in Ids(fileEntries) : id \in Nat
    BY IdsAre DEF Inv, TypeInv, Session, Sound
  <2> QED BY <2>1 DEF Inv, TypeInv
<1>2. Fits(e, fileEntries, nextId)
  <2>1. e \in Entry /\ IsEntry(e)
    BY <1>1 DEF NewEntry, Entry, IsEntry, EntryType, LabelType
  <2>2. e.id = nextId /\ e.parent = parent /\ e.ref = ref /\ e.type = type
    BY DEF NewEntry
  <2> HIDE DEF e
  <2> QED BY <2>1, <2>2 DEF Fits, IsLabel
<1>3. /\ up /\ fileEntries' = Append(fileEntries, e)
      /\ leafId' = e.id /\ nextId' = nextId + 1
      /\ disk' = Written(sessionFile, Lines(Append(fileEntries, e)))
      /\ flushed' = HasAssistant(Append(fileEntries, e))
      /\ UNCHANGED <<sessionFile, up, torn>>
  BY DEF AppendEntry
<1>4. Appends(e)
  BY <1>2, <1>3 DEF Appends
<1> QED BY <1>4

LEMMA NextInv ==
    ASSUME Inv, Next
    PROVE  Inv' /\ Grows
<1>1. leafId \in Ids(fileEntries) \cup {0} /\ 0 \in Ids(fileEntries) \cup {0}
  BY DEF Inv, TypeInv
<1>2. ASSUME NEW type \in Plain, AppendPlain(type) PROVE \E e : Appends(e)
  <2>1. type \in {"user", "assistant", "custom"}
    BY PlainAssumption
  <2>2. type \in EntryType /\ ~(type \in LabelType)
    BY <2>1 DEF EntryType, LabelType
  <2>3. AppendEntry(type, leafId, 0) /\ labelsById' = labelsById
    BY <1>2 DEF AppendPlain
  <2>4. Relabelled(labelsById, NewEntry(type, nextId, leafId, 0)) = labelsById
    BY <2>1 DEF Relabelled, NewEntry
  <2> QED BY <1>1, <2>2, <2>3, <2>4, AppendsAre
<1>3. ASSUME NEW type \in Plain, CrashAppending(type) PROVE Inv' /\ Grows
  BY <1>3, CrashInv
<1>4. ASSUME NEW id \in Ids(fileEntries), AppendCompaction(id) PROVE \E e : Appends(e)
  <2>1. "compaction" \in EntryType /\ ~("compaction" \in LabelType)
    BY DEF EntryType, LabelType
  <2>2. AppendEntry("compaction", leafId, id) /\ labelsById' = labelsById
    BY <1>4 DEF AppendCompaction
  <2>3. Relabelled(labelsById, NewEntry("compaction", nextId, leafId, id)) = labelsById
    BY DEF Relabelled, NewEntry
  <2> QED BY <1>1, <2>1, <2>2, <2>3, AppendsAre
<1>5. ASSUME NEW id \in Ids(fileEntries), NEW type \in LabelType, AppendLabelChange(id, type)
      PROVE  \E e : Appends(e)
  <2>1. type \in EntryType
    BY DEF EntryType
  <2>2. /\ AppendEntry(type, leafId, id)
        /\ labelsById' = IF type = "label" THEN Labelled(labelsById, id)
                         ELSE Unlabelled(labelsById, id)
    BY <1>5 DEF AppendLabelChange
  <2>3. labelsById' = Relabelled(labelsById, NewEntry(type, nextId, leafId, id))
    BY <2>2 DEF Relabelled, NewEntry, LabelType
  <2> QED BY <1>1, <2>1, <2>2, <2>3, AppendsAre
<1>6. ASSUME NEW id \in Ids(fileEntries) \cup {0}, MoveLeaf(id) PROVE Inv' /\ Grows
  BY <1>6, MoveInv
<1>7. ASSUME NEW id \in Ids(fileEntries) \cup {0}, BranchWithSummary(id)
      PROVE  \E e : Appends(e)
  <2>1. "summary" \in EntryType /\ ~("summary" \in LabelType)
    BY DEF EntryType, LabelType
  <2>2. AppendEntry("summary", id, id) /\ labelsById' = labelsById
    BY <1>7 DEF BranchWithSummary
  <2>3. Relabelled(labelsById, NewEntry("summary", nextId, id, id)) = labelsById
    BY DEF Relabelled, NewEntry
  <2> QED BY <2>1, <2>2, <2>3, AppendsAre
<1>8. ASSUME NEW id \in Ids(fileEntries), NEW f \in Fresh, CreateBranchedSession(id, f)
      PROVE  Inv' /\ Grows
  BY <1>8, ForkInv
<1>9. ASSUME NEW f \in Fresh, NewSession(f) PROVE Inv' /\ Grows
  BY <1>9, NewInv
<1>10. ASSUME NEW f \in Files, Open(f) PROVE Inv' /\ Grows
  BY <1>10, OpenInv
<1>11. ASSUME NEW source \in Files, NEW f \in Fresh, ForkFrom(source, f)
       PROVE  Inv' /\ Grows
  BY <1>11, ForkFromInv
<1>12. ASSUME NEW e, Appends(e) PROVE Inv' /\ Grows
  BY <1>12, AppendsInv
<1>13. ASSUME NEW source \in Files, NEW f \in Fresh, CrashForking(source, f)
       PROVE  Inv' /\ Grows
  BY <1>13, CrashForkInv
<1> QED BY <1>2, <1>3, <1>4, <1>5, <1>6, <1>7, <1>8, <1>9, <1>10, <1>11, <1>12, <1>13
        DEF Next

LEMMA StutterInv ==
    ASSUME Inv, UNCHANGED vars
    PROVE  Inv'
  BY DEF Inv, TypeInv, KeptInv, WholeInv, Stored, vars, memory

(* Nothing a session or a file has gets out of shape: in particular, the   *)
(* labels name entries that are there, and the leaf is one of them.        *)
LEMMA InvHolds == Spec => []Inv
<1>1. Init => Inv
  BY InitInv
<1>2. Inv /\ [Next]_vars => Inv'
  BY NextInv, StutterInv
<1> QED BY <1>1, <1>2, PTL DEF Spec

(* The fields keep their types: labels, above all, name entries that are   *)
(* there.                                                                  *)
THEOREM TypesHold == Spec => []TypeOK
<1>1. Inv => TypeOK
  <2> SUFFICES ASSUME Inv PROVE TypeOK
    OBVIOUS
  <2>1. fileEntries \in Seq(Entry) /\ \A f \in DOMAIN disk : disk[f] \in Seq(Entry)
    <3>1. nextId \in Nat /\ \A f \in DOMAIN disk : disk[f] = << >> \/ Session(disk[f], nextId)
      BY DEF Inv, TypeInv
    <3>2. ASSUME NEW f \in DOMAIN disk PROVE disk[f] \in Seq(Entry)
      <4>1. CASE disk[f] = << >>
        BY <4>1
      <4>2. CASE Session(disk[f], nextId)
        BY <4>2 DEF Session
      <4> QED BY <3>1, <4>1, <4>2
    <3> QED BY <3>2 DEF Inv, TypeInv, Session
  <2>2. labelsById \in Seq(Ids(fileEntries))
    <3>1. /\ labelsById \in Seq(Nat)
          /\ \A t : t \in ToSet(labelsById) <=> Marked(fileEntries, Len(fileEntries), t)
      BY DEF Inv, TypeInv
    <3>2. ASSUME NEW i \in 1 .. Len(labelsById) PROVE labelsById[i] \in Ids(fileEntries)
      <4>1. labelsById[i] \in ToSet(labelsById)
        BY <3>1 DEF ToSet
      <4>2. PICK k \in 1 .. Len(fileEntries) :
                /\ fileEntries[k].type = "label" /\ fileEntries[k].ref = labelsById[i]
        BY <3>1, <4>1 DEF Marked
      <4>3. PICK j \in 1 .. k - 1 :
                IsEntry(fileEntries[j]) /\ fileEntries[j].id = labelsById[i]
        BY <4>2 DEF Inv, TypeInv, Session, Sound, IsLabel, LabelType
      <4>4. j \in 1 .. Len(fileEntries)
        BY <2>1
      <4> QED BY <2>1, <4>3, <4>4, IdsAre
    <3> QED BY <3>1, <3>2
  <2> QED BY <2>1, <2>2 DEF Inv, TypeInv, TypeOK
<1> QED BY <1>1, InvHolds, PTL

(* Once the assistant has answered, the file of a session that is alive    *)
(* rebuilds its tree and its labels, whatever crashes, forks and empty     *)
(* files came before: _persist, createBranchedSession and setSessionFile.  *)
THEOREM SessionsAreDurable == Spec => []Durable
<1>1. Inv => Durable
  <2> SUFFICES ASSUME Inv, up, HasAssistant(fileEntries)
               PROVE  /\ sessionFile \in DOMAIN disk
                      /\ Tree(Loaded(disk[sessionFile])) = Tree(fileEntries)
                      /\ ToSet(LabelsOf(Loaded(disk[sessionFile]))) = ToSet(labelsById)
    BY DEF Durable
  <2>1. PICK k \in 0 .. Len(fileEntries) :
            /\ sessionFile \in DOMAIN disk
            /\ disk[sessionFile] = SubSeq(fileEntries, 1, k) \o fileEntries
    BY DEF Inv, KeptInv
  <2>2. fileEntries \in Seq(Entry) /\ Len(fileEntries) \in Nat /\ fileEntries # << >>
    BY DEF Inv, TypeInv, Session
  <2> DEFINE lines == disk[sessionFile]
             p == SubSeq(fileEntries, 1, k)
  <2>3. p \in Seq(Entry) /\ Len(p) = k
    BY <2>2, BeginningIs
  <2>4. lines # << >> /\ Len(lines) = k + Len(fileEntries)
    <3> HIDE DEF p
    <3> QED BY <2>1, <2>2, <2>3 DEF p
  <2>5. Session(lines, nextId) /\ lines \in Seq(Entry)
    BY <2>1, <2>4 DEF Inv, TypeInv, Session
  <2>6. Loaded(lines) = lines
    BY <2>5, LoadedIs
  <2>7. Tree(lines) = Tree(fileEntries)
    BY <2>1, <2>2, TwiceSameTree
  <2>8. ASSUME NEW t PROVE t \in ToSet(LabelsOf(lines)) <=> t \in ToSet(labelsById)
    <3>1. t \in ToSet(LabelsOf(lines)) <=> Marked(lines, Len(lines), t)
      BY <2>5, LabelsAre
    <3>2. Marked(lines, Len(lines), t) <=> Marked(fileEntries, Len(fileEntries), t)
      BY <2>1, <2>2, <2>4, TwiceSameLabels
    <3> QED BY <3>1, <3>2 DEF Inv, TypeInv
  <2> QED BY <2>1, <2>6, <2>7, <2>8
<1> QED BY <1>1, InvHolds, PTL

(* Every session file whose first flush or copy was not cut short has one  *)
(* header, no id twice, and an answer of the assistant.                    *)
THEOREM WholeFiles == Spec => []FilesAreWhole
<1>1. Inv => FilesAreWhole
  <2> SUFFICES ASSUME Inv, NEW f \in DOMAIN disk \ torn
               PROVE  /\ \A i, j \in DOMAIN disk[f] : i # j => disk[f][i].id # disk[f][j].id
                      /\ HasAssistant(disk[f])
    BY DEF FilesAreWhole, OneHeader, FileNeedsAnswer
  <2>1. Distinct(disk[f]) /\ HasAssistant(disk[f])
    BY DEF Inv, WholeInv
  <2>2. DOMAIN disk[f] = 1 .. Len(disk[f])
    <3>1. disk[f] = << >> \/ Session(disk[f], nextId)
      BY DEF Inv, TypeInv
    <3> QED BY <3>1 DEF Session
  <2> QED BY <2>1, <2>2 DEF Distinct
<1> QED BY <1>1, InvHolds, PTL

(* What is written is never altered: a session's file only grows, and      *)
(* forks and new sessions leave the files of the others alone.             *)
THEOREM FilesOnlyGrow == Spec => AppendOnly
<1>1. Inv /\ [Next]_vars => [Grows]_vars
  BY NextInv
<1> QED BY <1>1, InvHolds, PTL DEF Spec, AppendOnly
-----------------------------------------------------------------------------
(* createBranchedSession, for any tree and any leaf: the branch of a fork  *)
(* is that of its leaf, with its labels at the end, so the fork goes on    *)
(* with the same context, and keeps the labels of what it holds.           *)

LEMMA Joined ==
    ASSUME NEW a \in Seq(Entry), NEW b \in Seq(Entry)
    PROVE  /\ a \o b \in Seq(Entry) /\ Len(a) \in Nat /\ Len(b) \in Nat
           /\ Len(a \o b) = Len(a) + Len(b)
           /\ \A i \in 1 .. Len(a) : (a \o b)[i] = a[i]
           /\ \A i \in 1 .. Len(b) : (a \o b)[i + Len(a)] = b[i]
  OBVIOUS

(* Entries on top of each other, the first of which stands on nothing that *)
(* is in es.                                                               *)
Linked(c, es) ==
    /\ c \in Seq(Entry)
    /\ c # << >> => ~(c[1].parent \in Ids(es))
    /\ \A i \in 1 .. Len(c) : i # 1 => c[i].parent = c[i - 1].id

LEMMA BranchLinked ==
    ASSUME NEW n \in Nat, NEW es, Session(es, n), NEW node \in Nat
    PROVE  Linked(Branch(es, node), es)
<1>1. PICK to : Branch(es, node) = to[node] /\ Up(to, es, node) /\ ~(0 \in Ids(es))
  BY BranchFunction
<1>2. \A id \in 0 .. node : to[id] = IF id \in Ids(es)
                                     THEN Append(to[Lookup(es, id).parent], Lookup(es, id))
                                     ELSE << >>
  BY <1>1 DEF Up
<1> DEFINE Fine(id) == /\ Linked(to[id], es)
                       /\ id \in Ids(es) => to[id] # << >> /\ to[id][Len(to[id])].id = id
                       /\ ~(id \in Ids(es)) => to[id] = << >>
           Good == {m \in 0 .. node : \A id \in 0 .. m : Fine(id)}
<1>3. Linked(<< >>, es)
  BY DEF Linked
<1>4. 0 \in Good
  <2>1. Fine(0)
    BY <1>1, <1>2, <1>3
  <2> HIDE DEF Fine
  <2> QED BY <2>1
<1>5. ASSUME NEW m \in 1 .. node, m - 1 \in Good PROVE m \in Good
  <2>1. m \in 0 .. node /\ m \in Nat /\ \A id \in 0 .. m : id = m \/ id \in 0 .. m - 1
    OBVIOUS
  <2>2. Fine(m)
    <3>1. CASE m \in Ids(es)
      <4> DEFINE e == Lookup(es, m)
                 b == to[e.parent]
                 q == Append(b, e)
      <4>1. e \in Entry /\ e.id = m /\ e.parent \in 0 .. m - 1
        BY <3>1, FoundIs
      <4>2. to[m] = q
        BY <1>2, <2>1, <3>1
      <4>3. Fine(e.parent)
        BY <1>5, <4>1
      <4> HIDE DEF e
      <4>4. /\ b \in Seq(Entry)
            /\ b # << >> => ~(b[1].parent \in Ids(es))
            /\ \A i \in 1 .. Len(b) : i # 1 => b[i].parent = b[i - 1].id
            /\ e.parent \in Ids(es) => b # << >> /\ b[Len(b)].id = e.parent
            /\ ~(e.parent \in Ids(es)) => b = << >>
        BY <4>3 DEF Linked
      <4> HIDE DEF b
      <4>5. /\ q \in Seq(Entry) /\ Len(b) \in Nat /\ Len(q) = Len(b) + 1
            /\ \A i \in 1 .. Len(b) : q[i] = b[i]
            /\ q[Len(b) + 1] = e
        BY <4>1, <4>4, Appended
      <4> HIDE DEF q
      <4>6. q # << >> /\ q[Len(q)].id = m
        BY <4>1, <4>5
      <4>7. ~(q[1].parent \in Ids(es))
        <5>1. CASE b = << >>
          <6>1. Len(b) = 0 /\ q[1] = e
            BY <4>5, <5>1
          <6>2. ~(e.parent \in Ids(es))
            BY <4>4, <5>1
          <6> QED BY <6>1, <6>2
        <5>2. CASE b # << >>
          <6>1. 1 \in 1 .. Len(b)
            BY <4>4, <5>2
          <6> QED BY <4>4, <4>5, <5>2, <6>1
        <5> QED BY <5>1, <5>2
      <4>8. ASSUME NEW i \in 1 .. Len(q), i # 1 PROVE q[i].parent = q[i - 1].id
        <5>1. i - 1 \in 1 .. Len(b) /\ q[i - 1] = b[i - 1]
          BY <4>5, <4>8
        <5>2. CASE i \in 1 .. Len(b)
          BY <4>4, <4>5, <4>8, <5>1, <5>2
        <5>3. CASE i = Len(b) + 1
          <6>1. q[i] = e /\ i - 1 = Len(b) /\ b # << >>
            BY <4>5, <5>1, <5>3
          <6> QED BY <4>4, <5>1, <6>1
        <5> QED BY <4>5, <5>2, <5>3
      <4>9. Linked(q, es)
        BY <4>5, <4>7, <4>8 DEF Linked
      <4> QED BY <3>1, <4>2, <4>6, <4>9
    <3>2. CASE ~(m \in Ids(es))
      <4>1. to[m] = << >>
        BY <1>2, <2>1, <3>2
      <4> QED BY <1>3, <3>2, <4>1
    <3> QED BY <3>1, <3>2
  <2> HIDE DEF Fine
  <2> QED BY <1>5, <2>1, <2>2
<1> HIDE DEF Good
<1>6. 0 .. node \subseteq Good
  BY <1>4, <1>5, UpTo
<1>7. node \in Good
  BY <1>6
<1>8. Fine(node)
  BY <1>7 DEF Good
<1> QED BY <1>1, <1>8

(* Entries of es that stand on top of each other are the way to the last.  *)
LEMMA BranchOfLinked ==
    ASSUME NEW n \in Nat, NEW es, Session(es, n), NEW c, Linked(c, es), c # << >>,
           \A i \in 1 .. Len(c) : c[i].id \in Ids(es) /\ Lookup(es, c[i].id) = c[i]
    PROVE  Branch(es, c[Len(c)].id) = c
<1>1. c \in Seq(Entry) /\ Len(c) \in Nat /\ Len(c) # 0
  BY DEF Linked
<1>2. \A i \in 1 .. Len(c) : c[i].id \in Nat /\ c[i].parent \in 0 .. c[i].id - 1
  <2> TAKE i \in 1 .. Len(c)
  <2>1. c[i] \in Entry
    BY <1>1
  <2>2. c[i].id \in Nat
    BY <2>1 DEF Entry
  <2>3. Lookup(es, c[i].id).parent \in 0 .. c[i].id - 1
    BY FoundIs
  <2> QED BY <2>2, <2>3
<1> DEFINE node == c[Len(c)].id
<1>3. node \in Nat
  BY <1>1, <1>2
<1> HIDE DEF node
<1>4. PICK to : Branch(es, node) = to[node] /\ Up(to, es, node) /\ ~(0 \in Ids(es))
  BY <1>3, BranchFunction
<1>5. \A i \in 1 .. Len(c) : c[i].id <= node
  <2> DEFINE Below == {k \in Nat : k < Len(c) => c[Len(c) - k].id <= node}
  <2>1. 0 \in Below
    BY <1>1, <1>2, <1>3 DEF node
  <2>2. ASSUME NEW k \in 1 .. Len(c), k - 1 \in Below PROVE k \in Below
    <3>1. k \in Nat
      OBVIOUS
    <3>2. ASSUME k < Len(c) PROVE c[Len(c) - k].id <= node
      <4>1. Len(c) - k \in 1 .. Len(c) /\ Len(c) - (k - 1) \in 1 .. Len(c)
            /\ Len(c) - (k - 1) # 1 /\ (Len(c) - (k - 1)) - 1 = Len(c) - k
        BY <1>1, <3>2
      <4>2. c[Len(c) - (k - 1)].id <= node
        BY <1>1, <2>2, <3>2
      <4>3. c[Len(c) - (k - 1)].parent = c[Len(c) - k].id
        BY <4>1 DEF Linked
      <4> QED BY <1>2, <1>3, <4>1, <4>2, <4>3
    <3> QED BY <3>1, <3>2
  <2> HIDE DEF Below
  <2>3. 0 .. Len(c) \subseteq Below
    BY <1>1, <2>1, <2>2, UpTo
  <2> TAKE i \in 1 .. Len(c)
  <2>4. Len(c) - i \in Below /\ Len(c) - i < Len(c) /\ Len(c) - (Len(c) - i) = i
    BY <1>1, <2>3
  <2> QED BY <2>4 DEF Below
<1> DEFINE Good == {k \in Nat : k # 0 /\ k <= Len(c) => to[c[k].id] = SubSeq(c, 1, k)}
<1>6. 0 \in Good
  OBVIOUS
<1>7. ASSUME NEW k \in 1 .. Len(c), k - 1 \in Good PROVE k \in Good
  <2>1. k \in Nat /\ c[k].id \in 0 .. node /\ c[k].parent \in 0 .. node
    BY <1>2, <1>3, <1>5
  <2>2. to[c[k].id] = Append(to[c[k].parent], c[k])
    BY <1>4, <2>1 DEF Up
  <2>3. to[c[k].parent] = SubSeq(c, 1, k - 1)
    <3>1. CASE k = 1
      <4>1. ~(c[k].parent \in Ids(es))
        BY <3>1 DEF Linked
      <4>2. to[c[k].parent] = << >>
        BY <1>4, <2>1, <4>1 DEF Up
      <4>3. SubSeq(c, 1, 0) = << >>
        BY <1>1, BeginningIs
      <4> QED BY <3>1, <4>2, <4>3
    <3>2. CASE k # 1
      <4>1. c[k].parent = c[k - 1].id
        BY <3>2 DEF Linked
      <4>2. to[c[k - 1].id] = SubSeq(c, 1, k - 1)
        BY <1>1, <1>7, <3>2
      <4> QED BY <4>1, <4>2
    <3> QED BY <3>1, <3>2
  <2>4. SubSeq(c, 1, k) = Append(SubSeq(c, 1, k - 1), c[k])
    <3> DEFINE p == SubSeq(c, 1, k - 1)
               q == SubSeq(c, 1, k)
    <3>1. p \in Seq(Entry) /\ Len(p) = k - 1 /\ \A i \in 1 .. k - 1 : p[i] = c[i]
      BY <1>1, BeginningIs
    <3>2. q \in Seq(Entry) /\ Len(q) = k /\ \A i \in 1 .. k : q[i] = c[i]
      BY <1>1, BeginningIs
    <3> HIDE DEF p, q
    <3> DEFINE a == Append(p, c[k])
    <3>3. c[k] \in Entry
      BY <1>1
    <3>4. /\ a \in Seq(Entry) /\ Len(a) = k /\ \A i \in 1 .. k - 1 : a[i] = p[i]
          /\ a[k] = c[k]
      BY <3>1, <3>3, Appended
    <3> HIDE DEF a
    <3>5. \A i \in 1 .. k : a[i] = q[i]
      <4> TAKE i \in 1 .. k
      <4>1. i = k \/ i \in 1 .. k - 1
        OBVIOUS
      <4> QED BY <3>1, <3>2, <3>4, <4>1
    <3>6. a = q
      BY <3>2, <3>4, <3>5
    <3> QED BY <3>6 DEF a, p, q
  <2> QED BY <2>1, <2>2, <2>3, <2>4
<1> HIDE DEF Good
<1>8. 0 .. Len(c) \subseteq Good
  BY <1>1, <1>6, <1>7, UpTo
<1>9. Len(c) \in Good
  BY <1>1, <1>8
<1>10. to[c[Len(c)].id] = SubSeq(c, 1, Len(c))
  BY <1>1, <1>9 DEF Good
<1>11. SubSeq(c, 1, Len(c)) = c
  BY <1>1, BeginningIs
<1> QED BY <1>4, <1>10, <1>11 DEF node
-----------------------------------------------------------------------------
(* Where the session goes on: after its last entry.                        *)
LEMMA LastOfEntries ==
    ASSUME NEW r \in Seq(Entry), \A i \in 1 .. Len(r) : IsEntry(r[i])
    PROVE  /\ LastEntryId(r) = IF r = << >> THEN 0 ELSE r[Len(r)].id
           /\ LastEntryId(<< Header >> \o r) = IF r = << >> THEN 0 ELSE r[Len(r)].id
<1> DEFINE q == << Header >> \o r
           g == [i \in 1 .. Len(r) |-> i]
           h == [i \in 1 .. Len(r) |-> i + 1]
<1>1. /\ q \in Seq(Entry) /\ Len(r) \in Nat /\ Len(q) = Len(r) + 1
      /\ q[1] = Header /\ \A i \in 1 .. Len(r) : q[i + 1] = r[i]
      /\ DOMAIN r = 1 .. Len(r) /\ DOMAIN q = 1 .. Len(q)
  BY HeaderIs
<1> HIDE DEF q
<1>2. Picks(g, r, r, Len(r), Tree(r))
  <2>1. \A i \in 1 .. Len(r) : r[i] \in Tree(r)
    BY <1>1 DEF Tree
  <2> QED BY <1>1, <2>1 DEF Picks
<1>3. Only(r, Tree(r)) = r
  <2> HIDE DEF g
  <2> QED BY <1>2, OnlyPicked
<1>4. \A k \in 1 .. Len(q) : q[k] \in Tree(q) <=> k # 1
  <2> TAKE k \in 1 .. Len(q)
  <2>1. q[k] \in Tree(q) <=> IsEntry(q[k])
    BY <1>1 DEF Tree
  <2>2. CASE k = 1
    BY <1>1, <2>1, <2>2, HeaderIs
  <2>3. CASE k # 1
    <3>1. k - 1 \in 1 .. Len(r) /\ (k - 1) + 1 = k
      BY <1>1, <2>3
    <3>2. q[k] = r[k - 1]
      BY <1>1, <3>1
    <3> QED BY <2>1, <2>3, <3>1, <3>2
  <2> QED BY <2>2, <2>3
<1>5. Picks(h, r, q, Len(q), Tree(q))
  <2>1. \A i \in 1 .. Len(r) : h[i] = i + 1 /\ i + 1 \in 1 .. Len(q) /\ i + 1 # 1
    BY <1>1
  <2>2. \A k \in 1 .. Len(q) : k # 1 => k - 1 \in 1 .. Len(r) /\ h[k - 1] = k
    BY <1>1
  <2>3. h \in [1 .. Len(r) -> 1 .. Len(q)]
    BY <1>1
  <2> HIDE DEF h
  <2>4. \A i \in 1 .. Len(r) : r[i] = q[h[i]] /\ q[h[i]] \in Tree(q)
    BY <1>1, <1>4, <2>1
  <2>5. \A i, j \in 1 .. Len(r) : i < j => h[i] < h[j]
    BY <2>1
  <2>6. \A k \in 1 .. Len(q) : q[k] \in Tree(q) => \E i \in 1 .. Len(r) : h[i] = k
    BY <1>4, <2>2
  <2> QED BY <2>3, <2>4, <2>5, <2>6 DEF Picks
<1>6. Only(q, Tree(q)) = r
  <2> HIDE DEF h
  <2> QED BY <1>1, <1>5, OnlyPicked
<1>7. /\ LastEntryId(r) = IF r = << >> THEN 0 ELSE r[Len(r)].id
      /\ LastEntryId(q) = IF r = << >> THEN 0 ELSE r[Len(r)].id
  BY <1>3, <1>6 DEF LastEntryId, Last
<1> QED BY <1>7 DEF q

(* What is on top of a branch and is never seen leaves its context alone.  *)
LEMMA ShownPrefix ==
    ASSUME NEW w \in Seq(Entry), NEW x \in Seq(Entry), \A i \in 1 .. Len(x) : ~Seen(x[i])
    PROVE  Shown(w \o x) = Shown(w)
<1> DEFINE q == w \o x
           S == {e \in ToSet(w) : Seen(e)}
           U == {e \in ToSet(q) : Seen(e)}
           r == Only(w, S)
<1>1. /\ q \in Seq(Entry) /\ Len(w) \in Nat /\ Len(x) \in Nat /\ Len(q) = Len(w) + Len(x)
      /\ \A i \in 1 .. Len(w) : q[i] = w[i]
      /\ \A i \in 1 .. Len(x) : q[i + Len(w)] = x[i]
  BY Joined
<1> HIDE DEF q
<1>2. \A i \in 1 .. Len(w) : i \in 1 .. Len(q) /\ (w[i] \in S <=> Seen(w[i]))
  <2> TAKE i \in 1 .. Len(w)
  <2>1. i \in 1 .. Len(q)
    BY <1>1
  <2>2. i \in DOMAIN w
    OBVIOUS
  <2>3. w[i] \in ToSet(w)
    BY <2>2 DEF ToSet
  <2> QED BY <2>1, <2>3
<1>3. \A k \in 1 .. Len(q) : q[k] \in U <=> Seen(q[k])
  <2>1. DOMAIN q = 1 .. Len(q)
    BY <1>1
  <2> QED BY <2>1 DEF ToSet
<1>4. \A k \in 1 .. Len(q) : ~(k \in 1 .. Len(w)) => ~Seen(q[k])
  <2> TAKE k \in 1 .. Len(q)
  <2>1. CASE ~(k \in 1 .. Len(w))
    <3>1. k - Len(w) \in 1 .. Len(x) /\ (k - Len(w)) + Len(w) = k
      BY <1>1, <2>1
    <3>2. q[k] = x[k - Len(w)]
      BY <1>1, <3>1
    <3> QED BY <3>1, <3>2
  <2> QED BY <2>1
<1>5. r \in Seq(Entry) /\ \E g : Picks(g, r, w, Len(w), S)
  <2> HIDE DEF S
  <2> QED BY OnlyIs
<1>6. PICK g : Picks(g, r, w, Len(w), S)
  BY <1>5
<1>7. r = Shown(w) /\ Shown(q) = Only(q, U)
  BY DEF Shown
<1> HIDE DEF r, S, U
<1>8. Picks(g, r, q, Len(q), U)
  <2>1. \A i \in 1 .. Len(r) : g[i] \in 1 .. Len(w) /\ r[i] = w[g[i]] /\ w[g[i]] \in S
    BY <1>6 DEF Picks
  <2>2. \A i \in 1 .. Len(r) : g[i] \in 1 .. Len(q) /\ r[i] = q[g[i]] /\ q[g[i]] \in U
    BY <1>1, <1>2, <1>3, <2>1
  <2>3. \A k \in 1 .. Len(q) : q[k] \in U => \E i \in 1 .. Len(r) : g[i] = k
    <3> TAKE k \in 1 .. Len(q)
    <3>1. q[k] \in U => k \in 1 .. Len(w) /\ w[k] \in S
      BY <1>1, <1>2, <1>3, <1>4
    <3> QED BY <1>6, <3>1 DEF Picks
  <2>4. g \in [1 .. Len(r) -> 1 .. Len(w)] /\ \A i, j \in 1 .. Len(r) : i < j => g[i] < g[j]
    BY <1>6 DEF Picks
  <2>5. g \in [1 .. Len(r) -> 1 .. Len(q)]
    BY <2>2, <2>4
  <2> QED BY <2>2, <2>3, <2>4, <2>5 DEF Picks
<1>9. Only(q, U) = r
  BY <1>1, <1>5, <1>8, OnlyPicked
<1> QED BY <1>7, <1>9 DEF q

LEMMA LabelsUnseen == \A e : IsLabel(e) => ~Seen(e) /\ e.type # "compaction"
  BY DEF IsLabel, LabelType, Seen

(* The parts of buildSessionContext.                                       *)
Compactions(s) == {i \in DOMAIN s : s[i].type = "compaction"}
LastIn(C) == CHOOSE i \in C : \A j \in C : j <= i
FirstIn(kept) == CHOOSE i \in kept : \A j \in kept : i <= j
KeptOf(s, last) == {i \in 1 .. (last - 1) : \E j \in 1 .. i : s[j].id = s[last].ref}
Cut(s, last, from) == << s[last] >> \o Shown(SubSeq(s, from, last))
                                   \o Shown(SubSeq(s, last + 1, Len(s)))
CutAt(s, last, kept) == Cut(s, last, IF kept = {} THEN last ELSE FirstIn(kept))
CutBy(s, C) == IF C = {} THEN Shown(s) ELSE CutAt(s, LastIn(C), KeptOf(s, LastIn(C)))

LEMMA ContextIsCut == \A s : ContextOf(s) = CutBy(s, Compactions(s))
  BY DEF ContextOf, CutBy, CutAt, Cut, Compactions, LastIn, FirstIn, KeptOf

(* Labels on top of a branch change nothing.                               *)
LEMMA ContextPrefix ==
    ASSUME NEW w \in Seq(Entry), NEW x \in Seq(Entry), \A i \in 1 .. Len(x) : IsLabel(x[i])
    PROVE  ContextOf(w \o x) = ContextOf(w)
<1> DEFINE q == w \o x
           C == Compactions(w)
           last == LastIn(C)
           kept == KeptOf(w, last)
           from == IF kept = {} THEN last ELSE FirstIn(kept)
<1>1. /\ q \in Seq(Entry) /\ Len(w) \in Nat /\ Len(x) \in Nat /\ Len(q) = Len(w) + Len(x)
      /\ \A i \in 1 .. Len(w) : q[i] = w[i]
      /\ \A i \in 1 .. Len(x) : q[i + Len(w)] = x[i]
      /\ DOMAIN w = 1 .. Len(w) /\ DOMAIN q = 1 .. Len(q)
  <2>1. /\ q \in Seq(Entry) /\ Len(q) = Len(w) + Len(x) /\ Len(w) \in Nat /\ Len(x) \in Nat
        /\ \A i \in 1 .. Len(w) : q[i] = w[i]
        /\ \A i \in 1 .. Len(x) : q[i + Len(w)] = x[i]
    BY Joined
  <2> HIDE DEF q
  <2> QED BY <2>1
<1>2. Shown(q) = Shown(w)
  BY LabelsUnseen, ShownPrefix
<1> HIDE DEF q
<1>3. Compactions(q) = C
  <2>1. ASSUME NEW i \in 1 .. Len(q), q[i].type = "compaction" PROVE i \in 1 .. Len(w)
    <3> SUFFICES ASSUME ~(i \in 1 .. Len(w)) PROVE FALSE
      OBVIOUS
    <3>1. i - Len(w) \in 1 .. Len(x) /\ (i - Len(w)) + Len(w) = i
      BY <1>1
    <3>2. q[i] = x[i - Len(w)] /\ IsLabel(x[i - Len(w)])
      BY <1>1, <3>1
    <3> QED BY <2>1, <3>2, LabelsUnseen
  <2>2. \A i \in 1 .. Len(w) : i \in 1 .. Len(q)
    BY <1>1
  <2> QED BY <1>1, <2>1, <2>2 DEF Compactions
<1> HIDE DEF C
<1>4. CASE C = {}
  <2>1. ContextOf(q) = Shown(q) /\ ContextOf(w) = Shown(w)
    BY <1>3, <1>4, ContextIsCut DEF CutBy, C
  <2> QED BY <1>2, <2>1 DEF q
<1>5. CASE C # {}
  <2>1. last \in 1 .. Len(w)
    <3>1. C \in SUBSET (1 .. Len(w))
      BY <1>1 DEF C, Compactions
    <3>2. \E i \in C : \A j \in C : j <= i
      BY <1>1, <1>5, <3>1, GreatestNumber
    <3> QED BY <3>1, <3>2 DEF LastIn
  <2> HIDE DEF last
  <2>2. KeptOf(q, last) = kept
    <3>1. q[last] = w[last] /\ \A i \in 1 .. last - 1 : \A j \in 1 .. i : q[j] = w[j]
      BY <1>1, <2>1
    <3> QED BY <3>1 DEF KeptOf
  <2>3. from \in 1 .. last
    <3>1. CASE kept = {}
      BY <2>1, <3>1
    <3>2. CASE kept # {}
      <4>1. kept \in SUBSET Nat /\ kept \subseteq 1 .. last
        BY <2>1 DEF KeptOf
      <4> HIDE DEF kept
      <4>2. \E i \in kept : \A j \in kept : i <= j
        BY <3>2, <4>1, LeastNumber
      <4>3. FirstIn(kept) \in kept
        BY <4>2 DEF FirstIn
      <4> QED BY <3>2, <4>1, <4>3
    <3> QED BY <3>1, <3>2
  <2> DEFINE wide == SubSeq(w, last + 1, Len(w))
             long == SubSeq(q, last + 1, Len(q))
  <2>5. SubSeq(q, from, last) = SubSeq(w, from, last)
    <3> HIDE DEF from
    <3> DEFINE u == SubSeq(q, from, last)
               v == SubSeq(w, from, last)
    <3>1. from \in Int /\ last \in Int /\ from <= last
      BY <2>1, <2>3
    <3>2. /\ \A i \in from .. last : i \in 1 .. Len(w) /\ i \in 1 .. Len(q)
          /\ \A i \in from .. last : w[i] \in Entry /\ q[i] \in Entry /\ q[i] = w[i]
      BY <1>1, <2>1, <2>3
    <3>3. /\ u \in Seq(Entry) /\ Len(u) = last - from + 1
          /\ \A i \in 1 .. last - from + 1 : u[i] = q[from + i - 1]
      BY <3>1, <3>2, SubSeqProperties
    <3>4. /\ v \in Seq(Entry) /\ Len(v) = last - from + 1
          /\ \A i \in 1 .. last - from + 1 : v[i] = w[from + i - 1]
      BY <3>1, <3>2, SubSeqProperties
    <3> HIDE DEF u, v
    <3>5. \A i \in 1 .. last - from + 1 : u[i] = v[i]
      <4> TAKE i \in 1 .. last - from + 1
      <4>1. from + i - 1 \in from .. last
        BY <3>1
      <4> QED BY <3>2, <3>3, <3>4, <4>1
    <3>6. Len(u) = Len(v) /\ \A i \in 1 .. Len(u) : u[i] = v[i]
      BY <3>3, <3>4, <3>5
    <3>7. u = v
      BY <3>3, <3>4, <3>6, SeqEqual
    <3> QED BY <3>7 DEF u, v
  <2>6. long = wide \o x /\ wide \in Seq(Entry)
    <3>1. last + 1 \in Int /\ Len(w) \in Int /\ Len(q) \in Int /\ last <= Len(w)
          /\ Len(w) <= Len(q)
      BY <1>1, <2>1
    <3>2. /\ \A i \in last + 1 .. Len(w) : w[i] \in Entry
          /\ \A i \in last + 1 .. Len(q) : q[i] \in Entry
      BY <1>1, <2>1
    <3>3. /\ wide \in Seq(Entry) /\ Len(wide) = Len(w) - last
          /\ \A i \in 1 .. Len(w) - last : wide[i] = w[last + i]
      <4>1. /\ wide \in Seq(Entry)
            /\ Len(wide) = (IF last + 1 <= Len(w) THEN Len(w) - (last + 1) + 1 ELSE 0)
            /\ \A i \in 1 .. Len(w) - (last + 1) + 1 : wide[i] = w[last + 1 + i - 1]
        BY <3>1, <3>2, SubSeqProperties
      <4> HIDE DEF wide
      <4>2. Len(wide) = Len(w) - last
        <5>1. CASE last + 1 <= Len(w)
          BY <1>1, <2>1, <4>1, <5>1
        <5>2. CASE ~(last + 1 <= Len(w))
          <6>1. last = Len(w)
            <7>1. last \in Nat /\ Len(w) \in Nat /\ last <= Len(w)
              BY <1>1, <2>1
            <7> QED BY <5>2, <7>1
          <6>2. Len(wide) = 0
            BY <4>1, <5>2
          <6> QED BY <1>1, <6>1, <6>2
        <5> QED BY <5>1, <5>2
      <4>3. Len(w) - (last + 1) + 1 = Len(w) - last
        BY <1>1, <2>1
      <4>4. \A i \in 1 .. Len(w) - last : wide[i] = w[last + i]
        <5> TAKE i \in 1 .. Len(w) - last
        <5>1. last + 1 + i - 1 = last + i
          BY <2>1
        <5> QED BY <4>1, <4>3, <5>1
      <4> QED BY <4>1, <4>2, <4>4
    <3>4. /\ long \in Seq(Entry) /\ Len(long) = Len(q) - last
          /\ \A i \in 1 .. Len(q) - last : long[i] = q[last + i]
      <4>1. /\ long \in Seq(Entry)
            /\ Len(long) = (IF last + 1 <= Len(q) THEN Len(q) - (last + 1) + 1 ELSE 0)
            /\ \A i \in 1 .. Len(q) - (last + 1) + 1 : long[i] = q[last + 1 + i - 1]
        BY <3>1, <3>2, SubSeqProperties
      <4> HIDE DEF long
      <4>2. Len(long) = Len(q) - last
        BY <1>1, <2>1, <4>1
      <4>3. Len(q) - (last + 1) + 1 = Len(q) - last
        BY <1>1, <2>1
      <4>4. \A i \in 1 .. Len(q) - last : long[i] = q[last + i]
        <5> TAKE i \in 1 .. Len(q) - last
        <5>1. last + 1 + i - 1 = last + i
          BY <2>1
        <5> QED BY <4>1, <4>3, <5>1
      <4> QED BY <4>1, <4>2, <4>4
    <3> HIDE DEF wide, long
    <3> DEFINE z == wide \o x
    <3>5. /\ z \in Seq(Entry) /\ Len(z) = Len(wide) + Len(x)
          /\ \A i \in 1 .. Len(wide) : z[i] = wide[i]
          /\ \A i \in 1 .. Len(x) : z[i + Len(wide)] = x[i]
      BY <3>3, Joined
    <3> HIDE DEF z
    <3>6. Len(z) = Len(long)
      BY <1>1, <2>1, <3>3, <3>4, <3>5
    <3>7. ASSUME NEW i \in 1 .. Len(long) PROVE long[i] = z[i]
      <4>1. CASE i \in 1 .. Len(w) - last
        <5>1. last + i \in 1 .. Len(w)
          BY <1>1, <2>1, <4>1
        <5> QED BY <1>1, <3>3, <3>4, <3>5, <4>1, <5>1
      <4>2. CASE ~(i \in 1 .. Len(w) - last)
        <5> DEFINE j == i - (Len(w) - last)
        <5>1. j \in 1 .. Len(x) /\ j + Len(w) = last + i /\ j + Len(wide) = i
          BY <1>1, <2>1, <3>3, <3>4, <4>2
        <5>2. q[j + Len(w)] = x[j] /\ z[j + Len(wide)] = x[j]
          BY <1>1, <3>5, <5>1
        <5> QED BY <3>4, <5>1, <5>2
      <4> QED BY <4>1, <4>2
    <3>8. long = z
      BY <3>4, <3>5, <3>6, <3>7
    <3> QED BY <3>3, <3>8 DEF z
  <2>7. Shown(long) = Shown(wide)
    <3> HIDE DEF wide, long
    <3> QED BY <2>6, LabelsUnseen, ShownPrefix
  <2>8. q[last] = w[last]
    BY <1>1, <2>1
  <2>9. ContextOf(w) = Cut(w, last, from)
    BY <1>5, ContextIsCut DEF CutBy, CutAt, C, last
  <2>10. ContextOf(q) = Cut(q, last, from)
    <3>1. ContextOf(q) = CutBy(q, C)
      BY <1>3, ContextIsCut
    <3>2. CutBy(q, C) = CutAt(q, last, KeptOf(q, last))
      BY <1>5 DEF CutBy, last
    <3>3. CutAt(q, last, KeptOf(q, last)) = CutAt(q, last, kept)
      BY <2>2
    <3> QED BY <3>1, <3>2, <3>3 DEF CutAt
  <2>11. Cut(q, last, from) = Cut(w, last, from)
    <3>1. /\ Cut(w, last, from) = << w[last] >> \o Shown(SubSeq(w, from, last)) \o Shown(wide)
          /\ Cut(q, last, from) = << q[last] >> \o Shown(SubSeq(q, from, last)) \o Shown(long)
      BY DEF Cut
    <3> HIDE DEF wide, long, from
    <3> QED BY <2>5, <2>7, <2>8, <3>1
  <2>12. ContextOf(q) = ContextOf(w)
    BY <2>9, <2>10, <2>11
  <2> QED BY <2>12 DEF q
<1> QED BY <1>4, <1>5
-----------------------------------------------------------------------------
LEMMA CutInTwo ==
    ASSUME NEW s \in Seq(Entry), NEW k \in 0 .. Len(s)
    PROVE  LET p == SubSeq(s, 1, k)
               q == SubSeq(s, k + 1, Len(s))
           IN  /\ p \in Seq(Entry) /\ Len(p) = k /\ \A i \in 1 .. k : p[i] = s[i]
               /\ q \in Seq(Entry)
               /\ \A i \in 1 .. Len(q) : k + i \in k + 1 .. Len(s) /\ q[i] = s[k + i]
               /\ s = p \o q
<1> DEFINE p == SubSeq(s, 1, k)
           q == SubSeq(s, k + 1, Len(s))
           z == p \o q
<1>1. Len(s) \in Nat /\ k \in Nat /\ k <= Len(s) /\ \A i \in 1 .. Len(s) : s[i] \in Entry
  OBVIOUS
<1>2. p \in Seq(Entry) /\ Len(p) = k /\ \A i \in 1 .. k : p[i] = s[i]
  BY BeginningIs
<1>3. /\ q \in Seq(Entry)
      /\ Len(q) = (IF k + 1 <= Len(s) THEN Len(s) - (k + 1) + 1 ELSE 0)
      /\ \A i \in 1 .. Len(s) - (k + 1) + 1 : q[i] = s[k + 1 + i - 1]
  <2>1. k + 1 \in Int /\ Len(s) \in Int /\ \A i \in k + 1 .. Len(s) : s[i] \in Entry
    BY <1>1
  <2> QED BY <2>1, SubSeqProperties
<1> HIDE DEF p, q
<1>4. Len(q) = Len(s) - k
  <2>1. CASE k + 1 <= Len(s)
    BY <1>1, <1>3, <2>1
  <2>2. CASE ~(k + 1 <= Len(s))
    <3>1. k = Len(s)
      BY <1>1, <2>2
    <3>2. Len(q) = 0
      BY <1>3, <2>2
    <3> QED BY <1>1, <3>1, <3>2
  <2> QED BY <2>1, <2>2
<1>5. ASSUME NEW i \in 1 .. Len(q) PROVE k + i \in k + 1 .. Len(s) /\ q[i] = s[k + i]
  <2>1. i \in 1 .. Len(s) - (k + 1) + 1 /\ k + 1 + i - 1 = k + i
    BY <1>1, <1>4
  <2>2. k + i \in k + 1 .. Len(s)
    BY <1>1, <1>4
  <2> QED BY <1>3, <2>1, <2>2
<1>6. /\ z \in Seq(Entry) /\ Len(z) = Len(p) + Len(q)
      /\ \A i \in 1 .. Len(p) : z[i] = p[i]
      /\ \A i \in 1 .. Len(q) : z[i + Len(p)] = q[i]
  <2>1. p \in Seq(Entry) /\ q \in Seq(Entry)
    BY <1>2, <1>3
  <2> QED BY <2>1, Joined
<1> HIDE DEF z
<1>7. Len(z) = Len(s)
  BY <1>1, <1>2, <1>4, <1>6
<1>8. ASSUME NEW i \in 1 .. Len(s) PROVE z[i] = s[i]
  <2>1. CASE i \in 1 .. k
    BY <1>2, <1>6, <2>1
  <2>2. CASE ~(i \in 1 .. k)
    <3>1. i - k \in 1 .. Len(q) /\ (i - k) + Len(p) = i /\ k + (i - k) = i
      BY <1>1, <1>2, <1>4, <2>2
    <3>2. z[(i - k) + Len(p)] = q[i - k] /\ q[i - k] = s[k + (i - k)]
      BY <1>5, <1>6, <3>1
    <3> QED BY <3>1, <3>2
  <2> QED BY <2>1, <2>2
<1>9. s = z
  BY <1>6, <1>7, <1>8
<1> QED BY <1>2, <1>3, <1>5, <1>9 DEF p, q, z

(* When nothing was said on top of a label, a branch is what is left of it *)
(* without its labels, and then these.                                     *)
LEMMA LabelsLast ==
    ASSUME NEW b \in Seq(Entry), \A i \in 1 .. Len(b) : IsEntry(b[i]), NothingOnLabels(b)
    PROVE  \E k \in 0 .. Len(b) : /\ WithoutLabels(b) = SubSeq(b, 1, k)
                                  /\ \A i \in k + 1 .. Len(b) : IsLabel(b[i])
<1> DEFINE n == Len(b)
           A == {i \in 1 .. n : IsLabel(b[i])}
           S == {e \in Tree(b) : ~IsLabel(e)}
<1>1. n \in Nat /\ DOMAIN b = 1 .. n
  OBVIOUS
<1>2. PICK k \in 0 .. n : /\ \A i \in 1 .. k : ~IsLabel(b[i])
                          /\ k = n \/ IsLabel(b[k + 1])
  <2>1. CASE A = {}
    <3>1. n \in 0 .. n /\ \A i \in 1 .. n : ~IsLabel(b[i])
      BY <1>1, <2>1
    <3> QED BY <3>1
  <2>2. CASE A # {}
    <3>1. PICK m \in A : \A j \in A : m <= j
      <4>1. A \in SUBSET Nat
        OBVIOUS
      <4> HIDE DEF A
      <4> QED BY <2>2, <4>1, LeastNumber
    <3>2. m - 1 \in 0 .. n /\ (m - 1) + 1 = m /\ IsLabel(b[m])
      BY <1>1
    <3>3. \A i \in 1 .. m - 1 : ~IsLabel(b[i])
      <4> SUFFICES ASSUME NEW i \in 1 .. m - 1, IsLabel(b[i]) PROVE FALSE
        OBVIOUS
      <4>1. i \in A /\ i < m
        BY <1>1
      <4>2. m <= i
        BY <3>1, <4>1
      <4> QED BY <1>1, <4>1, <4>2
    <3> QED BY <3>2, <3>3
  <2> QED BY <2>1, <2>2
<1>3. \A i \in k + 1 .. n : IsLabel(b[i])
  <2> DEFINE B == {i \in k + 1 .. n : ~IsLabel(b[i])}
  <2> SUFFICES ASSUME B # {} PROVE FALSE
    OBVIOUS
  <2>1. B \in SUBSET Nat
    BY <1>1
  <2>2. PICK m \in B : \A j \in B : m <= j
    <3> HIDE DEF B
    <3> QED BY <2>1, LeastNumber
  <2>3. m \in k + 1 .. n /\ ~IsLabel(b[m]) /\ m # k + 1
    <3>1. m \in k + 1 .. n /\ ~IsLabel(b[m])
      BY <2>2
    <3>2. k # n
      <4>1. m \in Nat /\ k \in Nat /\ k + 1 <= m /\ m <= n
        BY <1>1, <3>1
      <4> HIDE DEF n
      <4> QED BY <1>1, <4>1
    <3> QED BY <1>2, <3>1, <3>2
  <2>4. m - 1 \in k + 1 .. n /\ m - 1 \in 1 .. n /\ m - 1 < n /\ (m - 1) + 1 = m
    BY <1>1, <2>3
  <2>5. IsLabel(b[m - 1])
    <3> SUFFICES ASSUME ~IsLabel(b[m - 1]) PROVE FALSE
      OBVIOUS
    <3>1. m - 1 \in B
      BY <2>4
    <3>2. m <= m - 1
      BY <2>2, <3>1
    <3> QED BY <2>4, <3>2
  <2>6. IsLabel(b[m])
    BY <1>1, <2>4, <2>5 DEF NothingOnLabels
  <2> QED BY <2>3, <2>6
<1> DEFINE p == SubSeq(b, 1, k)
           g == [i \in 1 .. k |-> i]
<1>4. p \in Seq(Entry) /\ Len(p) = k /\ \A i \in 1 .. k : p[i] = b[i]
  BY BeginningIs
<1> HIDE DEF p
<1>5. \A i \in 1 .. n : b[i] \in S <=> ~IsLabel(b[i])
  BY <1>1 DEF Tree
<1>6. Picks(g, p, b, n, S)
  <2> HIDE DEF S
  <2>1. \A i \in 1 .. k : i \in 1 .. n /\ ~IsLabel(b[i])
    <3>1. 1 .. k \subseteq 1 .. n
      BY <1>1
    <3> QED BY <1>2, <3>1
  <2>2. g \in [1 .. Len(p) -> 1 .. n] /\ \A i \in 1 .. Len(p) : g[i] = i
    BY <1>4, <2>1
  <2>3. \A i \in 1 .. Len(p) : p[i] = b[g[i]] /\ b[g[i]] \in S
    BY <1>4, <1>5, <2>1, <2>2
  <2>4. \A i \in 1 .. n : b[i] \in S => i \in 1 .. Len(p)
    BY <1>1, <1>3, <1>4, <1>5
  <2> HIDE DEF g
  <2>5. \A i, j \in 1 .. Len(p) : i < j => g[i] < g[j]
    BY <2>2
  <2> QED BY <2>2, <2>3, <2>4, <2>5 DEF Picks
<1>7. Only(b, S) = p
  <2> HIDE DEF S, g
  <2> QED BY <1>4, <1>6, OnlyPicked
<1> QED BY <1>3, <1>7 DEF WithoutLabels, p

(* The new entries for the labels of a fork.                               *)
LEMMA RewrittenIs ==
    ASSUME nextId \in Nat, labelsById \in Seq(Nat), NEW b
    PROVE  LET l == LabelsRewritten(b)
           IN  /\ Len(l) = Len(LabelsOn(b)) /\ Len(LabelsOn(b)) \in Nat
               /\ \A i \in 1 .. Len(l) :
                     /\ l[i].ref = LabelsOn(b)[i]
                     /\ l[i].id = nextId + i - 1
                     /\ l[i].parent = IF i = 1 THEN LastEntryId(WithoutLabels(b))
                                      ELSE nextId + i - 2
<1> DEFINE labels == LabelsOn(b)
           l == LabelsRewritten(b)
           last == LastEntryId(WithoutLabels(b))
<1>1. labels \in Seq(Nat)
  BY OnlyIs DEF LabelsOn
<1>2. l = [i \in DOMAIN labels |->
             NewEntry("label", nextId + i - 1, IF i = 1 THEN last ELSE nextId + i - 2, labels[i])]
  BY DEF LabelsRewritten
<1> HIDE DEF labels, l, last
<1>3. DOMAIN labels = 1 .. Len(labels) /\ Len(labels) \in Nat
  BY <1>1
<1>4. DOMAIN l = 1 .. Len(labels)
  BY <1>2, <1>3
<1>5. Len(l) = Len(labels)
  <2>1. l \in Seq({l[i] : i \in 1 .. Len(labels)})
    BY <1>2, <1>3
  <2> QED BY <1>3, <1>4, <2>1
<1>6. ASSUME NEW i \in 1 .. Len(l)
      PROVE  /\ l[i].ref = labels[i] /\ l[i].id = nextId + i - 1
             /\ l[i].parent = IF i = 1 THEN last ELSE nextId + i - 2
  BY <1>2, <1>3, <1>5 DEF NewEntry
<1> QED BY <1>3, <1>5, <1>6 DEF labels, l, last
-----------------------------------------------------------------------------
(* The branch of a fork is what the branch it was made from has besides    *)
(* its labels, and then these.                                             *)
LEMMA ForkedBranch ==
    ASSUME nextId \in Nat \ {0}, Session(fileEntries, nextId), labelsById \in Seq(Nat),
           NEW node \in Nat, NothingOnLabels(Branch(fileEntries, node))
    PROVE  LET b == Branch(fileEntries, node)
               c == WithoutLabels(b) \o LabelsRewritten(b)
               es == << Header >> \o WithoutLabels(b) \o LabelsRewritten(b)
           IN  Branch(es, LastEntryId(es)) = c
<1> DEFINE b == Branch(fileEntries, node)
           w == WithoutLabels(b)
           l == LabelsRewritten(b)
           c == w \o l
           es == << Header >> \o w \o l
           m == nextId + Len(l)
<1>1. Path(b, fileEntries, node) /\ Linked(b, fileEntries)
  BY BranchIs, BranchLinked
<1>2. /\ b \in Seq(Entry) /\ Len(b) \in Nat
      /\ \A i \in 1 .. Len(b) :
            IsEntry(b[i]) /\ \E k \in 1 .. Len(fileEntries) : b[i] = fileEntries[k]
  BY <1>1 DEF Path
<1>3. /\ w \in Seq(Entry)
      /\ \A i \in 1 .. Len(w) : /\ IsEntry(w[i]) /\ ~IsLabel(w[i])
                                /\ w[i].id \in 1 .. nextId - 1 /\ w[i].parent < w[i].id
  BY UnlabelledPath
<1>4. /\ l \in Seq(Entry)
      /\ \A i \in 1 .. Len(l) : l[i].type = "label" /\ l[i].id = nextId + i - 1
  BY RewrittenAre
<1>5. \A i \in 1 .. Len(l) : l[i].parent = IF i = 1 THEN LastEntryId(w) ELSE nextId + i - 2
  BY RewrittenIs
<1>6. Session(es, m) /\ Distinct(es) /\ Len(l) \in Nat
  BY ForkedSession
<1>7. PICK k \in 0 .. Len(b) : w = SubSeq(b, 1, k)
  BY <1>2, LabelsLast
<1>8. Len(w) = k /\ \A i \in 1 .. k : w[i] = b[i]
  BY <1>2, <1>7, BeginningIs
<1> HIDE DEF l, w, b
<1>9. es = << Header >> \o c
  <2>1. << Header >> \in Seq(Entry)
    BY HeaderIs
  <2> QED BY <1>3, <1>4, <2>1, ConcatAssociative
<1>10. /\ c \in Seq(Entry) /\ Len(c) = k + Len(l)
       /\ \A i \in 1 .. k : c[i] = w[i]
       /\ \A i \in 1 .. Len(l) : c[i + k] = l[i]
  <2>1. w \in Seq(Entry) /\ l \in Seq(Entry)
    BY <1>3, <1>4
  <2>2. /\ c \in Seq(Entry) /\ Len(c) = Len(w) + Len(l)
        /\ \A i \in 1 .. Len(w) : c[i] = w[i]
        /\ \A i \in 1 .. Len(l) : c[i + Len(w)] = l[i]
    BY <2>1, Joined
  <2> HIDE DEF c
  <2> QED BY <1>8, <2>2
<1> HIDE DEF c
<1>11. ASSUME NEW i \in 1 .. Len(c)
       PROVE  \/ i \in 1 .. k /\ c[i] = w[i]
              \/ i - k \in 1 .. Len(l) /\ c[i] = l[i - k]
  <2>1. CASE i \in 1 .. k
    BY <1>10, <2>1
  <2>2. CASE ~(i \in 1 .. k)
    <3>1. i - k \in 1 .. Len(l) /\ (i - k) + k = i
      BY <1>6, <1>10, <2>2
    <3> QED BY <1>10, <3>1
  <2> QED BY <2>1, <2>2
<1>12. \A i \in 1 .. Len(c) : IsEntry(c[i])
  <2> TAKE i \in 1 .. Len(c)
  <2>1. CASE i \in 1 .. k /\ c[i] = w[i]
    BY <1>3, <1>8, <2>1
  <2>2. CASE i - k \in 1 .. Len(l) /\ c[i] = l[i - k]
    BY <1>4, <2>2 DEF IsEntry
  <2> QED BY <1>11, <2>1, <2>2
<1>13. /\ Len(es) = Len(c) + 1 /\ es[1] = Header /\ es \in Seq(Entry)
       /\ \A i \in 1 .. Len(c) : es[i + 1] = c[i]
  <2> DEFINE z == << Header >> \o c
  <2>1. c \in Seq(Entry) /\ Header \in Entry
    BY <1>10, HeaderIs
  <2>2. /\ Len(z) = Len(c) + 1 /\ z[1] = Header /\ z \in Seq(Entry)
        /\ \A i \in 1 .. Len(c) : z[i + 1] = c[i]
    BY <2>1
  <2>3. es = z
    BY <1>9
  <2> HIDE DEF z, es
  <2> QED BY <2>2, <2>3
<1>14. LastEntryId(es) = IF c = << >> THEN 0 ELSE c[Len(c)].id
  BY <1>9, <1>10, <1>12, LastOfEntries
<1>15. LastEntryId(w) = IF k = 0 THEN 0 ELSE w[k].id
  <2>1. w = << >> <=> k = 0
    BY <1>3, <1>8
  <2> QED BY <1>3, <1>8, <2>1, LastOfEntries
<1> HIDE DEF es
(* What is in the fork was in the session, or is new. *)
<1>16. ASSUME NEW id \in Ids(es)
       PROVE  id \in Nat /\ id # 0 /\ (id \in Ids(fileEntries) \/ nextId <= id)
  <2>1. PICK i \in 1 .. Len(es) : IsEntry(es[i]) /\ es[i].id = id
    BY <1>13, IdsAre
  <2>2. i # 1
    BY <1>13, <2>1, HeaderIs
  <2>3. i - 1 \in 1 .. Len(c) /\ es[i] = c[i - 1]
    <3>1. i - 1 \in 1 .. Len(c) /\ (i - 1) + 1 = i
      BY <1>10, <1>13, <2>2
    <3> QED BY <1>13, <3>1
  <2>4. CASE i - 1 \in 1 .. k /\ c[i - 1] = w[i - 1]
    <3>1. id = b[i - 1].id /\ id \in 1 .. nextId - 1
      BY <1>3, <1>8, <2>1, <2>3, <2>4
    <3>2. i - 1 \in 1 .. Len(b)
      BY <1>2, <2>4
    <3>3. PICK j \in 1 .. Len(fileEntries) : b[i - 1] = fileEntries[j]
      BY <1>2, <3>2
    <3>4. IsEntry(fileEntries[j]) /\ fileEntries[j].id = id
      BY <1>2, <3>1, <3>2, <3>3
    <3>5. id \in Ids(fileEntries)
      BY <3>4, IdsAre DEF Session
    <3> QED BY <3>1, <3>5
  <2>5. CASE i - 1 - k \in 1 .. Len(l) /\ c[i - 1] = l[i - 1 - k]
    <3>1. id = nextId + (i - 1 - k) - 1
      BY <1>4, <2>1, <2>3, <2>5
    <3> QED BY <1>6, <2>5, <3>1
  <2> QED BY <1>11, <2>3, <2>4, <2>5
<1>17. ASSUME c # << >> PROVE ~(c[1].parent \in Ids(es))
  <2>1. 1 \in 1 .. Len(c)
    BY <1>10, <1>17
  <2>2. CASE k = 0
    <3>1. 1 \in 1 .. Len(l) /\ c[1] = l[1]
      BY <1>11, <2>1, <2>2
    <3>2. c[1].parent = 0
      BY <1>5, <1>15, <2>2, <3>1
    <3> QED BY <1>16, <3>2
  <2>3. CASE k # 0
    <3>1. 1 \in 1 .. k /\ 1 \in 1 .. Len(b) /\ b # << >>
      BY <1>2, <2>3
    <3>2. c[1] = b[1] /\ c[1] = w[1]
      BY <1>8, <1>10, <3>1
    <3>3. ~(c[1].parent \in Ids(fileEntries))
      BY <1>1, <3>1, <3>2 DEF Linked
    <3>4. c[1].parent \in Nat /\ c[1].parent < nextId
      <4>1. c[1] \in Entry
        BY <1>10, <2>1
      <4>2. c[1].parent \in Nat
        BY <4>1 DEF Entry
      <4>3. c[1].id \in 1 .. nextId - 1 /\ c[1].parent < c[1].id
        BY <1>3, <1>8, <3>1, <3>2
      <4> QED BY <4>2, <4>3
    <3>5. ~(nextId <= c[1].parent)
      BY <3>4
    <3> QED BY <1>16, <3>3, <3>5
  <2> QED BY <2>2, <2>3
<1>18. ASSUME NEW i \in 1 .. Len(c), i # 1 PROVE c[i].parent = c[i - 1].id
  <2>1. i - 1 \in 1 .. Len(c)
    BY <1>10, <1>18
  <2>2. CASE i \in 1 .. k
    <3>1. i \in 1 .. Len(b) /\ i - 1 \in 1 .. k
      BY <1>2, <1>18, <2>2
    <3>2. b[i].parent = b[i - 1].id
      BY <1>1, <1>18, <3>1 DEF Linked
    <3> QED BY <1>8, <1>10, <2>2, <3>1, <3>2
  <2>3. CASE ~(i \in 1 .. k)
    <3>1. i - k \in 1 .. Len(l) /\ c[i] = l[i - k]
      BY <1>11, <2>3
    <3>2. CASE i - k = 1
      <4>1. k # 0 /\ i - 1 = k /\ k \in 1 .. k
        BY <1>18, <3>2
      <4>2. c[i].parent = w[k].id
        BY <1>5, <1>15, <3>1, <3>2, <4>1
      <4>3. c[i - 1] = w[k]
        BY <1>10, <4>1
      <4> QED BY <4>2, <4>3
    <3>3. CASE i - k # 1
      <4>1. c[i].parent = nextId + (i - k) - 2
        BY <1>5, <3>1, <3>3
      <4>2. (i - 1) - k \in 1 .. Len(l) /\ ((i - 1) - k) + k = i - 1
        BY <1>6, <3>1, <3>3
      <4>3. c[i - 1] = l[(i - 1) - k]
        BY <1>10, <4>2
      <4>4. c[i - 1].id = nextId + ((i - 1) - k) - 1
        BY <1>4, <4>2, <4>3
      <4> QED BY <4>1, <4>4
    <3> QED BY <3>2, <3>3
  <2> QED BY <2>2, <2>3
<1>19. Linked(c, es)
  BY <1>10, <1>17, <1>18 DEF Linked
<1>20. ASSUME NEW i \in 1 .. Len(c) PROVE c[i].id \in Ids(es) /\ Lookup(es, c[i].id) = c[i]
  <2>1. i + 1 \in 1 .. Len(es) /\ es[i + 1] = c[i] /\ DOMAIN es = 1 .. Len(es)
    BY <1>10, <1>13
  <2>2. c[i].id \in Ids(es)
    BY <1>12, <1>13, <2>1, IdsAre
  <2>3. \E j \in DOMAIN es : es[j].id = c[i].id
    BY <2>1
  <2>4. PICK j \in DOMAIN es : es[j].id = c[i].id /\ Lookup(es, c[i].id) = es[j]
    BY <2>3 DEF Lookup
  <2>5. j = i + 1
    BY <1>6, <2>1, <2>4 DEF Distinct
  <2> QED BY <2>1, <2>2, <2>4, <2>5
<1>21. m \in Nat
  BY <1>6
<1>22. Branch(es, LastEntryId(es)) = c
  <2>1. CASE c = << >>
    <3>1. LastEntryId(es) = 0 /\ 0 \in Nat
      BY <1>14, <2>1
    <3>2. PICK to : Branch(es, 0) = to[0] /\ Up(to, es, 0) /\ ~(0 \in Ids(es))
      BY <1>6, <1>21, BranchFunction
    <3>3. to[0] = << >>
      BY <3>2 DEF Up
    <3> QED BY <2>1, <3>1, <3>2, <3>3
  <2>2. CASE c # << >>
    <3> HIDE DEF m
    <3> QED BY <1>6, <1>14, <1>19, <1>20, <1>21, <2>2, BranchOfLinked
  <2> QED BY <2>1, <2>2
<1> QED BY <1>22 DEF es, c, l, w, b

(* The fork goes on with the context of the branch it was made from.       *)
LEMMA ForkedContext ==
    ASSUME nextId \in Nat \ {0}, Session(fileEntries, nextId), labelsById \in Seq(Nat),
           NEW node \in Nat, NothingOnLabels(Branch(fileEntries, node))
    PROVE  LET b == Branch(fileEntries, node)
               es == << Header >> \o WithoutLabels(b) \o LabelsRewritten(b)
           IN  Context(es, LastEntryId(es)) = Context(fileEntries, node)
<1> DEFINE b == Branch(fileEntries, node)
           w == WithoutLabels(b)
           l == LabelsRewritten(b)
           es == << Header >> \o w \o l
<1>1. b \in Seq(Entry) /\ \A i \in 1 .. Len(b) : IsEntry(b[i])
  BY BranchIs DEF Path
<1>2. PICK k \in 0 .. Len(b) : /\ w = SubSeq(b, 1, k)
                               /\ \A i \in k + 1 .. Len(b) : IsLabel(b[i])
  BY <1>1, LabelsLast
<1>3. /\ l \in Seq(Entry)
      /\ \A i \in 1 .. Len(l) : l[i].type = "label"
  BY RewrittenAre
<1>4. Branch(es, LastEntryId(es)) = w \o l
  BY ForkedBranch
<1> HIDE DEF l, b, w
<1> DEFINE x == SubSeq(b, k + 1, Len(b))
<1>5. /\ w \in Seq(Entry) /\ x \in Seq(Entry) /\ b = w \o x
      /\ \A i \in 1 .. Len(x) : k + i \in k + 1 .. Len(b) /\ x[i] = b[k + i]
  BY <1>1, <1>2, CutInTwo
<1> HIDE DEF x
<1>6. ContextOf(b) = ContextOf(w)
  BY <1>2, <1>5, ContextPrefix
<1>7. ContextOf(w \o l) = ContextOf(w)
  BY <1>3, <1>5, ContextPrefix DEF IsLabel, LabelType
<1>8. Context(es, LastEntryId(es)) = ContextOf(w \o l) /\ Context(fileEntries, node) = ContextOf(b)
  BY <1>4 DEF Context, b
<1> QED BY <1>6, <1>7, <1>8 DEF es, l, w, b

(* The labels of a fork are those of what it holds.                        *)
LEMMA ForkedLabels ==
    ASSUME nextId \in Nat \ {0}, Session(fileEntries, nextId), labelsById \in Seq(Nat),
           NEW node \in Nat
    PROVE  LET b == Branch(fileEntries, node)
               es == << Header >> \o WithoutLabels(b) \o LabelsRewritten(b)
           IN  ToSet(LabelsOf(es)) = ToSet(labelsById) \cap Ids(WithoutLabels(b))
<1> DEFINE b == Branch(fileEntries, node)
           w == WithoutLabels(b)
           l == LabelsRewritten(b)
           labels == LabelsOn(b)
           es == << Header >> \o w \o l
           n == Len(w) + 1
<1>1. w \in Seq(Entry) /\ \A i \in 1 .. Len(w) : ~IsLabel(w[i])
  BY UnlabelledPath
<1>2. l \in Seq(Entry) /\ \A i \in 1 .. Len(l) : l[i].type = "label"
  BY RewrittenAre
<1>3. /\ Len(l) = Len(labels) /\ Len(labels) \in Nat
      /\ \A i \in 1 .. Len(l) : l[i].ref = labels[i]
  BY RewrittenIs
<1>4. labels \in Seq(Nat) /\ ToSet(labels) = ToSet(labelsById) \cap Ids(w)
  BY OnlyIs, OnlyHas DEF LabelsOn
<1> HIDE DEF labels, l, w
<1>5. /\ es \in Seq(Entry) /\ Len(w) \in Nat /\ n \in Nat /\ Len(es) = n + Len(l)
      /\ es[1] = Header
      /\ \A i \in 1 .. Len(w) : es[i + 1] = w[i]
      /\ \A i \in 1 .. Len(l) : es[i + n] = l[i]
  <2> DEFINE h == << Header >> \o w
             z == h \o l
  <2>1. w \in Seq(Entry) /\ l \in Seq(Entry) /\ Header \in Entry
    BY <1>1, <1>2, HeaderIs
  <2>2. /\ h \in Seq(Entry) /\ Len(w) \in Nat /\ Len(h) = n /\ h[1] = Header
        /\ \A i \in 1 .. Len(w) : h[i + 1] = w[i]
    BY <2>1
  <2> HIDE DEF h
  <2>3. /\ z \in Seq(Entry) /\ Len(z) = n + Len(l)
        /\ \A i \in 1 .. n : z[i] = h[i]
        /\ \A i \in 1 .. Len(l) : z[i + n] = l[i]
    <3>1. h \in Seq(Entry) /\ l \in Seq(Entry)
      BY <2>1, <2>2
    <3>2. /\ z \in Seq(Entry) /\ Len(z) = Len(h) + Len(l)
          /\ \A i \in 1 .. Len(h) : z[i] = h[i]
          /\ \A i \in 1 .. Len(l) : z[i + Len(h)] = l[i]
      BY <3>1, Joined
    <3>3. Len(h) = n
      BY <2>2
    <3> HIDE DEF z, n
    <3> QED BY <3>2, <3>3
  <2>4. es = z
    BY DEF h
  <2> HIDE DEF z, es
  <2>5. 1 \in 1 .. n /\ \A i \in 1 .. Len(w) : i + 1 \in 1 .. n
    BY <2>2
  <2> QED BY <2>2, <2>3, <2>4, <2>5
<1> HIDE DEF es
<1>6. ASSUME NEW i \in 1 .. Len(es)
      PROVE  \/ ~IsLabel(es[i])
             \/ i - n \in 1 .. Len(l) /\ es[i] = l[i - n]
  <2>1. CASE i = 1
    BY <1>5, <2>1, HeaderIs
  <2>2. CASE i # 1 /\ i <= n
    <3>1. i - 1 \in 1 .. Len(w) /\ (i - 1) + 1 = i
      BY <1>5, <2>2
    <3>2. es[i] = w[i - 1]
      BY <1>5, <3>1
    <3> QED BY <1>1, <3>1, <3>2
  <2>3. CASE ~(i <= n)
    <3>1. i - n \in 1 .. Len(l) /\ (i - n) + n = i
      BY <1>3, <1>5, <2>3
    <3>2. es[i] = l[i - n]
      BY <1>5, <3>1
    <3> QED BY <3>1, <3>2
  <2> QED BY <2>1, <2>2, <2>3
<1>7. ASSUME NEW i \in 1 .. Len(es) PROVE es[i].type # "unlabel"
  <2> SUFFICES ASSUME es[i].type = "unlabel" PROVE FALSE
    OBVIOUS
  <2>1. IsLabel(es[i])
    BY DEF IsLabel, LabelType
  <2>2. i - n \in 1 .. Len(l) /\ es[i] = l[i - n]
    BY <1>6, <2>1
  <2> QED BY <1>2, <2>2
<1>8. ASSUME NEW t, Marked(es, Len(es), t) PROVE t \in ToSet(labels)
  <2>1. PICK i \in 1 .. Len(es) : es[i].type = "label" /\ es[i].ref = t
    BY <1>8 DEF Marked
  <2>2. i - n \in 1 .. Len(l) /\ es[i] = l[i - n]
    BY <1>6, <2>1 DEF IsLabel, LabelType
  <2>3. labels[i - n] = t /\ i - n \in DOMAIN labels
    <3>1. DOMAIN labels = 1 .. Len(labels)
      BY <1>4
    <3>2. es[i].ref = labels[i - n]
      BY <1>3, <2>2
    <3> QED BY <1>3, <2>1, <2>2, <3>1, <3>2
  <2> QED BY <2>3 DEF ToSet
<1>9. ASSUME NEW t \in ToSet(labels) PROVE Marked(es, Len(es), t)
  <2>1. PICK j \in 1 .. Len(labels) : labels[j] = t
    BY <1>4 DEF ToSet
  <2>2. j + n \in 1 .. Len(es) /\ es[j + n] = l[j] /\ j \in 1 .. Len(l)
    BY <1>3, <1>5
  <2>3. es[j + n].type = "label" /\ es[j + n].ref = t
    BY <1>2, <1>3, <2>1, <2>2
  <2>4. \A i \in j + n + 1 .. Len(es) : i \in 1 .. Len(es)
    BY <1>5, <2>2
  <2> QED BY <1>7, <2>2, <2>3, <2>4 DEF Marked
<1>10. \A t : t \in ToSet(LabelsOf(es)) <=> Marked(es, Len(es), t)
  BY <1>5, LabelsAre
<1>11. ToSet(LabelsOf(es)) = ToSet(labels)
  BY <1>8, <1>9, <1>10
<1> QED BY <1>4, <1>11 DEF es, l, w

(* A fork goes on with the context of the branch it was made from, when    *)
(* nothing was said on top of a label there, and keeps the labels of the   *)
(* entries it holds: createBranchedSession, of any leaf of any session.    *)
THEOREM ForksKeepAll == Spec => ForkKeepsAll
<1>1. Inv => ForkKeeps
  <2> SUFFICES ASSUME Inv, NEW node \in Ids(fileEntries), Forked(node)
               PROVE  KeepsContext(node) /\ KeepsLabels(node)
    BY DEF ForkKeeps
  <2> DEFINE b == Branch(fileEntries, node)
             es == << Header >> \o WithoutLabels(b) \o LabelsRewritten(b)
  <2>1. /\ nextId \in Nat \ {0} /\ Session(fileEntries, nextId) /\ labelsById \in Seq(Nat)
    BY DEF Inv, TypeInv
  <2>2. node \in Nat
    BY <2>1, IdsAre DEF Session, Sound
  <2>3. fileEntries' = es /\ leafId' = LastEntryId(es) /\ labelsById' = LabelsOf(es)
    BY DEF Forked, CreateBranchedSession, Adopt
  <2>4. KeepsContext(node)
    <3> SUFFICES ASSUME NothingOnLabels(b)
                 PROVE  Context(fileEntries', leafId') = Context(fileEntries, node)
      BY DEF KeepsContext
    <3>1. Context(es, LastEntryId(es)) = Context(fileEntries, node)
      BY <2>1, <2>2, ForkedContext
    <3> QED BY <2>3, <3>1
  <2>5. KeepsLabels(node)
    <3>1. ToSet(LabelsOf(es)) = ToSet(labelsById) \cap Ids(WithoutLabels(b))
      BY <2>1, <2>2, ForkedLabels
    <3> QED BY <2>3, <3>1 DEF KeepsLabels
  <2> QED BY <2>4, <2>5
<1>2. Inv /\ [Next]_vars => [ForkKeeps]_vars
  BY <1>1
<1> QED BY <1>2, InvHolds, PTL DEF Spec, ForkKeepsAll
-----------------------------------------------------------------------------
LEMMA MaxIs ==
    ASSUME NEW S \in SUBSET Nat, NEW x \in S, \A y \in S : y <= x
    PROVE  K!Max(S) = x
<1>1. \A y \in S : (\A z \in S : y >= z) => y = x
  <2> SUFFICES ASSUME NEW y \in S, \A z \in S : y >= z PROVE y = x
    OBVIOUS
  <2>1. y >= x /\ y <= x /\ x \in Nat /\ y \in Nat
    OBVIOUS
  <2> QED BY <2>1
<1>2. \A y \in S : x >= y
  BY S \subseteq Nat
<1> QED BY <1>1, <1>2 DEF K!Max

LEMMA MaxIn ==
    ASSUME NEW n \in Nat, NEW S \in SUBSET (0 .. n), S # {}
    PROVE  K!Max(S) \in S /\ \A y \in S : y <= K!Max(S)
<1>1. \E x \in S : \A y \in S : y <= x
  <2>1. CASE S = {0}
    BY <2>1
  <2>2. CASE S # {0}
    <3> DEFINE T == S \ {0}
    <3>1. T \in SUBSET (1 .. n) /\ T # {}
      BY <2>2
    <3> HIDE DEF T
    <3>2. PICK x \in T : \A y \in T : y <= x
      BY <3>1, GreatestNumber
    <3>3. x \in S /\ \A y \in S : y = 0 \/ y \in T
      BY <3>2 DEF T
    <3>4. 0 <= x
      BY <3>1
    <3> QED BY <3>2, <3>3, <3>4
  <2> QED BY <2>1, <2>2
<1>2. PICK x \in S : \A y \in S : y <= x
  BY <1>1
<1>3. S \in SUBSET Nat
  OBVIOUS
<1>4. K!Max(S) = x
  BY <1>2, <1>3, MaxIs
<1> QED BY <1>2, <1>4

LEMMA MinIn ==
    ASSUME NEW S \in SUBSET Nat, S # {}
    PROVE  K!Min(S) \in S /\ \A y \in S : K!Min(S) <= y
<1>1. \E x \in S : \A y \in S : x <= y
  BY LeastNumber
<1>2. \E x \in S : \A y \in S : x =< y
  BY <1>1
<1> QED BY <1>2 DEF K!Min
-----------------------------------------------------------------------------
(* l is the last compaction of the first k entries, or 0.                  *)
LastUpTo(p, k, l) ==
    /\ l \in 0 .. k
    /\ l # 0 => p[l].kind = "compaction"
    /\ \A i \in l + 1 .. k : p[i].kind # "compaction"

LEMMA LastUpToIs ==
    ASSUME path \in Seq(K!Entry), NEW l, LastUpTo(path, Len(path), l)
    PROVE  K!LastCompaction = l
<1> DEFINE S == K!Compactions \cup {0}
<1>1. DOMAIN path = 1 .. Len(path) /\ Len(path) \in Nat
  OBVIOUS
<1>2. S \in SUBSET Nat /\ l \in S
  BY <1>1 DEF LastUpTo, K!Compactions
<1>3. \A y \in S : y <= l
  <2> TAKE y \in S
  <2>1. CASE y = 0
    BY <1>1, <2>1 DEF LastUpTo
  <2>2. CASE y # 0
    <3>1. y \in 1 .. Len(path) /\ path[y].kind = "compaction"
      BY <1>1, <2>2 DEF K!Compactions
    <3>2. ~(y \in l + 1 .. Len(path)) /\ l \in Nat
      BY <3>1 DEF LastUpTo
    <3> QED BY <3>1, <3>2
  <2> QED BY <2>1, <2>2
<1> HIDE DEF S
<1>4. K!Max(S) = l
  BY <1>2, <1>3, MaxIs
<1> QED BY <1>4 DEF S, K!LastCompaction

LEMMA BeforeLastIs ==
    ASSUME path \in Seq(K!Entry), NEW l, LastUpTo(path, Len(path), l), NEW m,
           IF l = 0 THEN m = 0 ELSE LastUpTo(path, l - 1, m)
    PROVE  K!Max((K!Compactions \ {K!LastCompaction}) \cup {0}) = m
<1> DEFINE S == (K!Compactions \ {l}) \cup {0}
<1>1. DOMAIN path = 1 .. Len(path) /\ Len(path) \in Nat /\ l \in 0 .. Len(path)
  BY DEF LastUpTo
<1>2. \A y \in S : y = 0 \/ (y \in 1 .. Len(path) /\ y # l /\ path[y].kind = "compaction")
  BY <1>1 DEF K!Compactions
<1>3. S \in SUBSET Nat
  BY <1>1, <1>2
<1>4. m \in S /\ m \in Nat
  <2>1. CASE l = 0
    BY <2>1
  <2>2. CASE l # 0 /\ m # 0
    <3>1. m \in 1 .. Len(path) /\ m # l /\ path[m].kind = "compaction"
      BY <1>1, <2>2 DEF LastUpTo
    <3> QED BY <1>1, <3>1 DEF K!Compactions
  <2> QED BY <2>1, <2>2
<1>5. \A y \in S : y <= m
  <2> TAKE y \in S
  <2>1. CASE y = 0
    BY <1>4, <2>1
  <2>2. CASE y # 0
    <3>1. y \in 1 .. Len(path) /\ y # l /\ path[y].kind = "compaction"
      BY <1>2, <2>2
    <3>2. ~(y \in l + 1 .. Len(path))
      BY <3>1 DEF LastUpTo
    <3>3. l # 0 /\ y \in 1 .. l - 1
      BY <1>1, <3>1, <3>2
    <3>4. ~(y \in m + 1 .. l - 1)
      BY <3>1, <3>3 DEF LastUpTo
    <3> QED BY <1>1, <1>4, <3>3, <3>4
  <2> QED BY <2>1, <2>2
<1> HIDE DEF S
<1>6. K!Max(S) = m
  BY <1>3, <1>4, <1>5, MaxIs
<1> QED BY <1>6, LastUpToIs DEF S
-----------------------------------------------------------------------------
Visible(e) == e.kind \in K!MessageKind \cup {"custom"}

(* A result answers the last call before it, and the LLM sees nothing      *)
(* between them but other results: no compaction comes there.              *)
Answers(p, i) ==
    /\ p[i].ref \in 1 .. i - 1
    /\ p[p[i].ref].kind = "toolUse"
    /\ \A j \in p[i].ref + 1 .. i - 1 : /\ Visible(p[j]) => p[j].kind = "toolResult"
                                        /\ p[j].kind # "compaction"

(* l is the last compaction of the branch and m the one before; the        *)
(* context begins at f.                                                    *)
Shape(p, l, m, f) ==
    /\ LastUpTo(p, Len(p), l)
    /\ IF l = 0 THEN m = 0 /\ f = 1
       ELSE LastUpTo(p, l - 1, m) /\ f = p[l].ref /\ f \in m + 1 .. l - 1
    /\ \A i \in 1 .. Len(p) :
           p[i].kind = "toolResult" => Answers(p, i) /\ (f <= i => f <= p[i].ref)

(* What the last summary was made from is what is not seen any more, all   *)
(* that was said since the compaction before it included.                  *)
Accounts(p, c, m, f) ==
    /\ c \subseteq 1 .. f - 1
    /\ \A i \in m + 1 .. f - 1 : Visible(p[i]) => i \in c

BranchTypes ==
    /\ path \in Seq(K!Entry)
    /\ \A i \in 1 .. Len(path) : path[i].ref < i

BranchInv ==
    /\ BranchTypes
    /\ \E l, m, f : Shape(path, l, m, f) /\ Accounts(path, covered, m, f)

LEMMA ShapeIs ==
    ASSUME path \in Seq(K!Entry), NEW l, NEW m, NEW f, Shape(path, l, m, f)
    PROVE  /\ K!LastCompaction = l
           /\ K!Max((K!Compactions \ {K!LastCompaction}) \cup {0}) = m
           /\ l \in 0 .. Len(path) /\ m \in Nat /\ f \in Nat /\ m < f /\ f # 0
           /\ l # 0 => f < l
           /\ l = 0 => f = 1
           /\ \A i : i \in K!Context <=> i \in f .. Len(path) /\ Visible(path[i])
<1>1. LastUpTo(path, Len(path), l) /\ l \in 0 .. Len(path) /\ Len(path) \in Nat
  BY DEF Shape, LastUpTo
<1>2. K!LastCompaction = l
  BY <1>1, LastUpToIs
<1>3. IF l = 0 THEN m = 0 ELSE LastUpTo(path, l - 1, m)
  BY DEF Shape
<1>4. K!Max((K!Compactions \ {K!LastCompaction}) \cup {0}) = m
  BY <1>1, <1>3, BeforeLastIs
<1>5. m \in Nat
  BY <1>3 DEF LastUpTo
<1>6. f \in Nat /\ m < f /\ f # 0 /\ (l # 0 => f < l) /\ (l = 0 => f = 1)
  <2>1. CASE l = 0
    BY <2>1 DEF Shape
  <2>2. CASE l # 0
    <3>1. f \in m + 1 .. l - 1
      BY <2>2 DEF Shape
    <3> QED BY <1>1, <1>5, <2>2, <3>1
  <2> QED BY <2>1, <2>2
<1>7. K!Context = K!SeenIn(f, Len(path))
  BY <1>2 DEF K!Context, Shape
<1>8. \A i : i \in K!SeenIn(f, Len(path)) <=> i \in f .. Len(path) /\ Visible(path[i])
  BY DEF K!SeenIn, K!Seen, K!IsMessage, Visible
<1> QED BY <1>1, <1>2, <1>4, <1>5, <1>6, <1>7, <1>8

(* A branch that grows by an entry that is no compaction.                  *)
LEMMA GrownShape ==
    ASSUME NEW p \in Seq(K!Entry), NEW e \in K!Entry, e.kind # "compaction",
           NEW l, NEW m, NEW f, NEW c, Shape(p, l, m, f), Accounts(p, c, m, f),
           e.kind = "toolResult" => Answers(Append(p, e), Len(p) + 1) /\ f <= e.ref
    PROVE  LET q == Append(p, e) IN Shape(q, l, m, f) /\ Accounts(q, c, m, f)
<1> DEFINE q == Append(p, e)
           n == Len(p)
<1>1. /\ q \in Seq(K!Entry) /\ n \in Nat /\ Len(q) = n + 1
      /\ \A i \in 1 .. n : q[i] = p[i]
      /\ q[n + 1] = e
  OBVIOUS
<1> HIDE DEF q
<1>2. l \in 0 .. n /\ LastUpTo(p, n, l)
  BY DEF Shape, LastUpTo
<1>3. LastUpTo(q, Len(q), l)
  <2>1. l # 0 => q[l].kind = "compaction"
    BY <1>1, <1>2 DEF LastUpTo
  <2>2. ASSUME NEW i \in l + 1 .. n + 1 PROVE q[i].kind # "compaction"
    <3>1. CASE i = n + 1
      BY <1>1, <3>1
    <3>2. CASE i # n + 1
      <4>1. i \in l + 1 .. n /\ i \in 1 .. n
        BY <1>1, <1>2, <3>2
      <4> QED BY <1>1, <1>2, <4>1 DEF LastUpTo
    <3> QED BY <3>1, <3>2
  <2>3. l \in 0 .. n + 1
    BY <1>1, <1>2
  <2> QED BY <1>1, <2>1, <2>2, <2>3 DEF LastUpTo
<1>4. IF l = 0 THEN m = 0 /\ f = 1
      ELSE LastUpTo(q, l - 1, m) /\ f = q[l].ref /\ f \in m + 1 .. l - 1
  <2>1. CASE l = 0
    BY <2>1 DEF Shape
  <2>2. CASE l # 0
    <3>1. LastUpTo(p, l - 1, m) /\ f = p[l].ref /\ f \in m + 1 .. l - 1
      BY <2>2 DEF Shape
    <3>2. m \in 0 .. l - 1 /\ (\A i \in m + 1 .. l - 1 : i \in 1 .. n) /\ l \in 1 .. n
      BY <1>1, <1>2, <2>2, <3>1 DEF LastUpTo
    <3>3. m # 0 => m \in 1 .. n
      BY <1>1, <1>2, <3>2
    <3>4. LastUpTo(q, l - 1, m)
      BY <1>1, <3>1, <3>2, <3>3 DEF LastUpTo
    <3> QED BY <1>1, <2>2, <3>1, <3>2, <3>4
  <2> QED BY <2>1, <2>2
<1>5. ASSUME NEW i \in 1 .. n + 1, q[i].kind = "toolResult"
      PROVE  Answers(q, i) /\ (f <= i => f <= q[i].ref)
  <2>1. CASE i = n + 1
    BY <1>1, <1>5, <2>1 DEF q
  <2>2. CASE i # n + 1
    <3>1. i \in 1 .. n /\ q[i] = p[i]
      BY <1>1, <2>2
    <3>2. Answers(p, i) /\ (f <= i => f <= p[i].ref)
      BY <1>5, <3>1 DEF Shape
    <3>3. q[i].ref \in 1 .. i - 1 /\ \A j \in q[i].ref .. i - 1 : q[j] = p[j]
      <4>1. q[i].ref \in 1 .. i - 1
        BY <3>1, <3>2 DEF Answers
      <4>2. \A j \in q[i].ref .. i - 1 : j \in 1 .. n
        BY <1>1, <3>1, <4>1
      <4> QED BY <1>1, <4>1, <4>2
    <3>4. \A j \in q[i].ref + 1 .. i - 1 : j \in q[i].ref .. i - 1
      BY <3>3
    <3>5. q[i].ref \in q[i].ref .. i - 1
      BY <3>3
    <3> QED BY <3>1, <3>2, <3>3, <3>4, <3>5 DEF Answers
  <2> QED BY <2>1, <2>2
<1>6. Shape(q, l, m, f)
  BY <1>1, <1>3, <1>4, <1>5 DEF Shape
<1>7. f - 1 <= n /\ m \in Nat /\ f \in Nat
  <2>1. CASE l = 0
    BY <1>1, <2>1 DEF Shape
  <2>2. CASE l # 0
    <3>1. m \in 0 .. l - 1 /\ f \in m + 1 .. l - 1
      BY <2>2 DEF Shape, LastUpTo
    <3> QED BY <1>1, <1>2, <3>1
  <2> QED BY <2>1, <2>2
<1>8. \A i \in m + 1 .. f - 1 : q[i] = p[i]
  BY <1>1, <1>7
<1>9. Accounts(q, c, m, f)
  BY <1>8 DEF Accounts
<1> QED BY <1>6, <1>9 DEF q

LEMMA GrowInv ==
    ASSUME BranchInv, NEW kind \in K!Kind \ {"compaction"}, NEW size \in Sizes \cup {0},
           NEW ref \in Nat, ref < Len(path) + 1, K!Grow(kind, size, ref),
           NEW l, NEW m, NEW f, Shape(path, l, m, f), Accounts(path, covered, m, f),
           kind = "toolResult" => Answers(path', Len(path) + 1) /\ f <= ref
    PROVE  BranchInv'
<1> DEFINE e == [kind |-> kind, size |-> size, ref |-> ref]
<1>1. path' = Append(path, e) /\ covered' = covered
  BY DEF K!Grow
<1>2. e \in K!Entry /\ e.kind = kind /\ e.ref = ref
  BY DEF K!Entry
<1> HIDE DEF e
<1>3. path \in Seq(K!Entry) /\ \A i \in 1 .. Len(path) : path[i].ref < i
  BY DEF BranchInv, BranchTypes
<1>4. /\ path' \in Seq(K!Entry) /\ Len(path) \in Nat /\ Len(path') = Len(path) + 1
      /\ \A i \in 1 .. Len(path) : path'[i] = path[i]
      /\ path'[Len(path) + 1] = e
  BY <1>1, <1>2, <1>3
<1>5. \A i \in 1 .. Len(path') : path'[i].ref < i
  <2> TAKE i \in 1 .. Len(path')
  <2>1. i = Len(path) + 1 \/ i \in 1 .. Len(path)
    BY <1>4
  <2> QED BY <1>2, <1>3, <1>4, <2>1
<1>6. Shape(path', l, m, f) /\ Accounts(path', covered', m, f)
  BY <1>1, <1>2, <1>3, GrownShape
<1> QED BY <1>4, <1>5, <1>6 DEF BranchInv, BranchTypes

(* The call that a new result answers.                                     *)
LEMMA AppendToolResultInv ==
    ASSUME BranchInv, K!AppendToolResult
    PROVE  BranchInv'
<1> DEFINE n == Len(path)
           s == K!LastSeen
           U == {i \in DOMAIN path : path[i].kind = "toolUse"}
           r == K!Max(U)
<1>1. path \in Seq(K!Entry) /\ n \in Nat /\ DOMAIN path = 1 .. n
  BY DEF BranchInv, BranchTypes
<1>2. PICK l, m, f : Shape(path, l, m, f) /\ Accounts(path, covered, m, f)
  BY DEF BranchInv
<1>3. /\ K!LastCompaction = l /\ l \in 0 .. n /\ f \in Nat
      /\ (l # 0 => f < l) /\ (l = 0 => f = 1)
  BY <1>1, <1>2, ShapeIs
<1>4. s > l /\ path[s].kind \in {"toolUse", "toolResult"}
  BY <1>3 DEF K!AppendToolResult
<1>5. PICK size \in Sizes : K!Grow("toolResult", size, r)
  BY DEF K!AppendToolResult
<1>6. s \in 1 .. n /\ \A i \in 1 .. n : Visible(path[i]) => i <= s
  <2> DEFINE S == K!SeenIn(1, n) \cup {0}
  <2>1. S \in SUBSET (0 .. n) /\ S # {}
    BY <1>1 DEF K!SeenIn
  <2>2. \A i \in 1 .. n : Visible(path[i]) => i \in S
    BY DEF K!SeenIn, K!Seen, K!IsMessage, Visible
  <2> HIDE DEF S
  <2>3. K!Max(S) \in S /\ \A y \in S : y <= K!Max(S)
    BY <1>1, <2>1, MaxIn
  <2>4. s = K!Max(S)
    BY DEF K!LastSeen, S
  <2>5. s \in 0 .. n
    BY <2>1, <2>3, <2>4
  <2>6. s # 0
    BY <1>3, <1>4, <2>5
  <2> QED BY <1>1, <2>2, <2>3, <2>4, <2>5, <2>6
<1> HIDE DEF s
<1>7. \A k : k \in {"toolUse", "toolResult"} => k \in K!MessageKind
  BY DEF K!MessageKind
<1>8. \A i \in U : i \in 1 .. n /\ path[i].kind = "toolUse" /\ Visible(path[i]) /\ i <= s
  BY <1>1, <1>6, <1>7 DEF Visible
<1>9. /\ r \in 1 .. s /\ path[r].kind = "toolUse"
      /\ \A j \in r + 1 .. s : path[j].kind = "toolResult" \/ ~Visible(path[j])
      /\ \A j \in r + 1 .. s : path[j].kind # "compaction"
  <2>1. U \in SUBSET Nat
    BY <1>1
  <2>2. CASE path[s].kind = "toolUse"
    <3>1. s \in U
      BY <1>1, <1>6, <2>2
    <3>2. \A y \in U : y <= s
      BY <1>8
    <3> HIDE DEF U
    <3>3. r = s
      BY <2>1, <3>1, <3>2, MaxIs
    <3>4. s \in Nat
      BY <1>6
    <3> QED BY <1>6, <2>2, <3>3, <3>4
  <2>3. CASE path[s].kind = "toolResult"
    <3> DEFINE q == path[s].ref
    <3>1. Answers(path, s)
      BY <1>2, <1>6, <2>3 DEF Shape
    <3>2. /\ q \in 1 .. s - 1 /\ path[q].kind = "toolUse"
          /\ \A j \in q + 1 .. s - 1 : /\ Visible(path[j]) => path[j].kind = "toolResult"
                                       /\ path[j].kind # "compaction"
      BY <3>1 DEF Answers
    <3> HIDE DEF q
    <3>3. q \in U
      BY <1>1, <1>6, <3>2
    <3>4. \A y \in U : y <= q
      <4> TAKE y \in U
      <4>1. y \in 1 .. s /\ path[y].kind = "toolUse" /\ Visible(path[y])
        BY <1>6, <1>8
      <4>2. y # s /\ ~(y \in q + 1 .. s - 1)
        BY <2>3, <3>2, <4>1
      <4> QED BY <1>6, <3>2, <4>1, <4>2
    <3> HIDE DEF U
    <3>5. r = q
      BY <2>1, <3>3, <3>4, MaxIs
    <3>6. \A j \in q + 1 .. s : j = s \/ j \in q + 1 .. s - 1
      BY <1>6, <3>2
    <3> QED BY <1>6, <2>3, <3>2, <3>5, <3>6
  <2> QED BY <1>4, <2>2, <2>3
<1> HIDE DEF r
<1>10. \A j \in r + 1 .. n : /\ Visible(path[j]) => path[j].kind = "toolResult"
                             /\ path[j].kind # "compaction"
  <2> TAKE j \in r + 1 .. n
  <2>1. CASE j <= s
    <3>1. j \in r + 1 .. s
      BY <1>6, <1>9, <2>1
    <3> QED BY <1>9, <3>1
  <2>2. CASE ~(j <= s)
    <3>1. j \in 1 .. n /\ j \in l + 1 .. n
      BY <1>3, <1>4, <1>6, <1>9, <2>2
    <3>2. ~Visible(path[j])
      BY <1>6, <2>2, <3>1
    <3>3. path[j].kind # "compaction"
      BY <1>2, <3>1 DEF Shape, LastUpTo
    <3> QED BY <3>2, <3>3
  <2> QED BY <2>1, <2>2
<1>11. f <= r
  <2>1. CASE l = 0
    BY <1>3, <1>9, <2>1
  <2>2. CASE l # 0
    <3>1. path[l].kind = "compaction"
      BY <1>2, <2>2 DEF Shape, LastUpTo
    <3>2. ~(l \in r + 1 .. n)
      BY <1>10, <3>1
    <3> QED BY <1>1, <1>3, <1>6, <1>9, <2>2, <3>2
  <2> QED BY <2>1, <2>2
<1> DEFINE e == [kind |-> "toolResult", size |-> size, ref |-> r]
<1>12. /\ path' = Append(path, e) /\ e \in K!Entry /\ e.ref = r
  <2>1. path' = Append(path, e)
    BY <1>5 DEF K!Grow
  <2>2. r \in Nat /\ "toolResult" \in K!Kind
    BY <1>9 DEF K!Kind, K!MessageKind
  <2> QED BY <2>1, <2>2 DEF K!Entry
<1> HIDE DEF e
<1>13. /\ \A i \in 1 .. n : path'[i] = path[i]
       /\ path'[n + 1] = e
  BY <1>1, <1>12
<1>14. Answers(path', n + 1)
  <2>1. path'[n + 1].ref = r /\ r \in 1 .. n + 1 - 1 /\ n + 1 - 1 = n
    BY <1>1, <1>6, <1>9, <1>12, <1>13
  <2>2. path'[r].kind = "toolUse"
    BY <1>9, <1>13, <2>1
  <2>3. \A j \in r + 1 .. n : path'[j] = path[j]
    BY <1>9, <1>13
  <2> QED BY <1>10, <2>1, <2>2, <2>3 DEF Answers
<1>15. "toolResult" \in K!Kind \ {"compaction"} /\ size \in Sizes \cup {0} /\ r \in Nat
       /\ r < n + 1
  BY <1>6, <1>9 DEF K!Kind, K!MessageKind
<1> QED BY <1>2, <1>5, <1>11, <1>14, <1>15, GrowInv
-----------------------------------------------------------------------------
(* What findCutPoint keeps of the entries from start on: it begins where a *)
(* result has its call with it.                                            *)
LEMMA FirstKeptIs ==
    ASSUME path \in Seq(K!Entry), NEW start \in 1 .. Len(path),
           \A i \in start .. Len(path) :
               /\ path[i].kind # "compaction"
               /\ path[i].kind = "toolResult" => Answers(path, i) /\ start <= path[i].ref
    PROVE  LET F == K!FirstKept(start)
           IN  /\ F \in start .. Len(path)
               /\ \A i \in F .. Len(path) :
                      path[i].kind = "toolResult" => F <= path[i].ref
<1> DEFINE n == Len(path)
           cuts == K!CutPoints(start)
           over == {i \in start .. Len(path) :
                      K!IsMessage(i) /\ K!Tokens(i) >= KeepRecentTokens}
           after == {c \in cuts : over # {} /\ c >= K!Max(over)}
           cut == K!CutIndex(start)
           I == {i \in start .. cut : \A j \in i .. cut - 1 : ~K!IsMessage(j)}
           F == K!FirstKept(start)
<1>1. n \in Nat /\ start \in Nat /\ start <= n
  OBVIOUS
<1>2. cut = IF cuts = {} THEN start ELSE K!Min(IF after = {} THEN cuts ELSE after)
  BY DEF K!CutIndex
<1>3. \A i : i \in cuts <=> /\ i \in start .. n /\ Visible(path[i])
                            /\ path[i].kind # "toolResult"
  BY DEF K!CutPoints, K!SeenIn, K!Seen, K!IsMessage, Visible
<1>4. cuts \in SUBSET Nat
  BY <1>1, <1>3
<1>5. IF cuts = {} THEN cut = start ELSE cut \in cuts
  <2>1. CASE cuts = {}
    BY <1>2, <2>1
  <2>2. CASE cuts # {}
    <3> DEFINE S == IF after = {} THEN cuts ELSE after
    <3>1. S \in SUBSET Nat /\ S # {} /\ S \subseteq cuts
      BY <1>4, <2>2
    <3>2. cut = K!Min(S)
      BY <1>2, <2>2
    <3> HIDE DEF S
    <3>3. cut \in S
      BY <3>1, <3>2, MinIn
    <3> QED BY <2>2, <3>1, <3>3
  <2> QED BY <2>1, <2>2
<1>6. F = K!Min(I)
  BY DEF K!FirstKept
<1> HIDE DEF cut, cuts, after, over
<1>7. cut \in start .. n
  BY <1>1, <1>3, <1>5
<1>8. F \in start .. cut /\ \A j \in F .. cut - 1 : ~K!IsMessage(j)
  <2>1. I \in SUBSET Nat /\ cut \in I
    BY <1>1, <1>7
  <2>2. F \in I
    <3> HIDE DEF I, F
    <3> QED BY <1>6, <2>1, MinIn
  <2> HIDE DEF F
  <2> QED BY <2>2
<1> HIDE DEF F
<1>9. F \in start .. n
  BY <1>1, <1>7, <1>8
<1>10. ASSUME NEW i \in F .. n, path[i].kind = "toolResult", ~(F <= path[i].ref)
       PROVE  FALSE
  <2> DEFINE r == path[i].ref
  <2>1. i \in start .. n
    BY <1>9
  <2>2. Answers(path, i) /\ start <= r
    BY <1>10, <2>1
  <2>3. /\ r \in 1 .. i - 1 /\ path[r].kind = "toolUse"
        /\ \A j \in r + 1 .. i - 1 : Visible(path[j]) => path[j].kind = "toolResult"
    BY <2>2 DEF Answers
  <2>4. Visible(path[r])
    BY <2>3 DEF Visible, K!MessageKind
  <2>5. r < F /\ r \in start .. n
    BY <1>9, <1>10, <2>1, <2>2, <2>3
  <2>6. r \in cuts
    BY <1>3, <2>3, <2>4, <2>5
  <2>7. cut \in cuts
    BY <1>5, <2>6
  <2>8. Visible(path[cut]) /\ path[cut].kind # "toolResult"
    BY <1>3, <2>7
  <2>9. cut # i
    BY <1>10, <2>8
  <2>10. ~(i < cut)
    <3> SUFFICES ASSUME i < cut PROVE FALSE
      OBVIOUS
    <3>1. i \in F .. cut - 1
      BY <1>7, <1>9, <2>1
    <3>2. ~K!IsMessage(i)
      BY <1>8, <3>1
    <3> QED BY <1>10, <3>2 DEF K!IsMessage, K!MessageKind
  <2>11. cut \in r + 1 .. i - 1
    BY <1>7, <1>8, <2>1, <2>3, <2>5, <2>9, <2>10
  <2> QED BY <2>3, <2>8, <2>11
<1> QED BY <1>9, <1>10 DEF F

(* What is summarised of the entries from start on: all that was said up   *)
(* to there.                                                               *)
LEMMA SummarizedIs ==
    ASSUME path \in Seq(K!Entry), NEW start \in 1 .. Len(path),
           K!FirstKept(start) \in start .. Len(path)
    PROVE  LET F == K!FirstKept(start)
           IN  /\ K!Summarized(start) \subseteq covered \cup (start .. F - 1)
               /\ \A i \in start .. F - 1 : Visible(path[i]) => i \in K!Summarized(start)
<1> DEFINE F == K!FirstKept(start)
           E == K!HistoryEnd(start)
           T == {i \in start .. F : path[i].kind \in {"user", "bash", "custom"}} \cup {0}
<1>1. E \in start .. F
  <2>1. E = IF K!IsSplitTurn(start) THEN K!TurnStart(start, F) ELSE F
    BY DEF K!HistoryEnd
  <2>2. K!TurnStart(start, F) = K!Max(T)
    BY DEF K!TurnStart
  <2>3. K!IsSplitTurn(start) => K!TurnStart(start, F) # 0
    BY DEF K!IsSplitTurn
  <2> HIDE DEF F, E
  <2>4. F \in Nat /\ start \in Nat /\ F \in start .. F
    BY DEF F
  <2>5. T \in SUBSET (0 .. F) /\ T # {}
    BY <2>4
  <2>6. K!Max(T) \in T
    <3> HIDE DEF T
    <3> QED BY <2>4, <2>5, MaxIn
  <2> QED BY <2>1, <2>2, <2>3, <2>4, <2>6
<1>2. /\ \A i : i \in K!MessagesToSummarize(start) <=> i \in start .. E - 1 /\ Visible(path[i])
      /\ \A i : i \in K!TurnPrefixMessages(start) <=> i \in E .. F - 1 /\ Visible(path[i])
  BY DEF K!MessagesToSummarize, K!TurnPrefixMessages, K!SeenIn, K!Seen, K!IsMessage, Visible
<1>3. /\ K!Summarized(start) \subseteq
             K!MessagesToSummarize(start) \cup K!TurnPrefixMessages(start) \cup covered
      /\ K!MessagesToSummarize(start) \cup K!TurnPrefixMessages(start)
             \subseteq K!Summarized(start)
  BY DEF K!Summarized
<1> HIDE DEF E
<1>4. F \in Nat /\ start \in Nat
  OBVIOUS
<1> HIDE DEF F
<1>5. \A i : i \in start .. E - 1 \/ i \in E .. F - 1 => i \in start .. F - 1
  BY <1>1, <1>4
<1>6. \A i \in start .. F - 1 : i \in start .. E - 1 \/ i \in E .. F - 1
  BY <1>1, <1>4
<1> QED BY <1>2, <1>3, <1>5, <1>6 DEF F

(* A compaction: the one before it is now the one before the last.         *)
LEMMA CompactInv ==
    ASSUME BranchInv, K!Compact
    PROVE  BranchInv' /\ K!KeepsTail
<1> DEFINE n == Len(path)
<1>1. path \in Seq(K!Entry) /\ n \in Nat /\ \A i \in 1 .. n : path[i].ref < i
  BY DEF BranchInv, BranchTypes
<1>2. PICK l, m, f : Shape(path, l, m, f) /\ Accounts(path, covered, m, f)
  BY DEF BranchInv
<1>3. /\ K!LastCompaction = l /\ l \in 0 .. n /\ f \in Nat /\ m \in Nat /\ f # 0
      /\ (l # 0 => f < l) /\ (l = 0 => f = 1)
      /\ \A i : i \in K!Context <=> i \in f .. n /\ Visible(path[i])
  BY <1>1, <1>2, ShapeIs
<1> DEFINE start == l + 1
           F == K!FirstKept(start)
           e == [kind |-> "compaction", size |-> 0, ref |-> F]
<1>4. /\ path # << >> /\ path[n].kind # "compaction"
      /\ path' = Append(path, e) /\ covered' = K!Summarized(start)
  BY <1>3 DEF K!Compact
<1>5. start \in 1 .. n
  <2>1. n # 0
    BY <1>1, <1>4
  <2>2. l # n
    BY <1>2, <1>4, <2>1 DEF Shape, LastUpTo
  <2> QED BY <1>1, <1>3, <2>2
<1>6. \A i \in start .. n : path[i].kind # "compaction"
  BY <1>2 DEF Shape, LastUpTo
<1>7. ASSUME NEW i \in start .. n, path[i].kind = "toolResult"
      PROVE  Answers(path, i) /\ start <= path[i].ref
  <2>1. i \in 1 .. n
    BY <1>3
  <2>2. Answers(path, i) /\ (f <= i => f <= path[i].ref)
    BY <1>2, <1>7, <2>1 DEF Shape
  <2>3. path[i].ref \in 1 .. i - 1
    BY <2>2 DEF Answers
  <2>4. ~(l \in path[i].ref .. i - 1)
    <3> SUFFICES ASSUME l \in path[i].ref .. i - 1 PROVE FALSE
      OBVIOUS
    <3>1. l # 0
      BY <2>3
    <3>2. path[l].kind = "compaction"
      BY <1>2, <3>1 DEF Shape, LastUpTo
    <3>3. l = path[i].ref \/ l \in path[i].ref + 1 .. i - 1
      BY <2>3
    <3> QED BY <2>2, <3>2, <3>3 DEF Answers
  <2> QED BY <1>3, <2>1, <2>2, <2>3, <2>4
<1>8. /\ F \in start .. n
      /\ \A i \in F .. n : path[i].kind = "toolResult" => F <= path[i].ref
  BY <1>1, <1>5, <1>6, <1>7, FirstKeptIs
<1>9. /\ covered' \subseteq covered \cup (start .. F - 1)
      /\ \A i \in start .. F - 1 : Visible(path[i]) => i \in covered'
  BY <1>1, <1>4, <1>5, <1>8, SummarizedIs
<1> HIDE DEF F
<1>10. e \in K!Entry /\ e.kind = "compaction" /\ e.ref = F
  <2>1. F \in Nat /\ "compaction" \in K!Kind
    BY <1>5, <1>8 DEF K!Kind
  <2> QED BY <2>1 DEF K!Entry
<1> HIDE DEF e
<1>11. /\ path' \in Seq(K!Entry) /\ Len(path') = n + 1
       /\ \A i \in 1 .. n : path'[i] = path[i]
       /\ path'[n + 1] = e
  BY <1>1, <1>4, <1>10
<1>12. f <= F /\ F \in Nat /\ F < n + 1
  BY <1>1, <1>3, <1>5, <1>8
<1>13. ASSUME NEW i \in 1 .. n + 1 PROVE path'[i].ref < i
  <2>1. CASE i = n + 1
    BY <1>10, <1>11, <1>12, <2>1
  <2>2. CASE i # n + 1
    BY <1>1, <1>11, <2>2
  <2> QED BY <2>1, <2>2
<1>14. LastUpTo(path', n + 1, n + 1) /\ LastUpTo(path', n, l)
  <2>1. \A i \in n + 1 + 1 .. n + 1 : FALSE
    BY <1>1
  <2>2. LastUpTo(path', n + 1, n + 1)
    BY <1>1, <1>10, <1>11, <2>1 DEF LastUpTo
  <2>3. \A i \in l + 1 .. n : path'[i] = path[i]
    BY <1>3, <1>11
  <2>4. l # 0 => path'[l] = path[l]
    BY <1>3, <1>11
  <2>5. LastUpTo(path, n, l)
    BY <1>2 DEF Shape
  <2> QED BY <2>2, <2>3, <2>4, <2>5 DEF LastUpTo
<1>15. ASSUME NEW i \in 1 .. n + 1, path'[i].kind = "toolResult"
       PROVE  Answers(path', i) /\ (F <= i => F <= path'[i].ref)
  <2>1. i # n + 1
    BY <1>10, <1>11, <1>15
  <2>2. i \in 1 .. n /\ path'[i] = path[i]
    BY <1>11, <2>1
  <2>3. Answers(path, i)
    BY <1>2, <1>15, <2>2 DEF Shape
  <2>4. path'[i].ref \in 1 .. i - 1 /\ \A j \in path'[i].ref .. i - 1 : path'[j] = path[j]
    <3>1. path'[i].ref \in 1 .. i - 1
      BY <2>2, <2>3 DEF Answers
    <3>2. \A j \in path'[i].ref .. i - 1 : j \in 1 .. n
      BY <1>1, <2>2, <3>1
    <3> QED BY <1>11, <3>1, <3>2
  <2>5. /\ path'[i].ref \in path'[i].ref .. i - 1
        /\ \A j \in path'[i].ref + 1 .. i - 1 : j \in path'[i].ref .. i - 1
    BY <2>4
  <2>6. Answers(path', i)
    BY <2>2, <2>3, <2>4, <2>5 DEF Answers
  <2>7. F <= i => F <= path'[i].ref
    <3>1. F <= i => i \in F .. n
      BY <1>12, <2>2
    <3> QED BY <1>8, <1>15, <2>2, <3>1
  <2> QED BY <2>6, <2>7
<1>16. Shape(path', n + 1, l, F)
  <2>1. n + 1 # 0 /\ n + 1 - 1 = n /\ F = path'[n + 1].ref /\ F \in l + 1 .. n
    BY <1>1, <1>8, <1>10, <1>11
  <2> QED BY <1>11, <1>14, <1>15, <2>1 DEF Shape
<1>17. Accounts(path', covered', l, F)
  <2>1. covered \subseteq 1 .. F - 1
    <3>1. covered \subseteq 1 .. f - 1
      BY <1>2 DEF Accounts
    <3>2. 1 .. f - 1 \subseteq 1 .. F - 1
      BY <1>3, <1>12
    <3> QED BY <3>1, <3>2
  <2>2. start .. F - 1 \subseteq 1 .. F - 1
    BY <1>3, <1>12
  <2>3. \A i \in start .. F - 1 : path'[i] = path[i]
    BY <1>3, <1>11, <1>12
  <2> QED BY <1>9, <2>1, <2>2, <2>3 DEF Accounts
<1>18. BranchInv'
  <2>1. BranchTypes'
    BY <1>11, <1>13 DEF BranchTypes
  <2> QED BY <1>16, <1>17, <2>1 DEF BranchInv
<1>19. \A i : i \in K!Context' <=> i \in F .. n + 1 /\ Visible(path'[i])
  <2> DEFINE S == {i \in DOMAIN path' : path'[i].kind = "compaction"} \cup {0}
  <2>1. DOMAIN path' = 1 .. n + 1
    BY <1>1, <1>11
  <2>2. S \in SUBSET Nat /\ n + 1 \in S /\ \A y \in S : y <= n + 1
    BY <1>1, <1>10, <1>11, <2>1
  <2>3. K!LastCompaction' = K!Max(S)
    BY DEF K!LastCompaction, K!Compactions
  <2> HIDE DEF S
  <2>4. K!LastCompaction' = n + 1
    BY <2>2, <2>3, MaxIs
  <2>5. K!Context' = {i \in F .. n + 1 : Visible(path'[i])}
    BY <1>1, <1>10, <1>11, <2>4 DEF K!Context, K!SeenIn, K!Seen, K!IsMessage, Visible
  <2> QED BY <2>5
<1>20. K!Context' = {j \in K!Context : j >= F}
  <2>1. ASSUME NEW i, i \in K!Context' PROVE i \in K!Context /\ i >= F
    <3>1. i \in F .. n + 1 /\ Visible(path'[i])
      BY <1>19, <2>1
    <3>2. i # n + 1
      BY <1>10, <1>11, <3>1 DEF Visible, K!MessageKind
    <3>3. i \in f .. n /\ i \in 1 .. n /\ i >= F
      BY <1>1, <1>3, <1>12, <3>1, <3>2
    <3> QED BY <1>3, <1>11, <3>1, <3>3
  <2>2. ASSUME NEW i \in K!Context, i >= F PROVE i \in K!Context'
    <3>1. i \in f .. n /\ Visible(path[i])
      BY <1>3
    <3>2. i \in F .. n + 1 /\ i \in 1 .. n
      BY <1>3, <1>12, <2>2, <3>1
    <3> QED BY <1>11, <1>19, <3>1, <3>2
  <2> QED BY <2>1, <2>2
<1>21. F \in 1 .. Len(path)
  BY <1>5, <1>8
<1> QED BY <1>18, <1>20, <1>21 DEF K!KeepsTail
-----------------------------------------------------------------------------
(* The steps of the branch, and the invariant.                             *)
LEMMA BranchNextInv ==
    ASSUME BranchInv, K!Next
    PROVE  BranchInv'
<1>1. path \in Seq(K!Entry) /\ Len(path) \in Nat
  BY DEF BranchInv, BranchTypes
<1>2. PICK l, m, f : Shape(path, l, m, f) /\ Accounts(path, covered, m, f)
  BY DEF BranchInv
<1>3. ASSUME NEW kind \in K!Kind \ {"compaction", "toolResult"},
             NEW size \in Sizes \cup {0}, K!Grow(kind, size, 0)
      PROVE  BranchInv'
  <2>1. kind \in K!Kind \ {"compaction"} /\ kind # "toolResult" /\ 0 < Len(path) + 1
    BY <1>1, <1>3
  <2> QED BY <1>2, <1>3, <2>1, GrowInv
<1>4. CASE K!AppendMessage
  <2>1. PICK kind \in K!MessageKind \ {"toolResult"}, size \in Sizes : K!Grow(kind, size, 0)
    BY <1>4 DEF K!AppendMessage
  <2>2. kind \in K!Kind \ {"compaction", "toolResult"}
    BY DEF K!Kind, K!MessageKind
  <2> QED BY <1>3, <2>1, <2>2
<1>5. CASE K!AppendToolResult
  BY <1>5, AppendToolResultInv
<1>6. CASE K!AppendCustomMessage
  BY <1>3, <1>6 DEF K!AppendCustomMessage, K!Kind
<1>7. CASE K!AppendNote
  BY <1>3, <1>7 DEF K!AppendNote, K!Kind
<1>8. CASE K!Compact
  BY <1>8, CompactInv
<1> QED BY <1>4, <1>5, <1>6, <1>7, <1>8 DEF K!Next

LEMMA BranchInvariant == MCSpec => []BranchInv
<1>1. MCInit => BranchInv
  <2> SUFFICES ASSUME MCInit PROVE BranchInv
    OBVIOUS
  <2>1. path = << >> /\ covered = {}
    BY DEF MCInit, K!Init
  <2>2. BranchTypes
    BY <2>1 DEF BranchTypes
  <2>3. Shape(path, 0, 0, 1) /\ Accounts(path, covered, 0, 1)
    BY <2>1 DEF Shape, Accounts, LastUpTo
  <2> QED BY <2>2, <2>3 DEF BranchInv
<1>2. BranchInv /\ [MCNext]_all => BranchInv'
  <2> SUFFICES ASSUME BranchInv, [MCNext]_all PROVE BranchInv'
    OBVIOUS
  <2>1. K!Next \/ UNCHANGED <<path, covered>>
    BY DEF MCNext, SessionNext, CompactionNext, TreeNext, RequestNext, all, branch
  <2>2. CASE K!Next
    BY <2>2, BranchNextInv
  <2>3. CASE UNCHANGED <<path, covered>>
    BY <2>3 DEF BranchInv, BranchTypes
  <2> QED BY <2>1, <2>2, <2>3
<1> QED BY <1>1, <1>2, PTL DEF MCSpec

(* However often the branch was compacted, a tool result before the LLM    *)
(* has its call with it; all that was said since the compaction before the *)
(* last is there or was summarised, and nothing is there and summarised    *)
(* (findCutPoint, prepareCompaction, buildSessionContext).                 *)
THEOREM CompactionsKeep == MCSpec => []CompactionKeeps
<1>1. BranchInv => CompactionKeeps
  <2> SUFFICES ASSUME BranchInv PROVE CompactionKeeps
    OBVIOUS
  <2> DEFINE n == Len(path)
  <2>1. path \in Seq(K!Entry) /\ n \in Nat
    BY DEF BranchInv, BranchTypes
  <2>2. PICK l, m, f : Shape(path, l, m, f) /\ Accounts(path, covered, m, f)
    BY DEF BranchInv
  <2>3. /\ m \in Nat /\ f \in Nat /\ m < f /\ f # 0
        /\ \A i : i \in K!Context <=> i \in f .. n /\ Visible(path[i])
    BY <2>1, <2>2, ShapeIs
  <2>4. K!Max((K!Compactions \ {K!LastCompaction}) \cup {0}) = m
    BY <2>1, <2>2, ShapeIs
  <2>5. K!ResultsFollowCalls
    <3> SUFFICES ASSUME NEW i \in K!Context, path[i].kind = "toolResult"
                 PROVE  path[i].ref \in K!Context
      BY DEF K!ResultsFollowCalls
    <3>1. i \in f .. n /\ i \in 1 .. n
      BY <2>1, <2>3
    <3>2. Answers(path, i) /\ f <= path[i].ref
      BY <2>2, <3>1 DEF Shape
    <3>3. path[i].ref \in f .. n /\ path[path[i].ref].kind = "toolUse"
      BY <2>1, <2>3, <3>1, <3>2 DEF Answers
    <3> QED BY <2>3, <3>3 DEF Visible, K!MessageKind
  <2>6. K!NothingRecentForgotten
    <3> SUFFICES ASSUME NEW i \in K!SeenIn(m + 1, n) PROVE i \in K!Context \cup covered
      BY <2>4 DEF K!NothingRecentForgotten
    <3>1. i \in m + 1 .. n /\ Visible(path[i])
      BY DEF K!SeenIn, K!Seen, K!IsMessage, Visible
    <3>2. i \in f .. n \/ i \in m + 1 .. f - 1
      BY <2>1, <2>3, <3>1
    <3> QED BY <2>2, <2>3, <3>1, <3>2 DEF Accounts
  <2>7. K!NothingTwice
    <3>1. \A i \in covered : ~(i \in f .. n)
      BY <2>1, <2>2, <2>3 DEF Accounts
    <3> QED BY <2>3, <3>1 DEF K!NothingTwice
  <2> QED BY <2>5, <2>6, <2>7 DEF CompactionKeeps
<1> QED BY <1>1, BranchInvariant, PTL

(* A compaction leaves a tail of what the LLM saw, and never brings back   *)
(* what an earlier one had taken away (findCutPoint, buildSessionContext). *)
THEOREM ContextsAreTails == MCSpec => ContextIsTail
<1>1. BranchInv /\ [MCNext]_all => [KeepsTail]_all
  <2> SUFFICES ASSUME BranchInv PROVE KeepsTail
    OBVIOUS
  <2>1. CASE K!Compact
    BY <2>1, CompactInv DEF KeepsTail
  <2>2. CASE ~K!Compact
    BY <2>2 DEF KeepsTail, K!KeepsTail
  <2> QED BY <2>1, <2>2
<1> QED BY <1>1, BranchInvariant, PTL DEF MCSpec, ContextIsTail
=============================================================================
