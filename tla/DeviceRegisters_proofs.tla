------------------------- MODULE DeviceRegisters_proofs -------------------------
(***************************************************************************)
(* Proofs about DeviceRegisters, for any keys, watch list, sizes of        *)
(* packets and of blocks, and any number of failures.  Induction over the  *)
(* numbers is that of SetInduction, from the well-foundedness of <.        *)
(***************************************************************************)
EXTENDS DeviceRegisters, WellFoundedInduction, SequenceTheorems, TLAPS

-----------------------------------------------------------------------------
(* Induction. *)

\* A set of naturals that is not empty has a least element.
LEMMA LeastElement ==
  ASSUME NEW S, S \subseteq Nat, S # {}
  PROVE  \E m \in S : \A k \in S : ~(k < m)
<1> DEFINE R == OpToRel(<, Nat)
<1>1. IsWellFoundedOn(R, Nat)  BY NatLessThanWellFounded
<1>2. \A x, y \in Nat : x < y => <<x, y>> \in R
  BY DEF OpToRel
<1> HIDE DEF R
<1>3. \E x \in S : \A y \in S : ~(<<y, x>> \in R)  BY <1>1, WFMin
<1>. QED  BY <1>2, <1>3

\* A set that has zero and the successors of its elements has all naturals.
LEMMA SetInduction ==
  ASSUME NEW S, 0 \in S, \A n \in Nat : n \in S => n + 1 \in S
  PROVE  \A n \in Nat : n \in S
<1> SUFFICES ASSUME NEW n \in Nat, n \notin S PROVE FALSE  OBVIOUS
<1>1. PICK m \in Nat : m \notin S /\ \A k \in Nat : k \notin S => ~(k < m)
  <2> DEFINE T == {k \in Nat : k \notin S}
  <2>1. T \subseteq Nat /\ T # {}  OBVIOUS
  <2> HIDE DEF T
  <2>2. \E k \in T : \A l \in T : ~(l < k)  BY <2>1, LeastElement
  <2>. QED  BY <2>2 DEF T
<1>2. m # 0  BY <1>1
<1>3. PICK k \in Nat : m = k + 1  BY <1>2
<1>4. k \in S  BY <1>1, <1>3
<1>. QED  BY <1>1, <1>3, <1>4

\* A function on 1 .. n is a sequence.
LEMMA FunctionIsSeq ==
  ASSUME NEW S, NEW n \in Nat, NEW f \in [1 .. n -> S]
  PROVE  f \in Seq(S) /\ Len(f) = n
<1>1. f \in Seq(S)  BY SeqDef
<1>2. Len(f) \in Nat /\ 1 .. Len(f) = 1 .. n  BY <1>1, LenProperties
<1>3. Len(f) = n
  <2>1. CASE Len(f) > n
    <3>1. Len(f) \in 1 .. Len(f)  BY <1>2, <2>1
    <3>. QED  BY <1>2, <2>1, <3>1
  <2>2. CASE Len(f) < n
    <3>1. n \in 1 .. n  BY <1>2, <2>2
    <3>. QED  BY <1>2, <2>2, <3>1
  <2>. QED  BY <1>2, <2>1, <2>2
<1>. QED  BY <1>1, <1>3

-----------------------------------------------------------------------------
(* What commands produce. *)

Weight(c) == IF c.write THEN 0 ELSE 2 * c.count

\* Produces, for any sequence of commands.
Sums(s) ==
  CHOOSE f : f = [n \in Nat |-> IF n = 0 THEN 0 ELSE f[n - 1] + Weight(s[n])]

LEMMA ProducesIs == Produces = Sums(toFpga)
BY DEF Produces, Sums, Weight

\* The first n values of it.
Sums0(s, f, n) ==
  f = [m \in 0 .. n |-> IF m = 0 THEN 0 ELSE f[m - 1] + Weight(s[m])]

\* They exist.
LEMMA SumsExist == \A s : \A n \in Nat : \E f : Sums0(s, f, n)
<1> SUFFICES ASSUME NEW s PROVE \A n \in Nat : \E f : Sums0(s, f, n)  OBVIOUS
<1> DEFINE S == {n \in Nat : \E f : Sums0(s, f, n)}
<1>1. 0 \in S
  <2>1. PICK f : f = [m \in 0 .. 0 |-> 0]  OBVIOUS
  <2>2. f = [m \in 0 .. 0 |-> IF m = 0 THEN 0 ELSE f[m - 1] + Weight(s[m])]
    <3>1. \A m \in 0 .. 0 : m = 0  OBVIOUS
    <3>. QED  BY <2>1, <3>1
  <2>. QED  BY <2>2 DEF Sums0
<1>2. ASSUME NEW n \in Nat, n \in S PROVE n + 1 \in S
  <2>1. PICK f : f = [m \in 0 .. n |-> IF m = 0 THEN 0 ELSE f[m - 1] + Weight(s[m])]
    BY <1>2 DEF Sums0
  <2>2. PICK g : g = [m \in 0 .. n + 1 |->
                        IF m = n + 1 THEN f[n] + Weight(s[n + 1]) ELSE f[m]]
    OBVIOUS
  <2>3. ASSUME NEW m \in 0 .. n + 1
        PROVE  g[m] = IF m = 0 THEN 0 ELSE g[m - 1] + Weight(s[m])
    <3>1. CASE m = n + 1
      <4>1. g[m] = f[n] + Weight(s[m])  BY <2>2, <3>1
      <4>2. m # 0 /\ m - 1 = n /\ n \in 0 .. n + 1 /\ n # n + 1  BY <3>1
      <4>3. g[m - 1] = f[n]  BY <2>2, <4>2
      <4>. QED  BY <4>1, <4>2, <4>3
    <3>2. CASE m # n + 1
      <4>1. m \in 0 .. n  BY <3>2
      <4>2. g[m] = f[m]  BY <2>2, <3>2
      <4>3. m # 0 => m - 1 \in 0 .. n + 1 /\ m - 1 # n + 1  BY <4>1
      <4>4. m # 0 => g[m - 1] = f[m - 1]  BY <2>2, <4>3
      <4>5. f[m] = IF m = 0 THEN 0 ELSE f[m - 1] + Weight(s[m])  BY <2>1, <4>1
      <4>. QED  BY <4>2, <4>4, <4>5
    <3>. QED  BY <3>1, <3>2
  <2>4. g = [m \in 0 .. n + 1 |-> IF m = 0 THEN 0 ELSE g[m - 1] + Weight(s[m])]
    BY <2>2, <2>3
  <2>. QED  BY <2>4 DEF Sums0
<1> HIDE DEF S
<1>3. \A n \in Nat : n \in S  BY <1>1, <1>2, SetInduction
<1>. QED  BY <1>3 DEF S

\* They do not depend on n.
LEMMA SumsUnique ==
  ASSUME NEW s, NEW f, NEW n \in Nat, Sums0(s, f, n),
         NEW g, NEW k \in Nat, Sums0(s, g, k)
  PROVE  \A m \in Nat : m <= n /\ m <= k => f[m] = g[m]
<1> DEFINE S == {m \in Nat : m <= n /\ m <= k => f[m] = g[m]}
<1>1. /\ \A m \in 0 .. n : f[m] = IF m = 0 THEN 0 ELSE f[m - 1] + Weight(s[m])
      /\ \A m \in 0 .. k : g[m] = IF m = 0 THEN 0 ELSE g[m - 1] + Weight(s[m])
  BY DEF Sums0
<1>2. 0 \in S  BY <1>1
<1>3. ASSUME NEW m \in Nat, m \in S PROVE m + 1 \in S
  <2> SUFFICES ASSUME m + 1 <= n, m + 1 <= k PROVE f[m + 1] = g[m + 1]  OBVIOUS
  <2>1. f[m] = g[m]  BY <1>3
  <2>2. m + 1 \in 0 .. n /\ m + 1 \in 0 .. k /\ m + 1 # 0 /\ (m + 1) - 1 = m  OBVIOUS
  <2>3. f[m + 1] = f[m] + Weight(s[m + 1]) /\ g[m + 1] = g[m] + Weight(s[m + 1])
    BY <1>1, <2>2
  <2>. QED  BY <2>1, <2>3
<1> HIDE DEF S
<1>4. \A m \in Nat : m \in S  BY <1>2, <1>3, SetInduction
<1>. QED  BY <1>4 DEF S

\* So Sums is what its definition says.
LEMMA SumsIs ==
  ASSUME NEW s
  PROVE  /\ Sums(s)[0] = 0
         /\ \A n \in Nat : Sums(s)[n + 1] = Sums(s)[n] + Weight(s[n + 1])
<1> DEFINE First(n) == CHOOSE f : Sums0(s, f, n)
           g == [n \in Nat |-> First(n)[n]]
<1>1. \A n \in Nat : Sums0(s, First(n), n)  BY SumsExist
<1> HIDE DEF First
<1>2. ASSUME NEW n \in Nat
      PROVE  g[n] = IF n = 0 THEN 0 ELSE g[n - 1] + Weight(s[n])
  <2>1. PICK f : f = First(n) /\ Sums0(s, f, n)  BY <1>1
  <2>2. f[n] = IF n = 0 THEN 0 ELSE f[n - 1] + Weight(s[n])  BY <2>1 DEF Sums0
  <2>3. ASSUME n # 0 PROVE f[n - 1] = g[n - 1]
    <3>1. PICK k \in Nat : k = n - 1 /\ k <= n  BY <2>3
    <3>2. PICK h : h = First(k) /\ Sums0(s, h, k)  BY <1>1
    <3>3. f[k] = h[k]  BY <2>1, <3>1, <3>2, SumsUnique
    <3>. QED  BY <3>1, <3>2, <3>3
  <2>. QED  BY <2>1, <2>2, <2>3
<1>3. g = [n \in Nat |-> IF n = 0 THEN 0 ELSE g[n - 1] + Weight(s[n])]
  BY <1>2
<1> HIDE DEF g
<1>4. Sums(s) = [n \in Nat |-> IF n = 0 THEN 0 ELSE Sums(s)[n - 1] + Weight(s[n])]
  BY <1>3 DEF Sums
<1> DEFINE t == Sums(s)
<1>5. t = [n \in Nat |-> IF n = 0 THEN 0 ELSE t[n - 1] + Weight(s[n])]
  BY <1>4
<1> HIDE DEF t
<1>6. t[0] = 0  BY <1>5
<1>7. ASSUME NEW n \in Nat PROVE t[n + 1] = t[n] + Weight(s[n + 1])
  <2>1. n + 1 \in Nat /\ n + 1 # 0 /\ (n + 1) - 1 = n  OBVIOUS
  <2>. QED  BY <1>5, <2>1
<1>. QED  BY <1>6, <1>7 DEF t

-----------------------------------------------------------------------------
(* Sums of sequences of packets. *)

\* A command as it is sent: its count is the number of its words.
Packet ==
  {c \in [write : BOOLEAN, reg : Regs, val : Words, count : Nat, words : Nat,
          word : Nat, mine : BOOLEAN] : c.count = c.words}

LEMMA WeightNat ==
  ASSUME NEW c \in Packet
  PROVE  Weight(c) \in Nat /\ Weight(c) = (IF c.write THEN 0 ELSE 2 * c.count)
BY DEF Weight, Packet

\* Sums only depend on the weights.
LEMMA SumsSame ==
  ASSUME NEW s, NEW t, NEW k \in Nat, \A i \in 1 .. k : Weight(s[i]) = Weight(t[i])
  PROVE  \A n \in 0 .. k : Sums(s)[n] = Sums(t)[n]
<1> DEFINE S == {n \in Nat : n <= k => Sums(s)[n] = Sums(t)[n]}
<1>1. 0 \in S  BY SumsIs
<1>2. ASSUME NEW n \in Nat, n \in S PROVE n + 1 \in S
  <2> SUFFICES ASSUME n + 1 <= k PROVE Sums(s)[n + 1] = Sums(t)[n + 1]  OBVIOUS
  <2>1. Sums(s)[n] = Sums(t)[n]  BY <1>2
  <2>2. n + 1 \in 1 .. k  OBVIOUS
  <2>3. Weight(s[n + 1]) = Weight(t[n + 1])  BY <2>2
  <2>4. /\ Sums(s)[n + 1] = Sums(s)[n] + Weight(s[n + 1])
        /\ Sums(t)[n + 1] = Sums(t)[n] + Weight(t[n + 1])
    BY SumsIs
  <2>. QED  BY <2>1, <2>3, <2>4
<1> HIDE DEF S
<1>3. \A n \in Nat : n \in S  BY <1>1, <1>2, SetInduction
<1>. QED  BY <1>3 DEF S

\* They are naturals and grow.
LEMMA SumsNat ==
  ASSUME NEW s \in Seq(Packet)
  PROVE  \A n \in 0 .. Len(s) : Sums(s)[n] \in Nat
<1> DEFINE S == {n \in Nat : n <= Len(s) => Sums(s)[n] \in Nat}
<1>0. PICK l \in Nat : l = Len(s)  BY LenProperties
<1>1. 0 \in S  BY SumsIs
<1>2. ASSUME NEW n \in Nat, n \in S PROVE n + 1 \in S
  <2> SUFFICES ASSUME n + 1 <= l PROVE Sums(s)[n + 1] \in Nat  BY <1>0
  <2>1. Sums(s)[n] \in Nat  BY <1>0, <1>2
  <2>2. Weight(s[n + 1]) \in Nat
    <3>1. s[n + 1] \in Packet  BY <1>0, ElementOfSeq
    <3>. QED  BY <3>1, WeightNat
  <2>3. Sums(s)[n + 1] = Sums(s)[n] + Weight(s[n + 1])  BY SumsIs
  <2>. QED  BY <2>1, <2>2, <2>3
<1> HIDE DEF S
<1>3. \A n \in Nat : n \in S  BY <1>1, <1>2, SetInduction
<1>. QED  BY <1>0, <1>3 DEF S

LEMMA SumsGrow ==
  ASSUME NEW s \in Seq(Packet), NEW n \in Nat
  PROVE  \A k \in Nat : n + k <= Len(s) => Sums(s)[n] <= Sums(s)[n + k]
<1> DEFINE S == {k \in Nat : n + k <= Len(s) => Sums(s)[n] <= Sums(s)[n + k]}
<1>0. PICK l \in Nat : l = Len(s)  BY LenProperties
<1>1. 0 \in S
  <2>1. n <= l => Sums(s)[n] \in Nat  BY <1>0, SumsNat
  <2>2. n + 0 = n  OBVIOUS
  <2>. QED  BY <1>0, <2>1, <2>2
<1>2. ASSUME NEW k \in Nat, k \in S PROVE k + 1 \in S
  <2> SUFFICES ASSUME n + (k + 1) <= l PROVE Sums(s)[n] <= Sums(s)[n + (k + 1)]
    BY <1>0
  <2>1. PICK m \in Nat : m = n + k /\ m + 1 <= l /\ n + (k + 1) = m + 1  OBVIOUS
  <2>2. Sums(s)[n] <= Sums(s)[m]  BY <1>0, <1>2, <2>1
  <2>3. Sums(s)[n] \in Nat /\ Sums(s)[m] \in Nat  BY <1>0, <2>1, SumsNat
  <2>4. Weight(s[m + 1]) \in Nat
    <3>1. s[m + 1] \in Packet  BY <1>0, <2>1, ElementOfSeq
    <3>. QED  BY <3>1, WeightNat
  <2>5. Sums(s)[m + 1] = Sums(s)[m] + Weight(s[m + 1])  BY SumsIs
  <2>. QED  BY <2>1, <2>2, <2>3, <2>4, <2>5
<1> HIDE DEF S
<1>3. \A k \in Nat : k \in S  BY <1>1, <1>2, SetInduction
<1>. QED  BY <1>3 DEF S

\* More commands behind them.
LEMMA SumsConcat ==
  ASSUME NEW s \in Seq(Packet), NEW t \in Seq(Packet)
  PROVE  /\ \A n \in 0 .. Len(s) : Sums(s \o t)[n] = Sums(s)[n]
         /\ \A n \in 0 .. Len(t) :
              Sums(s \o t)[Len(s) + n] = Sums(s)[Len(s)] + Sums(t)[n]
<1>0. PICK k \in Nat, l \in Nat : k = Len(s) /\ l = Len(t)  BY LenProperties
<1>1. PICK u : u = s \o t  OBVIOUS
<1>2. /\ u \in Seq(Packet) /\ Len(u) = k + l
      /\ \A i \in 1 .. k + l : u[i] = IF i <= k THEN s[i] ELSE t[i - k]
  BY <1>0, <1>1, ConcatProperties
<1>3. \A n \in 0 .. k : Sums(u)[n] = Sums(s)[n]
  <2>1. \A i \in 1 .. k : Weight(u[i]) = Weight(s[i])
    <3>1. \A i \in 1 .. k : u[i] = s[i]  BY <1>2
    <3>. QED  BY <3>1
  <2>. QED  BY <2>1, SumsSame
<1> DEFINE S == {n \in Nat : n <= l => Sums(u)[k + n] = Sums(s)[k] + Sums(t)[n]}
<1>4. 0 \in S
  <2>1. k + 0 = k /\ k \in 0 .. k  OBVIOUS
  <2>2. Sums(u)[k] = Sums(s)[k] /\ Sums(t)[0] = 0  BY <1>3, <2>1, SumsIs
  <2>3. Sums(s)[k] \in Nat  BY <1>0, SumsNat
  <2>. QED  BY <2>1, <2>2, <2>3
<1>5. ASSUME NEW n \in Nat, n \in S PROVE n + 1 \in S
  <2> SUFFICES ASSUME n + 1 <= l
               PROVE  Sums(u)[k + (n + 1)] = Sums(s)[k] + Sums(t)[n + 1]
    OBVIOUS
  <2>1. PICK m \in Nat : m = k + n /\ k + (n + 1) = m + 1  OBVIOUS
  <2>2. Sums(u)[m] = Sums(s)[k] + Sums(t)[n]  BY <1>5, <2>1
  <2>3. Sums(u)[m + 1] = Sums(u)[m] + Weight(u[m + 1])  BY SumsIs
  <2>4. Sums(t)[n + 1] = Sums(t)[n] + Weight(t[n + 1])  BY SumsIs
  <2>5. u[m + 1] = t[n + 1]
    <3>1. m + 1 \in 1 .. k + l /\ ~(m + 1 <= k) /\ (m + 1) - k = n + 1  BY <2>1
    <3>. QED  BY <1>2, <3>1
  <2>6. Sums(s)[k] \in Nat /\ Sums(t)[n] \in Nat  BY <1>0, SumsNat
  <2>7. Weight(t[n + 1]) \in Nat
    <3>1. t[n + 1] \in Packet  BY <1>0, ElementOfSeq
    <3>. QED  BY <3>1, WeightNat
  <2>. QED  BY <2>1, <2>2, <2>3, <2>4, <2>5, <2>6, <2>7
<1> HIDE DEF S
<1>6. \A n \in Nat : n \in S  BY <1>4, <1>5, SetInduction
<1>. QED  BY <1>0, <1>1, <1>3, <1>6 DEF S

\* Without the first.
LEMMA SumsTail ==
  ASSUME NEW s \in Seq(Packet), s # <<>>
  PROVE  \A n \in 0 .. Len(Tail(s)) : Sums(s)[n + 1] = Weight(s[1]) + Sums(Tail(s))[n]
<1>1. PICK t : t = Tail(s)  OBVIOUS
<1>2. PICK l \in Nat : /\ l = Len(t) /\ Len(s) = l + 1 /\ t \in Seq(Packet)
                       /\ \A i \in 1 .. l : t[i] = s[i + 1]
  <2>1. t \in Seq(Packet) /\ Len(t) = Len(s) - 1 /\ \A i \in 1 .. Len(t) : t[i] = s[i + 1]
    BY <1>1, HeadTailProperties
  <2>2. Len(t) \in Nat /\ Len(s) \in Nat  BY <2>1, LenProperties
  <2>. QED  BY <2>1, <2>2
<1>3. Weight(s[1]) \in Nat
  <2>1. s[1] \in Packet  BY <1>2, ElementOfSeq
  <2>. QED  BY <2>1, WeightNat
<1> DEFINE S == {n \in Nat : n <= l => Sums(s)[n + 1] = Weight(s[1]) + Sums(t)[n]}
<1>4. 0 \in S
  <2>1. Sums(s)[0 + 1] = 0 + Weight(s[0 + 1]) /\ 0 + 1 = 1
    <3>1. Sums(s)[0] = 0 /\ Sums(s)[0 + 1] = Sums(s)[0] + Weight(s[0 + 1])
      BY ONLY SumsIs, 0 \in Nat
    <3>. QED  BY ONLY <3>1
  <2>2. Sums(t)[0] = 0  BY SumsIs
  <2>. QED  BY <1>3, <2>1, <2>2
<1>5. ASSUME NEW n \in Nat, n \in S PROVE n + 1 \in S
  <2> SUFFICES ASSUME n + 1 <= l
               PROVE  Sums(s)[(n + 1) + 1] = Weight(s[1]) + Sums(t)[n + 1]
    OBVIOUS
  <2>1. PICK m \in Nat : m = n + 1  OBVIOUS
  <2>2. Sums(s)[m] = Weight(s[1]) + Sums(t)[n]  BY <1>5, <2>1
  <2>3. Sums(s)[m + 1] = Sums(s)[m] + Weight(s[m + 1])  BY SumsIs
  <2>4. Sums(t)[m] = Sums(t)[n] + Weight(t[m])  BY <2>1, SumsIs
  <2>5. t[m] = s[m + 1]  BY <1>2, <2>1
  <2>6. Sums(t)[n] \in Nat /\ Weight(t[m]) \in Nat
    <3>1. t[m] \in Packet  BY <1>2, <2>1, ElementOfSeq
    <3>2. Weight(t[m]) \in Nat  BY ONLY <3>1, WeightNat
    <3>3. n \in 0 .. Len(t)  BY <1>2
    <3>4. Sums(t)[n] \in Nat  BY ONLY <1>2, <3>3, SumsNat
    <3>. QED  BY ONLY <3>2, <3>4
  <2>. QED  BY <1>3, <2>1, <2>2, <2>3, <2>4, <2>5, <2>6
<1> HIDE DEF S
<1>6. \A n \in Nat : n \in S  BY <1>4, <1>5, SetInduction
<1>. QED  BY <1>1, <1>2, <1>6 DEF S

\* Commands that read one word each.
LEMMA SumsOnes ==
  ASSUME NEW s \in Seq(Packet), \A i \in 1 .. Len(s) : ~s[i].write /\ s[i].count = 1
  PROVE  \A n \in 0 .. Len(s) : Sums(s)[n] = 2 * n
<1>0. PICK l \in Nat : l = Len(s)  BY LenProperties
<1> DEFINE S == {n \in Nat : n <= l => Sums(s)[n] = 2 * n}
<1>1. 0 \in S  BY SumsIs
<1>2. ASSUME NEW n \in Nat, n \in S PROVE n + 1 \in S
  <2> SUFFICES ASSUME n + 1 <= l PROVE Sums(s)[n + 1] = 2 * (n + 1)  OBVIOUS
  <2>1. Sums(s)[n] = 2 * n  BY <1>2
  <2>2. Weight(s[n + 1]) = 2
    <3>1. n + 1 \in 1 .. Len(s)  BY <1>0
    <3>2. ~s[n + 1].write /\ s[n + 1].count = 1  BY <3>1
    <3>. QED  BY <3>2 DEF Weight
  <2>3. Sums(s)[n + 1] = Sums(s)[n] + Weight(s[n + 1])  BY SumsIs
  <2>. QED  BY <2>1, <2>2, <2>3
<1> HIDE DEF S
<1>3. \A n \in Nat : n \in S  BY <1>1, <1>2, SetInduction
<1>. QED  BY <1>0, <1>3 DEF S

\* Commands become foreign ones.
LEMMA ForeignIs ==
  ASSUME NEW s \in Seq(Packet)
  PROVE  /\ Foreign(s) \in Seq(Packet) /\ Len(Foreign(s)) = Len(s)
         /\ \A i \in 1 .. Len(s) :
              /\ Foreign(s)[i].mine = FALSE /\ Foreign(s)[i].write = s[i].write
              /\ Foreign(s)[i].count = s[i].count
         /\ \A n \in 0 .. Len(s) : Sums(Foreign(s))[n] = Sums(s)[n]
<1>0. PICK l \in Nat : l = Len(s) /\ DOMAIN s = 1 .. l  BY LenProperties
<1>1. PICK t : t = Foreign(s)  OBVIOUS
<1>2. t = [i \in 1 .. l |-> [s[i] EXCEPT !.mine = FALSE]]
  BY <1>0, <1>1 DEF Foreign
<1>3. ASSUME NEW i \in 1 .. l
      PROVE  /\ t[i] \in Packet /\ t[i].mine = FALSE /\ t[i].write = s[i].write
             /\ t[i].count = s[i].count
  <2>1. s[i] \in Packet  BY <1>0, ElementOfSeq
  <2>2. t[i] = [s[i] EXCEPT !.mine = FALSE]  BY <1>2
  <2>. QED  BY <2>1, <2>2 DEF Packet
<1>4. t \in Seq(Packet) /\ Len(t) = l
  <2>1. t \in [1 .. l -> Packet]  BY <1>2, <1>3
  <2>. QED  BY <2>1, FunctionIsSeq
<1>5. \A i \in 1 .. l : Weight(t[i]) = Weight(s[i])
  BY <1>3 DEF Weight
<1>6. \A n \in 0 .. l : Sums(t)[n] = Sums(s)[n]  BY <1>5, SumsSame
<1>. QED  BY <1>0, <1>1, <1>3, <1>4, <1>6

-----------------------------------------------------------------------------
(* The constants and the commands. *)

LEMMA WordsAre == 0 \in Words /\ Words \subseteq Nat
<1>1. PICK b \in Nat : b = Base /\ b # 0  BY RegistersAssumption
<1>2. b * b \in Nat /\ b * b >= 1  BY <1>1
<1>3. PICK n \in Nat : n = b * b - 1  BY <1>2
<1>4. Words = 0 .. n  BY <1>1, <1>3 DEF Words
<1>. QED  BY <1>4

LEMMA ConstantsAre ==
  /\ MaxPacket \in Nat /\ MaxPacket >= 1
  /\ \A k \in Keys : Wire[k] \in Regs
  /\ Len(WatchList) \in Nat /\ \A i \in 1 .. Len(WatchList) : WatchList[i] \in Keys
  /\ DOMAIN WatchList = 1 .. Len(WatchList)
  /\ Values \subseteq Words
<1>1. WatchList \in Seq(Keys) /\ Wire \in [Keys -> Regs] /\ MaxPacket \in Nat \ {0}
      /\ Values \subseteq Words
  BY RegistersAssumption
<1>2. Len(WatchList) \in Nat /\ DOMAIN WatchList = 1 .. Len(WatchList)
  BY <1>1, LenProperties
<1>3. \A i \in 1 .. Len(WatchList) : WatchList[i] \in Keys  BY <1>1, ElementOfSeq
<1>. QED  BY <1>1, <1>2, <1>3

\* The header of a packet holds every size up to the largest packet.
LEMMA CountIsSize ==
  ASSUME NEW n \in Nat, n <= MaxPacket
  PROVE  n % (MaxPacket + 1) = n
<1>1. PICK m \in Nat : m = MaxPacket  BY ConstantsAre
<1>2. n % (m + 1) = n  BY <1>1
<1>. QED  BY <1>1, <1>2

LEMMA NextPacketIs ==
  ASSUME NEW n \in Nat
  PROVE  /\ NextPacket(n) \in Nat /\ NextPacket(n) <= MaxPacket /\ NextPacket(n) <= n
         /\ n >= 1 => NextPacket(n) >= 1
BY ConstantsAre DEF NextPacket

LEMMA ReadCommandIs ==
  ASSUME NEW k \in Keys, NEW n \in Nat, n <= MaxPacket, NEW w \in Nat
  PROVE  \E c \in Packet :
           /\ c = ReadCommand(k, n, w)
           /\ ~c.write /\ c.mine /\ c.count = n /\ c.word = w /\ c.reg = Wire[k]
           /\ Weight(c) = 2 * n
<1>1. n % (MaxPacket + 1) = n  BY CountIsSize
<1>2. PICK c : c = ReadCommand(k, n, w)  OBVIOUS
<1>3. c = [write |-> FALSE, reg |-> Wire[k], val |-> 0, count |-> n, words |-> n,
           word |-> w, mine |-> TRUE]
  BY <1>1, <1>2 DEF ReadCommand
<1>4. c \in Packet  BY <1>3, ConstantsAre, WordsAre DEF Packet
<1>5. Weight(c) = 2 * n  BY <1>3 DEF Weight
<1>. QED  BY <1>2, <1>3, <1>4, <1>5

LEMMA WriteCommandIs ==
  ASSUME NEW k \in Keys, NEW n \in Nat, n <= MaxPacket, NEW v \in Values
  PROVE  WriteCommand(k, v, n) \in Packet
<1>1. n % (MaxPacket + 1) = n  BY CountIsSize
<1>2. PICK c : c = WriteCommand(k, v, n)  OBVIOUS
<1>3. c = [write |-> TRUE, reg |-> Wire[k], val |-> v, count |-> n, words |-> n,
           word |-> 1, mine |-> TRUE]
  BY <1>1, <1>2 DEF WriteCommand
<1>4. v \in Words  BY ConstantsAre
<1>5. c \in Packet  BY <1>3, <1>4, ConstantsAre DEF Packet
<1>. QED  BY <1>2, <1>5

\* All packets of a block are whole.
LEMMA WritePacketsAre ==
  ASSUME NEW k \in Keys, NEW v \in Values, NEW n \in Nat, n > 0
  PROVE  WritePackets(k, v, n) \in Seq(Packet)
<1>1. PICK m \in Nat : m = MaxPacket /\ m >= 1  BY ConstantsAre
<1>2. PICK q \in Nat : q = (n + m - 1) \div m /\ m * q <= n + m - 1
  <2>1. n + m - 1 \in Nat  BY <1>1
  <2>2. PICK a \in Nat : a = n + m - 1  BY <2>1
  <2>3. a \div m \in Nat /\ m * (a \div m) <= a  BY <2>2, <1>1
  <2>. QED  BY <2>2, <2>3
<1>3. ASSUME NEW i \in 1 .. q
      PROVE  n - (i - 1) * m \in Nat
  <2>1. PICK j \in Nat : j = i - 1 /\ j + 1 <= q  BY <1>2
  <2>2. PICK d \in Nat : q = (j + 1) + d  BY <2>1
  <2>3. m * q = m * j + m + m * d  BY <2>2
  <2>4. m * j \in Nat /\ m * d \in Nat /\ m * j = j * m  OBVIOUS
  <2>5. m * j + m <= n + m - 1  BY <1>2, <2>3, <2>4
  <2>6. n - j * m >= 1  BY <2>4, <2>5
  <2>. QED  BY <2>1, <2>4, <2>6
<1>4. ASSUME NEW i \in 1 .. q
      PROVE  WriteCommand(k, v, NextPacket(n - (i - 1) * MaxPacket)) \in Packet
  <2>1. n - (i - 1) * MaxPacket \in Nat  BY <1>1, <1>3
  <2>2. PICK a \in Nat : a = n - (i - 1) * MaxPacket  BY <2>1
  <2>3. NextPacket(a) \in Nat /\ NextPacket(a) <= MaxPacket  BY NextPacketIs
  <2>4. WriteCommand(k, v, NextPacket(a)) \in Packet  BY <2>3, WriteCommandIs
  <2>. QED  BY <2>2, <2>4
<1>5. WritePackets(k, v, n) =
        [i \in 1 .. q |-> WriteCommand(k, v, NextPacket(n - (i - 1) * MaxPacket))]
  BY <1>1, <1>2 DEF WritePackets
<1>6. WritePackets(k, v, n) \in [1 .. q -> Packet]  BY <1>4, <1>5
<1>. QED  BY <1>6, FunctionIsSeq

\* What is sent of the commands c.
LEMMA SendingIs ==
  ASSUME NEW c \in Seq(Packet), NEW s \in Sending(c)
  PROVE  s.sent \in Seq(Packet) /\ (s.ok => s.sent = c)
<1>0. Len(c) \in Nat  BY LenProperties
<1>1. CASE handle = "null"
  <2>1. s = [sent |-> <<>>, ok |-> FALSE, cost |-> 0]  BY <1>1 DEF Sending
  <2>2. <<>> \in Seq(Packet)  BY EmptySeq
  <2>. QED  BY <2>1, <2>2
<1>2. CASE handle # "null"
  <2>1. CASE s = [sent |-> c, ok |-> TRUE, cost |-> 0]  BY <2>1
  <2>2. CASE \E n \in 0 .. Len(c) : s = [sent |-> SubSeq(c, 1, n), ok |-> FALSE, cost |-> 1]
    <3>1. PICK n \in 0 .. Len(c) : s = [sent |-> SubSeq(c, 1, n), ok |-> FALSE, cost |-> 1]
      BY <2>2
    <3>2. SubSeq(c, 1, n) \in Seq(Packet)
      <4>1. \A i \in 1 .. n : c[i] \in Packet  BY <1>0, ElementOfSeq
      <4>. QED  BY <1>0, <4>1, SubSeqProperties
    <3>. QED  BY <3>1, <3>2
  <2>. QED  BY <1>2, <2>1, <2>2 DEF Sending
<1>. QED  BY <1>1, <1>2

-----------------------------------------------------------------------------
(* The bytes of an operation, in their order. *)

Octet == [reg : Regs, digit : Nat, high : BOOLEAN, word : Nat, mine : BOOLEAN]
Kinds == {"none", "readreg", "readregn", "poll", "readraw"}
Ops ==
  [kind : Kinds, key : Keys \cup {AnyKey}, left : Nat, need : Nat, got : Seq(Octet),
   done : Nat, owed : Nat]

\* The register whose value is word w of the answer.
RegAt(o, w) == IF o.kind = "poll" THEN Wire[WatchList[w]] ELSE Wire[o.key]

\* What byte p of an operation is: first come the bytes that were owed when it
\* started, and then its own, two for each word.
Fits(o, b, p) ==
  IF p <= o.owed THEN ~b.mine
  ELSE /\ b.mine /\ p = o.owed + 2 * b.word - (IF b.high THEN 1 ELSE 0)
       /\ b.reg = RegAt(o, b.word)

\* What a command is that p bytes come before.
Ahead(o, c, p) ==
  IF c.mine
    THEN /\ ~c.write /\ c.word >= 1 /\ p = o.owed + 2 * (c.word - 1)
         /\ \A w \in c.word .. (c.word + c.count - 1) : c.reg = RegAt(o, w)
    ELSE c.write \/ p + 2 * c.count <= o.owed

\* The bytes that were read, that wait and that are still to come.
GotFits(o) == \A j \in 1 .. Len(o.got) : Fits(o, o.got[j], 2 * o.done + j)
HostFits(o, t) == \A j \in 1 .. Len(t) : Fits(o, t[j], 2 * o.done + Len(o.got) + j)
CommandsFit(o, t, f) ==
  \A i \in 1 .. Len(f) :
    Ahead(o, f[i], 2 * o.done + Len(o.got) + Len(t) + Sums(f)[i - 1])
Balanced(o, t, f) == Len(o.got) + Len(t) + Sums(f)[Len(f)] = o.owed + o.need
InLine(o, t, f) ==
  GotFits(o) /\ HostFits(o, t) /\ CommandsFit(o, t, f) /\ Balanced(o, t, f)

\* How much each operation asks for.
Asked(o) ==
  /\ o.kind \in {"readreg", "readregn"} => o.key \in Keys
  /\ o.kind = "readreg" => o.need = 2 /\ o.done = 0
  /\ o.kind = "poll" => o.need = 2 * Len(WatchList) /\ Len(WatchList) > 0 /\ o.done = 0
  /\ o.kind = "readregn" => o.left > 0 /\ o.need = 2 * NextPacket(o.left)
  /\ Len(o.got) <= o.need

Types ==
  /\ regs \in [Regs -> Words] /\ toFpga \in Seq(Packet) /\ toHost \in Seq(Octet)
  /\ op \in Ops

IInv ==
  /\ Types
  /\ handle = "gone" => op = NoOp
  /\ Asked(op)
  /\ op.kind \in KindsOfRead => InLine(op, toHost, toFpga)
  /\ EventsAreTrue

LEMMA OpsAre ==
  ASSUME NEW o \in Ops
  PROVE  /\ o.need \in Nat /\ o.done \in Nat /\ o.owed \in Nat /\ o.left \in Nat
         /\ o.got \in Seq(Octet) /\ Len(o.got) \in Nat
<1>1. /\ o.need \in Nat /\ o.done \in Nat /\ o.owed \in Nat /\ o.left \in Nat
      /\ o.got \in Seq(Octet)
  BY DEF Ops
<1>. QED  BY <1>1, LenProperties

\* Bytes become foreign ones.
LEMMA ForeignBytes ==
  ASSUME NEW t \in Seq(Octet)
  PROVE  /\ Foreign(t) \in Seq(Octet) /\ Len(Foreign(t)) = Len(t)
         /\ \A j \in 1 .. Len(t) : ~Foreign(t)[j].mine
<1>0. PICK l \in Nat : l = Len(t) /\ DOMAIN t = 1 .. l  BY LenProperties
<1>1. PICK u : u = Foreign(t)  OBVIOUS
<1>2. u = [j \in 1 .. l |-> [t[j] EXCEPT !.mine = FALSE]]
  BY <1>0, <1>1 DEF Foreign
<1>3. ASSUME NEW j \in 1 .. l PROVE u[j] \in Octet /\ ~u[j].mine
  <2>1. t[j] \in Octet  BY <1>0, ElementOfSeq
  <2>2. u[j] = [t[j] EXCEPT !.mine = FALSE]  BY <1>2
  <2>. QED  BY <2>1, <2>2 DEF Octet
<1>4. u \in Seq(Octet) /\ Len(u) = l
  <2>1. u \in [1 .. l -> Octet]  BY <1>2, <1>3
  <2>. QED  BY <2>1, FunctionIsSeq
<1>. QED  BY <1>0, <1>1, <1>3, <1>4

\* The commands of a read ask for its words, one after the other.
AllOwn(o, c) ==
  \A i \in 1 .. Len(c) :
    /\ c[i].mine /\ ~c[i].write /\ c[i].word >= 1
    /\ Sums(c)[i - 1] = 2 * (c[i].word - 1)
    /\ \A w \in c[i].word .. (c[i].word + c[i].count - 1) : c[i].reg = RegAt(o, w)

\* A read starts: its answer will come behind all that is owed.
LEMMA StartInLine ==
  ASSUME NEW o \in Ops, NEW t \in Seq(Octet), NEW f \in Seq(Packet), NEW c \in Seq(Packet),
         Len(o.got) = 0, o.done = 0, o.owed = Len(t) + Sums(f)[Len(f)],
         o.need = Sums(c)[Len(c)], AllOwn(o, c)
  PROVE  InLine(o, Foreign(t), Foreign(f) \o c)
<1>0. PICK lt \in Nat : lt = Len(t)  BY LenProperties
<1>01. PICK lf \in Nat : lf = Len(f)  BY LenProperties
<1>02. PICK lc \in Nat : lc = Len(c)  BY LenProperties
<1>1. PICK u : u = Foreign(t)  OBVIOUS
<1>2. Len(u) = lt /\ \A j \in 1 .. lt : ~u[j].mine  BY <1>0, <1>1, ForeignBytes
<1>3. PICK g : g = Foreign(f)  OBVIOUS
<1>4. /\ g \in Seq(Packet) /\ Len(g) = lf
      /\ \A i \in 1 .. lf : g[i].mine = FALSE /\ g[i].write = f[i].write /\ g[i].count = f[i].count
      /\ \A n \in 0 .. lf : Sums(g)[n] = Sums(f)[n]
  BY <1>01, <1>3, ForeignIs
<1>5. PICK s : s = g \o c  OBVIOUS
<1>6. /\ s \in Seq(Packet) /\ Len(s) = lf + lc
      /\ \A i \in 1 .. lf + lc : s[i] = IF i <= lf THEN g[i] ELSE c[i - lf]
  <2>1. g \in Seq(Packet) /\ c \in Seq(Packet)  BY <1>4
  <2>2. /\ g \o c \in Seq(Packet) /\ Len(g \o c) = Len(g) + Len(c)
        /\ \A i \in 1 .. Len(g) + Len(c) :
             (g \o c)[i] = IF i <= Len(g) THEN g[i] ELSE c[i - Len(g)]
    BY ONLY <2>1, ConcatProperties
  <2>. QED  BY <1>4, <1>02, <1>5, <2>2
<1>7. /\ \A n \in 0 .. lf : Sums(s)[n] = Sums(f)[n]
      /\ \A n \in 0 .. lc : Sums(s)[lf + n] = Sums(f)[lf] + Sums(c)[n]
  <2>1. /\ \A n \in 0 .. lf : Sums(s)[n] = Sums(g)[n]
        /\ \A n \in 0 .. lc : Sums(s)[lf + n] = Sums(g)[lf] + Sums(c)[n]
    BY <1>4, <1>02, <1>5, SumsConcat
  <2>2. lf \in 0 .. lf  OBVIOUS
  <2>. QED  BY <1>4, <2>1, <2>2
<1>8. /\ \A n \in 0 .. lf : Sums(f)[n] \in Nat
      /\ \A n \in 0 .. lc : Sums(c)[n] \in Nat
  BY <1>01, <1>02, SumsNat
<1>9. PICK q \in Nat : q = Sums(f)[lf] /\ o.owed = lt + q
  <2>1. lf \in 0 .. lf  OBVIOUS
  <2>2. Sums(f)[lf] \in Nat  BY <1>8, <2>1
  <2>. QED  BY <1>0, <1>01, <2>2
<1>10. o.need \in Nat /\ o.owed \in Nat /\ Len(o.got) = 0 /\ o.done = 0  BY OpsAre
<1>11. GotFits(o)  BY <1>10 DEF GotFits
<1>12. HostFits(o, u)
  <2>1. ASSUME NEW j \in 1 .. lt PROVE Fits(o, u[j], 2 * o.done + Len(o.got) + j)
    <3>1. 2 * o.done + Len(o.got) + j = j  BY <1>10
    <3>2. j <= o.owed  BY <1>9
    <3>. QED  BY <1>2, <3>1, <3>2 DEF Fits
  <2>. QED  BY <1>2, <2>1 DEF HostFits
<1>13. ASSUME NEW i \in 1 .. lf + lc
       PROVE  Ahead(o, s[i], 2 * o.done + Len(o.got) + Len(u) + Sums(s)[i - 1])
  <2>0. PICK k \in Nat : k = i - 1 /\ i = k + 1  OBVIOUS
  <2>1. CASE i <= lf
    <3>1. s[i] = g[i] /\ i \in 1 .. lf  BY <1>6, <2>1
    <3>2. ~s[i].mine /\ s[i].write = f[i].write /\ s[i].count = f[i].count
      BY <1>4, <3>1
    <3>3. k \in 0 .. lf /\ Sums(s)[k] = Sums(f)[k] /\ Sums(f)[k] \in Nat
      BY <1>7, <1>8, <2>0, <2>1
    <3>4. Weight(f[i]) = (IF f[i].write THEN 0 ELSE 2 * f[i].count) /\ Weight(f[i]) \in Nat
      <4>1. f[i] \in Packet  BY <1>01, <2>1, ElementOfSeq
      <4>. QED  BY <4>1, WeightNat
    <3>5. Sums(f)[i] = Sums(f)[k] + Weight(f[i])  BY <2>0, SumsIs
    <3>6. Sums(f)[i] <= q /\ Sums(f)[i] \in Nat
      <4>1. PICK d \in Nat : i + d = lf  BY <2>1
      <4>2. i \in Nat /\ i \in 0 .. lf /\ i + d <= Len(f)  BY <4>1, <1>01
      <4>3. Sums(f)[i] <= Sums(f)[i + d]  BY <4>2, SumsGrow
      <4>4. Sums(f)[i] \in Nat  BY <1>8, <4>2
      <4>. QED  BY <1>9, <4>1, <4>3, <4>4
    <3>7. ~s[i].write => (lt + Sums(f)[k]) + 2 * s[i].count <= o.owed
      <4>1. PICK a \in Nat, z \in Nat, e \in Nat :
              a = Sums(f)[k] /\ z = Sums(f)[i] /\ e = Weight(f[i]) /\ z = a + e /\ z <= q
        BY <3>3, <3>4, <3>5, <3>6
      <4>2. (lt + a) + e <= lt + q  BY <4>1
      <4>3. ~s[i].write => e = 2 * s[i].count  BY <3>2, <3>4, <4>1
      <4>. QED  BY <1>9, <4>1, <4>2, <4>3
    <3>8. 2 * o.done + Len(o.got) + Len(u) + Sums(s)[i - 1] = lt + Sums(f)[k]
      BY <1>2, <1>10, <2>0, <3>3
    <3>. QED  BY <3>2, <3>7, <3>8 DEF Ahead
  <2>2. CASE ~(i <= lf)
    <3>1. PICK n \in 1 .. lc : i = lf + n /\ n = i - lf  BY <2>2
    <3>2. s[i] = c[n]  BY <1>6, <2>2, <3>1
    <3>3. PICK m \in Nat : m = n - 1 /\ m \in 0 .. lc /\ k = lf + m  BY <2>0, <3>1
    <3>4. Sums(s)[k] = q + Sums(c)[m] /\ Sums(c)[m] \in Nat  BY <1>7, <1>8, <1>9, <3>3
    <3>5. /\ s[i].mine /\ ~s[i].write /\ s[i].word >= 1
          /\ Sums(c)[m] = 2 * (s[i].word - 1)
          /\ \A w \in s[i].word .. (s[i].word + s[i].count - 1) : s[i].reg = RegAt(o, w)
      BY <1>02, <3>1, <3>2, <3>3 DEF AllOwn
    <3>6. 2 * o.done + Len(o.got) + Len(u) + Sums(s)[i - 1] = o.owed + 2 * (s[i].word - 1)
      <4>1. Sums(s)[i - 1] = q + 2 * (s[i].word - 1) /\ Sums(s)[i - 1] = q + Sums(c)[m]
        BY <2>0, <3>4, <3>5
      <4>2. 2 * o.done + Len(o.got) + Len(u) + (q + Sums(c)[m]) = (lt + q) + Sums(c)[m]
        BY <1>2, <1>10, <3>4
      <4>. QED  BY <1>9, <3>5, <4>1, <4>2
    <3>. QED  BY <3>5, <3>6 DEF Ahead
  <2>. QED  BY <2>1, <2>2
<1>14. CommandsFit(o, u, s)  BY <1>6, <1>13 DEF CommandsFit
<1>15. Balanced(o, u, s)
  <2>1. lc \in 0 .. lc  OBVIOUS
  <2>2. Sums(s)[lf + lc] = q + o.need  BY <1>7, <1>9, <1>02, <2>1
  <2>3. Len(o.got) + Len(u) + (q + o.need) = o.owed + o.need  BY <1>2, <1>9, <1>10
  <2>. QED  BY <1>6, <2>2, <2>3 DEF Balanced
<1>. QED  BY <1>1, <1>3, <1>5, <1>11, <1>12, <1>14, <1>15 DEF InLine

\* Bytes are read.
LEMMA ReadInLine ==
  ASSUME NEW o \in Ops, NEW t \in Seq(Octet), NEW f, NEW n \in 1 .. Len(t),
         InLine(o, t, f)
  PROVE  InLine([o EXCEPT !.got = o.got \o SubSeq(t, 1, n)], SubSeq(t, n + 1, Len(t)), f)
<1>0. PICK lt \in Nat : lt = Len(t)  BY LenProperties
<1>01. PICK lg \in Nat : lg = Len(o.got)  BY OpsAre
<1>1. PICK a : a = SubSeq(t, 1, n)  OBVIOUS
<1>2. PICK b : b = SubSeq(t, n + 1, lt)  OBVIOUS
<1>3. a \in Seq(Octet) /\ Len(a) = n /\ \A j \in 1 .. n : a[j] = t[j]
  <2>1. \A j \in 1 .. n : t[j] \in Octet  BY <1>0, ElementOfSeq
  <2>2. Len(a) = n /\ a \in Seq(Octet) /\ \A j \in 1 .. n - 1 + 1 : a[j] = t[1 + j - 1]
    BY <1>1, <2>1, SubSeqProperties
  <2>. QED  BY <2>2
<1>4. Len(b) = lt - n /\ \A j \in 1 .. lt - n : b[j] = t[n + j]
  <2>1. \A j \in n + 1 .. lt : t[j] \in Octet
    <3>1. \A j \in n + 1 .. lt : j \in 1 .. lt  OBVIOUS
    <3>. QED  BY <1>0, <3>1, ElementOfSeq
  <2>2. /\ Len(b) = IF n + 1 <= lt THEN lt - (n + 1) + 1 ELSE 0
        /\ \A j \in 1 .. lt - (n + 1) + 1 : b[j] = t[(n + 1) + j - 1]
    BY <1>0, <1>2, <2>1, SubSeqProperties
  <2>. QED  BY <1>0, <2>2
<1>5. PICK g : g = o.got \o a  OBVIOUS
<1>6. Len(g) = lg + n /\ \A j \in 1 .. lg + n : g[j] = IF j <= lg THEN o.got[j] ELSE a[j - lg]
  <2>1. o.got \in Seq(Octet)  BY OpsAre
  <2>2. /\ Len(o.got \o a) = Len(o.got) + Len(a)
        /\ \A j \in 1 .. Len(o.got) + Len(a) :
             (o.got \o a)[j] = IF j <= Len(o.got) THEN o.got[j] ELSE a[j - Len(o.got)]
    BY <1>3, <2>1, ConcatProperties
  <2>. QED  BY <1>01, <1>3, <1>5, <2>2
<1>7. PICK r : r = [o EXCEPT !.got = g]  OBVIOUS
<1>8. /\ r.got = g /\ r.done = o.done /\ r.owed = o.owed /\ r.need = o.need
      /\ r.kind = o.kind /\ r.key = o.key
  BY <1>7 DEF Ops
<1>9. /\ \A w : RegAt(r, w) = RegAt(o, w)
      /\ \A x, p : Fits(r, x, p) = Fits(o, x, p)
      /\ \A x, p : Ahead(r, x, p) = Ahead(o, x, p)
  BY <1>8 DEF RegAt, Fits, Ahead
<1>10. PICK d \in Nat : d = 2 * o.done  BY OpsAre
<1>11. /\ \A j \in 1 .. lg : Fits(o, o.got[j], d + j)
       /\ \A j \in 1 .. lt : Fits(o, t[j], d + lg + j)
  BY <1>0, <1>01, <1>10 DEF InLine, GotFits, HostFits
<1>12. GotFits(r)
  <2>1. ASSUME NEW j \in 1 .. lg + n PROVE Fits(o, g[j], d + j)
    <3>1. CASE j <= lg
      <4>1. j \in 1 .. lg  BY <3>1
      <4>. QED  BY <1>6, <1>11, <3>1, <4>1
    <3>2. CASE ~(j <= lg)
      <4>1. PICK i \in 1 .. n : i = j - lg  BY <3>2
      <4>2. g[j] = t[i] /\ i \in 1 .. lt /\ d + lg + i = d + j  BY <1>0, <1>3, <1>6, <3>2, <4>1
      <4>. QED  BY <1>11, <4>2
    <3>. QED  BY <3>1, <3>2
  <2>. QED  BY <1>6, <1>8, <1>9, <1>10, <2>1 DEF GotFits
<1>13. HostFits(r, b)
  <2>1. ASSUME NEW j \in 1 .. lt - n PROVE Fits(o, b[j], d + (lg + n) + j)
    <3>1. n + j \in 1 .. lt /\ d + lg + (n + j) = d + (lg + n) + j  BY <1>0
    <3>. QED  BY <1>4, <1>11, <3>1
  <2>. QED  BY <1>4, <1>6, <1>8, <1>9, <1>10, <2>1 DEF HostFits
<1>14. lg + lt = (lg + n) + (lt - n) /\ d + lg + lt = d + (lg + n) + (lt - n)  BY <1>0
<1>15. CommandsFit(r, b, f)
  BY <1>0, <1>01, <1>4, <1>6, <1>8, <1>9, <1>10, <1>14 DEF InLine, CommandsFit
<1>16. Balanced(r, b, f)
  BY <1>0, <1>01, <1>4, <1>6, <1>8, <1>14 DEF InLine, Balanced
<1>. QED  BY <1>0, <1>1, <1>2, <1>5, <1>7, <1>12, <1>13, <1>15, <1>16 DEF InLine

\* The bytes b that the FPGA reads out for command c.
BytesOf(c, b) ==
  /\ Len(b) = Weight(c)
  /\ \A j \in 1 .. Len(b) :
       /\ b[j].reg = c.reg /\ b[j].mine = c.mine
       /\ b[j].word = c.word + (j + 1) \div 2 - 1
       /\ b[j].high = (j % 2 = 1)

\* The oldest command is executed.
LEMMA ExecuteInLine ==
  ASSUME NEW o \in Ops, NEW t \in Seq(Octet), NEW f \in Seq(Packet), f # <<>>,
         NEW b \in Seq(Octet), BytesOf(f[1], b), InLine(o, t, f)
  PROVE  InLine(o, t \o b, Tail(f))
<1>0. PICK lt \in Nat : lt = Len(t)  BY LenProperties
<1>01. PICK lb \in Nat : lb = Len(b)  BY LenProperties
<1>02. PICK lg \in Nat : lg = Len(o.got)  BY OpsAre
<1>03. PICK d \in Nat : d = 2 * o.done  BY OpsAre
<1>04. o.owed \in Nat /\ o.need \in Nat  BY OpsAre
<1>1. PICK g : g = Tail(f)  OBVIOUS
<1>2. PICK l \in Nat : /\ l = Len(g) /\ Len(f) = l + 1 /\ g \in Seq(Packet)
                       /\ \A i \in 1 .. l : g[i] = f[i + 1]
  <2>1. g \in Seq(Packet) /\ Len(g) = Len(f) - 1 /\ \A i \in 1 .. Len(g) : g[i] = f[i + 1]
    BY <1>1, HeadTailProperties
  <2>2. Len(g) \in Nat /\ Len(f) \in Nat  BY <2>1, LenProperties
  <2>. QED  BY <2>1, <2>2
<1>3. PICK c \in Packet : c = f[1]
  <2>1. f[1] \in Packet  BY <1>2, ElementOfSeq
  <2>. QED  BY <2>1
<1>4. lb = IF c.write THEN 0 ELSE 2 * c.count
  BY <1>01, <1>3, WeightNat DEF BytesOf
<1>5. c.count \in Nat /\ c.word \in Nat  BY DEF Packet
<1>6. \A n \in 0 .. l : Sums(f)[n + 1] = lb + Sums(g)[n] /\ Sums(g)[n] \in Nat
  BY <1>01, <1>1, <1>2, <1>3, SumsTail, SumsNat DEF BytesOf
<1>7. PICK u : u = t \o b  OBVIOUS
<1>8. Len(u) = lt + lb /\ \A j \in 1 .. lt + lb : u[j] = IF j <= lt THEN t[j] ELSE b[j - lt]
  BY <1>0, <1>01, <1>7, ConcatProperties
<1>9. \A j \in 1 .. lt : Fits(o, t[j], d + lg + j)
  BY <1>0, <1>02, <1>03 DEF InLine, HostFits
<1>10. Ahead(o, c, d + lg + lt)
  <2>1. Sums(f)[0] = 0  BY SumsIs
  <2>2. 1 \in 1 .. Len(f) /\ 1 - 1 = 0 /\ d + lg + lt + 0 = d + lg + lt  BY <1>2
  <2>3. Ahead(o, f[1], 2 * o.done + Len(o.got) + Len(t) + Sums(f)[1 - 1])
    BY <2>2 DEF InLine, CommandsFit
  <2>. QED  BY <1>0, <1>02, <1>03, <1>3, <2>1, <2>2, <2>3
<1>11. ASSUME NEW i \in 1 .. lb PROVE Fits(o, b[i], d + lg + lt + i)
  <2>1. ~c.write /\ lb = 2 * c.count  BY <1>4
  <2>2. /\ b[i].reg = c.reg /\ b[i].mine = c.mine
        /\ b[i].word = c.word + (i + 1) \div 2 - 1
        /\ b[i].high = (i % 2 = 1)
    BY <1>01, <1>3 DEF BytesOf
  <2>3. CASE ~c.mine
    <3>1. d + lg + lt + 2 * c.count <= o.owed  BY <1>10, <2>1, <2>3 DEF Ahead
    <3>2. d + lg + lt + i <= o.owed  BY <1>04, <2>1, <3>1
    <3>. QED  BY <2>2, <2>3, <3>2 DEF Fits
  <2>4. CASE c.mine
    <3>1. /\ c.word >= 1 /\ d + lg + lt = o.owed + 2 * (c.word - 1)
          /\ \A w \in c.word .. (c.word + c.count - 1) : c.reg = RegAt(o, w)
      BY <1>10, <2>4 DEF Ahead
    <3>2. PICK h \in Nat : /\ h >= 1 /\ h <= c.count /\ (i + 1) \div 2 = h
                           /\ i = 2 * h - (IF i % 2 = 1 THEN 1 ELSE 0)
      <4>1. PICK h \in Nat : i = 2 * h \/ i + 1 = 2 * h
        <5>1. i % 2 \in 0 .. 1 /\ i = 2 * (i \div 2) + (i % 2) /\ i \div 2 \in Nat  OBVIOUS
        <5>2. CASE i % 2 = 0  BY <5>1, <5>2
        <5>3. CASE i % 2 = 1
          <6>1. i \div 2 + 1 \in Nat /\ i + 1 = 2 * (i \div 2 + 1)  BY <5>1, <5>3
          <6>. QED  BY <6>1
        <5>. QED  BY <5>1, <5>2, <5>3
      <4>2. CASE i = 2 * h
        <5>1. i % 2 = 0 /\ (i + 1) \div 2 = h  BY <4>2
        <5>. QED  BY <1>5, <2>1, <4>2, <5>1
      <4>3. CASE i + 1 = 2 * h
        <5>1. i % 2 = 1 /\ (i + 1) \div 2 = h  BY <4>3
        <5>. QED  BY <1>5, <2>1, <4>3, <5>1
      <4>. QED  BY <4>1, <4>2, <4>3
    <3>21. PICK z \in Nat, k \in Nat : z = c.word /\ k = c.count /\ z >= 1 /\ h <= k
      BY <1>5, <3>1, <3>2
    <3>22. PICK w \in Nat : w = z + h - 1 /\ w >= z /\ w <= z + k - 1
      <4>1. PICK y \in Nat : z = y + 1  BY <3>21
      <4>2. y + h \in Nat  OBVIOUS
      <4>3. y + h = z + h - 1 /\ y + h >= z /\ y + h <= z + k - 1
        BY <3>2, <3>21, <4>1
      <4>. QED  BY <4>2, <4>3
    <3>3. w = c.word + h - 1 /\ w >= c.word /\ w <= c.word + c.count - 1
      BY <3>21, <3>22
    <3>4. b[i].word = w /\ b[i].reg = RegAt(o, w)
      <4>1. w \in c.word .. (c.word + c.count - 1)  BY <1>5, <3>3
      <4>. QED  BY <2>2, <3>1, <3>2, <3>3, <4>1
    <3>5. d + lg + lt + i = o.owed + 2 * w - (IF b[i].high THEN 1 ELSE 0)
      <4>1. d + lg + lt + i = o.owed + 2 * w - (IF i % 2 = 1 THEN 1 ELSE 0)
        <5>1. d + lg + lt = o.owed + 2 * (z - 1)  BY <3>1, <3>21
        <5>2. PICK x \in Nat : x = (IF i % 2 = 1 THEN 1 ELSE 0)  OBVIOUS
        <5>3. i = 2 * h - x /\ i \in Nat  BY <3>2, <5>2
        <5>4. (d + lg + lt) + i = o.owed + 2 * (z - 1) + (2 * h - x)  BY <5>1, <5>3
        <5>5. 2 * w = 2 * (z - 1) + 2 * h  BY <3>22
        <5>6. o.owed + 2 * (z - 1) + (2 * h - x) = o.owed + 2 * w - x
          BY <1>04, <5>5
        <5>. QED  BY <5>2, <5>4, <5>6
      <4>2. b[i].high <=> i % 2 = 1  BY <2>2
      <4>. QED  BY <4>1, <4>2
    <3>6. ~(d + lg + lt + i <= o.owed)  BY <1>04, <1>5, <3>1
    <3>. QED  BY <2>2, <2>4, <3>4, <3>5, <3>6 DEF Fits
  <2>. QED  BY <2>3, <2>4
<1>12. HostFits(o, u)
  <2>1. ASSUME NEW j \in 1 .. lt + lb PROVE Fits(o, u[j], d + lg + j)
    <3>1. CASE j <= lt
      <4>1. j \in 1 .. lt /\ u[j] = t[j]  BY <1>8, <3>1
      <4>. QED  BY <1>9, <4>1
    <3>2. CASE ~(j <= lt)
      <4>1. PICK i \in 1 .. lb : i = j - lt /\ d + lg + lt + i = d + lg + j  BY <3>2
      <4>2. u[j] = b[i]  BY <1>8, <3>2, <4>1
      <4>. QED  BY <1>11, <4>1, <4>2
    <3>. QED  BY <3>1, <3>2
  <2>. QED  BY <1>02, <1>03, <1>8, <2>1 DEF HostFits
<1>13. CommandsFit(o, u, g)
  <2>1. ASSUME NEW i \in 1 .. l PROVE Ahead(o, g[i], d + lg + (lt + lb) + Sums(g)[i - 1])
    <3>1. PICK n \in Nat : n = i - 1 /\ i = n + 1 /\ n \in 0 .. l  OBVIOUS
    <3>2. i + 1 \in 1 .. Len(f) /\ (i + 1) - 1 = n + 1  BY <1>2, <3>1
    <3>3. Ahead(o, f[i + 1], 2 * o.done + Len(o.got) + Len(t) + Sums(f)[(i + 1) - 1])
      BY <3>2 DEF InLine, CommandsFit
    <3>4. Sums(f)[n + 1] = lb + Sums(g)[n] /\ Sums(g)[n] \in Nat  BY <1>6, <3>1
    <3>5. d + lg + lt + (lb + Sums(g)[n]) = d + lg + (lt + lb) + Sums(g)[n]  BY <3>4
    <3>6. f[i + 1] = g[i]  BY <1>2
    <3>. QED  BY <1>0, <1>02, <1>03, <3>1, <3>2, <3>3, <3>4, <3>5, <3>6
  <2>. QED  BY <1>02, <1>03, <1>2, <1>8, <2>1 DEF CommandsFit
<1>14. Balanced(o, u, g)
  <2>1. l \in 0 .. l  OBVIOUS
  <2>2. Sums(f)[l + 1] = lb + Sums(g)[l] /\ Sums(g)[l] \in Nat  BY <1>6, <2>1
  <2>3. lg + lt + Sums(f)[l + 1] = o.owed + o.need
    BY <1>0, <1>02, <1>2 DEF InLine, Balanced
  <2>4. lg + (lt + lb) + Sums(g)[l] = o.owed + o.need  BY <2>2, <2>3
  <2>. QED  BY <1>02, <1>2, <1>8, <2>4 DEF Balanced
<1>. QED  BY <1>1, <1>7, <1>12, <1>13, <1>14 DEF InLine

\* A block goes on: all h words that were asked for have been read, and the
\* next packet, c, asks for m.
Continues(o, h, m, r, c) ==
  /\ o.kind = "readregn" /\ o.key \in Keys /\ o.need = 2 * h /\ Len(o.got) = o.need
  /\ r.kind = o.kind /\ r.key = o.key /\ r.owed = o.owed /\ r.done = o.done + h
  /\ r.need = 2 * m /\ Len(r.got) = 0
  /\ ~c.write /\ c.mine /\ c.count = m /\ c.word = r.done + 1 /\ c.reg = Wire[o.key]

LEMMA ContinueInLine ==
  ASSUME NEW o \in Ops, NEW t \in Seq(Octet), NEW f \in Seq(Packet), InLine(o, t, f),
         NEW h \in Nat, NEW m \in Nat, NEW r \in Ops, NEW c \in Packet,
         Continues(o, h, m, r, c)
  PROVE  InLine(r, t, f \o <<c>>)
<1>. /\ o.kind = "readregn" /\ o.key \in Keys /\ o.need = 2 * h /\ Len(o.got) = o.need
     /\ r.kind = o.kind /\ r.key = o.key /\ r.owed = o.owed /\ r.done = o.done + h
     /\ r.need = 2 * m /\ Len(r.got) = 0
     /\ ~c.write /\ c.mine /\ c.count = m /\ c.word = r.done + 1 /\ c.reg = Wire[o.key]
  BY DEF Continues
<1>0. PICK lt \in Nat : lt = Len(t)  BY LenProperties
<1>01. PICK lf \in Nat : lf = Len(f)  BY LenProperties
<1>02. PICK d \in Nat : d = o.done  BY OpsAre
<1>03. PICK w \in Nat : w = r.done + 1 /\ w = d + h + 1  BY <1>02
<1>04. o.owed \in Nat /\ o.need \in Nat  BY OpsAre
<1>2. ~c.write /\ c.mine /\ c.count = m /\ c.word = w /\ Weight(c) = 2 * m
  BY <1>03 DEF Weight
<1>3. PICK e : e = <<c>>  OBVIOUS
<1>4. e \in Seq(Packet) /\ Len(e) = 1 /\ e[1] = c  BY <1>2, <1>3
<1>5. PICK s : s = f \o e  OBVIOUS
<1>6. Len(s) = lf + 1 /\ \A i \in 1 .. lf + 1 : s[i] = IF i <= lf THEN f[i] ELSE e[i - lf]
  <2>1. /\ Len(f \o e) = Len(f) + Len(e)
        /\ \A i \in 1 .. Len(f) + Len(e) :
             (f \o e)[i] = IF i <= Len(f) THEN f[i] ELSE e[i - Len(f)]
    <3>1. f \in Seq(Packet) /\ e \in Seq(Packet)  BY <1>4
    <3>. QED  BY ONLY <3>1, ConcatProperties
  <2>. QED  BY <1>01, <1>4, <1>5, <2>1
<1>7. PICK q \in Nat : q = Sums(f)[lf]
  <2>1. lf \in 0 .. lf  OBVIOUS
  <2>. QED  BY <1>01, <2>1, SumsNat
<1>8. /\ \A n \in 0 .. lf : Sums(s)[n] = Sums(f)[n] /\ Sums(f)[n] \in Nat
      /\ Sums(s)[lf + 1] = q + 2 * m
  <2>1. \A n \in 0 .. lf : Sums(s)[n] = Sums(f)[n]  BY <1>01, <1>4, <1>5, SumsConcat
  <2>2. \A n \in 0 .. lf : Sums(f)[n] \in Nat  BY <1>01, SumsNat
  <2>3. Sums(s)[lf + 1] = Sums(s)[lf] + Weight(s[lf + 1])  BY SumsIs
  <2>4. s[lf + 1] = c
    <3>1. lf + 1 \in 1 .. lf + 1 /\ ~(lf + 1 <= lf) /\ (lf + 1) - lf = 1  OBVIOUS
    <3>. QED  BY <1>4, <1>6, <3>1
  <2>5. lf \in 0 .. lf  OBVIOUS
  <2>. QED  BY <1>2, <1>7, <2>1, <2>2, <2>3, <2>4, <2>5
<1>9. /\ \A v : RegAt(r, v) = Wire[o.key] /\ RegAt(o, v) = Wire[o.key]
      /\ \A x, p : Fits(r, x, p) = Fits(o, x, p)
      /\ \A x, p : Ahead(r, x, p) = Ahead(o, x, p)
  BY DEF RegAt, Fits, Ahead
<1>10. lt + q = o.owed
  <2>1. 2 * h + lt + q = o.owed + 2 * h
    BY <1>0, <1>01, <1>7 DEF InLine, Balanced
  <2>2. PICK w0 \in Nat, y \in Nat : w0 = o.owed /\ y = 2 * h  BY <1>04
  <2>3. y + lt + q = w0 + y  BY ONLY <2>1, <2>2
  <2>4. lt + q = w0
    BY ONLY <2>3, y \in Nat, lt \in Nat, q \in Nat, w0 \in Nat
  <2>. QED  BY ONLY <2>2, <2>4
<1>11. GotFits(r)  BY DEF GotFits
<1>12. HostFits(r, t)
  <2>1. \A j \in 1 .. lt : Fits(o, t[j], 2 * o.done + Len(o.got) + j)
    BY <1>0 DEF InLine, HostFits
  <2>2. \A j \in 1 .. lt : 2 * o.done + Len(o.got) + j = 2 * r.done + Len(r.got) + j
    BY <1>02
  <2>. QED  BY <1>0, <1>9, <2>1, <2>2 DEF HostFits
<1>13. ASSUME NEW i \in 1 .. lf + 1
       PROVE  Ahead(r, s[i], 2 * r.done + Len(r.got) + Len(t) + Sums(s)[i - 1])
  <2>0. PICK n \in Nat : n = i - 1 /\ n \in 0 .. lf  OBVIOUS
  <2>1. 2 * o.done + Len(o.got) + lt + Sums(s)[n] = 2 * r.done + Len(r.got) + lt + Sums(s)[n]
    <3>1. 2 * o.done + Len(o.got) = 2 * r.done + Len(r.got)  BY <1>02
    <3>. QED  BY ONLY <3>1
  <2>2. CASE i <= lf
    <3>1. i \in 1 .. lf /\ s[i] = f[i]  BY <1>6, <2>2
    <3>2. Ahead(o, f[i], 2 * o.done + Len(o.got) + lt + Sums(f)[n])
      BY <1>0, <1>01, <2>0, <3>1 DEF InLine, CommandsFit
    <3>. QED  BY <1>0, <1>8, <1>9, <2>0, <2>1, <3>1, <3>2
  <2>3. CASE ~(i <= lf)
    <3>1. i = lf + 1 /\ n = lf /\ i - lf = 1  BY <2>0, <2>3
    <3>2. s[i] = c /\ Sums(s)[n] = q
      <4>1. s[i] = c  BY <1>4, <1>6, <2>3, <3>1
      <4>. QED  BY <1>7, <1>8, <2>0, <3>1, <4>1
    <3>3. 2 * r.done + Len(r.got) + lt + q = r.owed + 2 * (w - 1)
      <4>1. 2 * (d + h) + 0 + lt + q = o.owed + 2 * (w - 1)  BY <1>03, <1>04, <1>10
      <4>. QED  BY <1>02, <4>1
    <3>4. \A v \in c.word .. (c.word + c.count - 1) : c.reg = RegAt(r, v)
      BY <1>2, <1>9
    <3>5. Ahead(r, c, r.owed + 2 * (w - 1))  BY <1>03, <1>2, <3>4 DEF Ahead
    <3>. QED  BY <1>0, <2>0, <3>2, <3>3, <3>5
  <2>. QED  BY <2>2, <2>3
<1>14. CommandsFit(r, t, s)  BY <1>6, <1>13 DEF CommandsFit
<1>15. Balanced(r, t, s)
  <2>1. 0 + lt + (q + 2 * m) = o.owed + 2 * m  BY <1>04, <1>10
  <2>. QED  BY <1>0, <1>6, <1>8, <2>1 DEF Balanced
<1>. QED  BY <1>3, <1>5, <1>11, <1>12, <1>14, <1>15 DEF InLine

-----------------------------------------------------------------------------
(* Steps. *)

LEMMA NothingEmitted == ASSUME emitted' = {} PROVE EventsAreTrue'
BY DEF EventsAreTrue

LEMMA NoOpIs ==
  /\ NoOp \in Ops /\ NoOp.kind = "none" /\ "none" \notin KindsOfRead /\ Asked(NoOp)
<1>1. PICK e : e = <<>>  OBVIOUS
<1>2. e \in Seq(Octet) /\ Len(e) = 0  BY <1>1, EmptySeq
<1>3. PICK o : o = NoOp  OBVIOUS
<1>4. o = [kind |-> "none", key |-> AnyKey, left |-> 0, need |-> 0, got |-> e,
           done |-> 0, owed |-> 0]
  BY <1>1, <1>3 DEF NoOp
<1>5. o \in Ops  BY <1>2, <1>4 DEF Ops, Kinds
<1>6. Asked(o)  BY <1>2, <1>4 DEF Asked
<1>. QED  BY <1>3, <1>4, <1>5, <1>6 DEF KindsOfRead

\* An operation ends or none begins.
LEMMA Quiet ==
  ASSUME Types', op' = NoOp, EventsAreTrue'
  PROVE  IInv'
BY NoOpIs DEF IInv

LEMMA OwedIs ==
  ASSUME Types
  PROVE  Owed \in Nat /\ Owed = Len(toHost) + Sums(toFpga)[Len(toFpga)]
<1>1. Len(toHost) \in Nat /\ Len(toFpga) \in Nat  BY LenProperties DEF Types
<1>2. PICK l \in Nat : l = Len(toFpga) /\ l \in 0 .. l  BY <1>1
<1>3. Sums(toFpga)[l] \in Nat  BY <1>2, SumsNat DEF Types
<1>. QED  BY <1>1, <1>2, <1>3, ProducesIs DEF Owed

LEMMA InitIInv == Init => IInv
<1> SUFFICES ASSUME Init PROVE IInv  OBVIOUS
<1>1. Types
  <2>1. toFpga \in Seq(Packet) /\ toHost \in Seq(Octet)  BY EmptySeq DEF Init
  <2>2. regs \in [Regs -> Words]  BY ConstantsAre DEF Init
  <2>. QED  BY <2>1, <2>2, NoOpIs DEF Init, Types
<1>2. EventsAreTrue  BY DEF Init, EventsAreTrue
<1>3. op = NoOp  BY DEF Init
<1>. QED  BY <1>1, <1>2, <1>3, NoOpIs DEF IInv

\* The operation that starts.
Started(kind, k, left, need, owed) ==
  [kind |-> kind, key |-> k, left |-> left, need |-> need, got |-> <<>>, done |-> 0,
   owed |-> owed]

\* Its commands and the number of its bytes fit.
Sound(kind, k, left, c, need) ==
  /\ kind \in Kinds /\ k \in Keys \cup {AnyKey} /\ left \in Nat /\ need \in Nat
  /\ c \in Seq(Packet)
  /\ \A owed \in Nat :
       LET o == Started(kind, k, left, need, owed) IN
       /\ Asked(o)
       /\ kind \in KindsOfRead => AllOwn(o, c) /\ need = Sums(c)[Len(c)]

LEMMA StartingStep ==
  ASSUME IInv, NEW kind, NEW k, NEW left, NEW c, NEW need,
         Sound(kind, k, left, c, need), StartReading(kind, k, left, c, need)
  PROVE  IInv'
<1>0. Types /\ op = NoOp /\ handle # "gone"  BY DEF IInv, StartReading, Ready
<1>1. /\ toHost \in Seq(Octet) /\ toFpga \in Seq(Packet) /\ regs \in [Regs -> Words]
      /\ c \in Seq(Packet) /\ regs' = regs
  BY <1>0 DEF Types, Sound, StartReading
<1>2. PICK s \in Sending(c) :
        /\ toFpga' = Foreign(toFpga) \o s.sent
        /\ IF s.ok
             THEN /\ op' = [kind |-> kind, key |-> k, left |-> left, need |-> need,
                            got |-> <<>>, done |-> 0, owed |-> Owed]
                  /\ UNCHANGED handle
             ELSE Raise(kind)
  BY DEF StartReading
<1>3. s.sent \in Seq(Packet) /\ (s.ok => s.sent = c)  BY <1>1, SendingIs
<1>4. toFpga' \in Seq(Packet)
  <2>1. Foreign(toFpga) \in Seq(Packet)  BY <1>1, ForeignIs
  <2>2. Foreign(toFpga) \o s.sent \in Seq(Packet)  BY ONLY <1>3, <2>1, ConcatProperties
  <2>. QED  BY <1>2, <2>2
<1>5. toHost' = Foreign(toHost)  BY DEF StartReading
<1>6. toHost' \in Seq(Octet)
  <2>1. Foreign(toHost) \in Seq(Octet)  BY <1>1, ForeignBytes
  <2>. QED  BY <1>5, <2>1
<1>7. EventsAreTrue'
  <2>1. emitted' = {}  BY DEF StartReading
  <2>. QED  BY <2>1, NothingEmitted
<1>8. CASE ~s.ok
  <2>1. op' = NoOp  BY <1>2, <1>8 DEF Raise
  <2>2. Types'  BY <1>1, <1>4, <1>6, <2>1, NoOpIs DEF Types
  <2>. QED  BY <1>7, <2>1, <2>2, Quiet
<1>9. CASE s.ok
  <2>1. PICK w \in Nat : w = Owed /\ w = Len(toHost) + Sums(toFpga)[Len(toFpga)]
    BY <1>0, OwedIs
  <2>2. PICK o : o = Started(kind, k, left, need, w)  OBVIOUS
  <2>3. op' = o /\ handle' = handle  BY <1>2, <1>9, <2>1, <2>2 DEF Started
  <2>4. PICK e : e = <<>>  OBVIOUS
  <2>5. e \in Seq(Octet) /\ Len(e) = 0  BY <2>4, EmptySeq
  <2>6. /\ o.kind = kind /\ o.key = k /\ o.left = left /\ o.need = need /\ o.got = e
        /\ o.done = 0 /\ o.owed = w
    BY <2>2, <2>4 DEF Started
  <2>7. o \in Ops
    BY <2>2, <2>4, <2>5 DEF Started, Sound, Ops
  <2>8. Asked(o) /\ (kind \in KindsOfRead => AllOwn(o, c) /\ need = Sums(c)[Len(c)])
    BY <2>2 DEF Sound
  <2>9. toFpga' = Foreign(toFpga) \o c  BY <1>2, <1>3, <1>9
  <2>10. ASSUME kind \in KindsOfRead
         PROVE  InLine(o, Foreign(toHost), Foreign(toFpga) \o c)
    <3>1. o.need = Sums(c)[Len(c)] /\ AllOwn(o, c) /\ Len(o.got) = 0
      BY <2>5, <2>6, <2>8, <2>10
    <3>2. o.owed = Len(toHost) + Sums(toFpga)[Len(toFpga)] /\ o.done = 0
      BY <2>1, <2>6
    <3>. QED  BY <1>1, <2>7, <3>1, <3>2, StartInLine
  <2>11. Types'  BY <1>1, <1>4, <1>6, <2>3, <2>7 DEF Types
  <2>12. handle' # "gone"  BY <1>0, <2>3
  <2>13. Asked(op')  BY <2>3, <2>8
  <2>14. op'.kind \in KindsOfRead => InLine(op', toHost', toFpga')
    BY <1>5, <2>3, <2>6, <2>9, <2>10
  <2>. QED  BY <1>7, <2>11, <2>12, <2>13, <2>14 DEF IInv
<1>. QED  BY <1>8, <1>9

\* One command reads one packet of words.
LEMMA OneReadIs ==
  ASSUME NEW k \in Keys, NEW n \in Nat, n <= MaxPacket
  PROVE  /\ <<ReadCommand(k, n, 1)>> \in Seq(Packet)
         /\ 2 * n = Sums(<<ReadCommand(k, n, 1)>>)[Len(<<ReadCommand(k, n, 1)>>)]
         /\ \A o : /\ o.kind \in {"readreg", "readregn"} /\ o.key = k
                   => AllOwn(o, <<ReadCommand(k, n, 1)>>)
<1>1. PICK c \in Packet :
        /\ c = ReadCommand(k, n, 1)
        /\ ~c.write /\ c.mine /\ c.count = n /\ c.word = 1 /\ c.reg = Wire[k]
        /\ Weight(c) = 2 * n
  BY ReadCommandIs
<1>3. PICK e : e = <<c>>  OBVIOUS
<1>4. e \in Seq(Packet) /\ Len(e) = 1 /\ e[1] = c  BY <1>3
<1>5. Sums(e)[0] = 0 /\ Sums(e)[0 + 1] = Sums(e)[0] + Weight(e[0 + 1])  BY SumsIs
<1>6. Sums(e)[1] = 2 * n  BY <1>1, <1>4, <1>5
<1>7. ASSUME NEW o, o.kind \in {"readreg", "readregn"}, o.key = k
      PROVE  AllOwn(o, e)
  <2>1. \A w : RegAt(o, w) = Wire[k]  BY <1>7 DEF RegAt
  <2>2. \A i \in 1 .. Len(e) : i = 1 /\ i - 1 = 0 /\ e[i] = c  BY <1>4
  <2>3. c.mine /\ ~c.write /\ c.word >= 1 /\ Sums(e)[0] = 2 * (c.word - 1)
    BY <1>1, <1>5
  <2>4. \A w \in c.word .. (c.word + c.count - 1) : c.reg = RegAt(o, w)
    BY <1>1, <2>1
  <2>. QED  BY <2>2, <2>3, <2>4 DEF AllOwn
<1>. QED  BY <1>1, <1>3, <1>4, <1>6, <1>7

LEMMA readRegStep == ASSUME IInv, NEW k \in Keys, readReg(k) PROVE IInv'
<1>1. PICK c : c = <<ReadCommand(k, 1, 1)>>  OBVIOUS
<1>2. /\ c \in Seq(Packet) /\ Sums(c)[Len(c)] = 2
      /\ \A o : o.kind \in {"readreg", "readregn"} /\ o.key = k => AllOwn(o, c)
  <2>1. 1 \in Nat /\ 1 <= MaxPacket /\ 2 * 1 = 2  BY ConstantsAre
  <2>. QED  BY <1>1, <2>1, OneReadIs
<1>3. ASSUME NEW w \in Nat
      PROVE  Asked(Started("readreg", k, 1, 2, w)) /\ AllOwn(Started("readreg", k, 1, 2, w), c)
  <2>1. PICK o : o = Started("readreg", k, 1, 2, w)  OBVIOUS
  <2>2. /\ o.kind = "readreg" /\ o.key = k /\ o.need = 2 /\ o.done = 0 /\ o.got = <<>>
    BY <2>1 DEF Started
  <2>3. Len(o.got) = 0  BY <2>2, EmptySeq
  <2>4. AllOwn(o, c)  BY <1>2, <2>2
  <2>. QED  BY <2>1, <2>2, <2>3, <2>4 DEF Asked
<1>4. Sound("readreg", k, 1, c, 2)  BY <1>2, <1>3 DEF Sound, Kinds
<1>5. StartReading("readreg", k, 1, c, 2)  BY <1>1 DEF readReg
<1>. QED  BY <1>4, <1>5, StartingStep

LEMMA readRegNStep ==
  ASSUME IInv, NEW k \in Keys, NEW n \in Nat, n >= 1, readRegN(k, n) PROVE IInv'
<1>1. PICK p \in Nat : p = NextPacket(n) /\ p <= MaxPacket  BY NextPacketIs
<1>2. PICK c : c = <<ReadCommand(k, p, 1)>>  OBVIOUS
<1>3. /\ c \in Seq(Packet) /\ Sums(c)[Len(c)] = 2 * p
      /\ \A o : o.kind \in {"readreg", "readregn"} /\ o.key = k => AllOwn(o, c)
  BY <1>1, <1>2, OneReadIs
<1>4. ASSUME NEW w \in Nat
      PROVE  /\ Asked(Started("readregn", k, n, 2 * p, w))
             /\ AllOwn(Started("readregn", k, n, 2 * p, w), c)
  <2>1. PICK o : o = Started("readregn", k, n, 2 * p, w)  OBVIOUS
  <2>2. /\ o.kind = "readregn" /\ o.key = k /\ o.left = n /\ o.need = 2 * p /\ o.done = 0
        /\ o.got = <<>>
    BY <2>1 DEF Started
  <2>3. Len(o.got) = 0 /\ 0 <= 2 * p  BY <2>2, EmptySeq
  <2>4. AllOwn(o, c)  BY <1>3, <2>2
  <2>. QED  BY <1>1, <2>1, <2>2, <2>3, <2>4 DEF Asked
<1>5. Sound("readregn", k, n, c, 2 * p)  BY <1>3, <1>4 DEF Sound, Kinds
<1>6. StartReading("readregn", k, n, c, 2 * p)  BY <1>1, <1>2 DEF readRegN
<1>. QED  BY <1>5, <1>6, StartingStep

\* The commands of a poll.
LEMMA PollIs ==
  ASSUME NEW c, c = [i \in DOMAIN WatchList |-> ReadCommand(WatchList[i], 1, i)]
  PROVE  /\ c \in Seq(Packet) /\ Len(c) = Len(WatchList)
         /\ Sums(c)[Len(c)] = 2 * Len(WatchList)
         /\ \A o : o.kind = "poll" => AllOwn(o, c)
<1>0. PICK l \in Nat : l = Len(WatchList) /\ DOMAIN WatchList = 1 .. l
  BY ConstantsAre
<1>1. ASSUME NEW i \in 1 .. l
      PROVE  /\ c[i] \in Packet /\ ~c[i].write /\ c[i].mine
             /\ c[i].count = 1 /\ c[i].word = i /\ c[i].reg = Wire[WatchList[i]]
  <2>1. PICK k \in Keys : k = WatchList[i]  BY <1>0, ConstantsAre
  <2>2. 1 \in Nat /\ 1 <= MaxPacket /\ i \in Nat  BY ConstantsAre
  <2>3. PICK e \in Packet :
          /\ e = ReadCommand(k, 1, i)
          /\ ~e.write /\ e.mine /\ e.count = 1 /\ e.word = i /\ e.reg = Wire[k]
    BY <2>2, ReadCommandIs
  <2>4. c[i] = ReadCommand(k, 1, i)  BY <1>0, <2>1
  <2>. QED  BY <2>1, <2>3, <2>4
<1>2. c \in Seq(Packet) /\ Len(c) = l
  <2>1. c \in [1 .. l -> Packet]  BY <1>0, <1>1
  <2>. QED  BY <2>1, FunctionIsSeq
<1>3. \A n \in 0 .. l : Sums(c)[n] = 2 * n
  <2>1. \A i \in 1 .. Len(c) : ~c[i].write /\ c[i].count = 1  BY <1>1, <1>2
  <2>. QED  BY <1>2, <2>1, SumsOnes
<1>4. l \in 0 .. l  OBVIOUS
<1>5. ASSUME NEW o, o.kind = "poll" PROVE AllOwn(o, c)
  <2>1. ASSUME NEW i \in 1 .. l
        PROVE  /\ c[i].mine /\ ~c[i].write /\ c[i].word >= 1
               /\ Sums(c)[i - 1] = 2 * (c[i].word - 1)
               /\ \A w \in c[i].word .. (c[i].word + c[i].count - 1) : c[i].reg = RegAt(o, w)
    <3>1. i - 1 \in 0 .. l  OBVIOUS
    <3>2. Sums(c)[i - 1] = 2 * (i - 1)  BY <1>3, <3>1
    <3>3. \A w \in i .. (i + 1 - 1) : w = i  OBVIOUS
    <3>4. RegAt(o, i) = Wire[WatchList[i]]  BY <1>5 DEF RegAt
    <3>5. /\ c[i].mine /\ ~c[i].write /\ c[i].count = 1 /\ c[i].word = i
          /\ c[i].reg = Wire[WatchList[i]]
      BY <1>1
    <3>6. \A w \in c[i].word .. (c[i].word + c[i].count - 1) : w = i  BY <3>3, <3>5
    <3>7. i >= 1  OBVIOUS
    <3>. QED  BY <3>2, <3>4, <3>5, <3>6, <3>7
  <2>. QED  BY <1>2, <2>1 DEF AllOwn
<1>. QED  BY <1>0, <1>2, <1>3, <1>4, <1>5

LEMMA PollStep == ASSUME IInv, updateTrackedRegs PROVE IInv'
<1>0. PICK l \in Nat : l = Len(WatchList)  BY ConstantsAre
<1>1. l > 0
  <2>1. WatchList \in Seq(Keys) /\ WatchList # <<>>
    BY RegistersAssumption DEF updateTrackedRegs
  <2>. QED  BY <1>0, <2>1, EmptySeq
<1>2. PICK c : c = [i \in DOMAIN WatchList |-> ReadCommand(WatchList[i], 1, i)]
  OBVIOUS
<1>3. /\ c \in Seq(Packet) /\ Sums(c)[Len(c)] = 2 * l
      /\ \A o : o.kind = "poll" => AllOwn(o, c)
  BY <1>0, <1>2, PollIs
<1>4. ASSUME NEW w \in Nat
      PROVE  /\ Asked(Started("poll", AnyKey, l, 2 * l, w))
             /\ AllOwn(Started("poll", AnyKey, l, 2 * l, w), c)
  <2>1. PICK o : o = Started("poll", AnyKey, l, 2 * l, w)  OBVIOUS
  <2>2. /\ o.kind = "poll" /\ o.need = 2 * l /\ o.done = 0 /\ o.got = <<>>
    BY <2>1 DEF Started
  <2>3. Len(o.got) = 0 /\ 0 <= 2 * l  BY <2>2, EmptySeq
  <2>4. AllOwn(o, c)  BY <1>3, <2>2
  <2>. QED  BY <1>0, <1>1, <2>1, <2>2, <2>3, <2>4 DEF Asked
<1>5. Sound("poll", AnyKey, l, c, 2 * l)  BY <1>3, <1>4 DEF Sound, Kinds
<1>6. StartReading("poll", AnyKey, l, c, 2 * l)
  BY <1>0, <1>2 DEF updateTrackedRegs
<1>. QED  BY <1>5, <1>6, StartingStep

LEMMA readRawStep == ASSUME IInv, NEW n \in Nat, readRaw(n) PROVE IInv'
<1>1. CASE handle = "null"
  <2>1. /\ op = NoOp /\ UNCHANGED <<regs, toFpga, toHost, op>> /\ emitted' = {}
    BY <1>1 DEF readRaw, Ready, fpgaVars
  <2>2. Types'  BY <2>1 DEF IInv, Types
  <2>. QED  BY <2>1, <2>2, NothingEmitted, Quiet
<1>2. CASE handle # "null"
  <2>1. PICK c : c = <<>>  OBVIOUS
  <2>2. c \in Seq(Packet)  BY <2>1, EmptySeq
  <2>3. ASSUME NEW w \in Nat PROVE Asked(Started("readraw", AnyKey, 1, n, w))
    <3>1. PICK o : o = Started("readraw", AnyKey, 1, n, w)  OBVIOUS
    <3>2. o.kind = "readraw" /\ o.need = n /\ o.got = <<>>  BY <3>1 DEF Started
    <3>3. Len(o.got) = 0  BY <3>2, EmptySeq
    <3>. QED  BY <3>1, <3>2, <3>3 DEF Asked
  <2>4. Sound("readraw", AnyKey, 1, c, n)
    BY <2>2, <2>3 DEF Sound, Kinds, KindsOfRead
  <2>5. StartReading("readraw", AnyKey, 1, c, n)  BY <1>2, <2>1 DEF readRaw
  <2>. QED  BY <2>4, <2>5, StartingStep
<1>. QED  BY <1>1, <1>2

\* Writing leaves everything as it is but the two FIFOs.
LEMMA WriteStep ==
  ASSUME IInv, NEW c \in Seq(Packet), Write(c)
  PROVE  IInv'
<1>1. /\ Types /\ op = NoOp /\ UNCHANGED <<regs, op>> /\ emitted' = {}
      /\ toHost' = Foreign(toHost)
  BY DEF IInv, Write, Ready
<1>2. PICK s \in Sending(c) : toFpga' = Foreign(toFpga \o s.sent)  BY DEF Write
<1>3. toFpga' \in Seq(Packet)
  <2>1. s.sent \in Seq(Packet) /\ toFpga \in Seq(Packet)
    BY <1>1, SendingIs DEF Types
  <2>2. toFpga \o s.sent \in Seq(Packet)  BY ONLY <2>1, ConcatProperties
  <2>3. Foreign(toFpga \o s.sent) \in Seq(Packet)  BY <2>2, ForeignIs
  <2>. QED  BY <1>2, <2>3
<1>4. toHost' \in Seq(Octet)
  <2>1. toHost \in Seq(Octet)  BY <1>1 DEF Types
  <2>2. Foreign(toHost) \in Seq(Octet)  BY <2>1, ForeignBytes
  <2>. QED  BY <1>1, <2>2
<1>5. Types'  BY <1>1, <1>3, <1>4 DEF Types
<1>. QED  BY <1>1, <1>5, NothingEmitted, Quiet

LEMMA writeRegStep ==
  ASSUME IInv, NEW k \in Keys, NEW v \in Values, writeReg(k, v) PROVE IInv'
<1>1. WriteCommand(k, v, 1) \in Packet
  <2>1. 1 \in Nat /\ 1 <= MaxPacket  BY ConstantsAre
  <2>. QED  BY <2>1, WriteCommandIs
<1>2. <<WriteCommand(k, v, 1)>> \in Seq(Packet)  BY <1>1
<1>. QED  BY <1>2, WriteStep DEF writeReg

LEMMA writeRegNStep ==
  ASSUME IInv, NEW k \in Keys, NEW v \in Values, NEW n \in Nat, writeRegN(k, v, n)
  PROVE  IInv'
<1>1. n > 0 /\ Write(WritePackets(k, v, n))  BY DEF writeRegN
<1>2. WritePackets(k, v, n) \in Seq(Packet)  BY <1>1, WritePacketsAre
<1>. QED  BY <1>1, <1>2, WriteStep

LEMMA writeRawStep == ASSUME IInv, NEW k \in Keys, writeRaw(k) PROVE IInv'
<1>1. <<ReadCommand(k, 1, 1)>> \in Seq(Packet)
  <2>1. 1 \in Nat /\ 1 <= MaxPacket  BY ConstantsAre
  <2>. QED  BY <2>1, OneReadIs
<1>. QED  BY <1>1, WriteStep DEF writeRaw

\* New handles.
LEMMA HandleStep == ASSUME IInv, Reprogram \/ Recreate PROVE IInv'
<1>1. toFpga' \in Seq(Packet) /\ toHost' \in Seq(Octet)
  BY EmptySeq DEF Reprogram, Recreate
<1>2. op = NoOp /\ op' = op /\ emitted' = {}
  BY DEF IInv, Reprogram, Recreate, Ready
<1>3. regs' \in [Regs -> Words]
  <2>1. regs' = regs \/ regs' \in [Regs -> Values]  BY DEF Reprogram, Recreate
  <2>2. regs \in [Regs -> Words]  BY DEF IInv, Types
  <2>. QED  BY <2>1, <2>2, ConstantsAre
<1>4. Types'  BY <1>1, <1>2, <1>3, NoOpIs DEF Types
<1>. QED  BY <1>2, <1>4, NothingEmitted, Quiet

\* Steps of the hardware and of others that leave the FIFOs alone.
LEMMA SameStep ==
  ASSUME IInv, UNCHANGED <<toFpga, toHost, handle, op>>, regs' \in [Regs -> Words],
         EventsAreTrue'
  PROVE  IInv'
<1>1. Types'  BY DEF IInv, Types
<1>2. handle' = "gone" => op' = NoOp  BY DEF IInv
<1>3. Asked(op')  BY DEF IInv
<1>4. op'.kind \in KindsOfRead => InLine(op', toHost', toFpga')  BY DEF IInv
<1>. QED  BY <1>1, <1>2, <1>3, <1>4 DEF IInv

LEMMA HardwareStep ==
  ASSUME IInv, NEW r \in Regs, NEW v \in Values, HardwareChanges(r, v) PROVE IInv'
<1>1. UNCHANGED <<toFpga, toHost, handle, op>> /\ emitted' = {}
  BY DEF HardwareChanges
<1>2. regs' \in [Regs -> Words]
  <2>1. regs \in [Regs -> Words] /\ v \in Words  BY ConstantsAre DEF IInv, Types
  <2>2. regs' = [regs EXCEPT ![r] = v]  BY DEF HardwareChanges
  <2>. QED  BY <2>1, <2>2
<1>. QED  BY <1>1, <1>2, NothingEmitted, SameStep

LEMMA ReadBytesStep == ASSUME IInv, ReadBytes PROVE IInv'
<1>0. op \in Ops /\ toHost \in Seq(Octet)  BY DEF IInv, Types
<1>1. PICK n \in 1 .. Len(toHost) :
        /\ Len(op.got) + n <= op.need
        /\ op' = [op EXCEPT !.got = op.got \o SubSeq(toHost, 1, n)]
        /\ toHost' = SubSeq(toHost, n + 1, Len(toHost))
  BY DEF ReadBytes
<1>2. PICK a : a = SubSeq(toHost, 1, n)  OBVIOUS
<1>3. PICK lt \in Nat : lt = Len(toHost) /\ n \in Nat /\ n <= lt
  BY <1>0, LenProperties
<1>4. a \in Seq(Octet) /\ Len(a) = n
  <2>1. \A j \in 1 .. n : toHost[j] \in Octet  BY <1>0, <1>3, ElementOfSeq
  <2>2. 1 \in Int /\ n \in Int  OBVIOUS
  <2>3. SubSeq(toHost, 1, n) \in Seq(Octet)
        /\ Len(SubSeq(toHost, 1, n)) = IF 1 <= n THEN n - 1 + 1 ELSE 0
    BY ONLY <2>1, <2>2, SubSeqProperties
  <2>. QED  BY <1>2, <1>3, <2>3
<1>5. toHost' \in Seq(Octet)
  <2>1. \A j \in n + 1 .. lt : toHost[j] \in Octet
    <3>1. \A j \in n + 1 .. lt : j \in 1 .. lt  OBVIOUS
    <3>. QED  BY <1>0, <1>3, <3>1, ElementOfSeq
  <2>2. SubSeq(toHost, n + 1, lt) \in Seq(Octet)
    <3>1. n + 1 \in Int /\ lt \in Int  OBVIOUS
    <3>. QED  BY ONLY <2>1, <3>1, SubSeqProperties
  <2>. QED  BY <1>1, <1>3, <2>2
<1>6. PICK g : g = op.got \o a  OBVIOUS
<1>7. g \in Seq(Octet) /\ Len(g) = Len(op.got) + n
  <2>1. op.got \in Seq(Octet)  BY <1>0, OpsAre
  <2>2. op.got \o a \in Seq(Octet) /\ Len(op.got \o a) = Len(op.got) + Len(a)
    BY ONLY <1>4, <2>1, ConcatProperties
  <2>. QED  BY <1>4, <1>6, <2>2
<1>8. PICK o : o = [op EXCEPT !.got = g]  OBVIOUS
<1>9. op' = o  BY <1>1, <1>2, <1>6, <1>8
<1>10. /\ o \in Ops /\ o.kind = op.kind /\ o.key = op.key /\ o.left = op.left
       /\ o.need = op.need /\ o.got = g /\ o.done = op.done /\ o.owed = op.owed
  BY <1>0, <1>7, <1>8 DEF Ops
<1>11. Asked(o)
  <2>1. Asked(op)  BY DEF IInv
  <2>2. Len(o.got) <= o.need  BY <1>1, <1>7, <1>10
  <2>. QED  BY <1>10, <2>1, <2>2 DEF Asked
<1>12. ASSUME op.kind \in KindsOfRead
       PROVE  InLine(o, SubSeq(toHost, n + 1, Len(toHost)), toFpga)
  <2>1. InLine(op, toHost, toFpga)  BY <1>12 DEF IInv
  <2>2. InLine([op EXCEPT !.got = op.got \o SubSeq(toHost, 1, n)],
               SubSeq(toHost, n + 1, Len(toHost)), toFpga)
    BY <1>0, <2>1, ReadInLine
  <2>. QED  BY <1>2, <1>6, <1>8, <2>2
<1>13. /\ UNCHANGED <<regs, toFpga, handle>> /\ emitted' = {} /\ op # NoOp
  BY DEF ReadBytes, Reading
<1>14. Types'  BY <1>5, <1>9, <1>10, <1>13 DEF IInv, Types
<1>15. handle' # "gone"  BY <1>13 DEF IInv
<1>16. Asked(op')  BY <1>9, <1>11
<1>17. op'.kind \in KindsOfRead => InLine(op', toHost', toFpga')
  BY <1>1, <1>9, <1>10, <1>12, <1>13
<1>18. EventsAreTrue'  BY <1>13, NothingEmitted
<1>. QED  BY <1>14, <1>15, <1>16, <1>17, <1>18 DEF IInv

LEMMA ReadFailsStep == ASSUME IInv, ReadFails PROVE IInv'
<1>1. op' = NoOp /\ UNCHANGED <<regs, toFpga, toHost>> /\ emitted' = {}
  BY DEF ReadFails, Raise, fpgaVars
<1>2. Types'  BY <1>1, NoOpIs DEF IInv, Types
<1>. QED  BY <1>1, <1>2, NothingEmitted, Quiet

LEMMA ContinueStep == ASSUME IInv, ContinueBlock PROVE IInv'
<1>0. /\ op \in Ops /\ toFpga \in Seq(Packet) /\ toHost \in Seq(Octet)
      /\ regs \in [Regs -> Words]
  BY DEF IInv, Types
<1>1. op.kind = "readregn" /\ op # NoOp /\ Len(op.got) = op.need
  BY DEF ContinueBlock, Complete, Reading
<1>2. PICK l \in Nat : l = op.left /\ l > 0 /\ op.need = 2 * NextPacket(l) /\ op.key \in Keys
  BY <1>0, <1>1, OpsAre DEF IInv, Asked
<1>3. PICK h \in Nat : h = NextPacket(l) /\ op.need = 2 * h /\ h <= l
  BY <1>2, NextPacketIs
<1>4. op.need \div 2 = h
  <2>1. (2 * h) \div 2 = h  OBVIOUS
  <2>. QED  BY <1>3, <2>1
<1>5. PICK d \in Nat : d = op.done  BY <1>0, OpsAre
<1>6. PICK x \in Nat : x = l - h /\ x > 0
  <2>1. l - h \in Nat  BY <1>3
  <2>2. l - h > 0  BY <1>2, <1>4 DEF ContinueBlock
  <2>. QED  BY <2>1, <2>2
<1>7. PICK m \in Nat : m = NextPacket(x) /\ m <= MaxPacket
  BY NextPacketIs
<1>8. d + h + 1 \in Nat /\ d + h \in Nat  OBVIOUS
<1>9. PICK c \in Packet :
        /\ c = ReadCommand(op.key, m, d + h + 1)
        /\ ~c.write /\ c.mine /\ c.count = m /\ c.word = d + h + 1 /\ c.reg = Wire[op.key]
  BY <1>2, <1>7, <1>8, ReadCommandIs
<1>10. PICK s \in Sending(<<c>>) :
         /\ toFpga' = toFpga \o s.sent
         /\ IF s.ok
              THEN /\ op' = [op EXCEPT !.left = x, !.done = d + h,
                                       !.need = 2 * m, !.got = <<>>]
                   /\ UNCHANGED handle
              ELSE Raise(op.kind)
  BY <1>2, <1>4, <1>5, <1>6, <1>7, <1>9 DEF ContinueBlock
<1>11. s.sent \in Seq(Packet) /\ (s.ok => s.sent = <<c>>)
  <2>1. <<c>> \in Seq(Packet)  OBVIOUS
  <2>. QED  BY <2>1, SendingIs
<1>12. toFpga' \in Seq(Packet)
  <2>1. toFpga \o s.sent \in Seq(Packet)  BY ONLY <1>0, <1>11, ConcatProperties
  <2>. QED  BY <1>10, <2>1
<1>13. UNCHANGED <<regs, toHost>> /\ emitted' = {}  BY DEF ContinueBlock
<1>14. EventsAreTrue'  BY <1>13, NothingEmitted
<1>15. CASE ~s.ok
  <2>1. op' = NoOp  BY <1>10, <1>15 DEF Raise
  <2>2. Types'  BY <1>0, <1>12, <1>13, <2>1, NoOpIs DEF Types
  <2>. QED  BY <1>14, <2>1, <2>2, Quiet
<1>16. CASE s.ok
  <2>1. PICK e : e = <<>> /\ e \in Seq(Octet) /\ Len(e) = 0  BY EmptySeq
  <2>2. PICK o : o = [op EXCEPT !.left = x, !.done = d + h, !.need = 2 * m, !.got = e]
    OBVIOUS
  <2>3. op' = o /\ handle' = handle  BY <1>10, <1>16, <2>1, <2>2
  <2>4. /\ o \in Ops /\ o.kind = op.kind /\ o.key = op.key /\ o.left = x
        /\ o.need = 2 * m /\ o.got = e /\ o.done = d + h /\ o.owed = op.owed
    <3>1. PICK z \in Nat, n \in Nat : z = d + h /\ n = 2 * m  BY <1>8
    <3>2. o = [op EXCEPT !.left = x, !.done = z, !.need = n, !.got = e]  BY <2>2, <3>1
    <3>3. /\ o \in Ops /\ o.kind = op.kind /\ o.key = op.key /\ o.left = x
          /\ o.need = n /\ o.got = e /\ o.done = z /\ o.owed = op.owed
      BY <1>0, <2>1, <3>2 DEF Ops
    <3>. QED  BY <3>1, <3>3
  <2>5. Asked(o)
    <3>1. Len(o.got) <= o.need  BY <2>1, <2>4
    <3>. QED  BY <1>1, <1>2, <1>6, <1>7, <2>4, <3>1 DEF Asked
  <2>6. InLine(op, toHost, toFpga)  BY <1>1 DEF IInv, KindsOfRead
  <2>7. InLine(o, toHost, toFpga \o <<c>>)
    <3>1. /\ o.done = op.done + h /\ Len(o.got) = 0 /\ c.word = o.done + 1
          /\ Len(op.got) = op.need /\ op.need = 2 * h
      BY <1>1, <1>3, <1>5, <1>9, <2>1, <2>4
    <3>2. Continues(op, h, m, o, c)
      BY <1>1, <1>2, <1>9, <2>4, <3>1 DEF Continues
    <3>3. op \in Ops /\ toHost \in Seq(Octet) /\ toFpga \in Seq(Packet) /\ c \in Packet
      BY <1>0, <1>9
    <3>. QED  BY ONLY <2>4, <2>6, <3>2, <3>3, h \in Nat, m \in Nat, ContinueInLine
  <2>8. toFpga' = toFpga \o <<c>>  BY <1>10, <1>11, <1>16
  <2>9. Types'  BY <1>0, <1>12, <1>13, <2>3, <2>4 DEF Types
  <2>10. handle' # "gone"  BY <1>1, <2>3 DEF IInv
  <2>11. Asked(op')  BY <2>3, <2>5
  <2>12. InLine(op', toHost', toFpga')  BY <1>13, <2>3, <2>7, <2>8
  <2>. QED  BY <1>14, <2>9, <2>10, <2>11, <2>12 DEF IInv
<1>. QED  BY <1>15, <1>16

\* The bytes of a register.
LEMMA WordBytesAre ==
  ASSUME NEW c \in Packet, NEW i \in Nat, i >= 1, regs \in [Regs -> Words]
  PROVE  \A x \in {1, 2} :
           /\ WordBytes(c, i)[x] \in Octet
           /\ WordBytes(c, i)[x].reg = c.reg /\ WordBytes(c, i)[x].mine = c.mine
           /\ WordBytes(c, i)[x].word = c.word + i - 1
           /\ WordBytes(c, i)[x].high = (x = 1)
<1>1. c.reg \in Regs /\ c.word \in Nat /\ c.mine \in BOOLEAN  BY DEF Packet
<1>2. PICK v \in Nat : v = regs[c.reg]  BY <1>1, WordsAre
<1>3. PICK b \in Nat : b = Base /\ b # 0  BY RegistersAssumption
<1>4. v \div b \in Nat /\ v % b \in Nat  BY <1>3
<1>5. PICK w \in Nat : w = c.word + i - 1
  <2>1. PICK y \in Nat : i = y + 1  BY <1>1
  <2>2. c.word + y \in Nat /\ c.word + y = c.word + i - 1  BY <1>1, <2>1
  <2>. QED  BY <2>2
<1>6. WordBytes(c, i) =
        <<[reg |-> c.reg, digit |-> v \div b, high |-> TRUE, word |-> w, mine |-> c.mine],
          [reg |-> c.reg, digit |-> v % b, high |-> FALSE, word |-> w, mine |-> c.mine]>>
  BY <1>2, <1>3, <1>5 DEF WordBytes
<1>7. ASSUME NEW q \in Nat, NEW g \in BOOLEAN
      PROVE  [reg |-> c.reg, digit |-> q, high |-> g, word |-> w, mine |-> c.mine] \in Octet
  BY <1>1 DEF Octet
<1>8. PICK hi \in Octet :
        hi = [reg |-> c.reg, digit |-> v \div b, high |-> TRUE, word |-> w, mine |-> c.mine]
  BY <1>4, <1>7
<1>9. PICK lo \in Octet :
        lo = [reg |-> c.reg, digit |-> v % b, high |-> FALSE, word |-> w, mine |-> c.mine]
  BY <1>4, <1>7
<1>10. WordBytes(c, i) = <<hi, lo>>  BY <1>6, <1>8, <1>9
<1>11. WordBytes(c, i)[1] = hi /\ WordBytes(c, i)[2] = lo  BY <1>10
<1>12. /\ hi.reg = c.reg /\ hi.mine = c.mine /\ hi.word = w /\ hi.high = TRUE
       /\ lo.reg = c.reg /\ lo.mine = c.mine /\ lo.word = w /\ lo.high = FALSE
  BY <1>8, <1>9
<1>13. PICK z : z = WordBytes(c, i) /\ z[1] = hi /\ z[2] = lo  BY <1>11
<1>14. ASSUME NEW x \in {1, 2}
       PROVE  /\ z[x] \in Octet /\ z[x].reg = c.reg /\ z[x].mine = c.mine
              /\ z[x].word = w /\ z[x].high = (x = 1)
  <2>1. CASE x = 1  BY <1>12, <1>13, <2>1
  <2>2. CASE x = 2
    <3>1. (x = 1) = FALSE  BY <2>2
    <3>. QED  BY <1>12, <1>13, <2>2, <3>1
  <2>. QED  BY <2>1, <2>2
<1>. QED  BY <1>5, <1>13, <1>14

LEMMA FpgaStep == ASSUME IInv, FpgaExecutes PROVE IInv'
<1>0. /\ op \in Ops /\ toFpga \in Seq(Packet) /\ toHost \in Seq(Octet)
      /\ regs \in [Regs -> Words] /\ toFpga # <<>>
  BY DEF IInv, Types, FpgaExecutes
<1>1. PICK c \in Packet : c = Head(toFpga) /\ c = toFpga[1]
  BY <1>0, HeadTailProperties
<1>2. toFpga' = Tail(toFpga) /\ Tail(toFpga) \in Seq(Packet)
  BY <1>0, HeadTailProperties DEF FpgaExecutes
<1>3. UNCHANGED <<handle, op>> /\ emitted' = {}  BY DEF FpgaExecutes
<1>4. c.reg \in Regs /\ c.val \in Words /\ c.count \in Nat  BY DEF Packet
<1>5. regs' \in [Regs -> Words]
  <2>1. regs' = regs \/ regs' = [regs EXCEPT ![c.reg] = c.val]
    BY <1>1 DEF FpgaExecutes
  <2>. QED  BY <1>0, <1>4, <2>1
<1>6. PICK b \in Seq(Octet) : toHost' = toHost \o b /\ BytesOf(c, b)
  <2>1. CASE c.write
    <3>1. PICK e : e = <<>> /\ e \in Seq(Octet) /\ Len(e) = 0  BY EmptySeq
    <3>2. toHost' = toHost  BY <1>1, <2>1 DEF FpgaExecutes
    <3>3. toHost \o e = toHost  BY <1>0, <3>1, ConcatEmptySeq
    <3>4. BytesOf(c, e)  BY <2>1, <3>1 DEF BytesOf, Weight
    <3>. QED  BY <3>1, <3>2, <3>3, <3>4
  <2>2. CASE ~c.write
    <3>1. PICK n \in Nat : n = 2 * c.count  BY <1>4
    <3>2. PICK b : b = [j \in 1 .. n |-> WordBytes(c, (j + 1) \div 2)[2 - (j % 2)]]
      OBVIOUS
    <3>3. toHost' = toHost \o b  BY <1>1, <2>2, <3>1, <3>2 DEF FpgaExecutes
    <3>4. ASSUME NEW j \in 1 .. n
          PROVE  /\ b[j] \in Octet /\ b[j].reg = c.reg /\ b[j].mine = c.mine
                 /\ b[j].word = c.word + (j + 1) \div 2 - 1
                 /\ b[j].high = (j % 2 = 1)
      <4>1. PICK i \in Nat : i = (j + 1) \div 2 /\ i >= 1  OBVIOUS
      <4>2. PICK x \in {1, 2} : x = 2 - (j % 2) /\ (x = 1 <=> j % 2 = 1)
        <5>1. j % 2 = 0 \/ j % 2 = 1  OBVIOUS
        <5>. QED  BY <5>1
      <4>3. b[j] = WordBytes(c, i)[x]  BY <3>2, <4>1, <4>2
      <4>4. /\ WordBytes(c, i)[x] \in Octet
            /\ WordBytes(c, i)[x].reg = c.reg /\ WordBytes(c, i)[x].mine = c.mine
            /\ WordBytes(c, i)[x].word = c.word + i - 1
            /\ WordBytes(c, i)[x].high = (x = 1)
        BY <1>0, <4>1, WordBytesAre
      <4>. QED  BY <4>1, <4>2, <4>3, <4>4
    <3>5. b \in Seq(Octet) /\ Len(b) = n
      <4>1. b \in [1 .. n -> Octet]  BY <3>2, <3>4
      <4>. QED  BY <4>1, FunctionIsSeq
    <3>6. BytesOf(c, b)
      <4>1. Len(b) = Weight(c)  BY <2>2, <3>1, <3>5 DEF Weight
      <4>. QED  BY <3>4, <3>5, <4>1 DEF BytesOf
    <3>. QED  BY <3>3, <3>5, <3>6
  <2>. QED  BY <2>1, <2>2
<1>7. toHost' \in Seq(Octet)
  <2>1. toHost \o b \in Seq(Octet)  BY ONLY <1>0, ConcatProperties
  <2>. QED  BY <1>6, <2>1
<1>8. ASSUME op.kind \in KindsOfRead
      PROVE  InLine(op, toHost \o b, Tail(toFpga))
  <2>1. InLine(op, toHost, toFpga)  BY <1>8 DEF IInv
  <2>2. BytesOf(toFpga[1], b)  BY <1>1, <1>6
  <2>. QED  BY <1>0, <2>1, <2>2, ExecuteInLine
<1>9. Types'  BY <1>0, <1>2, <1>3, <1>5, <1>7 DEF Types
<1>10. (handle' = "gone" => op' = NoOp) /\ Asked(op')  BY <1>3 DEF IInv
<1>11. op'.kind \in KindsOfRead => InLine(op', toHost', toFpga')
  BY <1>2, <1>3, <1>6, <1>8
<1>12. EventsAreTrue'  BY <1>3, NothingEmitted
<1>. QED  BY <1>9, <1>10, <1>11, <1>12 DEF IInv

\* A word that was read is the one asked for, if nothing was owed.
LEMMA OwnWord ==
  ASSUME NEW o \in Ops, GotFits(o), o.owed = 0, NEW i \in Nat, i >= 1,
         2 * i <= Len(o.got)
  PROVE  IsOwnWord(o.got, i, RegAt(o, o.done + i), o.done + i)
<1>0. PICK d \in Nat : d = o.done  BY OpsAre
<1>1. PICK lg \in Nat : lg = Len(o.got) /\ o.got \in Seq(Octet)  BY OpsAre
<1>2. ASSUME NEW j \in {2 * i - 1, 2 * i}
      PROVE  /\ o.got[j].mine /\ o.got[j].reg = RegAt(o, d + i)
             /\ o.got[j].word = d + i /\ (o.got[j].high = (j = 2 * i - 1))
  <2>1. j \in 1 .. lg /\ j \in Nat  BY <1>1
  <2>2. PICK b \in Octet : b = o.got[j]  BY <1>1, <2>1, ElementOfSeq
  <2>3. Fits(o, b, 2 * d + j)  BY <1>0, <1>1, <2>1, <2>2 DEF GotFits
  <2>4. ~(2 * d + j <= o.owed)  BY <2>1
  <2>5. /\ b.mine /\ 2 * d + j = o.owed + 2 * b.word - (IF b.high THEN 1 ELSE 0)
        /\ b.reg = RegAt(o, b.word)
    BY <2>3, <2>4 DEF Fits
  <2>6. PICK w \in Nat : w = b.word  BY DEF Octet
  <2>7. b.high \in BOOLEAN  BY DEF Octet
  <2>8. CASE b.high
    <3>1. 2 * d + j = 2 * w - 1  BY <2>1, <2>5, <2>6, <2>8
    <3>2. j = 2 * i - 1 /\ w = d + i  BY <2>1, <3>1
    <3>. QED  BY <2>2, <2>5, <2>6, <2>8, <3>2
  <2>9. CASE ~b.high
    <3>1. 2 * d + j = 2 * w  BY <2>1, <2>5, <2>6, <2>9
    <3>2. j # 2 * i - 1 /\ w = d + i  BY <2>1, <3>1
    <3>. QED  BY <2>2, <2>5, <2>6, <2>7, <2>9, <3>2
  <2>. QED  BY <2>8, <2>9
<1>. QED  BY <1>0, <1>2 DEF IsOwnWord

\* Values are stored and told.
LEMMA FinishStep == ASSUME IInv, Finish PROVE IInv'
<1>0. op \in Ops /\ Asked(op)  BY DEF IInv, Types
<1>1. /\ op' = NoOp /\ UNCHANGED <<regs, toFpga, toHost>>
      /\ Len(op.got) = op.need
  BY DEF Finish, Complete, fpgaVars
<1>2. Types'  BY <1>1, NoOpIs DEF IInv, Types
<1>3. ASSUME NEW e \in emitted', e.clean
      PROVE  e.true
  <2> DEFINE NewValue(k) ==
               IF Answers[k] = {} THEN tracked[k]
               ELSE WordAt(op.got, CHOOSE i \in Answers[k] : TRUE)
  <2>1. PICK k \in Watched :
          /\ NewValue(k) # tracked[k]
          /\ e = [key |-> k, clean |-> op.owed = 0,
                  true |-> \E i \in Answers[k] : IsOwnWord(op.got, i, Wire[k], i)]
    BY DEF Finish
  <2>2. op.owed = 0  BY <1>3, <2>1
  <2>3. PICK i : i \in Answers[k]  BY <2>1
  <2>4. op.kind \in {"poll", "readreg"}  BY <2>3 DEF Answers
  <2>5. GotFits(op)
    <3>1. op.kind \in KindsOfRead  BY <2>4 DEF KindsOfRead
    <3>. QED  BY <3>1 DEF IInv, InLine
  <2>6. IsOwnWord(op.got, i, Wire[k], i)
    <3>1. CASE op.kind = "poll"
      <4>1. i \in DOMAIN WatchList /\ WatchList[i] = k  BY <2>3, <3>1 DEF Answers
      <4>2. PICK l \in Nat : l = Len(WatchList) /\ i \in 1 .. l /\ op.need = 2 * l /\ op.done = 0
        BY <1>0, <3>1, <4>1, ConstantsAre DEF Asked
      <4>3. i \in Nat /\ i >= 1 /\ 2 * i <= Len(op.got) /\ op.done + i = i  BY <1>1, <4>2
      <4>4. IsOwnWord(op.got, i, RegAt(op, op.done + i), op.done + i)
        BY <1>0, <2>2, <2>5, <4>3, OwnWord
      <4>. QED  BY <3>1, <4>1, <4>3, <4>4 DEF RegAt
    <3>2. CASE op.kind = "readreg"
      <4>1. i = 1 /\ k = op.key  BY <2>3, <3>2 DEF Answers
      <4>2. 1 \in Nat /\ 1 >= 1 /\ 2 * 1 <= Len(op.got) /\ op.done + 1 = 1
        BY <1>0, <1>1, <3>2 DEF Asked
      <4>3. IsOwnWord(op.got, 1, RegAt(op, op.done + 1), op.done + 1)
        BY <1>0, <2>2, <2>5, <4>2, OwnWord
      <4>. QED  BY <3>2, <4>1, <4>2, <4>3 DEF RegAt
    <3>. QED  BY <2>4, <3>1, <3>2
  <2>. QED  BY <2>1, <2>3, <2>6
<1>4. EventsAreTrue'  BY <1>3 DEF EventsAreTrue
<1>. QED  BY <1>1, <1>2, <1>4, Quiet

LEMMA StepIInv == IInv /\ [Next]_vars => IInv'
<1> SUFFICES ASSUME IInv, [Next]_vars PROVE IInv'  OBVIOUS
<1>1. ASSUME NEW k \in Keys, readReg(k) PROVE IInv'  BY <1>1, readRegStep
<1>2. ASSUME NEW k \in Keys, writeRaw(k) PROVE IInv'  BY <1>2, writeRawStep
<1>3. ASSUME NEW k \in Keys, NEW n \in 1 .. MaxWords, readRegN(k, n) PROVE IInv'
  <2>1. n \in Nat /\ n >= 1  BY RegistersAssumption
  <2>. QED  BY <1>3, <2>1, readRegNStep
<1>4. ASSUME NEW n \in 1 .. MaxWords, readRaw(n) PROVE IInv'
  <2>1. n \in Nat  BY RegistersAssumption
  <2>. QED  BY <1>4, <2>1, readRawStep
<1>5. ASSUME NEW k \in Keys, NEW v \in Values, writeReg(k, v) PROVE IInv'
  BY <1>5, writeRegStep
<1>6. ASSUME NEW k \in Keys, NEW v \in Values, NEW n \in 1 .. MaxWords, writeRegN(k, v, n)
      PROVE  IInv'
  <2>1. n \in Nat  BY RegistersAssumption
  <2>. QED  BY <1>6, <2>1, writeRegNStep
<1>7. CASE Reprogram \/ Recreate  BY <1>7, HandleStep
<1>8. CASE updateTrackedRegs  BY <1>8, PollStep
<1>9. CASE ReadBytes  BY <1>9, ReadBytesStep
<1>10. CASE ReadFails  BY <1>10, ReadFailsStep
<1>11. CASE ContinueBlock  BY <1>11, ContinueStep
<1>12. CASE Finish  BY <1>12, FinishStep
<1>13. CASE FpgaExecutes  BY <1>13, FpgaStep
<1>14. ASSUME NEW r \in Regs, NEW v \in Values, HardwareChanges(r, v) PROVE IInv'
  BY <1>14, HardwareStep
<1>15. CASE UNCHANGED vars
  <2>1. UNCHANGED <<toFpga, toHost, handle, op, regs, emitted>>
    BY <1>15 DEF vars, fpgaVars
  <2>2. EventsAreTrue' /\ regs' \in [Regs -> Words]
    BY <2>1 DEF IInv, Types, EventsAreTrue
  <2>. QED  BY <2>1, <2>2, SameStep
<1>. QED
  BY <1>1, <1>2, <1>3, <1>4, <1>5, <1>6, <1>7, <1>8, <1>9, <1>10, <1>11, <1>12, <1>13,
     <1>14, <1>15 DEF Next, Requests

THEOREM Invariance == Spec => []IInv
BY InitIInv, StepIInv, PTL DEF Spec

-----------------------------------------------------------------------------
(* Theorems. *)

\* The header of every packet counts its words, whatever the size of the
\* block, for all sizes of packets (readRegN, writeRegN).
THEOREM PacketsStayWhole == Spec => []PacketsAreWhole
<1>1. IInv => PacketsAreWhole
  <2> SUFFICES ASSUME IInv, NEW i \in DOMAIN toFpga
               PROVE  toFpga[i].count = toFpga[i].words
    BY DEF PacketsAreWhole
  <2>1. toFpga \in Seq(Packet)  BY DEF IInv, Types
  <2>2. i \in 1 .. Len(toFpga)  BY <2>1, LenProperties
  <2>3. toFpga[i] \in Packet  BY <2>1, <2>2, ElementOfSeq
  <2>. QED  BY <2>3 DEF Packet
<1>. QED  BY <1>1, Invariance, PTL

\* A register read that returns leaves as many bytes unread as it found, for
\* all sizes of blocks and whatever else is under way (readReg, readRegN,
\* updateTrackedRegs).
THEOREM OwedStays == Spec => []OwedIsKept
<1>1. IInv => OwedIsKept
  <2> SUFFICES ASSUME IInv, Complete, op.kind \in KindsOfRead PROVE Owed = op.owed
    BY DEF OwedIsKept
  <2>1. Types /\ InLine(op, toHost, toFpga)  BY DEF IInv
  <2>2. Owed \in Nat /\ Owed = Len(toHost) + Sums(toFpga)[Len(toFpga)]  BY <2>1, OwedIs
  <2>3. PICK g \in Nat, t \in Nat, n \in Nat, w \in Nat :
          g = Len(op.got) /\ t = Len(toHost) /\ n = op.need /\ w = op.owed
    BY <2>1, OpsAre, LenProperties DEF Types
  <2>4. PICK q : q = Sums(toFpga)[Len(toFpga)]  OBVIOUS
  <2>5. q \in Nat
    <3>1. PICK l \in Nat : l = Len(toFpga) /\ l \in 0 .. l
      BY <2>1, LenProperties DEF Types
    <3>. QED  BY <2>1, <2>4, <3>1, SumsNat DEF Types
  <2>6. g + t + q = w + n  BY <2>1, <2>3, <2>4 DEF InLine, Balanced
  <2>7. g = n  BY <2>3 DEF Complete
  <2>8. t + q = w  BY <2>5, <2>6, <2>7
  <2>. QED  BY <2>2, <2>3, <2>4, <2>8
<1>. QED  BY <1>1, Invariance, PTL

\* A register event is true if nothing was owed when its read started
\* (updateTrackedRegs, readReg).
THEOREM EventsStayTrue == Spec => []EventsAreTrue
<1>1. IInv => EventsAreTrue  BY DEF IInv
<1>. QED  BY <1>1, Invariance, PTL

\* A register read returns its own answer exactly if no byte was owed when it
\* started, for any number of keys, words and failures before it
\* (ftdi_read_data_wait, readReg, readRegN, updateTrackedRegs).
THEOREM CleanAnswersAreOwn == Spec => []OwnAnswerIffClean
<1>1. IInv => OwnAnswerIffClean
  <2> SUFFICES ASSUME IInv, Complete, op.kind \in KindsOfRead
               PROVE  OwnAnswer <=> op.owed = 0
    BY DEF OwnAnswerIffClean
  <2>0. op \in Ops /\ Asked(op) /\ GotFits(op) /\ Len(op.got) = op.need
    BY DEF IInv, Types, InLine, Complete
  <2>1. PICK d \in Nat, w \in Nat : d = op.done /\ w = op.owed /\ op.got \in Seq(Octet)
    BY <2>0, OpsAre
  <2>2. PICK h \in Nat : op.need = 2 * h /\ op.need \div 2 = h /\ h >= 1
    <3>1. CASE op.kind = "poll"
      <4>1. PICK l \in Nat : l = Len(WatchList) /\ op.need = 2 * l /\ l >= 1
        <5>1. PICK l \in Nat : l = Len(WatchList)  BY ConstantsAre
        <5>2. op.need = 2 * l /\ l > 0  BY <2>0, <3>1, <5>1 DEF Asked
        <5>. QED  BY <5>1, <5>2
      <4>2. (2 * l) \div 2 = l  OBVIOUS
      <4>. QED  BY <4>1, <4>2
    <3>2. CASE op.kind = "readreg"
      <4>1. op.need = 2 * 1 /\ (2 * 1) \div 2 = 1  BY <2>0, <3>2 DEF Asked
      <4>. QED  BY <4>1
    <3>3. CASE op.kind = "readregn"
      <4>1. PICK l \in Nat : l = op.left /\ l >= 1 /\ op.need = 2 * NextPacket(l)
        BY <2>0, <3>3, OpsAre DEF Asked
      <4>2. PICK p \in Nat : p = NextPacket(l) /\ p >= 1 /\ op.need = 2 * p
        BY <4>1, NextPacketIs
      <4>3. (2 * p) \div 2 = p  OBVIOUS
      <4>. QED  BY <4>2, <4>3
    <3>. QED  BY <3>1, <3>2, <3>3 DEF KindsOfRead
  <2>3. ASSUME op.owed = 0 PROVE OwnAnswer
    <3>1. ASSUME NEW i \in 1 .. h
          PROVE  IsOwnWord(op.got, i,
                   IF op.kind = "poll" THEN Wire[WatchList[i]] ELSE Wire[op.key], op.done + i)
      <4>1. i \in Nat /\ i >= 1 /\ 2 * i <= Len(op.got)  BY <2>0, <2>2
      <4>2. IsOwnWord(op.got, i, RegAt(op, op.done + i), op.done + i)
        BY <2>0, <2>3, <4>1, OwnWord
      <4>3. op.kind = "poll" => op.done + i = i  BY <2>0 DEF Asked
      <4>4. RegAt(op, op.done + i) = (IF op.kind = "poll" THEN Wire[WatchList[i]] ELSE Wire[op.key])
        BY <4>3 DEF RegAt
      <4>. QED  BY <4>2, <4>4
    <3>. QED  BY <2>2, <3>1 DEF OwnAnswer
  <2>4. ASSUME OwnAnswer PROVE op.owed = 0
    <3>1. 1 \in 1 .. (op.need \div 2)  BY <2>2
    <3>2. IsOwnWord(op.got, 1,
            IF op.kind = "poll" THEN Wire[WatchList[1]] ELSE Wire[op.key], op.done + 1)
      BY <2>4, <3>1 DEF OwnAnswer
    <3>3. 1 \in {2 * 1 - 1, 2 * 1} /\ 1 = 2 * 1 - 1  OBVIOUS
    <3>4. op.got[1].mine /\ op.got[1].word = op.done + 1 /\ op.got[1].high = TRUE
      BY <3>2, <3>3 DEF IsOwnWord
    <3>5. 1 \in 1 .. Len(op.got)  BY <2>0, <2>2
    <3>6. Fits(op, op.got[1], 2 * op.done + 1)  BY <2>0, <3>5 DEF GotFits
    <3>7. 2 * d + 1 = w + 2 * (d + 1) - 1
      <4>1. /\ ~(2 * op.done + 1 <= op.owed)
            /\ 2 * op.done + 1 = op.owed + 2 * op.got[1].word - (IF op.got[1].high THEN 1 ELSE 0)
        BY <3>4, <3>6 DEF Fits
      <4>. QED  BY <2>1, <3>4, <4>1
    <3>. QED  BY <2>1, <3>7
  <2>. QED  BY <2>3, <2>4
<1>. QED  BY <1>1, Invariance, PTL
=============================================================================
