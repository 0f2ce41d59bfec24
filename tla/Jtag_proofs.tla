----------------------------- MODULE Jtag_proofs -----------------------------
(***************************************************************************)
(* For any sizes of bytes, buffers and registers and any calls: the chain  *)
(* sees the clocks that the calls stand for, however the buffers cut them, *)
(* so the shadow of the TAP state is right.                                *)
(***************************************************************************)
EXTENDS Jtag, WellFoundedInduction, SequenceTheorems, TLAPS

-----------------------------------------------------------------------------
(* Induction. *)

\* A set that has zero and the successors of its elements has all naturals.
LEMMA SetInduction ==
  ASSUME NEW S, 0 \in S, \A n \in Nat : n \in S => n + 1 \in S
  PROVE  \A n \in Nat : n \in S
<1> SUFFICES ASSUME NEW n \in Nat, n \notin S PROVE FALSE  OBVIOUS
<1> DEFINE R == OpToRel(<, Nat)
           Rest == {k \in Nat : k \notin S}
<1>1. IsWellFoundedOn(R, Nat)  BY NatLessThanWellFounded
<1>2. \A x, y \in Nat : x < y => <<x, y>> \in R  BY DEF OpToRel
<1>3. Rest \subseteq Nat /\ Rest # {}  OBVIOUS
<1> HIDE DEF R, Rest
<1>4. PICK m \in Rest : \A k \in Rest : ~(<<k, m>> \in R)  BY <1>1, <1>3, WFMin
<1>5. m \in Nat /\ m \notin S /\ m # 0  BY <1>4 DEF Rest
<1>6. PICK k \in Nat : m = k + 1  BY <1>5
<1>7. k \notin S  BY <1>5, <1>6
<1>8. k \in Rest /\ k < m  BY <1>6, <1>7 DEF Rest
<1>. QED  BY <1>2, <1>4, <1>5, <1>8

\* A set that has the empty sequence and, with a sequence, all that are longer
\* by one element, has all sequences.
LEMMA SeqInduction ==
  ASSUME NEW T, NEW P, <<>> \in P, \A q \in Seq(T) : \A x \in T : q \in P => Append(q, x) \in P
  PROVE  \A q \in Seq(T) : q \in P
<1> DEFINE S == {n \in Nat : \A q \in Seq(T) : Len(q) = n => q \in P}
<1>1. 0 \in S
  <2>1. \A q \in Seq(T) : Len(q) = 0 => q = <<>>  BY EmptySeq
  <2>. QED  BY <2>1
<1>2. ASSUME NEW n \in Nat, n \in S PROVE n + 1 \in S
  <2> SUFFICES ASSUME NEW q \in Seq(T), Len(q) = n + 1 PROVE q \in P  OBVIOUS
  <2>1. q # <<>>  BY EmptySeq
  <2>2. PICK r \in Seq(T), x \in T : q = Append(r, x)  BY <2>1, SequenceEmptyOrAppend
  <2>3. Len(r) \in Nat /\ Len(q) = Len(r) + 1  BY <2>2, AppendProperties, LenProperties
  <2>4. r \in P  BY <1>2, <2>3
  <2>. QED  BY <2>2, <2>4
<1> HIDE DEF S
<1>3. \A n \in Nat : n \in S  BY <1>1, <1>2, SetInduction
<1>4. \A q \in Seq(T) : Len(q) \in Nat  BY LenProperties
<1>. QED  BY <1>3, <1>4 DEF S

\* q and r begin with the same n elements.
AgreeTo(q, r, n) == \A i \in 1 .. n : q[i] = r[i]

-----------------------------------------------------------------------------
(* ClockAll: clocks of the chain, one after the other. *)

ClockRun(c, q, f, n) ==
  f = [i \in 0 .. n |-> IF i = 0 THEN c ELSE Clock(f[i - 1], q[i])]

\* The function in the definition of ClockAll exists.
LEMMA ClockRunExists == \A c, q : \A n \in Nat : \E f : ClockRun(c, q, f, n)
<1> SUFFICES ASSUME NEW c, NEW q PROVE \A n \in Nat : \E f : ClockRun(c, q, f, n)  OBVIOUS
<1> DEFINE S == {n \in Nat : \E f : ClockRun(c, q, f, n)}
<1>1. 0 \in S
  <2>1. PICK f : f = [i \in 0 .. 0 |-> c]  OBVIOUS
  <2>2. \A i \in 0 .. 0 : i = 0  OBVIOUS
  <2>3. f = [i \in 0 .. 0 |-> IF i = 0 THEN c ELSE Clock(f[i - 1], q[i])]  BY <2>1, <2>2
  <2>. QED  BY <2>3 DEF ClockRun
<1>2. ASSUME NEW n \in Nat, n \in S PROVE n + 1 \in S
  <2>1. PICK f : f = [i \in 0 .. n |-> IF i = 0 THEN c ELSE Clock(f[i - 1], q[i])]
    BY <1>2 DEF ClockRun
  <2>2. PICK v : v = Clock(f[n], q[n + 1])  OBVIOUS
  <2>3. PICK g : g = [i \in 0 .. n + 1 |-> IF i = n + 1 THEN v ELSE f[i]]  OBVIOUS
  <2>4. ASSUME NEW i \in 0 .. n + 1
        PROVE  g[i] = IF i = 0 THEN c ELSE Clock(g[i - 1], q[i])
    <3>1. CASE i = n + 1
      <4>1. i # 0 /\ i - 1 = n /\ g[i] = v  BY <2>3, <3>1
      <4>2. g[n] = f[n]  BY <2>3
      <4>. QED  BY <2>2, <3>1, <4>1, <4>2
    <3>2. CASE i # n + 1
      <4>1. i \in 0 .. n /\ g[i] = f[i]  BY <2>3, <3>2
      <4>2. i # 0 => g[i - 1] = f[i - 1]  BY <2>3, <4>1
      <4>3. f[i] = IF i = 0 THEN c ELSE Clock(f[i - 1], q[i])  BY <2>1, <4>1
      <4>. QED  BY <4>1, <4>2, <4>3
    <3>. QED  BY <3>1, <3>2
  <2>5. g = [i \in 0 .. n + 1 |-> IF i = 0 THEN c ELSE Clock(g[i - 1], q[i])]  BY <2>3, <2>4
  <2>. QED  BY <2>5 DEF ClockRun
<1> HIDE DEF S
<1>3. \A n \in Nat : n \in S  BY <1>1, <1>2, SetInduction
<1>. QED  BY <1>3 DEF S

\* Its values depend on the elements before only.
LEMMA ClockRunsAgree ==
  ASSUME NEW c, NEW q, NEW r, NEW f, NEW g, NEW n \in Nat, NEW k \in Nat, n <= k,
         ClockRun(c, q, f, n), ClockRun(c, r, g, k), AgreeTo(q, r, n)
  PROVE  f[n] = g[n]
<1> DEFINE S == {m \in Nat : m <= n => f[m] = g[m]}
<1>1. /\ \A i \in 0 .. n : f[i] = IF i = 0 THEN c ELSE Clock(f[i - 1], q[i])
      /\ \A i \in 0 .. k : g[i] = IF i = 0 THEN c ELSE Clock(g[i - 1], r[i])
  BY DEF ClockRun
<1>2. 0 \in S  BY <1>1
<1>3. ASSUME NEW m \in Nat, m \in S PROVE m + 1 \in S
  <2> SUFFICES ASSUME m + 1 <= n PROVE f[m + 1] = g[m + 1]  OBVIOUS
  <2>1. f[m] = g[m] /\ q[m + 1] = r[m + 1]  BY <1>3 DEF AgreeTo
  <2>2. m + 1 \in 0 .. n /\ m + 1 \in 0 .. k /\ m + 1 # 0 /\ (m + 1) - 1 = m  OBVIOUS
  <2>3. f[m + 1] = Clock(f[m], q[m + 1]) /\ g[m + 1] = Clock(g[m], r[m + 1])
    BY <1>1, <2>2
  <2>. QED  BY <2>1, <2>3
<1> HIDE DEF S
<1>4. \A m \in Nat : m \in S  BY <1>2, <1>3, SetInduction
<1>. QED  BY <1>4 DEF S

\* ClockAll with nothing, and with one more (Clock).
LEMMA ClockNone == \A c : ClockAll(c, <<>>) = c
<1> SUFFICES ASSUME NEW c PROVE ClockAll(c, <<>>) = c  OBVIOUS
<1>1. PICK f : ClockRun(c, <<>>, f, 0) /\ f = CHOOSE g : ClockRun(c, <<>>, g, 0)
  BY ClockRunExists
<1>2. ClockAll(c, <<>>) = f[0]  BY <1>1 DEF ClockAll, Each, ClockRun
<1>3. f[0] = c  BY <1>1 DEF ClockRun
<1>. QED  BY <1>2, <1>3

\* One clock more.
LEMMA ClockAppend ==
  ASSUME NEW S, NEW q \in Seq(S), NEW x \in S, NEW c
  PROVE  ClockAll(c, Append(q, x)) = Clock(ClockAll(c, q), x)
<1>1. PICK r : r = Append(q, x)  OBVIOUS
<1>2. PICK n \in Nat : n = Len(q)  BY LenProperties
<1>3. Len(r) = n + 1 /\ r[n + 1] = x /\ \A i \in 1 .. n : q[i] = r[i]
  BY <1>1, <1>2, AppendProperties
<1>4. PICK f : ClockRun(c, q, f, n) /\ f = CHOOSE g : ClockRun(c, q, g, n)
  BY ClockRunExists
<1>5. PICK g : ClockRun(c, r, g, n + 1) /\ g = CHOOSE h : ClockRun(c, r, h, n + 1)
  <2>1. n + 1 \in Nat  OBVIOUS
  <2>. QED  BY <2>1, ClockRunExists
<1>6. ClockAll(c, q) = f[n]  BY <1>2, <1>4 DEF ClockAll, Each, ClockRun
<1>7. ClockAll(c, r) = g[n + 1]  BY <1>3, <1>5 DEF ClockAll, Each, ClockRun
<1>8. f[n] = g[n]
  <2>1. PICK k \in Nat : k = n + 1 /\ n <= k  OBVIOUS
  <2>2. ClockRun(c, r, g, k)  BY <1>5, <2>1
  <2>3. ClockRun(c, q, f, n) /\ AgreeTo(q, r, n)  BY <1>3, <1>4 DEF AgreeTo
  <2>4. n \in Nat /\ k \in Nat /\ n <= k  BY <2>1
  <2>. QED  BY ONLY <2>2, <2>3, <2>4, ClockRunsAgree
<1>9. g[n + 1] = Clock(g[n], r[n + 1])
  <2>1. n + 1 \in 0 .. n + 1 /\ n + 1 # 0 /\ (n + 1) - 1 = n  OBVIOUS
  <2>. QED  BY <1>5, <2>1 DEF ClockRun
<1>. QED  BY <1>1, <1>3, <1>6, <1>7, <1>8, <1>9

-----------------------------------------------------------------------------
(* ExecuteAll: commands of the MPSSE, one after the other. *)

ExecuteRun(c, q, f, n) ==
  f = [i \in 0 .. n |-> IF i = 0 THEN c ELSE Execute(f[i - 1], q[i])]

\* The function in the definition of ExecuteAll exists.
LEMMA ExecuteRunExists == \A c, q : \A n \in Nat : \E f : ExecuteRun(c, q, f, n)
<1> SUFFICES ASSUME NEW c, NEW q PROVE \A n \in Nat : \E f : ExecuteRun(c, q, f, n)  OBVIOUS
<1> DEFINE S == {n \in Nat : \E f : ExecuteRun(c, q, f, n)}
<1>1. 0 \in S
  <2>1. PICK f : f = [i \in 0 .. 0 |-> c]  OBVIOUS
  <2>2. \A i \in 0 .. 0 : i = 0  OBVIOUS
  <2>3. f = [i \in 0 .. 0 |-> IF i = 0 THEN c ELSE Execute(f[i - 1], q[i])]  BY <2>1, <2>2
  <2>. QED  BY <2>3 DEF ExecuteRun
<1>2. ASSUME NEW n \in Nat, n \in S PROVE n + 1 \in S
  <2>1. PICK f : f = [i \in 0 .. n |-> IF i = 0 THEN c ELSE Execute(f[i - 1], q[i])]
    BY <1>2 DEF ExecuteRun
  <2>2. PICK v : v = Execute(f[n], q[n + 1])  OBVIOUS
  <2>3. PICK g : g = [i \in 0 .. n + 1 |-> IF i = n + 1 THEN v ELSE f[i]]  OBVIOUS
  <2>4. ASSUME NEW i \in 0 .. n + 1
        PROVE  g[i] = IF i = 0 THEN c ELSE Execute(g[i - 1], q[i])
    <3>1. CASE i = n + 1
      <4>1. i # 0 /\ i - 1 = n /\ g[i] = v  BY <2>3, <3>1
      <4>2. g[n] = f[n]  BY <2>3
      <4>. QED  BY <2>2, <3>1, <4>1, <4>2
    <3>2. CASE i # n + 1
      <4>1. i \in 0 .. n /\ g[i] = f[i]  BY <2>3, <3>2
      <4>2. i # 0 => g[i - 1] = f[i - 1]  BY <2>3, <4>1
      <4>3. f[i] = IF i = 0 THEN c ELSE Execute(f[i - 1], q[i])  BY <2>1, <4>1
      <4>. QED  BY <4>1, <4>2, <4>3
    <3>. QED  BY <3>1, <3>2
  <2>5. g = [i \in 0 .. n + 1 |-> IF i = 0 THEN c ELSE Execute(g[i - 1], q[i])]  BY <2>3, <2>4
  <2>. QED  BY <2>5 DEF ExecuteRun
<1> HIDE DEF S
<1>3. \A n \in Nat : n \in S  BY <1>1, <1>2, SetInduction
<1>. QED  BY <1>3 DEF S

\* Its values depend on the elements before only.
LEMMA ExecuteRunsAgree ==
  ASSUME NEW c, NEW q, NEW r, NEW f, NEW g, NEW n \in Nat, NEW k \in Nat, n <= k,
         ExecuteRun(c, q, f, n), ExecuteRun(c, r, g, k), AgreeTo(q, r, n)
  PROVE  f[n] = g[n]
<1> DEFINE S == {m \in Nat : m <= n => f[m] = g[m]}
<1>1. /\ \A i \in 0 .. n : f[i] = IF i = 0 THEN c ELSE Execute(f[i - 1], q[i])
      /\ \A i \in 0 .. k : g[i] = IF i = 0 THEN c ELSE Execute(g[i - 1], r[i])
  BY DEF ExecuteRun
<1>2. 0 \in S  BY <1>1
<1>3. ASSUME NEW m \in Nat, m \in S PROVE m + 1 \in S
  <2> SUFFICES ASSUME m + 1 <= n PROVE f[m + 1] = g[m + 1]  OBVIOUS
  <2>1. f[m] = g[m] /\ q[m + 1] = r[m + 1]  BY <1>3 DEF AgreeTo
  <2>2. m + 1 \in 0 .. n /\ m + 1 \in 0 .. k /\ m + 1 # 0 /\ (m + 1) - 1 = m  OBVIOUS
  <2>3. f[m + 1] = Execute(f[m], q[m + 1]) /\ g[m + 1] = Execute(g[m], r[m + 1])
    BY <1>1, <2>2
  <2>. QED  BY <2>1, <2>3
<1> HIDE DEF S
<1>4. \A m \in Nat : m \in S  BY <1>2, <1>3, SetInduction
<1>. QED  BY <1>4 DEF S

\* ExecuteAll with nothing, and with one more (Execute).
LEMMA ExecuteNone == \A c : ExecuteAll(c, <<>>) = c
<1> SUFFICES ASSUME NEW c PROVE ExecuteAll(c, <<>>) = c  OBVIOUS
<1>1. PICK f : ExecuteRun(c, <<>>, f, 0) /\ f = CHOOSE g : ExecuteRun(c, <<>>, g, 0)
  BY ExecuteRunExists
<1>2. ExecuteAll(c, <<>>) = f[0]  BY <1>1 DEF ExecuteAll, Each, ExecuteRun
<1>3. f[0] = c  BY <1>1 DEF ExecuteRun
<1>. QED  BY <1>2, <1>3

\* One command more.
LEMMA ExecuteAppend ==
  ASSUME NEW S, NEW q \in Seq(S), NEW x \in S, NEW c
  PROVE  ExecuteAll(c, Append(q, x)) = Execute(ExecuteAll(c, q), x)
<1>1. PICK r : r = Append(q, x)  OBVIOUS
<1>2. PICK n \in Nat : n = Len(q)  BY LenProperties
<1>3. Len(r) = n + 1 /\ r[n + 1] = x /\ \A i \in 1 .. n : q[i] = r[i]
  BY <1>1, <1>2, AppendProperties
<1>4. PICK f : ExecuteRun(c, q, f, n) /\ f = CHOOSE g : ExecuteRun(c, q, g, n)
  BY ExecuteRunExists
<1>5. PICK g : ExecuteRun(c, r, g, n + 1) /\ g = CHOOSE h : ExecuteRun(c, r, h, n + 1)
  <2>1. n + 1 \in Nat  OBVIOUS
  <2>. QED  BY <2>1, ExecuteRunExists
<1>6. ExecuteAll(c, q) = f[n]  BY <1>2, <1>4 DEF ExecuteAll, Each, ExecuteRun
<1>7. ExecuteAll(c, r) = g[n + 1]  BY <1>3, <1>5 DEF ExecuteAll, Each, ExecuteRun
<1>8. f[n] = g[n]
  <2>1. PICK k \in Nat : k = n + 1 /\ n <= k  OBVIOUS
  <2>2. ExecuteRun(c, r, g, k)  BY <1>5, <2>1
  <2>3. ExecuteRun(c, q, f, n) /\ AgreeTo(q, r, n)  BY <1>3, <1>4 DEF AgreeTo
  <2>4. n \in Nat /\ k \in Nat /\ n <= k  BY <2>1
  <2>. QED  BY ONLY <2>2, <2>3, <2>4, ExecuteRunsAgree
<1>9. g[n + 1] = Execute(g[n], r[n + 1])
  <2>1. n + 1 \in 0 .. n + 1 /\ n + 1 # 0 /\ (n + 1) - 1 = n  OBVIOUS
  <2>. QED  BY <1>5, <2>1 DEF ExecuteRun
<1>. QED  BY <1>1, <1>3, <1>6, <1>7, <1>8, <1>9

-----------------------------------------------------------------------------
(* AddAll: parts of commands for the buffer, one after the other. *)

AddRun(c, q, f, n) ==
  f = [i \in 0 .. n |-> IF i = 0 THEN c ELSE mpsse_add_cmd(f[i - 1], q[i])]

\* The function in the definition of AddAll exists.
LEMMA AddRunExists == \A c, q : \A n \in Nat : \E f : AddRun(c, q, f, n)
<1> SUFFICES ASSUME NEW c, NEW q PROVE \A n \in Nat : \E f : AddRun(c, q, f, n)  OBVIOUS
<1> DEFINE S == {n \in Nat : \E f : AddRun(c, q, f, n)}
<1>1. 0 \in S
  <2>1. PICK f : f = [i \in 0 .. 0 |-> c]  OBVIOUS
  <2>2. \A i \in 0 .. 0 : i = 0  OBVIOUS
  <2>3. f = [i \in 0 .. 0 |-> IF i = 0 THEN c ELSE mpsse_add_cmd(f[i - 1], q[i])]  BY <2>1, <2>2
  <2>. QED  BY <2>3 DEF AddRun
<1>2. ASSUME NEW n \in Nat, n \in S PROVE n + 1 \in S
  <2>1. PICK f : f = [i \in 0 .. n |-> IF i = 0 THEN c ELSE mpsse_add_cmd(f[i - 1], q[i])]
    BY <1>2 DEF AddRun
  <2>2. PICK v : v = mpsse_add_cmd(f[n], q[n + 1])  OBVIOUS
  <2>3. PICK g : g = [i \in 0 .. n + 1 |-> IF i = n + 1 THEN v ELSE f[i]]  OBVIOUS
  <2>4. ASSUME NEW i \in 0 .. n + 1
        PROVE  g[i] = IF i = 0 THEN c ELSE mpsse_add_cmd(g[i - 1], q[i])
    <3>1. CASE i = n + 1
      <4>1. i # 0 /\ i - 1 = n /\ g[i] = v  BY <2>3, <3>1
      <4>2. g[n] = f[n]  BY <2>3
      <4>. QED  BY <2>2, <3>1, <4>1, <4>2
    <3>2. CASE i # n + 1
      <4>1. i \in 0 .. n /\ g[i] = f[i]  BY <2>3, <3>2
      <4>2. i # 0 => g[i - 1] = f[i - 1]  BY <2>3, <4>1
      <4>3. f[i] = IF i = 0 THEN c ELSE mpsse_add_cmd(f[i - 1], q[i])  BY <2>1, <4>1
      <4>. QED  BY <4>1, <4>2, <4>3
    <3>. QED  BY <3>1, <3>2
  <2>5. g = [i \in 0 .. n + 1 |-> IF i = 0 THEN c ELSE mpsse_add_cmd(g[i - 1], q[i])]  BY <2>3, <2>4
  <2>. QED  BY <2>5 DEF AddRun
<1> HIDE DEF S
<1>3. \A n \in Nat : n \in S  BY <1>1, <1>2, SetInduction
<1>. QED  BY <1>3 DEF S

\* Its values depend on the elements before only.
LEMMA AddRunsAgree ==
  ASSUME NEW c, NEW q, NEW r, NEW f, NEW g, NEW n \in Nat, NEW k \in Nat, n <= k,
         AddRun(c, q, f, n), AddRun(c, r, g, k), AgreeTo(q, r, n)
  PROVE  f[n] = g[n]
<1> DEFINE S == {m \in Nat : m <= n => f[m] = g[m]}
<1>1. /\ \A i \in 0 .. n : f[i] = IF i = 0 THEN c ELSE mpsse_add_cmd(f[i - 1], q[i])
      /\ \A i \in 0 .. k : g[i] = IF i = 0 THEN c ELSE mpsse_add_cmd(g[i - 1], r[i])
  BY DEF AddRun
<1>2. 0 \in S  BY <1>1
<1>3. ASSUME NEW m \in Nat, m \in S PROVE m + 1 \in S
  <2> SUFFICES ASSUME m + 1 <= n PROVE f[m + 1] = g[m + 1]  OBVIOUS
  <2>1. f[m] = g[m] /\ q[m + 1] = r[m + 1]  BY <1>3 DEF AgreeTo
  <2>2. m + 1 \in 0 .. n /\ m + 1 \in 0 .. k /\ m + 1 # 0 /\ (m + 1) - 1 = m  OBVIOUS
  <2>3. f[m + 1] = mpsse_add_cmd(f[m], q[m + 1]) /\ g[m + 1] = mpsse_add_cmd(g[m], r[m + 1])
    BY <1>1, <2>2
  <2>. QED  BY <2>1, <2>3
<1> HIDE DEF S
<1>4. \A m \in Nat : m \in S  BY <1>2, <1>3, SetInduction
<1>. QED  BY <1>4 DEF S

\* AddAll with nothing, and with one more (mpsse_add_cmd).
LEMMA AddNone == \A c : AddAll(c, <<>>) = c
<1> SUFFICES ASSUME NEW c PROVE AddAll(c, <<>>) = c  OBVIOUS
<1>1. PICK f : AddRun(c, <<>>, f, 0) /\ f = CHOOSE g : AddRun(c, <<>>, g, 0)
  BY AddRunExists
<1>2. AddAll(c, <<>>) = f[0]  BY <1>1 DEF AddAll, Each, AddRun
<1>3. f[0] = c  BY <1>1 DEF AddRun
<1>. QED  BY <1>2, <1>3

\* One part more.
LEMMA AddAppend ==
  ASSUME NEW S, NEW q \in Seq(S), NEW x \in S, NEW c
  PROVE  AddAll(c, Append(q, x)) = mpsse_add_cmd(AddAll(c, q), x)
<1>1. PICK r : r = Append(q, x)  OBVIOUS
<1>2. PICK n \in Nat : n = Len(q)  BY LenProperties
<1>3. Len(r) = n + 1 /\ r[n + 1] = x /\ \A i \in 1 .. n : q[i] = r[i]
  BY <1>1, <1>2, AppendProperties
<1>4. PICK f : AddRun(c, q, f, n) /\ f = CHOOSE g : AddRun(c, q, g, n)
  BY AddRunExists
<1>5. PICK g : AddRun(c, r, g, n + 1) /\ g = CHOOSE h : AddRun(c, r, h, n + 1)
  <2>1. n + 1 \in Nat  OBVIOUS
  <2>. QED  BY <2>1, AddRunExists
<1>6. AddAll(c, q) = f[n]  BY <1>2, <1>4 DEF AddAll, Each, AddRun
<1>7. AddAll(c, r) = g[n + 1]  BY <1>3, <1>5 DEF AddAll, Each, AddRun
<1>8. f[n] = g[n]
  <2>1. PICK k \in Nat : k = n + 1 /\ n <= k  OBVIOUS
  <2>2. AddRun(c, r, g, k)  BY <1>5, <2>1
  <2>3. AddRun(c, q, f, n) /\ AgreeTo(q, r, n)  BY <1>3, <1>4 DEF AgreeTo
  <2>4. n \in Nat /\ k \in Nat /\ n <= k  BY <2>1
  <2>. QED  BY ONLY <2>2, <2>3, <2>4, AddRunsAgree
<1>9. g[n + 1] = mpsse_add_cmd(g[n], r[n + 1])
  <2>1. n + 1 \in 0 .. n + 1 /\ n + 1 # 0 /\ (n + 1) - 1 = n  OBVIOUS
  <2>. QED  BY <1>5, <2>1 DEF AddRun
<1>. QED  BY <1>1, <1>3, <1>6, <1>7, <1>8, <1>9

-----------------------------------------------------------------------------
(* IoAll: calls on the cable, one after the other. *)

IoRun(c, q, f, n) ==
  f = [i \in 0 .. n |-> IF i = 0 THEN c ELSE Io(f[i - 1], q[i])]

\* The function in the definition of IoAll exists.
LEMMA IoRunExists == \A c, q : \A n \in Nat : \E f : IoRun(c, q, f, n)
<1> SUFFICES ASSUME NEW c, NEW q PROVE \A n \in Nat : \E f : IoRun(c, q, f, n)  OBVIOUS
<1> DEFINE S == {n \in Nat : \E f : IoRun(c, q, f, n)}
<1>1. 0 \in S
  <2>1. PICK f : f = [i \in 0 .. 0 |-> c]  OBVIOUS
  <2>2. \A i \in 0 .. 0 : i = 0  OBVIOUS
  <2>3. f = [i \in 0 .. 0 |-> IF i = 0 THEN c ELSE Io(f[i - 1], q[i])]  BY <2>1, <2>2
  <2>. QED  BY <2>3 DEF IoRun
<1>2. ASSUME NEW n \in Nat, n \in S PROVE n + 1 \in S
  <2>1. PICK f : f = [i \in 0 .. n |-> IF i = 0 THEN c ELSE Io(f[i - 1], q[i])]
    BY <1>2 DEF IoRun
  <2>2. PICK v : v = Io(f[n], q[n + 1])  OBVIOUS
  <2>3. PICK g : g = [i \in 0 .. n + 1 |-> IF i = n + 1 THEN v ELSE f[i]]  OBVIOUS
  <2>4. ASSUME NEW i \in 0 .. n + 1
        PROVE  g[i] = IF i = 0 THEN c ELSE Io(g[i - 1], q[i])
    <3>1. CASE i = n + 1
      <4>1. i # 0 /\ i - 1 = n /\ g[i] = v  BY <2>3, <3>1
      <4>2. g[n] = f[n]  BY <2>3
      <4>. QED  BY <2>2, <3>1, <4>1, <4>2
    <3>2. CASE i # n + 1
      <4>1. i \in 0 .. n /\ g[i] = f[i]  BY <2>3, <3>2
      <4>2. i # 0 => g[i - 1] = f[i - 1]  BY <2>3, <4>1
      <4>3. f[i] = IF i = 0 THEN c ELSE Io(f[i - 1], q[i])  BY <2>1, <4>1
      <4>. QED  BY <4>1, <4>2, <4>3
    <3>. QED  BY <3>1, <3>2
  <2>5. g = [i \in 0 .. n + 1 |-> IF i = 0 THEN c ELSE Io(g[i - 1], q[i])]  BY <2>3, <2>4
  <2>. QED  BY <2>5 DEF IoRun
<1> HIDE DEF S
<1>3. \A n \in Nat : n \in S  BY <1>1, <1>2, SetInduction
<1>. QED  BY <1>3 DEF S

\* Its values depend on the elements before only.
LEMMA IoRunsAgree ==
  ASSUME NEW c, NEW q, NEW r, NEW f, NEW g, NEW n \in Nat, NEW k \in Nat, n <= k,
         IoRun(c, q, f, n), IoRun(c, r, g, k), AgreeTo(q, r, n)
  PROVE  f[n] = g[n]
<1> DEFINE S == {m \in Nat : m <= n => f[m] = g[m]}
<1>1. /\ \A i \in 0 .. n : f[i] = IF i = 0 THEN c ELSE Io(f[i - 1], q[i])
      /\ \A i \in 0 .. k : g[i] = IF i = 0 THEN c ELSE Io(g[i - 1], r[i])
  BY DEF IoRun
<1>2. 0 \in S  BY <1>1
<1>3. ASSUME NEW m \in Nat, m \in S PROVE m + 1 \in S
  <2> SUFFICES ASSUME m + 1 <= n PROVE f[m + 1] = g[m + 1]  OBVIOUS
  <2>1. f[m] = g[m] /\ q[m + 1] = r[m + 1]  BY <1>3 DEF AgreeTo
  <2>2. m + 1 \in 0 .. n /\ m + 1 \in 0 .. k /\ m + 1 # 0 /\ (m + 1) - 1 = m  OBVIOUS
  <2>3. f[m + 1] = Io(f[m], q[m + 1]) /\ g[m + 1] = Io(g[m], r[m + 1])
    BY <1>1, <2>2
  <2>. QED  BY <2>1, <2>3
<1> HIDE DEF S
<1>4. \A m \in Nat : m \in S  BY <1>2, <1>3, SetInduction
<1>. QED  BY <1>4 DEF S

\* IoAll with nothing, and with one more (Io).
LEMMA IoNone == \A c : IoAll(c, <<>>) = c
<1> SUFFICES ASSUME NEW c PROVE IoAll(c, <<>>) = c  OBVIOUS
<1>1. PICK f : IoRun(c, <<>>, f, 0) /\ f = CHOOSE g : IoRun(c, <<>>, g, 0)
  BY IoRunExists
<1>2. IoAll(c, <<>>) = f[0]  BY <1>1 DEF IoAll, Each, IoRun
<1>3. f[0] = c  BY <1>1 DEF IoRun
<1>. QED  BY <1>2, <1>3

\* One call more.
LEMMA IoAppend ==
  ASSUME NEW S, NEW q \in Seq(S), NEW x \in S, NEW c
  PROVE  IoAll(c, Append(q, x)) = Io(IoAll(c, q), x)
<1>1. PICK r : r = Append(q, x)  OBVIOUS
<1>2. PICK n \in Nat : n = Len(q)  BY LenProperties
<1>3. Len(r) = n + 1 /\ r[n + 1] = x /\ \A i \in 1 .. n : q[i] = r[i]
  BY <1>1, <1>2, AppendProperties
<1>4. PICK f : IoRun(c, q, f, n) /\ f = CHOOSE g : IoRun(c, q, g, n)
  BY IoRunExists
<1>5. PICK g : IoRun(c, r, g, n + 1) /\ g = CHOOSE h : IoRun(c, r, h, n + 1)
  <2>1. n + 1 \in Nat  OBVIOUS
  <2>. QED  BY <2>1, IoRunExists
<1>6. IoAll(c, q) = f[n]  BY <1>2, <1>4 DEF IoAll, Each, IoRun
<1>7. IoAll(c, r) = g[n + 1]  BY <1>3, <1>5 DEF IoAll, Each, IoRun
<1>8. f[n] = g[n]
  <2>1. PICK k \in Nat : k = n + 1 /\ n <= k  OBVIOUS
  <2>2. IoRun(c, r, g, k)  BY <1>5, <2>1
  <2>3. IoRun(c, q, f, n) /\ AgreeTo(q, r, n)  BY <1>3, <1>4 DEF AgreeTo
  <2>4. n \in Nat /\ k \in Nat /\ n <= k  BY <2>1
  <2>. QED  BY ONLY <2>2, <2>3, <2>4, IoRunsAgree
<1>9. g[n + 1] = Io(g[n], r[n + 1])
  <2>1. n + 1 \in 0 .. n + 1 /\ n + 1 # 0 /\ (n + 1) - 1 = n  OBVIOUS
  <2>. QED  BY <1>5, <2>1 DEF IoRun
<1>. QED  BY <1>1, <1>3, <1>6, <1>7, <1>8, <1>9

-----------------------------------------------------------------------------
(* FlattenSeq: sequences joined. *)

Join(p, q) == p \o q

FlatRun(q, f, n) == f = [i \in 1 .. n |-> IF i = 1 THEN q[i] ELSE Join(f[i - 1], q[i])]

\* FlattenSeq is the last value of this function.
LEMMA FlattenIs ==
  ASSUME NEW q, Len(q) # 0
  PROVE  FlattenSeq(q) = (CHOOSE f : FlatRun(q, f, Len(q)))[Len(q)]
BY DEF FlattenSeq, FlatRun, Join

\* The function exists.
LEMMA FlatRunExists == \A q : \A n \in Nat : \E f : FlatRun(q, f, n)
<1> SUFFICES ASSUME NEW q PROVE \A n \in Nat : \E f : FlatRun(q, f, n)  OBVIOUS
<1> DEFINE S == {n \in Nat : \E f : FlatRun(q, f, n)}
<1>1. 0 \in S
  <2>1. PICK f : f = [i \in 1 .. 0 |-> q[i]]  OBVIOUS
  <2>2. \A i \in 1 .. 0 : FALSE  OBVIOUS
  <2>3. f = [i \in 1 .. 0 |-> IF i = 1 THEN q[i] ELSE Join(f[i - 1], q[i])]  BY <2>1, <2>2
  <2>. QED  BY <2>3 DEF FlatRun
<1>2. ASSUME NEW n \in Nat, n \in S PROVE n + 1 \in S
  <2>1. PICK f : f = [i \in 1 .. n |-> IF i = 1 THEN q[i] ELSE Join(f[i - 1], q[i])]
    BY <1>2 DEF FlatRun
  <2>2. PICK v : v = IF n + 1 = 1 THEN q[n + 1] ELSE Join(f[n], q[n + 1])  OBVIOUS
  <2>3. PICK g : g = [i \in 1 .. n + 1 |-> IF i = n + 1 THEN v ELSE f[i]]  OBVIOUS
  <2>4. ASSUME NEW i \in 1 .. n + 1
        PROVE  g[i] = IF i = 1 THEN q[i] ELSE Join(g[i - 1], q[i])
    <3>1. CASE i = n + 1
      <4>1. i - 1 = n /\ g[i] = v  BY <2>3, <3>1
      <4>2. i # 1 => g[n] = f[n]  BY <2>3, <3>1
      <4>. QED  BY <2>2, <3>1, <4>1, <4>2
    <3>2. CASE i # n + 1
      <4>1. i \in 1 .. n /\ g[i] = f[i]  BY <2>3, <3>2
      <4>2. i # 1 => g[i - 1] = f[i - 1]  BY <2>3, <4>1
      <4>3. f[i] = IF i = 1 THEN q[i] ELSE Join(f[i - 1], q[i])  BY <2>1, <4>1
      <4>. QED  BY <4>1, <4>2, <4>3
    <3>. QED  BY <3>1, <3>2
  <2>5. g = [i \in 1 .. n + 1 |-> IF i = 1 THEN q[i] ELSE Join(g[i - 1], q[i])]  BY <2>3, <2>4
  <2>. QED  BY <2>5 DEF FlatRun
<1> HIDE DEF S
<1>3. \A n \in Nat : n \in S  BY <1>1, <1>2, SetInduction
<1>. QED  BY <1>3 DEF S

\* Its values depend on the elements before only.
LEMMA FlatRunsAgree ==
  ASSUME NEW q, NEW r, NEW f, NEW g, NEW n \in Nat, NEW k \in Nat, n <= k, n # 0,
         FlatRun(q, f, n), FlatRun(r, g, k), AgreeTo(q, r, n)
  PROVE  f[n] = g[n]
<1> DEFINE S == {m \in Nat : m <= n /\ m # 0 => f[m] = g[m]}
<1>1. /\ \A i \in 1 .. n : f[i] = IF i = 1 THEN q[i] ELSE Join(f[i - 1], q[i])
      /\ \A i \in 1 .. k : g[i] = IF i = 1 THEN r[i] ELSE Join(g[i - 1], r[i])
  BY DEF FlatRun
<1>2. 0 \in S  OBVIOUS
<1>3. ASSUME NEW m \in Nat, m \in S PROVE m + 1 \in S
  <2> SUFFICES ASSUME m + 1 <= n PROVE f[m + 1] = g[m + 1]  OBVIOUS
  <2>1. (m # 0 => f[m] = g[m]) /\ q[m + 1] = r[m + 1]  BY <1>3 DEF AgreeTo
  <2>2. m + 1 \in 1 .. n /\ m + 1 \in 1 .. k /\ (m + 1) - 1 = m /\ (m + 1 = 1 <=> m = 0)
    OBVIOUS
  <2>. QED  BY <1>1, <2>1, <2>2
<1> HIDE DEF S
<1>4. \A m \in Nat : m \in S  BY <1>2, <1>3, SetInduction
<1>. QED  BY <1>4 DEF S

\* Nothing joined, one sequence, and one sequence more.
LEMMA FlattenNone == FlattenSeq(<<>>) = <<>>
BY EmptySeq DEF FlattenSeq

\* One sequence.
LEMMA FlattenOne ==
  ASSUME NEW S, NEW x \in S
  PROVE  FlattenSeq(<<x>>) = x
<1>1. PICK r : r = <<x>>  OBVIOUS
<1>2. Len(r) = 1 /\ r[1] = x  BY <1>1
<1>3. PICK f : FlatRun(r, f, 1) /\ f = CHOOSE g : FlatRun(r, g, 1)
  BY FlatRunExists
<1>4. FlattenSeq(r) = f[1]
  <2>1. FlattenSeq(r) = (CHOOSE g : FlatRun(r, g, Len(r)))[Len(r)]  BY <1>2, FlattenIs
  <2>. QED  BY ONLY <1>2, <1>3, <2>1
<1>5. f[1] = r[1]
  <2>1. 1 \in 1 .. 1  OBVIOUS
  <2>. QED  BY <1>3, <2>1 DEF FlatRun
<1>. QED  BY <1>1, <1>2, <1>4, <1>5

\* One sequence more, behind some.
LEMMA FlattenMore ==
  ASSUME NEW T, NEW q \in Seq(T), NEW x \in T, q # <<>>
  PROVE  FlattenSeq(Append(q, x)) = Join(FlattenSeq(q), x)
<1>1. PICK r : r = Append(q, x)  OBVIOUS
<1>2. PICK n \in Nat : n = Len(q) /\ n # 0  BY LenProperties, EmptySeq
<1>3. Len(r) = n + 1 /\ r[n + 1] = x /\ \A i \in 1 .. n : q[i] = r[i]
  BY <1>1, <1>2, AppendProperties
<1>4. PICK f : FlatRun(q, f, n) /\ f = CHOOSE g : FlatRun(q, g, n)
  BY FlatRunExists
<1>5. PICK g : FlatRun(r, g, n + 1) /\ g = CHOOSE h : FlatRun(r, h, n + 1)
  <2>1. n + 1 \in Nat  OBVIOUS
  <2>. QED  BY <2>1, FlatRunExists
<1>6. FlattenSeq(q) = f[n]  BY <1>2, <1>4, FlattenIs
<1>7. FlattenSeq(r) = g[n + 1]
  <2>1. n + 1 # 0  OBVIOUS
  <2>. QED  BY <1>3, <1>5, <2>1, FlattenIs
<1>8. f[n] = g[n]
  <2>1. PICK k \in Nat : k = n + 1 /\ n <= k  OBVIOUS
  <2>2. FlatRun(r, g, k)  BY <1>5, <2>1
  <2>3. FlatRun(q, f, n) /\ AgreeTo(q, r, n)  BY <1>3, <1>4 DEF AgreeTo
  <2>4. n \in Nat /\ k \in Nat /\ n <= k /\ n # 0  BY <1>2, <2>1
  <2>. QED  BY ONLY <2>2, <2>3, <2>4, FlatRunsAgree
<1>9. g[n + 1] = Join(g[n], r[n + 1])
  <2>1. n + 1 \in 1 .. n + 1 /\ n + 1 # 1 /\ (n + 1) - 1 = n  BY <1>2
  <2>. QED  BY <1>5, <2>1 DEF FlatRun
<1>. QED  BY <1>1, <1>3, <1>6, <1>7, <1>8, <1>9

\* FlattenSeq with one sequence more.
LEMMA FlattenAppend ==
  ASSUME NEW S, NEW q \in Seq(Seq(S)), NEW x \in Seq(S)
  PROVE  FlattenSeq(Append(q, x)) = FlattenSeq(q) \o x
<1>1. CASE q = <<>>
  <2>1. Append(q, x) = <<x>>  BY <1>1
  <2>2. FlattenSeq(<<x>>) = x  BY FlattenOne
  <2>3. <<>> \o x = x  BY ConcatEmptySeq
  <2>. QED  BY <1>1, <2>1, <2>2, <2>3, FlattenNone
<1>2. CASE q # <<>>
  <2>1. \A T, p : \A y \in T : p \in Seq(T) /\ p # <<>> =>
          FlattenSeq(Append(p, y)) = Join(FlattenSeq(p), y)
    BY FlattenMore
  <2>. QED  BY ONLY <1>2, <2>1, q \in Seq(Seq(S)), x \in Seq(S) DEF Join
<1>. QED  BY <1>1, <1>2

\* The elements come from the sequences.
LEMMA FlattenInSeq ==
  ASSUME NEW S
  PROVE  \A q \in Seq(Seq(S)) : FlattenSeq(q) \in Seq(S)
<1> DEFINE P == {q \in Seq(Seq(S)) : FlattenSeq(q) \in Seq(S)}
<1>1. <<>> \in P  BY FlattenNone, EmptySeq
<1>2. \A q \in Seq(Seq(S)) : \A x \in Seq(S) : q \in P => Append(q, x) \in P
  <2> SUFFICES ASSUME NEW q \in Seq(Seq(S)), NEW x \in Seq(S), q \in P
               PROVE  Append(q, x) \in P
    OBVIOUS
  <2>1. FlattenSeq(Append(q, x)) = FlattenSeq(q) \o x  BY FlattenAppend
  <2>2. FlattenSeq(q) \o x \in Seq(S)  BY ConcatProperties
  <2>3. Append(q, x) \in Seq(Seq(S))  BY AppendProperties
  <2>. QED  BY <2>1, <2>2, <2>3
<1> HIDE DEF P
<1>3. \A q \in Seq(Seq(S)) : q \in P  BY <1>1, <1>2, SeqInduction
<1>. QED  BY <1>3 DEF P

-----------------------------------------------------------------------------
(* The sequences that belong to the elements of a sequence, joined. *)

Mapped(M, q) == [i \in DOMAIN q |-> M[q[i]]]

Joined(M, q) == FlattenSeq(Mapped(M, q))

\* A function on 1 .. n is a sequence.
LEMMA FunctionIsSeq ==
  ASSUME NEW S, NEW n \in Nat, NEW f \in [1 .. n -> S]
  PROVE  f \in Seq(S) /\ Len(f) = n
<1>1. f \in Seq(S)  BY SeqDef
<1>2. Len(f) \in Nat /\ 1 .. Len(f) = 1 .. n  BY <1>1, LenProperties
<1>3. Len(f) = n
  <2>1. CASE Len(f) > n
    <3>1. Len(f) \in 1 .. Len(f)  BY <1>2, <2>1
    <3>. QED  BY <1>2, <2>1, <3>1
  <2>2. CASE Len(f) < n
    <3>1. n \in 1 .. n  BY <1>2, <2>2
    <3>. QED  BY <1>2, <2>2, <3>1
  <2>. QED  BY <1>2, <2>1, <2>2
<1>. QED  BY <1>1, <1>3

\* The sequences that belong to q and Append(q, x).
LEMMA MapInSeq ==
  ASSUME NEW T, NEW U, NEW M \in [T -> U], NEW q \in Seq(T)
  PROVE  Mapped(M, q) \in Seq(U)
<1>1. PICK n \in Nat : n = Len(q) /\ DOMAIN q = 1 .. n  BY LenProperties
<1>2. \A i \in 1 .. n : q[i] \in T  BY <1>1, ElementOfSeq
<1>3. PICK f : f = [i \in 1 .. n |-> M[q[i]]]  OBVIOUS
<1>4. f \in [1 .. n -> U]  BY <1>2, <1>3
<1>5. f \in Seq(U)  BY ONLY n \in Nat, <1>4, FunctionIsSeq
<1>. QED  BY <1>1, <1>3, <1>5 DEF Mapped

\* One element more.
LEMMA MapAppend ==
  ASSUME NEW T, NEW U, NEW M \in [T -> U], NEW q \in Seq(T), NEW x \in T
  PROVE  Mapped(M, Append(q, x)) = Append(Mapped(M, q), M[x])
<1>1. PICK n \in Nat : n = Len(q) /\ DOMAIN q = 1 .. n  BY LenProperties
<1>2. PICK r \in Seq(T) : r = Append(q, x) /\ DOMAIN r = 1 .. n + 1
  <2>1. Append(q, x) \in Seq(T) /\ Len(Append(q, x)) = n + 1  BY <1>1, AppendProperties
  <2>. QED  BY ONLY <2>1, LenProperties
<1>3. (\A i \in 1 .. n : r[i] = q[i] /\ q[i] \in T) /\ r[n + 1] = x
  BY <1>1, <1>2, AppendProperties, ElementOfSeq
<1>4. PICK f : f = [i \in 1 .. n |-> M[q[i]]]  OBVIOUS
<1>5. f \in [1 .. n -> U]  BY <1>3, <1>4
<1>6. f \in Seq(U) /\ Len(f) = n  BY ONLY n \in Nat, <1>5, FunctionIsSeq
<1>7. PICK g : g = [i \in 1 .. n + 1 |-> M[r[i]]]  OBVIOUS
<1>8. g = Append(f, M[x])
  <2>1. PICK y \in U : y = M[x]  OBVIOUS
  <2>2. PICK h \in Seq(U) : h = Append(f, y) /\ Len(h) = n + 1
    BY <1>6, AppendProperties
  <2>3. h \in [1 .. n + 1 -> U]  BY <2>2, LenProperties
  <2>4. (\A i \in 1 .. n : h[i] = f[i]) /\ h[n + 1] = y
    BY <1>6, <2>2, AppendProperties
  <2>5. \A i \in 1 .. n + 1 : h[i] = M[r[i]]
    <3> SUFFICES ASSUME NEW i \in 1 .. n + 1 PROVE h[i] = M[r[i]]  OBVIOUS
    <3>1. CASE i = n + 1  BY <1>3, <2>1, <2>4, <3>1
    <3>2. CASE i # n + 1
      <4>1. i \in 1 .. n  BY <3>2
      <4>. QED  BY <1>3, <1>4, <2>4, <4>1
    <3>. QED  BY <3>1, <3>2
  <2>6. h = g  BY ONLY <1>7, <2>3, <2>5
  <2>. QED  BY ONLY <2>1, <2>2, <2>6
<1>. QED  BY ONLY <1>1, <1>2, <1>4, <1>7, <1>8 DEF Mapped

\* Nothing, one element more, and the elements of two sequences.
LEMMA JoinedNone == \A M : Joined(M, <<>>) = <<>>
<1> SUFFICES ASSUME NEW M PROVE Joined(M, <<>>) = <<>>  OBVIOUS
<1>1. Mapped(M, <<>>) = <<>>  BY DEF Mapped
<1>. QED  BY <1>1, FlattenNone DEF Joined

\* One element more.
LEMMA JoinedAppend ==
  ASSUME NEW T, NEW S, NEW M \in [T -> Seq(S)], NEW q \in Seq(T), NEW x \in T
  PROVE  Joined(M, Append(q, x)) = Joined(M, q) \o M[x]
<1>1. PICK f \in Seq(Seq(S)) : f = Mapped(M, q)
  <2>1. PICK U : U = Seq(S)  OBVIOUS
  <2>2. M \in [T -> U]  BY <2>1
  <2>3. Mapped(M, q) \in Seq(U)  BY ONLY q \in Seq(T), <2>2, MapInSeq
  <2>. QED  BY ONLY <2>1, <2>3
<1>2. Mapped(M, Append(q, x)) = Append(f, M[x])
  BY <1>1, MapAppend
<1>3. M[x] \in Seq(S)  OBVIOUS
<1>4. FlattenSeq(Append(f, M[x])) = FlattenSeq(f) \o M[x]
  BY <1>3, FlattenAppend
<1>. QED  BY ONLY <1>1, <1>2, <1>4 DEF Joined

\* The elements come from the sequences that belong to those of q.
LEMMA JoinedInSeq ==
  ASSUME NEW T, NEW S, NEW M \in [T -> Seq(S)], NEW q \in Seq(T)
  PROVE  Joined(M, q) \in Seq(S)
<1>1. PICK f \in Seq(Seq(S)) : f = Mapped(M, q)
  <2>1. PICK U : U = Seq(S)  OBVIOUS
  <2>2. M \in [T -> U]  BY <2>1
  <2>3. Mapped(M, q) \in Seq(U)  BY ONLY q \in Seq(T), <2>2, MapInSeq
  <2>. QED  BY ONLY <2>1, <2>3
<1>2. FlattenSeq(f) \in Seq(S)  BY FlattenInSeq
<1>. QED  BY ONLY <1>1, <1>2 DEF Joined

\* The last element of the second sequence is the last of both joined.
LEMMA ConcatAppend ==
  ASSUME NEW S, NEW p \in Seq(S), NEW q \in Seq(S), NEW x \in S
  PROVE  p \o Append(q, x) = Append(p \o q, x)
<1>1. <<x>> \in Seq(S) /\ p \o q \in Seq(S)  BY ConcatProperties
<1>2. Append(q, x) = q \o <<x>> /\ Append(p \o q, x) = (p \o q) \o <<x>>
  BY <1>1, AppendIsConcat
<1>3. (p \o q) \o <<x>> = p \o (q \o <<x>>)  BY <1>1, ConcatAssociative
<1>. QED  BY <1>2, <1>3

\* The elements of two sequences.
LEMMA JoinedConcat ==
  ASSUME NEW T, NEW S, NEW M \in [T -> Seq(S)], NEW p \in Seq(T)
  PROVE  \A q \in Seq(T) : Joined(M, p \o q) = Joined(M, p) \o Joined(M, q)
<1> DEFINE P == {q \in Seq(T) : Joined(M, p \o q) = Joined(M, p) \o Joined(M, q)}
<1>1. <<>> \in P
  <2>1. p \o <<>> = p  BY ConcatEmptySeq
  <2>2. Joined(M, p) \in Seq(S)  BY JoinedInSeq
  <2>3. Joined(M, p) \o <<>> = Joined(M, p)  BY <2>2, ConcatEmptySeq
  <2>4. <<>> \in Seq(T)  BY EmptySeq
  <2>. QED  BY <2>1, <2>3, <2>4, JoinedNone
<1>2. \A q \in Seq(T) : \A x \in T : q \in P => Append(q, x) \in P
  <2> SUFFICES ASSUME NEW q \in Seq(T), NEW x \in T, q \in P PROVE Append(q, x) \in P
    OBVIOUS
  <2>1. p \o q \in Seq(T) /\ Append(q, x) \in Seq(T)  BY ConcatProperties, AppendProperties
  <2>2. p \o Append(q, x) = Append(p \o q, x)  BY ConcatAppend
  <2>3. Joined(M, Append(p \o q, x)) = Joined(M, p \o q) \o M[x]
    BY <2>1, JoinedAppend
  <2>4. Joined(M, Append(q, x)) = Joined(M, q) \o M[x]  BY JoinedAppend
  <2>5. Joined(M, p) \in Seq(S) /\ Joined(M, q) \in Seq(S) /\ M[x] \in Seq(S)
    BY JoinedInSeq
  <2>6. (Joined(M, p) \o Joined(M, q)) \o M[x] = Joined(M, p) \o (Joined(M, q) \o M[x])
    BY <2>5, ConcatAssociative
  <2>7. Joined(M, p \o q) = Joined(M, p) \o Joined(M, q)  OBVIOUS
  <2>. QED  BY ONLY <2>1, <2>2, <2>3, <2>4, <2>6, <2>7 DEF P
<1> HIDE DEF P
<1>3. \A q \in Seq(T) : q \in P  BY <1>1, <1>2, SeqInduction
<1>. QED  BY <1>3 DEF P

\* The same lemmas for sets of functions without their definition.
Maps(T, U) == [T -> U]

\* The lemmas above, for every such function.
LEMMA JoinedAll ==
  \A T, S : \A M \in Maps(T, Seq(S)) :
    /\ \A q \in Seq(T) : Joined(M, q) \in Seq(S)
    /\ \A q \in Seq(T) : \A x \in T : Joined(M, Append(q, x)) = Join(Joined(M, q), M[x])
    /\ \A p, q \in Seq(T) : Joined(M, Join(p, q)) = Join(Joined(M, p), Joined(M, q))
<1> SUFFICES ASSUME NEW T, NEW S, NEW M \in [T -> Seq(S)]
             PROVE  /\ \A q \in Seq(T) : Joined(M, q) \in Seq(S)
                    /\ \A q \in Seq(T) : \A x \in T :
                         Joined(M, Append(q, x)) = Join(Joined(M, q), M[x])
                    /\ \A p, q \in Seq(T) :
                         Joined(M, Join(p, q)) = Join(Joined(M, p), Joined(M, q))
  BY DEF Maps
<1>1. \A q \in Seq(T) : Joined(M, q) \in Seq(S)  BY JoinedInSeq
<1>2. \A q \in Seq(T) : \A x \in T : Joined(M, Append(q, x)) = Join(Joined(M, q), M[x])
  BY JoinedAppend DEF Join
<1>3. ASSUME NEW p \in Seq(T), NEW q \in Seq(T)
      PROVE  Joined(M, Join(p, q)) = Join(Joined(M, p), Joined(M, q))
  BY JoinedConcat DEF Join
<1>. QED  BY <1>1, <1>2, <1>3

\* Two sequences, element by element.
LEMMA MapConcat ==
  ASSUME NEW T, NEW U, NEW M \in Maps(T, U), NEW p \in Seq(T)
  PROVE  \A q \in Seq(T) : Mapped(M, Join(p, q)) = Join(Mapped(M, p), Mapped(M, q))
<1>1. M \in [T -> U]  BY DEF Maps
<1> DEFINE P == {q \in Seq(T) : Mapped(M, Join(p, q)) = Join(Mapped(M, p), Mapped(M, q))}
<1>2. <<>> \in P
  <2>1. Join(p, <<>>) = p  BY ConcatEmptySeq DEF Join
  <2>2. Mapped(M, p) \in Seq(U)  BY <1>1, MapInSeq
  <2>3. Join(Mapped(M, p), <<>>) = Mapped(M, p)  BY <2>2, ConcatEmptySeq DEF Join
  <2>4. <<>> \in Seq(T)  BY EmptySeq
  <2>5. Mapped(M, <<>>) = <<>>  BY DEF Mapped
  <2>. QED  BY <2>1, <2>3, <2>4, <2>5
<1>3. \A q \in Seq(T) : \A x \in T : q \in P => Append(q, x) \in P
  <2> SUFFICES ASSUME NEW q \in Seq(T), NEW x \in T, q \in P PROVE Append(q, x) \in P
    OBVIOUS
  <2>1. Join(p, q) \in Seq(T) /\ Append(q, x) \in Seq(T)
    BY ConcatProperties, AppendProperties DEF Join
  <2>2. Join(p, Append(q, x)) = Append(Join(p, q), x)  BY ConcatAppend DEF Join
  <2>3. Mapped(M, Append(Join(p, q), x)) = Append(Mapped(M, Join(p, q)), M[x])
    BY <1>1, <2>1, MapAppend
  <2>4. Mapped(M, Append(q, x)) = Append(Mapped(M, q), M[x])  BY <1>1, MapAppend
  <2>5. Mapped(M, p) \in Seq(U) /\ Mapped(M, q) \in Seq(U) /\ M[x] \in U
    BY <1>1, MapInSeq
  <2>6. Join(Mapped(M, p), Append(Mapped(M, q), M[x]))
          = Append(Join(Mapped(M, p), Mapped(M, q)), M[x])
    BY <2>5, ConcatAppend DEF Join
  <2>7. Mapped(M, Join(p, q)) = Join(Mapped(M, p), Mapped(M, q))  OBVIOUS
  <2>. QED  BY ONLY <2>1, <2>2, <2>3, <2>4, <2>6, <2>7 DEF P
<1> HIDE DEF P
<1>4. \A q \in Seq(T) : q \in P  BY <1>2, <1>3, SeqInduction
<1>. QED  BY <1>4 DEF P

\* The same for sequences of sequences.
LEMMA MapFlatten ==
  ASSUME NEW T, NEW U, NEW M \in Maps(T, U), NEW G, G = [q \in Seq(T) |-> Mapped(M, q)]
  PROVE  \A qq \in Seq(Seq(T)) : Mapped(M, FlattenSeq(qq)) = Joined(G, qq)
<1>1. M \in [T -> U]  BY DEF Maps
<1> DEFINE P == {qq \in Seq(Seq(T)) : Mapped(M, FlattenSeq(qq)) = Joined(G, qq)}
<1>2. <<>> \in P
  <2>1. <<>> \in Seq(Seq(T))  BY EmptySeq
  <2>2. Mapped(M, <<>>) = <<>>  BY DEF Mapped
  <2>. QED  BY <2>1, <2>2, FlattenNone, JoinedNone
<1>3. G \in [Seq(T) -> Seq(U)]
  <2>1. \A q \in Seq(T) : Mapped(M, q) \in Seq(U)  BY <1>1, MapInSeq
  <2>. QED  BY <2>1
<1>4. \A qq \in Seq(Seq(T)) : \A x \in Seq(T) : qq \in P => Append(qq, x) \in P
  <2> SUFFICES ASSUME NEW qq \in Seq(Seq(T)), NEW x \in Seq(T), qq \in P
               PROVE  Append(qq, x) \in P
    OBVIOUS
  <2>1. FlattenSeq(Append(qq, x)) = Join(FlattenSeq(qq), x)  BY FlattenAppend DEF Join
  <2>2. FlattenSeq(qq) \in Seq(T)  BY FlattenInSeq
  <2>3. Mapped(M, Join(FlattenSeq(qq), x)) = Join(Mapped(M, FlattenSeq(qq)), Mapped(M, x))
    BY <2>2, MapConcat
  <2>4. Joined(G, Append(qq, x)) = Join(Joined(G, qq), G[x])
    <3>1. PICK R : R = Seq(T)  OBVIOUS
    <3>2. G \in [R -> Seq(U)] /\ qq \in Seq(R) /\ x \in R  BY <1>3, <3>1
    <3>. QED  BY ONLY <3>2, JoinedAppend DEF Join
  <2>5. G[x] = Mapped(M, x)  OBVIOUS
  <2>6. Append(qq, x) \in Seq(Seq(T))  BY AppendProperties
  <2>7. Mapped(M, FlattenSeq(qq)) = Joined(G, qq)  OBVIOUS
  <2>. QED  BY ONLY <2>1, <2>3, <2>4, <2>5, <2>6, <2>7 DEF P
<1> HIDE DEF P
<1>5. \A qq \in Seq(Seq(T)) : qq \in P
  <2>1. PICK R : R = Seq(T)  OBVIOUS
  <2>2. \A qq \in Seq(R) : \A x \in R : qq \in P => Append(qq, x) \in P  BY <1>4, <2>1
  <2>3. \A qq \in Seq(R) : qq \in P  BY ONLY <1>2, <2>2, SeqInduction
  <2>. QED  BY <2>1, <2>3
<1>. QED  BY <1>5 DEF P

\* Sequences of sequences.
LEMMA JoinedFlatten ==
  ASSUME NEW T, NEW S, NEW M \in Maps(T, Seq(S)), NEW G, G = [q \in Seq(T) |-> Joined(M, q)]
  PROVE  \A qq \in Seq(Seq(T)) : Joined(M, FlattenSeq(qq)) = Joined(G, qq)
<1>1. M \in [T -> Seq(S)]  BY DEF Maps
<1> DEFINE P == {qq \in Seq(Seq(T)) : Joined(M, FlattenSeq(qq)) = Joined(G, qq)}
<1>2. <<>> \in P
  <2>1. <<>> \in Seq(Seq(T))  BY EmptySeq
  <2>. QED  BY <2>1, FlattenNone, JoinedNone
<1>3. G \in [Seq(T) -> Seq(S)]
  <2>1. \A q \in Seq(T) : Joined(M, q) \in Seq(S)  BY <1>1, JoinedInSeq
  <2>. QED  BY <2>1
<1>4. \A qq \in Seq(Seq(T)) : \A x \in Seq(T) : qq \in P => Append(qq, x) \in P
  <2> SUFFICES ASSUME NEW qq \in Seq(Seq(T)), NEW x \in Seq(T), qq \in P
               PROVE  Append(qq, x) \in P
    OBVIOUS
  <2>1. FlattenSeq(Append(qq, x)) = Join(FlattenSeq(qq), x)  BY FlattenAppend DEF Join
  <2>2. PICK y \in Seq(T) : y = FlattenSeq(qq)  BY FlattenInSeq
  <2>3. Joined(M, Join(y, x)) = Join(Joined(M, y), Joined(M, x))
    <3>. QED  BY ONLY M \in Maps(T, Seq(S)), x \in Seq(T), y \in Seq(T), JoinedAll
  <2>4. Joined(G, Append(qq, x)) = Join(Joined(G, qq), G[x])
    <3>1. PICK R : R = Seq(T)  OBVIOUS
    <3>2. G \in Maps(R, Seq(S)) /\ qq \in Seq(R) /\ x \in R  BY <1>3, <3>1 DEF Maps
    <3>. QED  BY ONLY <3>2, JoinedAll
  <2>5. G[x] = Joined(M, x)  OBVIOUS
  <2>6. Append(qq, x) \in Seq(Seq(T))  BY AppendProperties
  <2>7. Joined(M, FlattenSeq(qq)) = Joined(G, qq)  OBVIOUS
  <2>. QED  BY ONLY <2>1, <2>2, <2>3, <2>4, <2>5, <2>6, <2>7 DEF P
<1> HIDE DEF P
<1>5. \A qq \in Seq(Seq(T)) : qq \in P
  <2>1. PICK R : R = Seq(T)  OBVIOUS
  <2>2. \A qq \in Seq(R) : \A x \in R : qq \in P => Append(qq, x) \in P  BY <1>4, <2>1
  <2>3. \A qq \in Seq(R) : qq \in P  BY ONLY <1>2, <2>2, SeqInduction
  <2>. QED  BY <2>1, <2>3
<1>. QED  BY <1>5 DEF P

-----------------------------------------------------------------------------
(* A sequence cut into pieces. *)

PieceSeq(seq, n, m) == [i \in 1 .. m |-> Piece(seq, n, i)]
PieceEnd(seq, n, m) == IF m * n < Len(seq) THEN m * n ELSE Len(seq)

\* A function on 1 .. m + 1 is that on 1 .. m with one element more.
LEMMA FunctionAppend ==
  ASSUME NEW S, NEW m \in Nat, NEW f \in [1 .. m + 1 -> S], NEW g, g = [i \in 1 .. m |-> f[i]]
  PROVE  g \in Seq(S) /\ f[m + 1] \in S /\ f = Append(g, f[m + 1])
<1>1. g \in [1 .. m -> S] /\ f[m + 1] \in S  OBVIOUS
<1>2. g \in Seq(S) /\ Len(g) = m  BY ONLY m \in Nat, <1>1, FunctionIsSeq
<1>3. PICK y \in S : y = f[m + 1]  BY <1>1
<1>4. PICK h \in Seq(S) : h = Append(g, y) /\ Len(h) = m + 1
  <2>1. g \in Seq(S) /\ y \in S  BY <1>2
  <2>2. Append(g, y) \in Seq(S) /\ Len(Append(g, y)) = Len(g) + 1
    BY ONLY <2>1, AppendProperties
  <2>. QED  BY <1>2, <2>2
<1>5. h \in [1 .. m + 1 -> S]  BY <1>4, LenProperties
<1>6. (\A i \in 1 .. m : h[i] = g[i]) /\ h[m + 1] = y
  <2>1. g \in Seq(S) /\ y \in S  BY <1>2
  <2>2. (\A i \in 1 .. Len(g) : h[i] = g[i]) /\ h[Len(g) + 1] = y
    BY ONLY <1>4, <2>1, AppendProperties
  <2>. QED  BY <1>2, <2>2
<1>7. \A i \in 1 .. m + 1 : h[i] = f[i]
  <2> SUFFICES ASSUME NEW i \in 1 .. m + 1 PROVE h[i] = f[i]  OBVIOUS
  <2>1. CASE i = m + 1  BY <1>3, <1>6, <2>1
  <2>2. CASE i # m + 1
    <3>1. i \in 1 .. m  BY <2>2
    <3>. QED  BY <1>6, <3>1
  <2>. QED  BY <2>1, <2>2
<1>8. h = f  BY ONLY f \in [1 .. m + 1 -> S], <1>5, <1>7
<1>. QED  BY ONLY <1>2, <1>3, <1>4, <1>8

\* Part of a sequence.
LEMMA PartInSeq ==
  ASSUME NEW T, NEW seq \in Seq(T), NEW a \in Nat, NEW b \in Nat, b <= Len(seq)
  PROVE  /\ SubSeq(seq, a + 1, b) \in Seq(T)
         /\ Len(SubSeq(seq, a + 1, b)) = IF a < b THEN b - a ELSE 0
<1>1. \A i \in a + 1 .. b : seq[i] \in T
  <2> SUFFICES ASSUME NEW i \in a + 1 .. b PROVE seq[i] \in T  OBVIOUS
  <2>1. Len(seq) \in Nat  BY LenProperties
  <2>2. i \in 1 .. Len(seq)  BY <2>1
  <2>. QED  BY <2>2, ElementOfSeq
<1>2. a + 1 \in Int /\ b \in Int  OBVIOUS
<1>3. SubSeq(seq, a + 1, b) \in Seq(T)  BY ONLY <1>1, <1>2, SubSeqProperties
<1>4. Len(SubSeq(seq, a + 1, b)) = IF a + 1 <= b THEN b - (a + 1) + 1 ELSE 0
  BY ONLY <1>1, <1>2, SubSeqProperties
<1>. QED  BY <1>3, <1>4

\* Two parts of a sequence that meet.
LEMMA PartsMeet ==
  ASSUME NEW T, NEW seq \in Seq(T), NEW a \in Nat, NEW b \in Nat, NEW c \in Nat,
         a <= b, b <= c, c <= Len(seq)
  PROVE  Join(SubSeq(seq, a + 1, b), SubSeq(seq, b + 1, c)) = SubSeq(seq, a + 1, c)
<1>1. PICK l \in Nat : l = Len(seq)  BY LenProperties
<1>2. a + 1 \in 1 .. l + 1 /\ b \in (a + 1) - 1 .. l /\ c \in b .. l  BY <1>1
<1>. QED  BY <1>1, <1>2, ConcatAdjacentSubSeq DEF Join

\* The same with a name for the part from a + 1 to b.
Cut(seq, a, b) == SubSeq(seq, a + 1, b)

\* Two cuts that meet.
LEMMA CutsMeet ==
  \A T : \A seq \in Seq(T) : \A a, b, c \in Nat :
    a <= b /\ b <= c /\ c <= Len(seq) => Join(Cut(seq, a, b), Cut(seq, b, c)) = Cut(seq, a, c)
BY PartsMeet DEF Cut

\* A piece has at most n elements.
LEMMA PieceInSeq ==
  ASSUME NEW T, NEW seq \in Seq(T), NEW n \in Nat \ {0}, NEW m \in Nat
  PROVE  Piece(seq, n, m + 1) \in Seq(T) /\ Len(Piece(seq, n, m + 1)) <= n
<1>1. PICK l \in Nat : l = Len(seq)  BY LenProperties
<1>2. PICK a \in Nat : a = m * n  OBVIOUS
<1>3. (m + 1) * n = a + n /\ ((m + 1) - 1) * n = a  BY <1>2
<1>4. PICK b \in Nat : b = (IF a + n < l THEN a + n ELSE l) /\ b <= l /\ b - a <= n
  BY <1>1
<1>5. Piece(seq, n, m + 1) = SubSeq(seq, a + 1, b)  BY <1>1, <1>3, <1>4 DEF Piece
<1>6. /\ SubSeq(seq, a + 1, b) \in Seq(T)
      /\ Len(SubSeq(seq, a + 1, b)) = IF a < b THEN b - a ELSE 0
  <2>1. a \in Nat /\ b \in Nat /\ b <= Len(seq)  BY <1>1, <1>4
  <2>. QED  BY ONLY seq \in Seq(T), <2>1, PartInSeq
<1>7. (IF a < b THEN b - a ELSE 0) <= n  BY <1>4
<1>. QED  BY ONLY <1>5, <1>6, <1>7

\* Joined again, the first m pieces are the beginning of the sequence.
LEMMA Pieces ==
  ASSUME NEW T, NEW seq \in Seq(T), NEW n \in Nat \ {0}
  PROVE  \A m \in Nat : /\ PieceSeq(seq, n, m) \in Seq(Seq(T))
                        /\ FlattenSeq(PieceSeq(seq, n, m))
                             = SubSeq(seq, 1, PieceEnd(seq, n, m))
<1> DEFINE P == {m \in Nat : /\ PieceSeq(seq, n, m) \in Seq(Seq(T))
                             /\ FlattenSeq(PieceSeq(seq, n, m))
                                  = SubSeq(seq, 1, PieceEnd(seq, n, m))}
<1>1. PICK l \in Nat : l = Len(seq)  BY LenProperties
<1>2. 0 \in P
  <2>1. PieceSeq(seq, n, 0) = <<>>  BY DEF PieceSeq
  <2>2. PieceEnd(seq, n, 0) = 0  BY <1>1 DEF PieceEnd
  <2>3. SubSeq(seq, 1, 0) = <<>>  BY SubSeqEmpty
  <2>4. <<>> \in Seq(Seq(T))  BY EmptySeq
  <2>. QED  BY <2>1, <2>2, <2>3, <2>4, FlattenNone
<1>3. ASSUME NEW m \in Nat, m \in P PROVE m + 1 \in P
  <2>1. PICK f : f = PieceSeq(seq, n, m + 1)  OBVIOUS
  <2>2. f \in [1 .. m + 1 -> Seq(T)]
    <3>1. ASSUME NEW i \in 1 .. m + 1 PROVE Piece(seq, n, i) \in Seq(T)
      <4>1. PICK k \in Nat : i = k + 1  OBVIOUS
      <4>. QED  BY <4>1, PieceInSeq
    <3>. QED  BY <2>1, <3>1 DEF PieceSeq
  <2>3. PICK g : g = [i \in 1 .. m |-> f[i]]  OBVIOUS
  <2>4. g = PieceSeq(seq, n, m) /\ f[m + 1] = Piece(seq, n, m + 1)
    BY <2>1, <2>3 DEF PieceSeq
  <2>5. PICK R : R = Seq(T)  OBVIOUS
  <2>6. f = Append(g, f[m + 1])  BY ONLY m \in Nat, <2>2, <2>3, FunctionAppend
  <2>7. g \in Seq(Seq(T)) /\ FlattenSeq(g) = SubSeq(seq, 1, PieceEnd(seq, n, m))
    BY <1>3, <2>4
  <2>8. PICK x \in Seq(T) : x = Piece(seq, n, m + 1)  BY PieceInSeq
  <2>9. FlattenSeq(f) = Join(FlattenSeq(g), x)
    BY ONLY <2>4, <2>6, <2>7, <2>8, x \in Seq(T), FlattenAppend DEF Join
  <2>10. f \in Seq(Seq(T))
    <3>1. g \in Seq(R) /\ f[m + 1] \in R  BY <2>4, <2>5, <2>7, <2>8
    <3>2. Append(g, f[m + 1]) \in Seq(R)  BY ONLY <3>1, AppendProperties
    <3>. QED  BY ONLY <2>5, <2>6, <3>2
  <2>11. PICK a \in Nat : a = m * n  OBVIOUS
  <2>12. (m + 1) * n = a + n /\ ((m + 1) - 1) * n = a  BY <2>11
  <2>13. PICK b \in Nat : b = PieceEnd(seq, n, m) /\ b = (IF a < l THEN a ELSE l) /\ b <= l
    BY <1>1, <2>11 DEF PieceEnd
  <2>14. PICK c \in Nat : c = PieceEnd(seq, n, m + 1) /\ c = (IF a + n < l THEN a + n ELSE l)
                          /\ c <= l
    BY <1>1, <2>12 DEF PieceEnd
  <2>15. x = SubSeq(seq, a + 1, c)  BY <1>1, <2>8, <2>12, <2>14 DEF Piece
  <2>16. Join(SubSeq(seq, 1, b), x) = SubSeq(seq, 1, c)
    <3>1. CASE a < l
      <4>1. PICK o \in Nat : b = a /\ b <= c /\ c <= Len(seq) /\ o <= b /\ o + 1 = 1
        BY <1>1, <2>13, <2>14, <3>1
      <4>2. Join(Cut(seq, o, b), Cut(seq, b, c)) = Cut(seq, o, c)
        BY ONLY seq \in Seq(T), o \in Nat, b \in Nat, c \in Nat, <4>1, CutsMeet
      <4>3. o + 1 = 1  BY <4>1
      <4>. QED  BY ONLY <2>15, <4>1, <4>2, <4>3 DEF Cut
    <3>2. CASE ~(a < l)
      <4>1. b = l /\ c = l /\ c < a + 1  BY <2>13, <2>14, <3>2
      <4>2. x = <<>>  BY <2>15, <4>1, SubSeqEmpty
      <4>3. SubSeq(seq, 1, b) = seq  BY <1>1, <4>1, SubSeqFull
      <4>4. Join(seq, <<>>) = seq  BY ConcatEmptySeq DEF Join
      <4>. QED  BY ONLY <4>1, <4>2, <4>3, <4>4
    <3>. QED  BY <3>1, <3>2
  <2>. QED  BY ONLY m + 1 \in Nat, <2>1, <2>7, <2>9, <2>10, <2>13, <2>14, <2>16 DEF P
<1> HIDE DEF P
<1>4. \A m \in Nat : m \in P  BY <1>2, <1>3, SetInduction
<1>. QED  BY <1>4 DEF P

-----------------------------------------------------------------------------
(* Mapping twice, and division. *)

\* Two functions after one another are one.
LEMMA MappedMapped ==
  ASSUME NEW q, NEW K, NEW M, NEW G, \A i \in DOMAIN q : G[q[i]] = M[K[q[i]]]
  PROVE  Mapped(M, Mapped(K, q)) = Mapped(G, q)
<1>1. DOMAIN Mapped(K, q) = DOMAIN q /\ \A i \in DOMAIN q : Mapped(K, q)[i] = K[q[i]]
  BY DEF Mapped
<1>. QED  BY <1>1 DEF Mapped

\* The same for the sequences that belong to the elements.
LEMMA JoinedMapped ==
  ASSUME NEW q, NEW K, NEW M, NEW G, \A i \in DOMAIN q : G[q[i]] = M[K[q[i]]]
  PROVE  Joined(M, Mapped(K, q)) = Joined(G, q)
BY MappedMapped DEF Joined

\* Functions that agree on the elements.
LEMMA JoinedSame ==
  ASSUME NEW q, NEW M, NEW G, \A i \in DOMAIN q : G[q[i]] = M[q[i]]
  PROVE  Joined(M, q) = Joined(G, q)
BY DEF Joined, Mapped

\* Quotient and remainder.
LEMMA DivMod ==
  ASSUME NEW a \in Nat, NEW b \in Nat \ {0}
  PROVE  a \div b \in Nat /\ a % b \in 0 .. b - 1 /\ a = ((a \div b) * b) + (a % b)
<1>1. a = b * (a \div b) + (a % b)  OBVIOUS
<1>2. a % b \in 0 .. b - 1  OBVIOUS
<1>3. a \div b \in Int  OBVIOUS
<1>4. a \div b \in Nat  BY <1>1, <1>2, <1>3
<1>. QED  BY <1>1, <1>2, <1>4

\* There is one quotient and one remainder.
LEMMA DivUnique ==
  ASSUME NEW q \in Nat, NEW r \in Nat, NEW b \in Nat \ {0}, r < b
  PROVE  (q * b + r) \div b = q /\ (q * b + r) % b = r
OBVIOUS

\* Mapping, for sets of functions without their definition.
LEMMA MapAll ==
  \A T, U : \A M \in Maps(T, U) :
    /\ \A q \in Seq(T) : Mapped(M, q) \in Seq(U)
    /\ \A p, q \in Seq(T) : Mapped(M, Join(p, q)) = Join(Mapped(M, p), Mapped(M, q))
<1> SUFFICES ASSUME NEW T, NEW U, NEW M \in Maps(T, U)
             PROVE  /\ \A q \in Seq(T) : Mapped(M, q) \in Seq(U)
                    /\ \A p, q \in Seq(T) : Mapped(M, Join(p, q)) = Join(Mapped(M, p), Mapped(M, q))
  OBVIOUS
<1>1. \A q \in Seq(T) : Mapped(M, q) \in Seq(U)
  <2>1. M \in [T -> U]  BY DEF Maps
  <2>. QED  BY <2>1, MapInSeq
<1>2. ASSUME NEW p \in Seq(T), NEW q \in Seq(T)
      PROVE  Mapped(M, Join(p, q)) = Join(Mapped(M, p), Mapped(M, q))
  BY MapConcat
<1>. QED  BY <1>1, <1>2

-----------------------------------------------------------------------------
(* Clocks of the chain. *)

BitSet == {<<source, n, i>> : source \in {"low", "high", "word"}, n \in Nat, i \in Nat}
ClockSet == [tms : {0, 1, Same}, tdi : BitSet]
ClockSeqs == Seq(ClockSet)

Fields == {"state", "tms", "usbuf", "bptr", "rbuf", "chain", "tap", "level", "reset", "reg",
           "tdo", "fifo", "captures", "latched"}
IsCable(c) == DOMAIN c = Fields

\* What a clock depends on and changes, and what the software keeps.
Chain(c) == <<c.chain, c.tap, c.level, c.reset, c.reg, c.captures, c.latched>>
Software(c) == <<c.state, c.tms, c.usbuf, c.bptr>>

\* What a clock does, field by field.
LEMMA ClockFields ==
  ASSUME NEW c, NEW k, IsCable(c)
  PROVE  LET d == Clock(c, k)
             level == IF k.tms = Same THEN c.level ELSE k.tms
         IN  /\ IsCable(d) /\ Software(d) = Software(c)
             /\ d.level = level /\ d.tap = TapNext[c.tap][level + 1] /\ d.chain = c.chain
BY DEF Clock, IsCable, Fields, Software

\* Chains that are alike stay alike.
LEMMA ClockAlike ==
  ASSUME NEW c, NEW d, NEW k, IsCable(c), IsCable(d), Chain(c) = Chain(d)
  PROVE  Chain(Clock(c, k)) = Chain(Clock(d, k))
<1>1. /\ c.chain = d.chain /\ c.tap = d.tap /\ c.level = d.level /\ c.reset = d.reset
      /\ c.reg = d.reg /\ c.captures = d.captures /\ c.latched = d.latched
  BY DEF Chain
<1>. QED  BY <1>1 DEF Clock, Chain, IsCable, Fields

\* The clocks of two sequences come one after the other.
LEMMA ClockAllJoin ==
  ASSUME NEW c, NEW p \in ClockSeqs
  PROVE  \A q \in ClockSeqs : ClockAll(c, Join(p, q)) = ClockAll(ClockAll(c, p), q)
<1> DEFINE P == {q \in ClockSeqs : ClockAll(c, Join(p, q)) = ClockAll(ClockAll(c, p), q)}
<1>1. <<>> \in P
  <2>1. Join(p, <<>>) = p  BY ConcatEmptySeq DEF ClockSeqs, Join
  <2>2. <<>> \in ClockSeqs  BY EmptySeq DEF ClockSeqs
  <2>. QED  BY <2>1, <2>2, ClockNone
<1>2. \A q \in Seq(ClockSet) : \A x \in ClockSet : q \in P => Append(q, x) \in P
  <2> SUFFICES ASSUME NEW q \in Seq(ClockSet), NEW x \in ClockSet, q \in P
               PROVE  Append(q, x) \in P
    OBVIOUS
  <2>1. Join(p, q) \in Seq(ClockSet) /\ Append(q, x) \in ClockSeqs
    BY ConcatProperties, AppendProperties DEF Join, ClockSeqs
  <2>2. Join(p, Append(q, x)) = Append(Join(p, q), x)  BY ConcatAppend DEF Join, ClockSeqs
  <2>3. ClockAll(c, Append(Join(p, q), x)) = Clock(ClockAll(c, Join(p, q)), x)
    BY <2>1, ClockAppend
  <2>4. \A e : ClockAll(e, Append(q, x)) = Clock(ClockAll(e, q), x)  BY ClockAppend
  <2>. QED  BY <2>1, <2>2, <2>3, <2>4
<1> HIDE DEF P
<1>3. \A q \in Seq(ClockSet) : q \in P  BY <1>1, <1>2, SeqInduction
<1>. QED  BY <1>3 DEF P, ClockSeqs

\* Clocks leave the software alone.
LEMMA ClockAllKeeps ==
  ASSUME NEW c, IsCable(c)
  PROVE  \A q \in ClockSeqs :
           IsCable(ClockAll(c, q)) /\ Software(ClockAll(c, q)) = Software(c)
<1> DEFINE Keeps(d) == IsCable(d) /\ Software(d) = Software(c)
           P == {q \in ClockSeqs : Keeps(ClockAll(c, q))}
<1>1. <<>> \in P
  <2>1. <<>> \in ClockSeqs  BY EmptySeq DEF ClockSeqs
  <2>. QED  BY <2>1, ClockNone
<1>2. \A q \in Seq(ClockSet) : \A x \in ClockSet : q \in P => Append(q, x) \in P
  <2> SUFFICES ASSUME NEW q \in Seq(ClockSet), NEW x \in ClockSet, q \in P
               PROVE  Append(q, x) \in P
    OBVIOUS
  <2>1. Append(q, x) \in ClockSeqs  BY AppendProperties DEF ClockSeqs
  <2>2. ClockAll(c, Append(q, x)) = Clock(ClockAll(c, q), x)  BY ClockAppend
  <2>3. \A d : Keeps(d) => Keeps(Clock(d, x))  BY ClockFields
  <2>. QED  BY <2>1, <2>2, <2>3
<1> HIDE DEF P
<1>3. \A q \in Seq(ClockSet) : q \in P  BY <1>1, <1>2, SeqInduction
<1>. QED  BY <1>3 DEF P, ClockSeqs

\* Chains that are alike stay alike.
LEMMA ClockAllAlike ==
  ASSUME NEW c, NEW d, IsCable(c), IsCable(d), Chain(c) = Chain(d)
  PROVE  \A q \in ClockSeqs : Chain(ClockAll(c, q)) = Chain(ClockAll(d, q))
<1> DEFINE P == {q \in ClockSeqs : Chain(ClockAll(c, q)) = Chain(ClockAll(d, q))}
<1>1. <<>> \in P
  <2>1. <<>> \in ClockSeqs  BY EmptySeq DEF ClockSeqs
  <2>. QED  BY <2>1, ClockNone
<1>2. \A q \in Seq(ClockSet) : \A x \in ClockSet : q \in P => Append(q, x) \in P
  <2> SUFFICES ASSUME NEW q \in Seq(ClockSet), NEW x \in ClockSet, q \in P
               PROVE  Append(q, x) \in P
    OBVIOUS
  <2>1. Append(q, x) \in ClockSeqs  BY AppendProperties DEF ClockSeqs
  <2>2. \A e : ClockAll(e, Append(q, x)) = Clock(ClockAll(e, q), x)  BY ClockAppend
  <2>3. IsCable(ClockAll(c, q)) /\ IsCable(ClockAll(d, q))  BY ClockAllKeeps DEF ClockSeqs
  <2>4. Chain(ClockAll(c, q)) = Chain(ClockAll(d, q))  OBVIOUS
  <2>5. Chain(Clock(ClockAll(c, q), x)) = Chain(Clock(ClockAll(d, q), x))
    BY ONLY <2>3, <2>4, ClockAlike
  <2>. QED  BY <2>1, <2>2, <2>5
<1> HIDE DEF P
<1>3. \A q \in Seq(ClockSet) : q \in P  BY <1>1, <1>2, SeqInduction
<1>. QED  BY <1>3 DEF P, ClockSeqs

-----------------------------------------------------------------------------
(* Commands of the MPSSE. *)

CommandSet == [clocks : ClockSeqs, read : BOOLEAN]
CommandSeqs == Seq(CommandSet)

ClocksOf == [x \in CommandSet |-> x.clocks]
Clocks(commands) == Joined(ClocksOf, commands)

\* The clocks of commands are clocks.
LEMMA ClocksInSeq == \A q \in CommandSeqs : Clocks(q) \in ClockSeqs
<1> SUFFICES ASSUME NEW q \in Seq(CommandSet) PROVE Joined(ClocksOf, q) \in Seq(ClockSet)
  BY DEF Clocks, ClockSeqs, CommandSeqs
<1>1. ClocksOf \in [CommandSet -> Seq(ClockSet)]  BY DEF ClocksOf, CommandSet, ClockSeqs
<1>. QED  BY ONLY <1>1, q \in Seq(CommandSet), JoinedInSeq

\* Commands of two sequences.
LEMMA ClocksJoin ==
  \A p, q \in CommandSeqs : Clocks(Join(p, q)) = Join(Clocks(p), Clocks(q))
<1> SUFFICES ASSUME NEW p \in Seq(CommandSet), NEW q \in Seq(CommandSet)
             PROVE  Joined(ClocksOf, p \o q) = Joined(ClocksOf, p) \o Joined(ClocksOf, q)
  BY DEF Clocks, Join, CommandSeqs
<1>1. ClocksOf \in [CommandSet -> Seq(ClockSet)]  BY DEF ClocksOf, CommandSet, ClockSeqs
<1>. QED  BY ONLY <1>1, p \in Seq(CommandSet), q \in Seq(CommandSet), JoinedConcat

\* One command more.
LEMMA ClocksAppend ==
  \A p \in CommandSeqs : \A x \in CommandSet :
    Clocks(Append(p, x)) = Join(Clocks(p), x.clocks)
<1> SUFFICES ASSUME NEW p \in Seq(CommandSet), NEW x \in CommandSet
             PROVE  Joined(ClocksOf, Append(p, x)) = Joined(ClocksOf, p) \o x.clocks
  BY DEF Clocks, Join, CommandSeqs
<1>1. ClocksOf \in [CommandSet -> Seq(ClockSet)] /\ ClocksOf[x] = x.clocks
  BY DEF ClocksOf, CommandSet, ClockSeqs
<1>. QED  BY ONLY <1>1, p \in Seq(CommandSet), x \in CommandSet, JoinedAppend

\* A command does to the chain what its clocks do.
LEMMA ExecuteClocks ==
  ASSUME NEW c, NEW x \in CommandSet, IsCable(c)
  PROVE  LET d == Execute(c, x)
         IN  IsCable(d) /\ Software(d) = Software(c) /\ Chain(d) = Chain(ClockAll(c, x.clocks))
<1>1. x.clocks \in ClockSeqs  BY DEF CommandSet
<1>2. PICK e : e = [c EXCEPT !.tdo = <<>>]  OBVIOUS
<1>3. IsCable(e) /\ Software(e) = Software(c) /\ Chain(e) = Chain(c)
  BY <1>2 DEF IsCable, Fields, Software, Chain
<1>4. PICK r : r = ClockAll(e, x.clocks)  OBVIOUS
<1>5. IsCable(r) /\ Software(r) = Software(c)  BY <1>1, <1>3, <1>4, ClockAllKeeps
<1>6. Chain(r) = Chain(ClockAll(c, x.clocks))  BY <1>1, <1>3, <1>4, ClockAllAlike
<1>7. \E fifo : Execute(c, x) = [r EXCEPT !.fifo = fifo]
  BY <1>2, <1>4, Zenon DEF Execute
<1>8. \A fifo : /\ IsCable([r EXCEPT !.fifo = fifo])
                /\ Software([r EXCEPT !.fifo = fifo]) = Software(r)
                /\ Chain([r EXCEPT !.fifo = fifo]) = Chain(r)
  BY <1>5 DEF IsCable, Fields, Software, Chain
<1>. QED  BY <1>5, <1>6, <1>7, <1>8

\* Commands do to the chain what their clocks do.
LEMMA ExecuteAllClocks ==
  ASSUME NEW c, IsCable(c)
  PROVE  \A q \in CommandSeqs :
           LET d == ExecuteAll(c, q)
           IN  IsCable(d) /\ Software(d) = Software(c) /\ Chain(d) = Chain(ClockAll(c, Clocks(q)))
<1> DEFINE Keeps(d) == IsCable(d) /\ Software(d) = Software(c)
           P == {q \in CommandSeqs : /\ Keeps(ExecuteAll(c, q))
                                     /\ Chain(ExecuteAll(c, q)) = Chain(ClockAll(c, Clocks(q)))}
<1>1. <<>> \in P
  <2>1. <<>> \in CommandSeqs  BY EmptySeq DEF CommandSeqs
  <2>2. Clocks(<<>>) = <<>>  BY JoinedNone DEF Clocks
  <2>. QED  BY <2>1, <2>2, ClockNone, ExecuteNone
<1>2. \A q \in Seq(CommandSet) : \A x \in CommandSet : q \in P => Append(q, x) \in P
  <2> SUFFICES ASSUME NEW q \in Seq(CommandSet), NEW x \in CommandSet, q \in P
               PROVE  Append(q, x) \in P
    OBVIOUS
  <2>1. Append(q, x) \in CommandSeqs  BY AppendProperties DEF CommandSeqs
  <2>2. PICK d : d = ExecuteAll(c, q) /\ ExecuteAll(c, Append(q, x)) = Execute(d, x)
    BY ExecuteAppend
  <2>3. PICK k \in ClockSeqs : k = Clocks(q)  BY ClocksInSeq DEF CommandSeqs
  <2>4. Keeps(d) /\ Chain(d) = Chain(ClockAll(c, k))  BY <2>2, <2>3
  <2>5. Keeps(Execute(d, x)) /\ Chain(Execute(d, x)) = Chain(ClockAll(d, x.clocks))
    BY ONLY <2>4, x \in CommandSet, ExecuteClocks
  <2>6. x.clocks \in ClockSeqs  BY DEF CommandSet
  <2>7. IsCable(ClockAll(c, k))  BY <2>3, ClockAllKeeps
  <2>8. Chain(ClockAll(d, x.clocks)) = Chain(ClockAll(ClockAll(c, k), x.clocks))
    BY ONLY <2>4, <2>6, <2>7, ClockAllAlike
  <2>9. ClockAll(ClockAll(c, k), x.clocks) = ClockAll(c, Join(k, x.clocks))
    BY ONLY k \in ClockSeqs, <2>6, ClockAllJoin
  <2>10. Join(k, x.clocks) = Clocks(Append(q, x))
    BY <2>3, ClocksAppend DEF CommandSeqs
  <2>. QED  BY ONLY <2>1, <2>2, <2>5, <2>8, <2>9, <2>10 DEF P
<1> HIDE DEF P
<1>3. \A q \in Seq(CommandSet) : q \in P  BY <1>1, <1>2, SeqInduction
<1>. QED  BY <1>3 DEF P, CommandSeqs

\* What a clock does, field by field.
Clocked(c, k, d) ==
  /\ IsCable(d) /\ d.chain = c.chain
  /\ d.level = IF k.tms = Same THEN c.level ELSE k.tms
  /\ d.tap = TapNext[c.tap][d.level + 1]
  /\ c.tap = "CAPTURE_IR" => d.reg = Bits("status", c.captures + 1, IrLen)
  /\ c.tap = "CAPTURE_DR" => d.reg = IF c.reset THEN Ids(c.chain) ELSE <<>>
  /\ c.tap \notin {"CAPTURE_IR", "CAPTURE_DR", "SHIFT_IR", "SHIFT_DR"} => d.reg = c.reg
  /\ c.tap = "SHIFT_IR" /\ c.chain > 0 => d.reg = Append(Tail(c.reg), k.tdi)
  /\ c.tap = "SHIFT_DR" /\ c.chain > 0 /\ ~c.reset => d.reg = Append(c.reg, k.tdi)
  /\ d.captures = IF c.tap = "CAPTURE_IR" THEN c.captures + 1 ELSE c.captures
  /\ d.tap = "TEST_LOGIC_RESET" => d.reset = TRUE /\ d.latched = <<>>
  /\ d.tap = "UPDATE_IR" => d.reset = FALSE /\ d.latched = Append(c.latched, d.reg)
  /\ d.tap = "UPDATE_DR" /\ ~c.reset => d.latched = Append(c.latched, d.reg)
  /\ d.tap = "UPDATE_DR" /\ c.reset => d.latched = c.latched
  /\ d.tap \notin {"TEST_LOGIC_RESET", "UPDATE_IR", "UPDATE_DR"} => d.latched = c.latched
  /\ d.tap \notin {"TEST_LOGIC_RESET", "UPDATE_IR"} /\ c.reset \in BOOLEAN => d.reset = c.reset

\* Clock does that.
LEMMA ClockIs == \A c, k : IsCable(c) => Clocked(c, k, Clock(c, k))
<1> SUFFICES ASSUME NEW c, NEW k, NEW d, IsCable(c), d = Clock(c, k) PROVE Clocked(c, k, d)
  OBVIOUS
<1> DEFINE level == IF k.tms = Same THEN c.level ELSE k.tms
           next == TapNext[c.tap][level + 1]
           shifting == c.tap \in {"SHIFT_DR", "SHIFT_IR"} /\ c.chain > 0
           through == c.tap = "SHIFT_IR" \/ c.reset
           reg == CASE c.tap = "CAPTURE_IR" -> Bits("status", c.captures + 1, IrLen)
                    [] c.tap = "CAPTURE_DR" -> IF c.reset THEN Ids(c.chain) ELSE <<>>
                    [] shifting /\ through -> Append(Tail(c.reg), k.tdi)
                    [] shifting /\ ~through -> Append(c.reg, k.tdi)
                    [] OTHER -> c.reg
           latched == CASE next = "TEST_LOGIC_RESET" -> <<>>
                        [] next = "UPDATE_IR" \/ (next = "UPDATE_DR" /\ ~c.reset) ->
                             Append(c.latched, reg)
                        [] OTHER -> c.latched
           reset == next = "TEST_LOGIC_RESET" \/ (c.reset /\ next # "UPDATE_IR")
<1>1. /\ IsCable(d) /\ d.chain = c.chain /\ d.level = level /\ d.tap = next /\ d.reg = reg
      /\ d.captures = IF c.tap = "CAPTURE_IR" THEN c.captures + 1 ELSE c.captures
      /\ d.latched = latched /\ d.reset = reset
  BY DEF Clock, IsCable, Fields
<1>2. /\ c.tap = "CAPTURE_IR" => reg = Bits("status", c.captures + 1, IrLen)
      /\ c.tap = "CAPTURE_DR" => reg = IF c.reset THEN Ids(c.chain) ELSE <<>>
      /\ c.tap \notin {"CAPTURE_IR", "CAPTURE_DR", "SHIFT_IR", "SHIFT_DR"} => reg = c.reg
      /\ c.tap = "SHIFT_IR" /\ c.chain > 0 => reg = Append(Tail(c.reg), k.tdi)
      /\ c.tap = "SHIFT_DR" /\ c.chain > 0 /\ ~c.reset => reg = Append(c.reg, k.tdi)
  OBVIOUS
<1> HIDE DEF reg
<1>3. /\ next = "TEST_LOGIC_RESET" => latched = <<>>
      /\ next = "UPDATE_IR" => latched = Append(c.latched, reg)
      /\ next = "UPDATE_DR" /\ ~c.reset => latched = Append(c.latched, reg)
      /\ next = "UPDATE_DR" /\ c.reset => latched = c.latched
      /\ next \notin {"TEST_LOGIC_RESET", "UPDATE_IR", "UPDATE_DR"} => latched = c.latched
  OBVIOUS
<1>4. /\ next = "TEST_LOGIC_RESET" => reset = TRUE
      /\ next = "UPDATE_IR" => reset = FALSE
      /\ next \notin {"TEST_LOGIC_RESET", "UPDATE_IR"} /\ c.reset \in BOOLEAN => reset = c.reset
  OBVIOUS
<1>5. d.tap = TapNext[c.tap][d.level + 1]  BY <1>1
<1> HIDE DEF next, latched, reset
<1>. QED  BY ONLY <1>1, <1>2, <1>3, <1>4, <1>5 DEF level, Clocked

\* The same for a clock with a bit of TMS.
LEMMA TmsClockIs ==
  ASSUME NEW c, NEW t \in {0, 1}, NEW d, IsCable(c), d = Clock(c, [tms |-> t, tdi |-> High])
  PROVE  d.level = t /\ d.tap = TapNext[c.tap][t + 1]
<1>1. PICK k : k = [tms |-> t, tdi |-> High]  OBVIOUS
<1>2. k.tms = t /\ t # Same  BY <1>1 DEF Same
<1>3. Clocked(c, k, d)  BY <1>1, ClockIs
<1>4. d.level = (IF k.tms = Same THEN c.level ELSE k.tms) /\ d.tap = TapNext[c.tap][d.level + 1]
  BY ONLY <1>3 DEF Clocked
<1>. QED  BY ONLY <1>2, <1>4

-----------------------------------------------------------------------------
(* The command buffer. *)

\* Sequences of clocks, joined.
LEMMA JoinLaws ==
  /\ <<>> \in ClockSeqs
  /\ \A p, q \in ClockSeqs : Join(p, q) \in ClockSeqs
  /\ \A p \in ClockSeqs : Join(p, <<>>) = p /\ Join(<<>>, p) = p
  /\ \A p, q, r \in ClockSeqs : Join(Join(p, q), r) = Join(p, Join(q, r))
<1>1. <<>> \in ClockSeqs  BY EmptySeq DEF ClockSeqs
<1>2. \A p, q \in ClockSeqs : Join(p, q) \in ClockSeqs  BY ConcatProperties DEF ClockSeqs, Join
<1>3. \A p \in ClockSeqs : Join(p, <<>>) = p /\ Join(<<>>, p) = p
  BY ConcatEmptySeq DEF ClockSeqs, Join
<1>4. \A p, q, r \in ClockSeqs : Join(Join(p, q), r) = Join(p, Join(q, r))
  <2> SUFFICES ASSUME NEW p \in Seq(ClockSet), NEW q \in Seq(ClockSet), NEW r \in Seq(ClockSet)
               PROVE  (p \o q) \o r = p \o (q \o r)
    BY DEF ClockSeqs, Join
  <2>. QED  BY ConcatAssociative
<1>. QED  BY <1>1, <1>2, <1>3, <1>4

PartSet == [len : 0 .. TxBuf - 1, commands : CommandSeqs, send : BOOLEAN, read : Nat]

IsBuffered(c) == IsCable(c) /\ c.usbuf \in CommandSeqs /\ c.bptr \in 0 .. TxBuf - 1

\* Between c and d the chain has seen the clocks of the buffer and those that
\* were added, but for those that are in the buffer now.
Moves(c, d, added) ==
  \E e \in ClockSeqs : /\ Chain(d) = Chain(ClockAll(c, e))
                       /\ Join(e, Clocks(d.usbuf)) = Join(Clocks(c.usbuf), added)

\* The clocks in the buffer.
LEMMA BufferInSeq == \A c : IsBuffered(c) => Clocks(c.usbuf) \in ClockSeqs
BY ClocksInSeq DEF IsBuffered

\* What is added twice is added one behind the other.
LEMMA MovesOn ==
  ASSUME NEW a \in ClockSeqs, NEW b \in ClockSeqs, NEW x, NEW y, NEW z,
         IsBuffered(x), IsBuffered(y), IsBuffered(z), Moves(x, y, a), Moves(y, z, b)
  PROVE  Moves(x, z, Join(a, b))
<1>1. PICK e \in ClockSeqs : /\ Chain(y) = Chain(ClockAll(x, e))
                             /\ Join(e, Clocks(y.usbuf)) = Join(Clocks(x.usbuf), a)
  BY DEF Moves
<1>2. PICK f \in ClockSeqs : /\ Chain(z) = Chain(ClockAll(y, f))
                             /\ Join(f, Clocks(z.usbuf)) = Join(Clocks(y.usbuf), b)
  BY DEF Moves
<1>3. PICK u \in ClockSeqs : u = Clocks(x.usbuf)  BY BufferInSeq
<1>4. PICK v \in ClockSeqs : v = Clocks(y.usbuf)  BY BufferInSeq
<1>5. PICK w \in ClockSeqs : w = Clocks(z.usbuf)  BY BufferInSeq
<1>6. Join(e, f) \in ClockSeqs  BY JoinLaws
<1>7. Join(Join(e, f), w) = Join(u, Join(a, b))
  <2>1. Join(e, v) = Join(u, a) /\ Join(f, w) = Join(v, b)  BY <1>1, <1>2, <1>3, <1>4, <1>5
  <2>2. Join(Join(e, f), w) = Join(e, Join(f, w))  BY JoinLaws
  <2>3. Join(e, Join(v, b)) = Join(Join(e, v), b)  BY JoinLaws
  <2>4. Join(Join(u, a), b) = Join(u, Join(a, b))  BY JoinLaws
  <2>. QED  BY ONLY <2>1, <2>2, <2>3, <2>4
<1>8. Chain(z) = Chain(ClockAll(x, Join(e, f)))
  <2>1. IsCable(ClockAll(x, e)) /\ IsCable(y)  BY ClockAllKeeps DEF IsBuffered
  <2>2. Chain(ClockAll(y, f)) = Chain(ClockAll(ClockAll(x, e), f))
    BY ONLY f \in ClockSeqs, <1>1, <2>1, ClockAllAlike
  <2>3. ClockAll(x, Join(e, f)) = ClockAll(ClockAll(x, e), f)  BY ClockAllJoin
  <2>. QED  BY ONLY <1>2, <2>2, <2>3
<1>. QED  BY <1>3, <1>5, <1>6, <1>7, <1>8 DEF Moves

\* What leaves chain and buffer alone.
LEMMA MovesNot ==
  ASSUME NEW c, NEW d, IsBuffered(c), Chain(d) = Chain(c), d.usbuf = c.usbuf
  PROVE  Moves(c, d, <<>>)
<1>1. PICK u \in ClockSeqs : u = Clocks(c.usbuf)  BY BufferInSeq
<1>2. Join(<<>>, u) = Join(u, <<>>) /\ <<>> \in ClockSeqs  BY JoinLaws
<1>3. ClockAll(c, <<>>) = c  BY ClockNone
<1>. QED  BY <1>1, <1>2, <1>3 DEF Moves

\* Sending empties the buffer into the chain.
LEMMA SendMoves ==
  ASSUME NEW c, IsBuffered(c)
  PROVE  LET d == Send(c)
         IN  /\ IsBuffered(d) /\ d.usbuf = <<>> /\ d.bptr = 0 /\ d.tms = c.tms /\ d.state = c.state
             /\ Moves(c, d, <<>>)
<1>1. PICK r : r = ExecuteAll(c, c.usbuf)  OBVIOUS
<1>2. PICK u \in ClockSeqs : u = Clocks(c.usbuf)  BY BufferInSeq
<1>3. IsCable(r) /\ Software(r) = Software(c) /\ Chain(r) = Chain(ClockAll(c, u))
  BY <1>1, <1>2, ExecuteAllClocks DEF IsBuffered
<1>4. PICK d : d = Send(c) /\ d = [r EXCEPT !.usbuf = <<>>, !.bptr = 0]  BY <1>1 DEF Send
<1>5. /\ IsCable(d) /\ d.usbuf = <<>> /\ d.bptr = 0 /\ d.tms = r.tms /\ d.state = r.state
      /\ Chain(d) = Chain(r)
  BY <1>3, <1>4 DEF IsCable, Fields, Chain
<1>6. r.tms = c.tms /\ r.state = c.state  BY <1>3 DEF Software
<1>7. Clocks(d.usbuf) = <<>>  BY <1>5, JoinedNone DEF Clocks
<1>8. Moves(c, d, <<>>)  BY ONLY u \in ClockSeqs, <1>2, <1>3, <1>5, <1>7 DEF Moves
<1>9. IsBuffered(d)
  <2>1. <<>> \in CommandSeqs  BY EmptySeq DEF CommandSeqs
  <2>2. 0 \in 0 .. TxBuf - 1  BY JtagAssumption
  <2>. QED  BY <1>5, <2>1, <2>2 DEF IsBuffered
<1>. QED  BY <1>4, <1>5, <1>6, <1>8, <1>9

\* Commands are added behind what is in the buffer, which never overflows.
LEMMA AddMoves ==
  ASSUME NEW c, NEW part \in PartSet, IsBuffered(c)
  PROVE  LET d == mpsse_add_cmd(c, part)
         IN  /\ IsBuffered(d) /\ d.tms = c.tms /\ d.state = c.state
             /\ Moves(c, d, Clocks(part.commands))
             /\ part.send => d.usbuf = <<>>
<1>1. PICK p : p = IF IsFull(c, part.len) THEN Send(c) ELSE c  OBVIOUS
<1>2. /\ IsBuffered(p) /\ p.tms = c.tms /\ p.state = c.state /\ Moves(c, p, <<>>)
      /\ p.bptr + part.len \in 0 .. TxBuf - 1
  <2>1. CASE IsFull(c, part.len)
    <3>1. p.bptr + part.len = part.len  BY <1>1, <2>1, SendMoves DEF PartSet
    <3>. QED  BY <1>1, <2>1, <3>1, SendMoves DEF PartSet
  <2>2. CASE ~IsFull(c, part.len)
    <3>1. c.bptr + part.len \in 0 .. TxBuf - 1
      BY <2>2, JtagAssumption DEF IsFull, IsBuffered, PartSet
    <3>2. Moves(c, c, <<>>)  BY MovesNot
    <3>. QED  BY <1>1, <2>2, <3>1, <3>2
  <2>. QED  BY <2>1, <2>2
<1>3. PICK q : q = [p EXCEPT !.usbuf = @ \o part.commands, !.bptr = @ + part.len]  OBVIOUS
<1>4. PICK a \in ClockSeqs : a = Clocks(part.commands)  BY ClocksInSeq DEF PartSet
<1>5. IsBuffered(q) /\ q.tms = c.tms /\ q.state = c.state /\ Moves(p, q, a)
  <2>1. /\ IsCable(q) /\ q.usbuf = Join(p.usbuf, part.commands)
        /\ q.bptr = p.bptr + part.len /\ q.tms = p.tms /\ q.state = p.state
        /\ Chain(q) = Chain(p)
    BY <1>2, <1>3 DEF IsBuffered, IsCable, Fields, Chain, Join
  <2>2. p.usbuf \in CommandSeqs /\ part.commands \in CommandSeqs
    BY <1>2 DEF IsBuffered, PartSet
  <2>3. Join(p.usbuf, part.commands) \in CommandSeqs
    BY <2>2, ConcatProperties DEF CommandSeqs, Join
  <2>4. Clocks(q.usbuf) = Join(Clocks(p.usbuf), a)  BY ONLY <1>4, <2>1, <2>2, ClocksJoin
  <2>5. PICK u \in ClockSeqs : u = Join(Clocks(p.usbuf), a)
    BY <1>2, BufferInSeq, JoinLaws
  <2>6. Join(<<>>, u) = u /\ <<>> \in ClockSeqs  BY JoinLaws
  <2>7. Chain(q) = Chain(ClockAll(p, <<>>))  BY <2>1, ClockNone
  <2>8. Moves(p, q, a)  BY ONLY <2>4, <2>5, <2>6, <2>7 DEF Moves
  <2>. QED  BY <1>2, <2>1, <2>3, <2>8 DEF IsBuffered
<1>6. PICK r : r = IF part.send THEN Send(q) ELSE q  OBVIOUS
<1>7. /\ IsBuffered(r) /\ r.tms = c.tms /\ r.state = c.state /\ Moves(q, r, <<>>)
      /\ part.send => r.usbuf = <<>>
  <2>1. CASE part.send  BY <1>5, <1>6, <2>1, SendMoves
  <2>2. CASE ~part.send
    <3>1. Moves(q, q, <<>>)  BY <1>5, MovesNot
    <3>. QED  BY <1>5, <1>6, <2>2, <3>1
  <2>. QED  BY <2>1, <2>2
<1>8. PICK d : d = IF part.read > 0 THEN Take(r, part.read) ELSE r  OBVIOUS
<1>9. /\ IsBuffered(d) /\ d.tms = c.tms /\ d.state = c.state /\ Chain(d) = Chain(r)
      /\ d.usbuf = r.usbuf
  BY <1>7, <1>8 DEF Take, IsBuffered, IsCable, Fields, Chain
<1>10. Moves(r, d, <<>>)  BY <1>7, <1>9, MovesNot
<1>11. d = mpsse_add_cmd(c, part)  BY <1>1, <1>3, <1>6, <1>8 DEF mpsse_add_cmd
<1>12. Moves(c, d, a)
  <2>1. <<>> \in ClockSeqs /\ Join(<<>>, a) = a /\ Join(a, <<>>) = a  BY JoinLaws
  <2>2. Moves(c, q, a)  BY <1>2, <1>5, <2>1, MovesOn
  <2>3. Moves(c, r, a)  BY <1>5, <1>7, <2>1, <2>2, MovesOn
  <2>. QED  BY <1>7, <1>9, <1>10, <2>1, <2>3, MovesOn
<1>. QED  BY <1>4, <1>7, <1>9, <1>11, <1>12

-----------------------------------------------------------------------------
(* Parts of commands. *)

PartSeqs == Seq(PartSet)
ClocksOfPart == [x \in PartSet |-> Clocks(x.commands)]
PartClocks(parts) == Joined(ClocksOfPart, parts)

\* The clocks of commands and of parts are functions.
LEMMA ClocksOfIsMap ==
  /\ ClocksOf \in Maps(CommandSet, Seq(ClockSet))
  /\ \A x \in CommandSet : ClocksOf[x] = x.clocks
  /\ ClocksOfPart \in Maps(PartSet, Seq(ClockSet))
  /\ \A x \in PartSet : ClocksOfPart[x] = Clocks(x.commands)
<1>1. \A x \in CommandSet : x.clocks \in Seq(ClockSet)  BY DEF CommandSet, ClockSeqs
<1>2. \A x \in PartSet : Clocks(x.commands) \in Seq(ClockSet)
  BY ClocksInSeq DEF PartSet, ClockSeqs
<1>. QED  BY <1>1, <1>2 DEF ClocksOf, ClocksOfPart, Maps

\* The clocks of no part, of one more, and of two sequences of parts.
LEMMA PartClocksLaws ==
  /\ PartClocks(<<>>) = <<>> /\ <<>> \in PartSeqs
  /\ \A p \in PartSeqs : PartClocks(p) \in ClockSeqs
  /\ \A p \in PartSeqs : \A x \in PartSet :
       /\ Append(p, x) \in PartSeqs
       /\ PartClocks(Append(p, x)) = Join(PartClocks(p), Clocks(x.commands))
  /\ \A p, q \in PartSeqs :
       Join(p, q) \in PartSeqs /\ PartClocks(Join(p, q)) = Join(PartClocks(p), PartClocks(q))
<1>1. PartClocks(<<>>) = <<>>  BY JoinedNone DEF PartClocks
<1>2. \A p \in PartSeqs : PartClocks(p) \in ClockSeqs
  BY ClocksOfIsMap, JoinedAll DEF PartClocks, PartSeqs, ClockSeqs
<1>3. \A p \in PartSeqs : \A x \in PartSet :
        PartClocks(Append(p, x)) = Join(PartClocks(p), Clocks(x.commands))
  BY ClocksOfIsMap, JoinedAll DEF PartClocks, PartSeqs
<1>4. \A p, q \in PartSeqs : PartClocks(Join(p, q)) = Join(PartClocks(p), PartClocks(q))
  BY ClocksOfIsMap, JoinedAll DEF PartClocks, PartSeqs
<1>5. \A p \in PartSeqs : \A x \in PartSet : Append(p, x) \in PartSeqs
  BY AppendProperties DEF PartSeqs
<1>6. \A p, q \in PartSeqs : Join(p, q) \in PartSeqs  BY ConcatProperties DEF PartSeqs, Join
<1>7. <<>> \in PartSeqs  BY EmptySeq DEF PartSeqs
<1>. QED  BY ONLY <1>1, <1>2, <1>3, <1>4, <1>5, <1>6, <1>7

\* One part, one command.
LEMMA OnePart ==
  ASSUME NEW x \in PartSet
  PROVE  <<x>> \in PartSeqs /\ PartClocks(<<x>>) = Clocks(x.commands)
<1>1. <<x>> = Append(<<>>, x)  OBVIOUS
<1>2. PICK k \in ClockSeqs : k = Clocks(x.commands)  BY ClocksInSeq DEF PartSet
<1>3. Join(<<>>, k) = k  BY JoinLaws
<1>. QED  BY <1>1, <1>2, <1>3, PartClocksLaws

\* A single command.
LEMMA OneCommand ==
  ASSUME NEW x \in CommandSet
  PROVE  <<x>> \in CommandSeqs /\ Clocks(<<x>>) = x.clocks
<1>1. <<x>> = Append(<<>>, x)  OBVIOUS
<1>2. PICK k \in ClockSeqs : k = x.clocks  BY DEF CommandSet
<1>3. Join(<<>>, k) = k  BY JoinLaws
<1>4. Clocks(<<>>) = <<>>  BY JoinedNone DEF Clocks
<1>5. <<>> \in CommandSeqs  BY EmptySeq DEF CommandSeqs
<1>6. Append(<<>>, x) \in CommandSeqs  BY <1>5, AppendProperties DEF CommandSeqs
<1>. QED  BY <1>1, <1>2, <1>3, <1>4, <1>5, <1>6, ClocksAppend

\* What adding parts does to buffer and chain.
LEMMA AddAllMoves ==
  ASSUME NEW c, IsBuffered(c)
  PROVE  \A parts \in PartSeqs :
           LET d == AddAll(c, parts)
           IN  /\ IsBuffered(d) /\ d.tms = c.tms /\ d.state = c.state
               /\ Moves(c, d, PartClocks(parts))
<1> DEFINE Keeps(d) == IsBuffered(d) /\ d.tms = c.tms /\ d.state = c.state
           P == {parts \in PartSeqs : /\ Keeps(AddAll(c, parts))
                                      /\ Moves(c, AddAll(c, parts), PartClocks(parts))}
<1>1. <<>> \in P
  <2>1. AddAll(c, <<>>) = c  BY AddNone
  <2>2. Moves(c, c, <<>>)  BY MovesNot
  <2>. QED  BY <2>1, <2>2, PartClocksLaws
<1>2. \A q \in Seq(PartSet) : \A x \in PartSet : q \in P => Append(q, x) \in P
  <2> SUFFICES ASSUME NEW q \in Seq(PartSet), NEW x \in PartSet, q \in P
               PROVE  Append(q, x) \in P
    OBVIOUS
  <2>1. PICK d : d = AddAll(c, q) /\ AddAll(c, Append(q, x)) = mpsse_add_cmd(d, x)
    BY AddAppend
  <2>2. q \in PartSeqs  BY DEF PartSeqs
  <2>3. PICK a \in ClockSeqs : a = PartClocks(q)  BY <2>2, PartClocksLaws
  <2>4. PICK b \in ClockSeqs : b = Clocks(x.commands)  BY ClocksInSeq DEF PartSet
  <2>5. Keeps(d) /\ Moves(c, d, a)  BY <2>1, <2>3
  <2>6. PICK e : e = mpsse_add_cmd(d, x)  OBVIOUS
  <2>7. IsBuffered(e) /\ e.tms = d.tms /\ e.state = d.state /\ Moves(d, e, b)
    BY ONLY <2>4, <2>5, <2>6, x \in PartSet, AddMoves
  <2>8. Moves(c, e, Join(a, b))
    BY ONLY a \in ClockSeqs, b \in ClockSeqs, IsBuffered(c), <2>5, <2>7, MovesOn
  <2>9. PartClocks(Append(q, x)) = Join(a, b) /\ Append(q, x) \in PartSeqs
    BY ONLY <2>2, <2>3, <2>4, x \in PartSet, PartClocksLaws
  <2>. QED  BY <2>1, <2>5, <2>6, <2>7, <2>8, <2>9
<1> HIDE DEF P
<1>3. \A q \in Seq(PartSet) : q \in P  BY <1>1, <1>2, SeqInduction
<1>. QED  BY <1>3 DEF P, PartSeqs

-----------------------------------------------------------------------------
(* The clocks of TMS bits and of data. *)

TmsSet == {0, 1, Same}
TmsClock == [t \in TmsSet |-> [tms |-> t, tdi |-> High]]
DataClock == [b \in BitSet |-> [tms |-> Same, tdi |-> b]]
TmsClocks(pat) == Mapped(TmsClock, pat)
DataClocks(tdi) == Mapped(DataClock, tdi)

\* The clocks of TMS bits and of data are functions.
LEMMA ClockMaps ==
  /\ TmsClock \in [TmsSet -> ClockSet] /\ \A t \in TmsSet : TmsClock[t] = [tms |-> t, tdi |-> High]
  /\ DataClock \in [BitSet -> ClockSet]
  /\ \A b \in BitSet : DataClock[b] = [tms |-> Same, tdi |-> b]
  /\ TmsClock \in Maps(TmsSet, ClockSet) /\ DataClock \in Maps(BitSet, ClockSet)
<1>1. High \in BitSet  BY DEF High, BitSet
<1>. QED  BY <1>1 DEF Maps, TmsClock, DataClock, ClockSet, TmsSet

\* They are clocks.
LEMMA ClocksOfBits ==
  /\ \A pat \in Seq(TmsSet) : TmsClocks(pat) \in ClockSeqs
  /\ \A tdi \in Seq(BitSet) : DataClocks(tdi) \in ClockSeqs
BY ClockMaps, MapInSeq DEF TmsClocks, DataClocks, ClockSeqs

\* Data one behind the other.
LEMMA DataClocksJoin ==
  \A p, q \in Seq(BitSet) : DataClocks(Join(p, q)) = Join(DataClocks(p), DataClocks(q))
BY ONLY ClockMaps, MapAll DEF DataClocks

\* The commands that are made of them.
LEMMA DataIs ==
  \A tdi \in Seq(BitSet) : \A read \in BOOLEAN :
    Data(tdi, read) \in CommandSet /\ Data(tdi, read).clocks = DataClocks(tdi)
<1> SUFFICES ASSUME NEW tdi \in Seq(BitSet), NEW read \in BOOLEAN
             PROVE  Data(tdi, read) \in CommandSet /\ Data(tdi, read).clocks = DataClocks(tdi)
  OBVIOUS
<1>1. \A i \in DOMAIN tdi : tdi[i] \in BitSet  BY LenProperties, ElementOfSeq
<1>2. [i \in DOMAIN tdi |-> [tms |-> [j \in DOMAIN tdi |-> Same][i], tdi |-> tdi[i]]]
        = DataClocks(tdi)
  BY <1>1, ClockMaps DEF DataClocks, Mapped
<1>3. Data(tdi, read) = [clocks |-> DataClocks(tdi), read |-> read]
  BY <1>2 DEF Data, Command
<1>4. DataClocks(tdi) \in ClockSeqs  BY ClocksOfBits
<1>. QED  BY <1>3, <1>4 DEF CommandSet

TmsOnly(piece) == Command(piece, [k \in DOMAIN piece |-> High], FALSE)

\* A command with TMS bits only.
LEMMA TmsOnlyIs ==
  \A pat \in Seq(TmsSet) : TmsOnly(pat) \in CommandSet /\ TmsOnly(pat).clocks = TmsClocks(pat)
<1> SUFFICES ASSUME NEW pat \in Seq(TmsSet)
             PROVE  TmsOnly(pat) \in CommandSet /\ TmsOnly(pat).clocks = TmsClocks(pat)
  OBVIOUS
<1>1. \A i \in DOMAIN pat : pat[i] \in TmsSet  BY LenProperties, ElementOfSeq
<1>2. PICK highs : highs = [k \in DOMAIN pat |-> High]  OBVIOUS
<1>3. [i \in DOMAIN highs |-> [tms |-> pat[i], tdi |-> highs[i]]] = TmsClocks(pat)
  BY <1>1, <1>2, ClockMaps DEF TmsClocks, Mapped
<1>4. TmsOnly(pat) = [clocks |-> TmsClocks(pat), read |-> FALSE]
  BY <1>2, <1>3 DEF TmsOnly, Command
<1>5. TmsClocks(pat) \in ClockSeqs  BY ClocksOfBits
<1>. QED  BY <1>4, <1>5 DEF CommandSet

\* The commands for all TMS bits of the buffer.
LEMMA tx_tmsIs ==
  \A pat \in Seq(TmsSet) : tx_tms(pat) \in PartSeqs /\ PartClocks(tx_tms(pat)) = TmsClocks(pat)
<1> SUFFICES ASSUME NEW pat \in Seq(TmsSet)
             PROVE  tx_tms(pat) \in PartSeqs /\ PartClocks(tx_tms(pat)) = TmsClocks(pat)
  OBVIOUS
<1>1. PICK l \in Nat : l = Len(pat)  BY LenProperties
<1>2. PICK n \in Nat \ {0} : n = TmsBits  BY JtagAssumption
<1>3. PICK m \in Nat : m = (l + n - 1) \div n /\ ~(m * n < l)
  <2>1. PICK a \in Nat : a = l + n - 1  OBVIOUS
  <2>2. a \div n \in Nat /\ a % n \in 0 .. n - 1 /\ a = ((a \div n) * n) + (a % n)  BY DivMod
  <2>3. ~((a \div n) * n < l)  BY <2>1, <2>2
  <2>. QED  BY <2>1, <2>2, <2>3
<1>4. PICK pieces : pieces = PieceSeq(pat, n, m)  OBVIOUS
<1>5. pieces \in Seq(Seq(TmsSet)) /\ FlattenSeq(pieces) = pat
  <2>1. pieces \in Seq(Seq(TmsSet))
    BY ONLY n \in Nat \ {0}, m \in Nat, pat \in Seq(TmsSet), <1>4, Pieces
  <2>2. FlattenSeq(pieces) = SubSeq(pat, 1, PieceEnd(pat, n, m))
    BY ONLY n \in Nat \ {0}, m \in Nat, pat \in Seq(TmsSet), <1>4, Pieces
  <2>3. PieceEnd(pat, n, m) = Len(pat)  BY <1>1, <1>3 DEF PieceEnd
  <2>. QED  BY <2>1, <2>2, <2>3, SubSeqFull
<1>6. PICK K : K = [p \in Seq(TmsSet) |-> Part(3, <<TmsOnly(p)>>)]  OBVIOUS
<1>7. K \in [Seq(TmsSet) -> PartSet]
      /\ \A p \in Seq(TmsSet) : Clocks(K[p].commands) = TmsClocks(p)
  <2> SUFFICES ASSUME NEW p \in Seq(TmsSet)
               PROVE  Part(3, <<TmsOnly(p)>>) \in PartSet
                      /\ Clocks(Part(3, <<TmsOnly(p)>>).commands) = TmsClocks(p)
    BY <1>6
  <2>1. PICK x \in CommandSet : x = TmsOnly(p) /\ x.clocks = TmsClocks(p)  BY TmsOnlyIs
  <2>2. <<x>> \in CommandSeqs /\ Clocks(<<x>>) = x.clocks  BY OneCommand
  <2>3. 3 \in 0 .. TxBuf - 1  BY JtagAssumption
  <2>. QED  BY <2>1, <2>2, <2>3 DEF Part, PartSet
<1>8. tx_tms(pat) = Mapped(K, pieces)
  <2>1. DOMAIN pieces = 1 .. m /\ \A i \in 1 .. m : pieces[i] = Piece(pat, n, i)
    BY <1>4 DEF PieceSeq
  <2>2. \A i \in 1 .. m : pieces[i] \in Seq(TmsSet)
    BY <1>5, <2>1, LenProperties, ElementOfSeq
  <2>3. tx_tms(pat) = [i \in 1 .. m |-> Part(3, <<TmsOnly(Piece(pat, n, i))>>)]
    BY <1>1, <1>2, <1>3 DEF tx_tms, TmsOnly
  <2>. QED  BY <1>6, <2>1, <2>2, <2>3 DEF Mapped
<1>9. tx_tms(pat) \in PartSeqs
  <2>1. PICK R : R = Seq(TmsSet)  OBVIOUS
  <2>2. K \in [R -> PartSet] /\ pieces \in Seq(R)  BY <1>5, <1>7, <2>1
  <2>3. Mapped(K, pieces) \in Seq(PartSet)  BY ONLY <2>2, MapInSeq
  <2>. QED  BY <1>8, <2>3 DEF PartSeqs
<1>10. PICK G : G = [p \in Seq(TmsSet) |-> Mapped(TmsClock, p)]  OBVIOUS
<1>11. PartClocks(Mapped(K, pieces)) = Joined(G, pieces)
  <2>1. \A i \in DOMAIN pieces : pieces[i] \in Seq(TmsSet)
    BY <1>5, LenProperties, ElementOfSeq
  <2>2. \A p \in Seq(TmsSet) : G[p] = ClocksOfPart[K[p]]
    BY <1>7, <1>10, ClocksOfIsMap DEF TmsClocks
  <2>3. \A i \in DOMAIN pieces : G[pieces[i]] = ClocksOfPart[K[pieces[i]]]
    BY ONLY <2>1, <2>2
  <2>. QED  BY ONLY <2>3, JoinedMapped DEF PartClocks
<1>12. Mapped(TmsClock, FlattenSeq(pieces)) = Joined(G, pieces)
  BY ONLY <1>5, <1>10, ClockMaps, MapFlatten
<1>. QED  BY ONLY <1>5, <1>8, <1>9, <1>11, <1>12 DEF TmsClocks

\* One bit more.
LEMMA DataClocksAppend ==
  \A q \in Seq(BitSet) : \A b \in BitSet :
    DataClocks(Append(q, b)) = Append(DataClocks(q), DataClock[b])
<1>1. DataClock \in [BitSet -> ClockSet]  BY ClockMaps
<1>2. ASSUME NEW q \in Seq(BitSet), NEW b \in BitSet
      PROVE  Mapped(DataClock, Append(q, b)) = Append(Mapped(DataClock, q), DataClock[b])
  BY ONLY <1>1, q \in Seq(BitSet), b \in BitSet, MapAppend
<1>. QED  BY <1>2 DEF DataClocks

-----------------------------------------------------------------------------
(* The parts of a block of data. *)

\* Whole bytes.
LEMMA BytesIs ==
  ASSUME NEW tdi \in Seq(BitSet), NEW read \in BOOLEAN, NEW n \in 0 .. TxBuf - 1,
         Len(tdi) = n * ByteBits
  PROVE  Bytes(tdi, read) \in PartSeqs /\ PartClocks(Bytes(tdi, read)) = DataClocks(tdi)
<1>1. PICK b \in Nat \ {0} : b = ByteBits  BY JtagAssumption
<1>2. n \in Nat /\ Len(tdi) \div ByteBits = n
  <2>1. PICK o \in Nat : o = 0 /\ n * b + o = n * b  BY <1>1
  <2>2. n \in Nat  BY JtagAssumption
  <2>3. (n * b + o) \div b = n  BY <2>1, <2>2, DivUnique
  <2>. QED  BY <1>1, <2>1, <2>2, <2>3
<1>3. PICK pieces : pieces = PieceSeq(tdi, b, n)  OBVIOUS
<1>4. pieces \in Seq(Seq(BitSet)) /\ FlattenSeq(pieces) = tdi
  <2>1. pieces \in Seq(Seq(BitSet))
    BY ONLY <1>2, b \in Nat \ {0}, tdi \in Seq(BitSet), <1>3, Pieces
  <2>2. FlattenSeq(pieces) = SubSeq(tdi, 1, PieceEnd(tdi, b, n))
    BY ONLY <1>2, b \in Nat \ {0}, tdi \in Seq(BitSet), <1>3, Pieces
  <2>3. PieceEnd(tdi, b, n) = Len(tdi)  BY <1>1 DEF PieceEnd
  <2>. QED  BY <2>1, <2>2, <2>3, SubSeqFull
<1>5. PICK K : K = [p \in Seq(BitSet) |-> Data(p, read)]  OBVIOUS
<1>6. K \in [Seq(BitSet) -> CommandSet]
      /\ \A p \in Seq(BitSet) : ClocksOf[K[p]] = DataClocks(p)
  BY <1>5, DataIs, ClocksOfIsMap
<1>7. [i \in 1 .. n |-> Data(Piece(tdi, b, i), read)] = Mapped(K, pieces)
  <2>1. DOMAIN pieces = 1 .. n /\ \A i \in 1 .. n : pieces[i] = Piece(tdi, b, i)
    BY <1>3 DEF PieceSeq
  <2>2. \A i \in 1 .. n : pieces[i] \in Seq(BitSet)
    BY <1>4, <2>1, LenProperties, ElementOfSeq
  <2>. QED  BY <1>5, <2>1, <2>2 DEF Mapped
<1>8. Mapped(K, pieces) \in CommandSeqs
  <2>1. PICK R : R = Seq(BitSet)  OBVIOUS
  <2>2. K \in [R -> CommandSet] /\ pieces \in Seq(R)  BY <1>4, <1>6, <2>1
  <2>3. Mapped(K, pieces) \in Seq(CommandSet)  BY ONLY <2>2, MapInSeq
  <2>. QED  BY <2>3 DEF CommandSeqs
<1>9. PICK G : G = [p \in Seq(BitSet) |-> Mapped(DataClock, p)]  OBVIOUS
<1>10. Clocks(Mapped(K, pieces)) = Joined(G, pieces)
  <2>1. \A i \in DOMAIN pieces : pieces[i] \in Seq(BitSet)
    BY <1>4, LenProperties, ElementOfSeq
  <2>2. \A p \in Seq(BitSet) : G[p] = ClocksOf[K[p]]  BY <1>6, <1>9 DEF DataClocks
  <2>3. \A i \in DOMAIN pieces : G[pieces[i]] = ClocksOf[K[pieces[i]]]  BY ONLY <2>1, <2>2
  <2>. QED  BY ONLY <2>3, JoinedMapped DEF Clocks
<1>11. Mapped(DataClock, FlattenSeq(pieces)) = Joined(G, pieces)
  BY ONLY <1>4, <1>9, ClockMaps, MapFlatten
<1>12. Clocks(Mapped(K, pieces)) = DataClocks(tdi)  BY ONLY <1>4, <1>10, <1>11 DEF DataClocks
<1>13. PICK x \in PartSet : x = Part(3, <<>>) /\ Clocks(x.commands) = <<>>
  <2>1. 3 \in 0 .. TxBuf - 1  BY JtagAssumption
  <2>2. <<>> \in CommandSeqs  BY EmptySeq DEF CommandSeqs
  <2>3. Clocks(<<>>) = <<>>  BY JoinedNone DEF Clocks
  <2>4. Part(3, <<>>) \in PartSet /\ Clocks(Part(3, <<>>).commands) = <<>>
    BY <2>1, <2>2, <2>3 DEF Part, PartSet
  <2>. QED  BY ONLY <2>4
<1>14. PICK y \in PartSet : y = Part(n, Mapped(K, pieces)) /\ Clocks(y.commands) = DataClocks(tdi)
  <2>1. PICK q \in CommandSeqs : q = Mapped(K, pieces)  BY <1>8
  <2>2. Part(n, q) \in PartSet /\ Part(n, q).commands = q  BY DEF Part, PartSet
  <2>. QED  BY ONLY <1>12, <2>1, <2>2
<1>15. Bytes(tdi, read) = Append(<<x>>, y)
  <2>1. Bytes(tdi, read) = <<x, y>>
    BY <1>1, <1>2, <1>7, <1>13, <1>14 DEF Bytes
  <2>. QED  BY <2>1
<1>16. <<x>> \in PartSeqs /\ PartClocks(<<x>>) = <<>>  BY <1>13, OnePart
<1>17. Append(<<x>>, y) \in PartSeqs
       /\ PartClocks(Append(<<x>>, y)) = Join(<<>>, DataClocks(tdi))
  BY ONLY y \in PartSet, <1>14, <1>16, PartClocksLaws
<1>18. Join(<<>>, DataClocks(tdi)) = DataClocks(tdi)  BY ClocksOfBits, JoinLaws
<1>. QED  BY ONLY <1>15, <1>17, <1>18

\* Reading what has been asked for adds no clocks.
LEMMA readusbIs ==
  \A n \in Nat : readusb(n) \in PartSeqs /\ PartClocks(readusb(n)) = <<>>
<1> SUFFICES ASSUME NEW n \in Nat PROVE readusb(n) \in PartSeqs /\ PartClocks(readusb(n)) = <<>>
  OBVIOUS
<1>1. PICK x : x = [len |-> 1, commands |-> <<>>, send |-> TRUE, read |-> n]  OBVIOUS
<1>2. 1 \in 0 .. TxBuf - 1  BY JtagAssumption
<1>3. <<>> \in CommandSeqs /\ Clocks(<<>>) = <<>>
  BY EmptySeq, JoinedNone DEF CommandSeqs, Clocks
<1>4. x \in PartSet /\ Clocks(x.commands) = <<>>  BY <1>1, <1>2, <1>3 DEF PartSet
<1>. QED  BY <1>1, <1>4, OnePart DEF readusb

\* Sending adds no clocks.
LEMMA mpsse_sendIs == mpsse_send \in PartSeqs /\ PartClocks(mpsse_send) = <<>>
<1>1. PICK x : x = [len |-> 0, commands |-> <<>>, send |-> TRUE, read |-> 0]  OBVIOUS
<1>2. 0 \in 0 .. TxBuf - 1  BY JtagAssumption
<1>3. <<>> \in CommandSeqs /\ Clocks(<<>>) = <<>>
  BY EmptySeq, JoinedNone DEF CommandSeqs, Clocks
<1>4. x \in PartSet /\ Clocks(x.commands) = <<>>  BY <1>1, <1>2, <1>3 DEF PartSet
<1>. QED  BY <1>1, <1>4, OnePart DEF mpsse_send

\* The clocks of sequences of parts.
LEMMA PartClocksFlatten ==
  ASSUME NEW G, G = [q \in PartSeqs |-> PartClocks(q)]
  PROVE  \A qq \in Seq(PartSeqs) :
           FlattenSeq(qq) \in PartSeqs /\ PartClocks(FlattenSeq(qq)) = Joined(G, qq)
<1>1. \A qq \in Seq(Seq(PartSet)) : FlattenSeq(qq) \in Seq(PartSet)  BY FlattenInSeq
<1>2. PICK M \in Maps(PartSet, Seq(ClockSet)) : M = ClocksOfPart  BY ClocksOfIsMap
<1>3. G = [q \in Seq(PartSet) |-> Joined(M, q)]  BY <1>2 DEF PartSeqs, PartClocks
<1>4. \A qq \in Seq(Seq(PartSet)) : Joined(M, FlattenSeq(qq)) = Joined(G, qq)
  BY ONLY M \in Maps(PartSet, Seq(ClockSet)), <1>3, JoinedFlatten
<1>. QED  BY ONLY <1>1, <1>2, <1>4 DEF PartSeqs, PartClocks

ChunkSeq(tdi, tdo, w, k) ==
  [i \in 1 .. k |-> Bytes(Piece(tdi, w, i), tdo) \o (IF tdo THEN readusb(TxBuf - 3) ELSE <<>>)]

\* Full chunks, each of which is read when all of it has been sent.
LEMMA ChunksAre ==
  ASSUME NEW tdi \in Seq(BitSet), NEW tdo \in BOOLEAN, NEW k \in Nat, NEW w,
         w = (TxBuf - 3) * ByteBits, k * w <= Len(tdi), NEW parts,
         parts = FlattenSeq(ChunkSeq(tdi, tdo, w, k))
  PROVE  parts \in PartSeqs /\ PartClocks(parts) = DataClocks(Cut(tdi, 0, k * w))
<1>1. PICK b \in Nat \ {0} : b = ByteBits  BY JtagAssumption
<1>2. PICK ch \in Nat \ {0} : ch = TxBuf - 3 /\ ch \in 0 .. TxBuf - 1  BY JtagAssumption
<1>3. w \in Nat \ {0} /\ w = ch * b
  <2>1. PICK c \in Nat : ch = c + 1  OBVIOUS
  <2>2. ch * b = c * b + b /\ c * b \in Nat  BY <2>1
  <2>. QED  BY <1>1, <1>2, <2>2
<1>4. PICK l \in Nat : l = Len(tdi) /\ k * w <= l  BY LenProperties
<1>5. PICK X : X = {p \in Seq(BitSet) : Len(p) = w}  OBVIOUS
<1>6. PICK pieces : pieces = PieceSeq(tdi, w, k)  OBVIOUS
<1>7. DOMAIN pieces = 1 .. k /\ \A i \in 1 .. k : pieces[i] = Piece(tdi, w, i)
  BY <1>6 DEF PieceSeq
<1>8. \A i \in 1 .. k : pieces[i] \in X
  <2> SUFFICES ASSUME NEW i \in 1 .. k PROVE Piece(tdi, w, i) \in X  BY <1>7
  <2>1. PICK d \in Nat : k = i + d  OBVIOUS
  <2>2. k * w = i * w + d * w /\ d * w \in Nat  BY <1>3, <2>1
  <2>8. PICK j \in Nat : i = j + 1 /\ i - 1 = j  OBVIOUS
  <2>9. i * w = j * w + w /\ j * w \in Nat  BY <1>3, <2>8
  <2>3. PICK a \in Nat : a = (i - 1) * w /\ i * w = a + w  BY <2>8, <2>9
  <2>4. PICK e \in Nat : e = i * w /\ e = a + w /\ e <= l
    BY ONLY <1>3, <1>4, <2>2, <2>3, l \in Nat, a \in Nat
  <2>10. e = (IF i * w < Len(tdi) THEN i * w ELSE Len(tdi))
    <3>1. PICK g \in Nat : g = i * w /\ g = e  BY <2>4
    <3>2. e <= l /\ l = Len(tdi)  BY <1>4, <2>4
    <3>. QED  BY ONLY <3>1, <3>2, l \in Nat
  <2>5. Piece(tdi, w, i) = SubSeq(tdi, a + 1, e)  BY ONLY <2>3, <2>10 DEF Piece
  <2>6. /\ SubSeq(tdi, a + 1, e) \in Seq(BitSet)
        /\ Len(SubSeq(tdi, a + 1, e)) = IF a < e THEN e - a ELSE 0
    BY <1>4, <2>4, PartInSeq
  <2>7. (IF a < e THEN e - a ELSE 0) = w
    <3>1. PICK v \in Nat \ {0} : v = w  BY <1>3
    <3>2. e = a + v  BY <2>4, <3>1
    <3>. QED  BY ONLY <3>1, <3>2, a \in Nat, v \in Nat \ {0}
  <2>. QED  BY <1>5, <2>5, <2>6, <2>7
<1>9. pieces \in Seq(Seq(BitSet)) /\ FlattenSeq(pieces) = Cut(tdi, 0, k * w)
  <2>1. pieces \in Seq(Seq(BitSet))
    BY ONLY <1>3, k \in Nat, tdi \in Seq(BitSet), <1>6, Pieces
  <2>2. FlattenSeq(pieces) = SubSeq(tdi, 1, PieceEnd(tdi, w, k))
    BY ONLY <1>3, k \in Nat, tdi \in Seq(BitSet), <1>6, Pieces
  <2>3. PieceEnd(tdi, w, k) = k * w  BY <1>3, <1>4 DEF PieceEnd
  <2>4. 0 + 1 = 1  OBVIOUS
  <2>. QED  BY <2>1, <2>2, <2>3, <2>4 DEF Cut
<1>10. PICK read : read = IF tdo THEN readusb(ch) ELSE <<>>  OBVIOUS
<1>11. read \in PartSeqs /\ PartClocks(read) = <<>>  BY <1>10, readusbIs, PartClocksLaws
<1>12. PICK K : K = [p \in X |-> Join(Bytes(p, tdo), read)]  OBVIOUS
<1>13. K \in [X -> PartSeqs] /\ \A p \in X : PartClocks(K[p]) = DataClocks(p)
  <2> SUFFICES ASSUME NEW p \in X
               PROVE  Join(Bytes(p, tdo), read) \in PartSeqs
                      /\ PartClocks(Join(Bytes(p, tdo), read)) = DataClocks(p)
    BY <1>12
  <2>1. p \in Seq(BitSet) /\ Len(p) = ch * ByteBits  BY <1>1, <1>3, <1>5
  <2>2. Bytes(p, tdo) \in PartSeqs /\ PartClocks(Bytes(p, tdo)) = DataClocks(p)
    BY ONLY <1>2, <2>1, tdo \in BOOLEAN, BytesIs
  <2>3. Join(DataClocks(p), <<>>) = DataClocks(p)  BY <2>1, ClocksOfBits, JoinLaws
  <2>. QED  BY ONLY <1>11, <2>2, <2>3, PartClocksLaws
<1>14. PICK qq : qq = Mapped(K, pieces)  OBVIOUS
<1>15. parts = FlattenSeq(qq)
  <2>1. ChunkSeq(tdi, tdo, w, k) = qq
    BY <1>2, <1>7, <1>8, <1>10, <1>12, <1>14 DEF Mapped, Join, ChunkSeq
  <2>. QED  BY <2>1
<1>16. qq \in Seq(PartSeqs)
  <2>1. pieces \in [1 .. k -> X]
    <3>1. pieces = [i \in 1 .. k |-> pieces[i]]  BY <1>6 DEF PieceSeq
    <3>. QED  BY <1>8, <3>1
  <2>2. pieces \in Seq(X)  BY ONLY k \in Nat, <2>1, FunctionIsSeq
  <2>. QED  BY ONLY <1>13, <1>14, <2>2, MapInSeq
<1>17. PICK G : G = [q \in PartSeqs |-> PartClocks(q)]  OBVIOUS
<1>18. PICK H : H = [p \in Seq(BitSet) |-> Mapped(DataClock, p)]  OBVIOUS
<1>19. parts \in PartSeqs /\ PartClocks(parts) = Joined(G, qq)
  BY ONLY <1>15, <1>16, <1>17, PartClocksFlatten
<1>20. Joined(G, qq) = Joined(H, pieces)
  <2>1. \A p \in X : p \in Seq(BitSet) /\ K[p] \in PartSeqs  BY <1>5, <1>13
  <2>2. \A p \in X : H[p] = G[K[p]]  BY <1>13, <1>17, <1>18, <2>1 DEF DataClocks
  <2>3. \A i \in DOMAIN pieces : H[pieces[i]] = G[K[pieces[i]]]  BY <1>7, <1>8, <2>2
  <2>. QED  BY ONLY <1>14, <2>3, JoinedMapped
<1>21. Mapped(DataClock, FlattenSeq(pieces)) = Joined(H, pieces)
  <2>1. pieces \in Seq(Seq(BitSet))  BY <1>9
  <2>2. DataClock \in Maps(BitSet, ClockSet)  BY ClockMaps
  <2>. QED  BY ONLY <1>18, <2>1, <2>2, MapFlatten
<1>. QED  BY ONLY <1>9, <1>19, <1>20, <1>21 DEF DataClocks

\* How a block is divided: chunks, whole bytes, and the rest of the bits.
LEMMA BlockSizes ==
  ASSUME NEW rem \in Nat, NEW k, NEW start, NEW n, NEW rb,
         k = IF rem \div ByteBits > TxBuf - 3
               THEN (rem \div ByteBits - 1) \div (TxBuf - 3) ELSE 0,
         start = k * (TxBuf - 3) * ByteBits,
         n = (rem - start) \div ByteBits,
         rb = rem % ByteBits
  PROVE  /\ k \in Nat /\ start = k * ((TxBuf - 3) * ByteBits) /\ start \in Nat
         /\ n \in 0 .. TxBuf - 3 /\ rb \in Nat /\ rb < ByteBits
         /\ rem - rb \in Nat /\ rem - rb = start + n * ByteBits
<1>1. PICK b \in Nat \ {0} : b = ByteBits  BY JtagAssumption
<1>2. PICK ch \in Nat \ {0} : ch = TxBuf - 3  BY JtagAssumption
<1>3. PICK r8 \in Nat : r8 = rem \div b /\ rem = (r8 * b) + rb /\ rb \in 0 .. b - 1
  <2>1. rem \div b \in Nat /\ rem % b \in 0 .. b - 1 /\ rem = ((rem \div b) * b) + (rem % b)
    BY DivMod
  <2>. QED  BY <1>1, <2>1
<1>4. PICK h \in Nat : k \in Nat /\ h = k * ch /\ h <= r8 /\ r8 - h <= ch
  <2>1. CASE r8 > ch
    <3>1. PICK a \in Nat : a = r8 - 1  BY <2>1
    <3>2. PICK q \in Nat : q = a \div ch /\ a = (q * ch) + (a % ch) /\ a % ch \in 0 .. ch - 1
      BY DivMod
    <3>3. k = q  BY <1>1, <1>2, <1>3, <2>1, <3>1, <3>2
    <3>4. PICK h \in Nat : h = q * ch  OBVIOUS
    <3>5. h <= a /\ a - h <= ch - 1  BY ONLY <3>2, <3>4, a \in Nat, h \in Nat, ch \in Nat \ {0}
    <3>6. h <= r8 /\ r8 - h <= ch  BY ONLY <3>1, <3>5, a \in Nat, h \in Nat, r8 \in Nat, ch \in Nat \ {0}
    <3>. QED  BY ONLY q \in Nat, h \in Nat, <3>3, <3>4, <3>6
  <2>2. CASE ~(r8 > ch)
    <3>1. k = 0  BY <1>1, <1>2, <1>3, <2>2
    <3>2. 0 * ch = 0  OBVIOUS
    <3>. QED  BY <2>2, <3>1, <3>2
  <2>. QED  BY <2>1, <2>2
<1>5. PICK d \in Nat : r8 = h + d /\ d <= ch  BY <1>4
<1>6. r8 * b = h * b + d * b /\ h * b \in Nat /\ d * b \in Nat  BY <1>5
<1>7. start = h * b  BY <1>1, <1>2, <1>4
<1>8. h * b = k * (ch * b)  BY <1>4
<1>9. rem - start = (d * b) + rb
  BY ONLY <1>3, <1>6, <1>7, rem \in Nat, rb \in 0 .. b - 1, b \in Nat \ {0}
<1>10. rb \in Nat /\ rb < b  BY <1>3
<1>11. n = d
  <2>1. ((d * b) + rb) \div b = d  BY ONLY <1>10, d \in Nat, b \in Nat \ {0}, DivUnique
  <2>. QED  BY ONLY <1>1, <1>9, <2>1, n = (rem - start) \div ByteBits
<1>12. rem - rb = start + d * b
  BY ONLY <1>3, <1>6, <1>7, <1>10, rem \in Nat
<1>13. rem - rb \in Nat
  <2>1. PICK u \in Nat : u = start  BY <1>6, <1>7
  <2>2. PICK v \in Nat : v = d * b  BY <1>6
  <2>. QED  BY ONLY <1>12, <2>1, <2>2, u \in Nat, v \in Nat
<1>14. start = k * ((TxBuf - 3) * ByteBits) /\ start \in Nat
  BY ONLY <1>1, <1>2, <1>6, <1>7, <1>8
<1>15. n \in 0 .. TxBuf - 3  BY ONLY <1>2, <1>5, <1>11, d \in Nat, ch \in Nat \ {0}
<1>16. rem - rb = start + n * ByteBits  BY ONLY <1>1, <1>11, <1>12
<1>17. rb < ByteBits  BY <1>1, <1>10
<1>. QED  BY ONLY <1>4, <1>10, <1>13, <1>14, <1>15, <1>16, <1>17

LastClock(tdi, last) == IF last THEN <<[tms |-> 1, tdi |-> Last(tdi)]>> ELSE <<>>

\* The clocks a block stands for: data with the level of TMS kept, the last bit
\* with TMS high.
BlockClocks(tdi, last) ==
  Join(DataClocks(Cut(tdi, 0, Rem(tdi, last))), LastClock(tdi, last))

\* The last bit of a block is one of its bits.
LEMMA LastClockInSeq ==
  ASSUME NEW tdi \in Seq(BitSet), tdi # <<>>, NEW last \in BOOLEAN
  PROVE  LastClock(tdi, last) \in ClockSeqs /\ Last(tdi) \in BitSet
<1>1. Last(tdi) \in BitSet
  <2>1. Len(tdi) \in 1 .. Len(tdi)  BY EmptySeq, LenProperties
  <2>. QED  BY <2>1, ElementOfSeq DEF Last
<1>2. [tms |-> 1, tdi |-> Last(tdi)] \in ClockSet  BY <1>1 DEF ClockSet
<1>3. <<[tms |-> 1, tdi |-> Last(tdi)]>> \in Seq(ClockSet)  BY <1>2
<1>. QED  BY <1>1, <1>3, JoinLaws DEF LastClock, ClockSeqs

\* Parts one behind the other.
LEMMA TwoParts ==
  ASSUME NEW p \in PartSeqs, NEW q \in PartSeqs, NEW a, NEW b,
         PartClocks(p) = a, PartClocks(q) = b
  PROVE  Join(p, q) \in PartSeqs /\ PartClocks(Join(p, q)) = Join(a, b)
BY PartClocksLaws

\* However a block is cut, the commands have the clocks it stands for.
LEMMA txrx_blockIs ==
  ASSUME NEW tdi \in Seq(BitSet), tdi # <<>>, NEW tdo \in BOOLEAN, NEW last \in BOOLEAN
  PROVE  /\ txrx_block(tdi, tdo, last) \in PartSeqs
         /\ PartClocks(txrx_block(tdi, tdo, last)) = BlockClocks(tdi, last)
<1> DEFINE When(condition, parts) == IF condition THEN parts ELSE <<>>
<1>1. PICK l \in Nat : l = Len(tdi) /\ l # 0  BY EmptySeq, LenProperties
<1>2. PICK rem \in Nat : rem = Rem(tdi, last) /\ rem <= l  BY <1>1 DEF Rem
<1>3. PICK k : k = IF rem \div ByteBits > TxBuf - 3
                     THEN (rem \div ByteBits - 1) \div (TxBuf - 3) ELSE 0
  OBVIOUS
<1>4. PICK start : start = k * (TxBuf - 3) * ByteBits  OBVIOUS
<1>5. PICK n : n = (rem - start) \div ByteBits  OBVIOUS
<1>6. PICK rb : rb = rem % ByteBits  OBVIOUS
<1>7. PICK w : w = (TxBuf - 3) * ByteBits  OBVIOUS
<1>8. /\ k \in Nat /\ start = k * w /\ start \in Nat /\ n \in 0 .. TxBuf - 3
      /\ rb \in Nat /\ rb < ByteBits /\ rem - rb \in Nat /\ rem - rb = start + n * ByteBits
  BY ONLY rem \in Nat, <1>3, <1>4, <1>5, <1>6, <1>7, BlockSizes
<1>9. PICK end \in Nat : end = rem - rb /\ end = start + n * ByteBits /\ start <= end
                         /\ end <= rem /\ rem = end + rb
  <2>1. PICK e \in Nat : e = rem - rb  BY <1>8
  <2>2. n * ByteBits \in Nat
    <3>1. n \in Nat /\ ByteBits \in Nat  BY <1>8, JtagAssumption
    <3>. QED  BY <3>1
  <2>3. e = start + n * ByteBits /\ start <= e  BY <1>8, <2>1, <2>2
  <2>4. e <= rem /\ rem = e + rb  BY ONLY <1>8, <2>1, rem \in Nat, e \in Nat
  <2>. QED  BY <2>1, <2>3, <2>4
<1>10. PICK p1 : p1 = FlattenSeq(ChunkSeq(tdi, tdo, w, k))  OBVIOUS
<1>11. PICK p2 : p2 = When(n > 0, Bytes(SubSeq(tdi, start + 1, rem - rb), tdo))  OBVIOUS
<1>12. PICK p3 : p3 = When(n >= TxBuf - 4 /\ tdo, readusb(n))  OBVIOUS
<1>13. PICK p4 : p4 = When(rb > 0, <<Part(2, <<>>),
                             Part(1, <<Data(SubSeq(tdi, rem - rb + 1, rem), tdo)>>)>>)
  OBVIOUS
<1>14. PICK p5 : p5 = When(last, <<Part(3, <<Command(<<1>>, <<LastBit(tdi, rb)>>, tdo)>>)>>)
  OBVIOUS
<1>15. PICK left : left = (IF n >= TxBuf - 4 THEN 0 ELSE n) + (IF rb = 0 THEN 0 ELSE 1)
                            + (IF last THEN 1 ELSE 0)
  OBVIOUS
<1>16. PICK p6 : p6 = When(tdo, readusb(left))  OBVIOUS
<1>17. txrx_block(tdi, tdo, last) = Join(Join(Join(Join(Join(p1, p2), p3), p4), p5), p6)
  <2> DEFINE rem0 == Rem(tdi, last)
             k0 == IF rem0 \div ByteBits > TxBuf - 3
                     THEN (rem0 \div ByteBits - 1) \div (TxBuf - 3) ELSE 0
             start0 == k0 * (TxBuf - 3) * ByteBits
             n0 == (rem0 - start0) \div ByteBits
             rb0 == rem0 % ByteBits
             left0 == (IF n0 >= TxBuf - 4 THEN 0 ELSE n0) + (IF rb0 = 0 THEN 0 ELSE 1)
                        + (IF last THEN 1 ELSE 0)
  <2>1. txrx_block(tdi, tdo, last) =
          Join(Join(Join(Join(Join(
            FlattenSeq(ChunkSeq(tdi, tdo, (TxBuf - 3) * ByteBits, k0)),
            When(n0 > 0, Bytes(SubSeq(tdi, start0 + 1, rem0 - rb0), tdo))),
            When(n0 >= TxBuf - 4 /\ tdo, readusb(n0))),
            When(rb0 > 0, <<Part(2, <<>>),
                            Part(1, <<Data(SubSeq(tdi, rem0 - rb0 + 1, rem0), tdo)>>)>>)),
            When(last, <<Part(3, <<Command(<<1>>, <<LastBit(tdi, rb0)>>, tdo)>>)>>)),
            When(tdo, readusb(left0)))
    BY DEF txrx_block, Join, ChunkSeq
  <2>2. rem = rem0  BY <1>2
  <2> HIDE DEF rem0
  <2>3. k = k0  BY ONLY <1>3, <2>2
  <2> HIDE DEF k0
  <2>4. start = start0  BY ONLY <1>4, <2>3
  <2> HIDE DEF start0
  <2>5. n = n0 /\ rb = rb0  BY ONLY <1>5, <1>6, <2>2, <2>4
  <2> HIDE DEF n0, rb0
  <2>6. left = left0  BY ONLY <1>15, <2>5
  <2> HIDE DEF left0
  <2>. QED
    BY ONLY <1>7, <1>10, <1>11, <1>12, <1>13, <1>14, <1>16, <2>1, <2>2, <2>3, <2>4, <2>5, <2>6
<1>18. PICK a \in ClockSeqs : a = DataClocks(Cut(tdi, 0, start))
         /\ p1 \in PartSeqs /\ PartClocks(p1) = a
  <2>1. k * w <= Len(tdi)  BY <1>1, <1>2, <1>8, <1>9
  <2>2. p1 \in PartSeqs /\ PartClocks(p1) = DataClocks(Cut(tdi, 0, k * w))
    BY ONLY tdi \in Seq(BitSet), tdo \in BOOLEAN, <1>7, <1>8, <1>10, <2>1, ChunksAre
  <2>3. PartClocks(p1) \in ClockSeqs  BY ONLY <2>2, PartClocksLaws
  <2>. QED  BY ONLY <1>8, <2>2, <2>3
<1>19. \A i, j \in Nat : j <= l => Cut(tdi, i, j) \in Seq(BitSet)
                                  /\ Len(Cut(tdi, i, j)) = (IF i < j THEN j - i ELSE 0)
  BY <1>1, PartInSeq DEF Cut
<1>20. PICK b \in ClockSeqs : b = DataClocks(Cut(tdi, start, end))
         /\ p2 \in PartSeqs /\ PartClocks(p2) = b
  <2>1. PICK q \in Seq(BitSet) : q = Cut(tdi, start, end) /\ Len(q) = n * ByteBits
    <3>1. start \in Nat /\ end \in Nat /\ end <= l  BY <1>2, <1>8, <1>9
    <3>2. PICK g \in Nat : g = n * ByteBits /\ end = start + g
      <4>1. n \in Nat /\ ByteBits \in Nat  BY <1>8, JtagAssumption
      <4>2. n * ByteBits \in Nat  BY <4>1
      <4>. QED  BY <1>9, <4>2
    <3>3. (IF start < end THEN end - start ELSE 0) = g  BY ONLY <3>1, <3>2, g \in Nat
    <3>. QED  BY <1>19, <3>1, <3>2, <3>3
  <2>2. p2 = IF n > 0 THEN Bytes(q, tdo) ELSE <<>>  BY <1>9, <1>11, <2>1 DEF Cut
  <2>3. CASE n > 0
    <3>1. n \in 0 .. TxBuf - 1  BY <1>8, JtagAssumption
    <3>2. Bytes(q, tdo) \in PartSeqs /\ PartClocks(Bytes(q, tdo)) = DataClocks(q)
      BY ONLY q \in Seq(BitSet), tdo \in BOOLEAN, <2>1, <3>1, BytesIs
    <3>. QED  BY <2>1, <2>2, <2>3, <3>2, ClocksOfBits
  <2>4. CASE ~(n > 0)
    <3>1. n = 0 /\ Len(q) = 0  BY <1>8, <2>1, <2>4, JtagAssumption
    <3>2. q = <<>>  BY <3>1, EmptySeq
    <3>3. DataClocks(<<>>) = <<>>  BY DEF DataClocks, Mapped
    <3>. QED  BY <2>1, <2>2, <2>4, <3>2, <3>3, PartClocksLaws, JoinLaws
  <2>. QED  BY <2>3, <2>4
<1>21. p3 \in PartSeqs /\ PartClocks(p3) = <<>>
  <2>1. n \in Nat  BY <1>8, JtagAssumption
  <2>. QED  BY <1>12, <2>1, readusbIs, PartClocksLaws
<1>22. PICK c \in ClockSeqs : c = DataClocks(Cut(tdi, end, rem))
         /\ p4 \in PartSeqs /\ PartClocks(p4) = c
  <2>1. PICK q \in Seq(BitSet) : q = Cut(tdi, end, rem) /\ Len(q) = rb
    <3>1. (IF end < rem THEN rem - end ELSE 0) = rb  BY <1>8, <1>9
    <3>. QED  BY <1>2, <1>19, <3>1
  <2>2. p4 = IF rb > 0 THEN <<Part(2, <<>>), Part(1, <<Data(q, tdo)>>)>> ELSE <<>>
    BY <1>9, <1>13, <2>1 DEF Cut
  <2>3. CASE rb > 0
    <3>1. PICK x \in CommandSet : x = Data(q, tdo) /\ x.clocks = DataClocks(q)  BY DataIs
    <3>2. <<x>> \in CommandSeqs /\ Clocks(<<x>>) = x.clocks  BY OneCommand
    <3>3. 1 \in 0 .. TxBuf - 1 /\ 2 \in 0 .. TxBuf - 1  BY JtagAssumption
    <3>4. <<>> \in CommandSeqs /\ Clocks(<<>>) = <<>>
      BY EmptySeq, JoinedNone DEF CommandSeqs, Clocks
    <3>5. PICK y : y = Part(2, <<>>)  OBVIOUS
    <3>6. PICK z : z = Part(1, <<x>>)  OBVIOUS
    <3>7. y \in PartSet /\ Clocks(y.commands) = <<>>  BY <3>3, <3>4, <3>5 DEF Part, PartSet
    <3>8. z \in PartSet /\ Clocks(z.commands) = DataClocks(q)
      BY <3>1, <3>2, <3>3, <3>6 DEF Part, PartSet
    <3>9. <<y>> \in PartSeqs /\ PartClocks(<<y>>) = <<>>  BY <3>7, OnePart
    <3>10. Append(<<y>>, z) \in PartSeqs
           /\ PartClocks(Append(<<y>>, z)) = Join(<<>>, DataClocks(q))
      BY ONLY <3>8, <3>9, PartClocksLaws
    <3>11. p4 = Append(<<y>>, z)  BY <2>2, <2>3, <3>1, <3>5, <3>6
    <3>12. DataClocks(q) \in ClockSeqs /\ Join(<<>>, DataClocks(q)) = DataClocks(q)
      BY ClocksOfBits, JoinLaws
    <3>. QED  BY ONLY <2>1, <3>10, <3>11, <3>12
  <2>4. CASE ~(rb > 0)
    <3>1. Len(q) = 0  BY <1>8, <2>1, <2>4
    <3>2. q = <<>>  BY <3>1, EmptySeq
    <3>3. DataClocks(<<>>) = <<>>  BY DEF DataClocks, Mapped
    <3>. QED  BY <2>1, <2>2, <2>4, <3>2, <3>3, PartClocksLaws, JoinLaws
  <2>. QED  BY <2>3, <2>4
<1>23. PICK d \in ClockSeqs : d = LastClock(tdi, last) /\ p5 \in PartSeqs /\ PartClocks(p5) = d
  <2>1. CASE last
    <3>1. PICK x : x = Command(<<1>>, <<Last(tdi)>>, tdo)  OBVIOUS
    <3>2. x.clocks = <<[tms |-> 1, tdi |-> Last(tdi)]>> /\ x.read = tdo
          /\ x = [clocks |-> x.clocks, read |-> x.read]
      BY <3>1 DEF Command
    <3>3. x.clocks = LastClock(tdi, last) /\ x.clocks \in ClockSeqs
      BY <2>1, <3>2, LastClockInSeq DEF LastClock
    <3>4. x \in CommandSet  BY <3>2, <3>3 DEF CommandSet
    <3>5. <<x>> \in CommandSeqs /\ Clocks(<<x>>) = x.clocks  BY <3>4, OneCommand
    <3>6. 3 \in 0 .. TxBuf - 1  BY JtagAssumption
    <3>7. Part(3, <<x>>) \in PartSet /\ Part(3, <<x>>).commands = <<x>>
      BY <3>5, <3>6 DEF Part, PartSet
    <3>8. p5 = <<Part(3, <<x>>)>>  BY <1>14, <2>1, <3>1 DEF LastBit
    <3>9. p5 \in PartSeqs /\ PartClocks(p5) = Clocks(<<x>>)  BY <3>7, <3>8, OnePart
    <3>. QED  BY <3>3, <3>5, <3>9
  <2>2. CASE ~last  BY <1>14, <2>2, PartClocksLaws, JoinLaws DEF LastClock
  <2>. QED  BY <2>1, <2>2
<1>24. p6 \in PartSeqs /\ PartClocks(p6) = <<>>
  <2>1. n \in Nat  BY <1>8, JtagAssumption
  <2>2. left \in Nat  BY <1>15, <2>1
  <2>. QED  BY <1>16, <2>2, readusbIs, PartClocksLaws
<1>25. PICK parts \in PartSeqs : parts = txrx_block(tdi, tdo, last)
         /\ PartClocks(parts) = Join(Join(Join(Join(Join(a, b), <<>>), c), d), <<>>)
  BY ONLY <1>17, <1>18, <1>20, <1>21, <1>22, <1>23, <1>24, TwoParts
<1>26. Join(Join(Join(Join(Join(a, b), <<>>), c), d), <<>>) = Join(Join(Join(a, b), c), d)
  <2>1. PICK ab \in ClockSeqs : ab = Join(a, b)  BY JoinLaws
  <2>2. PICK abc \in ClockSeqs : abc = Join(ab, c)  BY JoinLaws
  <2>3. PICK abcd \in ClockSeqs : abcd = Join(abc, d)  BY JoinLaws
  <2>4. Join(ab, <<>>) = ab /\ Join(abcd, <<>>) = abcd  BY JoinLaws
  <2>. QED  BY ONLY <2>1, <2>2, <2>3, <2>4
<1>27. Join(Join(a, b), c) = DataClocks(Cut(tdi, 0, rem))
  <2>1. PICK o \in Nat : o = 0 /\ o <= start  BY <1>8
  <2>2. o <= end /\ end <= l /\ start <= end /\ end <= rem /\ rem <= l
    BY ONLY <1>2, <1>9, <2>1, o \in Nat, end \in Nat, rem \in Nat, l \in Nat
  <2>3. Join(Cut(tdi, o, start), Cut(tdi, start, end)) = Cut(tdi, o, end)
        /\ Join(Cut(tdi, o, end), Cut(tdi, end, rem)) = Cut(tdi, o, rem)
    <3>1. start \in Nat /\ l = Len(tdi)  BY <1>1, <1>8
    <3>. QED
      BY ONLY tdi \in Seq(BitSet), o \in Nat, end \in Nat, rem \in Nat, <2>1, <2>2, <3>1, CutsMeet
  <2>4. PICK x \in Seq(BitSet) : x = Cut(tdi, o, start)
    <3>1. start \in Nat /\ start <= l  BY <1>8, <2>2
    <3>. QED  BY <1>19, <3>1
  <2>5. PICK y \in Seq(BitSet) : y = Cut(tdi, start, end)  BY <1>8, <1>19, <2>2
  <2>6. PICK z \in Seq(BitSet) : z = Cut(tdi, end, rem)  BY <1>19, <2>2
  <2>7. PICK xy \in Seq(BitSet) : xy = Cut(tdi, o, end)  BY <1>19, <2>2
  <2>8. DataClocks(xy) = Join(DataClocks(x), DataClocks(y))
        /\ DataClocks(Join(xy, z)) = Join(DataClocks(xy), DataClocks(z))
    BY ONLY <2>3, <2>4, <2>5, <2>6, <2>7, DataClocksJoin
  <2>. QED
    BY ONLY <1>18, <1>20, <1>22, <2>1, <2>3, <2>4, <2>5, <2>6, <2>7, <2>8
<1>. QED  BY ONLY <1>2, <1>23, <1>25, <1>26, <1>27 DEF BlockClocks

-----------------------------------------------------------------------------
(* The calls on the cable. *)

CallSet ==
  [do : {"set_tms"}, val : {0, 1}] \cup [do : {"flush", "flush_tms"}]
    \cup [do : {"txrx_block"}, tdi : Seq(BitSet) \ {<<>>}, tdo : BOOLEAN, last : BOOLEAN]
CallSeqs == Seq(CallSet)

\* The clocks a call stands for.
CallClock(q) ==
  IF q.do = "set_tms" THEN TmsClocks(<<q.val>>)
  ELSE IF q.do = "txrx_block" THEN BlockClocks(q.tdi, q.last) ELSE <<>>

IsJtag(c) == IsBuffered(c) /\ c.tms \in Seq(TmsSet) /\ Len(c.tms) <= Chunk

\* What has been called, but the chain has not seen.
Waiting(c) == Join(Clocks(c.usbuf), TmsClocks(c.tms))

Advances(c, d, added) ==
  \E e \in ClockSeqs : /\ Chain(d) = Chain(ClockAll(c, e))
                       /\ Join(e, Waiting(d)) = Join(Waiting(c), added)

\* No TMS bits, and bits one behind the other.
LEMMA TmsClocksLaws ==
  /\ TmsClocks(<<>>) = <<>>
  /\ \A p, q \in Seq(TmsSet) : TmsClocks(Join(p, q)) = Join(TmsClocks(p), TmsClocks(q))
<1>1. TmsClocks(<<>>) = <<>>  BY DEF TmsClocks, Mapped
<1>2. \A p, q \in Seq(TmsSet) : TmsClocks(Join(p, q)) = Join(TmsClocks(p), TmsClocks(q))
  BY ONLY ClockMaps, MapAll DEF TmsClocks
<1>. QED  BY <1>1, <1>2

\* What waits are clocks.
LEMMA WaitingInSeq == \A c : IsJtag(c) => Waiting(c) \in ClockSeqs
BY BufferInSeq, ClocksOfBits, JoinLaws DEF Waiting, IsJtag

\* A block stands for clocks.
LEMMA BlockClocksInSeq ==
  ASSUME NEW tdi \in Seq(BitSet), tdi # <<>>, NEW last \in BOOLEAN
  PROVE  BlockClocks(tdi, last) \in ClockSeqs
<1>1. PartClocks(txrx_block(tdi, FALSE, last)) = BlockClocks(tdi, last)
      /\ txrx_block(tdi, FALSE, last) \in PartSeqs
  BY txrx_blockIs
<1>. QED  BY <1>1, PartClocksLaws

\* A call stands for clocks.
LEMMA CallClockInSeq == \A q \in CallSet : CallClock(q) \in ClockSeqs
<1> SUFFICES ASSUME NEW q \in CallSet PROVE CallClock(q) \in ClockSeqs  OBVIOUS
<1>1. CASE q \in [do : {"set_tms"}, val : {0, 1}]
  <2>1. q.do = "set_tms" /\ <<q.val>> \in Seq(TmsSet)  BY <1>1 DEF TmsSet
  <2>. QED  BY <2>1, ClocksOfBits DEF CallClock
<1>2. CASE q \in [do : {"flush", "flush_tms"}]
  BY <1>2, JoinLaws DEF CallClock
<1>3. CASE q \in [do : {"txrx_block"}, tdi : Seq(BitSet) \ {<<>>}, tdo : BOOLEAN, last : BOOLEAN]
  BY <1>3, BlockClocksInSeq DEF CallClock
<1>. QED  BY <1>1, <1>2, <1>3 DEF CallSet

\* A call does what it stands for, now or later.
LEMMA IoMoves ==
  ASSUME NEW c, NEW q \in CallSet, IsJtag(c)
  PROVE  LET d == Io(c, q)
         IN  /\ IsJtag(d) /\ d.state = c.state /\ Advances(c, d, CallClock(q))
             /\ q.do = "flush_tms" => d.tms = <<>>
             /\ q.do = "flush" => d.tms = c.tms
<1>1. PICK isTms \in BOOLEAN : isTms = (q.do = "set_tms")  OBVIOUS
<1>2. PICK isRead : isRead = (q.do = "txrx_block" /\ q.tdo)  OBVIOUS
<1>3. PICK flushed \in BOOLEAN :
        flushed = (q.do \in {"flush_tms", "txrx_block"} \/ (isTms /\ Len(c.tms) + 1 > Chunk))
  OBVIOUS
<1>4. PICK p : p = IF flushed THEN tx_tms(c.tms) ELSE <<>>  OBVIOUS
<1>5. PICK b : b = CASE q.do = "txrx_block" -> txrx_block(q.tdi, q.tdo, q.last)
                     [] q.do = "flush" -> mpsse_send
                     [] OTHER -> <<>>
  OBVIOUS
<1>6. PICK r : r = AddAll(c, Join(p, b))  OBVIOUS
<1>7. PICK tms : tms = (IF flushed THEN <<>> ELSE c.tms) \o (IF isTms THEN <<q.val>> ELSE <<>>)
  OBVIOUS
<1>8. c.tms \in Seq(TmsSet) /\ Len(c.tms) \in Nat /\ Len(c.tms) <= Chunk /\ IsBuffered(c)
  BY LenProperties DEF IsJtag
<1>9. PICK a \in ClockSeqs : a = (IF flushed THEN TmsClocks(c.tms) ELSE <<>>)
                             /\ p \in PartSeqs /\ PartClocks(p) = a
  BY <1>4, <1>8, tx_tmsIs, ClocksOfBits, PartClocksLaws, JoinLaws
<1>10. PICK k \in ClockSeqs : k = (IF q.do = "txrx_block" THEN BlockClocks(q.tdi, q.last) ELSE <<>>)
                              /\ b \in PartSeqs /\ PartClocks(b) = k
  <2>1. CASE q.do = "txrx_block"
    <3>1. q \in [do : {"txrx_block"}, tdi : Seq(BitSet) \ {<<>>}, tdo : BOOLEAN, last : BOOLEAN]
      BY <2>1 DEF CallSet
    <3>2. PICK tdi \in Seq(BitSet), tdo \in BOOLEAN, last \in BOOLEAN :
            tdi # <<>> /\ tdi = q.tdi /\ tdo = q.tdo /\ last = q.last
      BY <3>1
    <3>3. b = txrx_block(tdi, tdo, last)  BY <1>5, <2>1, <3>2
    <3>4. b \in PartSeqs /\ PartClocks(b) = BlockClocks(tdi, last)
      BY <3>2, <3>3, txrx_blockIs
    <3>5. BlockClocks(tdi, last) \in ClockSeqs  BY <3>2, BlockClocksInSeq
    <3>. QED  BY ONLY <2>1, <3>2, <3>4, <3>5
  <2>2. CASE q.do # "txrx_block"
    <3>1. b = mpsse_send \/ b = <<>>  BY <1>5, <2>2
    <3>. QED  BY <2>2, <3>1, mpsse_sendIs, PartClocksLaws, JoinLaws
  <2>. QED  BY <2>1, <2>2
<1>11. Join(p, b) \in PartSeqs /\ PartClocks(Join(p, b)) = Join(a, k)
  BY ONLY <1>9, <1>10, TwoParts
<1>12. IsBuffered(r) /\ r.tms = c.tms /\ r.state = c.state /\ Moves(c, r, Join(a, k))
  BY ONLY <1>6, <1>8, <1>11, AddAllMoves
<1>13. PICK d : d = Io(c, q)  OBVIOUS
<1>14. \E rbuf : d = [r EXCEPT !.tms = tms, !.rbuf = rbuf]
  <2>1. d = [r EXCEPT !.tms = (IF flushed THEN <<>> ELSE r.tms) \o (IF isTms THEN <<q.val>> ELSE <<>>),
                      !.rbuf = IF isRead THEN Assemble(r.rbuf, Rem(q.tdi, q.last) % ByteBits, q.last)
                               ELSE r.rbuf]
    BY <1>1, <1>2, <1>3, <1>4, <1>5, <1>6, <1>13 DEF Io, Join
  <2>. QED  BY <1>7, <1>12, <2>1
<1>15. /\ IsCable(d) /\ d.tms = tms /\ d.usbuf = r.usbuf /\ d.bptr = r.bptr
       /\ d.state = r.state /\ Chain(d) = Chain(r)
  BY <1>12, <1>14 DEF IsBuffered, IsCable, Fields, Chain
<1>16. isTms => <<q.val>> \in Seq(TmsSet) /\ Len(<<q.val>>) = 1
  <2>1. isTms => q \in [do : {"set_tms"}, val : {0, 1}]  BY <1>1 DEF CallSet
  <2>. QED  BY <2>1 DEF TmsSet
<1>17. PICK x \in Seq(TmsSet) : x = IF isTms THEN <<q.val>> ELSE <<>>
  BY <1>16, EmptySeq
<1>18. PICK y \in Seq(TmsSet) : y = IF flushed THEN <<>> ELSE c.tms
  BY <1>8, EmptySeq
<1>19. tms = Join(y, x) /\ tms \in Seq(TmsSet) /\ Len(tms) = Len(y) + Len(x)
  BY <1>7, <1>17, <1>18, ConcatProperties DEF Join
<1>20. Len(tms) <= Chunk
  <2>1. Len(x) = (IF isTms THEN 1 ELSE 0)  BY <1>16, <1>17, EmptySeq
  <2>2. Len(y) = (IF flushed THEN 0 ELSE Len(c.tms))  BY <1>18, EmptySeq
  <2>3. 1 <= Chunk /\ Chunk \in Nat  BY JtagAssumption
  <2>4. PICK n \in Nat : n = Len(c.tms) /\ n <= Chunk  BY <1>8
  <2>5. ~flushed /\ isTms => ~(n + 1 > Chunk)  BY ONLY <1>3, <2>4
  <2>6. PICK chunk \in Nat : chunk = Chunk /\ 1 <= chunk  BY <2>3
  <2>7. ~flushed /\ isTms => n + 1 <= chunk  BY ONLY <2>5, <2>6, n \in Nat, chunk \in Nat
  <2>8. (IF flushed THEN 0 ELSE n) + (IF isTms THEN 1 ELSE 0) <= chunk
    <3>1. CASE flushed  BY ONLY <2>6, <3>1, chunk \in Nat
    <3>2. CASE ~flushed /\ isTms  BY ONLY <2>7, <3>2, n \in Nat, chunk \in Nat
    <3>3. CASE ~flushed /\ ~isTms  BY ONLY <2>4, <2>6, <3>3, n \in Nat, chunk \in Nat
    <3>. QED  BY ONLY <3>1, <3>2, <3>3
  <2>. QED  BY ONLY <1>19, <2>1, <2>2, <2>4, <2>6, <2>8
<1>21. IsJtag(d)  BY <1>12, <1>15, <1>19, <1>20 DEF IsJtag, IsBuffered
<1>22. Join(Join(a, k), TmsClocks(tms)) = Join(TmsClocks(c.tms), CallClock(q))
  <2>1. PICK u \in ClockSeqs : u = TmsClocks(c.tms)  BY <1>8, ClocksOfBits
  <2>2. PICK v \in ClockSeqs : v = TmsClocks(x)  BY ClocksOfBits
  <2>3. PICK z \in ClockSeqs : z = TmsClocks(y)  BY ClocksOfBits
  <2>4. TmsClocks(tms) = Join(z, v)  BY ONLY <1>17, <1>18, <1>19, <2>2, <2>3, TmsClocksLaws
  <2>5. Join(a, z) = u
    <3>1. CASE flushed  BY <1>9, <1>18, <2>1, <2>3, <3>1, TmsClocksLaws, JoinLaws
    <3>2. CASE ~flushed  BY <1>9, <1>18, <2>1, <2>3, <3>2, TmsClocksLaws, JoinLaws
    <3>. QED  BY <3>1, <3>2
  <2>6. k = <<>> \/ (z = <<>> /\ v = <<>>)
    <3>1. q.do = "txrx_block" => flushed /\ ~isTms  BY <1>1, <1>3
    <3>2. q.do = "txrx_block" => y = <<>> /\ x = <<>>  BY <1>17, <1>18, <3>1
    <3>. QED  BY <1>10, <2>2, <2>3, <3>2, TmsClocksLaws
  <2>7. CallClock(q) = Join(k, v)
    <3>1. q.do # "set_tms" => v = <<>>  BY <1>1, <1>17, <2>2, TmsClocksLaws
    <3>2. q.do = "set_tms" => k = <<>> /\ v = CallClock(q)
      BY <1>1, <1>10, <1>17, <2>2 DEF CallClock
    <3>3. q.do # "set_tms" => k = CallClock(q)  BY <1>10 DEF CallClock
    <3>. QED  BY <3>1, <3>2, <3>3, JoinLaws
  <2>8. Join(Join(a, k), Join(z, v)) = Join(u, Join(k, v))
    <3>1. CASE k = <<>>
      <4>1. Join(a, k) = a /\ Join(k, v) = v  BY <3>1, JoinLaws
      <4>2. Join(a, Join(z, v)) = Join(Join(a, z), v)  BY JoinLaws
      <4>. QED  BY ONLY <2>5, <4>1, <4>2
    <3>2. CASE z = <<>> /\ v = <<>>
      <4>1. a = u  BY <2>5, <3>2, JoinLaws
      <4>2. Join(z, v) = <<>> /\ Join(k, v) = k  BY <3>2, JoinLaws
      <4>3. Join(Join(a, k), <<>>) = Join(a, k)  BY JoinLaws
      <4>. QED  BY ONLY <4>1, <4>2, <4>3
    <3>. QED  BY <2>6, <3>1, <3>2
  <2>. QED  BY ONLY <2>1, <2>4, <2>7, <2>8
<1>23. Advances(c, d, CallClock(q))
  <2>1. PICK e \in ClockSeqs : /\ Chain(r) = Chain(ClockAll(c, e))
                               /\ Join(e, Clocks(r.usbuf)) = Join(Clocks(c.usbuf), Join(a, k))
    BY <1>12 DEF Moves
  <2>2. PICK g \in ClockSeqs : g = Clocks(c.usbuf)  BY <1>8, BufferInSeq
  <2>3. PICK h \in ClockSeqs : h = Clocks(r.usbuf)  BY <1>12, BufferInSeq
  <2>4. PICK m \in ClockSeqs : m = Join(a, k)  BY JoinLaws
  <2>5. PICK v \in ClockSeqs : v = TmsClocks(tms)  BY <1>19, ClocksOfBits
  <2>6. PICK u \in ClockSeqs : u = TmsClocks(c.tms)  BY <1>8, ClocksOfBits
  <2>7. PICK z \in ClockSeqs : z = CallClock(q)  BY CallClockInSeq
  <2>8. Join(e, Join(h, v)) = Join(Join(g, u), z)
    <3>1. Join(e, h) = Join(g, m) /\ Join(m, v) = Join(u, z)
      BY ONLY <1>22, <2>1, <2>2, <2>3, <2>4, <2>5, <2>6, <2>7
    <3>2. Join(e, Join(h, v)) = Join(Join(e, h), v)  BY JoinLaws
    <3>3. Join(Join(g, m), v) = Join(g, Join(m, v))  BY JoinLaws
    <3>4. Join(g, Join(u, z)) = Join(Join(g, u), z)  BY JoinLaws
    <3>. QED  BY ONLY <3>1, <3>2, <3>3, <3>4
  <2>9. Waiting(d) = Join(h, v) /\ Waiting(c) = Join(g, u)
    BY ONLY <1>15, <2>2, <2>3, <2>5, <2>6 DEF Waiting
  <2>10. Chain(d) = Chain(ClockAll(c, e))  BY ONLY <1>15, <2>1
  <2>. QED  BY ONLY e \in ClockSeqs, <2>7, <2>8, <2>9, <2>10 DEF Advances
<1>24. q.do = "flush_tms" => tms = <<>>
  <2>1. q.do = "flush_tms" => flushed /\ ~isTms  BY <1>1, <1>3
  <2>2. <<>> \o <<>> = <<>>  OBVIOUS
  <2>. QED  BY <1>7, <2>1, <2>2
<1>25. q.do = "flush" => tms = c.tms
  <2>1. q.do = "flush" => ~flushed /\ ~isTms  BY <1>1, <1>3
  <2>2. c.tms \o <<>> = c.tms  BY <1>8, ConcatEmptySeq
  <2>. QED  BY <1>7, <2>1, <2>2
<1>. QED  BY ONLY <1>12, <1>13, <1>15, <1>21, <1>23, <1>24, <1>25

\* Two calls, one after the other.
LEMMA AdvancesOn ==
  ASSUME NEW a \in ClockSeqs, NEW b \in ClockSeqs, NEW x, NEW y, NEW z,
         IsJtag(x), IsJtag(y), IsJtag(z), Advances(x, y, a), Advances(y, z, b)
  PROVE  Advances(x, z, Join(a, b))
<1>1. PICK e \in ClockSeqs : /\ Chain(y) = Chain(ClockAll(x, e))
                             /\ Join(e, Waiting(y)) = Join(Waiting(x), a)
  BY DEF Advances
<1>2. PICK f \in ClockSeqs : /\ Chain(z) = Chain(ClockAll(y, f))
                             /\ Join(f, Waiting(z)) = Join(Waiting(y), b)
  BY DEF Advances
<1>3. PICK u \in ClockSeqs : u = Waiting(x)  BY WaitingInSeq
<1>4. PICK v \in ClockSeqs : v = Waiting(y)  BY WaitingInSeq
<1>5. PICK w \in ClockSeqs : w = Waiting(z)  BY WaitingInSeq
<1>6. Join(e, f) \in ClockSeqs  BY JoinLaws
<1>7. Join(Join(e, f), w) = Join(u, Join(a, b))
  <2>1. Join(e, v) = Join(u, a) /\ Join(f, w) = Join(v, b)  BY <1>1, <1>2, <1>3, <1>4, <1>5
  <2>2. Join(Join(e, f), w) = Join(e, Join(f, w))  BY JoinLaws
  <2>3. Join(e, Join(v, b)) = Join(Join(e, v), b)  BY JoinLaws
  <2>4. Join(Join(u, a), b) = Join(u, Join(a, b))  BY JoinLaws
  <2>. QED  BY ONLY <2>1, <2>2, <2>3, <2>4
<1>8. Chain(z) = Chain(ClockAll(x, Join(e, f)))
  <2>1. IsCable(ClockAll(x, e)) /\ IsCable(y)  BY ClockAllKeeps DEF IsJtag, IsBuffered
  <2>2. Chain(ClockAll(y, f)) = Chain(ClockAll(ClockAll(x, e), f))
    BY ONLY f \in ClockSeqs, <1>1, <2>1, ClockAllAlike
  <2>3. ClockAll(x, Join(e, f)) = ClockAll(ClockAll(x, e), f)  BY ClockAllJoin
  <2>. QED  BY ONLY <1>2, <2>2, <2>3
<1>. QED  BY <1>3, <1>5, <1>6, <1>7, <1>8 DEF Advances

CallClockOf == [q \in CallSet |-> CallClock(q)]
CallClocks(calls) == Joined(CallClockOf, calls)

\* The clocks of no call, of one more, and of two sequences of calls.
LEMMA CallClocksLaws ==
  /\ CallClocks(<<>>) = <<>> /\ <<>> \in CallSeqs
  /\ \A p \in CallSeqs : CallClocks(p) \in ClockSeqs
  /\ \A p \in CallSeqs : \A x \in CallSet :
       /\ Append(p, x) \in CallSeqs
       /\ CallClocks(Append(p, x)) = Join(CallClocks(p), CallClock(x))
  /\ \A p, q \in CallSeqs :
       Join(p, q) \in CallSeqs /\ CallClocks(Join(p, q)) = Join(CallClocks(p), CallClocks(q))
<1>1. CallClockOf \in Maps(CallSet, Seq(ClockSet))
      /\ \A x \in CallSet : CallClockOf[x] = CallClock(x)
  BY CallClockInSeq DEF CallClockOf, Maps, ClockSeqs
<1>2. CallClocks(<<>>) = <<>>  BY JoinedNone DEF CallClocks
<1>3. \A p \in CallSeqs : CallClocks(p) \in ClockSeqs
  BY ONLY <1>1, JoinedAll DEF CallClocks, CallSeqs, ClockSeqs
<1>4. \A p \in CallSeqs : \A x \in CallSet :
        CallClocks(Append(p, x)) = Join(CallClocks(p), CallClock(x))
  BY ONLY <1>1, JoinedAll DEF CallClocks, CallSeqs
<1>5. \A p, q \in CallSeqs : CallClocks(Join(p, q)) = Join(CallClocks(p), CallClocks(q))
  BY ONLY <1>1, JoinedAll DEF CallClocks, CallSeqs
<1>6. \A p \in CallSeqs : \A x \in CallSet : Append(p, x) \in CallSeqs
  BY AppendProperties DEF CallSeqs
<1>7. \A p, q \in CallSeqs : Join(p, q) \in CallSeqs  BY ConcatProperties DEF CallSeqs, Join
<1>8. <<>> \in CallSeqs  BY EmptySeq DEF CallSeqs
<1>. QED  BY ONLY <1>2, <1>3, <1>4, <1>5, <1>6, <1>7, <1>8

\* A single call.
LEMMA OneCall ==
  ASSUME NEW x \in CallSet
  PROVE  <<x>> \in CallSeqs /\ CallClocks(<<x>>) = CallClock(x)
<1>1. <<x>> = Append(<<>>, x)  OBVIOUS
<1>2. PICK k \in ClockSeqs : k = CallClock(x)  BY CallClockInSeq
<1>3. Join(<<>>, k) = k  BY JoinLaws
<1>. QED  BY <1>1, <1>2, <1>3, CallClocksLaws

\* Calls do what they stand for, now or later.
LEMMA IoAllMoves ==
  ASSUME NEW c, IsJtag(c)
  PROVE  \A calls \in CallSeqs :
           LET d == IoAll(c, calls)
           IN  IsJtag(d) /\ d.state = c.state /\ Advances(c, d, CallClocks(calls))
<1> DEFINE Keeps(d) == IsJtag(d) /\ d.state = c.state
           P == {calls \in CallSeqs : /\ Keeps(IoAll(c, calls))
                                      /\ Advances(c, IoAll(c, calls), CallClocks(calls))}
<1>1. <<>> \in P
  <2>1. IoAll(c, <<>>) = c  BY IoNone
  <2>2. PICK u \in ClockSeqs : u = Waiting(c)  BY WaitingInSeq
  <2>3. Join(<<>>, u) = Join(u, <<>>) /\ <<>> \in ClockSeqs  BY JoinLaws
  <2>4. ClockAll(c, <<>>) = c  BY ClockNone
  <2>5. Advances(c, c, <<>>)  BY <2>2, <2>3, <2>4 DEF Advances
  <2>. QED  BY <2>1, <2>5, CallClocksLaws
<1>2. \A q \in Seq(CallSet) : \A x \in CallSet : q \in P => Append(q, x) \in P
  <2> SUFFICES ASSUME NEW q \in Seq(CallSet), NEW x \in CallSet, q \in P
               PROVE  Append(q, x) \in P
    OBVIOUS
  <2>1. PICK d : d = IoAll(c, q) /\ IoAll(c, Append(q, x)) = Io(d, x)  BY IoAppend
  <2>2. q \in CallSeqs  BY DEF CallSeqs
  <2>3. PICK a \in ClockSeqs : a = CallClocks(q)  BY <2>2, CallClocksLaws
  <2>4. PICK b \in ClockSeqs : b = CallClock(x)  BY CallClockInSeq
  <2>5. Keeps(d) /\ Advances(c, d, a)  BY <2>1, <2>3
  <2>6. PICK e : e = Io(d, x)  OBVIOUS
  <2>7. IsJtag(e) /\ e.state = d.state /\ Advances(d, e, b)
    BY ONLY <2>4, <2>5, <2>6, x \in CallSet, IoMoves
  <2>8. Advances(c, e, Join(a, b))
    BY ONLY a \in ClockSeqs, b \in ClockSeqs, IsJtag(c), <2>5, <2>7, AdvancesOn
  <2>9. CallClocks(Append(q, x)) = Join(a, b) /\ Append(q, x) \in CallSeqs
    BY ONLY <2>2, <2>3, <2>4, x \in CallSet, CallClocksLaws
  <2>. QED  BY <2>1, <2>5, <2>6, <2>7, <2>8, <2>9
<1> HIDE DEF P
<1>3. \A q \in Seq(CallSet) : q \in P  BY <1>1, <1>2, SeqInduction
<1>. QED  BY <1>3 DEF P, CallSeqs

\* What a function of Jtag does that consists of these calls.
LEMMA PerformMoves ==
  ASSUME NEW c, IsJtag(c), NEW calls \in CallSeqs, NEW state
  PROVE  LET d == Perform(c, calls, state)
         IN  IsJtag(d) /\ d.state = state /\ Advances(c, d, CallClocks(calls))
<1>1. PICK b : b = [c EXCEPT !.rbuf = <<>>]  OBVIOUS
<1>2. /\ IsCable(b) /\ b.tms = c.tms /\ b.usbuf = c.usbuf /\ b.bptr = c.bptr
      /\ Chain(b) = Chain(c)
  BY <1>1 DEF IsJtag, IsBuffered, IsCable, Fields, Chain
<1>3. IsJtag(b)  BY <1>2 DEF IsJtag, IsBuffered
<1>4. PICK r : r = IoAll(b, calls)  OBVIOUS
<1>5. IsJtag(r) /\ Advances(b, r, CallClocks(calls))  BY <1>3, <1>4, IoAllMoves
<1>6. PICK d : d = Perform(c, calls, state) /\ d = [r EXCEPT !.state = state]
  BY <1>1, <1>4 DEF Perform
<1>7. /\ IsCable(d) /\ d.tms = r.tms /\ d.usbuf = r.usbuf /\ d.bptr = r.bptr
      /\ Chain(d) = Chain(r) /\ d.state = state
  BY <1>5, <1>6 DEF IsJtag, IsBuffered, IsCable, Fields, Chain
<1>8. IsJtag(d)  BY <1>5, <1>7 DEF IsJtag, IsBuffered
<1>9. Waiting(d) = Waiting(r) /\ Waiting(b) = Waiting(c)  BY <1>2, <1>7 DEF Waiting
<1>10. \A q \in ClockSeqs : Chain(ClockAll(b, q)) = Chain(ClockAll(c, q))
  BY <1>2, ClockAllAlike DEF IsJtag, IsBuffered
<1>11. Advances(c, d, CallClocks(calls))
  BY ONLY <1>5, <1>7, <1>9, <1>10 DEF Advances
<1>. QED  BY <1>6, <1>7, <1>8, <1>11

\* After flush_tms and flush nothing waits: the chain has seen all of it.
LEMMA FlushMoves ==
  ASSUME NEW b, IsJtag(b)
  PROVE  LET q == IoAll(b, flush_tms \o flush)
         IN  /\ IsJtag(q) /\ q.state = b.state /\ q.tms = <<>> /\ q.usbuf = <<>>
             /\ Waiting(q) = <<>> /\ Chain(q) = Chain(ClockAll(b, Waiting(b)))
<1>1. PICK x \in CallSet : x = [do |-> "flush_tms"]  BY DEF CallSet
<1>2. PICK y \in CallSet : y = [do |-> "flush"]  BY DEF CallSet
<1>3. PICK p : p = Io(b, x)  OBVIOUS
<1>4. PICK q : q = Io(p, y)  OBVIOUS
<1>5. CallClock(x) = <<>> /\ CallClock(y) = <<>> /\ x.do = "flush_tms" /\ y.do = "flush"
  BY <1>1, <1>2 DEF CallClock
<1>6. IsJtag(p) /\ p.state = b.state /\ Advances(b, p, <<>>) /\ p.tms = <<>>
  BY <1>3, <1>5, IoMoves
<1>7. IsJtag(q) /\ q.state = p.state /\ Advances(p, q, <<>>) /\ q.tms = <<>>
  BY <1>4, <1>5, <1>6, IoMoves
<1>8. q.usbuf = <<>>
  <2>1. PICK part : part = [len |-> 0, commands |-> <<>>, send |-> TRUE, read |-> 0]  OBVIOUS
  <2>2. part \in PartSet /\ part.send
    <3>1. 0 \in 0 .. TxBuf - 1  BY JtagAssumption
    <3>2. <<>> \in CommandSeqs  BY EmptySeq DEF CommandSeqs
    <3>. QED  BY <2>1, <3>1, <3>2 DEF PartSet
  <2>3. mpsse_send = Append(<<>>, part)  BY <2>1 DEF mpsse_send
  <2>4. <<>> \o mpsse_send = mpsse_send
    <3>1. mpsse_send \in Seq(PartSet)  BY mpsse_sendIs DEF PartSeqs
    <3>. QED  BY <3>1, ConcatEmptySeq
  <2>5. <<>> \in Seq(PartSet)  BY EmptySeq
  <2>6. AddAll(p, mpsse_send) = mpsse_add_cmd(p, part)
    <3>1. AddAll(p, Append(<<>>, part)) = mpsse_add_cmd(AddAll(p, <<>>), part)
      BY ONLY <2>2, <2>5, AddAppend
    <3>2. AddAll(p, <<>>) = p  BY AddNone
    <3>. QED  BY ONLY <2>3, <3>1, <3>2
  <2>7. PICK r : r = AddAll(p, mpsse_send)  OBVIOUS
  <2>8. r.usbuf = <<>> /\ IsBuffered(r)
    BY <1>6, <2>2, <2>6, <2>7, AddMoves DEF IsJtag
  <2>9. \E tms, rbuf : q = [r EXCEPT !.tms = tms, !.rbuf = rbuf]
    <3>1. q = [r EXCEPT !.tms = r.tms \o <<>>, !.rbuf = r.rbuf]
      BY <1>2, <1>4, <2>4, <2>7 DEF Io
    <3>. QED  BY <3>1
  <2>. QED  BY <2>8, <2>9 DEF IsBuffered, IsCable, Fields
<1>9. Advances(b, q, <<>>)
  <2>1. <<>> \in ClockSeqs /\ Join(<<>>, <<>>) = <<>>  BY JoinLaws
  <2>. QED  BY <1>6, <1>7, <2>1, AdvancesOn
<1>10. PICK e \in ClockSeqs : Chain(q) = Chain(ClockAll(b, e))
                              /\ Join(e, Waiting(q)) = Join(Waiting(b), <<>>)
  BY <1>9 DEF Advances
<1>11. Waiting(q) = <<>>
  <2>1. Clocks(<<>>) = <<>>  BY JoinedNone DEF Clocks
  <2>2. Join(<<>>, <<>>) = <<>>  BY JoinLaws
  <2>. QED  BY <1>7, <1>8, <2>1, <2>2, TmsClocksLaws DEF Waiting
<1>12. e = Waiting(b)
  <2>1. Waiting(b) \in ClockSeqs  BY WaitingInSeq
  <2>. QED  BY <1>10, <1>11, <2>1, JoinLaws
<1>13. IoAll(b, flush_tms \o flush) = q
  <2>1. flush_tms \o flush = Append(<<x>>, y)  BY <1>1, <1>2 DEF flush_tms, flush
  <2>2. <<x>> \in Seq(CallSet) /\ <<>> \in Seq(CallSet) /\ <<x>> = Append(<<>>, x)  OBVIOUS
  <2>3. IoAll(b, Append(<<x>>, y)) = Io(IoAll(b, <<x>>), y)
    BY ONLY <2>2, y \in CallSet, IoAppend
  <2>4. IoAll(b, Append(<<>>, x)) = Io(IoAll(b, <<>>), x)
    BY ONLY <2>2, x \in CallSet, IoAppend
  <2>5. IoAll(b, <<>>) = b  BY IoNone
  <2>. QED  BY ONLY <1>3, <1>4, <2>1, <2>2, <2>3, <2>4, <2>5
<1>. QED  BY ONLY <1>6, <1>7, <1>8, <1>10, <1>11, <1>12, <1>13

\* The same for a function of Jtag that does nothing else.
LEMMA DrainMoves ==
  ASSUME NEW c, IsJtag(c), NEW state
  PROVE  LET d == Perform(c, flush_tms \o flush, state)
         IN  /\ IsJtag(d) /\ d.state = state
             /\ Waiting(d) = <<>> /\ Chain(d) = Chain(ClockAll(c, Waiting(c)))
<1>1. PICK b : b = [c EXCEPT !.rbuf = <<>>]  OBVIOUS
<1>2. /\ IsCable(b) /\ b.tms = c.tms /\ b.usbuf = c.usbuf /\ b.bptr = c.bptr
      /\ Chain(b) = Chain(c)
  BY <1>1 DEF IsJtag, IsBuffered, IsCable, Fields, Chain
<1>3. IsJtag(b)  BY <1>2 DEF IsJtag, IsBuffered
<1>4. PICK q : q = IoAll(b, flush_tms \o flush)  OBVIOUS
<1>5. /\ IsJtag(q) /\ q.tms = <<>> /\ q.usbuf = <<>>
      /\ Waiting(q) = <<>> /\ Chain(q) = Chain(ClockAll(b, Waiting(b)))
  BY <1>3, <1>4, FlushMoves
<1>6. Waiting(b) = Waiting(c)  BY <1>2 DEF Waiting
<1>7. Chain(ClockAll(b, Waiting(b))) = Chain(ClockAll(c, Waiting(c)))
  <2>1. Waiting(c) \in ClockSeqs  BY WaitingInSeq
  <2>. QED  BY <1>2, <1>6, <2>1, ClockAllAlike DEF IsJtag, IsBuffered
<1>8. PICK d : d = Perform(c, flush_tms \o flush, state) /\ d = [q EXCEPT !.state = state]
  BY <1>1, <1>4 DEF Perform
<1>9. /\ IsCable(d) /\ d.tms = q.tms /\ d.usbuf = q.usbuf /\ d.bptr = q.bptr
       /\ Chain(d) = Chain(q) /\ d.state = state
  BY <1>5, <1>8 DEF IsJtag, IsBuffered, IsCable, Fields, Chain
<1>10. IsJtag(d)  BY <1>5, <1>9 DEF IsJtag, IsBuffered
<1>11. Waiting(d) = Waiting(q)  BY <1>9 DEF Waiting
<1>. QED  BY ONLY <1>5, <1>7, <1>8, <1>9, <1>10, <1>11

-----------------------------------------------------------------------------
(* The chain when everything has arrived. *)

Ideal(c) == ClockAll(c, Waiting(c))

\* The chain keeps its fields.
LEMMA IdealIsCable == \A c : IsJtag(c) => IsCable(Ideal(c))
BY WaitingInSeq, ClockAllKeeps DEF Ideal, IsJtag, IsBuffered

\* A function of Jtag brings the chain where its clocks lead.
LEMMA AdvancesIdeal ==
  ASSUME NEW c, NEW d, IsJtag(c), IsJtag(d), NEW k \in ClockSeqs, Advances(c, d, k)
  PROVE  Chain(Ideal(d)) = Chain(ClockAll(Ideal(c), k))
<1>1. PICK e \in ClockSeqs : /\ Chain(d) = Chain(ClockAll(c, e))
                             /\ Join(e, Waiting(d)) = Join(Waiting(c), k)
  BY DEF Advances
<1>2. PICK u \in ClockSeqs : u = Waiting(c)  BY WaitingInSeq
<1>3. PICK v \in ClockSeqs : v = Waiting(d)  BY WaitingInSeq
<1>4. IsCable(d) /\ IsCable(ClockAll(c, e))  BY ClockAllKeeps DEF IsJtag, IsBuffered
<1>5. Chain(ClockAll(d, v)) = Chain(ClockAll(ClockAll(c, e), v))
  BY ONLY v \in ClockSeqs, <1>1, <1>4, ClockAllAlike
<1>6. ClockAll(ClockAll(c, e), v) = ClockAll(c, Join(e, v))  BY ClockAllJoin
<1>7. ClockAll(c, Join(u, k)) = ClockAll(ClockAll(c, u), k)  BY ClockAllJoin
<1>. QED  BY ONLY <1>1, <1>2, <1>3, <1>5, <1>6, <1>7 DEF Ideal

\* The same for a sequence of calls.
LEMMA PerformIdeal ==
  ASSUME NEW c, IsJtag(c), NEW calls \in CallSeqs, NEW state, NEW d, d = Perform(c, calls, state)
  PROVE  /\ IsJtag(d) /\ d.state = state
         /\ Chain(Ideal(d)) = Chain(ClockAll(Ideal(c), CallClocks(calls)))
<1>1. IsJtag(d) /\ d.state = state /\ Advances(c, d, CallClocks(calls))  BY PerformMoves
<1>2. CallClocks(calls) \in ClockSeqs  BY CallClocksLaws
<1>. QED  BY <1>1, <1>2, AdvancesIdeal

-----------------------------------------------------------------------------
(* The walks of setTapState. *)

HopRun(state, target, f, n) ==
  f = [i \in 0 .. n |-> IF i = 0 THEN state ELSE Hop(f[i - 1], target).state]

\* The function in the definition of setTapState exists.
LEMMA HopRunExists == \A state, target : \A n \in Nat : \E f : HopRun(state, target, f, n)
<1> SUFFICES ASSUME NEW state, NEW target
             PROVE  \A n \in Nat : \E f : HopRun(state, target, f, n)
  OBVIOUS
<1> DEFINE S == {n \in Nat : \E f : HopRun(state, target, f, n)}
<1>1. 0 \in S
  <2>1. PICK f : f = [i \in 0 .. 0 |-> state]  OBVIOUS
  <2>2. \A i \in 0 .. 0 : i = 0  OBVIOUS
  <2>3. f = [i \in 0 .. 0 |-> IF i = 0 THEN state ELSE Hop(f[i - 1], target).state]
    BY <2>1, <2>2
  <2>. QED  BY <2>3 DEF HopRun
<1>2. ASSUME NEW n \in Nat, n \in S PROVE n + 1 \in S
  <2>1. PICK f : f = [i \in 0 .. n |-> IF i = 0 THEN state ELSE Hop(f[i - 1], target).state]
    BY <1>2 DEF HopRun
  <2>2. PICK v : v = Hop(f[n], target).state  OBVIOUS
  <2>3. PICK g : g = [i \in 0 .. n + 1 |-> IF i = n + 1 THEN v ELSE f[i]]  OBVIOUS
  <2>4. ASSUME NEW i \in 0 .. n + 1
        PROVE  g[i] = IF i = 0 THEN state ELSE Hop(g[i - 1], target).state
    <3>1. CASE i = n + 1
      <4>1. i # 0 /\ i - 1 = n /\ g[i] = v  BY <2>3, <3>1
      <4>2. g[n] = f[n]  BY <2>3
      <4>. QED  BY <2>2, <3>1, <4>1, <4>2
    <3>2. CASE i # n + 1
      <4>1. i \in 0 .. n /\ g[i] = f[i]  BY <2>3, <3>2
      <4>2. i # 0 => g[i - 1] = f[i - 1]  BY <2>3, <4>1
      <4>3. f[i] = IF i = 0 THEN state ELSE Hop(f[i - 1], target).state  BY <2>1, <4>1
      <4>. QED  BY <4>1, <4>2, <4>3
    <3>. QED  BY <3>1, <3>2
  <2>5. g = [i \in 0 .. n + 1 |-> IF i = 0 THEN state ELSE Hop(g[i - 1], target).state]
    BY <2>3, <2>4
  <2>. QED  BY <2>5 DEF HopRun
<1> HIDE DEF S
<1>3. \A n \in Nat : n \in S  BY <1>1, <1>2, SetInduction
<1>. QED  BY <1>3 DEF S

\* A walk whose hops are known.
Walked(state, target, n, w) ==
  /\ w[0] = state /\ w[n] = target /\ \A j \in 0 .. n - 1 : w[j] # target
  /\ \A i \in 1 .. n : w[i] = Hop(w[i - 1], target).state

WalkCalls(target, n, w) == [i \in 1 .. n |-> Tms(Hop(w[i - 1], target).tms)]

\* setTapState follows it.
LEMMA Walk ==
  ASSUME NEW state, NEW target, NEW n \in 0 .. 16, NEW w, Walked(state, target, n, w)
  PROVE  setTapState(state, target) = WalkCalls(target, n, w)
<1>1. /\ w[0] = state /\ w[n] = target /\ \A j \in 0 .. n - 1 : w[j] # target
      /\ \A i \in 1 .. n : w[i] = Hop(w[i - 1], target).state
  BY DEF Walked
<1>2. 16 \in Nat  OBVIOUS
<1>3. PICK at : HopRun(state, target, at, 16) /\ at = CHOOSE f : HopRun(state, target, f, 16)
  BY ONLY <1>2, HopRunExists
<1>4. \A i \in 0 .. 16 : at[i] = IF i = 0 THEN state ELSE Hop(at[i - 1], target).state
  BY <1>3 DEF HopRun
<1>5. \A i \in 0 .. n : at[i] = w[i]
  <2> DEFINE S == {m \in Nat : m <= n => at[m] = w[m]}
  <2>1. 0 \in S  BY <1>1, <1>4
  <2>2. ASSUME NEW m \in Nat, m \in S PROVE m + 1 \in S
    <3> SUFFICES ASSUME m + 1 <= n PROVE at[m + 1] = w[m + 1]  OBVIOUS
    <3>1. at[m] = w[m]  BY <2>2
    <3>2. m + 1 \in 0 .. 16 /\ m + 1 \in 1 .. n /\ m + 1 # 0 /\ (m + 1) - 1 = m  OBVIOUS
    <3>. QED  BY <1>1, <1>4, <3>1, <3>2
  <2> HIDE DEF S
  <2>3. \A m \in Nat : m \in S  BY <2>1, <2>2, SetInduction
  <2>. QED  BY <2>3 DEF S
<1> DEFINE First(i) == at[i] = target /\ \A j \in 0 .. i - 1 : at[j] # target
<1>6. First(n)  BY <1>1, <1>5
<1>7. \A i \in 0 .. 16 : First(i) => i = n
  <2> SUFFICES ASSUME NEW i \in 0 .. 16, First(i) PROVE i = n  OBVIOUS
  <2>1. ~(i < n)  BY <1>1, <1>5
  <2>2. ~(n < i)  BY <1>1, <1>5
  <2>. QED  BY <2>1, <2>2
<1>8. PICK m : m = CHOOSE i \in 0 .. 16 : First(i)  OBVIOUS
<1>9. m = n
  <2> HIDE DEF First
  <2>1. m \in 0 .. 16 /\ First(m)  BY <1>6, <1>8
  <2>. QED  BY <1>7, <2>1
<1>10. setTapState(state, target) = [i \in 1 .. m |-> Tms(Hop(at[i - 1], target).tms)]
  <2> DEFINE at0 == CHOOSE f : HopRun(state, target, f, 16)
             First0(i) == at0[i] = target /\ \A j \in 0 .. i - 1 : at0[j] # target
             m0 == CHOOSE i \in 0 .. 16 : First0(i)
  <2>1. setTapState(state, target) = [i \in 1 .. m0 |-> Tms(Hop(at0[i - 1], target).tms)]
    BY DEF setTapState, HopRun
  <2>2. at = at0  BY <1>3
  <2> HIDE DEF at0
  <2>3. m = m0
    <3>1. \A i : First(i) <=> First0(i)  BY <2>2
    <3>2. m0 = CHOOSE i \in 0 .. 16 : First0(i)  OBVIOUS
    <3>. QED  BY ONLY <1>8, <3>1, <3>2
  <2> HIDE DEF m0
  <2>. QED  BY ONLY <2>1, <2>2, <2>3
<1>11. \A i \in 1 .. n : at[i - 1] = w[i - 1]  BY <1>5
<1>. QED  BY <1>9, <1>10, <1>11 DEF WalkCalls

-----------------------------------------------------------------------------
(* The walks of setTapState, as patterns of TMS bits. *)

TmsMap == [t \in {0, 1} |-> Tms(t)]

\* One bit.
LEMMA TmsIs ==
  \A t \in {0, 1} : Tms(t) \in CallSet /\ CallClock(Tms(t)) = TmsClocks(<<t>>)
BY DEF Tms, CallSet, CallClock

\* A sequence of set_tms.
LEMMA TmsCalls ==
  \A pat \in Seq({0, 1}) :
    Mapped(TmsMap, pat) \in CallSeqs /\ CallClocks(Mapped(TmsMap, pat)) = TmsClocks(pat)
<1> DEFINE P == {pat \in Seq({0, 1}) : /\ Mapped(TmsMap, pat) \in CallSeqs
                                       /\ CallClocks(Mapped(TmsMap, pat)) = TmsClocks(pat)}
<1>1. <<>> \in P
  <2>1. Mapped(TmsMap, <<>>) = <<>>  BY DEF Mapped
  <2>2. <<>> \in Seq({0, 1})  BY EmptySeq
  <2>. QED  BY <2>1, <2>2, CallClocksLaws, TmsClocksLaws
<1>2. \A pat \in Seq({0, 1}) : \A t \in {0, 1} : pat \in P => Append(pat, t) \in P
  <2> SUFFICES ASSUME NEW pat \in Seq({0, 1}), NEW t \in {0, 1}, pat \in P
               PROVE  Append(pat, t) \in P
    OBVIOUS
  <2>1. TmsMap \in [{0, 1} -> CallSet] /\ TmsMap[t] = Tms(t)  BY TmsIs DEF TmsMap
  <2>2. Mapped(TmsMap, Append(pat, t)) = Append(Mapped(TmsMap, pat), Tms(t))
    <3>1. PICK B : B = {0, 1}  OBVIOUS
    <3>2. TmsMap \in [B -> CallSet] /\ pat \in Seq(B) /\ t \in B  BY <2>1, <3>1
    <3>3. Mapped(TmsMap, Append(pat, t)) = Append(Mapped(TmsMap, pat), TmsMap[t])
      BY ONLY <3>2, MapAppend
    <3>. QED  BY ONLY <2>1, <3>3
  <2>3. Mapped(TmsMap, pat) \in CallSeqs /\ CallClocks(Mapped(TmsMap, pat)) = TmsClocks(pat)
    OBVIOUS
  <2>4. Tms(t) \in CallSet /\ CallClock(Tms(t)) = TmsClocks(<<t>>)  BY TmsIs
  <2>5. /\ Append(Mapped(TmsMap, pat), Tms(t)) \in CallSeqs
        /\ CallClocks(Append(Mapped(TmsMap, pat), Tms(t))) = Join(TmsClocks(pat), TmsClocks(<<t>>))
    BY ONLY <2>3, <2>4, CallClocksLaws
  <2>6. Append(pat, t) \in Seq({0, 1}) /\ Append(pat, t) = Join(pat, <<t>>)
    BY AppendProperties, AppendIsConcat DEF Join
  <2>7. pat \in Seq(TmsSet) /\ <<t>> \in Seq(TmsSet)
    <3>1. {0, 1} \subseteq TmsSet  BY DEF TmsSet
    <3>2. pat \in Seq(TmsSet)  BY ONLY pat \in Seq({0, 1}), <3>1, SeqMonotonic
    <3>3. <<t>> \in Seq(TmsSet)  BY <3>1
    <3>. QED  BY <3>2, <3>3
  <2>8. TmsClocks(Join(pat, <<t>>)) = Join(TmsClocks(pat), TmsClocks(<<t>>))
    BY ONLY <2>7, TmsClocksLaws
  <2>. QED  BY ONLY <2>2, <2>5, <2>6, <2>8 DEF P
<1> HIDE DEF P
<1>3. \A pat \in Seq({0, 1}) : pat \in P  BY <1>1, <1>2, SeqInduction
<1>. QED  BY <1>3 DEF P

TmsCallSet == {Tms(0), Tms(1)}

\* The walks of the programmer.
Leads(state, target, pat) ==
  /\ setTapState(state, target) \in CallSeqs
  /\ CallClocks(setTapState(state, target)) = TmsClocks(pat)
  /\ setTapState(state, target) \in Seq(TmsCallSet)

\* A walk whose hops are known has their bits.
LEMMA WalkLeads ==
  ASSUME NEW state, NEW target, NEW pat \in Seq({0, 1}), NEW w, NEW n \in 0 .. 16, Len(pat) = n,
         w[0] = state, w[n] = target, \A j \in 0 .. n - 1 : w[j] # target,
         \A i \in 1 .. n : w[i] = Hop(w[i - 1], target).state /\ pat[i] = Hop(w[i - 1], target).tms
  PROVE  Leads(state, target, pat)
<1>1. Walked(state, target, n, w)  BY DEF Walked
<1>2. setTapState(state, target) = WalkCalls(target, n, w)
  BY ONLY n \in 0 .. 16, <1>1, Walk
<1>3. DOMAIN pat = 1 .. n /\ \A i \in 1 .. n : pat[i] \in {0, 1}
  BY LenProperties, ElementOfSeq
<1>4. setTapState(state, target) = Mapped(TmsMap, pat)  BY <1>2, <1>3 DEF Mapped, TmsMap, WalkCalls
<1>5. setTapState(state, target) \in Seq(TmsCallSet)
  <2>1. TmsMap \in [{0, 1} -> TmsCallSet]  BY DEF TmsMap, TmsCallSet
  <2>2. PICK B : B = {0, 1}  OBVIOUS
  <2>3. TmsMap \in [B -> TmsCallSet] /\ pat \in Seq(B)  BY <2>1, <2>2
  <2>. QED  BY ONLY <1>4, <2>3, MapInSeq
<1>. QED  BY <1>4, <1>5, TmsCalls DEF Leads

\* From TEST_LOGIC_RESET to SHIFT_IR.
LEMMA ResetToShiftIR == Leads("TEST_LOGIC_RESET", "SHIFT_IR", <<0, 1, 1, 0, 0>>)
<1>1. PICK target : target = "SHIFT_IR"  OBVIOUS
<1>2. PICK w :
        /\ w[0] = "TEST_LOGIC_RESET" /\ w[1] = "RUN_TEST_IDLE"
        /\ w[2] = "SELECT_DR_SCAN" /\ w[3] = "SELECT_IR_SCAN"
        /\ w[4] = "CAPTURE_IR" /\ w[5] = "SHIFT_IR"
  <2>1. PICK w : w = [i \in 0 .. 5 |->
          CASE i = 0 -> "TEST_LOGIC_RESET"
            [] i = 1 -> "RUN_TEST_IDLE"
            [] i = 2 -> "SELECT_DR_SCAN"
            [] i = 3 -> "SELECT_IR_SCAN"
            [] i = 4 -> "CAPTURE_IR"
            [] OTHER -> "SHIFT_IR"]
    OBVIOUS
  <2>. QED  BY <2>1
<1>3. PICK pat \in Seq({0, 1}) : pat = <<0, 1, 1, 0, 0>>
  <2>1. <<0, 1, 1, 0, 0>> \in Seq({0, 1})  OBVIOUS
  <2>. QED  BY <2>1
<1>4. /\ Len(pat) = 5
      /\ pat[1] = 0 /\ pat[2] = 1 /\ pat[3] = 1 /\ pat[4] = 0 /\ pat[5] = 0
  BY <1>3
<1>5. \A j \in 0 .. 5 - 1 : w[j] # target
  <2>1. \A j \in 0 .. 5 - 1 : j \in {0, 1, 2, 3, 4}  OBVIOUS
  <2>. QED  BY <1>1, <1>2, <2>1
<1>6. Hop(w[0], target) = [tms |-> 0, state |-> w[1]]
  BY <1>1, <1>2 DEF Hop, TapStates, TapNext
<1>7. Hop(w[1], target) = [tms |-> 1, state |-> w[2]]
  BY <1>1, <1>2 DEF Hop
<1>8. Hop(w[2], target) = [tms |-> 1, state |-> w[3]]
  BY <1>1, <1>2 DEF Hop
<1>9. Hop(w[3], target) = [tms |-> 0, state |-> w[4]]
  BY <1>1, <1>2 DEF Hop
<1>10. Hop(w[4], target) = [tms |-> 0, state |-> w[5]]
  BY <1>1, <1>2 DEF Hop
<1>11. \A i \in 1 .. 5 : w[i] = Hop(w[i - 1], target).state /\ pat[i] = Hop(w[i - 1], target).tms
  <2> SUFFICES ASSUME NEW i \in 1 .. 5
               PROVE  w[i] = Hop(w[i - 1], target).state /\ pat[i] = Hop(w[i - 1], target).tms
    OBVIOUS
  <2>1. CASE i = 1
    <3>1. i - 1 = 0  BY <2>1
    <3>. QED  BY ONLY <1>4, <1>6, <2>1, <3>1
  <2>2. CASE i = 2
    <3>1. i - 1 = 1  BY <2>2
    <3>. QED  BY ONLY <1>4, <1>7, <2>2, <3>1
  <2>3. CASE i = 3
    <3>1. i - 1 = 2  BY <2>3
    <3>. QED  BY ONLY <1>4, <1>8, <2>3, <3>1
  <2>4. CASE i = 4
    <3>1. i - 1 = 3  BY <2>4
    <3>. QED  BY ONLY <1>4, <1>9, <2>4, <3>1
  <2>5. CASE i = 5
    <3>1. i - 1 = 4  BY <2>5
    <3>. QED  BY ONLY <1>4, <1>10, <2>5, <3>1
  <2>. QED  BY <2>1, <2>2, <2>3, <2>4, <2>5
<1>12. 5 \in 0 .. 16  OBVIOUS
<1>13. Leads(w[0], target, pat)
  <2>1. PICK first : first = w[0]  OBVIOUS
  <2>2. w[5] = target  BY <1>1, <1>2
  <2>. QED  BY ONLY <1>4, <1>5, <1>11, <1>12, <2>1, <2>2, pat \in Seq({0, 1}), WalkLeads
<1>. QED  BY <1>1, <1>2, <1>3, <1>13

\* From TEST_LOGIC_RESET to SHIFT_DR.
LEMMA ResetToShiftDR == Leads("TEST_LOGIC_RESET", "SHIFT_DR", <<0, 1, 0, 0>>)
<1>1. PICK target : target = "SHIFT_DR"  OBVIOUS
<1>2. PICK w :
        /\ w[0] = "TEST_LOGIC_RESET" /\ w[1] = "RUN_TEST_IDLE"
        /\ w[2] = "SELECT_DR_SCAN" /\ w[3] = "CAPTURE_DR"
        /\ w[4] = "SHIFT_DR"
  <2>1. PICK w : w = [i \in 0 .. 4 |->
          CASE i = 0 -> "TEST_LOGIC_RESET"
            [] i = 1 -> "RUN_TEST_IDLE"
            [] i = 2 -> "SELECT_DR_SCAN"
            [] i = 3 -> "CAPTURE_DR"
            [] OTHER -> "SHIFT_DR"]
    OBVIOUS
  <2>. QED  BY <2>1
<1>3. PICK pat \in Seq({0, 1}) : pat = <<0, 1, 0, 0>>
  <2>1. <<0, 1, 0, 0>> \in Seq({0, 1})  OBVIOUS
  <2>. QED  BY <2>1
<1>4. /\ Len(pat) = 4
      /\ pat[1] = 0 /\ pat[2] = 1 /\ pat[3] = 0 /\ pat[4] = 0
  BY <1>3
<1>5. \A j \in 0 .. 4 - 1 : w[j] # target
  <2>1. \A j \in 0 .. 4 - 1 : j \in {0, 1, 2, 3}  OBVIOUS
  <2>. QED  BY <1>1, <1>2, <2>1
<1>6. Hop(w[0], target) = [tms |-> 0, state |-> w[1]]
  BY <1>1, <1>2 DEF Hop, TapStates, TapNext
<1>7. Hop(w[1], target) = [tms |-> 1, state |-> w[2]]
  BY <1>1, <1>2 DEF Hop
<1>8. Hop(w[2], target) = [tms |-> 0, state |-> w[3]]
  BY <1>1, <1>2 DEF Hop
<1>9. Hop(w[3], target) = [tms |-> 0, state |-> w[4]]
  BY <1>1, <1>2 DEF Hop
<1>10. \A i \in 1 .. 4 : w[i] = Hop(w[i - 1], target).state /\ pat[i] = Hop(w[i - 1], target).tms
  <2> SUFFICES ASSUME NEW i \in 1 .. 4
               PROVE  w[i] = Hop(w[i - 1], target).state /\ pat[i] = Hop(w[i - 1], target).tms
    OBVIOUS
  <2>1. CASE i = 1
    <3>1. i - 1 = 0  BY <2>1
    <3>. QED  BY ONLY <1>4, <1>6, <2>1, <3>1
  <2>2. CASE i = 2
    <3>1. i - 1 = 1  BY <2>2
    <3>. QED  BY ONLY <1>4, <1>7, <2>2, <3>1
  <2>3. CASE i = 3
    <3>1. i - 1 = 2  BY <2>3
    <3>. QED  BY ONLY <1>4, <1>8, <2>3, <3>1
  <2>4. CASE i = 4
    <3>1. i - 1 = 3  BY <2>4
    <3>. QED  BY ONLY <1>4, <1>9, <2>4, <3>1
  <2>. QED  BY <2>1, <2>2, <2>3, <2>4
<1>11. 4 \in 0 .. 16  OBVIOUS
<1>12. Leads(w[0], target, pat)
  <2>1. PICK first : first = w[0]  OBVIOUS
  <2>2. w[4] = target  BY <1>1, <1>2
  <2>. QED  BY ONLY <1>4, <1>5, <1>10, <1>11, <2>1, <2>2, pat \in Seq({0, 1}), WalkLeads
<1>. QED  BY <1>1, <1>2, <1>3, <1>12

\* From SHIFT_DR to TEST_LOGIC_RESET.
LEMMA ShiftDRToReset == Leads("SHIFT_DR", "TEST_LOGIC_RESET", <<1, 1, 1, 1, 1>>)
<1>1. PICK target : target = "TEST_LOGIC_RESET"  OBVIOUS
<1>2. PICK w :
        /\ w[0] = "SHIFT_DR" /\ w[1] = "EXIT1_DR"
        /\ w[2] = "UPDATE_DR" /\ w[3] = "SELECT_DR_SCAN"
        /\ w[4] = "SELECT_IR_SCAN" /\ w[5] = "TEST_LOGIC_RESET"
  <2>1. PICK w : w = [i \in 0 .. 5 |->
          CASE i = 0 -> "SHIFT_DR"
            [] i = 1 -> "EXIT1_DR"
            [] i = 2 -> "UPDATE_DR"
            [] i = 3 -> "SELECT_DR_SCAN"
            [] i = 4 -> "SELECT_IR_SCAN"
            [] OTHER -> "TEST_LOGIC_RESET"]
    OBVIOUS
  <2>. QED  BY <2>1
<1>3. PICK pat \in Seq({0, 1}) : pat = <<1, 1, 1, 1, 1>>
  <2>1. <<1, 1, 1, 1, 1>> \in Seq({0, 1})  OBVIOUS
  <2>. QED  BY <2>1
<1>4. /\ Len(pat) = 5
      /\ pat[1] = 1 /\ pat[2] = 1 /\ pat[3] = 1 /\ pat[4] = 1 /\ pat[5] = 1
  BY <1>3
<1>5. \A j \in 0 .. 5 - 1 : w[j] # target
  <2>1. \A j \in 0 .. 5 - 1 : j \in {0, 1, 2, 3, 4}  OBVIOUS
  <2>. QED  BY <1>1, <1>2, <2>1
<1>6. Hop(w[0], target) = [tms |-> 1, state |-> w[1]]
  BY <1>1, <1>2 DEF Hop
<1>7. Hop(w[1], target) = [tms |-> 1, state |-> w[2]]
  BY <1>1, <1>2 DEF Hop
<1>8. Hop(w[2], target) = [tms |-> 1, state |-> w[3]]
  BY <1>1, <1>2 DEF Hop
<1>9. Hop(w[3], target) = [tms |-> 1, state |-> w[4]]
  BY <1>1, <1>2 DEF Hop
<1>10. Hop(w[4], target) = [tms |-> 1, state |-> w[5]]
  BY <1>1, <1>2 DEF Hop
<1>11. \A i \in 1 .. 5 : w[i] = Hop(w[i - 1], target).state /\ pat[i] = Hop(w[i - 1], target).tms
  <2> SUFFICES ASSUME NEW i \in 1 .. 5
               PROVE  w[i] = Hop(w[i - 1], target).state /\ pat[i] = Hop(w[i - 1], target).tms
    OBVIOUS
  <2>1. CASE i = 1
    <3>1. i - 1 = 0  BY <2>1
    <3>. QED  BY ONLY <1>4, <1>6, <2>1, <3>1
  <2>2. CASE i = 2
    <3>1. i - 1 = 1  BY <2>2
    <3>. QED  BY ONLY <1>4, <1>7, <2>2, <3>1
  <2>3. CASE i = 3
    <3>1. i - 1 = 2  BY <2>3
    <3>. QED  BY ONLY <1>4, <1>8, <2>3, <3>1
  <2>4. CASE i = 4
    <3>1. i - 1 = 3  BY <2>4
    <3>. QED  BY ONLY <1>4, <1>9, <2>4, <3>1
  <2>5. CASE i = 5
    <3>1. i - 1 = 4  BY <2>5
    <3>. QED  BY ONLY <1>4, <1>10, <2>5, <3>1
  <2>. QED  BY <2>1, <2>2, <2>3, <2>4, <2>5
<1>12. 5 \in 0 .. 16  OBVIOUS
<1>13. Leads(w[0], target, pat)
  <2>1. PICK first : first = w[0]  OBVIOUS
  <2>2. w[5] = target  BY <1>1, <1>2
  <2>. QED  BY ONLY <1>4, <1>5, <1>11, <1>12, <2>1, <2>2, pat \in Seq({0, 1}), WalkLeads
<1>. QED  BY <1>1, <1>2, <1>3, <1>13

\* From RUN_TEST_IDLE to SHIFT_IR.
LEMMA IdleToShiftIR == Leads("RUN_TEST_IDLE", "SHIFT_IR", <<1, 1, 0, 0>>)
<1>1. PICK target : target = "SHIFT_IR"  OBVIOUS
<1>2. PICK w :
        /\ w[0] = "RUN_TEST_IDLE" /\ w[1] = "SELECT_DR_SCAN"
        /\ w[2] = "SELECT_IR_SCAN" /\ w[3] = "CAPTURE_IR"
        /\ w[4] = "SHIFT_IR"
  <2>1. PICK w : w = [i \in 0 .. 4 |->
          CASE i = 0 -> "RUN_TEST_IDLE"
            [] i = 1 -> "SELECT_DR_SCAN"
            [] i = 2 -> "SELECT_IR_SCAN"
            [] i = 3 -> "CAPTURE_IR"
            [] OTHER -> "SHIFT_IR"]
    OBVIOUS
  <2>. QED  BY <2>1
<1>3. PICK pat \in Seq({0, 1}) : pat = <<1, 1, 0, 0>>
  <2>1. <<1, 1, 0, 0>> \in Seq({0, 1})  OBVIOUS
  <2>. QED  BY <2>1
<1>4. /\ Len(pat) = 4
      /\ pat[1] = 1 /\ pat[2] = 1 /\ pat[3] = 0 /\ pat[4] = 0
  BY <1>3
<1>5. \A j \in 0 .. 4 - 1 : w[j] # target
  <2>1. \A j \in 0 .. 4 - 1 : j \in {0, 1, 2, 3}  OBVIOUS
  <2>. QED  BY <1>1, <1>2, <2>1
<1>6. Hop(w[0], target) = [tms |-> 1, state |-> w[1]]
  BY <1>1, <1>2 DEF Hop
<1>7. Hop(w[1], target) = [tms |-> 1, state |-> w[2]]
  BY <1>1, <1>2 DEF Hop
<1>8. Hop(w[2], target) = [tms |-> 0, state |-> w[3]]
  BY <1>1, <1>2 DEF Hop
<1>9. Hop(w[3], target) = [tms |-> 0, state |-> w[4]]
  BY <1>1, <1>2 DEF Hop
<1>10. \A i \in 1 .. 4 : w[i] = Hop(w[i - 1], target).state /\ pat[i] = Hop(w[i - 1], target).tms
  <2> SUFFICES ASSUME NEW i \in 1 .. 4
               PROVE  w[i] = Hop(w[i - 1], target).state /\ pat[i] = Hop(w[i - 1], target).tms
    OBVIOUS
  <2>1. CASE i = 1
    <3>1. i - 1 = 0  BY <2>1
    <3>. QED  BY ONLY <1>4, <1>6, <2>1, <3>1
  <2>2. CASE i = 2
    <3>1. i - 1 = 1  BY <2>2
    <3>. QED  BY ONLY <1>4, <1>7, <2>2, <3>1
  <2>3. CASE i = 3
    <3>1. i - 1 = 2  BY <2>3
    <3>. QED  BY ONLY <1>4, <1>8, <2>3, <3>1
  <2>4. CASE i = 4
    <3>1. i - 1 = 3  BY <2>4
    <3>. QED  BY ONLY <1>4, <1>9, <2>4, <3>1
  <2>. QED  BY <2>1, <2>2, <2>3, <2>4
<1>11. 4 \in 0 .. 16  OBVIOUS
<1>12. Leads(w[0], target, pat)
  <2>1. PICK first : first = w[0]  OBVIOUS
  <2>2. w[4] = target  BY <1>1, <1>2
  <2>. QED  BY ONLY <1>4, <1>5, <1>10, <1>11, <2>1, <2>2, pat \in Seq({0, 1}), WalkLeads
<1>. QED  BY <1>1, <1>2, <1>3, <1>12

\* From RUN_TEST_IDLE to SHIFT_DR.
LEMMA IdleToShiftDR == Leads("RUN_TEST_IDLE", "SHIFT_DR", <<1, 0, 0>>)
<1>1. PICK target : target = "SHIFT_DR"  OBVIOUS
<1>2. PICK w :
        /\ w[0] = "RUN_TEST_IDLE" /\ w[1] = "SELECT_DR_SCAN"
        /\ w[2] = "CAPTURE_DR" /\ w[3] = "SHIFT_DR"
  <2>1. PICK w : w = [i \in 0 .. 3 |->
          CASE i = 0 -> "RUN_TEST_IDLE"
            [] i = 1 -> "SELECT_DR_SCAN"
            [] i = 2 -> "CAPTURE_DR"
            [] OTHER -> "SHIFT_DR"]
    OBVIOUS
  <2>. QED  BY <2>1
<1>3. PICK pat \in Seq({0, 1}) : pat = <<1, 0, 0>>
  <2>1. <<1, 0, 0>> \in Seq({0, 1})  OBVIOUS
  <2>. QED  BY <2>1
<1>4. /\ Len(pat) = 3
      /\ pat[1] = 1 /\ pat[2] = 0 /\ pat[3] = 0
  BY <1>3
<1>5. \A j \in 0 .. 3 - 1 : w[j] # target
  <2>1. \A j \in 0 .. 3 - 1 : j \in {0, 1, 2}  OBVIOUS
  <2>. QED  BY <1>1, <1>2, <2>1
<1>6. Hop(w[0], target) = [tms |-> 1, state |-> w[1]]
  BY <1>1, <1>2 DEF Hop
<1>7. Hop(w[1], target) = [tms |-> 0, state |-> w[2]]
  BY <1>1, <1>2 DEF Hop
<1>8. Hop(w[2], target) = [tms |-> 0, state |-> w[3]]
  BY <1>1, <1>2 DEF Hop
<1>9. \A i \in 1 .. 3 : w[i] = Hop(w[i - 1], target).state /\ pat[i] = Hop(w[i - 1], target).tms
  <2> SUFFICES ASSUME NEW i \in 1 .. 3
               PROVE  w[i] = Hop(w[i - 1], target).state /\ pat[i] = Hop(w[i - 1], target).tms
    OBVIOUS
  <2>1. CASE i = 1
    <3>1. i - 1 = 0  BY <2>1
    <3>. QED  BY ONLY <1>4, <1>6, <2>1, <3>1
  <2>2. CASE i = 2
    <3>1. i - 1 = 1  BY <2>2
    <3>. QED  BY ONLY <1>4, <1>7, <2>2, <3>1
  <2>3. CASE i = 3
    <3>1. i - 1 = 2  BY <2>3
    <3>. QED  BY ONLY <1>4, <1>8, <2>3, <3>1
  <2>. QED  BY <2>1, <2>2, <2>3
<1>10. 3 \in 0 .. 16  OBVIOUS
<1>11. Leads(w[0], target, pat)
  <2>1. PICK first : first = w[0]  OBVIOUS
  <2>2. w[3] = target  BY <1>1, <1>2
  <2>. QED  BY ONLY <1>4, <1>5, <1>9, <1>10, <2>1, <2>2, pat \in Seq({0, 1}), WalkLeads
<1>. QED  BY <1>1, <1>2, <1>3, <1>11

\* From EXIT1_IR to RUN_TEST_IDLE.
LEMMA Exit1IRToIdle == Leads("EXIT1_IR", "RUN_TEST_IDLE", <<1, 0>>)
<1>1. PICK target : target = "RUN_TEST_IDLE"  OBVIOUS
<1>2. PICK w :
        /\ w[0] = "EXIT1_IR" /\ w[1] = "UPDATE_IR"
        /\ w[2] = "RUN_TEST_IDLE"
  <2>1. PICK w : w = [i \in 0 .. 2 |->
          CASE i = 0 -> "EXIT1_IR"
            [] i = 1 -> "UPDATE_IR"
            [] OTHER -> "RUN_TEST_IDLE"]
    OBVIOUS
  <2>. QED  BY <2>1
<1>3. PICK pat \in Seq({0, 1}) : pat = <<1, 0>>
  <2>1. <<1, 0>> \in Seq({0, 1})  OBVIOUS
  <2>. QED  BY <2>1
<1>4. /\ Len(pat) = 2
      /\ pat[1] = 1 /\ pat[2] = 0
  BY <1>3
<1>5. \A j \in 0 .. 2 - 1 : w[j] # target
  <2>1. \A j \in 0 .. 2 - 1 : j \in {0, 1}  OBVIOUS
  <2>. QED  BY <1>1, <1>2, <2>1
<1>6. Hop(w[0], target) = [tms |-> 1, state |-> w[1]]
  BY <1>1, <1>2 DEF Hop
<1>7. Hop(w[1], target) = [tms |-> 0, state |-> w[2]]
  BY <1>1, <1>2 DEF Hop
<1>8. \A i \in 1 .. 2 : w[i] = Hop(w[i - 1], target).state /\ pat[i] = Hop(w[i - 1], target).tms
  <2> SUFFICES ASSUME NEW i \in 1 .. 2
               PROVE  w[i] = Hop(w[i - 1], target).state /\ pat[i] = Hop(w[i - 1], target).tms
    OBVIOUS
  <2>1. CASE i = 1
    <3>1. i - 1 = 0  BY <2>1
    <3>. QED  BY ONLY <1>4, <1>6, <2>1, <3>1
  <2>2. CASE i = 2
    <3>1. i - 1 = 1  BY <2>2
    <3>. QED  BY ONLY <1>4, <1>7, <2>2, <3>1
  <2>. QED  BY <2>1, <2>2
<1>9. 2 \in 0 .. 16  OBVIOUS
<1>10. Leads(w[0], target, pat)
  <2>1. PICK first : first = w[0]  OBVIOUS
  <2>2. w[2] = target  BY <1>1, <1>2
  <2>. QED  BY ONLY <1>4, <1>5, <1>8, <1>9, <2>1, <2>2, pat \in Seq({0, 1}), WalkLeads
<1>. QED  BY <1>1, <1>2, <1>3, <1>10

\* From EXIT1_DR to RUN_TEST_IDLE.
LEMMA Exit1DRToIdle == Leads("EXIT1_DR", "RUN_TEST_IDLE", <<1, 0>>)
<1>1. PICK target : target = "RUN_TEST_IDLE"  OBVIOUS
<1>2. PICK w :
        /\ w[0] = "EXIT1_DR" /\ w[1] = "UPDATE_DR"
        /\ w[2] = "RUN_TEST_IDLE"
  <2>1. PICK w : w = [i \in 0 .. 2 |->
          CASE i = 0 -> "EXIT1_DR"
            [] i = 1 -> "UPDATE_DR"
            [] OTHER -> "RUN_TEST_IDLE"]
    OBVIOUS
  <2>. QED  BY <2>1
<1>3. PICK pat \in Seq({0, 1}) : pat = <<1, 0>>
  <2>1. <<1, 0>> \in Seq({0, 1})  OBVIOUS
  <2>. QED  BY <2>1
<1>4. /\ Len(pat) = 2
      /\ pat[1] = 1 /\ pat[2] = 0
  BY <1>3
<1>5. \A j \in 0 .. 2 - 1 : w[j] # target
  <2>1. \A j \in 0 .. 2 - 1 : j \in {0, 1}  OBVIOUS
  <2>. QED  BY <1>1, <1>2, <2>1
<1>6. Hop(w[0], target) = [tms |-> 1, state |-> w[1]]
  BY <1>1, <1>2 DEF Hop
<1>7. Hop(w[1], target) = [tms |-> 0, state |-> w[2]]
  BY <1>1, <1>2 DEF Hop
<1>8. \A i \in 1 .. 2 : w[i] = Hop(w[i - 1], target).state /\ pat[i] = Hop(w[i - 1], target).tms
  <2> SUFFICES ASSUME NEW i \in 1 .. 2
               PROVE  w[i] = Hop(w[i - 1], target).state /\ pat[i] = Hop(w[i - 1], target).tms
    OBVIOUS
  <2>1. CASE i = 1
    <3>1. i - 1 = 0  BY <2>1
    <3>. QED  BY ONLY <1>4, <1>6, <2>1, <3>1
  <2>2. CASE i = 2
    <3>1. i - 1 = 1  BY <2>2
    <3>. QED  BY ONLY <1>4, <1>7, <2>2, <3>1
  <2>. QED  BY <2>1, <2>2
<1>9. 2 \in 0 .. 16  OBVIOUS
<1>10. Leads(w[0], target, pat)
  <2>1. PICK first : first = w[0]  OBVIOUS
  <2>2. w[2] = target  BY <1>1, <1>2
  <2>. QED  BY ONLY <1>4, <1>5, <1>8, <1>9, <2>1, <2>2, pat \in Seq({0, 1}), WalkLeads
<1>. QED  BY <1>1, <1>2, <1>3, <1>10

-----------------------------------------------------------------------------
(* What is latched on the way. *)

\* After every part of these clocks, from the first on, what c has latched is in L.
Trail(c, q, L) ==
  \A p, r \in ClockSeqs : Join(p, r) = q => ClockAll(c, p).latched \in L

\* The beginnings of a sequence that is longer by one.
LEMMA JoinIsAppend ==
  \A p, q, r \in ClockSeqs : \A x \in ClockSet :
    Join(p, r) = Append(q, x) => p = Append(q, x) \/ \E t \in ClockSeqs : Join(p, t) = q
<1> SUFFICES ASSUME NEW p \in ClockSeqs, NEW q \in ClockSeqs, NEW r \in ClockSeqs,
                    NEW x \in ClockSet, Join(p, r) = Append(q, x), p # Append(q, x)
             PROVE  \E t \in ClockSeqs : Join(p, t) = q
  OBVIOUS
<1>1. p \in Seq(ClockSet) /\ q \in Seq(ClockSet) /\ r \in Seq(ClockSet)  BY DEF ClockSeqs
<1>2. r # <<>>  BY JoinLaws
<1>3. PICK t \in Seq(ClockSet), y \in ClockSet : r = Append(t, y)
  BY <1>1, <1>2, SequenceEmptyOrAppend
<1>4. PICK u \in Seq(ClockSet) : u = p \o t  BY <1>1, ConcatProperties
<1>5. Append(u, y) = p \o Append(t, y)
  <2>1. p \o Append(t, y) = Append(p \o t, y)
    BY ONLY <1>1, t \in Seq(ClockSet), y \in ClockSet, ConcatAppend
  <2>. QED  BY ONLY <1>4, <2>1
<1>6. Append(u, y) = Append(q, x)  BY ONLY <1>3, <1>5, Join(p, r) = Append(q, x) DEF Join
<1>7. u = q  BY ONLY <1>1, <1>6, u \in Seq(ClockSet), y \in ClockSet, x \in ClockSet, AppendInjective
<1>. QED  BY <1>4, <1>7 DEF ClockSeqs, Join

\* The trail of no clocks.
LEMMA TrailNone == \A c, L : c.latched \in L => Trail(c, <<>>, L)
<1> SUFFICES ASSUME NEW c, NEW L, c.latched \in L, NEW p \in ClockSeqs, NEW r \in ClockSeqs,
                    Join(p, r) = <<>>
             PROVE  ClockAll(c, p).latched \in L
  BY DEF Trail
<1>1. p = <<>>
  <2>1. p \in Seq(ClockSet) /\ r \in Seq(ClockSet) /\ p \o r = <<>>  BY DEF ClockSeqs, Join
  <2>2. Len(p \o r) = Len(p) + Len(r) /\ Len(p) \in Nat /\ Len(r) \in Nat
    BY <2>1, ConcatProperties, LenProperties
  <2>3. Len(p \o r) = 0  BY <2>1
  <2>4. Len(p) = 0  BY <2>2, <2>3
  <2>. QED  BY <2>1, <2>4, EmptySeq
<1>. QED  BY <1>1, ClockNone

\* One clock more.
LEMMA TrailStep ==
  \A c, L : \A q \in ClockSeqs : \A x \in ClockSet :
    Trail(c, q, L) /\ ClockAll(c, Append(q, x)).latched \in L => Trail(c, Append(q, x), L)
<1> SUFFICES ASSUME NEW c, NEW L, NEW q \in ClockSeqs, NEW x \in ClockSet, Trail(c, q, L),
                    ClockAll(c, Append(q, x)).latched \in L,
                    NEW p \in ClockSeqs, NEW r \in ClockSeqs, Join(p, r) = Append(q, x)
             PROVE  ClockAll(c, p).latched \in L
  BY DEF Trail
<1>1. CASE p = Append(q, x)  BY <1>1
<1>2. CASE \E t \in ClockSeqs : Join(p, t) = q  BY <1>2 DEF Trail
<1>. QED  BY <1>1, <1>2, JoinIsAppend

\* The trail of the first clocks, and of those that follow.
LEMMA TrailParts ==
  ASSUME NEW c, NEW L, NEW p \in ClockSeqs, NEW q \in ClockSeqs, Trail(c, Join(p, q), L)
  PROVE  Trail(c, p, L) /\ Trail(ClockAll(c, p), q, L)
<1>1. ASSUME NEW e \in ClockSeqs, NEW r \in ClockSeqs, Join(e, r) = p
      PROVE  ClockAll(c, e).latched \in L
  <2>1. Join(e, Join(r, q)) = Join(p, q) /\ Join(r, q) \in ClockSeqs  BY <1>1, JoinLaws
  <2>. QED  BY <2>1 DEF Trail
<1>2. ASSUME NEW e \in ClockSeqs, NEW r \in ClockSeqs, Join(e, r) = q
      PROVE  ClockAll(ClockAll(c, p), e).latched \in L
  <2>1. Join(Join(p, e), r) = Join(p, q) /\ Join(p, e) \in ClockSeqs  BY <1>2, JoinLaws
  <2>2. ClockAll(c, Join(p, e)).latched \in L  BY <2>1 DEF Trail
  <2>. QED  BY <2>2, ClockAllJoin
<1>. QED  BY <1>1, <1>2 DEF Trail

\* Two trails are one.
LEMMA TrailJoin ==
  ASSUME NEW c, NEW L, NEW p \in ClockSeqs, Trail(c, p, L)
  PROVE  \A q \in ClockSeqs : Trail(ClockAll(c, p), q, L) => Trail(c, Join(p, q), L)
<1> DEFINE P == {q \in ClockSeqs : Trail(ClockAll(c, p), q, L) => Trail(c, Join(p, q), L)}
<1>1. <<>> \in P  BY JoinLaws
<1>2. \A q \in Seq(ClockSet) : \A x \in ClockSet : q \in P => Append(q, x) \in P
  <2> SUFFICES ASSUME NEW q \in Seq(ClockSet), NEW x \in ClockSet, q \in P,
                      Trail(ClockAll(c, p), Append(q, x), L)
               PROVE  Trail(c, Join(p, Append(q, x)), L)
    <3>1. \A q \in Seq(ClockSet) : \A x \in ClockSet : Append(q, x) \in ClockSeqs
      BY AppendProperties DEF ClockSeqs
    <3>. QED  BY <3>1
  <2>1. q \in ClockSeqs /\ <<x>> \in ClockSeqs /\ Append(q, x) = Join(q, <<x>>)
        /\ Append(q, x) \in ClockSeqs
    BY AppendIsConcat, AppendProperties DEF ClockSeqs, Join
  <2>2. Trail(ClockAll(c, p), q, L)  BY <2>1, TrailParts
  <2>3. Trail(c, Join(p, q), L)  BY <2>2
  <2>4. Join(p, Append(q, x)) = Append(Join(p, q), x)  BY ConcatAppend DEF Join, ClockSeqs
  <2>5. Join(p, q) \in ClockSeqs  BY <2>1, JoinLaws
  <2>6. ClockAll(c, Join(p, Append(q, x))) = ClockAll(ClockAll(c, p), Append(q, x))
    BY <2>1, ClockAllJoin
  <2>7. ClockAll(ClockAll(c, p), Append(q, x)).latched \in L
    <3>1. Join(Append(q, x), <<>>) = Append(q, x) /\ <<>> \in ClockSeqs  BY <2>1, JoinLaws
    <3>. QED  BY <2>1, <3>1 DEF Trail
  <2>. QED  BY <2>3, <2>4, <2>5, <2>6, <2>7, TrailStep
<1> HIDE DEF P
<1>3. \A q \in Seq(ClockSet) : q \in P  BY <1>1, <1>2, SeqInduction
<1>. QED  BY <1>3 DEF P, ClockSeqs

\* Chains that are alike have the same trail.
LEMMA TrailAlike ==
  ASSUME NEW c, NEW d, IsCable(c), IsCable(d), Chain(c) = Chain(d), NEW q, NEW L, Trail(c, q, L)
  PROVE  Trail(d, q, L)
<1>1. \A p \in ClockSeqs : Chain(ClockAll(c, p)) = Chain(ClockAll(d, p))  BY ClockAllAlike
<1>2. \A p \in ClockSeqs : ClockAll(c, p).latched = ClockAll(d, p).latched  BY <1>1 DEF Chain
<1>. QED  BY <1>2 DEF Trail

\* A trail in more.
LEMMA TrailIn == \A c, q, L, M : Trail(c, q, L) /\ L \subseteq M => Trail(c, q, M)
BY DEF Trail

-----------------------------------------------------------------------------
(* The chain follows the walks. *)

At(c, tap, level, chain) ==
  IsCable(c) /\ c.tap = tap /\ c.level = level /\ c.chain = chain

\* What has become of c after these bits.
After(c, pat, d, L) ==
  /\ pat \in Seq({0, 1}) /\ IsCable(d)
  /\ d = ClockAll(c, TmsClocks(pat)) /\ Trail(c, TmsClocks(pat), L)

\* No bit, and one more.
LEMMA AfterNone == \A c, L : IsCable(c) /\ c.latched \in L => After(c, <<>>, c, L)
<1>1. <<>> \in Seq({0, 1})  BY EmptySeq
<1>. QED  BY <1>1, TmsClocksLaws, TrailNone, ClockNone DEF After

\* One bit more.
LEMMA AfterNext ==
  \A c, d, e, L : \A pat : \A t \in {0, 1} :
    After(c, pat, d, L) /\ e = Clock(d, [tms |-> t, tdi |-> High]) /\ e.latched \in L
      => After(c, Append(pat, t), e, L)
<1> SUFFICES ASSUME NEW c, NEW d, NEW e, NEW L, NEW pat, NEW t \in {0, 1}, After(c, pat, d, L),
                    e = Clock(d, [tms |-> t, tdi |-> High]), e.latched \in L
             PROVE  After(c, Append(pat, t), e, L)
  OBVIOUS
<1>1. pat \in Seq({0, 1}) /\ IsCable(d) /\ d = ClockAll(c, TmsClocks(pat))
      /\ Trail(c, TmsClocks(pat), L)
  BY DEF After
<1>2. {0, 1} \subseteq TmsSet /\ t \in TmsSet  BY DEF TmsSet
<1>3. pat \in Seq(TmsSet)  BY ONLY <1>1, <1>2, SeqMonotonic
<1>4. PICK q \in ClockSeqs : q = TmsClocks(pat)  BY <1>3, ClocksOfBits
<1>5. PICK x \in ClockSet : x = [tms |-> t, tdi |-> High] /\ x = TmsClock[t]
  BY <1>2, ClockMaps
<1>6. TmsClocks(Append(pat, t)) = Append(q, x)
  <2>1. TmsClock \in [TmsSet -> ClockSet]  BY ClockMaps
  <2>2. Mapped(TmsClock, Append(pat, t)) = Append(Mapped(TmsClock, pat), TmsClock[t])
    BY ONLY <1>2, <1>3, <2>1, MapAppend
  <2>. QED  BY <1>4, <1>5, <2>2 DEF TmsClocks
<1>7. ClockAll(c, Append(q, x)) = e
  <2>1. q \in Seq(ClockSet)  BY DEF ClockSeqs
  <2>2. ClockAll(c, Append(q, x)) = Clock(ClockAll(c, q), x)
    BY ONLY <2>1, x \in ClockSet, ClockAppend
  <2>. QED  BY <1>1, <1>4, <1>5, <2>2
<1>8. Trail(c, Append(q, x), L)  BY <1>1, <1>4, <1>7, TrailStep
<1>9. Append(pat, t) \in Seq({0, 1})  BY <1>1, AppendProperties
<1>10. IsCable(e)  BY <1>1, ClockFields
<1>. QED  BY <1>6, <1>7, <1>8, <1>9, <1>10 DEF After

\* The patterns of the walks, bit by bit.
LEMMA Patterns ==
  /\ <<0>> = Append(<<>>, 0)
  /\ <<1>> = Append(<<>>, 1)
  /\ <<0, 1>> = Append(<<0>>, 1)
  /\ <<1, 0>> = Append(<<1>>, 0)
  /\ <<1, 1>> = Append(<<1>>, 1)
  /\ <<0, 1, 0>> = Append(<<0, 1>>, 0)
  /\ <<0, 1, 1>> = Append(<<0, 1>>, 1)
  /\ <<1, 0, 0>> = Append(<<1, 0>>, 0)
  /\ <<1, 1, 0>> = Append(<<1, 1>>, 0)
  /\ <<1, 1, 1>> = Append(<<1, 1>>, 1)
  /\ <<0, 1, 0, 0>> = Append(<<0, 1, 0>>, 0)
  /\ <<0, 1, 1, 0>> = Append(<<0, 1, 1>>, 0)
  /\ <<1, 1, 0, 0>> = Append(<<1, 1, 0>>, 0)
  /\ <<1, 1, 1, 1>> = Append(<<1, 1, 1>>, 1)
  /\ <<0, 1, 1, 0, 0>> = Append(<<0, 1, 1, 0>>, 0)
  /\ <<1, 1, 1, 1, 1>> = Append(<<1, 1, 1, 1>>, 1)
<1>1. <<0>> = Append(<<>>, 0)  OBVIOUS
<1>2. <<1>> = Append(<<>>, 1)  OBVIOUS
<1>3. <<0, 1>> = Append(<<0>>, 1)  OBVIOUS
<1>4. <<1, 0>> = Append(<<1>>, 0)  OBVIOUS
<1>5. <<1, 1>> = Append(<<1>>, 1)  OBVIOUS
<1>6. <<0, 1, 0>> = Append(<<0, 1>>, 0)  OBVIOUS
<1>7. <<0, 1, 1>> = Append(<<0, 1>>, 1)  OBVIOUS
<1>8. <<1, 0, 0>> = Append(<<1, 0>>, 0)  OBVIOUS
<1>9. <<1, 1, 0>> = Append(<<1, 1>>, 0)  OBVIOUS
<1>10. <<1, 1, 1>> = Append(<<1, 1>>, 1)  OBVIOUS
<1>11. <<0, 1, 0, 0>> = Append(<<0, 1, 0>>, 0)  OBVIOUS
<1>12. <<0, 1, 1, 0>> = Append(<<0, 1, 1>>, 0)  OBVIOUS
<1>13. <<1, 1, 0, 0>> = Append(<<1, 1, 0>>, 0)  OBVIOUS
<1>14. <<1, 1, 1, 1>> = Append(<<1, 1, 1>>, 1)  OBVIOUS
<1>15. <<0, 1, 1, 0, 0>> = Append(<<0, 1, 1, 0>>, 0)  OBVIOUS
<1>16. <<1, 1, 1, 1, 1>> = Append(<<1, 1, 1, 1>>, 1)  OBVIOUS
<1>. QED  BY ONLY <1>1, <1>2, <1>3, <1>4, <1>5, <1>6, <1>7, <1>8, <1>9, <1>10, <1>11, <1>12, <1>13, <1>14, <1>15, <1>16

\* From TEST_LOGIC_RESET to SHIFT_IR.
LEMMA ResetToShiftIRClocks ==
  ASSUME NEW c, IsCable(c), c.tap = "TEST_LOGIC_RESET", c.reset \in BOOLEAN
  PROVE  LET d == ClockAll(c, TmsClocks(<<0, 1, 1, 0, 0>>))
         IN  /\ At(d, "SHIFT_IR", 0, c.chain) /\ d.reset = c.reset
             /\ d.latched = c.latched
             /\ d.reg = Bits("status", c.captures + 1, IrLen)
             /\ Trail(c, TmsClocks(<<0, 1, 1, 0, 0>>), {c.latched, d.latched})
<1>1. PICK c0 : c0 = c  OBVIOUS
<1>2. /\ IsCable(c0)
       /\ c0.tap = "TEST_LOGIC_RESET"
       /\ c0.chain = c.chain
       /\ c0.reset = c.reset
       /\ c0.latched = c.latched
       /\ c0.reg = c.reg
       /\ c0.captures = c.captures
  BY <1>1
<1>3. PICK c1 : c1 = Clock(c0, [tms |-> 0, tdi |-> High])  OBVIOUS
<1>4. /\ IsCable(c1)
       /\ c1.tap = "RUN_TEST_IDLE"
       /\ c1.chain = c.chain
       /\ c1.reset = c.reset
       /\ c1.latched = c.latched
       /\ c1.level = 0
       /\ c1.reg = c.reg
       /\ c1.captures = c.captures
  <2>1. c1.level = 0 /\ c1.tap = "RUN_TEST_IDLE"
    <3>1. TapNext["TEST_LOGIC_RESET"][0 + 1] = "RUN_TEST_IDLE"  BY DEF TapNext
    <3>2. c0.tap = "TEST_LOGIC_RESET" /\ IsCable(c0) /\ 0 \in {0, 1}  BY ONLY <1>2
    <3>. QED  BY ONLY <1>3, <3>1, <3>2, TmsClockIs
  <2>2. PICK k : k = [tms |-> 0, tdi |-> High]  OBVIOUS
  <2>3. Clocked(c0, k, c1)  BY ONLY <1>3, <1>2, <2>2, ClockIs
  <2>. QED  BY ONLY <1>2, <2>1, <2>3, c.reset \in BOOLEAN DEF Clocked
<1>5. PICK c2 : c2 = Clock(c1, [tms |-> 1, tdi |-> High])  OBVIOUS
<1>6. /\ IsCable(c2)
       /\ c2.tap = "SELECT_DR_SCAN"
       /\ c2.chain = c.chain
       /\ c2.reset = c.reset
       /\ c2.latched = c.latched
       /\ c2.level = 1
       /\ c2.reg = c.reg
       /\ c2.captures = c.captures
  <2>1. c2.level = 1 /\ c2.tap = "SELECT_DR_SCAN"
    <3>1. TapNext["RUN_TEST_IDLE"][1 + 1] = "SELECT_DR_SCAN"  BY DEF TapNext
    <3>2. c1.tap = "RUN_TEST_IDLE" /\ IsCable(c1) /\ 1 \in {0, 1}  BY ONLY <1>4
    <3>. QED  BY ONLY <1>5, <3>1, <3>2, TmsClockIs
  <2>2. PICK k : k = [tms |-> 1, tdi |-> High]  OBVIOUS
  <2>3. Clocked(c1, k, c2)  BY ONLY <1>5, <1>4, <2>2, ClockIs
  <2>. QED  BY ONLY <1>4, <2>1, <2>3, c.reset \in BOOLEAN DEF Clocked
<1>7. PICK c3 : c3 = Clock(c2, [tms |-> 1, tdi |-> High])  OBVIOUS
<1>8. /\ IsCable(c3)
       /\ c3.tap = "SELECT_IR_SCAN"
       /\ c3.chain = c.chain
       /\ c3.reset = c.reset
       /\ c3.latched = c.latched
       /\ c3.level = 1
       /\ c3.reg = c.reg
       /\ c3.captures = c.captures
  <2>1. c3.level = 1 /\ c3.tap = "SELECT_IR_SCAN"
    <3>1. TapNext["SELECT_DR_SCAN"][1 + 1] = "SELECT_IR_SCAN"  BY DEF TapNext
    <3>2. c2.tap = "SELECT_DR_SCAN" /\ IsCable(c2) /\ 1 \in {0, 1}  BY ONLY <1>6
    <3>. QED  BY ONLY <1>7, <3>1, <3>2, TmsClockIs
  <2>2. PICK k : k = [tms |-> 1, tdi |-> High]  OBVIOUS
  <2>3. Clocked(c2, k, c3)  BY ONLY <1>7, <1>6, <2>2, ClockIs
  <2>. QED  BY ONLY <1>6, <2>1, <2>3, c.reset \in BOOLEAN DEF Clocked
<1>9. PICK c4 : c4 = Clock(c3, [tms |-> 0, tdi |-> High])  OBVIOUS
<1>10. /\ IsCable(c4)
       /\ c4.tap = "CAPTURE_IR"
       /\ c4.chain = c.chain
       /\ c4.reset = c.reset
       /\ c4.latched = c.latched
       /\ c4.level = 0
       /\ c4.reg = c.reg
       /\ c4.captures = c.captures
  <2>1. c4.level = 0 /\ c4.tap = "CAPTURE_IR"
    <3>1. TapNext["SELECT_IR_SCAN"][0 + 1] = "CAPTURE_IR"  BY DEF TapNext
    <3>2. c3.tap = "SELECT_IR_SCAN" /\ IsCable(c3) /\ 0 \in {0, 1}  BY ONLY <1>8
    <3>. QED  BY ONLY <1>9, <3>1, <3>2, TmsClockIs
  <2>2. PICK k : k = [tms |-> 0, tdi |-> High]  OBVIOUS
  <2>3. Clocked(c3, k, c4)  BY ONLY <1>9, <1>8, <2>2, ClockIs
  <2>. QED  BY ONLY <1>8, <2>1, <2>3, c.reset \in BOOLEAN DEF Clocked
<1>11. PICK c5 : c5 = Clock(c4, [tms |-> 0, tdi |-> High])  OBVIOUS
<1>12. /\ IsCable(c5)
       /\ c5.tap = "SHIFT_IR"
       /\ c5.chain = c.chain
       /\ c5.reset = c.reset
       /\ c5.latched = c.latched
       /\ c5.level = 0
       /\ c5.reg = Bits("status", c.captures + 1, IrLen)
  <2>1. c5.level = 0 /\ c5.tap = "SHIFT_IR"
    <3>1. TapNext["CAPTURE_IR"][0 + 1] = "SHIFT_IR"  BY DEF TapNext
    <3>2. c4.tap = "CAPTURE_IR" /\ IsCable(c4) /\ 0 \in {0, 1}  BY ONLY <1>10
    <3>. QED  BY ONLY <1>11, <3>1, <3>2, TmsClockIs
  <2>2. PICK k : k = [tms |-> 0, tdi |-> High]  OBVIOUS
  <2>3. Clocked(c4, k, c5)  BY ONLY <1>11, <1>10, <2>2, ClockIs
  <2>. QED  BY ONLY <1>10, <2>1, <2>3, c.reset \in BOOLEAN DEF Clocked
<1>13. PICK L : L = {c0.latched, c1.latched, c2.latched, c3.latched, c4.latched, c5.latched}  OBVIOUS
<1>14. After(c, <<>>, c0, L)  BY <1>1, <1>2, <1>13, AfterNone
<1>15. After(c, <<0>>, c1, L)
  <2>1. <<0>> = Append(<<>>, 0)  BY ONLY Patterns
  <2>2. c1.latched \in L /\ 0 \in {0, 1}  BY <1>13
  <2>. QED  BY ONLY <1>3, <1>14, <2>1, <2>2, AfterNext
<1>16. After(c, <<0, 1>>, c2, L)
  <2>1. <<0, 1>> = Append(<<0>>, 1)  BY ONLY Patterns
  <2>2. c2.latched \in L /\ 1 \in {0, 1}  BY <1>13
  <2>. QED  BY ONLY <1>5, <1>15, <2>1, <2>2, AfterNext
<1>17. After(c, <<0, 1, 1>>, c3, L)
  <2>1. <<0, 1, 1>> = Append(<<0, 1>>, 1)  BY ONLY Patterns
  <2>2. c3.latched \in L /\ 1 \in {0, 1}  BY <1>13
  <2>. QED  BY ONLY <1>7, <1>16, <2>1, <2>2, AfterNext
<1>18. After(c, <<0, 1, 1, 0>>, c4, L)
  <2>1. <<0, 1, 1, 0>> = Append(<<0, 1, 1>>, 0)  BY ONLY Patterns
  <2>2. c4.latched \in L /\ 0 \in {0, 1}  BY <1>13
  <2>. QED  BY ONLY <1>9, <1>17, <2>1, <2>2, AfterNext
<1>19. After(c, <<0, 1, 1, 0, 0>>, c5, L)
  <2>1. <<0, 1, 1, 0, 0>> = Append(<<0, 1, 1, 0>>, 0)  BY ONLY Patterns
  <2>2. c5.latched \in L /\ 0 \in {0, 1}  BY <1>13
  <2>. QED  BY ONLY <1>11, <1>18, <2>1, <2>2, AfterNext
<1>20. L \subseteq {c.latched, c5.latched}  BY ONLY <1>13, <1>2, <1>4, <1>6, <1>8, <1>10, <1>12
<1>21. Trail(c, TmsClocks(<<0, 1, 1, 0, 0>>), {c.latched, c5.latched}) /\ c5 = ClockAll(c, TmsClocks(<<0, 1, 1, 0, 0>>))
  BY ONLY <1>19, <1>20, TrailIn DEF After
<1>. QED  BY ONLY <1>21, <1>12 DEF At

\* From TEST_LOGIC_RESET to SHIFT_DR.
LEMMA ResetToShiftDRClocks ==
  ASSUME NEW c, IsCable(c), c.tap = "TEST_LOGIC_RESET", c.reset \in BOOLEAN
  PROVE  LET d == ClockAll(c, TmsClocks(<<0, 1, 0, 0>>))
         IN  /\ At(d, "SHIFT_DR", 0, c.chain) /\ d.reset = c.reset
             /\ d.latched = c.latched
             /\ d.reg = (IF c.reset THEN Ids(c.chain) ELSE <<>>)
             /\ Trail(c, TmsClocks(<<0, 1, 0, 0>>), {c.latched, d.latched})
<1>1. PICK c0 : c0 = c  OBVIOUS
<1>2. /\ IsCable(c0)
       /\ c0.tap = "TEST_LOGIC_RESET"
       /\ c0.chain = c.chain
       /\ c0.reset = c.reset
       /\ c0.latched = c.latched
       /\ c0.reg = c.reg
  BY <1>1
<1>3. PICK c1 : c1 = Clock(c0, [tms |-> 0, tdi |-> High])  OBVIOUS
<1>4. /\ IsCable(c1)
       /\ c1.tap = "RUN_TEST_IDLE"
       /\ c1.chain = c.chain
       /\ c1.reset = c.reset
       /\ c1.latched = c.latched
       /\ c1.level = 0
       /\ c1.reg = c.reg
  <2>1. c1.level = 0 /\ c1.tap = "RUN_TEST_IDLE"
    <3>1. TapNext["TEST_LOGIC_RESET"][0 + 1] = "RUN_TEST_IDLE"  BY DEF TapNext
    <3>2. c0.tap = "TEST_LOGIC_RESET" /\ IsCable(c0) /\ 0 \in {0, 1}  BY ONLY <1>2
    <3>. QED  BY ONLY <1>3, <3>1, <3>2, TmsClockIs
  <2>2. PICK k : k = [tms |-> 0, tdi |-> High]  OBVIOUS
  <2>3. Clocked(c0, k, c1)  BY ONLY <1>3, <1>2, <2>2, ClockIs
  <2>. QED  BY ONLY <1>2, <2>1, <2>3, c.reset \in BOOLEAN DEF Clocked
<1>5. PICK c2 : c2 = Clock(c1, [tms |-> 1, tdi |-> High])  OBVIOUS
<1>6. /\ IsCable(c2)
       /\ c2.tap = "SELECT_DR_SCAN"
       /\ c2.chain = c.chain
       /\ c2.reset = c.reset
       /\ c2.latched = c.latched
       /\ c2.level = 1
       /\ c2.reg = c.reg
  <2>1. c2.level = 1 /\ c2.tap = "SELECT_DR_SCAN"
    <3>1. TapNext["RUN_TEST_IDLE"][1 + 1] = "SELECT_DR_SCAN"  BY DEF TapNext
    <3>2. c1.tap = "RUN_TEST_IDLE" /\ IsCable(c1) /\ 1 \in {0, 1}  BY ONLY <1>4
    <3>. QED  BY ONLY <1>5, <3>1, <3>2, TmsClockIs
  <2>2. PICK k : k = [tms |-> 1, tdi |-> High]  OBVIOUS
  <2>3. Clocked(c1, k, c2)  BY ONLY <1>5, <1>4, <2>2, ClockIs
  <2>. QED  BY ONLY <1>4, <2>1, <2>3, c.reset \in BOOLEAN DEF Clocked
<1>7. PICK c3 : c3 = Clock(c2, [tms |-> 0, tdi |-> High])  OBVIOUS
<1>8. /\ IsCable(c3)
       /\ c3.tap = "CAPTURE_DR"
       /\ c3.chain = c.chain
       /\ c3.reset = c.reset
       /\ c3.latched = c.latched
       /\ c3.level = 0
       /\ c3.reg = c.reg
  <2>1. c3.level = 0 /\ c3.tap = "CAPTURE_DR"
    <3>1. TapNext["SELECT_DR_SCAN"][0 + 1] = "CAPTURE_DR"  BY DEF TapNext
    <3>2. c2.tap = "SELECT_DR_SCAN" /\ IsCable(c2) /\ 0 \in {0, 1}  BY ONLY <1>6
    <3>. QED  BY ONLY <1>7, <3>1, <3>2, TmsClockIs
  <2>2. PICK k : k = [tms |-> 0, tdi |-> High]  OBVIOUS
  <2>3. Clocked(c2, k, c3)  BY ONLY <1>7, <1>6, <2>2, ClockIs
  <2>. QED  BY ONLY <1>6, <2>1, <2>3, c.reset \in BOOLEAN DEF Clocked
<1>9. PICK c4 : c4 = Clock(c3, [tms |-> 0, tdi |-> High])  OBVIOUS
<1>10. /\ IsCable(c4)
       /\ c4.tap = "SHIFT_DR"
       /\ c4.chain = c.chain
       /\ c4.reset = c.reset
       /\ c4.latched = c.latched
       /\ c4.level = 0
       /\ c4.reg = (IF c.reset THEN Ids(c.chain) ELSE <<>>)
  <2>1. c4.level = 0 /\ c4.tap = "SHIFT_DR"
    <3>1. TapNext["CAPTURE_DR"][0 + 1] = "SHIFT_DR"  BY DEF TapNext
    <3>2. c3.tap = "CAPTURE_DR" /\ IsCable(c3) /\ 0 \in {0, 1}  BY ONLY <1>8
    <3>. QED  BY ONLY <1>9, <3>1, <3>2, TmsClockIs
  <2>2. PICK k : k = [tms |-> 0, tdi |-> High]  OBVIOUS
  <2>3. Clocked(c3, k, c4)  BY ONLY <1>9, <1>8, <2>2, ClockIs
  <2>. QED  BY ONLY <1>8, <2>1, <2>3, c.reset \in BOOLEAN DEF Clocked
<1>11. PICK L : L = {c0.latched, c1.latched, c2.latched, c3.latched, c4.latched}  OBVIOUS
<1>12. After(c, <<>>, c0, L)  BY <1>1, <1>2, <1>11, AfterNone
<1>13. After(c, <<0>>, c1, L)
  <2>1. <<0>> = Append(<<>>, 0)  BY ONLY Patterns
  <2>2. c1.latched \in L /\ 0 \in {0, 1}  BY <1>11
  <2>. QED  BY ONLY <1>3, <1>12, <2>1, <2>2, AfterNext
<1>14. After(c, <<0, 1>>, c2, L)
  <2>1. <<0, 1>> = Append(<<0>>, 1)  BY ONLY Patterns
  <2>2. c2.latched \in L /\ 1 \in {0, 1}  BY <1>11
  <2>. QED  BY ONLY <1>5, <1>13, <2>1, <2>2, AfterNext
<1>15. After(c, <<0, 1, 0>>, c3, L)
  <2>1. <<0, 1, 0>> = Append(<<0, 1>>, 0)  BY ONLY Patterns
  <2>2. c3.latched \in L /\ 0 \in {0, 1}  BY <1>11
  <2>. QED  BY ONLY <1>7, <1>14, <2>1, <2>2, AfterNext
<1>16. After(c, <<0, 1, 0, 0>>, c4, L)
  <2>1. <<0, 1, 0, 0>> = Append(<<0, 1, 0>>, 0)  BY ONLY Patterns
  <2>2. c4.latched \in L /\ 0 \in {0, 1}  BY <1>11
  <2>. QED  BY ONLY <1>9, <1>15, <2>1, <2>2, AfterNext
<1>17. L \subseteq {c.latched, c4.latched}  BY ONLY <1>11, <1>2, <1>4, <1>6, <1>8, <1>10
<1>18. Trail(c, TmsClocks(<<0, 1, 0, 0>>), {c.latched, c4.latched}) /\ c4 = ClockAll(c, TmsClocks(<<0, 1, 0, 0>>))
  BY ONLY <1>16, <1>17, TrailIn DEF After
<1>. QED  BY ONLY <1>18, <1>10 DEF At

\* From RUN_TEST_IDLE to SHIFT_IR.
LEMMA IdleToShiftIRClocks ==
  ASSUME NEW c, IsCable(c), c.tap = "RUN_TEST_IDLE", c.reset \in BOOLEAN
  PROVE  LET d == ClockAll(c, TmsClocks(<<1, 1, 0, 0>>))
         IN  /\ At(d, "SHIFT_IR", 0, c.chain) /\ d.reset = c.reset
             /\ d.latched = c.latched
             /\ d.reg = Bits("status", c.captures + 1, IrLen)
             /\ Trail(c, TmsClocks(<<1, 1, 0, 0>>), {c.latched, d.latched})
<1>1. PICK c0 : c0 = c  OBVIOUS
<1>2. /\ IsCable(c0)
       /\ c0.tap = "RUN_TEST_IDLE"
       /\ c0.chain = c.chain
       /\ c0.reset = c.reset
       /\ c0.latched = c.latched
       /\ c0.reg = c.reg
       /\ c0.captures = c.captures
  BY <1>1
<1>3. PICK c1 : c1 = Clock(c0, [tms |-> 1, tdi |-> High])  OBVIOUS
<1>4. /\ IsCable(c1)
       /\ c1.tap = "SELECT_DR_SCAN"
       /\ c1.chain = c.chain
       /\ c1.reset = c.reset
       /\ c1.latched = c.latched
       /\ c1.level = 1
       /\ c1.reg = c.reg
       /\ c1.captures = c.captures
  <2>1. c1.level = 1 /\ c1.tap = "SELECT_DR_SCAN"
    <3>1. TapNext["RUN_TEST_IDLE"][1 + 1] = "SELECT_DR_SCAN"  BY DEF TapNext
    <3>2. c0.tap = "RUN_TEST_IDLE" /\ IsCable(c0) /\ 1 \in {0, 1}  BY ONLY <1>2
    <3>. QED  BY ONLY <1>3, <3>1, <3>2, TmsClockIs
  <2>2. PICK k : k = [tms |-> 1, tdi |-> High]  OBVIOUS
  <2>3. Clocked(c0, k, c1)  BY ONLY <1>3, <1>2, <2>2, ClockIs
  <2>. QED  BY ONLY <1>2, <2>1, <2>3, c.reset \in BOOLEAN DEF Clocked
<1>5. PICK c2 : c2 = Clock(c1, [tms |-> 1, tdi |-> High])  OBVIOUS
<1>6. /\ IsCable(c2)
       /\ c2.tap = "SELECT_IR_SCAN"
       /\ c2.chain = c.chain
       /\ c2.reset = c.reset
       /\ c2.latched = c.latched
       /\ c2.level = 1
       /\ c2.reg = c.reg
       /\ c2.captures = c.captures
  <2>1. c2.level = 1 /\ c2.tap = "SELECT_IR_SCAN"
    <3>1. TapNext["SELECT_DR_SCAN"][1 + 1] = "SELECT_IR_SCAN"  BY DEF TapNext
    <3>2. c1.tap = "SELECT_DR_SCAN" /\ IsCable(c1) /\ 1 \in {0, 1}  BY ONLY <1>4
    <3>. QED  BY ONLY <1>5, <3>1, <3>2, TmsClockIs
  <2>2. PICK k : k = [tms |-> 1, tdi |-> High]  OBVIOUS
  <2>3. Clocked(c1, k, c2)  BY ONLY <1>5, <1>4, <2>2, ClockIs
  <2>. QED  BY ONLY <1>4, <2>1, <2>3, c.reset \in BOOLEAN DEF Clocked
<1>7. PICK c3 : c3 = Clock(c2, [tms |-> 0, tdi |-> High])  OBVIOUS
<1>8. /\ IsCable(c3)
       /\ c3.tap = "CAPTURE_IR"
       /\ c3.chain = c.chain
       /\ c3.reset = c.reset
       /\ c3.latched = c.latched
       /\ c3.level = 0
       /\ c3.reg = c.reg
       /\ c3.captures = c.captures
  <2>1. c3.level = 0 /\ c3.tap = "CAPTURE_IR"
    <3>1. TapNext["SELECT_IR_SCAN"][0 + 1] = "CAPTURE_IR"  BY DEF TapNext
    <3>2. c2.tap = "SELECT_IR_SCAN" /\ IsCable(c2) /\ 0 \in {0, 1}  BY ONLY <1>6
    <3>. QED  BY ONLY <1>7, <3>1, <3>2, TmsClockIs
  <2>2. PICK k : k = [tms |-> 0, tdi |-> High]  OBVIOUS
  <2>3. Clocked(c2, k, c3)  BY ONLY <1>7, <1>6, <2>2, ClockIs
  <2>. QED  BY ONLY <1>6, <2>1, <2>3, c.reset \in BOOLEAN DEF Clocked
<1>9. PICK c4 : c4 = Clock(c3, [tms |-> 0, tdi |-> High])  OBVIOUS
<1>10. /\ IsCable(c4)
       /\ c4.tap = "SHIFT_IR"
       /\ c4.chain = c.chain
       /\ c4.reset = c.reset
       /\ c4.latched = c.latched
       /\ c4.level = 0
       /\ c4.reg = Bits("status", c.captures + 1, IrLen)
  <2>1. c4.level = 0 /\ c4.tap = "SHIFT_IR"
    <3>1. TapNext["CAPTURE_IR"][0 + 1] = "SHIFT_IR"  BY DEF TapNext
    <3>2. c3.tap = "CAPTURE_IR" /\ IsCable(c3) /\ 0 \in {0, 1}  BY ONLY <1>8
    <3>. QED  BY ONLY <1>9, <3>1, <3>2, TmsClockIs
  <2>2. PICK k : k = [tms |-> 0, tdi |-> High]  OBVIOUS
  <2>3. Clocked(c3, k, c4)  BY ONLY <1>9, <1>8, <2>2, ClockIs
  <2>. QED  BY ONLY <1>8, <2>1, <2>3, c.reset \in BOOLEAN DEF Clocked
<1>11. PICK L : L = {c0.latched, c1.latched, c2.latched, c3.latched, c4.latched}  OBVIOUS
<1>12. After(c, <<>>, c0, L)  BY <1>1, <1>2, <1>11, AfterNone
<1>13. After(c, <<1>>, c1, L)
  <2>1. <<1>> = Append(<<>>, 1)  BY ONLY Patterns
  <2>2. c1.latched \in L /\ 1 \in {0, 1}  BY <1>11
  <2>. QED  BY ONLY <1>3, <1>12, <2>1, <2>2, AfterNext
<1>14. After(c, <<1, 1>>, c2, L)
  <2>1. <<1, 1>> = Append(<<1>>, 1)  BY ONLY Patterns
  <2>2. c2.latched \in L /\ 1 \in {0, 1}  BY <1>11
  <2>. QED  BY ONLY <1>5, <1>13, <2>1, <2>2, AfterNext
<1>15. After(c, <<1, 1, 0>>, c3, L)
  <2>1. <<1, 1, 0>> = Append(<<1, 1>>, 0)  BY ONLY Patterns
  <2>2. c3.latched \in L /\ 0 \in {0, 1}  BY <1>11
  <2>. QED  BY ONLY <1>7, <1>14, <2>1, <2>2, AfterNext
<1>16. After(c, <<1, 1, 0, 0>>, c4, L)
  <2>1. <<1, 1, 0, 0>> = Append(<<1, 1, 0>>, 0)  BY ONLY Patterns
  <2>2. c4.latched \in L /\ 0 \in {0, 1}  BY <1>11
  <2>. QED  BY ONLY <1>9, <1>15, <2>1, <2>2, AfterNext
<1>17. L \subseteq {c.latched, c4.latched}  BY ONLY <1>11, <1>2, <1>4, <1>6, <1>8, <1>10
<1>18. Trail(c, TmsClocks(<<1, 1, 0, 0>>), {c.latched, c4.latched}) /\ c4 = ClockAll(c, TmsClocks(<<1, 1, 0, 0>>))
  BY ONLY <1>16, <1>17, TrailIn DEF After
<1>. QED  BY ONLY <1>18, <1>10 DEF At

\* From RUN_TEST_IDLE to SHIFT_DR.
LEMMA IdleToShiftDRClocks ==
  ASSUME NEW c, IsCable(c), c.tap = "RUN_TEST_IDLE", c.reset \in BOOLEAN
  PROVE  LET d == ClockAll(c, TmsClocks(<<1, 0, 0>>))
         IN  /\ At(d, "SHIFT_DR", 0, c.chain) /\ d.reset = c.reset
             /\ d.latched = c.latched
             /\ d.reg = (IF c.reset THEN Ids(c.chain) ELSE <<>>)
             /\ Trail(c, TmsClocks(<<1, 0, 0>>), {c.latched, d.latched})
<1>1. PICK c0 : c0 = c  OBVIOUS
<1>2. /\ IsCable(c0)
       /\ c0.tap = "RUN_TEST_IDLE"
       /\ c0.chain = c.chain
       /\ c0.reset = c.reset
       /\ c0.latched = c.latched
       /\ c0.reg = c.reg
  BY <1>1
<1>3. PICK c1 : c1 = Clock(c0, [tms |-> 1, tdi |-> High])  OBVIOUS
<1>4. /\ IsCable(c1)
       /\ c1.tap = "SELECT_DR_SCAN"
       /\ c1.chain = c.chain
       /\ c1.reset = c.reset
       /\ c1.latched = c.latched
       /\ c1.level = 1
       /\ c1.reg = c.reg
  <2>1. c1.level = 1 /\ c1.tap = "SELECT_DR_SCAN"
    <3>1. TapNext["RUN_TEST_IDLE"][1 + 1] = "SELECT_DR_SCAN"  BY DEF TapNext
    <3>2. c0.tap = "RUN_TEST_IDLE" /\ IsCable(c0) /\ 1 \in {0, 1}  BY ONLY <1>2
    <3>. QED  BY ONLY <1>3, <3>1, <3>2, TmsClockIs
  <2>2. PICK k : k = [tms |-> 1, tdi |-> High]  OBVIOUS
  <2>3. Clocked(c0, k, c1)  BY ONLY <1>3, <1>2, <2>2, ClockIs
  <2>. QED  BY ONLY <1>2, <2>1, <2>3, c.reset \in BOOLEAN DEF Clocked
<1>5. PICK c2 : c2 = Clock(c1, [tms |-> 0, tdi |-> High])  OBVIOUS
<1>6. /\ IsCable(c2)
       /\ c2.tap = "CAPTURE_DR"
       /\ c2.chain = c.chain
       /\ c2.reset = c.reset
       /\ c2.latched = c.latched
       /\ c2.level = 0
       /\ c2.reg = c.reg
  <2>1. c2.level = 0 /\ c2.tap = "CAPTURE_DR"
    <3>1. TapNext["SELECT_DR_SCAN"][0 + 1] = "CAPTURE_DR"  BY DEF TapNext
    <3>2. c1.tap = "SELECT_DR_SCAN" /\ IsCable(c1) /\ 0 \in {0, 1}  BY ONLY <1>4
    <3>. QED  BY ONLY <1>5, <3>1, <3>2, TmsClockIs
  <2>2. PICK k : k = [tms |-> 0, tdi |-> High]  OBVIOUS
  <2>3. Clocked(c1, k, c2)  BY ONLY <1>5, <1>4, <2>2, ClockIs
  <2>. QED  BY ONLY <1>4, <2>1, <2>3, c.reset \in BOOLEAN DEF Clocked
<1>7. PICK c3 : c3 = Clock(c2, [tms |-> 0, tdi |-> High])  OBVIOUS
<1>8. /\ IsCable(c3)
       /\ c3.tap = "SHIFT_DR"
       /\ c3.chain = c.chain
       /\ c3.reset = c.reset
       /\ c3.latched = c.latched
       /\ c3.level = 0
       /\ c3.reg = (IF c.reset THEN Ids(c.chain) ELSE <<>>)
  <2>1. c3.level = 0 /\ c3.tap = "SHIFT_DR"
    <3>1. TapNext["CAPTURE_DR"][0 + 1] = "SHIFT_DR"  BY DEF TapNext
    <3>2. c2.tap = "CAPTURE_DR" /\ IsCable(c2) /\ 0 \in {0, 1}  BY ONLY <1>6
    <3>. QED  BY ONLY <1>7, <3>1, <3>2, TmsClockIs
  <2>2. PICK k : k = [tms |-> 0, tdi |-> High]  OBVIOUS
  <2>3. Clocked(c2, k, c3)  BY ONLY <1>7, <1>6, <2>2, ClockIs
  <2>. QED  BY ONLY <1>6, <2>1, <2>3, c.reset \in BOOLEAN DEF Clocked
<1>9. PICK L : L = {c0.latched, c1.latched, c2.latched, c3.latched}  OBVIOUS
<1>10. After(c, <<>>, c0, L)  BY <1>1, <1>2, <1>9, AfterNone
<1>11. After(c, <<1>>, c1, L)
  <2>1. <<1>> = Append(<<>>, 1)  BY ONLY Patterns
  <2>2. c1.latched \in L /\ 1 \in {0, 1}  BY <1>9
  <2>. QED  BY ONLY <1>3, <1>10, <2>1, <2>2, AfterNext
<1>12. After(c, <<1, 0>>, c2, L)
  <2>1. <<1, 0>> = Append(<<1>>, 0)  BY ONLY Patterns
  <2>2. c2.latched \in L /\ 0 \in {0, 1}  BY <1>9
  <2>. QED  BY ONLY <1>5, <1>11, <2>1, <2>2, AfterNext
<1>13. After(c, <<1, 0, 0>>, c3, L)
  <2>1. <<1, 0, 0>> = Append(<<1, 0>>, 0)  BY ONLY Patterns
  <2>2. c3.latched \in L /\ 0 \in {0, 1}  BY <1>9
  <2>. QED  BY ONLY <1>7, <1>12, <2>1, <2>2, AfterNext
<1>14. L \subseteq {c.latched, c3.latched}  BY ONLY <1>9, <1>2, <1>4, <1>6, <1>8
<1>15. Trail(c, TmsClocks(<<1, 0, 0>>), {c.latched, c3.latched}) /\ c3 = ClockAll(c, TmsClocks(<<1, 0, 0>>))
  BY ONLY <1>13, <1>14, TrailIn DEF After
<1>. QED  BY ONLY <1>15, <1>8 DEF At

\* From EXIT1_IR to RUN_TEST_IDLE.
LEMMA Exit1IRToIdleClocks ==
  ASSUME NEW c, IsCable(c), c.tap = "EXIT1_IR", c.reset \in BOOLEAN
  PROVE  LET d == ClockAll(c, TmsClocks(<<1, 0>>))
         IN  /\ At(d, "RUN_TEST_IDLE", 0, c.chain) /\ d.reset = FALSE
             /\ d.latched = Append(c.latched, c.reg)
             /\ Trail(c, TmsClocks(<<1, 0>>), {c.latched, d.latched})
<1>1. PICK c0 : c0 = c  OBVIOUS
<1>2. /\ IsCable(c0)
       /\ c0.tap = "EXIT1_IR"
       /\ c0.chain = c.chain
       /\ c0.reset = c.reset
       /\ c0.latched = c.latched
       /\ c0.reg = c.reg
  BY <1>1
<1>3. PICK c1 : c1 = Clock(c0, [tms |-> 1, tdi |-> High])  OBVIOUS
<1>4. /\ IsCable(c1)
       /\ c1.tap = "UPDATE_IR"
       /\ c1.chain = c.chain
       /\ c1.reset = FALSE
       /\ c1.latched = Append(c.latched, c.reg)
       /\ c1.level = 1
       /\ c1.reg = c.reg
  <2>1. c1.level = 1 /\ c1.tap = "UPDATE_IR"
    <3>1. TapNext["EXIT1_IR"][1 + 1] = "UPDATE_IR"  BY DEF TapNext
    <3>2. c0.tap = "EXIT1_IR" /\ IsCable(c0) /\ 1 \in {0, 1}  BY ONLY <1>2
    <3>. QED  BY ONLY <1>3, <3>1, <3>2, TmsClockIs
  <2>2. PICK k : k = [tms |-> 1, tdi |-> High]  OBVIOUS
  <2>3. Clocked(c0, k, c1)  BY ONLY <1>3, <1>2, <2>2, ClockIs
  <2>. QED  BY ONLY <1>2, <2>1, <2>3, c.reset \in BOOLEAN DEF Clocked
<1>5. PICK c2 : c2 = Clock(c1, [tms |-> 0, tdi |-> High])  OBVIOUS
<1>6. /\ IsCable(c2)
       /\ c2.tap = "RUN_TEST_IDLE"
       /\ c2.chain = c.chain
       /\ c2.reset = FALSE
       /\ c2.latched = Append(c.latched, c.reg)
       /\ c2.level = 0
       /\ c2.reg = c.reg
  <2>1. c2.level = 0 /\ c2.tap = "RUN_TEST_IDLE"
    <3>1. TapNext["UPDATE_IR"][0 + 1] = "RUN_TEST_IDLE"  BY DEF TapNext
    <3>2. c1.tap = "UPDATE_IR" /\ IsCable(c1) /\ 0 \in {0, 1}  BY ONLY <1>4
    <3>. QED  BY ONLY <1>5, <3>1, <3>2, TmsClockIs
  <2>2. PICK k : k = [tms |-> 0, tdi |-> High]  OBVIOUS
  <2>3. Clocked(c1, k, c2)  BY ONLY <1>5, <1>4, <2>2, ClockIs
  <2>. QED  BY ONLY <1>4, <2>1, <2>3, c.reset \in BOOLEAN DEF Clocked
<1>7. PICK L : L = {c0.latched, c1.latched, c2.latched}  OBVIOUS
<1>8. After(c, <<>>, c0, L)  BY <1>1, <1>2, <1>7, AfterNone
<1>9. After(c, <<1>>, c1, L)
  <2>1. <<1>> = Append(<<>>, 1)  BY ONLY Patterns
  <2>2. c1.latched \in L /\ 1 \in {0, 1}  BY <1>7
  <2>. QED  BY ONLY <1>3, <1>8, <2>1, <2>2, AfterNext
<1>10. After(c, <<1, 0>>, c2, L)
  <2>1. <<1, 0>> = Append(<<1>>, 0)  BY ONLY Patterns
  <2>2. c2.latched \in L /\ 0 \in {0, 1}  BY <1>7
  <2>. QED  BY ONLY <1>5, <1>9, <2>1, <2>2, AfterNext
<1>11. L \subseteq {c.latched, c2.latched}  BY ONLY <1>7, <1>2, <1>4, <1>6
<1>12. Trail(c, TmsClocks(<<1, 0>>), {c.latched, c2.latched}) /\ c2 = ClockAll(c, TmsClocks(<<1, 0>>))
  BY ONLY <1>10, <1>11, TrailIn DEF After
<1>. QED  BY ONLY <1>12, <1>6 DEF At

\* From EXIT1_DR to RUN_TEST_IDLE.
LEMMA Exit1DRToIdleClocks ==
  ASSUME NEW c, IsCable(c), c.tap = "EXIT1_DR", c.reset \in BOOLEAN
  PROVE  LET d == ClockAll(c, TmsClocks(<<1, 0>>))
         IN  /\ At(d, "RUN_TEST_IDLE", 0, c.chain) /\ d.reset = c.reset
             /\ d.latched = (IF c.reset THEN c.latched ELSE Append(c.latched, c.reg))
             /\ Trail(c, TmsClocks(<<1, 0>>), {c.latched, d.latched})
<1>1. PICK c0 : c0 = c  OBVIOUS
<1>2. /\ IsCable(c0)
       /\ c0.tap = "EXIT1_DR"
       /\ c0.chain = c.chain
       /\ c0.reset = c.reset
       /\ c0.latched = c.latched
       /\ c0.reg = c.reg
  BY <1>1
<1>3. PICK c1 : c1 = Clock(c0, [tms |-> 1, tdi |-> High])  OBVIOUS
<1>4. /\ IsCable(c1)
       /\ c1.tap = "UPDATE_DR"
       /\ c1.chain = c.chain
       /\ c1.reset = c.reset
       /\ c1.latched = (IF c.reset THEN c.latched ELSE Append(c.latched, c.reg))
       /\ c1.level = 1
       /\ c1.reg = c.reg
  <2>1. c1.level = 1 /\ c1.tap = "UPDATE_DR"
    <3>1. TapNext["EXIT1_DR"][1 + 1] = "UPDATE_DR"  BY DEF TapNext
    <3>2. c0.tap = "EXIT1_DR" /\ IsCable(c0) /\ 1 \in {0, 1}  BY ONLY <1>2
    <3>. QED  BY ONLY <1>3, <3>1, <3>2, TmsClockIs
  <2>2. PICK k : k = [tms |-> 1, tdi |-> High]  OBVIOUS
  <2>3. Clocked(c0, k, c1)  BY ONLY <1>3, <1>2, <2>2, ClockIs
  <2>. QED  BY ONLY <1>2, <2>1, <2>3, c.reset \in BOOLEAN DEF Clocked
<1>5. PICK c2 : c2 = Clock(c1, [tms |-> 0, tdi |-> High])  OBVIOUS
<1>6. /\ IsCable(c2)
       /\ c2.tap = "RUN_TEST_IDLE"
       /\ c2.chain = c.chain
       /\ c2.reset = c.reset
       /\ c2.latched = (IF c.reset THEN c.latched ELSE Append(c.latched, c.reg))
       /\ c2.level = 0
       /\ c2.reg = c.reg
  <2>1. c2.level = 0 /\ c2.tap = "RUN_TEST_IDLE"
    <3>1. TapNext["UPDATE_DR"][0 + 1] = "RUN_TEST_IDLE"  BY DEF TapNext
    <3>2. c1.tap = "UPDATE_DR" /\ IsCable(c1) /\ 0 \in {0, 1}  BY ONLY <1>4
    <3>. QED  BY ONLY <1>5, <3>1, <3>2, TmsClockIs
  <2>2. PICK k : k = [tms |-> 0, tdi |-> High]  OBVIOUS
  <2>3. Clocked(c1, k, c2)  BY ONLY <1>5, <1>4, <2>2, ClockIs
  <2>. QED  BY ONLY <1>4, <2>1, <2>3, c.reset \in BOOLEAN DEF Clocked
<1>7. PICK L : L = {c0.latched, c1.latched, c2.latched}  OBVIOUS
<1>8. After(c, <<>>, c0, L)  BY <1>1, <1>2, <1>7, AfterNone
<1>9. After(c, <<1>>, c1, L)
  <2>1. <<1>> = Append(<<>>, 1)  BY ONLY Patterns
  <2>2. c1.latched \in L /\ 1 \in {0, 1}  BY <1>7
  <2>. QED  BY ONLY <1>3, <1>8, <2>1, <2>2, AfterNext
<1>10. After(c, <<1, 0>>, c2, L)
  <2>1. <<1, 0>> = Append(<<1>>, 0)  BY ONLY Patterns
  <2>2. c2.latched \in L /\ 0 \in {0, 1}  BY <1>7
  <2>. QED  BY ONLY <1>5, <1>9, <2>1, <2>2, AfterNext
<1>11. L \subseteq {c.latched, c2.latched}  BY ONLY <1>7, <1>2, <1>4, <1>6
<1>12. Trail(c, TmsClocks(<<1, 0>>), {c.latched, c2.latched}) /\ c2 = ClockAll(c, TmsClocks(<<1, 0>>))
  BY ONLY <1>10, <1>11, TrailIn DEF After
<1>. QED  BY ONLY <1>12, <1>6 DEF At

\* From SHIFT_DR to TEST_LOGIC_RESET, before the first instruction.
LEMMA ShiftDRToResetClocks ==
  ASSUME NEW c, IsCable(c), c.tap = "SHIFT_DR", c.reset \in BOOLEAN,
         c.reset, c.latched = <<>>
  PROVE  LET d == ClockAll(c, TmsClocks(<<1, 1, 1, 1, 1>>))
         IN  /\ At(d, "TEST_LOGIC_RESET", 1, c.chain) /\ d.reset = TRUE
             /\ d.latched = <<>>
             /\ Trail(c, TmsClocks(<<1, 1, 1, 1, 1>>), {c.latched, d.latched})
<1>1. PICK c0 : c0 = c  OBVIOUS
<1>2. /\ IsCable(c0)
       /\ c0.tap = "SHIFT_DR"
       /\ c0.chain = c.chain
       /\ c0.reset = TRUE
       /\ c0.latched = <<>>
  BY <1>1
<1>3. PICK c1 : c1 = Clock(c0, [tms |-> 1, tdi |-> High])  OBVIOUS
<1>4. /\ IsCable(c1)
       /\ c1.tap = "EXIT1_DR"
       /\ c1.chain = c.chain
       /\ c1.reset = TRUE
       /\ c1.latched = <<>>
       /\ c1.level = 1
  <2>1. c1.level = 1 /\ c1.tap = "EXIT1_DR"
    <3>1. TapNext["SHIFT_DR"][1 + 1] = "EXIT1_DR"  BY DEF TapNext
    <3>2. c0.tap = "SHIFT_DR" /\ IsCable(c0) /\ 1 \in {0, 1}  BY ONLY <1>2
    <3>. QED  BY ONLY <1>3, <3>1, <3>2, TmsClockIs
  <2>2. PICK k : k = [tms |-> 1, tdi |-> High]  OBVIOUS
  <2>3. Clocked(c0, k, c1)  BY ONLY <1>3, <1>2, <2>2, ClockIs
  <2>. QED  BY ONLY <1>2, <2>1, <2>3, c.reset \in BOOLEAN DEF Clocked
<1>5. PICK c2 : c2 = Clock(c1, [tms |-> 1, tdi |-> High])  OBVIOUS
<1>6. /\ IsCable(c2)
       /\ c2.tap = "UPDATE_DR"
       /\ c2.chain = c.chain
       /\ c2.reset = TRUE
       /\ c2.latched = <<>>
       /\ c2.level = 1
  <2>1. c2.level = 1 /\ c2.tap = "UPDATE_DR"
    <3>1. TapNext["EXIT1_DR"][1 + 1] = "UPDATE_DR"  BY DEF TapNext
    <3>2. c1.tap = "EXIT1_DR" /\ IsCable(c1) /\ 1 \in {0, 1}  BY ONLY <1>4
    <3>. QED  BY ONLY <1>5, <3>1, <3>2, TmsClockIs
  <2>2. PICK k : k = [tms |-> 1, tdi |-> High]  OBVIOUS
  <2>3. Clocked(c1, k, c2)  BY ONLY <1>5, <1>4, <2>2, ClockIs
  <2>. QED  BY ONLY <1>4, <2>1, <2>3, c.reset \in BOOLEAN DEF Clocked
<1>7. PICK c3 : c3 = Clock(c2, [tms |-> 1, tdi |-> High])  OBVIOUS
<1>8. /\ IsCable(c3)
       /\ c3.tap = "SELECT_DR_SCAN"
       /\ c3.chain = c.chain
       /\ c3.reset = TRUE
       /\ c3.latched = <<>>
       /\ c3.level = 1
  <2>1. c3.level = 1 /\ c3.tap = "SELECT_DR_SCAN"
    <3>1. TapNext["UPDATE_DR"][1 + 1] = "SELECT_DR_SCAN"  BY DEF TapNext
    <3>2. c2.tap = "UPDATE_DR" /\ IsCable(c2) /\ 1 \in {0, 1}  BY ONLY <1>6
    <3>. QED  BY ONLY <1>7, <3>1, <3>2, TmsClockIs
  <2>2. PICK k : k = [tms |-> 1, tdi |-> High]  OBVIOUS
  <2>3. Clocked(c2, k, c3)  BY ONLY <1>7, <1>6, <2>2, ClockIs
  <2>. QED  BY ONLY <1>6, <2>1, <2>3, c.reset \in BOOLEAN DEF Clocked
<1>9. PICK c4 : c4 = Clock(c3, [tms |-> 1, tdi |-> High])  OBVIOUS
<1>10. /\ IsCable(c4)
       /\ c4.tap = "SELECT_IR_SCAN"
       /\ c4.chain = c.chain
       /\ c4.reset = TRUE
       /\ c4.latched = <<>>
       /\ c4.level = 1
  <2>1. c4.level = 1 /\ c4.tap = "SELECT_IR_SCAN"
    <3>1. TapNext["SELECT_DR_SCAN"][1 + 1] = "SELECT_IR_SCAN"  BY DEF TapNext
    <3>2. c3.tap = "SELECT_DR_SCAN" /\ IsCable(c3) /\ 1 \in {0, 1}  BY ONLY <1>8
    <3>. QED  BY ONLY <1>9, <3>1, <3>2, TmsClockIs
  <2>2. PICK k : k = [tms |-> 1, tdi |-> High]  OBVIOUS
  <2>3. Clocked(c3, k, c4)  BY ONLY <1>9, <1>8, <2>2, ClockIs
  <2>. QED  BY ONLY <1>8, <2>1, <2>3, c.reset \in BOOLEAN DEF Clocked
<1>11. PICK c5 : c5 = Clock(c4, [tms |-> 1, tdi |-> High])  OBVIOUS
<1>12. /\ IsCable(c5)
       /\ c5.tap = "TEST_LOGIC_RESET"
       /\ c5.chain = c.chain
       /\ c5.reset = TRUE
       /\ c5.latched = <<>>
       /\ c5.level = 1
  <2>1. c5.level = 1 /\ c5.tap = "TEST_LOGIC_RESET"
    <3>1. TapNext["SELECT_IR_SCAN"][1 + 1] = "TEST_LOGIC_RESET"  BY DEF TapNext
    <3>2. c4.tap = "SELECT_IR_SCAN" /\ IsCable(c4) /\ 1 \in {0, 1}  BY ONLY <1>10
    <3>. QED  BY ONLY <1>11, <3>1, <3>2, TmsClockIs
  <2>2. PICK k : k = [tms |-> 1, tdi |-> High]  OBVIOUS
  <2>3. Clocked(c4, k, c5)  BY ONLY <1>11, <1>10, <2>2, ClockIs
  <2>. QED  BY ONLY <1>10, <2>1, <2>3, c.reset \in BOOLEAN DEF Clocked
<1>13. PICK L : L = {c0.latched, c1.latched, c2.latched, c3.latched, c4.latched, c5.latched}  OBVIOUS
<1>14. After(c, <<>>, c0, L)  BY <1>1, <1>2, <1>13, AfterNone
<1>15. After(c, <<1>>, c1, L)
  <2>1. <<1>> = Append(<<>>, 1)  BY ONLY Patterns
  <2>2. c1.latched \in L /\ 1 \in {0, 1}  BY <1>13
  <2>. QED  BY ONLY <1>3, <1>14, <2>1, <2>2, AfterNext
<1>16. After(c, <<1, 1>>, c2, L)
  <2>1. <<1, 1>> = Append(<<1>>, 1)  BY ONLY Patterns
  <2>2. c2.latched \in L /\ 1 \in {0, 1}  BY <1>13
  <2>. QED  BY ONLY <1>5, <1>15, <2>1, <2>2, AfterNext
<1>17. After(c, <<1, 1, 1>>, c3, L)
  <2>1. <<1, 1, 1>> = Append(<<1, 1>>, 1)  BY ONLY Patterns
  <2>2. c3.latched \in L /\ 1 \in {0, 1}  BY <1>13
  <2>. QED  BY ONLY <1>7, <1>16, <2>1, <2>2, AfterNext
<1>18. After(c, <<1, 1, 1, 1>>, c4, L)
  <2>1. <<1, 1, 1, 1>> = Append(<<1, 1, 1>>, 1)  BY ONLY Patterns
  <2>2. c4.latched \in L /\ 1 \in {0, 1}  BY <1>13
  <2>. QED  BY ONLY <1>9, <1>17, <2>1, <2>2, AfterNext
<1>19. After(c, <<1, 1, 1, 1, 1>>, c5, L)
  <2>1. <<1, 1, 1, 1, 1>> = Append(<<1, 1, 1, 1>>, 1)  BY ONLY Patterns
  <2>2. c5.latched \in L /\ 1 \in {0, 1}  BY <1>13
  <2>. QED  BY ONLY <1>11, <1>18, <2>1, <2>2, AfterNext
<1>20. L \subseteq {c.latched, c5.latched}  BY ONLY <1>13, <1>2, <1>4, <1>6, <1>8, <1>10, <1>12
<1>21. Trail(c, TmsClocks(<<1, 1, 1, 1, 1>>), {c.latched, c5.latched}) /\ c5 = ClockAll(c, TmsClocks(<<1, 1, 1, 1, 1>>))
  BY ONLY <1>19, <1>20, TrailIn DEF After
<1>. QED  BY ONLY <1>21, <1>12 DEF At

-----------------------------------------------------------------------------
(* TMS high resets; a level that keeps the state. *)

\* Five clocks with TMS high reset the TAP, wherever it was.
LEMMA FiveOnes ==
  ASSUME NEW c, IsCable(c), c.tap \in TapStates
  PROVE  LET d == ClockAll(c, TmsClocks(<<1, 1, 1, 1, 1>>))
         IN  At(d, "TEST_LOGIC_RESET", 1, c.chain) /\ d.reset = TRUE /\ d.latched = <<>>
<1>1. PICK c0 : c0 = c  OBVIOUS
<1>2. PICK k : k = [tms |-> 1, tdi |-> High]  OBVIOUS
<1>3. IsCable(c0) /\ c0.chain = c.chain /\ c0.tap \in TapStates  BY <1>1
<1>4. PICK c1 : c1 = Clock(c0, k)  OBVIOUS
<1>5. /\ IsCable(c1) /\ c1.chain = c.chain /\ c1.level = 1 /\ Clocked(c0, k, c1)
      /\ c1.tap \in
        {"TEST_LOGIC_RESET", "SELECT_DR_SCAN", "SELECT_IR_SCAN", "EXIT1_DR",
         "UPDATE_DR", "EXIT2_DR", "EXIT1_IR", "UPDATE_IR",
         "EXIT2_IR"}
  <2>1. Clocked(c0, k, c1)  BY ONLY <1>4, <1>3, ClockIs
  <2>2. c1.level = 1 /\ c1.tap = TapNext[c0.tap][2]
    <3>1. 1 \in {0, 1} /\ 1 + 1 = 2  OBVIOUS
    <3>. QED  BY ONLY <1>2, <1>4, <1>3, <3>1, TmsClockIs
  <2>3. TapNext[c0.tap][2] \in
        {"TEST_LOGIC_RESET", "SELECT_DR_SCAN", "SELECT_IR_SCAN", "EXIT1_DR",
         "UPDATE_DR", "EXIT2_DR", "EXIT1_IR", "UPDATE_IR",
         "EXIT2_IR"}
    BY ONLY <1>3 DEF TapNext, TapStates
  <2>. QED  BY ONLY <1>3, <2>1, <2>2, <2>3 DEF Clocked
<1>6. PICK c2 : c2 = Clock(c1, k)  OBVIOUS
<1>7. /\ IsCable(c2) /\ c2.chain = c.chain /\ c2.level = 1 /\ Clocked(c1, k, c2)
      /\ c2.tap \in
        {"TEST_LOGIC_RESET", "SELECT_IR_SCAN", "UPDATE_DR", "SELECT_DR_SCAN",
         "UPDATE_IR"}
  <2>1. Clocked(c1, k, c2)  BY ONLY <1>6, <1>5, ClockIs
  <2>2. c2.level = 1 /\ c2.tap = TapNext[c1.tap][2]
    <3>1. 1 \in {0, 1} /\ 1 + 1 = 2  OBVIOUS
    <3>. QED  BY ONLY <1>2, <1>6, <1>5, <3>1, TmsClockIs
  <2>3. TapNext[c1.tap][2] \in
        {"TEST_LOGIC_RESET", "SELECT_IR_SCAN", "UPDATE_DR", "SELECT_DR_SCAN",
         "UPDATE_IR"}
    BY ONLY <1>5 DEF TapNext
  <2>. QED  BY ONLY <1>5, <2>1, <2>2, <2>3 DEF Clocked
<1>8. PICK c3 : c3 = Clock(c2, k)  OBVIOUS
<1>9. /\ IsCable(c3) /\ c3.chain = c.chain /\ c3.level = 1 /\ Clocked(c2, k, c3)
      /\ c3.tap \in
        {"TEST_LOGIC_RESET", "SELECT_IR_SCAN", "SELECT_DR_SCAN"}
  <2>1. Clocked(c2, k, c3)  BY ONLY <1>8, <1>7, ClockIs
  <2>2. c3.level = 1 /\ c3.tap = TapNext[c2.tap][2]
    <3>1. 1 \in {0, 1} /\ 1 + 1 = 2  OBVIOUS
    <3>. QED  BY ONLY <1>2, <1>8, <1>7, <3>1, TmsClockIs
  <2>3. TapNext[c2.tap][2] \in
        {"TEST_LOGIC_RESET", "SELECT_IR_SCAN", "SELECT_DR_SCAN"}
    BY ONLY <1>7 DEF TapNext
  <2>. QED  BY ONLY <1>7, <2>1, <2>2, <2>3 DEF Clocked
<1>10. PICK c4 : c4 = Clock(c3, k)  OBVIOUS
<1>11. /\ IsCable(c4) /\ c4.chain = c.chain /\ c4.level = 1 /\ Clocked(c3, k, c4)
      /\ c4.tap \in
        {"TEST_LOGIC_RESET", "SELECT_IR_SCAN"}
  <2>1. Clocked(c3, k, c4)  BY ONLY <1>10, <1>9, ClockIs
  <2>2. c4.level = 1 /\ c4.tap = TapNext[c3.tap][2]
    <3>1. 1 \in {0, 1} /\ 1 + 1 = 2  OBVIOUS
    <3>. QED  BY ONLY <1>2, <1>10, <1>9, <3>1, TmsClockIs
  <2>3. TapNext[c3.tap][2] \in
        {"TEST_LOGIC_RESET", "SELECT_IR_SCAN"}
    BY ONLY <1>9 DEF TapNext
  <2>. QED  BY ONLY <1>9, <2>1, <2>2, <2>3 DEF Clocked
<1>12. PICK c5 : c5 = Clock(c4, k)  OBVIOUS
<1>13. /\ IsCable(c5) /\ c5.chain = c.chain /\ c5.level = 1 /\ Clocked(c4, k, c5)
      /\ c5.tap \in
        {"TEST_LOGIC_RESET"}
  <2>1. Clocked(c4, k, c5)  BY ONLY <1>12, <1>11, ClockIs
  <2>2. c5.level = 1 /\ c5.tap = TapNext[c4.tap][2]
    <3>1. 1 \in {0, 1} /\ 1 + 1 = 2  OBVIOUS
    <3>. QED  BY ONLY <1>2, <1>12, <1>11, <3>1, TmsClockIs
  <2>3. TapNext[c4.tap][2] \in
        {"TEST_LOGIC_RESET"}
    BY ONLY <1>11 DEF TapNext
  <2>. QED  BY ONLY <1>11, <2>1, <2>2, <2>3 DEF Clocked
<1>14. c5.tap = "TEST_LOGIC_RESET" /\ c5.reset = TRUE /\ c5.latched = <<>>  BY ONLY <1>13 DEF Clocked
<1>15. PICK L : L = {c0.latched, c1.latched, c2.latched, c3.latched, c4.latched, c5.latched}  OBVIOUS
<1>16. After(c, <<>>, c0, L)  BY <1>1, <1>3, <1>15, AfterNone
<1>17. After(c, <<1>>, c1, L)
  <2>1. <<1>> = Append(<<>>, 1)  BY ONLY Patterns
  <2>2. c1.latched \in L /\ 1 \in {0, 1}  BY <1>15
  <2>. QED  BY ONLY <1>2, <1>4, <1>16, <2>1, <2>2, AfterNext
<1>18. After(c, <<1, 1>>, c2, L)
  <2>1. <<1, 1>> = Append(<<1>>, 1)  BY ONLY Patterns
  <2>2. c2.latched \in L /\ 1 \in {0, 1}  BY <1>15
  <2>. QED  BY ONLY <1>2, <1>6, <1>17, <2>1, <2>2, AfterNext
<1>19. After(c, <<1, 1, 1>>, c3, L)
  <2>1. <<1, 1, 1>> = Append(<<1, 1>>, 1)  BY ONLY Patterns
  <2>2. c3.latched \in L /\ 1 \in {0, 1}  BY <1>15
  <2>. QED  BY ONLY <1>2, <1>8, <1>18, <2>1, <2>2, AfterNext
<1>20. After(c, <<1, 1, 1, 1>>, c4, L)
  <2>1. <<1, 1, 1, 1>> = Append(<<1, 1, 1>>, 1)  BY ONLY Patterns
  <2>2. c4.latched \in L /\ 1 \in {0, 1}  BY <1>15
  <2>. QED  BY ONLY <1>2, <1>10, <1>19, <2>1, <2>2, AfterNext
<1>21. After(c, <<1, 1, 1, 1, 1>>, c5, L)
  <2>1. <<1, 1, 1, 1, 1>> = Append(<<1, 1, 1, 1>>, 1)  BY ONLY Patterns
  <2>2. c5.latched \in L /\ 1 \in {0, 1}  BY <1>15
  <2>. QED  BY ONLY <1>2, <1>12, <1>20, <2>1, <2>2, AfterNext
<1>22. c5 = ClockAll(c, TmsClocks(<<1, 1, 1, 1, 1>>))  BY ONLY <1>21 DEF After
<1>. QED  BY ONLY <1>14, <1>22, <1>13 DEF At

\* Where a level of TMS keeps the state.
IsResting(c) ==
  /\ IsCable(c) /\ c.reset \in BOOLEAN
  /\ \/ c.tap = "TEST_LOGIC_RESET" /\ c.level = 1 /\ c.reset = TRUE /\ c.latched = <<>>
     \/ c.tap \in {"RUN_TEST_IDLE", "SHIFT_IR", "SHIFT_DR"} /\ c.level = 0

Rested(c, d) ==
  At(d, c.tap, c.level, c.chain) /\ d.reset = c.reset /\ d.latched = c.latched

\* One bit.
LEMMA RestStep ==
  \A c : \A b \in BitSet : IsResting(c) => Rested(c, Clock(c, DataClock[b]))
<1> SUFFICES ASSUME NEW c, NEW b \in BitSet, IsResting(c) PROVE Rested(c, Clock(c, DataClock[b]))
  OBVIOUS
<1>1. PICK k : k = [tms |-> Same, tdi |-> b] /\ k = DataClock[b]  BY ClockMaps
<1>2. PICK d : d = Clock(c, k)  OBVIOUS
<1>3. Clocked(c, k, d)  BY ONLY <1>2, ClockIs, IsResting(c) DEF IsResting
<1>4. d.level = c.level /\ d.tap = TapNext[c.tap][c.level + 1]
  BY ONLY <1>1, <1>3 DEF Clocked
<1>5. d.tap = c.tap  BY ONLY <1>4, IsResting(c) DEF IsResting, TapNext
<1>6. Rested(c, d)  BY ONLY <1>3, <1>4, <1>5, IsResting(c) DEF Clocked, IsResting, Rested, At
<1>. QED  BY ONLY <1>1, <1>2, <1>6

\* It keeps resting.
LEMMA RestedRests == \A c, d : IsResting(c) /\ Rested(c, d) => IsResting(d)
BY DEF IsResting, Rested, At

\* Data leave a resting TAP where it is.
LEMMA DataRests ==
  ASSUME NEW c, IsResting(c)
  PROVE  \A q \in Seq(BitSet) : /\ Rested(c, ClockAll(c, DataClocks(q)))
                                /\ Trail(c, DataClocks(q), {c.latched})
<1>1. PICK L : L = {c.latched}  OBVIOUS
<1> DEFINE P == {q \in Seq(BitSet) : /\ Rested(c, ClockAll(c, DataClocks(q)))
                                     /\ Trail(c, DataClocks(q), L)}
<1>2. <<>> \in P
  <2>1. DataClocks(<<>>) = <<>>  BY DEF DataClocks, Mapped
  <2>2. Rested(c, c)  BY DEF IsResting, Rested, At
  <2>3. <<>> \in Seq(BitSet)  BY EmptySeq
  <2>. QED  BY <1>1, <2>1, <2>2, <2>3, ClockNone, TrailNone
<1>3. \A q \in Seq(BitSet) : \A b \in BitSet : q \in P => Append(q, b) \in P
  <2> SUFFICES ASSUME NEW q \in Seq(BitSet), NEW b \in BitSet, q \in P PROVE Append(q, b) \in P
    OBVIOUS
  <2>1. PICK k \in ClockSeqs : k = DataClocks(q)  BY ClocksOfBits
  <2>2. PICK x \in ClockSet : x = DataClock[b]  BY ClockMaps
  <2>3. DataClocks(Append(q, b)) = Append(k, x)
    BY ONLY q \in Seq(BitSet), b \in BitSet, <2>1, <2>2, DataClocksAppend
  <2>4. PICK d : d = ClockAll(c, k)  OBVIOUS
  <2>5. ClockAll(c, Append(k, x)) = Clock(d, x)
    <3>1. k \in Seq(ClockSet)  BY DEF ClockSeqs
    <3>. QED  BY ONLY <2>4, <3>1, x \in ClockSet, ClockAppend
  <2>6. Rested(c, d) /\ Trail(c, k, L)  BY ONLY <2>1, <2>4, q \in P DEF P
  <2>7. Rested(d, Clock(d, x))
    BY ONLY <2>2, <2>6, b \in BitSet, IsResting(c), RestStep, RestedRests
  <2>8. Rested(c, Clock(d, x))  BY ONLY <2>6, <2>7 DEF Rested, At
  <2>9. Trail(c, Append(k, x), L)
    <3>1. ClockAll(c, Append(k, x)).latched \in L  BY ONLY <1>1, <2>5, <2>8 DEF Rested
    <3>. QED  BY ONLY <2>6, <3>1, k \in ClockSeqs, x \in ClockSet, TrailStep
  <2>10. Append(q, b) \in Seq(BitSet)  BY AppendProperties
  <2>. QED  BY ONLY <2>3, <2>5, <2>8, <2>9, <2>10 DEF P
<1> HIDE DEF P
<1>4. \A q \in Seq(BitSet) : q \in P  BY <1>2, <1>3, SeqInduction
<1>. QED  BY <1>1, <1>4 DEF P

-----------------------------------------------------------------------------
(* Data shift through the registers. *)

\* Joined sequences without their first element.
LEMMA TailJoin ==
  ASSUME NEW T, NEW p \in Seq(T), p # <<>>
  PROVE  \A q \in Seq(T) : Tail(Join(p, q)) = Join(Tail(p), q)
<1> DEFINE P == {q \in Seq(T) : Tail(Join(p, q)) = Join(Tail(p), q)}
<1>1. Tail(p) \in Seq(T)  BY HeadTailProperties
<1>2. <<>> \in P
  <2>1. Join(p, <<>>) = p /\ Join(Tail(p), <<>>) = Tail(p) /\ <<>> \in Seq(T)
    BY <1>1, ConcatEmptySeq, EmptySeq DEF Join
  <2>. QED  BY <2>1
<1>3. \A q \in Seq(T) : \A x \in T : q \in P => Append(q, x) \in P
  <2> SUFFICES ASSUME NEW q \in Seq(T), NEW x \in T, q \in P PROVE Append(q, x) \in P
    OBVIOUS
  <2>1. Join(p, Append(q, x)) = Append(Join(p, q), x)  BY ConcatAppend DEF Join
  <2>2. Join(Tail(p), Append(q, x)) = Append(Join(Tail(p), q), x)
    BY <1>1, ConcatAppend DEF Join
  <2>3. PICK r \in Seq(T) : r = Join(p, q) /\ r # <<>>
    <3>1. Join(p, q) \in Seq(T) /\ Len(Join(p, q)) = Len(p) + Len(q)
      BY ConcatProperties DEF Join
    <3>2. Len(p) # 0 /\ Len(p) \in Nat /\ Len(q) \in Nat  BY EmptySeq, LenProperties
    <3>3. Len(Join(p, q)) # 0  BY <3>1, <3>2
    <3>. QED  BY <3>1, <3>3
  <2>4. Tail(Append(r, x)) = Append(Tail(r), x)  BY <2>3, HeadTailAppend
  <2>5. Append(q, x) \in Seq(T)  BY AppendProperties
  <2>6. Tail(Join(p, q)) = Join(Tail(p), q)  OBVIOUS
  <2>. QED  BY ONLY <2>1, <2>2, <2>3, <2>4, <2>5, <2>6 DEF P
<1> HIDE DEF P
<1>4. \A q \in Seq(T) : q \in P  BY <1>2, <1>3, SeqInduction
<1>. QED  BY <1>4 DEF P

\* One bit more into the instruction register.
HasRoom(p, q, b, n) == Len(p) + Len(q) = n /\ Len(Append(q, b)) <= n
GivesWay(T, p, q, b, n) ==
  \E t \in Seq(T) : /\ Len(t) + Len(Append(q, b)) = n
                    /\ Append(Tail(Join(p, q)), b) = Join(t, Append(q, b))

\* There is room for one bit: a bit of the register gives way.
LEMMA ThroughStep ==
  ASSUME NEW T, NEW p \in Seq(T), NEW q \in Seq(T), NEW b \in T, NEW n \in Nat,
         HasRoom(p, q, b, n)
  PROVE  GivesWay(T, p, q, b, n)
<1>1. Len(p) + Len(q) = n /\ Len(Append(q, b)) <= n  BY DEF HasRoom
<1>2. Len(Append(q, b)) = Len(q) + 1 /\ Len(q) \in Nat /\ Len(p) \in Nat
  BY AppendProperties, LenProperties
<1>3. PICK i \in Nat, j \in Nat : i = Len(p) /\ j = Len(q)  BY <1>2
<1>4. i + j = n /\ j + 1 <= n  BY ONLY <1>1, <1>2, <1>3
<1>5. i # 0 /\ (i - 1) + (j + 1) = n  BY ONLY <1>4, i \in Nat, j \in Nat, n \in Nat
<1>6. p # <<>>  BY <1>3, <1>5
<1>7. PICK t \in Seq(T) : t = Tail(p) /\ Len(t) = i - 1
  BY <1>3, <1>6, HeadTailProperties
<1>8. Tail(Join(p, q)) = Join(t, q)  BY <1>6, <1>7, TailJoin
<1>9. Append(Join(t, q), b) = Join(t, Append(q, b))
  <2>1. t \o Append(q, b) = Append(t \o q, b)
    BY ONLY t \in Seq(T), q \in Seq(T), b \in T, ConcatAppend
  <2>. QED  BY ONLY <2>1 DEF Join
<1>10. Len(t) + Len(Append(q, b)) = n  BY ONLY <1>2, <1>3, <1>5, <1>7
<1>. QED  BY ONLY <1>8, <1>9, <1>10, t \in Seq(T) DEF GivesWay

\* The instruction register takes the bits and gives up as many of its own.
LEMMA ThroughInstruction ==
  ASSUME NEW c, IsResting(c), c.tap = "SHIFT_IR", c.chain > 0, NEW T, BitSet \subseteq T,
         c.reg \in Seq(T), NEW n \in Nat, n = Len(c.reg)
  PROVE  \A q \in Seq(BitSet) : Len(q) <= n =>
           \E p \in Seq(T) : Len(p) + Len(q) = n /\ ClockAll(c, DataClocks(q)).reg = Join(p, q)
<1> DEFINE Ok(q) ==
      Len(q) <= n =>
        \E p \in Seq(T) : Len(p) + Len(q) = n /\ ClockAll(c, DataClocks(q)).reg = Join(p, q)
           P == {q \in Seq(BitSet) : Ok(q)}
<1>1. <<>> \in P
  <2>1. DataClocks(<<>>) = <<>>  BY DEF DataClocks, Mapped
  <2>2. Join(c.reg, <<>>) = c.reg  BY ConcatEmptySeq DEF Join
  <2>3. <<>> \in Seq(BitSet) /\ Len(<<>>) = 0  BY EmptySeq
  <2>4. n + 0 = n  OBVIOUS
  <2>. QED  BY <2>1, <2>2, <2>3, <2>4, ClockNone
<1>2. \A q \in Seq(BitSet) : \A b \in BitSet : q \in P => Append(q, b) \in P
  <2> SUFFICES ASSUME NEW q \in Seq(BitSet), NEW b \in BitSet, q \in P,
                      Len(Append(q, b)) <= n
               PROVE  \E p \in Seq(T) : /\ Len(p) + Len(Append(q, b)) = n
                                        /\ ClockAll(c, DataClocks(Append(q, b))).reg
                                             = Join(p, Append(q, b))
    <3>1. \A q \in Seq(BitSet) : \A b \in BitSet : Append(q, b) \in Seq(BitSet)
      BY AppendProperties
    <3>. QED  BY <3>1
  <2>1. Len(q) <= n
    <3>1. Len(Append(q, b)) = Len(q) + 1 /\ Len(q) \in Nat  BY AppendProperties, LenProperties
    <3>2. PICK j \in Nat : j = Len(q)  BY <3>1
    <3>3. j + 1 <= n  BY ONLY <3>1, <3>2, Len(Append(q, b)) <= n
    <3>4. j <= n  BY ONLY <3>3, j \in Nat, n \in Nat
    <3>. QED  BY <3>2, <3>4
  <2>2. PICK d : d = ClockAll(c, DataClocks(q))  OBVIOUS
  <2>3. PICK p \in Seq(T) : Len(p) + Len(q) = n /\ d.reg = Join(p, q)  BY <2>1, <2>2
  <2>4. Rested(c, d) /\ IsResting(d)  BY <2>2, DataRests, RestedRests
  <2>5. PICK k : k = [tms |-> Same, tdi |-> b] /\ k = DataClock[b]  BY ClockMaps
  <2>6. PICK e : e = Clock(d, k)  OBVIOUS
  <2>7. ClockAll(c, DataClocks(Append(q, b))) = e
    <3>1. DataClocks(q) \in Seq(ClockSet)  BY ClocksOfBits DEF ClockSeqs
    <3>2. DataClock[b] \in ClockSet  BY ClockMaps
    <3>3. DataClocks(Append(q, b)) = Append(DataClocks(q), DataClock[b])  BY DataClocksAppend
    <3>4. ClockAll(c, Append(DataClocks(q), DataClock[b])) = Clock(ClockAll(c, DataClocks(q)), DataClock[b])
      BY ONLY <3>1, <3>2, ClockAppend
    <3>. QED  BY ONLY <2>2, <2>5, <2>6, <3>3, <3>4
  <2>8. e.reg = Append(Tail(d.reg), b)
    <3>1. Clocked(d, k, e)  BY ONLY <2>4, <2>6, ClockIs DEF IsResting
    <3>2. d.tap = "SHIFT_IR" /\ d.chain > 0  BY <2>4 DEF Rested, At
    <3>. QED  BY ONLY <2>5, <3>1, <3>2 DEF Clocked
  <2>9. q \in Seq(T) /\ b \in T
    <3>1. q \in Seq(T)  BY ONLY q \in Seq(BitSet), BitSet \subseteq T, SeqMonotonic
    <3>. QED  BY <3>1
  <2>10. PICK t \in Seq(T) : /\ Len(t) + Len(Append(q, b)) = n
                             /\ Append(Tail(Join(p, q)), b) = Join(t, Append(q, b))
    <3>1. HasRoom(p, q, b, n)  BY ONLY <2>3, Len(Append(q, b)) <= n DEF HasRoom
    <3>2. GivesWay(T, p, q, b, n)
      BY ONLY <2>9, <3>1, p \in Seq(T), n \in Nat, ThroughStep
    <3>. QED  BY ONLY <3>2 DEF GivesWay
  <2>. QED  BY ONLY <2>3, <2>7, <2>8, <2>10, t \in Seq(T)
<1> HIDE DEF P
<1>3. \A q \in Seq(BitSet) : q \in P  BY <1>1, <1>2, SeqInduction
<1>. QED  BY <1>3 DEF P

\* After the first instruction the data register takes all data.
LEMMA IntoData ==
  ASSUME NEW c, IsResting(c), c.tap = "SHIFT_DR", c.chain > 0, c.reset = FALSE, c.reg = <<>>
  PROVE  \A q \in Seq(BitSet) : ClockAll(c, DataClocks(q)).reg = q
<1> DEFINE P == {q \in Seq(BitSet) : ClockAll(c, DataClocks(q)).reg = q}
<1>1. <<>> \in P
  <2>1. DataClocks(<<>>) = <<>>  BY DEF DataClocks, Mapped
  <2>2. <<>> \in Seq(BitSet)  BY EmptySeq
  <2>. QED  BY <2>1, <2>2, ClockNone
<1>2. \A q \in Seq(BitSet) : \A b \in BitSet : q \in P => Append(q, b) \in P
  <2> SUFFICES ASSUME NEW q \in Seq(BitSet), NEW b \in BitSet, q \in P PROVE Append(q, b) \in P
    OBVIOUS
  <2>2. PICK d : d = ClockAll(c, DataClocks(q)) /\ d.reg = q  OBVIOUS
  <2>4. Rested(c, d) /\ IsResting(d)  BY <2>2, DataRests, RestedRests
  <2>5. PICK k : k = [tms |-> Same, tdi |-> b] /\ k = DataClock[b]  BY ClockMaps
  <2>6. PICK e : e = Clock(d, k)  OBVIOUS
  <2>7. ClockAll(c, DataClocks(Append(q, b))) = e
    <3>1. DataClocks(q) \in Seq(ClockSet)  BY ClocksOfBits DEF ClockSeqs
    <3>2. DataClock[b] \in ClockSet  BY ClockMaps
    <3>3. DataClocks(Append(q, b)) = Append(DataClocks(q), DataClock[b])  BY DataClocksAppend
    <3>4. ClockAll(c, Append(DataClocks(q), DataClock[b])) = Clock(ClockAll(c, DataClocks(q)), DataClock[b])
      BY ONLY <3>1, <3>2, ClockAppend
    <3>. QED  BY ONLY <2>2, <2>5, <2>6, <3>3, <3>4
  <2>8. e.reg = Append(q, b)
    <3>1. Clocked(d, k, e)  BY ONLY <2>4, <2>6, ClockIs DEF IsResting
    <3>2. d.tap = "SHIFT_DR" /\ d.chain > 0 /\ d.reset = FALSE  BY <2>4 DEF Rested, At
    <3>. QED  BY ONLY <2>2, <2>5, <3>1, <3>2 DEF Clocked
  <2>9. Append(q, b) \in Seq(BitSet)  BY AppendProperties
  <2>. QED  BY ONLY <2>7, <2>8, <2>9 DEF P
<1> HIDE DEF P
<1>3. \A q \in Seq(BitSet) : q \in P  BY <1>1, <1>2, SeqInduction
<1>. QED  BY <1>3 DEF P

\* The clocks of a block whose last bit has TMS high.
LEMMA BlockIs ==
  ASSUME NEW q \in Seq(BitSet), NEW x \in BitSet
  PROVE  BlockClocks(Append(q, x), TRUE) = Append(DataClocks(q), [tms |-> 1, tdi |-> x])
<1>1. PICK r \in Seq(BitSet) : r = Append(q, x)  BY AppendProperties
<1>2. PICK n \in Nat : n = Len(q)  BY LenProperties
<1>3. Len(r) = n + 1 /\ r[n + 1] = x  BY <1>1, <1>2, AppendProperties
<1>4. Last(r) = x /\ Rem(r, TRUE) = n  BY <1>3 DEF Last, Rem
<1>5. Cut(r, 0, n) = q
  <2>1. r = q \o <<x>> /\ <<x>> \in Seq(BitSet)  BY <1>1, AppendIsConcat
  <2>2. SubSeq(r, 1, n) = q  BY <1>1, <1>2, <2>1, ConcatProperties, SubSeqProperties
  <2>. QED  BY <2>2 DEF Cut
<1>6. PICK k \in ClockSet : k = [tms |-> 1, tdi |-> x]  BY DEF ClockSet
<1>7. PICK d \in Seq(ClockSet) : d = DataClocks(q)  BY ClocksOfBits DEF ClockSeqs
<1>8. BlockClocks(r, TRUE) = d \o <<k>>  BY <1>4, <1>5, <1>6, <1>7 DEF BlockClocks, LastClock, Join
<1>9. d \o <<k>> = Append(d, k)  BY AppendIsConcat
<1>. QED  BY <1>1, <1>6, <1>7, <1>8, <1>9

-----------------------------------------------------------------------------
(* A register is shifted. *)

BitsOf(n) == BitSet \cup {<<"status", n, i>> : i \in 1 .. IrLen}

\* A status has the length of the instruction register.
LEMMA StatusBits ==
  \A n : LET r == Bits("status", n, IrLen) IN r \in Seq(BitsOf(n)) /\ Len(r) = IrLen
<1> SUFFICES ASSUME NEW n
             PROVE  Bits("status", n, IrLen) \in Seq(BitsOf(n)) /\ Len(Bits("status", n, IrLen)) = IrLen
  OBVIOUS
<1>1. PICK r : r = [i \in 1 .. IrLen |-> <<"status", n, i>>]  OBVIOUS
<1>2. PICK T : T = BitsOf(n)  OBVIOUS
<1>3. r \in [1 .. IrLen -> T]  BY <1>1, <1>2 DEF BitsOf
<1>4. IrLen \in Nat  BY JtagAssumption
<1>5. r \in Seq(T) /\ Len(r) = IrLen  BY ONLY <1>3, <1>4, FunctionIsSeq
<1>. QED  BY <1>1, <1>2, <1>5 DEF Bits

\* A block leaves the shifting state with its last bit; the register holds it.
LEMMA BlockLeads ==
  ASSUME NEW c, IsResting(c), c.tap \in {"SHIFT_IR", "SHIFT_DR"},
         NEW tdi \in Seq(BitSet), tdi # <<>>
  PROVE  LET k == BlockClocks(tdi, TRUE)
             d == ClockAll(c, k)
         IN  /\ k \in ClockSeqs /\ Trail(c, k, {c.latched})
             /\ At(d, IF c.tap = "SHIFT_IR" THEN "EXIT1_IR" ELSE "EXIT1_DR", 1, c.chain)
             /\ d.reset = c.reset /\ d.latched = c.latched
             /\ c.tap = "SHIFT_DR" /\ c.chain > 0 /\ c.reset = FALSE /\ c.reg = <<>> => d.reg = tdi
             /\ \A n : c.tap = "SHIFT_IR" /\ c.chain > 0 /\ c.reg = Bits("status", n, IrLen)
                         /\ Len(tdi) = IrLen => d.reg = tdi
<1>1. PICK q \in Seq(BitSet), x \in BitSet : tdi = Append(q, x)
  BY SequenceEmptyOrAppend
<1>2. PICK y \in ClockSet : y = [tms |-> 1, tdi |-> x]  BY DEF ClockSet
<1>3. PICK p \in ClockSeqs : p = DataClocks(q)  BY ClocksOfBits
<1>4. PICK k \in ClockSeqs : k = BlockClocks(tdi, TRUE) /\ k = Append(p, y)
  <2>1. Append(p, y) \in ClockSeqs  BY AppendProperties DEF ClockSeqs
  <2>. QED  BY <1>1, <1>2, <1>3, <2>1, BlockIs
<1>5. PICK L : L = {c.latched}  OBVIOUS
<1>6. PICK e : e = ClockAll(c, p)  OBVIOUS
<1>7. Rested(c, e) /\ IsResting(e) /\ Trail(c, p, L)
  BY <1>3, <1>5, <1>6, DataRests, RestedRests
<1>8. PICK d : d = Clock(e, y)  OBVIOUS
<1>9. ClockAll(c, k) = d
  <2>1. p \in Seq(ClockSet)  BY DEF ClockSeqs
  <2>2. ClockAll(c, Append(p, y)) = Clock(ClockAll(c, p), y)
    BY ONLY <2>1, y \in ClockSet, ClockAppend
  <2>. QED  BY ONLY <1>4, <1>6, <1>8, <2>2
<1>10. Clocked(e, y, d)  BY ONLY <1>7, <1>8, ClockIs DEF IsResting
<1>11. e.tap = c.tap /\ e.chain = c.chain /\ e.reset = c.reset /\ e.latched = c.latched
       /\ e.reset \in BOOLEAN
  BY ONLY <1>7 DEF Rested, At, IsResting
<1>12. d.level = 1 /\ d.tap = TapNext[e.tap][d.level + 1]
  BY ONLY <1>2, <1>10 DEF Clocked, Same
<1>13. d.tap = IF c.tap = "SHIFT_IR" THEN "EXIT1_IR" ELSE "EXIT1_DR"
  BY ONLY <1>11, <1>12, c.tap \in {"SHIFT_IR", "SHIFT_DR"} DEF TapNext
<1>14. d.tap \notin {"TEST_LOGIC_RESET", "UPDATE_IR", "UPDATE_DR"}  BY ONLY <1>13
<1>15. IsCable(d) /\ d.chain = c.chain /\ d.reset = c.reset /\ d.latched = c.latched
  BY ONLY <1>10, <1>11, <1>14 DEF Clocked
<1>16. At(d, IF c.tap = "SHIFT_IR" THEN "EXIT1_IR" ELSE "EXIT1_DR", 1, c.chain)
  BY ONLY <1>12, <1>13, <1>15 DEF At
<1>17. Trail(c, k, L)
  <2>1. ClockAll(c, Append(p, y)).latched \in L  BY ONLY <1>4, <1>5, <1>9, <1>15
  <2>. QED  BY ONLY <1>4, <1>7, <2>1, p \in ClockSeqs, y \in ClockSet, TrailStep
<1>18. ASSUME c.tap = "SHIFT_DR", c.chain > 0, c.reset = FALSE, c.reg = <<>>
       PROVE  d.reg = tdi
  <2>1. e.reg = q  BY <1>3, <1>6, <1>18, IntoData
  <2>2. d.reg = Append(e.reg, y.tdi)  BY ONLY <1>10, <1>11, <1>18 DEF Clocked
  <2>. QED  BY ONLY <1>1, <1>2, <2>1, <2>2
<1>19. ASSUME NEW n, c.tap = "SHIFT_IR", c.chain > 0, c.reg = Bits("status", n, IrLen),
              Len(tdi) = IrLen
       PROVE  d.reg = tdi
  <2>1. PICK T : T = BitsOf(n)  OBVIOUS
  <2>2. BitSet \subseteq T /\ c.reg \in Seq(T) /\ Len(c.reg) = IrLen
    BY <1>19, <2>1, StatusBits DEF BitsOf
  <2>3. PICK m \in Nat : m = IrLen /\ m = Len(c.reg)  BY <2>2, JtagAssumption
  <2>4. Len(q) \in Nat /\ Len(q) + 1 = m  BY <1>1, <1>19, <2>3, AppendProperties, LenProperties
  <2>5. Len(q) <= m  BY ONLY <2>4, m \in Nat
  <2>6. PICK u \in Seq(T) : Len(u) + Len(q) = m /\ e.reg = Join(u, q)
    <3>1. \A r \in Seq(BitSet) : Len(r) <= m =>
            \E u \in Seq(T) : Len(u) + Len(r) = m /\ ClockAll(c, DataClocks(r)).reg = Join(u, r)
      BY ONLY IsResting(c), <1>19, <2>2, <2>3, m \in Nat, ThroughInstruction
    <3>. QED  BY <1>3, <1>6, <2>5, <3>1
  <2>7. Len(u) = 1
    <3>1. PICK i \in Nat, j \in Nat : i = Len(u) /\ j = Len(q)  BY LenProperties
    <3>2. i + j = m /\ j + 1 = m  BY ONLY <2>4, <2>6, <3>1
    <3>. QED  BY ONLY <3>1, <3>2, i \in Nat, j \in Nat, m \in Nat
  <2>8. u # <<>> /\ Tail(u) = <<>>
    <3>1. u # <<>>
      <4> SUFFICES ASSUME u = <<>> PROVE FALSE  OBVIOUS
      <4>1. Len(u) = 0  BY EmptySeq
      <4>. QED  BY ONLY <2>7, <4>1
    <3>2. Tail(u) \in Seq(T) /\ Len(Tail(u)) = Len(u) - 1  BY <3>1, HeadTailProperties
    <3>3. Len(Tail(u)) = 0  BY <2>7, <3>2
    <3>. QED  BY <3>1, <3>2, <3>3, EmptySeq
  <2>9. Tail(Join(u, q)) = q
    <3>1. q \in Seq(T)  BY ONLY <2>2, q \in Seq(BitSet), SeqMonotonic
    <3>2. Tail(Join(u, q)) = Join(Tail(u), q)
      BY ONLY <2>8, <3>1, u \in Seq(T), TailJoin
    <3>3. Join(<<>>, q) = q  BY <3>1, ConcatEmptySeq DEF Join
    <3>. QED  BY ONLY <2>8, <3>2, <3>3
  <2>10. d.reg = Append(Tail(e.reg), y.tdi)  BY ONLY <1>10, <1>11, <1>19 DEF Clocked
  <2>. QED  BY ONLY <1>1, <1>2, <2>6, <2>9, <2>10
<1>. QED  BY ONLY <1>4, <1>5, <1>9, <1>15, <1>16, <1>17, <1>18, <1>19, k \in ClockSeqs

\* The calls that shift data.
LEMMA shiftTDITDOIs ==
  \A tdi \in Seq(BitSet) : \A tdo, last \in BOOLEAN :
    LET calls == shiftTDITDO(tdi, tdo, last)
    IN  /\ calls \in CallSeqs
        /\ CallClocks(calls) = IF tdi = <<>> THEN <<>> ELSE BlockClocks(tdi, last)
<1> SUFFICES ASSUME NEW tdi \in Seq(BitSet), NEW tdo \in BOOLEAN, NEW last \in BOOLEAN
             PROVE  LET calls == shiftTDITDO(tdi, tdo, last)
                    IN  /\ calls \in CallSeqs
                        /\ CallClocks(calls) = IF tdi = <<>> THEN <<>> ELSE BlockClocks(tdi, last)
  OBVIOUS
<1>1. CASE tdi = <<>>  BY <1>1, CallClocksLaws DEF shiftTDITDO
<1>2. CASE tdi # <<>>
  <2>1. PICK x : x = [do |-> "txrx_block", tdi |-> tdi, tdo |-> tdo, last |-> last]  OBVIOUS
  <2>2. x \in CallSet  BY <1>2, <2>1 DEF CallSet
  <2>3. CallClock(x) = BlockClocks(tdi, last)  BY <2>1 DEF CallClock
  <2>4. shiftTDITDO(tdi, tdo, last) = <<x>>  BY <1>2, <2>1 DEF shiftTDITDO
  <2>. QED  BY <1>2, <2>2, <2>3, <2>4, OneCall
<1>. QED  BY <1>1, <1>2

\* Flushing adds no clocks.
LEMMA flush_tmsIs ==
  /\ flush_tms \in CallSeqs /\ CallClocks(flush_tms) = <<>>
  /\ flush \in CallSeqs /\ CallClocks(flush) = <<>>
<1>1. PICK x \in CallSet : x = [do |-> "flush_tms"]  BY DEF CallSet
<1>2. PICK y \in CallSet : y = [do |-> "flush"]  BY DEF CallSet
<1>3. CallClock(x) = <<>> /\ CallClock(y) = <<>>  BY <1>1, <1>2 DEF CallClock
<1>. QED  BY <1>1, <1>2, <1>3, OneCall DEF flush_tms, flush

\* Calls that are data only, none of which ends with TMS high.
IsData(calls) ==
  calls \in CallSeqs /\ \E q \in Seq(BitSet) : CallClocks(calls) = DataClocks(q)

\* Data one behind the other, none, and a block without its last bit.
LEMMA IsDataLaws ==
  /\ \A p, q : IsData(p) /\ IsData(q) => IsData(Join(p, q))
  /\ IsData(<<>>) /\ IsData(flush_tms)
  /\ \A tdi \in Seq(BitSet) : \A tdo \in BOOLEAN : IsData(shiftTDITDO(tdi, tdo, FALSE))
<1>1. ASSUME NEW p, NEW q, IsData(p), IsData(q) PROVE IsData(Join(p, q))
  <2>1. PICK u \in Seq(BitSet) : CallClocks(p) = DataClocks(u)  BY <1>1 DEF IsData
  <2>2. PICK v \in Seq(BitSet) : CallClocks(q) = DataClocks(v)  BY <1>1 DEF IsData
  <2>3. Join(p, q) \in CallSeqs /\ CallClocks(Join(p, q)) = Join(CallClocks(p), CallClocks(q))
    BY <1>1, CallClocksLaws DEF IsData
  <2>4. Join(u, v) \in Seq(BitSet)  BY ConcatProperties DEF Join
  <2>5. DataClocks(Join(u, v)) = Join(DataClocks(u), DataClocks(v))  BY DataClocksJoin
  <2>. QED  BY ONLY <2>1, <2>2, <2>3, <2>4, <2>5 DEF IsData
<1>2. <<>> \in Seq(BitSet) /\ DataClocks(<<>>) = <<>>  BY EmptySeq DEF DataClocks, Mapped
<1>3. IsData(<<>>) /\ IsData(flush_tms)  BY <1>2, CallClocksLaws, flush_tmsIs DEF IsData
<1>4. ASSUME NEW tdi \in Seq(BitSet), NEW tdo \in BOOLEAN
      PROVE  IsData(shiftTDITDO(tdi, tdo, FALSE))
  <2>1. CASE tdi = <<>>  BY <1>2, <2>1, shiftTDITDOIs DEF IsData
  <2>2. CASE tdi # <<>>
    <3>1. CallClocks(shiftTDITDO(tdi, tdo, FALSE)) = BlockClocks(tdi, FALSE)
          /\ shiftTDITDO(tdi, tdo, FALSE) \in CallSeqs
      BY <2>2, shiftTDITDOIs
    <3>2. PICK r \in Seq(BitSet) : r = Cut(tdi, 0, Rem(tdi, FALSE))
      <4>1. PICK n \in Nat : n = Len(tdi) /\ n <= Len(tdi)  BY LenProperties
      <4>2. Rem(tdi, FALSE) = n  BY <4>1 DEF Rem
      <4>3. Cut(tdi, 0, n) \in Seq(BitSet)  BY <4>1, PartInSeq DEF Cut
      <4>. QED  BY <4>2, <4>3
    <3>3. BlockClocks(tdi, FALSE) = DataClocks(r)
      <4>1. DataClocks(r) \in ClockSeqs  BY ClocksOfBits
      <4>2. LastClock(tdi, FALSE) = <<>>  BY DEF LastClock
      <4>3. Join(DataClocks(r), <<>>) = DataClocks(r)  BY <4>1, JoinLaws
      <4>. QED  BY ONLY <3>2, <4>2, <4>3 DEF BlockClocks
    <3>. QED  BY <3>1, <3>3 DEF IsData
  <2>. QED  BY <2>1, <2>2
<1>. QED  BY <1>1, <1>3, <1>4

-----------------------------------------------------------------------------
(* shift, and what shiftIR and shiftDR do. *)

\* Equal bits are bits.
LEMMA RepeatInSeq ==
  \A bit \in BitSet : \A n \in Nat : Repeat(bit, n) \in Seq(BitSet) /\ Len(Repeat(bit, n)) = n
<1> SUFFICES ASSUME NEW bit \in BitSet, NEW n \in Nat
             PROVE  Repeat(bit, n) \in Seq(BitSet) /\ Len(Repeat(bit, n)) = n
  OBVIOUS
<1>1. PICK r : r = [i \in 1 .. n |-> bit]  OBVIOUS
<1>2. r \in [1 .. n -> BitSet]  BY <1>1
<1>3. r \in Seq(BitSet) /\ Len(r) = n  BY ONLY <1>2, n \in Nat, FunctionIsSeq
<1>. QED  BY <1>1, <1>3 DEF Repeat

\* No bit.
LEMMA RepeatNone == \A x : Repeat(x, 0) = <<>>
BY DEF Repeat

\* So are the constant levels.
LEMMA LevelsAreBits == Low \in BitSet /\ High \in BitSet
BY DEF Low, High, BitSet

\* Nothing is shifted.
LEMMA NoShift ==
  \A bit, last : shift(bit, 0, last) \in CallSeqs /\ CallClocks(shift(bit, 0, last)) = <<>>
<1> SUFFICES ASSUME NEW bit, NEW last
             PROVE  shift(bit, 0, last) \in CallSeqs /\ CallClocks(shift(bit, 0, last)) = <<>>
  OBVIOUS
<1>1. PICK chunk \in Nat : chunk = Chunk  BY JtagAssumption
<1>2. Repeat(bit, 0 - 0 * Chunk) = <<>>
  <2>1. 0 - 0 * Chunk = 0  BY <1>1
  <2>. QED  BY <2>1, RepeatNone
<1>3. [i \in 1 .. 0 |-> shiftTDITDO(Repeat(bit, Chunk), FALSE, FALSE)] = <<>>
  OBVIOUS
<1>4. shiftTDITDO(<<>>, FALSE, last) = <<>>  BY DEF shiftTDITDO
<1>5. shift(bit, 0, last) = (flush_tms \o <<>>) \o <<>>
  BY <1>2, <1>3, <1>4, FlattenNone DEF shift
<1>6. (flush_tms \o <<>>) \o <<>> = flush_tms  BY flush_tmsIs, ConcatEmptySeq DEF CallSeqs
<1>. QED  BY <1>5, <1>6, flush_tmsIs

\* Equal bits are data.
LEMMA shiftIs ==
  ASSUME NEW bit \in BitSet, NEW n \in Nat \ {0}
  PROVE  IsData(shift(bit, n, FALSE))
<1> DEFINE blocks == (n - 1) \div Chunk
           x == shiftTDITDO(Repeat(bit, Chunk), FALSE, FALSE)
           y == shiftTDITDO(Repeat(bit, n - blocks * Chunk), FALSE, FALSE)
           qq == [i \in 1 .. blocks |-> x]
<1>1. shift(bit, n, FALSE) = (flush_tms \o FlattenSeq(qq)) \o y
  BY DEF shift
<1>2. PICK m \in Nat : m = n - 1  OBVIOUS
<1>3. PICK chunk \in Nat \ {0} : chunk = Chunk  BY JtagAssumption
<1>4. PICK b \in Nat : b = blocks /\ m = (b * chunk) + (m % chunk) /\ m % chunk \in Nat
  <2>1. m \div chunk \in Nat /\ m % chunk \in 0 .. chunk - 1 /\ m = ((m \div chunk) * chunk) + (m % chunk)
    BY ONLY m \in Nat, chunk \in Nat \ {0}, DivMod
  <2>2. m % chunk \in Nat  BY <2>1
  <2>. QED  BY <1>2, <1>3, <2>1, <2>2
<1>5. n - blocks * Chunk \in Nat
  <2>1. PICK u \in Nat : u = b * chunk  OBVIOUS
  <2>2. PICK v \in Nat : v = m % chunk  BY <1>4
  <2>3. m = u + v  BY ONLY <1>4, <2>1, <2>2
  <2>4. n - u \in Nat  BY ONLY <1>2, <2>3, u \in Nat, v \in Nat, m \in Nat, n \in Nat \ {0}
  <2>. QED  BY ONLY <1>3, <1>4, <2>1, <2>4
<1>6. IsData(y)  BY <1>5, RepeatInSeq, IsDataLaws
<1>7. IsData(x)  BY <1>3, RepeatInSeq, IsDataLaws
<1> HIDE DEF x, y
<1>8. IsData(FlattenSeq(qq))
  <2>1. PICK D : D = {calls \in CallSeqs : IsData(calls)}  OBVIOUS
  <2> DEFINE P == {r \in Seq(D) : IsData(FlattenSeq(r))}
  <2>2. <<>> \in P  BY FlattenNone, IsDataLaws, EmptySeq
  <2>3. \A r \in Seq(D) : \A z \in D : r \in P => Append(r, z) \in P
    <3> SUFFICES ASSUME NEW r \in Seq(D), NEW z \in D, IsData(FlattenSeq(r))
                 PROVE  IsData(FlattenSeq(Append(r, z)))
      <4>1. \A r \in Seq(D) : \A z \in D : Append(r, z) \in Seq(D)  BY AppendProperties
      <4>. QED  BY <4>1
    <3>1. PICK R : R = Seq(CallSet)  OBVIOUS
    <3>2. D \subseteq R  BY <2>1, <3>1 DEF CallSeqs
    <3>3. r \in Seq(R) /\ z \in R  BY ONLY <3>2, r \in Seq(D), z \in D, SeqMonotonic
    <3>4. FlattenSeq(Append(r, z)) = FlattenSeq(r) \o z
      <4>1. r \in Seq(Seq(CallSet)) /\ z \in Seq(CallSet)  BY ONLY <3>1, <3>3
      <4>. QED  BY ONLY <4>1, FlattenAppend
    <3>5. IsData(z)  BY <2>1
    <3>6. IsData(Join(FlattenSeq(r), z))  BY ONLY <3>5, IsData(FlattenSeq(r)), IsDataLaws
    <3>. QED  BY ONLY <3>4, <3>6 DEF Join
  <2> HIDE DEF P
  <2>4. \A r \in Seq(D) : r \in P  BY <2>2, <2>3, SeqInduction
  <2>5. qq \in Seq(D)
    <3>1. x \in D  BY <1>7, <2>1 DEF IsData
    <3>2. PICK f : f = [i \in 1 .. b |-> x]  OBVIOUS
    <3>3. f \in [1 .. b -> D]  BY <3>1, <3>2
    <3>4. f \in Seq(D)  BY ONLY <3>3, b \in Nat, FunctionIsSeq
    <3>. QED  BY <1>4, <3>2, <3>4
  <2>. QED  BY <2>4, <2>5 DEF P
<1> HIDE DEF qq
<1>9. IsData(Join(Join(flush_tms, FlattenSeq(qq)), y))
  <2>1. IsData(flush_tms)  BY IsDataLaws
  <2>2. IsData(Join(flush_tms, FlattenSeq(qq)))  BY ONLY <1>8, <2>1, IsDataLaws
  <2>. QED  BY ONLY <1>6, <2>2, IsDataLaws
<1>. QED  BY ONLY <1>1, <1>9 DEF Join

\* Calls one behind the other.
LEMMA CallsJoin ==
  \A p, q \in CallSeqs :
    Join(p, q) \in CallSeqs /\ CallClocks(Join(p, q)) = Join(CallClocks(p), CallClocks(q))
BY ONLY CallClocksLaws

\* The shift of shiftIR and shiftDR.
LEMMA ShiftRegisterIs ==
  ASSUME NEW register, NEW tdi \in Seq(BitSet), NEW tdo \in BOOLEAN
  PROVE  LET calls == ShiftRegister(register, tdi, tdo)
         IN  /\ calls \in CallSeqs
             /\ CallClocks(calls) = IF tdi = <<>> THEN <<>> ELSE BlockClocks(tdi, TRUE)
<1>1. PICK a \in CallSeqs : a = (IF register = "SHIFT_IR" THEN shift(High, 0, FALSE) ELSE <<>>)
                            /\ CallClocks(a) = <<>>
  BY NoShift, CallClocksLaws
<1>2. PICK b \in CallSeqs : b = shiftTDITDO(tdi, tdo, TRUE)
        /\ CallClocks(b) = IF tdi = <<>> THEN <<>> ELSE BlockClocks(tdi, TRUE)
  BY shiftTDITDOIs
<1>3. PICK d \in CallSeqs : d = shift(Low, 0, TRUE) /\ CallClocks(d) = <<>>  BY NoShift
<1>4. ShiftRegister(register, tdi, tdo) = Join(Join(a, b), d)
  BY <1>1, <1>2, <1>3 DEF ShiftRegister, Join
<1>5. PICK k \in ClockSeqs : k = CallClocks(b)  BY CallClocksLaws
<1>6. PICK e \in CallSeqs : e = Join(a, b) /\ CallClocks(e) = Join(<<>>, k)
  <2>1. Join(a, b) \in CallSeqs /\ CallClocks(Join(a, b)) = Join(CallClocks(a), CallClocks(b))
    BY ONLY a \in CallSeqs, b \in CallSeqs, CallsJoin
  <2>2. CallClocks(a) = <<>> /\ CallClocks(b) = k  BY <1>1, <1>5
  <2>. QED  BY ONLY <2>1, <2>2
<1>7. Join(e, d) \in CallSeqs /\ CallClocks(Join(e, d)) = Join(Join(<<>>, k), <<>>)
  BY ONLY <1>3, <1>6, e \in CallSeqs, d \in CallSeqs, CallsJoin
<1>8. Join(Join(<<>>, k), <<>>) = k  BY JoinLaws
<1>. QED  BY ONLY <1>2, <1>4, <1>5, <1>6, <1>7, <1>8

-----------------------------------------------------------------------------
(* What a function of Jtag does to chain and trail. *)

\* No clock changes how many devices there are.
LEMMA ClockAllChain ==
  ASSUME NEW c, IsCable(c)
  PROVE  \A q \in ClockSeqs : ClockAll(c, q).chain = c.chain
<1> DEFINE P == {q \in ClockSeqs : ClockAll(c, q).chain = c.chain}
<1>1. <<>> \in P
  <2>1. <<>> \in ClockSeqs  BY EmptySeq DEF ClockSeqs
  <2>. QED  BY <2>1, ClockNone
<1>2. \A q \in Seq(ClockSet) : \A x \in ClockSet : q \in P => Append(q, x) \in P
  <2> SUFFICES ASSUME NEW q \in Seq(ClockSet), NEW x \in ClockSet, q \in P
               PROVE  Append(q, x) \in P
    OBVIOUS
  <2>1. Append(q, x) \in ClockSeqs  BY AppendProperties DEF ClockSeqs
  <2>2. ClockAll(c, Append(q, x)) = Clock(ClockAll(c, q), x)  BY ClockAppend
  <2>3. IsCable(ClockAll(c, q))  BY ClockAllKeeps DEF ClockSeqs
  <2>4. Clocked(ClockAll(c, q), x, Clock(ClockAll(c, q), x))  BY ONLY <2>3, ClockIs
  <2>5. ClockAll(c, q).chain = c.chain  OBVIOUS
  <2>6. Clock(ClockAll(c, q), x).chain = c.chain  BY ONLY <2>4, <2>5 DEF Clocked
  <2>. QED  BY ONLY <2>1, <2>2, <2>6 DEF P
<1> HIDE DEF P
<1>3. \A q \in Seq(ClockSet) : q \in P  BY <1>1, <1>2, SeqInduction
<1>. QED  BY <1>3 DEF P, ClockSeqs

\* The trail of what waits.
LEMMA TrailMoves ==
  ASSUME NEW c, NEW d, IsJtag(c), IsJtag(d), NEW k \in ClockSeqs, Advances(c, d, k), NEW L,
         Trail(c, Waiting(c), L), Trail(Ideal(c), k, L)
  PROVE  Trail(d, Waiting(d), L)
<1>1. PICK e \in ClockSeqs : /\ Chain(d) = Chain(ClockAll(c, e))
                             /\ Join(e, Waiting(d)) = Join(Waiting(c), k)
  BY DEF Advances
<1>2. PICK u \in ClockSeqs : u = Waiting(c)  BY WaitingInSeq
<1>3. PICK v \in ClockSeqs : v = Waiting(d)  BY WaitingInSeq
<1>4. Trail(c, Join(u, k), L)
  <2>1. Trail(c, u, L) /\ Trail(ClockAll(c, u), k, L)  BY <1>2 DEF Ideal
  <2>. QED  BY ONLY <2>1, u \in ClockSeqs, k \in ClockSeqs, TrailJoin
<1>5. Trail(c, Join(e, v), L)  BY ONLY <1>1, <1>2, <1>3, <1>4
<1>6. Trail(ClockAll(c, e), v, L)
  BY ONLY <1>5, e \in ClockSeqs, v \in ClockSeqs, TrailParts
<1>7. IsCable(ClockAll(c, e)) /\ IsCable(d)  BY ClockAllKeeps DEF IsJtag, IsBuffered
<1>8. Chain(ClockAll(c, e)) = Chain(d)  BY <1>1
<1>9. Trail(d, v, L)  BY ONLY <1>6, <1>7, <1>8, TrailAlike
<1>. QED  BY <1>3, <1>9

\* What everything that waits leads to.
LEMMA PerformLeads ==
  ASSUME NEW c, IsJtag(c), NEW calls \in CallSeqs, NEW state, NEW d, d = Perform(c, calls, state)
  PROVE  /\ IsJtag(d) /\ d.state = state /\ d.chain = c.chain
         /\ Chain(Ideal(d)) = Chain(ClockAll(Ideal(c), CallClocks(calls)))
         /\ IsCable(Ideal(c)) /\ IsCable(Ideal(d)) /\ CallClocks(calls) \in ClockSeqs
         /\ \A L : Trail(c, Waiting(c), L) /\ Trail(Ideal(c), CallClocks(calls), L)
                     => Trail(d, Waiting(d), L)
<1>1. IsJtag(d) /\ d.state = state /\ Advances(c, d, CallClocks(calls))  BY PerformMoves
<1>2. CallClocks(calls) \in ClockSeqs  BY CallClocksLaws
<1>3. Chain(Ideal(d)) = Chain(ClockAll(Ideal(c), CallClocks(calls)))  BY PerformIdeal
<1>4. d.chain = c.chain
  <2>1. PICK e \in ClockSeqs : Chain(d) = Chain(ClockAll(c, e))  BY <1>1 DEF Advances
  <2>2. ClockAll(c, e).chain = c.chain  BY ClockAllChain DEF IsJtag, IsBuffered
  <2>. QED  BY <2>1, <2>2 DEF Chain
<1>5. IsCable(Ideal(c)) /\ IsCable(Ideal(d))  BY <1>1, IdealIsCable
<1>6. ASSUME NEW L, Trail(c, Waiting(c), L), Trail(Ideal(c), CallClocks(calls), L)
      PROVE  Trail(d, Waiting(d), L)
  BY ONLY <1>1, <1>2, <1>6, IsJtag(c), TrailMoves
<1>. QED  BY ONLY <1>1, <1>2, <1>3, <1>4, <1>5, <1>6

\* Where the chain is, for chains that are alike.
LEMMA SameChain ==
  ASSUME NEW c, NEW d, Chain(c) = Chain(d)
  PROVE  /\ c.tap = d.tap /\ c.level = d.level /\ c.chain = d.chain /\ c.reset = d.reset
         /\ c.latched = d.latched /\ c.reg = d.reg /\ c.captures = d.captures
BY DEF Chain

\* Neither does what waits.
LEMMA IdealChain == \A c : IsJtag(c) => Ideal(c).chain = c.chain
BY ClockAllChain, WaitingInSeq DEF Ideal, IsJtag, IsBuffered

-----------------------------------------------------------------------------
(* A scan: to the register, through it, and to RUN_TEST_IDLE. *)

\* These clocks lead from c to d, and what is latched on the way is in L.
Leg(c, k, d, L) ==
  k \in ClockSeqs /\ IsCable(c) /\ d = ClockAll(c, k) /\ Trail(c, k, L)

\* Two legs are one.
LEMMA LegsJoin ==
  \A c, d, e, L : \A k, m : Leg(c, k, d, L) /\ Leg(d, m, e, L) => Leg(c, Join(k, m), e, L)
<1> SUFFICES ASSUME NEW c, NEW d, NEW e, NEW L, NEW k, NEW m, Leg(c, k, d, L), Leg(d, m, e, L)
             PROVE  Leg(c, Join(k, m), e, L)
  OBVIOUS
<1>1. k \in ClockSeqs /\ m \in ClockSeqs /\ IsCable(c)  BY DEF Leg
<1>2. d = ClockAll(c, k) /\ e = ClockAll(d, m)  BY DEF Leg
<1>3. Join(k, m) \in ClockSeqs  BY <1>1, JoinLaws
<1>4. ClockAll(c, Join(k, m)) = e  BY ONLY <1>1, <1>2, ClockAllJoin
<1>5. Trail(c, k, L) /\ Trail(ClockAll(c, k), m, L)  BY ONLY <1>2, Leg(c, k, d, L), Leg(d, m, e, L) DEF Leg
<1>6. Trail(c, Join(k, m), L)  BY ONLY <1>1, <1>5, TrailJoin
<1>. QED  BY ONLY <1>1, <1>3, <1>4, <1>6 DEF Leg

\* These bits lead to a register and capture it.
Reaches(c, pat, register) ==
  LET d == ClockAll(c, TmsClocks(pat))
  IN  /\ pat \in Seq({0, 1}) /\ At(d, register, 0, c.chain)
      /\ d.reset = c.reset /\ d.latched = c.latched
      /\ d.reg = IF register = "SHIFT_IR" THEN Bits("status", c.captures + 1, IrLen)
                 ELSE IF c.reset THEN Ids(c.chain) ELSE <<>>
      /\ Trail(c, TmsClocks(pat), {c.latched})

\* The ways to the registers (setTapState).
LEMMA ReachesAll ==
  ASSUME NEW c, IsCable(c), c.reset \in BOOLEAN
  PROVE  /\ c.tap = "TEST_LOGIC_RESET" => Reaches(c, <<0, 1, 1, 0, 0>>, "SHIFT_IR")
         /\ c.tap = "TEST_LOGIC_RESET" => Reaches(c, <<0, 1, 0, 0>>, "SHIFT_DR")
         /\ c.tap = "RUN_TEST_IDLE" => Reaches(c, <<1, 1, 0, 0>>, "SHIFT_IR")
         /\ c.tap = "RUN_TEST_IDLE" => Reaches(c, <<1, 0, 0>>, "SHIFT_DR")
<1>1. /\ <<0, 1, 1, 0, 0>> \in Seq({0, 1}) /\ <<0, 1, 0, 0>> \in Seq({0, 1})
      /\ <<1, 1, 0, 0>> \in Seq({0, 1}) /\ <<1, 0, 0>> \in Seq({0, 1})
  OBVIOUS
<1>2. \A x : {x, x} = {x}  OBVIOUS
<1>3. ASSUME c.tap = "TEST_LOGIC_RESET" PROVE Reaches(c, <<0, 1, 1, 0, 0>>, "SHIFT_IR")
  BY ONLY IsCable(c), c.reset \in BOOLEAN, <1>1, <1>2, <1>3, ResetToShiftIRClocks DEF Reaches
<1>4. ASSUME c.tap = "TEST_LOGIC_RESET" PROVE Reaches(c, <<0, 1, 0, 0>>, "SHIFT_DR")
  BY ONLY IsCable(c), c.reset \in BOOLEAN, <1>1, <1>2, <1>4, ResetToShiftDRClocks DEF Reaches
<1>5. ASSUME c.tap = "RUN_TEST_IDLE" PROVE Reaches(c, <<1, 1, 0, 0>>, "SHIFT_IR")
  BY ONLY IsCable(c), c.reset \in BOOLEAN, <1>1, <1>2, <1>5, IdleToShiftIRClocks DEF Reaches
<1>6. ASSUME c.tap = "RUN_TEST_IDLE" PROVE Reaches(c, <<1, 0, 0>>, "SHIFT_DR")
  BY ONLY IsCable(c), c.reset \in BOOLEAN, <1>1, <1>2, <1>6, IdleToShiftDRClocks DEF Reaches
<1>. QED  BY <1>3, <1>4, <1>5, <1>6

ScanClocks(pat, tdi) ==
  Join(Join(TmsClocks(pat), BlockClocks(tdi, TRUE)), TmsClocks(<<1, 0>>))

\* What a scan does: c before it, d after it.
Scanned(c, register, tdi, d) ==
  /\ At(d, "RUN_TEST_IDLE", 0, c.chain) /\ d.reset = FALSE
  /\ c.chain > 0 => d.latched = Append(c.latched, tdi)

\* The register takes the data and they are latched once.
LEMMA ScanPath ==
  ASSUME NEW c, IsCable(c), c.reset \in BOOLEAN, NEW register \in {"SHIFT_IR", "SHIFT_DR"},
         register = "SHIFT_DR" => c.reset = FALSE,
         NEW pat, Reaches(c, pat, register),
         NEW tdi \in Seq(BitSet), tdi # <<>>, register = "SHIFT_IR" => Len(tdi) = IrLen
  PROVE  LET k == ScanClocks(pat, tdi)
             d == ClockAll(c, k)
         IN  Leg(c, k, d, {c.latched, d.latched}) /\ Scanned(c, register, tdi, d)
<1>1. PICK k1 : k1 = TmsClocks(pat)  OBVIOUS
<1>2. PICK k2 : k2 = BlockClocks(tdi, TRUE)  OBVIOUS
<1>3. PICK k3 : k3 = TmsClocks(<<1, 0>>)  OBVIOUS
<1>4. PICK e : e = ClockAll(c, k1)  OBVIOUS
<1>5. PICK f : f = ClockAll(e, k2)  OBVIOUS
<1>6. PICK g : g = ClockAll(f, k3)  OBVIOUS
<1>7. k1 \in ClockSeqs /\ k3 \in ClockSeqs
  <2>1. {0, 1} \subseteq TmsSet  BY DEF TmsSet
  <2>2. pat \in Seq({0, 1})  BY DEF Reaches
  <2>3. PICK R : R = {0, 1}  OBVIOUS
  <2>4. <<1, 0>> \in Seq({0, 1})  OBVIOUS
  <2>5. pat \in Seq(TmsSet) /\ <<1, 0>> \in Seq(TmsSet)
    BY ONLY <2>1, <2>2, <2>3, <2>4, SeqMonotonic
  <2>. QED  BY ONLY <1>1, <1>3, <2>5, ClocksOfBits
<1>8. /\ At(e, register, 0, c.chain) /\ e.reset = c.reset /\ e.latched = c.latched
      /\ e.reg = IF register = "SHIFT_IR" THEN Bits("status", c.captures + 1, IrLen)
                 ELSE IF c.reset THEN Ids(c.chain) ELSE <<>>
      /\ Trail(c, k1, {c.latched})
  BY ONLY Reaches(c, pat, register), <1>1, <1>4 DEF Reaches
<1>9. IsResting(e) /\ e.tap = register /\ e.chain = c.chain /\ IsCable(e)
  BY <1>8 DEF IsResting, At
<1>10. /\ k2 \in ClockSeqs /\ Trail(e, k2, {e.latched})
       /\ At(f, IF e.tap = "SHIFT_IR" THEN "EXIT1_IR" ELSE "EXIT1_DR", 1, e.chain)
       /\ f.reset = e.reset /\ f.latched = e.latched
       /\ (e.tap = "SHIFT_DR" /\ e.chain > 0 /\ e.reset = FALSE /\ e.reg = <<>>) => f.reg = tdi
       /\ \A n : (e.tap = "SHIFT_IR" /\ e.chain > 0 /\ e.reg = Bits("status", n, IrLen)
                    /\ Len(tdi) = IrLen) => f.reg = tdi
  <2>1. e.tap \in {"SHIFT_IR", "SHIFT_DR"}  BY <1>9
  <2>. QED  BY ONLY <1>2, <1>5, <1>9, <2>1, tdi \in Seq(BitSet), tdi # <<>>, BlockLeads
<1>11. IsCable(f) /\ f.chain = c.chain /\ f.latched = c.latched /\ f.reset = c.reset
       /\ f.tap = IF register = "SHIFT_IR" THEN "EXIT1_IR" ELSE "EXIT1_DR"
  BY ONLY <1>8, <1>9, <1>10 DEF At
<1>12. c.chain > 0 => f.reg = tdi
  <2>1. CASE register = "SHIFT_IR"  BY <1>8, <1>9, <1>10, <2>1
  <2>2. CASE register = "SHIFT_DR"  BY <1>8, <1>9, <1>10, <2>2
  <2>. QED  BY <2>1, <2>2
<1>13. /\ At(g, "RUN_TEST_IDLE", 0, f.chain) /\ g.reset = FALSE
       /\ g.latched = Append(f.latched, f.reg) /\ Trail(f, k3, {f.latched, g.latched})
  <2>1. CASE register = "SHIFT_IR"
    <3>1. f.tap = "EXIT1_IR" /\ f.reset \in BOOLEAN  BY <1>11, <2>1
    <3>. QED  BY ONLY <1>3, <1>6, <1>11, <3>1, Exit1IRToIdleClocks
  <2>2. CASE register = "SHIFT_DR"
    <3>1. f.tap = "EXIT1_DR" /\ f.reset \in BOOLEAN /\ f.reset = FALSE  BY <1>11, <2>2
    <3>. QED  BY ONLY <1>3, <1>6, <1>11, <3>1, Exit1DRToIdleClocks
  <2>. QED  BY <2>1, <2>2
<1>14. PICK L : L = {c.latched, g.latched}  OBVIOUS
<1>15. Leg(c, k1, e, L)
  <2>1. {c.latched} \subseteq L  BY <1>14
  <2>2. Trail(c, k1, L)  BY ONLY <1>8, <2>1, TrailIn
  <2>. QED  BY ONLY <1>4, <1>7, <2>2, IsCable(c) DEF Leg
<1>16. Leg(e, k2, f, L)
  <2>1. {e.latched} \subseteq L  BY <1>8, <1>14
  <2>2. Trail(e, k2, L)  BY ONLY <1>10, <2>1, TrailIn
  <2>. QED  BY ONLY <1>5, <1>9, <1>10, <2>2 DEF Leg
<1>17. Leg(f, k3, g, L)
  <2>1. {f.latched, g.latched} \subseteq L  BY <1>11, <1>14
  <2>2. Trail(f, k3, L)  BY ONLY <1>13, <2>1, TrailIn
  <2>. QED  BY ONLY <1>6, <1>7, <1>11, <2>2 DEF Leg
<1>18. Leg(c, Join(k1, k2), f, L)  BY ONLY <1>15, <1>16, LegsJoin
<1>19. Leg(c, Join(Join(k1, k2), k3), g, L)  BY ONLY <1>17, <1>18, LegsJoin
<1>20. ScanClocks(pat, tdi) = Join(Join(k1, k2), k3)  BY <1>1, <1>2, <1>3 DEF ScanClocks
<1>21. ClockAll(c, ScanClocks(pat, tdi)) = g  BY ONLY <1>19, <1>20 DEF Leg
<1>22. Scanned(c, register, tdi, g)  BY ONLY <1>11, <1>12, <1>13 DEF Scanned
<1>. QED  BY ONLY <1>14, <1>19, <1>20, <1>21, <1>22

-----------------------------------------------------------------------------
(* The functions of Jtag between getChain and the end. *)

\* The calls of a scan.
LEMMA ScanCallsAre ==
  ASSUME NEW register \in {"SHIFT_IR", "SHIFT_DR"}, NEW tdi \in Seq(BitSet), NEW tdo \in BOOLEAN,
         NEW state, NEW pat, Leads(state, register, pat)
  PROVE  LET calls == setTapState(state, register) \o ShiftRegister(register, tdi, tdo)
                        \o setTapState(nextTapState(register), "RUN_TEST_IDLE")
         IN  calls \in CallSeqs /\ (tdi # <<>> => CallClocks(calls) = ScanClocks(pat, tdi))
<1>1. PICK a \in CallSeqs : a = setTapState(state, register) /\ CallClocks(a) = TmsClocks(pat)
  BY DEF Leads
<1>2. PICK b \in CallSeqs : /\ b = ShiftRegister(register, tdi, tdo)
                            /\ tdi # <<>> => CallClocks(b) = BlockClocks(tdi, TRUE)
  <2>1. ShiftRegister(register, tdi, tdo) \in CallSeqs  BY ShiftRegisterIs
  <2>2. tdi # <<>> => CallClocks(ShiftRegister(register, tdi, tdo)) = BlockClocks(tdi, TRUE)
    BY ShiftRegisterIs
  <2>. QED  BY <2>1, <2>2
<1>3. PICK e \in CallSeqs : /\ e = setTapState(nextTapState(register), "RUN_TEST_IDLE")
                            /\ CallClocks(e) = TmsClocks(<<1, 0>>)
  <2>1. nextTapState(register) \in {"EXIT1_IR", "EXIT1_DR"}  BY DEF nextTapState
  <2>2. Leads(nextTapState(register), "RUN_TEST_IDLE", <<1, 0>>)
    BY <2>1, Exit1IRToIdle, Exit1DRToIdle
  <2>. QED  BY <2>2 DEF Leads
<1>4. PICK f \in CallSeqs : f = Join(a, b) /\ CallClocks(f) = Join(CallClocks(a), CallClocks(b))
  BY ONLY a \in CallSeqs, b \in CallSeqs, CallsJoin
<1>5. Join(f, e) \in CallSeqs /\ CallClocks(Join(f, e)) = Join(CallClocks(f), CallClocks(e))
  BY ONLY f \in CallSeqs, e \in CallSeqs, CallsJoin
<1>6. setTapState(state, register) \o ShiftRegister(register, tdi, tdo)
        \o setTapState(nextTapState(register), "RUN_TEST_IDLE") = Join(f, e)
  BY ONLY <1>1, <1>2, <1>3, <1>4 DEF Join
<1>7. tdi # <<>> => CallClocks(Join(f, e)) = ScanClocks(pat, tdi)
  BY ONLY <1>1, <1>2, <1>3, <1>4, <1>5 DEF ScanClocks
<1>. QED  BY ONLY <1>5, <1>6, <1>7

\* The pattern that leads from where a function starts to a register.
Way(state, register) ==
  IF state = "TEST_LOGIC_RESET"
    THEN IF register = "SHIFT_IR" THEN <<0, 1, 1, 0, 0>> ELSE <<0, 1, 0, 0>>
    ELSE IF register = "SHIFT_IR" THEN <<1, 1, 0, 0>> ELSE <<1, 0, 0>>

\* setTapState takes that way.
LEMMA WayLeads ==
  \A state \in {"TEST_LOGIC_RESET", "RUN_TEST_IDLE"} :
    \A register \in {"SHIFT_IR", "SHIFT_DR"} : Leads(state, register, Way(state, register))
BY ResetToShiftIR, ResetToShiftDR, IdleToShiftIR, IdleToShiftDR DEF Way

\* The way reaches the register.
LEMMA WayReaches ==
  \A state \in {"TEST_LOGIC_RESET", "RUN_TEST_IDLE"} :
    \A register \in {"SHIFT_IR", "SHIFT_DR"} : \A c :
      IsCable(c) /\ c.reset \in BOOLEAN /\ c.tap = state => Reaches(c, Way(state, register), register)
BY ReachesAll DEF Way

\* The beginnings of what was issued.
Words == Seq(Seq(BitSet))
Beginnings(q) == {p \in Words : IsPrefix(p, q)}

\* With one word more there are more beginnings.
LEMMA BeginningsGrow ==
  \A q \in Words : \A x \in Seq(BitSet) :
    /\ q \in Beginnings(q) /\ Append(q, x) \in Words /\ Append(q, x) \in Beginnings(Append(q, x))
    /\ Beginnings(q) \subseteq Beginnings(Append(q, x))
<1>1. PICK S : S = Seq(BitSet)  OBVIOUS
<1>2. SUFFICES ASSUME NEW q \in Seq(S), NEW x \in S
               PROVE  /\ q \in Beginnings(q) /\ Append(q, x) \in Seq(S)
                      /\ Append(q, x) \in Beginnings(Append(q, x))
                      /\ Beginnings(q) \subseteq Beginnings(Append(q, x))
  BY <1>1 DEF Words
<1>3. \A r \in Seq(S) : r \in Beginnings(r)
  <2> SUFFICES ASSUME NEW r \in Seq(S) PROVE r \in Words /\ IsPrefix(r, r)  BY DEF Beginnings
  <2>1. Len(r) \in Nat  BY LenProperties
  <2>. QED  BY <1>1, <2>1 DEF Words, IsPrefix
<1>4. PICK r \in Seq(S) : r = Append(q, x)  BY AppendProperties
<1>5. PICK n \in Nat : n = Len(q)  BY LenProperties
<1>6. Len(r) = n + 1 /\ \A i \in 1 .. n : r[i] = q[i]  BY <1>4, <1>5, AppendProperties
<1>7. ASSUME NEW p \in Seq(S), IsPrefix(p, q) PROVE IsPrefix(p, r)
  <2>1. PICK m \in Nat : m = Len(p)  BY LenProperties
  <2>2. m <= n /\ SubSeq(p, 1, m) = SubSeq(q, 1, m)  BY <1>5, <1>7, <2>1 DEF IsPrefix
  <2>3. m <= n + 1  BY <2>2
  <2>4. SubSeq(q, 1, m) = [i \in 1 .. m |-> q[i]] /\ SubSeq(r, 1, m) = [i \in 1 .. m |-> r[i]]
    BY <1>5, <1>6, <2>2, <2>3
  <2>5. \A i \in 1 .. m : r[i] = q[i]  BY <1>6, <2>2
  <2>6. SubSeq(r, 1, m) = SubSeq(q, 1, m)  BY ONLY <2>4, <2>5
  <2>. QED  BY <1>6, <2>1, <2>2, <2>3, <2>6 DEF IsPrefix
<1>. QED  BY <1>1, <1>3, <1>4, <1>7 DEF Beginnings, Words

\* The chain is where the software believes, and has latched, or will latch, q.
Settled(c, q) ==
  /\ IsJtag(c) /\ c.state \in {"TEST_LOGIC_RESET", "RUN_TEST_IDLE"}
  /\ At(Ideal(c), c.state, IF c.state = "TEST_LOGIC_RESET" THEN 1 ELSE 0, c.chain)
  /\ c.state = "TEST_LOGIC_RESET" => Ideal(c).reset = TRUE /\ Ideal(c).latched = <<>> /\ q = <<>>
  /\ c.state = "RUN_TEST_IDLE" => Ideal(c).reset = FALSE
  /\ c.chain > 0 => Ideal(c).latched = q /\ Trail(c, Waiting(c), Beginnings(q))

\* Whatever is shifted, the shadow is in RUN_TEST_IDLE.
LEMMA ScanMoves ==
  ASSUME NEW c, IsJtag(c), c.state \in {"TEST_LOGIC_RESET", "RUN_TEST_IDLE"},
         NEW register \in {"SHIFT_IR", "SHIFT_DR"}, NEW tdi \in Seq(BitSet), NEW tdo \in BOOLEAN
  PROVE  LET d == Scan(c, register, tdi, tdo)
         IN  IsJtag(d) /\ d.state = "RUN_TEST_IDLE" /\ d.chain = c.chain
<1>1. PICK pat : pat = Way(c.state, register)  OBVIOUS
<1>2. Leads(c.state, register, pat)  BY <1>1, WayLeads
<1>3. PICK calls \in CallSeqs :
        calls = setTapState(c.state, register) \o ShiftRegister(register, tdi, tdo)
                  \o setTapState(nextTapState(register), "RUN_TEST_IDLE")
  BY <1>2, ScanCallsAre
<1>4. Scan(c, register, tdi, tdo) = Perform(c, calls, "RUN_TEST_IDLE")  BY <1>3 DEF Scan
<1>. QED  BY ONLY <1>4, IsJtag(c), calls \in CallSeqs, PerformLeads

\* Data of some length reach the device behind all that was issued.
LEMMA ScanSettles ==
  ASSUME NEW c, NEW q \in Words, Settled(c, q),
         NEW register \in {"SHIFT_IR", "SHIFT_DR"}, NEW tdi \in Seq(BitSet), NEW tdo \in BOOLEAN,
         tdi # <<>>, register = "SHIFT_IR" => Len(tdi) = IrLen,
         register = "SHIFT_DR" => c.state = "RUN_TEST_IDLE"
  PROVE  Settled(Scan(c, register, tdi, tdo), Append(q, tdi))
<1>1. PICK d : d = Scan(c, register, tdi, tdo)  OBVIOUS
<1>2. PICK state \in {"TEST_LOGIC_RESET", "RUN_TEST_IDLE"} : state = c.state  BY DEF Settled
<1>3. PICK pat : pat = Way(state, register)  OBVIOUS
<1>4. Leads(state, register, pat)  BY <1>3, WayLeads
<1>5. PICK calls \in CallSeqs :
        /\ calls = setTapState(state, register) \o ShiftRegister(register, tdi, tdo)
                     \o setTapState(nextTapState(register), "RUN_TEST_IDLE")
        /\ CallClocks(calls) = ScanClocks(pat, tdi)
  BY <1>4, ScanCallsAre
<1>6. d = Perform(c, calls, "RUN_TEST_IDLE")  BY <1>1, <1>2, <1>5 DEF Scan
<1>7. PICK i : i = Ideal(c)  OBVIOUS
<1>8. IsCable(i) /\ i.tap = state /\ i.chain = c.chain /\ i.reset \in BOOLEAN
  BY <1>2, <1>7 DEF Settled, At
<1>9. register = "SHIFT_DR" => i.reset = FALSE  BY <1>7 DEF Settled
<1>10. Reaches(i, pat, register)  BY ONLY <1>3, <1>8, state \in {"TEST_LOGIC_RESET", "RUN_TEST_IDLE"},
  register \in {"SHIFT_IR", "SHIFT_DR"}, WayReaches
<1>11. PICK k : k = ScanClocks(pat, tdi)  OBVIOUS
<1>12. PICK g : g = ClockAll(i, k)  OBVIOUS
<1>13. Leg(i, k, g, {i.latched, g.latched}) /\ Scanned(i, register, tdi, g)
  BY ONLY <1>8, <1>9, <1>10, <1>11, <1>12, register \in {"SHIFT_IR", "SHIFT_DR"},
    tdi \in Seq(BitSet), tdi # <<>>, register = "SHIFT_IR" => Len(tdi) = IrLen, ScanPath
<1>14. IsJtag(c)  BY DEF Settled
<1>15. /\ IsJtag(d) /\ d.state = "RUN_TEST_IDLE" /\ d.chain = c.chain
       /\ Chain(Ideal(d)) = Chain(ClockAll(Ideal(c), CallClocks(calls)))
       /\ IsCable(Ideal(d))
       /\ \A L : Trail(c, Waiting(c), L) /\ Trail(Ideal(c), CallClocks(calls), L)
                   => Trail(d, Waiting(d), L)
  BY ONLY <1>6, <1>14, calls \in CallSeqs, PerformLeads
<1>16. Chain(Ideal(d)) = Chain(g)  BY ONLY <1>5, <1>7, <1>11, <1>12, <1>15
<1>17. /\ Ideal(d).tap = g.tap /\ Ideal(d).level = g.level /\ Ideal(d).chain = g.chain
       /\ Ideal(d).reset = g.reset /\ Ideal(d).latched = g.latched
  BY ONLY <1>16, SameChain
<1>18. At(Ideal(d), "RUN_TEST_IDLE", 0, c.chain) /\ Ideal(d).reset = FALSE
  BY ONLY <1>8, <1>13, <1>15, <1>17 DEF Scanned, At
<1>19. ASSUME c.chain > 0
       PROVE  /\ Ideal(d).latched = Append(q, tdi)
              /\ Trail(d, Waiting(d), Beginnings(Append(q, tdi)))
  <2>1. i.latched = q /\ Trail(c, Waiting(c), Beginnings(q))  BY <1>7, <1>19 DEF Settled
  <2>2. g.latched = Append(q, tdi)  BY ONLY <1>8, <1>13, <1>19, <2>1 DEF Scanned
  <2>3. PICK B : B = Beginnings(Append(q, tdi))  OBVIOUS
  <2>4. Beginnings(q) \subseteq B /\ q \in B /\ Append(q, tdi) \in B
    BY ONLY <2>3, q \in Words, tdi \in Seq(BitSet), BeginningsGrow
  <2>5. Trail(c, Waiting(c), B)  BY ONLY <2>1, <2>4, TrailIn
  <2>6. {i.latched, g.latched} \subseteq B  BY ONLY <2>1, <2>2, <2>4
  <2>7. Trail(i, k, {i.latched, g.latched})  BY ONLY <1>13 DEF Leg
  <2>8. Trail(i, k, B)  BY ONLY <2>6, <2>7, TrailIn
  <2>9. Trail(d, Waiting(d), B)  BY ONLY <1>5, <1>7, <1>11, <1>15, <2>5, <2>8
  <2>. QED  BY ONLY <1>17, <2>2, <2>3, <2>9
<1>20. Settled(d, Append(q, tdi))
  BY ONLY <1>15, <1>18, <1>19 DEF Settled
<1>. QED  BY ONLY <1>1, <1>20

-----------------------------------------------------------------------------
(* Data without end, and flushing. *)

\* A settled chain rests.
LEMMA SettledRests ==
  \A c, q : Settled(c, q) => IsJtag(c) /\ IsResting(Ideal(c)) /\ Ideal(c).chain = c.chain
BY DEF Settled, IsResting, At

\* Clocks that keep the level of TMS leave it as it is (cycleTCK).
LEMMA DataSettles ==
  ASSUME NEW c, NEW q \in Words, Settled(c, q), NEW calls, IsData(calls)
  PROVE  Settled(Perform(c, calls, c.state), q)
<1>1. PICK d : d = Perform(c, calls, c.state)  OBVIOUS
<1>2. PICK u \in Seq(BitSet) : CallClocks(calls) = DataClocks(u)  BY DEF IsData
<1>3. calls \in CallSeqs  BY DEF IsData
<1>4. IsJtag(c) /\ IsResting(Ideal(c)) /\ Ideal(c).chain = c.chain  BY SettledRests
<1>5. PICK i : i = Ideal(c)  OBVIOUS
<1>6. PICK k : k = DataClocks(u)  OBVIOUS
<1>7. PICK g : g = ClockAll(i, k)  OBVIOUS
<1>8. Rested(i, g) /\ Trail(i, k, {i.latched})
  BY ONLY <1>4, <1>5, <1>6, <1>7, u \in Seq(BitSet), DataRests
<1>9. /\ IsJtag(d) /\ d.state = c.state /\ d.chain = c.chain
      /\ Chain(Ideal(d)) = Chain(ClockAll(Ideal(c), CallClocks(calls)))
      /\ IsCable(Ideal(d))
      /\ \A L : Trail(c, Waiting(c), L) /\ Trail(Ideal(c), CallClocks(calls), L)
                  => Trail(d, Waiting(d), L)
  BY ONLY <1>1, <1>3, <1>4, PerformLeads
<1>10. Chain(Ideal(d)) = Chain(g)  BY ONLY <1>2, <1>5, <1>6, <1>7, <1>9
<1>11. /\ Ideal(d).tap = g.tap /\ Ideal(d).level = g.level /\ Ideal(d).chain = g.chain
       /\ Ideal(d).reset = g.reset /\ Ideal(d).latched = g.latched
  BY ONLY <1>10, SameChain
<1>12. /\ Ideal(d).tap = i.tap /\ Ideal(d).level = i.level /\ Ideal(d).chain = i.chain
       /\ Ideal(d).reset = i.reset /\ Ideal(d).latched = i.latched
  BY ONLY <1>8, <1>11 DEF Rested, At
<1>13. ASSUME c.chain > 0 PROVE Trail(d, Waiting(d), Beginnings(q))
  <2>1. i.latched = q /\ Trail(c, Waiting(c), Beginnings(q))  BY <1>5, <1>13 DEF Settled
  <2>2. q \in Beginnings(q)
    <3>1. <<>> \in Seq(BitSet)  BY EmptySeq
    <3>. QED  BY ONLY <3>1, q \in Words, BeginningsGrow
  <2>3. {i.latched} \subseteq Beginnings(q)  BY ONLY <2>1, <2>2
  <2>4. Trail(i, k, Beginnings(q))  BY ONLY <1>8, <2>3, TrailIn
  <2>. QED  BY ONLY <1>2, <1>5, <1>6, <1>9, <2>1, <2>4
<1>14. Settled(d, q)  BY ONLY <1>5, <1>9, <1>12, <1>13, Settled(c, q) DEF Settled, At
<1>. QED  BY ONLY <1>1, <1>14

\* Flushing brings the chain there (IOBase::Usleep).
LEMMA DrainSettles ==
  ASSUME NEW c, NEW q \in Words, Settled(c, q)
  PROVE  LET d == Perform(c, flush_tms \o flush, c.state)
         IN  Settled(d, q) /\ Waiting(d) = <<>> /\ Chain(d) = Chain(Ideal(c)) /\ d.chain = c.chain
<1>1. PICK d : d = Perform(c, flush_tms \o flush, c.state)  OBVIOUS
<1>2. IsJtag(c) /\ IsCable(Ideal(c)) /\ Ideal(c).chain = c.chain
  BY SettledRests DEF IsResting
<1>3. IsJtag(d) /\ d.state = c.state /\ Waiting(d) = <<>> /\ Chain(d) = Chain(Ideal(c))
  BY ONLY <1>1, <1>2, DrainMoves DEF Ideal
<1>4. Ideal(d) = d  BY <1>3, ClockNone DEF Ideal
<1>5. /\ d.tap = Ideal(c).tap /\ d.level = Ideal(c).level /\ d.chain = Ideal(c).chain
      /\ d.reset = Ideal(c).reset /\ d.latched = Ideal(c).latched
  BY ONLY <1>3, SameChain
<1>6. IsCable(d)  BY <1>3 DEF IsJtag, IsBuffered
<1>7. ASSUME c.chain > 0 PROVE Trail(d, Waiting(d), Beginnings(q))
  <2>1. d.latched = q  BY <1>5, <1>7 DEF Settled
  <2>2. q \in Beginnings(q)
    <3>1. <<>> \in Seq(BitSet)  BY EmptySeq
    <3>. QED  BY ONLY <3>1, q \in Words, BeginningsGrow
  <2>3. Trail(d, <<>>, Beginnings(q))  BY ONLY <2>1, <2>2, TrailNone
  <2>. QED  BY ONLY <1>3, <2>3
<1>8. Settled(d, q)  BY ONLY <1>2, <1>3, <1>4, <1>5, <1>6, <1>7, Settled(c, q) DEF Settled, At
<1>. QED  BY ONLY <1>1, <1>2, <1>3, <1>5, <1>8

\* What the chain has latched is a beginning of what was issued; all of it when
\* nothing waits.
LEMMA SettledLatched ==
  ASSUME NEW c, NEW q, Settled(c, q), c.chain > 0
  PROVE  IsPrefix(c.latched, q) /\ (Waiting(c) = <<>> => c.latched = q)
<1>1. PICK w \in ClockSeqs : w = Waiting(c)  BY WaitingInSeq DEF Settled
<1>2. Trail(c, w, Beginnings(q)) /\ Ideal(c).latched = q  BY <1>1 DEF Settled
<1>3. <<>> \in ClockSeqs /\ Join(<<>>, w) = w  BY JoinLaws
<1>4. ClockAll(c, <<>>) = c  BY ClockNone
<1>5. c.latched \in Beginnings(q)  BY ONLY <1>2, <1>3, <1>4, w \in ClockSeqs DEF Trail
<1>6. Waiting(c) = <<>> => Ideal(c) = c  BY <1>4 DEF Ideal
<1>. QED  BY <1>2, <1>5, <1>6 DEF Beginnings

-----------------------------------------------------------------------------
(* getChain: five bits of TMS and a flush, the walk, the reads, the way back. *)

\* The calls of two sequences come one after the other.
LEMMA IoAllJoin ==
  ASSUME NEW c, NEW p \in CallSeqs
  PROVE  \A q \in CallSeqs : IoAll(c, Join(p, q)) = IoAll(IoAll(c, p), q)
<1> DEFINE P == {q \in CallSeqs : IoAll(c, Join(p, q)) = IoAll(IoAll(c, p), q)}
<1>1. <<>> \in P
  <2>1. Join(p, <<>>) = p /\ <<>> \in CallSeqs  BY ConcatEmptySeq, EmptySeq DEF Join, CallSeqs
  <2>. QED  BY <2>1, IoNone
<1>2. \A q \in Seq(CallSet) : \A x \in CallSet : q \in P => Append(q, x) \in P
  <2> SUFFICES ASSUME NEW q \in Seq(CallSet), NEW x \in CallSet, q \in P
               PROVE  Append(q, x) \in P
    OBVIOUS
  <2>1. Append(q, x) \in CallSeqs  BY AppendProperties DEF CallSeqs
  <2>2. p \in Seq(CallSet) /\ Join(p, q) \in Seq(CallSet)  BY ConcatProperties DEF Join, CallSeqs
  <2>3. Join(p, Append(q, x)) = Append(Join(p, q), x)  BY <2>2, ConcatAppend DEF Join
  <2>4. IoAll(c, Append(Join(p, q), x)) = Io(IoAll(c, Join(p, q)), x)  BY <2>2, IoAppend
  <2>5. IoAll(IoAll(c, p), Append(q, x)) = Io(IoAll(IoAll(c, p), q), x)  BY IoAppend
  <2>6. IoAll(c, Join(p, q)) = IoAll(IoAll(c, p), q)  OBVIOUS
  <2>. QED  BY ONLY <2>1, <2>3, <2>4, <2>5, <2>6 DEF P
<1> HIDE DEF P
<1>3. \A q \in Seq(CallSet) : q \in P  BY <1>1, <1>2, SeqInduction
<1>. QED  BY <1>3 DEF P, CallSeqs

\* Cables that differ in nothing the chain depends on.
LEMMA SameCable ==
  ASSUME NEW c, NEW d, IsJtag(c), IsCable(d), Chain(d) = Chain(c), d.tms = c.tms,
         d.usbuf = c.usbuf, d.bptr = c.bptr
  PROVE  /\ IsJtag(d) /\ Waiting(d) = Waiting(c) /\ Chain(Ideal(d)) = Chain(Ideal(c))
         /\ IsCable(Ideal(c)) /\ IsCable(Ideal(d))
         /\ \A L : Trail(c, Waiting(c), L) => Trail(d, Waiting(d), L)
<1>1. IsJtag(d)  BY DEF IsJtag, IsBuffered
<1>2. Waiting(d) = Waiting(c)  BY DEF Waiting
<1>3. PICK w \in ClockSeqs : w = Waiting(c)  BY WaitingInSeq
<1>4. IsCable(c)  BY DEF IsJtag, IsBuffered
<1>5. Chain(ClockAll(d, w)) = Chain(ClockAll(c, w))
  BY ONLY <1>4, IsCable(d), Chain(d) = Chain(c), w \in ClockSeqs, ClockAllAlike
<1>6. Chain(Ideal(d)) = Chain(Ideal(c))  BY ONLY <1>2, <1>3, <1>5 DEF Ideal
<1>7. \A L : Trail(c, Waiting(c), L) => Trail(d, Waiting(d), L)
  BY ONLY <1>2, <1>4, IsCable(d), Chain(d) = Chain(c), TrailAlike
<1>. QED  BY ONLY <1>1, <1>2, <1>6, <1>7, IsJtag(c), IdealIsCable

\* Five bits of TMS.
LEMMA FiveOnesAre ==
  /\ Repeat(Tms(1), 5) \in CallSeqs
  /\ CallClocks(Repeat(Tms(1), 5)) = TmsClocks(<<1, 1, 1, 1, 1>>)
<1>1. <<1, 1, 1, 1, 1>> \in Seq({0, 1})  OBVIOUS
<1>2. Mapped(TmsMap, <<1, 1, 1, 1, 1>>) = [i \in 1 .. 5 |-> TmsMap[1]]
  BY DEF Mapped
<1>3. TmsMap[1] = Tms(1)  BY DEF TmsMap
<1>4. Repeat(Tms(1), 5) = Mapped(TmsMap, <<1, 1, 1, 1, 1>>)  BY ONLY <1>2, <1>3 DEF Repeat
<1>. QED  BY ONLY <1>1, <1>4, TmsCalls

\* A new cable: nothing waits or is to be read, and the TAP is somewhere.
IsNew(c) ==
  /\ IsJtag(c) /\ Waiting(c) = <<>> /\ c.tap \in TapStates
  /\ c.usbuf = <<>> /\ c.fifo = <<>> /\ c.rbuf = <<>>

\* The chain after a reset and the walk to SHIFT_DR, however much was read since.
Reading(d, chain) ==
  /\ IsJtag(d) /\ d.state = "SHIFT_DR" /\ d.chain = chain
  /\ At(Ideal(d), "SHIFT_DR", 0, chain)
  /\ Ideal(d).reset = TRUE /\ Ideal(d).latched = <<>> /\ Trail(d, Waiting(d), {<<>>})

\* tapTestLogicReset resets the chain before anything that follows is sent.
LEMMA ResetMoves ==
  ASSUME NEW c, IsNew(c)
  PROVE  LET d == IoAll([c EXCEPT !.rbuf = <<>>], tapTestLogicReset)
         IN  /\ IsJtag(d) /\ Waiting(d) = <<>> /\ tapTestLogicReset \in CallSeqs
             /\ At(d, "TEST_LOGIC_RESET", 1, c.chain) /\ d.reset = TRUE /\ d.latched = <<>>
<1>1. PICK b : b = [c EXCEPT !.rbuf = <<>>]  OBVIOUS
<1>2. PICK p \in CallSeqs : p = Repeat(Tms(1), 5) /\ CallClocks(p) = TmsClocks(<<1, 1, 1, 1, 1>>)
  BY FiveOnesAre
<1>3. flush_tms \in CallSeqs /\ flush \in CallSeqs  BY flush_tmsIs
<1>4. PICK r \in CallSeqs : r = Join(p, flush_tms)  BY ONLY <1>3, p \in CallSeqs, CallsJoin
<1>5. PICK t \in CallSeqs : t = Join(r, flush)  BY ONLY <1>3, r \in CallSeqs, CallsJoin
<1>6. t = tapTestLogicReset  BY ONLY <1>2, <1>4, <1>5 DEF tapTestLogicReset, Join
<1>7. IsJtag(c) /\ IsCable(c) /\ Waiting(c) = <<>> /\ c.tap \in TapStates
  BY DEF IsNew, IsJtag, IsBuffered
<1>8. IsCable(b) /\ Chain(b) = Chain(c) /\ b.tms = c.tms /\ b.usbuf = c.usbuf /\ b.bptr = c.bptr
      /\ b.tap = c.tap /\ b.chain = c.chain
  BY <1>1, <1>7 DEF IsCable, Fields, Chain
<1>9. IsJtag(b) /\ Waiting(b) = <<>>  BY ONLY <1>7, <1>8, SameCable
<1>10. PICK e : e = IoAll(b, p)  OBVIOUS
<1>11. IsJtag(e) /\ Advances(b, e, CallClocks(p))
  BY ONLY <1>9, <1>10, p \in CallSeqs, IoAllMoves
<1>12. PICK g : g = ClockAll(b, TmsClocks(<<1, 1, 1, 1, 1>>))  OBVIOUS
<1>13. Chain(Ideal(e)) = Chain(g)
  <2>1. CallClocks(p) \in ClockSeqs  BY CallClocksLaws
  <2>2. Chain(Ideal(e)) = Chain(ClockAll(Ideal(b), CallClocks(p)))
    BY ONLY <1>9, <1>11, <2>1, AdvancesIdeal
  <2>3. Ideal(b) = b  BY <1>9, ClockNone DEF Ideal
  <2>. QED  BY ONLY <1>2, <1>12, <2>2, <2>3
<1>14. At(g, "TEST_LOGIC_RESET", 1, b.chain) /\ g.reset = TRUE /\ g.latched = <<>>
  BY ONLY <1>7, <1>8, <1>12, FiveOnes
<1>15. PICK d : d = IoAll(e, flush_tms \o flush)  OBVIOUS
<1>16. IsJtag(d) /\ Waiting(d) = <<>> /\ Chain(d) = Chain(Ideal(e))
  BY ONLY <1>11, <1>15, FlushMoves DEF Ideal
<1>17. d.tap = g.tap /\ d.level = g.level /\ d.chain = g.chain /\ d.reset = g.reset
       /\ d.latched = g.latched
  BY ONLY <1>13, <1>16, SameChain
<1>18. IoAll(b, t) = d
  <2>1. IoAll(b, t) = IoAll(IoAll(b, r), flush)
    BY ONLY <1>3, <1>5, r \in CallSeqs, IoAllJoin
  <2>2. IoAll(b, r) = IoAll(IoAll(b, p), flush_tms)
    BY ONLY <1>3, <1>4, p \in CallSeqs, IoAllJoin
  <2>3. IoAll(e, Join(flush_tms, flush)) = IoAll(IoAll(e, flush_tms), flush)
    BY ONLY <1>3, IoAllJoin
  <2>. QED  BY ONLY <1>10, <1>15, <2>1, <2>2, <2>3 DEF Join
<1>19. IsCable(d)  BY <1>16 DEF IsJtag, IsBuffered
<1>20. At(d, "TEST_LOGIC_RESET", 1, c.chain) /\ d.reset = TRUE /\ d.latched = <<>>
  BY ONLY <1>8, <1>14, <1>17, <1>19 DEF At
<1>21. tapTestLogicReset \in CallSeqs  BY <1>6
<1>. QED  BY ONLY <1>1, <1>6, <1>16, <1>18, <1>20, <1>21

\* The walk to SHIFT_DR behind it.
LEMMA StartReads ==
  ASSUME NEW c, IsNew(c)
  PROVE  Reading(Perform(c, tapTestLogicReset \o setTapState("TEST_LOGIC_RESET", "SHIFT_DR"),
                         "SHIFT_DR"), c.chain)
<1>1. PICK b : b = [c EXCEPT !.rbuf = <<>>]  OBVIOUS
<1>2. PICK e : e = IoAll(b, tapTestLogicReset)  OBVIOUS
<1>3. /\ IsJtag(e) /\ Waiting(e) = <<>> /\ tapTestLogicReset \in CallSeqs
      /\ At(e, "TEST_LOGIC_RESET", 1, c.chain) /\ e.reset = TRUE /\ e.latched = <<>>
  BY <1>1, <1>2, ResetMoves
<1>4. PICK walk \in CallSeqs : /\ walk = setTapState("TEST_LOGIC_RESET", "SHIFT_DR")
                               /\ CallClocks(walk) = TmsClocks(<<0, 1, 0, 0>>)
  BY ResetToShiftDR DEF Leads
<1>5. PICK f : f = IoAll(e, walk)  OBVIOUS
<1>6. IoAll(b, tapTestLogicReset \o setTapState("TEST_LOGIC_RESET", "SHIFT_DR")) = f
  <2>1. IoAll(b, Join(tapTestLogicReset, walk)) = IoAll(IoAll(b, tapTestLogicReset), walk)
    BY ONLY <1>3, walk \in CallSeqs, IoAllJoin
  <2>. QED  BY ONLY <1>2, <1>4, <1>5, <2>1 DEF Join
<1>7. PICK k \in ClockSeqs : k = TmsClocks(<<0, 1, 0, 0>>) /\ k = CallClocks(walk)
  BY <1>4, CallClocksLaws
<1>8. IsJtag(f) /\ Advances(e, f, k)
  BY ONLY <1>3, <1>5, <1>7, walk \in CallSeqs, IoAllMoves
<1>9. Ideal(e) = e  BY <1>3, ClockNone DEF Ideal
<1>10. PICK g : g = ClockAll(e, k)  OBVIOUS
<1>11. Chain(Ideal(f)) = Chain(g)
  <2>1. Chain(Ideal(f)) = Chain(ClockAll(Ideal(e), k))
    BY ONLY <1>3, <1>8, k \in ClockSeqs, AdvancesIdeal
  <2>. QED  BY ONLY <1>9, <1>10, <2>1
<1>12. /\ At(g, "SHIFT_DR", 0, e.chain) /\ g.reset = e.reset /\ g.latched = e.latched
       /\ Trail(e, k, {e.latched, g.latched})
  <2>1. IsCable(e) /\ e.tap = "TEST_LOGIC_RESET" /\ e.reset \in BOOLEAN  BY <1>3 DEF At
  <2>. QED  BY ONLY <1>7, <1>10, <2>1, ResetToShiftDRClocks
<1>13. Trail(f, Waiting(f), {<<>>})
  <2>1. e.latched \in {<<>>} /\ {e.latched, g.latched} \subseteq {<<>>}  BY ONLY <1>3, <1>12
  <2>2. Trail(e, Waiting(e), {<<>>})  BY ONLY <1>3, <2>1, TrailNone
  <2>3. Trail(Ideal(e), k, {<<>>})  BY ONLY <1>9, <1>12, <2>1, TrailIn
  <2>. QED  BY ONLY <1>3, <1>8, <2>2, <2>3, k \in ClockSeqs, TrailMoves
<1>14. PICK d : d = [f EXCEPT !.state = "SHIFT_DR"]  OBVIOUS
<1>15. IsCable(f)  BY <1>8 DEF IsJtag, IsBuffered
<1>16. IsCable(d) /\ Chain(d) = Chain(f) /\ d.tms = f.tms /\ d.usbuf = f.usbuf /\ d.bptr = f.bptr
       /\ d.state = "SHIFT_DR" /\ d.chain = f.chain
  BY <1>14, <1>15 DEF IsCable, Fields, Chain
<1>17. /\ IsJtag(d) /\ Chain(Ideal(d)) = Chain(Ideal(f)) /\ IsCable(Ideal(d))
       /\ Trail(d, Waiting(d), {<<>>})
  BY ONLY <1>8, <1>13, <1>16, SameCable
<1>18. Chain(Ideal(d)) = Chain(g)  BY ONLY <1>11, <1>17
<1>19. /\ Ideal(d).tap = g.tap /\ Ideal(d).level = g.level /\ Ideal(d).chain = g.chain
       /\ Ideal(d).reset = g.reset /\ Ideal(d).latched = g.latched
  BY ONLY <1>18, SameChain
<1>20. At(Ideal(d), "SHIFT_DR", 0, c.chain) /\ Ideal(d).reset = TRUE /\ Ideal(d).latched = <<>>
  BY ONLY <1>3, <1>12, <1>17, <1>19 DEF At
<1>21. d.chain = c.chain
  <2>1. Ideal(d).chain = d.chain  BY ONLY <1>17, IdealChain
  <2>. QED  BY ONLY <1>20, <2>1 DEF At
<1>22. Reading(d, c.chain)  BY ONLY <1>16, <1>17, <1>20, <1>21 DEF Reading
<1>23. d = Perform(c, tapTestLogicReset \o setTapState("TEST_LOGIC_RESET", "SHIFT_DR"), "SHIFT_DR")
  BY ONLY <1>1, <1>6, <1>14 DEF Perform
<1>. QED  BY ONLY <1>22, <1>23

-----------------------------------------------------------------------------
(* The reads of getChain. *)

ReadRun(start, calls, f, n) ==
  f = [k \in 0 .. n |-> IF k = 0 THEN start ELSE Perform(f[k - 1], calls, "SHIFT_DR")]

\* The function in the definition of getChain exists.
LEMMA ReadRunExists == \A start, calls : \A n \in Nat : \E f : ReadRun(start, calls, f, n)
<1> SUFFICES ASSUME NEW start, NEW calls PROVE \A n \in Nat : \E f : ReadRun(start, calls, f, n)
  OBVIOUS
<1> DEFINE S == {n \in Nat : \E f : ReadRun(start, calls, f, n)}
<1>1. 0 \in S
  <2>1. PICK f : f = [k \in 0 .. 0 |-> start]  OBVIOUS
  <2>2. \A k \in 0 .. 0 : k = 0  OBVIOUS
  <2>3. f = [k \in 0 .. 0 |-> IF k = 0 THEN start ELSE Perform(f[k - 1], calls, "SHIFT_DR")]
    BY <2>1, <2>2
  <2>. QED  BY <2>3 DEF ReadRun
<1>2. ASSUME NEW n \in Nat, n \in S PROVE n + 1 \in S
  <2>1. PICK f : f = [k \in 0 .. n |-> IF k = 0 THEN start ELSE Perform(f[k - 1], calls, "SHIFT_DR")]
    BY <1>2 DEF ReadRun
  <2>2. PICK v : v = Perform(f[n], calls, "SHIFT_DR")  OBVIOUS
  <2>3. PICK g : g = [k \in 0 .. n + 1 |-> IF k = n + 1 THEN v ELSE f[k]]  OBVIOUS
  <2>4. ASSUME NEW k \in 0 .. n + 1
        PROVE  g[k] = IF k = 0 THEN start ELSE Perform(g[k - 1], calls, "SHIFT_DR")
    <3>1. CASE k = n + 1
      <4>1. k # 0 /\ k - 1 = n /\ g[k] = v  BY <2>3, <3>1
      <4>2. g[n] = f[n]  BY <2>3
      <4>. QED  BY <2>2, <3>1, <4>1, <4>2
    <3>2. CASE k # n + 1
      <4>1. k \in 0 .. n /\ g[k] = f[k]  BY <2>3, <3>2
      <4>2. k # 0 => g[k - 1] = f[k - 1]  BY <2>3, <4>1
      <4>3. f[k] = IF k = 0 THEN start ELSE Perform(f[k - 1], calls, "SHIFT_DR")  BY <2>1, <4>1
      <4>. QED  BY <4>1, <4>2, <4>3
    <3>. QED  BY <3>1, <3>2
  <2>5. g = [k \in 0 .. n + 1 |-> IF k = 0 THEN start ELSE Perform(g[k - 1], calls, "SHIFT_DR")]
    BY <2>3, <2>4
  <2>. QED  BY <2>5 DEF ReadRun
<1> HIDE DEF S
<1>3. \A n \in Nat : n \in S  BY <1>1, <1>2, SetInduction
<1>. QED  BY <1>3 DEF S

\* Reading an IDCODE leaves the TAP where it is.
LEMMA ReadReads ==
  ASSUME NEW c, NEW chain, Reading(c, chain), NEW calls, IsData(calls)
  PROVE  Reading(Perform(c, calls, "SHIFT_DR"), chain)
<1>1. PICK d : d = Perform(c, calls, "SHIFT_DR")  OBVIOUS
<1>2. PICK u \in Seq(BitSet) : CallClocks(calls) = DataClocks(u)  BY DEF IsData
<1>3. calls \in CallSeqs  BY DEF IsData
<1>4. PICK i : i = Ideal(c)  OBVIOUS
<1>5. /\ IsJtag(c) /\ c.chain = chain /\ At(i, "SHIFT_DR", 0, chain) /\ i.reset = TRUE
      /\ i.latched = <<>> /\ Trail(c, Waiting(c), {<<>>})
  BY <1>4 DEF Reading
<1>6. IsResting(i)  BY <1>5 DEF IsResting, At
<1>7. PICK k : k = DataClocks(u)  OBVIOUS
<1>8. PICK g : g = ClockAll(i, k)  OBVIOUS
<1>9. Rested(i, g) /\ Trail(i, k, {i.latched})
  BY ONLY <1>6, <1>7, <1>8, u \in Seq(BitSet), DataRests
<1>10. /\ IsJtag(d) /\ d.state = "SHIFT_DR" /\ d.chain = c.chain
       /\ Chain(Ideal(d)) = Chain(ClockAll(Ideal(c), CallClocks(calls)))
       /\ IsCable(Ideal(d))
       /\ \A L : Trail(c, Waiting(c), L) /\ Trail(Ideal(c), CallClocks(calls), L)
                   => Trail(d, Waiting(d), L)
  BY ONLY <1>1, <1>3, <1>5, PerformLeads
<1>11. Chain(Ideal(d)) = Chain(g)  BY ONLY <1>2, <1>4, <1>7, <1>8, <1>10
<1>12. /\ Ideal(d).tap = g.tap /\ Ideal(d).level = g.level /\ Ideal(d).chain = g.chain
       /\ Ideal(d).reset = g.reset /\ Ideal(d).latched = g.latched
  BY ONLY <1>11, SameChain
<1>13. At(Ideal(d), "SHIFT_DR", 0, chain) /\ Ideal(d).reset = TRUE /\ Ideal(d).latched = <<>>
  BY ONLY <1>5, <1>9, <1>10, <1>12 DEF Rested, At
<1>14. Trail(d, Waiting(d), {<<>>})  BY ONLY <1>2, <1>4, <1>5, <1>7, <1>9, <1>10
<1>. QED  BY ONLY <1>1, <1>5, <1>10, <1>13, <1>14 DEF Reading

\* Of the naturals from 1 to m there is a first outside D, or m.
IsFirst(k, m, D) ==
  k \in 1 .. m /\ (k = m \/ k \notin D) /\ \A j \in 1 .. k - 1 : j \in D

\* There is one.
LEMMA FirstExists == \A m \in Nat \ {0} : \A D : \E k : IsFirst(k, m, D)
<1> SUFFICES ASSUME NEW m \in Nat \ {0}, NEW D PROVE \E k : IsFirst(k, m, D)  OBVIOUS
<1> DEFINE R == OpToRel(<, Nat)
           Out == {k \in 1 .. m : k = m \/ k \notin D}
<1>1. IsWellFoundedOn(R, Nat)  BY NatLessThanWellFounded
<1>2. \A x, y \in Nat : x < y => <<x, y>> \in R  BY DEF OpToRel
<1>3. Out \subseteq Nat /\ m \in Out  OBVIOUS
<1>4. Out # {}  BY <1>3
<1>5. \A k : k \in Out <=> k \in 1 .. m /\ (k = m \/ k \notin D)  OBVIOUS
<1> HIDE DEF R, Out
<1>6. PICK k \in Out : \A j \in Out : ~(<<j, k>> \in R)  BY <1>1, <1>3, <1>4, WFMin
<1>7. k \in 1 .. m /\ (k = m \/ k \notin D)  BY <1>5, <1>6
<1>8. ASSUME NEW j \in 1 .. k - 1, j \notin D PROVE FALSE
  <2>1. j \in 1 .. m /\ j \in Nat /\ k \in Nat /\ j < k  BY <1>7
  <2>2. j \in Out  BY <1>5, <1>8, <2>1
  <2>3. <<j, k>> \in R  BY <1>2, <2>1
  <2>. QED  BY <1>6, <2>2, <2>3
<1>. QED  BY <1>7, <1>8 DEF IsFirst

\* What getChain does to the cable: some reads, and the way back.
LEMMA getChainIs ==
  ASSUME NEW c
  PROVE  LET start == Perform(c, tapTestLogicReset \o setTapState("TEST_LOGIC_RESET", "SHIFT_DR"),
                              "SHIFT_DR")
             zeros == Repeat(Low, IdBytes * ByteBits)
         IN  \E read : \E n \in 1 .. MaxDevices :
               /\ ReadRun(start, shiftTDITDO(zeros, TRUE, FALSE), read, MaxDevices)
               /\ getChain(c).io = Perform(read[n], setTapState("SHIFT_DR", "TEST_LOGIC_RESET"),
                                           "TEST_LOGIC_RESET")
<1>1. PICK start : start = Perform(c, tapTestLogicReset \o setTapState("TEST_LOGIC_RESET", "SHIFT_DR"),
                                   "SHIFT_DR")
  OBVIOUS
<1>2. PICK calls : calls = shiftTDITDO(Repeat(Low, IdBytes * ByteBits), TRUE, FALSE)  OBVIOUS
<1>3. MaxDevices \in Nat \ {0}  BY JtagAssumption
<1>4. PICK read : /\ ReadRun(start, calls, read, MaxDevices)
                  /\ read = CHOOSE f : ReadRun(start, calls, f, MaxDevices)
  BY ONLY <1>3, ReadRunExists
<1> DEFINE IsDevice(k) == ToSet(FlattenSeq(read[k].rbuf)) \notin {{Low}, {High}}
           First(k) == /\ k = MaxDevices \/ ~IsDevice(k)
                       /\ \A j \in 1 .. k - 1 : IsDevice(j)
<1>5. \E k \in 1 .. MaxDevices : First(k)
  <2>1. PICK D : D = {k \in Nat : IsDevice(k)}  OBVIOUS
  <2>2. \A k \in Nat : k \in D <=> IsDevice(k)  BY <2>1
  <2>3. PICK k : IsFirst(k, MaxDevices, D)  BY <1>3, FirstExists
  <2> HIDE DEF IsDevice
  <2>4. k \in 1 .. MaxDevices /\ k \in Nat  BY <1>3, <2>3 DEF IsFirst
  <2>5. k = MaxDevices \/ ~IsDevice(k)  BY <2>2, <2>3, <2>4 DEF IsFirst
  <2>6. \A j \in 1 .. k - 1 : IsDevice(j)  BY <2>2, <2>3, <2>4 DEF IsFirst
  <2>. QED  BY <2>4, <2>5, <2>6
<1>6. PICK n : n = CHOOSE k \in 1 .. MaxDevices : First(k)  OBVIOUS
<1>7. n \in 1 .. MaxDevices
  <2> HIDE DEF First
  <2>. QED  BY <1>5, <1>6
<1>8. getChain(c).io = Perform(read[n], setTapState("SHIFT_DR", "TEST_LOGIC_RESET"),
                               "TEST_LOGIC_RESET")
  <2> DEFINE read0 == CHOOSE f : ReadRun(start, calls, f, MaxDevices)
             IsDevice0(k) == ToSet(FlattenSeq(read0[k].rbuf)) \notin {{Low}, {High}}
             First0(k) == /\ k = MaxDevices \/ ~IsDevice0(k)
                          /\ \A j \in 1 .. k - 1 : IsDevice0(j)
             n0 == CHOOSE k \in 1 .. MaxDevices : First0(k)
  <2>1. getChain(c).io = Perform(read0[n0], setTapState("SHIFT_DR", "TEST_LOGIC_RESET"),
                                 "TEST_LOGIC_RESET")
    BY <1>1, <1>2 DEF getChain, ReadRun
  <2>2. read = read0  BY <1>4
  <2> HIDE DEF read0
  <2>3. n = n0
    <3>1. \A k : IsDevice(k) <=> IsDevice0(k)  BY <2>2
    <3> HIDE DEF IsDevice, IsDevice0
    <3>2. \A k : First(k) <=> First0(k)  BY <3>1
    <3>3. n0 = CHOOSE k \in 1 .. MaxDevices : First0(k)  OBVIOUS
    <3> HIDE DEF First, First0
    <3>. QED  BY ONLY <1>6, <3>2, <3>3
  <2> HIDE DEF n0
  <2>. QED  BY ONLY <2>1, <2>2, <2>3
<1>. QED  BY ONLY <1>1, <1>2, <1>4, <1>7, <1>8

\* Wherever the TAP was, getChain leaves it reset, with nothing latched.
LEMMA getChainSettles ==
  ASSUME NEW c, IsNew(c)
  PROVE  LET d == getChain(c).io
         IN  Settled(d, <<>>) /\ d.chain = c.chain /\ d.state = "TEST_LOGIC_RESET"
<1>1. PICK start : start = Perform(c, tapTestLogicReset \o setTapState("TEST_LOGIC_RESET", "SHIFT_DR"),
                                   "SHIFT_DR")
  OBVIOUS
<1>2. PICK calls : calls = shiftTDITDO(Repeat(Low, IdBytes * ByteBits), TRUE, FALSE)  OBVIOUS
<1>3. PICK max \in Nat : max = MaxDevices  BY JtagAssumption
<1>4. \E read : \E n \in 1 .. max :
        /\ ReadRun(start, calls, read, max)
        /\ getChain(c).io = Perform(read[n], setTapState("SHIFT_DR", "TEST_LOGIC_RESET"),
                                    "TEST_LOGIC_RESET")
  BY ONLY <1>1, <1>2, <1>3, getChainIs
<1>5. PICK read : \E n \in 1 .. max :
        /\ ReadRun(start, calls, read, max)
        /\ getChain(c).io = Perform(read[n], setTapState("SHIFT_DR", "TEST_LOGIC_RESET"),
                                    "TEST_LOGIC_RESET")
  BY <1>4
<1>6. PICK n \in 1 .. max :
        /\ ReadRun(start, calls, read, max)
        /\ getChain(c).io = Perform(read[n], setTapState("SHIFT_DR", "TEST_LOGIC_RESET"),
                                    "TEST_LOGIC_RESET")
  BY <1>5
<1>7. IsData(calls)
  <2>1. IdBytes * ByteBits \in Nat
    <3>1. PICK x \in Nat, y \in Nat : x = IdBytes /\ y = ByteBits  BY JtagAssumption
    <3>2. x * y \in Nat  OBVIOUS
    <3>. QED  BY <3>1, <3>2
  <2>2. Repeat(Low, IdBytes * ByteBits) \in Seq(BitSet)  BY <2>1, RepeatInSeq, LevelsAreBits
  <2>. QED  BY <1>2, <2>2, IsDataLaws
<1>8. Reading(start, c.chain)  BY ONLY <1>1, IsNew(c), StartReads
<1>9. \A k \in 0 .. max : Reading(read[k], c.chain)
  <2> DEFINE S == {k \in Nat : k <= max => Reading(read[k], c.chain)}
  <2>1. \A k \in 0 .. max : read[k] = IF k = 0 THEN start ELSE Perform(read[k - 1], calls, "SHIFT_DR")
    BY <1>6 DEF ReadRun
  <2>2. 0 \in S  BY <1>8, <2>1
  <2>3. ASSUME NEW k \in Nat, k \in S PROVE k + 1 \in S
    <3> SUFFICES ASSUME k + 1 <= max PROVE Reading(read[k + 1], c.chain)  OBVIOUS
    <3>1. Reading(read[k], c.chain)  BY <2>3
    <3>2. k + 1 \in 0 .. max /\ k + 1 # 0 /\ (k + 1) - 1 = k  OBVIOUS
    <3>3. read[k + 1] = Perform(read[k], calls, "SHIFT_DR")  BY <2>1, <3>2
    <3>. QED  BY ONLY <1>7, <3>1, <3>3, ReadReads
  <2> HIDE DEF S
  <2>4. \A k \in Nat : k \in S  BY <2>2, <2>3, SetInduction
  <2>. QED  BY <2>4 DEF S
<1>10. PICK e : e = read[n] /\ Reading(e, c.chain)  BY <1>9
<1>11. PICK walk \in CallSeqs : /\ walk = setTapState("SHIFT_DR", "TEST_LOGIC_RESET")
                                /\ CallClocks(walk) = TmsClocks(<<1, 1, 1, 1, 1>>)
  BY ShiftDRToReset DEF Leads
<1>12. PICK d : d = getChain(c).io /\ d = Perform(e, walk, "TEST_LOGIC_RESET")
  BY <1>6, <1>10, <1>11
<1>13. PICK i : i = Ideal(e)  OBVIOUS
<1>14. /\ IsJtag(e) /\ e.chain = c.chain /\ At(i, "SHIFT_DR", 0, c.chain) /\ i.reset = TRUE
       /\ i.latched = <<>> /\ Trail(e, Waiting(e), {<<>>})
  BY <1>10, <1>13 DEF Reading
<1>15. PICK k : k = TmsClocks(<<1, 1, 1, 1, 1>>)  OBVIOUS
<1>16. PICK g : g = ClockAll(i, k)  OBVIOUS
<1>17. /\ At(g, "TEST_LOGIC_RESET", 1, i.chain) /\ g.reset = TRUE /\ g.latched = <<>>
       /\ Trail(i, k, {i.latched, g.latched})
  <2>1. IsCable(i) /\ i.tap = "SHIFT_DR" /\ i.reset \in BOOLEAN /\ i.reset /\ i.latched = <<>>
    BY <1>14 DEF At
  <2>. QED  BY ONLY <1>15, <1>16, <2>1, ShiftDRToResetClocks
<1>18. /\ IsJtag(d) /\ d.state = "TEST_LOGIC_RESET" /\ d.chain = e.chain
       /\ Chain(Ideal(d)) = Chain(ClockAll(Ideal(e), CallClocks(walk)))
       /\ IsCable(Ideal(d))
       /\ \A L : Trail(e, Waiting(e), L) /\ Trail(Ideal(e), CallClocks(walk), L)
                   => Trail(d, Waiting(d), L)
  BY ONLY <1>12, <1>14, walk \in CallSeqs, PerformLeads
<1>19. Chain(Ideal(d)) = Chain(g)  BY ONLY <1>11, <1>13, <1>15, <1>16, <1>18
<1>20. /\ Ideal(d).tap = g.tap /\ Ideal(d).level = g.level /\ Ideal(d).chain = g.chain
       /\ Ideal(d).reset = g.reset /\ Ideal(d).latched = g.latched
  BY ONLY <1>19, SameChain
<1>21. /\ At(Ideal(d), "TEST_LOGIC_RESET", 1, d.chain) /\ Ideal(d).reset = TRUE
       /\ Ideal(d).latched = <<>> /\ d.chain = c.chain
  BY ONLY <1>14, <1>17, <1>18, <1>20 DEF At
<1>22. Trail(d, Waiting(d), Beginnings(<<>>))
  <2>1. {i.latched, g.latched} \subseteq {<<>>}  BY ONLY <1>14, <1>17
  <2>2. Trail(i, k, {<<>>})  BY ONLY <1>17, <2>1, TrailIn
  <2>3. Trail(d, Waiting(d), {<<>>})  BY ONLY <1>11, <1>13, <1>14, <1>15, <1>18, <2>2
  <2>4. <<>> \in Words /\ <<>> \in Seq(BitSet)  BY EmptySeq DEF Words
  <2>5. <<>> \in Beginnings(<<>>)  BY ONLY <2>4, BeginningsGrow
  <2>6. {<<>>} \subseteq Beginnings(<<>>)  BY ONLY <2>5
  <2>. QED  BY ONLY <2>3, <2>6, TrailIn
<1>23. Settled(d, <<>>)  BY ONLY <1>18, <1>21, <1>22 DEF Settled
<1>. QED  BY ONLY <1>12, <1>18, <1>21, <1>23

-----------------------------------------------------------------------------
(* A chain without a device.  TDO is high: all bytes that are read are ones. *)

HighByte == Repeat(High, ByteBits)
HighBytes == Seq({HighByte})

\* Commands that read whole bytes, if they read, and what such a chain answers.
ByteCommands == {x \in CommandSet : x.read => Len(x.clocks) = ByteBits}
ByteCommandSeqs == Seq(ByteCommands)
Answer == [x \in ByteCommands |-> IF x.read THEN <<HighByte>> ELSE <<>>]
Reads(commands) == Len(Joined(Answer, commands))

\* There is none, and whatever has been read or is to be read are whole bytes.
Silent(c) ==
  /\ IsCable(c) /\ c.chain = 0 /\ c.fifo \in HighBytes /\ c.rbuf \in HighBytes
  /\ c.usbuf \in ByteCommandSeqs

\* How many bytes are to be read.
Due(c) == Len(c.fifo) + Reads(c.usbuf)

\* As many ones as a byte has bits are that byte.
LEMMA OnesAreByte == \A q \in Seq({High}) : Len(q) = ByteBits => q = HighByte
<1> SUFFICES ASSUME NEW q \in Seq({High}), Len(q) = ByteBits PROVE q = HighByte  OBVIOUS
<1>1. PICK n \in Nat : n = ByteBits  BY JtagAssumption
<1>2. q = [i \in 1 .. n |-> q[i]]  BY <1>1, LenProperties
<1>3. \A i \in 1 .. n : q[i] = High  BY <1>1, ElementOfSeq
<1>4. q = [i \in 1 .. n |-> High]  BY <1>2, <1>3
<1>. QED  BY <1>1, <1>4 DEF HighByte, Repeat

\* A byte of ones is a sequence of ones, not an empty one.
LEMMA HighByteIs ==
  /\ HighByte \in Seq({High}) /\ Len(HighByte) \in Nat \ {0} /\ HighByte \in Seq(BitSet)
<1>1. PICK n \in Nat \ {0} : n = ByteBits  BY JtagAssumption
<1>2. PICK r : r = [i \in 1 .. n |-> High]  OBVIOUS
<1>3. r \in [1 .. n -> {High}] /\ r \in [1 .. n -> BitSet]  BY <1>2, LevelsAreBits
<1>4. r \in Seq({High}) /\ Len(r) = n /\ r \in Seq(BitSet)
  <2>1. n \in Nat  OBVIOUS
  <2>. QED  BY ONLY <1>3, <2>1, FunctionIsSeq
<1>. QED  BY <1>1, <1>2, <1>4 DEF HighByte, Repeat

\* How many bytes commands read.
LEMMA ReadsLaws ==
  /\ Reads(<<>>) = 0
  /\ \A q \in ByteCommandSeqs : Reads(q) \in Nat
  /\ \A q \in ByteCommandSeqs : \A x \in ByteCommands :
       Reads(Append(q, x)) = Reads(q) + (IF x.read THEN 1 ELSE 0)
  /\ \A p, q \in ByteCommandSeqs : Reads(Join(p, q)) = Reads(p) + Reads(q)
<1>1. Answer \in Maps(ByteCommands, Seq({HighByte}))
  <2>1. <<HighByte>> \in Seq({HighByte}) /\ <<>> \in Seq({HighByte})  BY EmptySeq
  <2>. QED  BY <2>1 DEF Answer, Maps
<1>2. Len(<<>>) = 0  BY EmptySeq
<1>3. PICK A : A = Answer  OBVIOUS
<1>4. /\ \A q \in Seq(ByteCommands) : Joined(A, q) \in Seq({HighByte})
      /\ \A q \in Seq(ByteCommands) : \A x \in ByteCommands :
           Joined(A, Append(q, x)) = Join(Joined(A, q), A[x])
      /\ \A p, q \in Seq(ByteCommands) : Joined(A, Join(p, q)) = Join(Joined(A, p), Joined(A, q))
  BY ONLY <1>1, <1>3, JoinedAll
<1>5. \A x \in ByteCommands :
        A[x] \in Seq({HighByte}) /\ Len(A[x]) = (IF x.read THEN 1 ELSE 0)
  <2>1. Len(<<HighByte>>) = 1  OBVIOUS
  <2>2. \A x \in ByteCommands : A[x] = IF x.read THEN <<HighByte>> ELSE <<>>
    BY <1>3 DEF Answer
  <2>3. \A x \in ByteCommands : A[x] \in Seq({HighByte})  BY <1>1, <1>3 DEF Maps
  <2>. QED  BY <1>2, <2>1, <2>2, <2>3
<1>6. \A a, b \in Seq({HighByte}) : Len(Join(a, b)) = Len(a) + Len(b) /\ Len(a) \in Nat
  BY ConcatProperties, LenProperties DEF Join
<1>7. Joined(A, <<>>) = <<>>  BY JoinedNone
<1>. QED  BY ONLY <1>2, <1>3, <1>4, <1>5, <1>6, <1>7 DEF Reads, ByteCommandSeqs

\* A clock of such a chain.
LEMMA SilentClock ==
  ASSUME NEW c, NEW k, IsCable(c), c.chain = 0
  PROVE  LET d == Clock(c, k)
         IN  /\ IsCable(d) /\ d.chain = 0 /\ d.tdo = Append(c.tdo, High)
             /\ d.fifo = c.fifo /\ d.rbuf = c.rbuf
BY DEF Clock, IsCable, Fields

\* As many ones as there were clocks.
LEMMA SilentClocks ==
  ASSUME NEW c, IsCable(c), c.chain = 0, c.tdo = <<>>
  PROVE  \A q \in ClockSeqs :
           LET d == ClockAll(c, q)
           IN  /\ IsCable(d) /\ d.chain = 0 /\ d.fifo = c.fifo /\ d.rbuf = c.rbuf
               /\ d.tdo \in Seq({High}) /\ Len(d.tdo) = Len(q)
<1> DEFINE Ones(d, n) == /\ IsCable(d) /\ d.chain = 0 /\ d.fifo = c.fifo /\ d.rbuf = c.rbuf
                         /\ d.tdo \in Seq({High}) /\ Len(d.tdo) = n
           P == {q \in ClockSeqs : Ones(ClockAll(c, q), Len(q))}
<1>1. <<>> \in P
  <2>1. <<>> \in ClockSeqs /\ <<>> \in Seq({High}) /\ Len(<<>>) = 0  BY EmptySeq DEF ClockSeqs
  <2>2. ClockAll(c, <<>>) = c  BY ClockNone
  <2>3. Ones(c, 0)  BY <2>1
  <2>. QED  BY ONLY <2>1, <2>2, <2>3
<1>2. \A q \in Seq(ClockSet) : \A x \in ClockSet : q \in P => Append(q, x) \in P
  <2> SUFFICES ASSUME NEW q \in Seq(ClockSet), NEW x \in ClockSet, q \in P
               PROVE  Append(q, x) \in P
    OBVIOUS
  <2>1. Append(q, x) \in ClockSeqs /\ Len(Append(q, x)) = Len(q) + 1 /\ Len(q) \in Nat
    BY AppendProperties, LenProperties DEF ClockSeqs
  <2>2. PICK d : d = ClockAll(c, q) /\ ClockAll(c, Append(q, x)) = Clock(d, x)  BY ClockAppend
  <2>3. Ones(d, Len(q))  BY <2>2
  <2>4. PICK e : e = Clock(d, x)  OBVIOUS
  <2>5. IsCable(e) /\ e.chain = 0 /\ e.tdo = Append(d.tdo, High) /\ e.fifo = d.fifo /\ e.rbuf = d.rbuf
    BY ONLY <2>3, <2>4, SilentClock
  <2>6. e.tdo \in Seq({High}) /\ Len(e.tdo) = Len(d.tdo) + 1  BY <2>3, <2>5, AppendProperties
  <2>7. Ones(e, Len(q) + 1)  BY <2>3, <2>5, <2>6
  <2>. QED  BY ONLY <2>1, <2>2, <2>4, <2>7
<1> HIDE DEF P
<1>3. \A q \in Seq(ClockSet) : q \in P  BY <1>1, <1>2, SeqInduction
<1>. QED  BY <1>3 DEF P, ClockSeqs

\* A command of it.
LEMMA SilentExecute ==
  ASSUME NEW c, NEW x \in ByteCommands, Silent(c)
  PROVE  LET d == Execute(c, x)
         IN  /\ Silent(d) /\ d.rbuf = c.rbuf /\ d.usbuf = c.usbuf
             /\ Len(d.fifo) = Len(c.fifo) + (IF x.read THEN 1 ELSE 0)
<1>1. x \in CommandSet /\ x.clocks \in ClockSeqs /\ (x.read => Len(x.clocks) = ByteBits)
  BY DEF ByteCommands, CommandSet
<1>2. PICK e : e = [c EXCEPT !.tdo = <<>>]  OBVIOUS
<1>3. /\ IsCable(e) /\ e.chain = 0 /\ e.tdo = <<>> /\ e.fifo = c.fifo /\ e.rbuf = c.rbuf
  BY <1>2 DEF Silent, IsCable, Fields
<1>4. PICK r : r = ClockAll(e, x.clocks)  OBVIOUS
<1>5. /\ IsCable(r) /\ r.chain = 0 /\ r.fifo = c.fifo /\ r.rbuf = c.rbuf
      /\ r.tdo \in Seq({High}) /\ Len(r.tdo) = Len(x.clocks)
  BY ONLY <1>1, <1>3, <1>4, SilentClocks
<1>6. PICK byte : byte = [i \in 1 .. ByteBits - Len(r.tdo) |-> Below] \o r.tdo  OBVIOUS
<1>7. x.read => byte = HighByte
  <2> SUFFICES ASSUME x.read PROVE byte = HighByte  OBVIOUS
  <2>1. PICK n \in Nat : n = ByteBits  BY JtagAssumption
  <2>2. Len(r.tdo) = n  BY <1>1, <1>5, <2>1
  <2>3. n - n = 0  OBVIOUS
  <2>4. [i \in 1 .. 0 |-> Below] = <<>>  OBVIOUS
  <2>5. byte = <<>> \o r.tdo  BY <1>6, <2>1, <2>2, <2>3, <2>4
  <2>6. byte = r.tdo  BY ONLY <1>5, <2>5, ConcatEmptySeq
  <2>. QED  BY <1>5, <2>1, <2>2, <2>6, OnesAreByte
<1>8. PICK fifo : fifo = IF x.read THEN Append(r.fifo, byte) ELSE r.fifo  OBVIOUS
<1>9. Execute(c, x) = [r EXCEPT !.fifo = fifo]
  BY <1>2, <1>4, <1>6, <1>8 DEF Execute
<1>10. PICK d : d = [r EXCEPT !.fifo = fifo]  OBVIOUS
<1>11. IsCable(d) /\ d.chain = 0 /\ d.fifo = fifo /\ d.rbuf = c.rbuf
  BY <1>5, <1>10 DEF IsCable, Fields
<1>12. fifo \in HighBytes /\ Len(fifo) = Len(c.fifo) + (IF x.read THEN 1 ELSE 0)
  <2>1. c.fifo \in Seq({HighByte})  BY DEF Silent, HighBytes
  <2>2. CASE x.read
    <3>1. fifo = Append(c.fifo, HighByte)  BY <1>5, <1>7, <1>8, <2>2
    <3>. QED  BY <2>1, <2>2, <3>1, AppendProperties DEF HighBytes
  <2>3. CASE ~x.read
    <3>1. fifo = c.fifo /\ Len(c.fifo) \in Nat  BY <1>5, <1>8, <2>1, <2>3, LenProperties
    <3>. QED  BY <2>1, <2>3, <3>1 DEF HighBytes
  <2>. QED  BY <2>2, <2>3
<1>13. d.usbuf = c.usbuf
  <2>1. Software(Execute(c, x)) = Software(c)  BY <1>1, ExecuteClocks DEF Silent
  <2>. QED  BY <1>9, <1>10, <2>1 DEF Software
<1>. QED  BY <1>9, <1>10, <1>11, <1>12, <1>13 DEF Silent

\* Commands of it.
LEMMA SilentExecuteAll ==
  ASSUME NEW c, Silent(c)
  PROVE  \A q \in ByteCommandSeqs :
           LET d == ExecuteAll(c, q)
           IN  /\ Silent(d) /\ d.rbuf = c.rbuf /\ d.usbuf = c.usbuf
               /\ Len(d.fifo) = Len(c.fifo) + Reads(q)
<1> DEFINE Keeps(d, n) == /\ Silent(d) /\ d.rbuf = c.rbuf /\ d.usbuf = c.usbuf
                          /\ Len(d.fifo) = Len(c.fifo) + n
           P == {q \in ByteCommandSeqs : Keeps(ExecuteAll(c, q), Reads(q))}
<1>1. Len(c.fifo) \in Nat  BY LenProperties DEF Silent, HighBytes
<1>2. <<>> \in P
  <2>1. <<>> \in ByteCommandSeqs /\ Reads(<<>>) = 0  BY EmptySeq, ReadsLaws DEF ByteCommandSeqs
  <2>2. ExecuteAll(c, <<>>) = c  BY ExecuteNone
  <2>3. Keeps(c, 0)  BY <1>1
  <2>. QED  BY ONLY <2>1, <2>2, <2>3
<1>3. \A q \in Seq(ByteCommands) : \A x \in ByteCommands : q \in P => Append(q, x) \in P
  <2> SUFFICES ASSUME NEW q \in Seq(ByteCommands), NEW x \in ByteCommands, q \in P
               PROVE  Append(q, x) \in P
    OBVIOUS
  <2>1. Append(q, x) \in ByteCommandSeqs /\ q \in ByteCommandSeqs
    BY AppendProperties DEF ByteCommandSeqs
  <2>2. PICK n \in Nat : n = Reads(q)  BY <2>1, ReadsLaws
  <2>3. Reads(Append(q, x)) = n + (IF x.read THEN 1 ELSE 0)  BY <2>1, <2>2, ReadsLaws
  <2>4. PICK d : d = ExecuteAll(c, q) /\ ExecuteAll(c, Append(q, x)) = Execute(d, x)
    BY ExecuteAppend
  <2>5. Keeps(d, n)  BY <2>2, <2>4
  <2>6. PICK e : e = Execute(d, x)  OBVIOUS
  <2>7. /\ Silent(e) /\ e.rbuf = d.rbuf /\ e.usbuf = d.usbuf
        /\ Len(e.fifo) = Len(d.fifo) + (IF x.read THEN 1 ELSE 0)
    BY ONLY <2>5, <2>6, x \in ByteCommands, SilentExecute
  <2>8. PICK k \in Nat : k = IF x.read THEN 1 ELSE 0  OBVIOUS
  <2>9. Len(e.fifo) = Len(c.fifo) + (n + k)
    <3>1. PICK l \in Nat : l = Len(c.fifo)  BY <1>1
    <3>2. Len(d.fifo) = l + n /\ Len(e.fifo) = Len(d.fifo) + k  BY <2>5, <2>7, <2>8, <3>1
    <3>3. (l + n) + k = l + (n + k)  OBVIOUS
    <3>. QED  BY ONLY <3>1, <3>2, <3>3
  <2>10. Keeps(e, n + k)  BY ONLY <2>5, <2>7, <2>9
  <2>. QED  BY ONLY <2>1, <2>3, <2>4, <2>6, <2>8, <2>10
<1> HIDE DEF P
<1>4. \A q \in Seq(ByteCommands) : q \in P  BY <1>2, <1>3, SeqInduction
<1>. QED  BY <1>4 DEF P, ByteCommandSeqs

\* Sending brings all answers.
LEMMA SilentSend ==
  ASSUME NEW c, Silent(c)
  PROVE  LET d == Send(c)
         IN  /\ Silent(d) /\ d.rbuf = c.rbuf /\ d.usbuf = <<>>
             /\ Len(d.fifo) = Due(c) /\ Due(d) = Due(c) /\ Due(c) \in Nat
<1>1. PICK r : r = ExecuteAll(c, c.usbuf)  OBVIOUS
<1>2. Silent(r) /\ r.rbuf = c.rbuf /\ Len(r.fifo) = Len(c.fifo) + Reads(c.usbuf)
  <2>1. c.usbuf \in ByteCommandSeqs  BY DEF Silent
  <2>. QED  BY ONLY <1>1, <2>1, Silent(c), SilentExecuteAll
<1>3. PICK d : d = Send(c) /\ d = [r EXCEPT !.usbuf = <<>>, !.bptr = 0]  BY <1>1 DEF Send
<1>4. IsCable(d) /\ d.chain = 0 /\ d.fifo = r.fifo /\ d.rbuf = c.rbuf /\ d.usbuf = <<>>
  BY <1>2, <1>3 DEF Silent, IsCable, Fields
<1>5. <<>> \in ByteCommandSeqs /\ Reads(<<>>) = 0  BY EmptySeq, ReadsLaws DEF ByteCommandSeqs
<1>6. Silent(d)  BY <1>2, <1>4, <1>5 DEF Silent
<1>7. Len(d.fifo) = Due(c) /\ Len(d.fifo) \in Nat
  BY <1>2, <1>4, LenProperties DEF Silent, Due, HighBytes
<1>8. Due(d) = Due(c)  BY <1>4, <1>5, <1>7 DEF Due
<1>. QED  BY <1>3, <1>4, <1>6, <1>7, <1>8

\* Parts with such commands.
ByteParts == {x \in PartSet : x.commands \in ByteCommandSeqs}

\* A part is put into the buffer, and what is read has been asked for.
LEMMA SilentAdd ==
  ASSUME NEW c, Silent(c), NEW part \in ByteParts,
         part.read > 0 => part.send /\ part.read <= Due(c) + Reads(part.commands)
  PROVE  LET d == mpsse_add_cmd(c, part)
         IN  /\ Silent(d) /\ Len(d.rbuf) = Len(c.rbuf) + part.read
             /\ Due(d) + part.read = Due(c) + Reads(part.commands)
<1>1. PICK p : p = IF IsFull(c, part.len) THEN Send(c) ELSE c  OBVIOUS
<1>2. PICK m \in Nat : m = Due(c)  BY SilentSend
<1>3. Silent(p) /\ p.rbuf = c.rbuf /\ Due(p) = m  BY <1>1, <1>2, SilentSend
<1>4. part.commands \in ByteCommandSeqs /\ part.read \in Nat  BY DEF ByteParts, PartSet
<1>5. PICK k \in Nat : k = Reads(part.commands)  BY <1>4, ReadsLaws
<1>6. PICK q : q = [p EXCEPT !.usbuf = @ \o part.commands, !.bptr = @ + part.len]  OBVIOUS
<1>7. /\ IsCable(q) /\ q.chain = 0 /\ q.fifo = p.fifo /\ q.rbuf = c.rbuf
      /\ q.usbuf = Join(p.usbuf, part.commands)
  BY <1>3, <1>6 DEF Silent, IsCable, Fields, Join
<1>8. p.usbuf \in ByteCommandSeqs /\ q.usbuf \in ByteCommandSeqs
  BY <1>3, <1>4, <1>7, ConcatProperties DEF Silent, ByteCommandSeqs, Join
<1>9. Silent(q)  BY <1>3, <1>7, <1>8 DEF Silent
<1>10. Due(q) = m + k
  <2>1. Reads(q.usbuf) = Reads(p.usbuf) + k /\ Reads(p.usbuf) \in Nat
    BY ONLY <1>4, <1>5, <1>7, <1>8, ReadsLaws
  <2>2. Len(p.fifo) \in Nat  BY <1>3, LenProperties DEF Silent, HighBytes
  <2>3. m = Len(p.fifo) + Reads(p.usbuf)  BY <1>3 DEF Due
  <2>4. Due(q) = Len(p.fifo) + (Reads(p.usbuf) + k)  BY <1>7, <2>1 DEF Due
  <2>. QED  BY <2>1, <2>2, <2>3, <2>4
<1>11. PICK r : r = IF part.send THEN Send(q) ELSE q  OBVIOUS
<1>12. /\ Silent(r) /\ r.rbuf = c.rbuf /\ Due(r) = m + k
       /\ part.send => Len(r.fifo) = m + k
  BY <1>7, <1>9, <1>10, <1>11, SilentSend
<1>13. PICK d : d = mpsse_add_cmd(c, part) /\ d = IF part.read > 0 THEN Take(r, part.read) ELSE r
  BY <1>1, <1>6, <1>11 DEF mpsse_add_cmd
<1>14. Len(c.rbuf) \in Nat /\ c.rbuf \in Seq({HighByte})  BY LenProperties DEF Silent, HighBytes
<1>15. CASE part.read > 0
  <2>1. PICK n \in Nat : n = part.read /\ n <= m + k  BY <1>2, <1>4, <1>5, <1>15
  <2>2. PICK T : T = {HighByte}  OBVIOUS
  <2>3. PICK f \in Seq(T) : f = r.fifo  BY <1>12, <2>2 DEF Silent, HighBytes
  <2>4. PICK l \in Nat : l = Len(f) /\ l = m + k  BY <1>12, <1>15, <2>3
  <2>5. PICK a \in Seq(T) : a = SubSeq(f, 1, n) /\ Len(a) = n
    <3>1. PICK o \in Nat : o = 0 /\ o + 1 = 1  OBVIOUS
    <3>2. n <= Len(f)  BY <2>1, <2>4
    <3>3. /\ SubSeq(f, o + 1, n) \in Seq(T)
          /\ Len(SubSeq(f, o + 1, n)) = IF o < n THEN n - o ELSE 0
      BY ONLY f \in Seq(T), o \in Nat, n \in Nat, <3>2, PartInSeq
    <3>4. (IF o < n THEN n - o ELSE 0) = n  BY ONLY <3>1, n \in Nat
    <3>. QED  BY ONLY <3>1, <3>3, <3>4
  <2>6. PICK b \in Seq(T) : b = SubSeq(f, n + 1, l) /\ Len(b) = l - n
    <3>1. l <= Len(f)  BY <2>4
    <3>2. /\ SubSeq(f, n + 1, l) \in Seq(T)
          /\ Len(SubSeq(f, n + 1, l)) = IF n < l THEN l - n ELSE 0
      BY ONLY f \in Seq(T), l \in Nat, n \in Nat, <3>1, PartInSeq
    <3>3. (IF n < l THEN l - n ELSE 0) = l - n  BY <2>1, <2>4
    <3>. QED  BY ONLY <3>2, <3>3
  <2>7. d = [r EXCEPT !.rbuf = r.rbuf \o a, !.fifo = b]
    BY <1>13, <1>15, <2>1, <2>3, <2>4, <2>5, <2>6 DEF Take
  <2>8. IsCable(d) /\ d.chain = 0 /\ d.fifo = b /\ d.rbuf = c.rbuf \o a /\ d.usbuf = r.usbuf
    BY <1>12, <2>7 DEF Silent, IsCable, Fields
  <2>9. d.rbuf \in Seq({HighByte}) /\ Len(d.rbuf) = Len(c.rbuf) + n
    <3>1. c.rbuf \in Seq(T)  BY <1>14, <2>2
    <3>2. c.rbuf \o a \in Seq(T) /\ Len(c.rbuf \o a) = Len(c.rbuf) + Len(a)
      BY <3>1, ConcatProperties
    <3>. QED  BY ONLY <2>2, <2>5, <2>8, <3>2
  <2>10. Silent(d)  BY <1>12, <2>2, <2>6, <2>8, <2>9 DEF Silent, HighBytes
  <2>11. Reads(r.usbuf) = 0
    <3>1. r.usbuf = <<>>  BY <1>9, <1>11, <1>15, SilentSend
    <3>. QED  BY <3>1, ReadsLaws
  <2>12. Due(d) + n = m + k
    <3>1. Due(d) = (l - n) + 0  BY <2>6, <2>8, <2>11 DEF Due
    <3>. QED  BY <2>1, <2>4, <3>1
  <2>. QED  BY ONLY <1>2, <1>5, <1>13, <2>1, <2>9, <2>10, <2>12
<1>16. CASE ~(part.read > 0)
  <2>1. part.read = 0  BY <1>4, <1>16
  <2>. QED  BY <1>2, <1>5, <1>12, <1>13, <1>14, <1>16, <2>1
<1>. QED  BY <1>15, <1>16

\* Parts for two sequences, one behind the other.
LEMMA AddAllJoin ==
  ASSUME NEW c, NEW p \in PartSeqs
  PROVE  \A q \in PartSeqs : AddAll(c, Join(p, q)) = AddAll(AddAll(c, p), q)
<1> DEFINE P == {q \in PartSeqs : AddAll(c, Join(p, q)) = AddAll(AddAll(c, p), q)}
<1>1. <<>> \in P
  <2>1. Join(p, <<>>) = p /\ <<>> \in PartSeqs  BY ConcatEmptySeq, EmptySeq DEF Join, PartSeqs
  <2>. QED  BY <2>1, AddNone
<1>2. \A q \in Seq(PartSet) : \A x \in PartSet : q \in P => Append(q, x) \in P
  <2> SUFFICES ASSUME NEW q \in Seq(PartSet), NEW x \in PartSet, q \in P
               PROVE  Append(q, x) \in P
    OBVIOUS
  <2>1. Append(q, x) \in PartSeqs  BY AppendProperties DEF PartSeqs
  <2>2. p \in Seq(PartSet) /\ Join(p, q) \in Seq(PartSet)  BY ConcatProperties DEF Join, PartSeqs
  <2>3. Join(p, Append(q, x)) = Append(Join(p, q), x)  BY <2>2, ConcatAppend DEF Join
  <2>4. AddAll(c, Append(Join(p, q), x)) = mpsse_add_cmd(AddAll(c, Join(p, q)), x)
    BY <2>2, AddAppend
  <2>5. AddAll(AddAll(c, p), Append(q, x)) = mpsse_add_cmd(AddAll(AddAll(c, p), q), x)
    BY AddAppend
  <2>6. AddAll(c, Join(p, q)) = AddAll(AddAll(c, p), q)  OBVIOUS
  <2>. QED  BY ONLY <2>1, <2>3, <2>4, <2>5, <2>6 DEF P
<1> HIDE DEF P
<1>3. \A q \in Seq(PartSet) : q \in P  BY <1>1, <1>2, SeqInduction
<1>. QED  BY <1>3 DEF P, PartSeqs

\* Parts that, where m bytes are to be read, leave n to be read and read g.
Yields(parts, m, n, g) ==
  /\ parts \in PartSeqs
  /\ \A c : Silent(c) /\ Due(c) = m =>
       LET d == AddAll(c, parts)
       IN  Silent(d) /\ Due(d) = n /\ Len(d.rbuf) = Len(c.rbuf) + g

\* No part.
LEMMA YieldsNone == \A m : Yields(<<>>, m, m, 0)
<1>1. <<>> \in PartSeqs  BY PartClocksLaws
<1>2. \A c : Silent(c) => Len(c.rbuf) \in Nat  BY LenProperties DEF Silent, HighBytes
<1>. QED  BY <1>1, <1>2, AddNone DEF Yields

\* Parts behind others.
LEMMA YieldsJoin ==
  ASSUME NEW p, NEW q, NEW m, NEW n, NEW k, NEW g \in Nat, NEW h \in Nat,
         Yields(p, m, n, g), Yields(q, n, k, h)
  PROVE  Yields(Join(p, q), m, k, g + h)
<1>1. p \in PartSeqs /\ q \in PartSeqs  BY DEF Yields
<1>2. Join(p, q) \in PartSeqs  BY <1>1, PartClocksLaws
<1>3. ASSUME NEW c, Silent(c), Due(c) = m
      PROVE  LET d == AddAll(c, Join(p, q))
             IN  Silent(d) /\ Due(d) = k /\ Len(d.rbuf) = Len(c.rbuf) + (g + h)
  <2>1. PICK e : e = AddAll(c, p)  OBVIOUS
  <2>2. Silent(e) /\ Due(e) = n /\ Len(e.rbuf) = Len(c.rbuf) + g  BY <1>3, <2>1 DEF Yields
  <2>3. PICK d : d = AddAll(e, q)  OBVIOUS
  <2>4. Silent(d) /\ Due(d) = k /\ Len(d.rbuf) = Len(e.rbuf) + h  BY <2>2, <2>3 DEF Yields
  <2>5. AddAll(c, Join(p, q)) = d  BY ONLY <1>1, <2>1, <2>3, AddAllJoin
  <2>6. PICK l \in Nat : l = Len(c.rbuf)  BY <1>3, LenProperties DEF Silent, HighBytes
  <2>7. Len(d.rbuf) = Len(c.rbuf) + (g + h)
    <3>1. (l + g) + h = l + (g + h)  OBVIOUS
    <3>. QED  BY ONLY <2>2, <2>4, <2>6, <3>1
  <2>. QED  BY ONLY <2>4, <2>5, <2>7
<1>. QED  BY <1>2, <1>3 DEF Yields

\* A single part.
LEMMA YieldsOne ==
  ASSUME NEW x \in ByteParts, NEW m \in Nat, NEW n \in Nat,
         x.read > 0 => x.send /\ x.read <= m + Reads(x.commands),
         n + x.read = m + Reads(x.commands)
  PROVE  Yields(<<x>>, m, n, x.read)
<1>1. x \in PartSet  BY DEF ByteParts
<1>2. <<x>> \in PartSeqs  BY <1>1, OnePart
<1>3. ASSUME NEW c, Silent(c), Due(c) = m
      PROVE  LET d == AddAll(c, <<x>>)
             IN  Silent(d) /\ Due(d) = n /\ Len(d.rbuf) = Len(c.rbuf) + x.read
  <2>1. AddAll(c, <<x>>) = mpsse_add_cmd(c, x)
    <3>1. <<x>> = Append(<<>>, x) /\ <<>> \in Seq(PartSet)  BY EmptySeq
    <3>2. AddAll(c, Append(<<>>, x)) = mpsse_add_cmd(AddAll(c, <<>>), x)  BY <1>1, <3>1, AddAppend
    <3>. QED  BY <3>1, <3>2, AddNone
  <2>2. PICK d : d = mpsse_add_cmd(c, x)  OBVIOUS
  <2>3. /\ Silent(d) /\ Len(d.rbuf) = Len(c.rbuf) + x.read
        /\ Due(d) + x.read = m + Reads(x.commands)
    BY <1>3, <2>2, SilentAdd
  <2>4. Due(d) \in Nat  BY <2>3, SilentSend
  <2>5. x.read \in Nat  BY <1>1 DEF PartSet
  <2>6. Due(d) = n
    <3>1. PICK a \in Nat : a = Due(d)  BY <2>4
    <3>2. PICK b \in Nat : b = x.read  BY <2>5
    <3>3. a + b = n + b  BY <2>3, <3>1, <3>2
    <3>. QED  BY <3>1, <3>3
  <2>. QED  BY ONLY <2>1, <2>2, <2>3, <2>6
<1>. QED  BY <1>2, <1>3 DEF Yields

\* readusb reads bytes that have been asked for.
LEMMA readusbYields ==
  \A m, n \in Nat : n <= m => Yields(readusb(n), m, m - n, n)
<1> SUFFICES ASSUME NEW m \in Nat, NEW n \in Nat, n <= m
             PROVE  Yields(readusb(n), m, m - n, n)
  OBVIOUS
<1>1. PICK x : x = [len |-> 1, commands |-> <<>>, send |-> TRUE, read |-> n]  OBVIOUS
<1>2. 1 \in 0 .. TxBuf - 1  BY JtagAssumption
<1>3. <<>> \in CommandSeqs /\ <<>> \in ByteCommandSeqs /\ Reads(<<>>) = 0
  BY EmptySeq, ReadsLaws DEF CommandSeqs, ByteCommandSeqs
<1>4. x \in ByteParts /\ x.read = n /\ x.send /\ Reads(x.commands) = 0
  BY <1>1, <1>2, <1>3 DEF ByteParts, PartSet
<1>5. PICK k \in Nat : k = m - n /\ k + n = m  OBVIOUS
<1>6. Yields(<<x>>, m, k, n)
  <2>1. n > 0 => n <= m + 0  OBVIOUS
  <2>2. k + n = m + 0  BY <1>5
  <2>. QED  BY <1>4, <2>1, <2>2, YieldsOne
<1>. QED  BY <1>1, <1>5, <1>6 DEF readusb

\* Parts that neither ask for a byte nor read one.
QuietParts == {x \in ByteParts : Reads(x.commands) = 0 /\ x.read = 0}

\* They change neither number.
LEMMA QuietYields ==
  ASSUME NEW m \in Nat
  PROVE  \A parts \in Seq(QuietParts) : Yields(parts, m, m, 0)
<1> DEFINE P == {parts \in Seq(QuietParts) : Yields(parts, m, m, 0)}
<1>1. <<>> \in P  BY YieldsNone, EmptySeq
<1>2. \A q \in Seq(QuietParts) : \A x \in QuietParts : q \in P => Append(q, x) \in P
  <2> SUFFICES ASSUME NEW q \in Seq(QuietParts), NEW x \in QuietParts, q \in P
               PROVE  Append(q, x) \in P
    OBVIOUS
  <2>1. Yields(q, m, m, 0)  OBVIOUS
  <2>2. Yields(<<x>>, m, m, 0)
    <3>1. x \in ByteParts /\ x.read = 0 /\ Reads(x.commands) = 0  BY DEF QuietParts
    <3>2. ~(0 > 0) /\ m + 0 = m  OBVIOUS
    <3>. QED  BY <3>1, <3>2, YieldsOne
  <2>3. 0 \in Nat /\ 0 + 0 = 0  OBVIOUS
  <2>4. Yields(Join(q, <<x>>), m, m, 0)  BY <2>1, <2>2, <2>3, YieldsJoin
  <2>5. Join(q, <<x>>) = Append(q, x)  BY AppendIsConcat DEF Join
  <2>6. Append(q, x) \in Seq(QuietParts)  BY AppendProperties
  <2>. QED  BY ONLY <2>4, <2>5, <2>6 DEF P
<1> HIDE DEF P
<1>3. \A q \in Seq(QuietParts) : q \in P  BY <1>1, <1>2, SeqInduction
<1>. QED  BY <1>3 DEF P

\* The TMS bits are such parts, and so is the command to send.
LEMMA QuietIs ==
  /\ \A pat \in Seq(TmsSet) : tx_tms(pat) \in Seq(QuietParts)
  /\ mpsse_send \in Seq(QuietParts)
<1>1. <<>> \in CommandSeqs /\ <<>> \in ByteCommandSeqs /\ Reads(<<>>) = 0
  BY EmptySeq, ReadsLaws DEF CommandSeqs, ByteCommandSeqs
<1>2. ASSUME NEW pat \in Seq(TmsSet) PROVE tx_tms(pat) \in Seq(QuietParts)
  <2>1. PICK n \in Nat \ {0} : n = TmsBits  BY JtagAssumption
  <2>2. PICK m \in Nat : m = (Len(pat) + n - 1) \div n
    <3>1. PICK l \in Nat : l = Len(pat)  BY LenProperties
    <3>2. PICK a \in Nat : a = l + n - 1  OBVIOUS
    <3>3. a \div n \in Nat  BY ONLY a \in Nat, n \in Nat \ {0}, DivMod
    <3>. QED  BY <3>1, <3>2, <3>3
  <2>3. \A i \in 1 .. m : Part(3, <<TmsOnly(Piece(pat, n, i))>>) \in QuietParts
    <3> SUFFICES ASSUME NEW i \in 1 .. m
                 PROVE  Part(3, <<TmsOnly(Piece(pat, n, i))>>) \in QuietParts
      OBVIOUS
    <3>1. PICK j \in Nat : i = j + 1  OBVIOUS
    <3>2. PICK piece \in Seq(TmsSet) : piece = Piece(pat, n, i)
      BY <3>1, PieceInSeq
    <3>3. PICK x : x = TmsOnly(piece)  OBVIOUS
    <3>4. x \in CommandSet /\ x.read = FALSE  BY <3>3, TmsOnlyIs DEF TmsOnly, Command
    <3>5. x \in ByteCommands  BY <3>4 DEF ByteCommands
    <3>6. <<x>> \in ByteCommandSeqs /\ <<x>> \in CommandSeqs /\ Reads(<<x>>) = 0
      <4>1. <<x>> = Append(<<>>, x)  OBVIOUS
      <4>2. Reads(Append(<<>>, x)) = Reads(<<>>) + (IF x.read THEN 1 ELSE 0)
        BY <1>1, <3>5, ReadsLaws
      <4>3. Append(<<>>, x) \in ByteCommandSeqs /\ Append(<<>>, x) \in CommandSeqs
        BY <1>1, <3>4, <3>5, AppendProperties DEF ByteCommandSeqs, CommandSeqs
      <4>. QED  BY <1>1, <3>4, <4>1, <4>2, <4>3
    <3>7. 3 \in 0 .. TxBuf - 1  BY JtagAssumption
    <3>8. Part(3, <<x>>) \in QuietParts
      BY <3>6, <3>7 DEF Part, PartSet, ByteParts, QuietParts
    <3>. QED  BY <3>2, <3>3, <3>8
  <2>4. PICK f : f = [i \in 1 .. m |-> Part(3, <<TmsOnly(Piece(pat, n, i))>>)]  OBVIOUS
  <2>5. f \in [1 .. m -> QuietParts]  BY <2>3, <2>4
  <2>6. f \in Seq(QuietParts)  BY <2>5, FunctionIsSeq
  <2>7. tx_tms(pat) = f  BY <2>1, <2>2, <2>4 DEF tx_tms, TmsOnly
  <2>. QED  BY <2>6, <2>7
<1>3. mpsse_send \in Seq(QuietParts)
  <2>1. PICK x : x = [len |-> 0, commands |-> <<>>, send |-> TRUE, read |-> 0]  OBVIOUS
  <2>2. 0 \in 0 .. TxBuf - 1  BY JtagAssumption
  <2>3. x \in QuietParts  BY <1>1, <2>1, <2>2 DEF PartSet, ByteParts, QuietParts
  <2>. QED  BY <2>1, <2>3 DEF mpsse_send
<1>. QED  BY <1>2, <1>3

\* A reading command for each byte asks for as many bytes.
LEMMA ReadsAll == \A q \in Seq({x \in ByteCommands : x.read}) : q \in ByteCommandSeqs /\ Reads(q) = Len(q)
<1> DEFINE R == {x \in ByteCommands : x.read}
           P == {q \in ByteCommandSeqs : Reads(q) = Len(q)}
<1>1. <<>> \in P
  <2>1. <<>> \in ByteCommandSeqs /\ Len(<<>>) = 0  BY EmptySeq DEF ByteCommandSeqs
  <2>. QED  BY <2>1, ReadsLaws
<1>2. \A q \in Seq(R) : \A x \in R : q \in P => Append(q, x) \in P
  <2> SUFFICES ASSUME NEW q \in Seq(R), NEW x \in R, q \in P PROVE Append(q, x) \in P
    OBVIOUS
  <2>1. x \in ByteCommands /\ x.read /\ q \in ByteCommandSeqs /\ Reads(q) = Len(q)  OBVIOUS
  <2>2. Reads(Append(q, x)) = Reads(q) + (IF x.read THEN 1 ELSE 0)  BY <2>1, ReadsLaws
  <2>3. Append(q, x) \in ByteCommandSeqs /\ Len(Append(q, x)) = Len(q) + 1
    BY <2>1, AppendProperties DEF ByteCommandSeqs
  <2>4. Reads(Append(q, x)) = Len(q) + 1  BY <2>1, <2>2
  <2>. QED  BY ONLY <2>3, <2>4
<1> HIDE DEF P, R
<1>3. \A q \in Seq(R) : q \in P  BY <1>1, <1>2, SeqInduction
<1>. QED  BY <1>3 DEF P, R

HasPieces(seq, n, k) == k * n <= Len(seq)

\* Pieces before the end are full.
LEMMA FullPieces ==
  ASSUME NEW T, NEW seq \in Seq(T), NEW n \in Nat \ {0}, NEW k \in Nat, HasPieces(seq, n, k)
  PROVE  \A i \in 1 .. k : Piece(seq, n, i) \in Seq(T) /\ Len(Piece(seq, n, i)) = n
<1> SUFFICES ASSUME NEW i \in 1 .. k
             PROVE  Piece(seq, n, i) \in Seq(T) /\ Len(Piece(seq, n, i)) = n
  OBVIOUS
<1>1. PICK l \in Nat : l = Len(seq) /\ k * n <= l  BY LenProperties DEF HasPieces
<1>2. PICK d \in Nat : k = i + d  OBVIOUS
<1>3. k * n = i * n + d * n /\ d * n \in Nat  BY <1>2
<1>4. PICK j \in Nat : i = j + 1 /\ i - 1 = j  OBVIOUS
<1>5. i * n = j * n + n /\ j * n \in Nat  BY <1>4
<1>6. PICK a \in Nat : a = (i - 1) * n /\ i * n = a + n  BY <1>4, <1>5
<1>7. PICK e \in Nat : e = i * n /\ e = a + n /\ e <= l
  BY ONLY <1>1, <1>3, <1>6, l \in Nat, a \in Nat, n \in Nat \ {0}
<1>8. e = (IF i * n < Len(seq) THEN i * n ELSE Len(seq))
  <2>1. PICK g \in Nat : g = i * n /\ g = e  BY <1>7
  <2>2. e <= l /\ l = Len(seq)  BY <1>1, <1>7
  <2>. QED  BY ONLY <2>1, <2>2, l \in Nat
<1>9. Piece(seq, n, i) = SubSeq(seq, a + 1, e)  BY ONLY <1>6, <1>8 DEF Piece
<1>10. /\ SubSeq(seq, a + 1, e) \in Seq(T)
       /\ Len(SubSeq(seq, a + 1, e)) = IF a < e THEN e - a ELSE 0
  BY <1>1, <1>7, PartInSeq
<1>11. (IF a < e THEN e - a ELSE 0) = n  BY ONLY <1>7, a \in Nat, n \in Nat \ {0}
<1>. QED  BY <1>9, <1>10, <1>11

\* Two elements are one behind the other.
LEMMA PairIsJoin ==
  ASSUME NEW S, NEW x \in S, NEW y \in S
  PROVE  <<x, y>> = Join(<<x>>, <<y>>)
<1>1. PICK z : z = <<x, y>>  OBVIOUS
<1>2. z = Append(<<x>>, y)  BY <1>1
<1>3. <<x>> \in Seq(S)  OBVIOUS
<1>4. Append(<<x>>, y) = <<x>> \o <<y>>  BY <1>3, AppendIsConcat
<1>. QED  BY <1>1, <1>2, <1>4 DEF Join

\* Whole bytes ask for as many.
LEMMA BytesYield ==
  ASSUME NEW tdi \in Seq(BitSet), NEW n \in 0 .. TxBuf - 1, Len(tdi) = n * ByteBits,
         NEW m \in Nat
  PROVE  Yields(Bytes(tdi, TRUE), m, m + n, 0)
<1>1. PICK b \in Nat \ {0} : b = ByteBits  BY JtagAssumption
<1>2. n \in Nat /\ Len(tdi) \div ByteBits = n
  <2>1. PICK o \in Nat : o = 0 /\ n * b + o = n * b  BY <1>1
  <2>2. n \in Nat  BY JtagAssumption
  <2>3. (n * b + o) \div b = n  BY <2>1, <2>2, DivUnique
  <2>. QED  BY <1>1, <2>1, <2>2, <2>3
<1>3. \A i \in 1 .. n : Piece(tdi, b, i) \in Seq(BitSet) /\ Len(Piece(tdi, b, i)) = b
  <2>1. PICK T : T = BitSet  OBVIOUS
  <2>2. PICK g \in Nat : g = n * b  BY <1>2
  <2>3. tdi \in Seq(T) /\ n \in Nat /\ ByteBits \in Nat \ {0} /\ HasPieces(tdi, ByteBits, n)
    BY <1>1, <1>2, <2>1, <2>2 DEF HasPieces
  <2>4. \A i \in 1 .. n :
          Piece(tdi, ByteBits, i) \in Seq(T) /\ Len(Piece(tdi, ByteBits, i)) = ByteBits
    BY ONLY <2>3, FullPieces
  <2>. QED  BY ONLY <1>1, <2>1, <2>4
<1>4. PICK R : R = {x \in ByteCommands : x.read}  OBVIOUS
<1>5. \A i \in 1 .. n : Data(Piece(tdi, b, i), TRUE) \in R
  <2> SUFFICES ASSUME NEW p \in Seq(BitSet), Len(p) = b PROVE Data(p, TRUE) \in R
    BY <1>3
  <2>1. Data(p, TRUE) \in CommandSet /\ Data(p, TRUE).read = TRUE  BY DataIs DEF Data, Command
  <2>2. Len(Data(p, TRUE).clocks) = ByteBits
    <3>1. Data(p, TRUE).clocks
            = [i \in DOMAIN p |-> [tms |-> [j \in DOMAIN p |-> Same][i], tdi |-> p[i]]]
      BY DEF Data, Command
    <3>2. DOMAIN p = 1 .. b  BY LenProperties
    <3>3. PICK f : f = [i \in 1 .. b |-> [tms |-> [j \in DOMAIN p |-> Same][i], tdi |-> p[i]]]
      OBVIOUS
    <3>4. f = Data(p, TRUE).clocks  BY <3>1, <3>2, <3>3
    <3>5. PICK S : S = {f[i] : i \in 1 .. b}  OBVIOUS
    <3>6. f \in [1 .. b -> S]  BY <3>3, <3>5
    <3>7. b \in Nat  OBVIOUS
    <3>8. Len(f) = b  BY ONLY <3>6, <3>7, FunctionIsSeq
    <3>. QED  BY <1>1, <3>4, <3>8
  <2>. QED  BY <1>4, <2>1, <2>2 DEF ByteCommands
<1>6. PICK q : q = [i \in 1 .. n |-> Data(Piece(tdi, b, i), TRUE)]  OBVIOUS
<1>7. q \in Seq(R) /\ Len(q) = n
  <2>1. q \in [1 .. n -> R]  BY <1>5, <1>6
  <2>. QED  BY ONLY <1>2, <2>1, FunctionIsSeq
<1>8. q \in ByteCommandSeqs /\ Reads(q) = n  BY <1>4, <1>7, ReadsAll
<1>9. q \in CommandSeqs
  <2>1. q \in [1 .. n -> CommandSet]
    BY <1>4, <1>5, <1>6 DEF ByteCommands
  <2>2. q \in Seq(CommandSet)  BY ONLY <1>2, <2>1, FunctionIsSeq
  <2>. QED  BY <2>2 DEF CommandSeqs
<1>10. PICK x \in PartSet : x = Part(3, <<>>)
  <2>1. <<>> \in CommandSeqs /\ 3 \in 0 .. TxBuf - 1  BY EmptySeq, JtagAssumption DEF CommandSeqs
  <2>. QED  BY <2>1 DEF Part, PartSet
<1>11. PICK y \in PartSet : y = Part(n, q)  BY <1>9 DEF Part, PartSet
<1>12. Bytes(tdi, TRUE) = Join(<<x>>, <<y>>)
  <2>1. Bytes(tdi, TRUE) = <<x, y>>  BY <1>1, <1>2, <1>6, <1>10, <1>11 DEF Bytes
  <2>. QED  BY ONLY <2>1, x \in PartSet, y \in PartSet, PairIsJoin
<1>13. Yields(<<x>>, m, m, 0)
  <2>1. <<>> \in CommandSeqs /\ <<>> \in ByteCommandSeqs /\ Reads(<<>>) = 0
    BY EmptySeq, ReadsLaws DEF CommandSeqs, ByteCommandSeqs
  <2>2. 3 \in 0 .. TxBuf - 1  BY JtagAssumption
  <2>3. x \in QuietParts  BY <1>10, <2>1, <2>2 DEF Part, PartSet, ByteParts, QuietParts
  <2>4. <<x>> \in Seq(QuietParts)  BY <2>3
  <2>. QED  BY <2>4, QuietYields
<1>14. Yields(<<y>>, m, m + n, 0)
  <2>1. y \in ByteParts /\ y.read = 0 /\ y.commands = q
    BY <1>8, <1>9, <1>11 DEF Part, PartSet, ByteParts
  <2>2. PICK h \in Nat : h = m + n  BY <1>2
  <2>3. h + 0 = m + n /\ ~(0 > 0)  BY <2>2
  <2>4. Yields(<<y>>, m, h, 0)  BY <1>8, <2>1, <2>3, YieldsOne
  <2>. QED  BY <2>2, <2>4
<1>15. 0 \in Nat /\ 0 + 0 = 0  OBVIOUS
<1>. QED  BY <1>12, <1>13, <1>14, <1>15, YieldsJoin

\* Full chunks are read.
LEMMA ChunksYield ==
  ASSUME NEW tdi \in Seq(BitSet), NEW k \in Nat, NEW w, w = (TxBuf - 3) * ByteBits,
         k * w <= Len(tdi)
  PROVE  \E g \in Nat : Yields(FlattenSeq(ChunkSeq(tdi, TRUE, w, k)), 0, 0, g)
<1>1. PICK b \in Nat \ {0} : b = ByteBits  BY JtagAssumption
<1>2. PICK ch \in Nat \ {0} : ch = TxBuf - 3 /\ ch \in 0 .. TxBuf - 1  BY JtagAssumption
<1>3. w \in Nat \ {0} /\ w = ch * ByteBits
  <2>1. PICK c \in Nat : ch = c + 1  OBVIOUS
  <2>2. PICK d \in Nat : d = c * b /\ ch * b = d + b  BY <2>1
  <2>3. ch * b \in Nat \ {0}  BY ONLY <2>2, d \in Nat, b \in Nat \ {0}
  <2>4. w = ch * ByteBits  BY <1>2
  <2>. QED  BY ONLY <1>1, <2>3, <2>4
<1>4. \A i \in 1 .. k : Piece(tdi, w, i) \in Seq(BitSet) /\ Len(Piece(tdi, w, i)) = w
  <2>1. PICK T : T = BitSet  OBVIOUS
  <2>2. tdi \in Seq(T) /\ HasPieces(tdi, w, k)  BY <2>1 DEF HasPieces
  <2>. QED  BY ONLY <1>3, <2>1, <2>2, k \in Nat, FullPieces
<1> DEFINE X == {p \in PartSeqs : Yields(p, 0, 0, ch)}
           P == {qq \in Seq(PartSeqs) : \E g \in Nat : Yields(FlattenSeq(qq), 0, 0, g)}
<1>5. \A i \in 1 .. k : Join(Bytes(Piece(tdi, w, i), TRUE), readusb(ch)) \in X
  <2> SUFFICES ASSUME NEW p \in Seq(BitSet), Len(p) = w
               PROVE  Yields(Join(Bytes(p, TRUE), readusb(ch)), 0, 0, ch)
    BY <1>4 DEF Yields
  <2>1. 0 \in Nat /\ 0 + ch = ch /\ ch - ch = 0 /\ ch <= ch  OBVIOUS
  <2>2. Yields(Bytes(p, TRUE), 0, 0 + ch, 0)
    BY ONLY <1>2, <1>3, <2>1, p \in Seq(BitSet), Len(p) = w, BytesYield
  <2>3. Yields(readusb(ch), ch, ch - ch, ch)  BY <2>1, readusbYields
  <2>4. Yields(Bytes(p, TRUE), 0, ch, 0) /\ Yields(readusb(ch), ch, 0, ch)
    BY <2>1, <2>2, <2>3
  <2>5. Yields(Join(Bytes(p, TRUE), readusb(ch)), 0, 0, 0 + ch)
    BY ONLY <2>1, <2>4, ch \in Nat \ {0}, YieldsJoin
  <2>. QED  BY <2>1, <2>5
<1>6. PICK qq : qq = ChunkSeq(tdi, TRUE, w, k)  OBVIOUS
<1>7. qq \in Seq(X)
  <2>1. qq = [i \in 1 .. k |-> Join(Bytes(Piece(tdi, w, i), TRUE), readusb(ch))]
    BY <1>2, <1>6 DEF ChunkSeq, Join
  <2>2. qq \in [1 .. k -> X]
    <3> HIDE DEF X
    <3>. QED  BY <1>5, <2>1
  <2> HIDE DEF X
  <2>. QED  BY ONLY <2>2, k \in Nat, FunctionIsSeq
<1>8. <<>> \in P
  <2>1. <<>> \in Seq(PartSeqs)  BY EmptySeq
  <2>2. Yields(FlattenSeq(<<>>), 0, 0, 0)  BY FlattenNone, YieldsNone
  <2>3. 0 \in Nat  OBVIOUS
  <2>. QED  BY <2>1, <2>2, <2>3
<1>9. \A q \in Seq(X) : \A x \in X : q \in P => Append(q, x) \in P
  <2> SUFFICES ASSUME NEW q \in Seq(X), NEW x \in X, q \in P PROVE Append(q, x) \in P
    OBVIOUS
  <2>1. PICK g \in Nat : Yields(FlattenSeq(q), 0, 0, g)  OBVIOUS
  <2>2. x \in PartSeqs /\ Yields(x, 0, 0, ch) /\ q \in Seq(PartSeqs)  OBVIOUS
  <2>3. FlattenSeq(Append(q, x)) = Join(FlattenSeq(q), x)
    <3>1. PICK S : S = PartSet  OBVIOUS
    <3>2. q \in Seq(Seq(S)) /\ x \in Seq(S)  BY <2>2, <3>1 DEF PartSeqs
    <3>3. FlattenSeq(Append(q, x)) = FlattenSeq(q) \o x  BY ONLY <3>2, FlattenAppend
    <3>. QED  BY <3>3 DEF Join
  <2>4. PICK h \in Nat : h = g + ch  OBVIOUS
  <2>5. Yields(Join(FlattenSeq(q), x), 0, 0, g + ch)
    BY ONLY <2>1, <2>2, g \in Nat, ch \in Nat \ {0}, YieldsJoin
  <2>6. Append(q, x) \in Seq(PartSeqs)  BY <2>2, AppendProperties
  <2>7. Yields(FlattenSeq(Append(q, x)), 0, 0, h)  BY ONLY <2>3, <2>4, <2>5
  <2>. QED  BY <2>6, <2>7
<1> HIDE DEF P, X
<1>10. \A q \in Seq(X) : q \in P  BY <1>8, <1>9, SeqInduction
<1>11. qq \in P  BY <1>7, <1>10
<1>. QED  BY <1>6, <1>11 DEF P

\* The last of the whole bytes are not a chunk.
LEMMA BytesRemain ==
  ASSUME NEW b \in Nat \ {0}, NEW ch \in Nat \ {0}, NEW n \in Nat \ {0}, NEW k, NEW start,
         NEW rest \in Nat, k = (IF n > ch THEN (n - 1) \div ch ELSE 0), start = k * (ch * b),
         n * b = start + rest * b
  PROVE  rest # 0
<1> SUFFICES ASSUME rest = 0 PROVE FALSE  OBVIOUS
<1>1. 0 * b = 0 /\ n * b \in Nat  OBVIOUS
<1>2. n * b = start
  <2>1. PICK x \in Nat : x = n * b  BY <1>1
  <2>2. rest * b = 0  BY <1>1
  <2>3. x = start + 0  BY <2>1, <2>2
  <2>4. CASE n > ch
    <3>1. PICK a \in Nat : a = n - 1  OBVIOUS
    <3>2. k \in Nat  BY <2>4, <3>1, DivMod
    <3>4. PICK h \in Nat : h = ch * b  OBVIOUS
    <3>5. PICK i \in Nat : i = k * h  BY <3>2
    <3>3. start \in Nat  BY ONLY <3>4, <3>5, start = k * (ch * b)
    <3>. QED  BY <2>1, <2>3, <3>3
  <2>5. CASE ~(n > ch)
    <3>1. k = 0  BY <2>5
    <3>2. 0 * (ch * b) = 0  OBVIOUS
    <3>. QED  BY <2>1, <2>3, <3>1, <3>2
  <2>. QED  BY <2>4, <2>5
<1>3. CASE n > ch
  <2>1. PICK a \in Nat : a = n - 1  OBVIOUS
  <2>2. PICK r : r = a % ch  OBVIOUS
  <2>3. k \in Nat /\ r \in 0 .. ch - 1 /\ a = (k * ch) + r
    <3>1. k = a \div ch  BY <1>3, <2>1
    <3>. QED  BY <2>2, <3>1, DivMod
  <2>4. PICK h \in Nat : h = k * ch  BY <2>3
  <2>5. h * b = n * b
    <3>1. (k * ch) * b = k * (ch * b)  BY <2>3
    <3>. QED  BY <1>2, <2>4, <3>1
  <2>6. h = n
    <3>1. PICK o \in Nat : o = 0 /\ h * b + o = h * b /\ n * b + o = n * b  OBVIOUS
    <3>2. o < b  BY <3>1
    <3>3. (h * b + o) \div b = h  BY ONLY <3>2, h \in Nat, o \in Nat, b \in Nat \ {0}, DivUnique
    <3>4. (n * b + o) \div b = n
      BY ONLY <3>2, n \in Nat \ {0}, o \in Nat, b \in Nat \ {0}, DivUnique
    <3>. QED  BY ONLY <2>5, <3>1, <3>3, <3>4
  <2>. QED  BY <2>1, <2>3, <2>4, <2>6
<1>4. CASE ~(n > ch)
  <2>1. k = 0 /\ 0 * (ch * b) = 0  BY <1>4
  <2>2. n * b = 0  BY <1>2, <2>1
  <2>3. PICK j \in Nat : n = j + 1  OBVIOUS
  <2>4. PICK i \in Nat : i = j * b /\ n * b = i + b  BY <2>3
  <2>. QED  BY <2>2, <2>4
<1>. QED  BY <1>3, <1>4

\* A block of whole bytes is read completely.
LEMMA BlockYields ==
  ASSUME NEW size \in Nat \ {0}, NEW tdi \in Seq(BitSet), Len(tdi) = size * ByteBits
  PROVE  \E g \in Nat \ {0} : Yields(txrx_block(tdi, TRUE, FALSE), 0, 0, g)
<1> DEFINE When(condition, parts) == IF condition THEN parts ELSE <<>>
<1>1. PICK b \in Nat \ {0} : b = ByteBits  BY JtagAssumption
<1>2. PICK ch \in Nat \ {0} : ch = TxBuf - 3 /\ ch \in 0 .. TxBuf - 1  BY JtagAssumption
<1>3. PICK rem \in Nat : rem = Rem(tdi, FALSE) /\ rem = Len(tdi) /\ rem = size * b
  BY <1>1, LenProperties DEF Rem
<1>4. rem \div ByteBits = size /\ rem % ByteBits = 0
  <2>3. PICK o \in Nat : o = 0 /\ o < b  OBVIOUS
  <2>4. rem + o = rem  BY <2>3
  <2>1. o = 0 /\ o < b /\ size * b + o = rem  BY ONLY <1>3, <2>3, <2>4
  <2>2. (size * b + o) \div b = size /\ (size * b + o) % b = o
    BY ONLY <2>1, size \in Nat \ {0}, o \in Nat, b \in Nat \ {0}, DivUnique
  <2>. QED  BY ONLY <1>1, <2>1, <2>2
<1>5. PICK k : k = IF size > TxBuf - 3 THEN (size - 1) \div (TxBuf - 3) ELSE 0  OBVIOUS
<1>6. PICK start : start = k * (TxBuf - 3) * ByteBits  OBVIOUS
<1>7. PICK n : n = (rem - start) \div ByteBits  OBVIOUS
<1>8. PICK w : w = (TxBuf - 3) * ByteBits  OBVIOUS
<1>9. /\ k \in Nat /\ start = k * w /\ start \in Nat /\ n \in 0 .. TxBuf - 3
      /\ rem = start + n * ByteBits
  <2>1. PICK rb : rb = rem % ByteBits /\ rb = 0  BY <1>4
  <2>2. k = IF rem \div ByteBits > TxBuf - 3
              THEN (rem \div ByteBits - 1) \div (TxBuf - 3) ELSE 0
    BY ONLY <1>4, <1>5
  <2>3. /\ k \in Nat /\ start = k * w /\ start \in Nat /\ n \in 0 .. TxBuf - 3
        /\ rem - rb = start + n * ByteBits
    BY ONLY rem \in Nat, <1>6, <1>7, <1>8, <2>1, <2>2, BlockSizes
  <2>. QED  BY <2>1, <2>3
<1>10. PICK rest \in Nat \ {0} : rest = n /\ rest <= ch
  <2>1. n \in Nat  BY <1>2, <1>9
  <2>2. PICK m \in Nat : m = n  BY <2>1
  <2>3. k = IF size > ch THEN (size - 1) \div ch ELSE 0  BY ONLY <1>2, <1>5
  <2>4. start = k * (ch * b)  BY ONLY <1>1, <1>2, <1>8, <1>9
  <2>5. size * b = start + m * b  BY ONLY <1>1, <1>3, <1>9, <2>2
  <2>6. m # 0
    BY ONLY <2>3, <2>4, <2>5, m \in Nat, size \in Nat \ {0}, ch \in Nat \ {0}, b \in Nat \ {0},
            BytesRemain
  <2>. QED  BY <1>2, <1>9, <2>2, <2>6
<1>11. rem <= Len(tdi)
  <2>1. PICK l \in Nat : l = Len(tdi)  BY LenProperties
  <2>2. rem <= rem  OBVIOUS
  <2>. QED  BY ONLY <1>3, <2>2
<1>12. n \in 0 .. TxBuf - 1 /\ rest \in 0 .. TxBuf - 1
  <2>1. PICK t \in Nat : t = TxBuf  BY JtagAssumption
  <2>2. ch <= t - 1 /\ rest <= ch  BY <1>2, <1>10, <2>1
  <2>3. rest \in 0 .. t - 1
    BY ONLY <2>2, t \in Nat, rest \in Nat \ {0}, ch \in Nat \ {0}
  <2>. QED  BY ONLY <1>10, <2>1, <2>3
<1>13. PICK p1 : p1 = FlattenSeq(ChunkSeq(tdi, TRUE, w, k))  OBVIOUS
<1>14. PICK p2 : p2 = Bytes(Cut(tdi, start, rem), TRUE)  OBVIOUS
<1>15. PICK p3 : p3 = When(rest >= TxBuf - 4, readusb(rest))  OBVIOUS
<1>16. PICK left \in Nat : left = IF rest >= TxBuf - 4 THEN 0 ELSE rest  OBVIOUS
<1>17. PICK p4 : p4 = readusb(left)  OBVIOUS
<1>18. txrx_block(tdi, TRUE, FALSE) = Join(Join(Join(p1, p2), p3), p4)
  <2> DEFINE rem0 == Rem(tdi, FALSE)
             k0 == IF rem0 \div ByteBits > TxBuf - 3
                     THEN (rem0 \div ByteBits - 1) \div (TxBuf - 3) ELSE 0
             start0 == k0 * (TxBuf - 3) * ByteBits
             n0 == (rem0 - start0) \div ByteBits
             rb0 == rem0 % ByteBits
             left0 == (IF n0 >= TxBuf - 4 THEN 0 ELSE n0) + (IF rb0 = 0 THEN 0 ELSE 1)
                        + (IF FALSE THEN 1 ELSE 0)
  <2>1. txrx_block(tdi, TRUE, FALSE) =
          Join(Join(Join(Join(Join(
            FlattenSeq(ChunkSeq(tdi, TRUE, (TxBuf - 3) * ByteBits, k0)),
            When(n0 > 0, Bytes(SubSeq(tdi, start0 + 1, rem0 - rb0), TRUE))),
            When(n0 >= TxBuf - 4 /\ TRUE, readusb(n0))),
            When(rb0 > 0, <<Part(2, <<>>),
                            Part(1, <<Data(SubSeq(tdi, rem0 - rb0 + 1, rem0), TRUE)>>)>>)),
            When(FALSE, <<Part(3, <<Command(<<1>>, <<LastBit(tdi, rb0)>>, TRUE)>>)>>)),
            When(TRUE, readusb(left0)))
    BY DEF txrx_block, Join, ChunkSeq
  <2>2. rem = rem0  BY <1>3
  <2> HIDE DEF rem0
  <2>3. k = k0  BY ONLY <1>4, <1>5, <2>2
  <2> HIDE DEF k0
  <2>4. start = start0  BY ONLY <1>6, <2>3
  <2> HIDE DEF start0
  <2>5. rest = n0 /\ rb0 = 0  BY ONLY <1>4, <1>7, <1>10, <2>2, <2>4
  <2> HIDE DEF n0, rb0
  <2>6. left = left0
    <3>1. left + 0 + 0 = left  OBVIOUS
    <3>. QED  BY <1>16, <2>5, <3>1
  <2> HIDE DEF left0
  <2>7. When(n0 > 0, Bytes(SubSeq(tdi, start0 + 1, rem0 - rb0), TRUE)) = p2
    <3>1. rest > 0 /\ rem - 0 = rem  OBVIOUS
    <3>. QED  BY <1>14, <2>2, <2>4, <2>5, <3>1 DEF Cut
  <2>8. When(n0 >= TxBuf - 4 /\ TRUE, readusb(n0)) = p3  BY <1>15, <2>5
  <2>9. When(rb0 > 0, <<Part(2, <<>>),
                        Part(1, <<Data(SubSeq(tdi, rem0 - rb0 + 1, rem0), TRUE)>>)>>) = <<>>
    <3>1. ~(rb0 > 0)  BY <2>5
    <3>. QED  BY <3>1
  <2>10. When(FALSE, <<Part(3, <<Command(<<1>>, <<LastBit(tdi, rb0)>>, TRUE)>>)>>) = <<>>
    OBVIOUS
  <2>11. When(TRUE, readusb(left0)) = p4  BY <1>17, <2>6
  <2>12. FlattenSeq(ChunkSeq(tdi, TRUE, (TxBuf - 3) * ByteBits, k0)) = p1
    BY ONLY <1>8, <1>13, <2>3
  <2>13. PICK x : x = Join(Join(p1, p2), p3)  OBVIOUS
  <2>14. txrx_block(tdi, TRUE, FALSE) = Join(Join(Join(x, <<>>), <<>>), p4)
    BY ONLY <2>1, <2>7, <2>8, <2>9, <2>10, <2>11, <2>12, <2>13
  <2>15. x \in Seq(PartSet)
    <3>1. p1 \in PartSeqs
      <4>1. k * w <= Len(tdi)
        <5>1. PICK u \in Nat : u = n * ByteBits  BY <1>1, <1>10
        <5>. QED  BY <1>3, <1>9, <5>1
      <4>2. TRUE \in BOOLEAN  OBVIOUS
      <4>. QED  BY ONLY tdi \in Seq(BitSet), <1>8, <1>9, <1>13, <4>1, <4>2, ChunksAre
    <3>2. p2 \in PartSeqs /\ p3 \in PartSeqs
      <4>1. Cut(tdi, start, rem) \in Seq(BitSet) /\ Len(Cut(tdi, start, rem)) = n * ByteBits
        <5>1. PICK u \in Nat : u = n * ByteBits  BY <1>1, <1>10
        <5>2. PICK a \in Nat : a = start  BY <1>9
        <5>3. /\ SubSeq(tdi, a + 1, rem) \in Seq(BitSet)
              /\ Len(SubSeq(tdi, a + 1, rem)) = IF a < rem THEN rem - a ELSE 0
          <6>1. rem <= Len(tdi)  BY <1>11
          <6>. QED  BY <6>1, PartInSeq
        <5>5. rem = a + u  BY ONLY <1>9, <5>1, <5>2
        <5>4. (IF a < rem THEN rem - a ELSE 0) = u  BY ONLY <5>5, a \in Nat, u \in Nat, rem \in Nat
        <5>. QED  BY <5>1, <5>2, <5>3, <5>4 DEF Cut
      <4>2. n \in 0 .. TxBuf - 1 /\ TRUE \in BOOLEAN  BY <1>12
      <4>3. p2 \in PartSeqs  BY ONLY <1>14, <4>1, <4>2, BytesIs
      <4>. QED  BY <1>15, <4>3, readusbIs, PartClocksLaws
    <3>. QED  BY <2>13, <3>1, <3>2, PartClocksLaws DEF PartSeqs
  <2>16. Join(x, <<>>) = x  BY <2>15, ConcatEmptySeq DEF Join
  <2>. QED  BY ONLY <2>13, <2>14, <2>16
<1>19. 0 \in Nat /\ 0 + rest = rest /\ rest - rest = 0  OBVIOUS
<1>20. PICK g1 \in Nat : Yields(p1, 0, 0, g1)
  <2>1. k * w <= Len(tdi)
    <3>1. PICK u \in Nat : u = n * ByteBits  BY <1>1, <1>10
    <3>. QED  BY <1>3, <1>9, <3>1
  <2>2. \E g \in Nat : Yields(p1, 0, 0, g)
    BY ONLY tdi \in Seq(BitSet), <1>8, <1>9, <1>13, <2>1, ChunksYield
  <2>. QED  BY <2>2
<1>21. Yields(p2, 0, rest, 0)
  <2>1. PICK q \in Seq(BitSet) : q = Cut(tdi, start, rem) /\ Len(q) = rest * ByteBits
    <3>1. PICK u \in Nat : u = rest * ByteBits  BY <1>1
    <3>2. PICK a \in Nat : a = start  BY <1>9
    <3>3. /\ SubSeq(tdi, a + 1, rem) \in Seq(BitSet)
          /\ Len(SubSeq(tdi, a + 1, rem)) = IF a < rem THEN rem - a ELSE 0
      <4>1. rem <= Len(tdi)  BY <1>11
      <4>. QED  BY <4>1, PartInSeq
    <3>5. rem = a + u  BY ONLY <1>9, <1>10, <3>1, <3>2
    <3>4. (IF a < rem THEN rem - a ELSE 0) = u  BY ONLY <3>5, a \in Nat, u \in Nat, rem \in Nat
    <3>. QED  BY <3>1, <3>2, <3>3, <3>4 DEF Cut
  <2>2. rest \in 0 .. TxBuf - 1  BY <1>12
  <2>3. Yields(Bytes(q, TRUE), 0, 0 + rest, 0)
    BY ONLY <1>19, <2>1, <2>2, q \in Seq(BitSet), BytesYield
  <2>. QED  BY <1>14, <1>19, <2>1, <2>3
<1>22. PICK g3 \in Nat : g3 = rest - left /\ Yields(p3, rest, left, g3) /\ left + g3 = rest
  <2>1. CASE rest >= TxBuf - 4
    <3>1. rest <= rest /\ left = 0  BY <1>16, <2>1
    <3>2. Yields(readusb(rest), rest, rest - rest, rest)
      BY ONLY <3>1, rest \in Nat \ {0}, readusbYields
    <3>. QED  BY <1>15, <1>19, <2>1, <3>1, <3>2
  <2>2. CASE ~(rest >= TxBuf - 4)
    <3>1. left = rest /\ p3 = <<>>  BY <1>15, <1>16, <2>2
    <3>. QED  BY <1>19, <3>1, YieldsNone
  <2>. QED  BY <2>1, <2>2
<1>23. Yields(p4, left, 0, left)
  <2>1. left <= left /\ left - left = 0  OBVIOUS
  <2>2. Yields(readusb(left), left, left - left, left)  BY ONLY <2>1, left \in Nat, readusbYields
  <2>. QED  BY <1>17, <2>1, <2>2
<1>24. Yields(Join(p1, p2), 0, rest, g1 + 0)  BY ONLY <1>19, <1>20, <1>21, g1 \in Nat, YieldsJoin
<1>25. PICK g2 \in Nat : g2 = g1 + 0 /\ Yields(Join(p1, p2), 0, rest, g2)  BY <1>24
<1>26. Yields(Join(Join(p1, p2), p3), 0, left, g2 + g3)
  BY ONLY <1>22, <1>25, g2 \in Nat, g3 \in Nat, YieldsJoin
<1>27. PICK g4 \in Nat : g4 = g2 + g3 /\ Yields(Join(Join(p1, p2), p3), 0, left, g4)  BY <1>26
<1>28. Yields(Join(Join(Join(p1, p2), p3), p4), 0, 0, g4 + left)
  BY ONLY <1>23, <1>27, g4 \in Nat, left \in Nat, YieldsJoin
<1>29. PICK g \in Nat \ {0} : g = g4 + left
  <2>1. g4 + left = g2 + rest /\ g2 + rest > 0  BY <1>22, <1>27
  <2>. QED  BY <2>1
<1>. QED  BY <1>18, <1>28, <1>29

\* A cable between two calls: nothing is still to be read.
IsQuiet(c) == IsJtag(c) /\ Silent(c) /\ Due(c) = 0

\* Calls that do not read.
QuietCalls == {q \in CallSet : q.do # "txrx_block"}

\* What Silent and Due depend on.
LEMMA SilentSame ==
  ASSUME NEW c, NEW d, Silent(c), IsCable(d), d.chain = c.chain, d.fifo = c.fifo,
         d.usbuf = c.usbuf, d.rbuf \in HighBytes
  PROVE  Silent(d) /\ Due(d) = Due(c)
BY DEF Silent, Due

\* A call that does not read leaves it so.
LEMMA IoQuiet ==
  ASSUME NEW c, NEW q \in QuietCalls, IsQuiet(c)
  PROVE  IsQuiet(Io(c, q))
<1>1. PICK isTms \in BOOLEAN : isTms = (q.do = "set_tms")  OBVIOUS
<1>2. PICK flushed \in BOOLEAN :
        flushed = (q.do \in {"flush_tms", "txrx_block"} \/ (isTms /\ Len(c.tms) + 1 > Chunk))
  OBVIOUS
<1>3. PICK p : p = IF flushed THEN tx_tms(c.tms) ELSE <<>>  OBVIOUS
<1>4. PICK b : b = IF q.do = "flush" THEN mpsse_send ELSE <<>>  OBVIOUS
<1>5. q \in CallSet /\ q.do # "txrx_block"  BY DEF QuietCalls
<1>6. Yields(p, 0, 0, 0) /\ Yields(b, 0, 0, 0)
  <2>1. c.tms \in Seq(TmsSet)  BY DEF IsQuiet, IsJtag
  <2>2. 0 \in Nat  OBVIOUS
  <2>3. Yields(tx_tms(c.tms), 0, 0, 0) /\ Yields(mpsse_send, 0, 0, 0)
    BY <2>1, <2>2, QuietIs, QuietYields
  <2>4. Yields(<<>>, 0, 0, 0)  BY YieldsNone
  <2>. QED  BY <1>3, <1>4, <2>3, <2>4
<1>7. Yields(Join(p, b), 0, 0, 0)
  <2>1. 0 \in Nat /\ 0 + 0 = 0  OBVIOUS
  <2>. QED  BY <1>6, <2>1, YieldsJoin
<1>8. PICK r : r = AddAll(c, Join(p, b))  OBVIOUS
<1>9. Silent(r) /\ Due(r) = 0  BY <1>7, <1>8 DEF Yields, IsQuiet
<1>10. PICK d : d = Io(c, q)  OBVIOUS
<1>11. PICK tms : tms = (IF flushed THEN <<>> ELSE r.tms) \o (IF isTms THEN <<q.val>> ELSE <<>>)
  OBVIOUS
<1>12. d = [r EXCEPT !.tms = tms, !.rbuf = r.rbuf]
  BY <1>1, <1>2, <1>3, <1>4, <1>5, <1>8, <1>10, <1>11 DEF Io, Join
<1>13. IsCable(d) /\ d.chain = r.chain /\ d.fifo = r.fifo /\ d.usbuf = r.usbuf /\ d.rbuf = r.rbuf
  BY <1>9, <1>12 DEF Silent, IsCable, Fields
<1>14. r.rbuf \in HighBytes  BY <1>9 DEF Silent
<1>15. Silent(d) /\ Due(d) = 0  BY <1>9, <1>13, <1>14, SilentSame
<1>16. IsJtag(d)  BY <1>5, <1>10, IoMoves DEF IsQuiet
<1>. QED  BY <1>10, <1>15, <1>16 DEF IsQuiet

\* So do several.
LEMMA IoAllQuiet ==
  ASSUME NEW c, IsQuiet(c)
  PROVE  \A calls \in Seq(QuietCalls) : IsQuiet(IoAll(c, calls))
<1> DEFINE P == {calls \in Seq(QuietCalls) : IsQuiet(IoAll(c, calls))}
<1>1. <<>> \in P  BY IoNone, EmptySeq
<1>2. \A q \in Seq(QuietCalls) : \A x \in QuietCalls : q \in P => Append(q, x) \in P
  <2> SUFFICES ASSUME NEW q \in Seq(QuietCalls), NEW x \in QuietCalls, q \in P
               PROVE  Append(q, x) \in P
    OBVIOUS
  <2>1. Append(q, x) \in Seq(QuietCalls)  BY AppendProperties
  <2>2. IoAll(c, Append(q, x)) = Io(IoAll(c, q), x)  BY IoAppend
  <2>3. IsQuiet(IoAll(c, q))  OBVIOUS
  <2>4. IsQuiet(Io(IoAll(c, q), x))  BY ONLY <2>3, x \in QuietCalls, IoQuiet
  <2>. QED  BY <2>1, <2>2, <2>4
<1> HIDE DEF P
<1>3. \A q \in Seq(QuietCalls) : q \in P  BY <1>1, <1>2, SeqInduction
<1>. QED  BY <1>3 DEF P

\* Before the calls, what was read before is forgotten.
LEMMA ForgetQuiet == \A c : IsQuiet(c) => IsQuiet([c EXCEPT !.rbuf = <<>>])
<1> SUFFICES ASSUME NEW c, IsQuiet(c) PROVE IsQuiet([c EXCEPT !.rbuf = <<>>])  OBVIOUS
<1>1. PICK d : d = [c EXCEPT !.rbuf = <<>>]  OBVIOUS
<1>2. /\ IsCable(d) /\ d.chain = c.chain /\ d.fifo = c.fifo /\ d.usbuf = c.usbuf /\ d.rbuf = <<>>
      /\ Chain(d) = Chain(c) /\ d.tms = c.tms /\ d.bptr = c.bptr
  BY <1>1 DEF IsQuiet, Silent, IsCable, Fields, Chain
<1>3. d.rbuf \in HighBytes  BY <1>2, EmptySeq DEF HighBytes
<1>4. Silent(d) /\ Due(d) = 0  BY <1>2, <1>3, SilentSame DEF IsQuiet
<1>5. IsJtag(d)  BY <1>2, SameCable DEF IsQuiet
<1>. QED  BY <1>1, <1>4, <1>5 DEF IsQuiet

\* A sequence of such calls, whatever the shadow is after it.
LEMMA PerformQuiet ==
  ASSUME NEW c, IsQuiet(c), NEW calls \in Seq(QuietCalls), NEW state
  PROVE  IsQuiet(Perform(c, calls, state))
<1>1. PICK b : b = [c EXCEPT !.rbuf = <<>>]  OBVIOUS
<1>2. PICK r : r = IoAll(b, calls)  OBVIOUS
<1>3. IsQuiet(r)  BY <1>1, <1>2, ForgetQuiet, IoAllQuiet
<1>4. PICK d : d = [r EXCEPT !.state = state]  OBVIOUS
<1>5. /\ IsCable(d) /\ d.chain = r.chain /\ d.fifo = r.fifo /\ d.usbuf = r.usbuf /\ d.rbuf = r.rbuf
      /\ Chain(d) = Chain(r) /\ d.tms = r.tms /\ d.bptr = r.bptr
  BY <1>3, <1>4 DEF IsQuiet, Silent, IsCable, Fields, Chain
<1>6. r.rbuf \in HighBytes  BY <1>3 DEF IsQuiet, Silent
<1>7. Silent(d) /\ Due(d) = 0  BY <1>3, <1>5, <1>6, SilentSame DEF IsQuiet
<1>8. IsJtag(d)  BY <1>3, <1>5, SameCable DEF IsQuiet
<1>9. Perform(c, calls, state) = d  BY <1>1, <1>2, <1>4 DEF Perform
<1>. QED  BY <1>7, <1>8, <1>9 DEF IsQuiet

\* A block of whole bytes that is read: there are bytes, all of ones.
LEMMA PerformReads ==
  ASSUME NEW c, IsQuiet(c), NEW size \in Nat \ {0}, NEW tdi \in Seq(BitSet),
         Len(tdi) = size * ByteBits, NEW state
  PROVE  LET d == Perform(c, shiftTDITDO(tdi, TRUE, FALSE), state)
         IN  d.rbuf \in HighBytes /\ Len(d.rbuf) \in Nat \ {0}
<1>1. PICK b : b = [c EXCEPT !.rbuf = <<>>]  OBVIOUS
<1>2. IsQuiet(b) /\ b.rbuf = <<>>
  <2>1. b.rbuf = <<>>  BY <1>1 DEF IsQuiet, Silent, IsCable, Fields
  <2>. QED  BY <1>1, <2>1, ForgetQuiet
<1>3. PICK bits \in Nat \ {0} : bits = ByteBits  BY JtagAssumption
<1>4. tdi # <<>>
  <2>1. PICK j \in Nat : size = j + 1  OBVIOUS
  <2>2. PICK i \in Nat : i = j * bits /\ size * bits = i + bits  BY <2>1
  <2>3. size * bits # 0  BY <2>2
  <2>. QED  BY <1>3, <2>3, EmptySeq
<1>5. PICK q : q = [do |-> "txrx_block", tdi |-> tdi, tdo |-> TRUE, last |-> FALSE]  OBVIOUS
<1>6. shiftTDITDO(tdi, TRUE, FALSE) = <<q>>  BY <1>4, <1>5 DEF shiftTDITDO
<1>7. q \in CallSet  BY <1>4, <1>5 DEF CallSet
<1>8. IoAll(b, <<q>>) = Io(b, q)
  <2>1. <<q>> = Append(<<>>, q) /\ <<>> \in Seq(CallSet)  BY EmptySeq
  <2>2. IoAll(b, Append(<<>>, q)) = Io(IoAll(b, <<>>), q)  BY <1>7, <2>1, IoAppend
  <2>. QED  BY <2>1, <2>2, IoNone
<1>9. PICK g \in Nat \ {0} : Yields(txrx_block(tdi, TRUE, FALSE), 0, 0, g)
  BY ONLY size \in Nat \ {0}, tdi \in Seq(BitSet), Len(tdi) = size * ByteBits, BlockYields
<1>10. PICK p : p = tx_tms(b.tms)  OBVIOUS
<1>11. Yields(p, 0, 0, 0)
  <2>1. b.tms \in Seq(TmsSet) /\ 0 \in Nat  BY <1>2 DEF IsQuiet, IsJtag
  <2>. QED  BY <1>10, <2>1, QuietIs, QuietYields
<1>12. PICK block : block = txrx_block(tdi, TRUE, FALSE)  OBVIOUS
<1>13. Yields(Join(p, block), 0, 0, 0 + g)
  <2>1. 0 \in Nat  OBVIOUS
  <2>. QED  BY ONLY <1>9, <1>11, <1>12, <2>1, g \in Nat \ {0}, YieldsJoin
<1>14. PICK r : r = AddAll(b, Join(p, block))  OBVIOUS
<1>15. Silent(r) /\ Len(r.rbuf) = Len(b.rbuf) + (0 + g)
  BY <1>2, <1>13, <1>14 DEF Yields, IsQuiet
<1>16. Io(b, q) = [r EXCEPT !.tms = <<>> \o <<>>, !.rbuf = Assemble(r.rbuf, Rem(tdi, FALSE) % ByteBits, FALSE)]
  <2>1. q.do = "txrx_block" /\ q.tdi = tdi /\ q.tdo = TRUE /\ q.last = FALSE  BY <1>5
  <2>. QED  BY <1>10, <1>12, <1>14, <2>1 DEF Io, Join
<1>17. Assemble(r.rbuf, Rem(tdi, FALSE) % ByteBits, FALSE) = r.rbuf
  <2>1. PICK o \in Nat : o = 0 /\ o < bits  OBVIOUS
  <2>2. (size * bits + o) % bits = o
    BY ONLY <2>1, size \in Nat \ {0}, o \in Nat, bits \in Nat \ {0}, DivUnique
  <2>3. PICK n \in Nat : n = size * bits /\ n + o = n /\ n - 0 = n  BY <2>1
  <2>4. Rem(tdi, FALSE) = n  BY <1>3, <2>3 DEF Rem
  <2>5. Rem(tdi, FALSE) % ByteBits = 0  BY ONLY <1>3, <2>1, <2>2, <2>3, <2>4
  <2>. QED  BY <2>5 DEF Assemble
<1>18. PICK d : d = Perform(c, shiftTDITDO(tdi, TRUE, FALSE), state)  OBVIOUS
<1>19. d = [[r EXCEPT !.tms = <<>> \o <<>>, !.rbuf = r.rbuf] EXCEPT !.state = state]
  BY ONLY <1>1, <1>6, <1>8, <1>16, <1>17, <1>18 DEF Perform
<1>20. d.rbuf = r.rbuf  BY <1>15, <1>19 DEF Silent, IsCable, Fields
<1>21. r.rbuf \in HighBytes  BY <1>15 DEF Silent
<1>22. Len(r.rbuf) = g
  <2>1. Len(b.rbuf) = 0  BY <1>2, EmptySeq
  <2>2. 0 + (0 + g) = g  OBVIOUS
  <2>. QED  BY ONLY <1>15, <2>1, <2>2
<1>. QED  BY <1>18, <1>20, <1>21, <1>22

\* They are nothing but ones.
LEMMA AllOnes ==
  ASSUME NEW q \in HighBytes, Len(q) \in Nat \ {0}
  PROVE  ToSet(FlattenSeq(q)) = {High}
<1>1. PICK S : S = {High}  OBVIOUS
<1>2. PICK T : T = {HighByte}  OBVIOUS
<1>3. HighByte \in Seq(S) /\ Len(HighByte) \in Nat \ {0}  BY <1>1, HighByteIs
<1>4. q \in Seq(T)  BY <1>2 DEF HighBytes
<1>5. T \subseteq Seq(S)  BY <1>2, <1>3
<1>6. q \in Seq(Seq(S))  BY ONLY <1>4, <1>5, SeqMonotonic
<1>7. PICK f \in Seq(S) : f = FlattenSeq(q)  BY ONLY <1>6, FlattenInSeq
<1>8. Len(f) # 0
  <2> DEFINE P == {x \in Seq(T) : Len(x) # 0 => Len(FlattenSeq(x)) # 0}
  <2>1. <<>> \in P  BY EmptySeq
  <2>2. \A x \in Seq(T) : \A y \in T : x \in P => Append(x, y) \in P
    <3> SUFFICES ASSUME NEW x \in Seq(T), NEW y \in T
                 PROVE  Append(x, y) \in Seq(T) /\ Len(FlattenSeq(Append(x, y))) # 0
      OBVIOUS
    <3>1. x \in Seq(Seq(S)) /\ y \in Seq(S) /\ Len(y) \in Nat \ {0}
      <4>1. x \in Seq(Seq(S))  BY ONLY x \in Seq(T), <1>5, SeqMonotonic
      <4>. QED  BY <1>2, <1>3, <4>1
    <3>2. FlattenSeq(Append(x, y)) = FlattenSeq(x) \o y  BY ONLY <3>1, FlattenAppend
    <3>3. PICK h \in Seq(S) : h = FlattenSeq(x)  BY ONLY <3>1, FlattenInSeq
    <3>4. Len(h \o y) = Len(h) + Len(y) /\ Len(h) \in Nat
      BY <3>1, ConcatProperties, LenProperties
    <3>5. Append(x, y) \in Seq(T)  BY AppendProperties
    <3>. QED  BY <3>1, <3>2, <3>3, <3>4, <3>5
  <2> HIDE DEF P
  <2>3. \A x \in Seq(T) : x \in P  BY <2>1, <2>2, SeqInduction
  <2>4. q \in P  BY <1>4, <2>3
  <2>. QED  BY <1>7, <2>4 DEF P
<1>9. PICK l \in Nat \ {0} : l = Len(f)  BY <1>8, LenProperties
<1>10. \A i \in 1 .. l : f[i] = High  BY <1>1, <1>9, ElementOfSeq
<1>11. DOMAIN f = 1 .. l  BY <1>9, LenProperties
<1>12. 1 \in 1 .. l  OBVIOUS
<1>13. {f[i] : i \in DOMAIN f} = {High}  BY <1>10, <1>11, <1>12
<1>14. ToSet(f) = {f[i] : i \in DOMAIN f}  BY DEF ToSet
<1>. QED  BY <1>7, <1>13, <1>14

\* What the calls before the first read consist of.
LEMMA StartIsQuiet ==
  tapTestLogicReset \o setTapState("TEST_LOGIC_RESET", "SHIFT_DR") \in Seq(QuietCalls)
<1>1. TmsCallSet \subseteq QuietCalls  BY TmsIs DEF TmsCallSet, Tms, CallSet, QuietCalls
<1>2. flush_tms \in Seq(QuietCalls) /\ flush \in Seq(QuietCalls)
  <2>1. PICK x \in QuietCalls : x = [do |-> "flush_tms"]  BY DEF CallSet, QuietCalls
  <2>2. PICK y \in QuietCalls : y = [do |-> "flush"]  BY DEF CallSet, QuietCalls
  <2>3. <<x>> \in Seq(QuietCalls) /\ <<y>> \in Seq(QuietCalls)  OBVIOUS
  <2>. QED  BY <2>1, <2>2, <2>3 DEF flush_tms, flush
<1>3. Repeat(Tms(1), 5) \in Seq(QuietCalls)
  <2>1. Tms(1) \in QuietCalls  BY <1>1 DEF TmsCallSet
  <2>2. PICK f : f = [i \in 1 .. 5 |-> Tms(1)]  OBVIOUS
  <2>3. f \in [1 .. 5 -> QuietCalls] /\ 5 \in Nat  BY <2>1, <2>2
  <2>4. f \in Seq(QuietCalls)  BY ONLY <2>3, FunctionIsSeq
  <2>. QED  BY <2>2, <2>4 DEF Repeat
<1>4. setTapState("TEST_LOGIC_RESET", "SHIFT_DR") \in Seq(QuietCalls)
  <2>1. setTapState("TEST_LOGIC_RESET", "SHIFT_DR") \in Seq(TmsCallSet)
    BY ResetToShiftDR DEF Leads
  <2>. QED  BY ONLY <1>1, <2>1, SeqMonotonic
<1>. QED  BY <1>2, <1>3, <1>4, ConcatProperties DEF tapTestLogicReset

\* If the first IDCODE has only equal bits, no device is found.
LEMMA getChainNone ==
  ASSUME NEW c, NEW start, NEW calls,
         start = Perform(c, tapTestLogicReset \o setTapState("TEST_LOGIC_RESET", "SHIFT_DR"),
                         "SHIFT_DR"),
         calls = shiftTDITDO(Repeat(Low, IdBytes * ByteBits), TRUE, FALSE),
         ToSet(FlattenSeq(Perform(start, calls, "SHIFT_DR").rbuf)) \in {{Low}, {High}}
  PROVE  Len(getChain(c).devices) = 0
<1>1. PICK max \in Nat \ {0} : max = MaxDevices  BY JtagAssumption
<1>2. PICK read : /\ ReadRun(start, calls, read, max)
                  /\ read = CHOOSE f : ReadRun(start, calls, f, max)
  BY ReadRunExists
<1>3. read[1] = Perform(start, calls, "SHIFT_DR")
  <2>1. \A k \in 0 .. max : read[k] = IF k = 0 THEN start ELSE Perform(read[k - 1], calls, "SHIFT_DR")
    BY <1>2 DEF ReadRun
  <2>2. 0 \in 0 .. max /\ 1 \in 0 .. max /\ 1 # 0 /\ 1 - 1 = 0  OBVIOUS
  <2>3. read[0] = start  BY <2>1, <2>2
  <2>4. read[1] = Perform(read[1 - 1], calls, "SHIFT_DR")  BY <2>1, <2>2
  <2>. QED  BY <2>2, <2>3, <2>4
<1> DEFINE IsDevice(k) == ToSet(FlattenSeq(read[k].rbuf)) \notin {{Low}, {High}}
           First(k) == /\ k = max \/ ~IsDevice(k)
                       /\ \A j \in 1 .. k - 1 : IsDevice(j)
<1>4. ~IsDevice(1)  BY <1>3
<1>5. PICK n : n = CHOOSE k \in 1 .. max : First(k)  OBVIOUS
<1>6. n = 1
  <2> HIDE DEF IsDevice
  <2>1. First(1) /\ 1 \in 1 .. max  BY <1>4
  <2>2. \A k \in 1 .. max : First(k) => k = 1
    <3> SUFFICES ASSUME NEW k \in 1 .. max, First(k), k # 1 PROVE FALSE  OBVIOUS
    <3>1. 1 \in 1 .. k - 1  OBVIOUS
    <3>. QED  BY <1>4, <3>1
  <2> HIDE DEF First
  <2>. QED  BY <1>5, <2>1, <2>2
<1>7. getChain(c).devices = [d \in 1 .. 0 |-> FlattenSeq(read[1 - d].rbuf)]
  <2> DEFINE start0 == Perform(c, tapTestLogicReset \o setTapState("TEST_LOGIC_RESET", "SHIFT_DR"),
                               "SHIFT_DR")
             calls0 == shiftTDITDO(Repeat(Low, IdBytes * ByteBits), TRUE, FALSE)
             read0 == CHOOSE f : ReadRun(start0, calls0, f, MaxDevices)
             IsDevice0(k) == ToSet(FlattenSeq(read0[k].rbuf)) \notin {{Low}, {High}}
             First0(k) == /\ k = MaxDevices \/ ~IsDevice0(k)
                          /\ \A j \in 1 .. k - 1 : IsDevice0(j)
             n0 == CHOOSE k \in 1 .. MaxDevices : First0(k)
             found0 == IF IsDevice0(n0) THEN n0 ELSE n0 - 1
  <2>1. getChain(c).devices = [d \in 1 .. found0 |-> FlattenSeq(read0[found0 + 1 - d].rbuf)]
    BY ONLY ZenonT(100) DEF getChain, ReadRun
  <2>2. read = read0
    <3>1. start = start0 /\ calls = calls0  OBVIOUS
    <3> HIDE DEF start0, calls0
    <3>. QED  BY <1>1, <1>2, <3>1
  <2> HIDE DEF read0
  <2>3. \A k : IsDevice(k) <=> IsDevice0(k)  BY <2>2
  <2> HIDE DEF IsDevice, IsDevice0
  <2>4. n0 = 1
    <3>1. \A k : First(k) <=> First0(k)  BY <1>1, <2>3
    <3>2. n0 = CHOOSE k \in 1 .. max : First0(k)  BY <1>1
    <3> HIDE DEF First, First0
    <3>. QED  BY ONLY <1>5, <1>6, <3>1, <3>2
  <2> HIDE DEF n0
  <2>5. found0 = 0  BY <1>4, <2>3, <2>4
  <2> HIDE DEF found0
  <2>6. [d \in 1 .. found0 |-> FlattenSeq(read0[found0 + 1 - d].rbuf)]
          = [d \in 1 .. 0 |-> FlattenSeq(read[1 - d].rbuf)]
    <3>1. 1 .. 0 = {}  OBVIOUS
    <3>. QED  BY ONLY <2>5, <3>1
  <2>. QED  BY <2>1, <2>6
<1>8. [d \in 1 .. 0 |-> FlattenSeq(read[1 - d].rbuf)] = <<>>  OBVIOUS
<1>. QED  BY ONLY <1>7, <1>8, EmptySeq

\* The constructor finds no device where there is none.
LEMMA NoneIsFound ==
  ASSUME NEW c, IsNew(c), c.chain = 0
  PROVE  Len(getChain(c).devices) = 0
<1>1. PICK first \in Seq(QuietCalls) :
        first = tapTestLogicReset \o setTapState("TEST_LOGIC_RESET", "SHIFT_DR")
  BY StartIsQuiet
<1>2. PICK start : start = Perform(c, first, "SHIFT_DR")  OBVIOUS
<1>3. IsQuiet(c)
  <2>1. IsJtag(c) /\ IsCable(c) /\ c.usbuf = <<>> /\ c.fifo = <<>> /\ c.rbuf = <<>>
    BY DEF IsNew, IsJtag, IsBuffered
  <2>2. <<>> \in HighBytes /\ <<>> \in ByteCommandSeqs /\ Reads(<<>>) = 0 /\ Len(<<>>) = 0
    BY EmptySeq, ReadsLaws DEF HighBytes, ByteCommandSeqs
  <2>3. Silent(c)  BY <2>1, <2>2 DEF Silent
  <2>4. Due(c) = 0  BY <2>1, <2>2 DEF Due
  <2>. QED  BY <2>1, <2>3, <2>4 DEF IsQuiet
<1>4. IsQuiet(start)  BY <1>2, <1>3, PerformQuiet
<1>5. PICK size \in Nat \ {0} : size = IdBytes  BY JtagAssumption
<1>6. PICK zeros \in Seq(BitSet) :
        zeros = Repeat(Low, IdBytes * ByteBits) /\ Len(zeros) = size * ByteBits
  <2>1. size * ByteBits \in Nat
    <3>1. PICK y \in Nat : y = ByteBits  BY JtagAssumption
    <3>2. size * y \in Nat  OBVIOUS
    <3>. QED  BY <3>1, <3>2
  <2>. QED  BY <1>5, <2>1, RepeatInSeq, LevelsAreBits
<1>7. PICK calls : calls = shiftTDITDO(zeros, TRUE, FALSE)  OBVIOUS
<1>8. PICK d : d = Perform(start, calls, "SHIFT_DR")  OBVIOUS
<1>9. d.rbuf \in HighBytes /\ Len(d.rbuf) \in Nat \ {0}
  BY ONLY <1>4, <1>6, <1>7, <1>8, size \in Nat \ {0}, zeros \in Seq(BitSet), PerformReads
<1>10. ToSet(FlattenSeq(d.rbuf)) = {High}  BY ONLY <1>9, AllOnes
<1>. QED  BY <1>1, <1>2, <1>6, <1>7, <1>8, <1>10, getChainNone

-----------------------------------------------------------------------------
(* The invariant. *)

\* As long as no data of length 0 were shifted, the chain is where the software
\* believes; whatever is called, the buffers hold commands of their kinds, and
\* there is a device.
IInv ==
  /\ IsJtag(s) /\ s.chain \in Nat /\ phase \in {"closed", "ready"} /\ issued \in Words
  /\ phase = "closed" => issued = <<>> /\ empty = FALSE
  /\ phase = "closed" /\ call = "none" => IsNew(s)
  /\ phase = "ready" =>
       /\ s.chain > 0
       /\ s.state \in {"TEST_LOGIC_RESET", "RUN_TEST_IDLE"}
       /\ s.state = "TEST_LOGIC_RESET" => issued = <<>>
  /\ phase = "ready" /\ ~empty => Settled(s, issued)
  /\ call = "Usleep" => Waiting(s) = <<>>

\* The words of the calls.
LEMMA WordsAre ==
  \A n, length \in Nat : /\ Bits("word", n, length) \in Seq(BitSet)
                         /\ Len(Bits("word", n, length)) = length
<1> SUFFICES ASSUME NEW n \in Nat, NEW length \in Nat
             PROVE  /\ Bits("word", n, length) \in Seq(BitSet)
                    /\ Len(Bits("word", n, length)) = length
  OBVIOUS
<1>1. PICK r : r = [i \in 1 .. length |-> <<"word", n, i>>]  OBVIOUS
<1>2. r \in [1 .. length -> BitSet]  BY <1>1 DEF BitSet
<1>3. r \in Seq(BitSet) /\ Len(r) = length  BY ONLY <1>2, length \in Nat, FunctionIsSeq
<1>. QED  BY <1>1, <1>3 DEF Bits

\* A new Jtag object (Fresh).
LEMMA FreshIsNew ==
  \A tap \in TapStates : \A level, chain :
    IsNew(Fresh(tap, level, chain)) /\ Fresh(tap, level, chain).chain = chain
<1> SUFFICES ASSUME NEW tap \in TapStates, NEW level, NEW chain
             PROVE  IsNew(Fresh(tap, level, chain)) /\ Fresh(tap, level, chain).chain = chain
  OBVIOUS
<1>1. PICK c : c = Fresh(tap, level, chain)  OBVIOUS
<1>2. /\ IsCable(c) /\ c.tms = <<>> /\ c.usbuf = <<>> /\ c.bptr = 0 /\ c.tap = tap
      /\ c.fifo = <<>> /\ c.rbuf = <<>>
  BY <1>1 DEF Fresh, IsCable, Fields
<1>3. 0 \in 0 .. TxBuf - 1  BY JtagAssumption
<1>4. <<>> \in CommandSeqs /\ <<>> \in Seq(TmsSet) /\ Len(<<>>) = 0
  BY EmptySeq DEF CommandSeqs
<1>5. 0 <= Chunk  BY JtagAssumption
<1>6. IsJtag(c)  BY <1>2, <1>3, <1>4, <1>5 DEF IsJtag, IsBuffered
<1>7. Waiting(c) = <<>>
  <2>1. Clocks(<<>>) = <<>> /\ TmsClocks(<<>>) = <<>>
    BY JoinedNone, TmsClocksLaws DEF Clocks
  <2>2. Join(<<>>, <<>>) = <<>>  BY JoinLaws
  <2>. QED  BY ONLY <1>2, <2>1, <2>2 DEF Waiting
<1>8. c.chain = chain  BY <1>1 DEF Fresh
<1>. QED  BY <1>1, <1>2, <1>6, <1>7, <1>8 DEF IsNew

\* The invariant holds initially.
LEMMA InitIInv == Init => IInv
<1> SUFFICES ASSUME Init PROVE IInv  OBVIOUS
<1>1. IsNew(s) /\ s.chain \in Nat
  <2>1. PICK tap \in TapStates, level \in {0, 1}, chain \in 0 .. 2 : s = Fresh(tap, level, chain)
    BY DEF Init
  <2>. QED  BY <2>1, FreshIsNew
<1>2. phase = "closed" /\ call = "none" /\ issued = <<>> /\ empty = FALSE  BY DEF Init
<1>3. <<>> \in Words  BY EmptySeq DEF Words
<1>. QED  BY <1>1, <1>2, <1>3 DEF IInv, IsNew

\* Construct keeps it: getChain leaves a reset chain.
LEMMA ConstructIInv == IInv /\ Construct => IInv'
<1> SUFFICES ASSUME IInv, Construct PROVE IInv'  OBVIOUS
<1>1. IsNew(s) /\ s.chain \in Nat /\ issued = <<>> /\ phase = "closed" /\ empty = FALSE
  BY DEF IInv, Construct
<1>2. PICK d : d = getChain(s).io  OBVIOUS
<1>3. Settled(d, <<>>) /\ d.state = "TEST_LOGIC_RESET" /\ d.chain = s.chain
  BY <1>1, <1>2, getChainSettles
<1>4. s' = d /\ issued' = issued /\ empty' = empty
      /\ \/ phase' = "ready" /\ call' = "getChain"
         \/ phase' = phase /\ call' = "refused"
  BY <1>2 DEF Construct
<1>5. IsJtag(d)  BY <1>3 DEF Settled
<1>6. <<>> \in Words  BY EmptySeq DEF Words
<1>7. phase' = "ready" => s.chain > 0
  <2> SUFFICES ASSUME phase' = "ready", s.chain = 0 PROVE FALSE  BY <1>1
  <2>1. Len(getChain(s).devices) = 1  BY <1>1 DEF Construct
  <2>2. Len(getChain(s).devices) = 0  BY <1>1, NoneIsFound
  <2>. QED  BY <2>1, <2>2
<1>. QED  BY <1>1, <1>3, <1>4, <1>5, <1>6, <1>7 DEF IInv

\* The scans keep it, what is shifted as well as nothing.
LEMMA ScanIInv ==
  ASSUME IInv, phase = "ready", NEW register \in {"SHIFT_IR", "SHIFT_DR"},
         NEW tdi \in Seq(BitSet), NEW tdo \in BOOLEAN,
         register = "SHIFT_IR" => Len(tdi) = IrLen, register = "SHIFT_DR" => issued # <<>>,
         s' = Scan(s, register, tdi, tdo), issued' = Append(issued, tdi), phase' = phase,
         ~empty' => ~empty /\ tdi # <<>>, call' # "Usleep"
  PROVE  IInv'
<1>1. /\ IsJtag(s) /\ s.state \in {"TEST_LOGIC_RESET", "RUN_TEST_IDLE"} /\ issued \in Words
      /\ s.chain \in Nat /\ s.chain > 0
  BY DEF IInv
<1>2. PICK d : d = Scan(s, register, tdi, tdo)  OBVIOUS
<1>3. IsJtag(d) /\ d.state = "RUN_TEST_IDLE" /\ d.chain = s.chain
  BY ONLY <1>1, <1>2, register \in {"SHIFT_IR", "SHIFT_DR"}, tdi \in Seq(BitSet), tdo \in BOOLEAN,
    ScanMoves
<1>4. Append(issued, tdi) \in Words
  BY ONLY <1>1, tdi \in Seq(BitSet), BeginningsGrow
<1>5. ASSUME ~empty, tdi # <<>> PROVE Settled(d, Append(issued, tdi))
  <2>1. Settled(s, issued)  BY <1>5 DEF IInv
  <2>2. register = "SHIFT_DR" => s.state = "RUN_TEST_IDLE"  BY <1>1 DEF IInv
  <2>. QED  BY ONLY <1>1, <1>2, <1>5, <2>1, <2>2, register \in {"SHIFT_IR", "SHIFT_DR"},
    tdi \in Seq(BitSet), tdo \in BOOLEAN, register = "SHIFT_IR" => Len(tdi) = IrLen, ScanSettles
<1>6. s' = d  BY <1>2
<1>. QED  BY <1>1, <1>3, <1>4, <1>5, <1>6 DEF IInv

\* shiftIR is a scan of the instruction register.
LEMMA shiftIRIInv == ASSUME IInv, NEW tdo \in BOOLEAN, shiftIR(tdo) PROVE IInv'
<1>1. issued \in Words /\ phase = "ready"  BY DEF IInv, shiftIR, Calling
<1>2. Len(issued) + 1 \in Nat
  <2>1. Len(issued) \in Nat  BY <1>1, LenProperties DEF Words
  <2>. QED  BY <2>1
<1>3. IrLen \in Nat \ {0}  BY JtagAssumption
<1>4. PICK tdi \in Seq(BitSet) : tdi = Bits("word", Len(issued) + 1, IrLen) /\ Len(tdi) = IrLen
  BY <1>2, <1>3, WordsAre
<1>5. tdi # <<>>  BY <1>3, <1>4, EmptySeq
<1>6. s' = Scan(s, "SHIFT_IR", tdi, tdo) /\ issued' = Append(issued, tdi)
      /\ phase' = phase /\ empty' = empty /\ call' # "Usleep"
  BY <1>4 DEF shiftIR, Calling
<1>7. ~empty' => ~empty /\ tdi # <<>>  BY <1>5, <1>6
<1>. QED  BY ONLY IInv, <1>1, <1>4, <1>6, <1>7, tdo \in BOOLEAN, ScanIInv

\* shiftDR is one of a data register.
LEMMA shiftDRIInv == ASSUME IInv, NEW length \in DrLengths, shiftDR(length) PROVE IInv'
<1>1. issued \in Words /\ phase = "ready"  BY DEF IInv, shiftDR, Calling
<1>2. Len(issued) + 1 \in Nat /\ issued # <<>>
  <2>1. Len(issued) \in Nat /\ Len(issued) > 0  BY <1>1, LenProperties DEF Words, shiftDR
  <2>. QED  BY <2>1, EmptySeq
<1>3. length \in Nat  BY JtagAssumption
<1>4. PICK tdi \in Seq(BitSet) : tdi = Bits("word", Len(issued) + 1, length) /\ Len(tdi) = length
  BY <1>2, <1>3, WordsAre
<1>5. tdi = <<>> <=> length = 0  BY <1>4, EmptySeq
<1>6. s' = Scan(s, "SHIFT_DR", tdi, FALSE) /\ issued' = Append(issued, tdi)
      /\ phase' = phase /\ empty' = (empty \/ length = 0) /\ call' # "Usleep"
  BY <1>4 DEF shiftDR, Calling
<1>7. ~empty' => ~empty /\ tdi # <<>>  BY <1>5, <1>6
<1>. QED  BY ONLY IInv, <1>1, <1>2, <1>4, <1>6, <1>7, ScanIInv

\* cycleTCK keeps TMS.
LEMMA cycleTCKIInv == ASSUME IInv, NEW n \in Cycles, cycleTCK(n) PROVE IInv'
<1>1. n \in Nat \ {0}  BY JtagAssumption
<1>2. PICK calls : calls = shift(High, n, FALSE)  OBVIOUS
<1>3. IsData(calls)  BY <1>1, <1>2, shiftIs, LevelsAreBits
<1>4. PICK d : d = Perform(s, calls, s.state)  OBVIOUS
<1>5. s' = d /\ issued' = issued /\ empty' = empty /\ phase' = phase /\ phase = "ready"
      /\ call' = "cycleTCK"
  BY <1>2, <1>4 DEF cycleTCK, Calling
<1>6. IsJtag(d) /\ d.state = s.state /\ d.chain = s.chain
  <2>1. calls \in CallSeqs /\ IsJtag(s)  BY <1>3 DEF IsData, IInv
  <2>. QED  BY ONLY <1>4, <2>1, PerformLeads
<1>7. ~empty => Settled(d, issued)
  <2>1. issued \in Words /\ (~empty => Settled(s, issued))  BY <1>5 DEF IInv
  <2>. QED  BY ONLY <1>3, <1>4, <2>1, DataSettles
<1>. QED  BY <1>5, <1>6, <1>7 DEF IInv

\* After Usleep nothing waits.
LEMMA UsleepIInv == IInv /\ Usleep => IInv'
<1> SUFFICES ASSUME IInv, Usleep PROVE IInv'  OBVIOUS
<1>1. PICK d : d = Perform(s, flush_tms \o flush, s.state)  OBVIOUS
<1>2. s' = d /\ issued' = issued /\ empty' = empty /\ phase' = phase /\ phase = "ready"
      /\ call' = "Usleep"
  BY <1>1 DEF Usleep, Calling
<1>3. IsJtag(d) /\ d.state = s.state /\ Waiting(d) = <<>>
  <2>1. IsJtag(s)  BY DEF IInv
  <2>. QED  BY ONLY <1>1, <2>1, DrainMoves
<1>4. ~empty => Settled(d, issued)
  <2>1. issued \in Words /\ (~empty => Settled(s, issued))  BY <1>2 DEF IInv
  <2>. QED  BY ONLY <1>1, <2>1, DrainSettles
<1>5. d.chain = s.chain
  <2>1. PICK calls \in CallSeqs : calls = flush_tms \o flush
    BY flush_tmsIs, CallsJoin DEF Join
  <2>2. IsJtag(s)  BY DEF IInv
  <2>. QED  BY ONLY <1>1, <2>1, <2>2, calls \in CallSeqs, PerformLeads
<1>. QED  BY <1>2, <1>3, <1>4, <1>5 DEF IInv

\* Destroy leaves the next object a chain somewhere, and empty buffers.
LEMMA DestroyIInv == IInv /\ Destroy => IInv'
<1> SUFFICES ASSUME IInv, Destroy PROVE IInv'  OBVIOUS
<1>1. PICK tap \in TapStates, level \in {0, 1} : s' = Fresh(tap, level, s.chain)  BY DEF Destroy
<1>2. IsNew(s') /\ s'.chain = s.chain  BY <1>1, FreshIsNew
<1>3. phase' = "closed" /\ call' = "none" /\ issued' = <<>> /\ empty' = FALSE  BY DEF Destroy
<1>4. <<>> \in Words  BY EmptySeq DEF Words
<1>. QED  BY <1>2, <1>3, <1>4 DEF IInv, IsNew

\* Every step keeps it.
LEMMA NextIInv == IInv /\ [Next]_vars => IInv'
<1> SUFFICES ASSUME IInv, [Next]_vars PROVE IInv'  OBVIOUS
<1>1. CASE Construct  BY <1>1, ConstructIInv
<1>2. CASE Usleep  BY <1>2, UsleepIInv
<1>3. CASE Destroy  BY <1>3, DestroyIInv
<1>4. ASSUME NEW tdo \in BOOLEAN, shiftIR(tdo) PROVE IInv'  BY <1>4, shiftIRIInv
<1>5. ASSUME NEW length \in DrLengths, shiftDR(length) PROVE IInv'  BY <1>5, shiftDRIInv
<1>6. ASSUME NEW n \in Cycles, cycleTCK(n) PROVE IInv'  BY <1>6, cycleTCKIInv
<1>7. CASE UNCHANGED vars  BY <1>7 DEF vars, IInv
<1>. QED  BY <1>1, <1>2, <1>3, <1>4, <1>5, <1>6, <1>7 DEF Next

\* It holds always.
LEMMA Invariant == Spec => []IInv
<1>. QED  BY InitIInv, NextIInv, PTL DEF Spec

-----------------------------------------------------------------------------
(* Theorems. *)

\* What the buffers hold brings the TAP to the state the Jtag object believes,
\* for any sizes of the buffers, whatever was called before (setTapState,
\* current_state of jtag.cpp), unless data of length 0 was shifted.
THEOREM ShadowFollowsTap == Spec => []ShadowAgrees
<1>1. IInv => ShadowAgrees
  <2> SUFFICES ASSUME IInv, phase = "ready", ~empty PROVE Drained.tap = s.state
    BY DEF ShadowAgrees
  <2>1. Settled(s, issued) /\ issued \in Words  BY DEF IInv
  <2>2. Chain(Drained) = Chain(Ideal(s))  BY <2>1, DrainSettles DEF Drained
  <2>3. Drained.tap = Ideal(s).tap  BY ONLY <2>2, SameChain
  <2>4. Ideal(s).tap = s.state  BY <2>1 DEF Settled, At
  <2>. QED  BY <2>3, <2>4
<1>. QED  BY Invariant, <1>1, PTL

\* Every instruction and all data reach the device once, complete and in order,
\* for any sizes of bytes, registers and buffers and any lengths of data, and
\* before the program sleeps all have taken effect; the buffers never overflow
\* (txrx_block, mpsse_add_cmd of ioftdi.cpp, set_tms of iobase.cpp).  There is a
\* device, or the constructor has refused the chain (getChain of jtag.cpp).
THEOREM WordsArriveInOrder == Spec => []ArrivesInOrder
<1>1. IInv => ArrivesInOrder
  <2> SUFFICES ASSUME IInv PROVE ArrivesInOrder  OBVIOUS
  <2>1. s.bptr < TxBuf /\ Len(s.tms) <= Chunk
    <3>1. s.bptr \in 0 .. TxBuf - 1 /\ Len(s.tms) <= Chunk  BY DEF IInv, IsJtag, IsBuffered
    <3>. QED  BY <3>1, JtagAssumption
  <2>2. ASSUME phase = "ready", ~empty
        PROVE  /\ IsPrefix(s.latched, issued) /\ Drained.latched = issued
               /\ call = "Usleep" => s.latched = issued
    <3>1. Settled(s, issued) /\ issued \in Words /\ s.chain > 0  BY <2>2 DEF IInv
    <3>2. Chain(Drained) = Chain(Ideal(s))  BY <3>1, DrainSettles DEF Drained
    <3>3. Drained.latched = Ideal(s).latched  BY ONLY <3>2, SameChain
    <3>4. Ideal(s).latched = issued  BY <3>1 DEF Settled
    <3>5. IsPrefix(s.latched, issued) /\ (Waiting(s) = <<>> => s.latched = issued)
      BY <3>1, SettledLatched
    <3>. QED  BY <3>3, <3>4, <3>5 DEF IInv
  <2>. QED  BY <2>1, <2>2 DEF ArrivesInOrder
<1>. QED  BY Invariant, <1>1, PTL
=============================================================================
