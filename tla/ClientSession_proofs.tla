------------------------- MODULE ClientSession_proofs -------------------------
(***************************************************************************)
(* Proofs about ClientSession, for any serials and any number of calls,    *)
(* time-outs and changes.  What is under way is looked at as one sequence  *)
(* of packets, in which it does not matter how far a packet has come.      *)
(***************************************************************************)
EXTENDS ClientSession, WellFoundedInduction, SequenceTheorems, TLAPS

-----------------------------------------------------------------------------
(* Induction. *)

\* A set of naturals that is not empty has a least element.
LEMMA LeastElement ==
  ASSUME NEW S, S \subseteq Nat, S # {}
  PROVE  \E m \in S : \A k \in S : ~(k < m)
<1> DEFINE R == OpToRel(<, Nat)
<1>1. IsWellFoundedOn(R, Nat)  BY NatLessThanWellFounded
<1>2. \A x, y \in Nat : x < y => <<x, y>> \in R
  BY DEF OpToRel
<1> HIDE DEF R
<1>3. \E x \in S : \A y \in S : ~(<<y, x>> \in R)  BY <1>1, WFMin
<1>. QED  BY <1>2, <1>3

\* A set that has zero and the successors of its elements has all naturals.
LEMMA SetInduction ==
  ASSUME NEW S, 0 \in S, \A n \in Nat : n \in S => n + 1 \in S
  PROVE  \A n \in Nat : n \in S
<1> SUFFICES ASSUME NEW n \in Nat, n \notin S PROVE FALSE  OBVIOUS
<1>1. PICK m \in Nat : m \notin S /\ \A k \in Nat : k \notin S => ~(k < m)
  <2> DEFINE T == {k \in Nat : k \notin S}
  <2>1. T \subseteq Nat /\ T # {}  OBVIOUS
  <2> HIDE DEF T
  <2>2. \E k \in T : \A l \in T : ~(l < k)  BY <2>1, LeastElement
  <2>. QED  BY <2>2 DEF T
<1>2. m # 0  BY <1>1
<1>3. PICK k \in Nat : m = k + 1  BY <1>2
<1>4. k \in S  BY <1>1, <1>3
<1>. QED  BY <1>1, <1>3, <1>4

-----------------------------------------------------------------------------
(* The elements of a sequence at some positions. *)

\* One step of Kept.
Step(s, D, x, m) == IF m \in D THEN Append(x, s[m]) ELSE x

\* The function of Kept.
Upto(s, D) ==
  CHOOSE f : f = [n \in Nat |-> IF n = 0 THEN <<>> ELSE Step(s, D, f[n - 1], n)]

\* Kept is the last value of that function.
LEMMA KeptIs == \A s, D : Kept(s, D) = Upto(s, D)[Len(s)]
BY DEF Kept, Upto, Step

\* The first n values of it.
Upto0(s, D, f, n) ==
  f = [m \in 0 .. n |-> IF m = 0 THEN <<>> ELSE Step(s, D, f[m - 1], m)]

\* They exist.
LEMMA UptoExist == \A s, D : \A n \in Nat : \E f : Upto0(s, D, f, n)
<1> SUFFICES ASSUME NEW s, NEW D PROVE \A n \in Nat : \E f : Upto0(s, D, f, n)  OBVIOUS
<1> DEFINE S == {n \in Nat : \E f : Upto0(s, D, f, n)}
<1>1. 0 \in S
  <2>1. PICK f : f = [m \in 0 .. 0 |-> <<>>]  OBVIOUS
  <2>2. f = [m \in 0 .. 0 |-> IF m = 0 THEN <<>> ELSE Step(s, D, f[m - 1], m)]
    <3>1. \A m \in 0 .. 0 : m = 0  OBVIOUS
    <3>. QED  BY <2>1, <3>1
  <2>. QED  BY <2>2 DEF Upto0
<1>2. ASSUME NEW n \in Nat, n \in S PROVE n + 1 \in S
  <2>1. PICK f : f = [m \in 0 .. n |-> IF m = 0 THEN <<>> ELSE Step(s, D, f[m - 1], m)]
    BY <1>2 DEF Upto0
  <2>2. PICK g : g = [m \in 0 .. n + 1 |->
                        IF m = n + 1 THEN Step(s, D, f[n], n + 1) ELSE f[m]]
    OBVIOUS
  <2>3. ASSUME NEW m \in 0 .. n + 1
        PROVE  g[m] = IF m = 0 THEN <<>> ELSE Step(s, D, g[m - 1], m)
    <3>1. CASE m = n + 1
      <4>1. g[m] = Step(s, D, f[n], m)  BY <2>2, <3>1
      <4>2. m # 0 /\ m - 1 = n /\ n \in 0 .. n + 1 /\ n # n + 1  BY <3>1
      <4>3. g[m - 1] = f[n]  BY <2>2, <4>2
      <4>. QED  BY <4>1, <4>2, <4>3
    <3>2. CASE m # n + 1
      <4>1. m \in 0 .. n  BY <3>2
      <4>2. g[m] = f[m]  BY <2>2, <3>2
      <4>3. m # 0 => m - 1 \in 0 .. n + 1 /\ m - 1 # n + 1  BY <4>1
      <4>4. m # 0 => g[m - 1] = f[m - 1]  BY <2>2, <4>3
      <4>5. f[m] = IF m = 0 THEN <<>> ELSE Step(s, D, f[m - 1], m)  BY <2>1, <4>1
      <4>. QED  BY <4>2, <4>4, <4>5
    <3>. QED  BY <3>1, <3>2
  <2>4. g = [m \in 0 .. n + 1 |-> IF m = 0 THEN <<>> ELSE Step(s, D, g[m - 1], m)]
    BY <2>2, <2>3
  <2>. QED  BY <2>4 DEF Upto0
<1> HIDE DEF S
<1>3. \A n \in Nat : n \in S  BY <1>1, <1>2, SetInduction
<1>. QED  BY <1>3 DEF S

\* They do not depend on n.
LEMMA UptoUnique ==
  ASSUME NEW s, NEW D, NEW f, NEW n \in Nat, Upto0(s, D, f, n),
         NEW g, NEW k \in Nat, Upto0(s, D, g, k)
  PROVE  \A m \in Nat : m <= n /\ m <= k => f[m] = g[m]
<1> DEFINE S == {m \in Nat : m <= n /\ m <= k => f[m] = g[m]}
<1>1. /\ \A m \in 0 .. n : f[m] = IF m = 0 THEN <<>> ELSE Step(s, D, f[m - 1], m)
      /\ \A m \in 0 .. k : g[m] = IF m = 0 THEN <<>> ELSE Step(s, D, g[m - 1], m)
  BY DEF Upto0
<1>2. 0 \in S  BY <1>1
<1>3. ASSUME NEW m \in Nat, m \in S PROVE m + 1 \in S
  <2> SUFFICES ASSUME m + 1 <= n, m + 1 <= k PROVE f[m + 1] = g[m + 1]  OBVIOUS
  <2>1. f[m] = g[m]  BY <1>3
  <2>2. m + 1 \in 0 .. n /\ m + 1 \in 0 .. k /\ m + 1 # 0 /\ (m + 1) - 1 = m  OBVIOUS
  <2>3. f[m + 1] = Step(s, D, f[m], m + 1) /\ g[m + 1] = Step(s, D, g[m], m + 1)
    BY <1>1, <2>2
  <2>. QED  BY <2>1, <2>3
<1> HIDE DEF S
<1>4. \A m \in Nat : m \in S  BY <1>2, <1>3, SetInduction
<1>. QED  BY <1>4 DEF S

\* So Upto is what its definition says.
LEMMA UptoIs ==
  ASSUME NEW s, NEW D
  PROVE  /\ Upto(s, D)[0] = <<>>
         /\ \A n \in Nat : Upto(s, D)[n + 1] = Step(s, D, Upto(s, D)[n], n + 1)
<1> DEFINE First(n) == CHOOSE f : Upto0(s, D, f, n)
           g == [n \in Nat |-> First(n)[n]]
<1>1. \A n \in Nat : Upto0(s, D, First(n), n)  BY UptoExist
<1> HIDE DEF First
<1>2. ASSUME NEW n \in Nat
      PROVE  g[n] = IF n = 0 THEN <<>> ELSE Step(s, D, g[n - 1], n)
  <2>1. PICK f : f = First(n) /\ Upto0(s, D, f, n)  BY <1>1
  <2>2. f[n] = IF n = 0 THEN <<>> ELSE Step(s, D, f[n - 1], n)  BY <2>1 DEF Upto0
  <2>3. ASSUME n # 0 PROVE f[n - 1] = g[n - 1]
    <3>1. PICK k \in Nat : k = n - 1 /\ k <= n  BY <2>3
    <3>2. PICK h : h = First(k) /\ Upto0(s, D, h, k)  BY <1>1
    <3>3. f[k] = h[k]  BY <2>1, <3>1, <3>2, UptoUnique
    <3>. QED  BY <3>1, <3>2, <3>3
  <2>. QED  BY <2>1, <2>2, <2>3
<1>3. g = [n \in Nat |-> IF n = 0 THEN <<>> ELSE Step(s, D, g[n - 1], n)]
  BY <1>2
<1> HIDE DEF g
<1>4. Upto(s, D) = [n \in Nat |-> IF n = 0 THEN <<>> ELSE Step(s, D, Upto(s, D)[n - 1], n)]
  BY <1>3 DEF Upto
<1> DEFINE t == Upto(s, D)
<1>5. t = [n \in Nat |-> IF n = 0 THEN <<>> ELSE Step(s, D, t[n - 1], n)]
  BY <1>4
<1> HIDE DEF t
<1>6. t[0] = <<>>  BY <1>5
<1>7. ASSUME NEW n \in Nat PROVE t[n + 1] = Step(s, D, t[n], n + 1)
  <2>1. n + 1 \in Nat /\ n + 1 # 0 /\ (n + 1) - 1 = n  OBVIOUS
  <2>. QED  BY <1>5, <2>1
<1>. QED  BY <1>6, <1>7 DEF t

-----------------------------------------------------------------------------
(* What is under way. *)

Request == [id : Nat, cmd : Commands, serial : Serials \cup {NoSerial}]
Event == [kind : {"added", "removed", "changed"}, serial : Serials]
Answer == [kind : {"answer"}, id : Nat, cmd : Commands, ok : BOOLEAN, done : BOOLEAN,
           list : SUBSET Serials]
Packet == Event \cup Answer
Queued == [answer : Answer, later : SUBSET Serials]

\* A packet is an answer or an event.
LEMMA PacketIs ==
  ASSUME NEW p \in Packet
  PROVE  /\ p.kind = "answer" => p \in Answer
         /\ p.kind # "answer" => p \in Event
         /\ p.kind \in {"added", "removed", "changed", "answer"}
BY DEF Packet, Event, Answer

\* Answers are packets.
LEMMA SomePackets == \A x \in Answer : x.kind = "answer" /\ x \in Packet
BY DEF Packet, Answer

-----------------------------------------------------------------------------
(* Concatenation, by a name that the provers need not look into. *)

Join(x, y) == x \o y

\* Parentheses do not matter.
LEMMA JoinAssociative ==
  ASSUME NEW S
  PROVE  \A x, y, z \in Seq(S) : Join(Join(x, y), z) = Join(x, Join(y, z))
<1> SUFFICES ASSUME NEW x \in Seq(S), NEW y \in Seq(S), NEW z \in Seq(S)
             PROVE  Join(Join(x, y), z) = Join(x, Join(y, z))
  OBVIOUS
<1>1. (x \o y) \o z = x \o (y \o z)
  BY ONLY x \in Seq(S), y \in Seq(S), z \in Seq(S), ConcatAssociative
<1>. QED  BY ONLY <1>1 DEF Join

\* To append is to join one element.
LEMMA AppendJoin ==
  ASSUME NEW S
  PROVE  \A x \in Seq(S) : \A e \in S : Append(x, e) = Join(x, <<e>>)
<1> SUFFICES ASSUME NEW x \in Seq(S), NEW e \in S PROVE Append(x, e) = Join(x, <<e>>)
  OBVIOUS
<1>1. Append(x, e) = x \o <<e>>  BY ONLY x \in Seq(S), e \in S, AppendIsConcat
<1>. QED  BY ONLY <1>1 DEF Join

-----------------------------------------------------------------------------
(* The answers among some packets. *)

\* Those of the first n packets.
Ans(P, n) == Upto(P, {i \in DOMAIN P : P[i].kind = "answer"})[n]

\* They grow by one with every answer (AnswersIn).
LEMMA AnsIs ==
  ASSUME NEW P \in Seq(Packet)
  PROVE  /\ AnswersIn(P) = Ans(P, Len(P)) /\ Ans(P, 0) = <<>>
         /\ \A n \in Nat : n + 1 <= Len(P) =>
              Ans(P, n + 1) = IF P[n + 1].kind = "answer"
                              THEN Append(Ans(P, n), P[n + 1]) ELSE Ans(P, n)
<1>1. PICK D : D = {i \in DOMAIN P : P[i].kind = "answer"}  OBVIOUS
<1>2. \A n : Ans(P, n) = Upto(P, D)[n]  BY <1>1 DEF Ans
<1>3. AnswersIn(P) = Ans(P, Len(P))
  BY <1>1, <1>2, KeptIs DEF AnswersIn
<1>4. Ans(P, 0) = <<>>  BY <1>2, UptoIs
<1>5. ASSUME NEW n \in Nat, n + 1 <= Len(P)
      PROVE  Ans(P, n + 1) = IF P[n + 1].kind = "answer"
                             THEN Append(Ans(P, n), P[n + 1]) ELSE Ans(P, n)
  <2>1. Upto(P, D)[n + 1] = Step(P, D, Upto(P, D)[n], n + 1)  BY UptoIs
  <2>2. n + 1 \in D <=> P[n + 1].kind = "answer"
    <3>1. DOMAIN P = 1 .. Len(P) /\ Len(P) \in Nat  BY LenProperties
    <3>2. n + 1 \in DOMAIN P  BY <1>5, <3>1
    <3>. QED  BY <1>1, <3>2
  <2>. QED  BY <1>2, <2>1, <2>2 DEF Step
<1>. QED  BY <1>3, <1>4, <1>5

\* They are answers.
LEMMA AnsType ==
  ASSUME NEW P \in Seq(Packet)
  PROVE  \A n \in Nat : n <= Len(P) => Ans(P, n) \in Seq(Answer)
<1> DEFINE S == {n \in Nat : n <= Len(P) => Ans(P, n) \in Seq(Answer)}
<1>1. 0 \in S  BY AnsIs, EmptySeq
<1>2. ASSUME NEW n \in Nat, n \in S PROVE n + 1 \in S
  <2> SUFFICES ASSUME n + 1 <= Len(P) PROVE Ans(P, n + 1) \in Seq(Answer)  OBVIOUS
  <2>1. PICK l \in Nat : l = Len(P) /\ n + 1 \in 1 .. l /\ n <= l  BY LenProperties
  <2>2. Ans(P, n) \in Seq(Answer)  BY <1>2, <2>1
  <2>3. P[n + 1] \in Packet  BY <2>1, ElementOfSeq
  <2>4. Ans(P, n + 1) = IF P[n + 1].kind = "answer"
                        THEN Append(Ans(P, n), P[n + 1]) ELSE Ans(P, n)
    BY AnsIs
  <2>5. CASE P[n + 1].kind = "answer"
    <3>1. P[n + 1] \in Answer  BY <2>3, <2>5, PacketIs
    <3>2. Append(Ans(P, n), P[n + 1]) \in Seq(Answer)
      BY ONLY <2>2, <3>1, AppendProperties
    <3>. QED  BY <2>4, <2>5, <3>2
  <2>. QED  BY <2>2, <2>4, <2>5
<1> HIDE DEF S
<1>3. \A n \in Nat : n \in S  BY <1>1, <1>2, SetInduction
<1>. QED  BY <1>3 DEF S

\* They only depend on the packets.
LEMMA AnsSame ==
  ASSUME NEW P \in Seq(Packet), NEW Q \in Seq(Packet), NEW k \in Nat,
         k <= Len(P), k <= Len(Q), \A i \in 1 .. k : P[i] = Q[i]
  PROVE  Ans(P, k) = Ans(Q, k)
<1> DEFINE S == {n \in Nat : n <= k => Ans(P, n) = Ans(Q, n)}
<1>1. 0 \in S  BY AnsIs
<1>2. ASSUME NEW n \in Nat, n \in S PROVE n + 1 \in S
  <2> SUFFICES ASSUME n + 1 <= k PROVE Ans(P, n + 1) = Ans(Q, n + 1)  OBVIOUS
  <2>1. PICK l \in Nat, m \in Nat : l = Len(P) /\ m = Len(Q)  BY LenProperties
  <2>2. n + 1 <= l /\ n + 1 <= m  BY <2>1
  <2>3. /\ Ans(P, n + 1) = IF P[n + 1].kind = "answer"
                           THEN Append(Ans(P, n), P[n + 1]) ELSE Ans(P, n)
        /\ Ans(Q, n + 1) = IF Q[n + 1].kind = "answer"
                           THEN Append(Ans(Q, n), Q[n + 1]) ELSE Ans(Q, n)
    BY <2>1, <2>2, AnsIs
  <2>4. P[n + 1] = Q[n + 1]  OBVIOUS
  <2>5. Ans(P, n) = Ans(Q, n)  BY <1>2
  <2>. QED  BY <2>3, <2>4, <2>5
<1> HIDE DEF S
<1>3. \A n \in Nat : n \in S  BY <1>1, <1>2, SetInduction
<1>. QED  BY <1>3 DEF S

\* Those of two sequences.
LEMMA AnswersConcat ==
  ASSUME NEW P \in Seq(Packet), NEW Q \in Seq(Packet)
  PROVE  AnswersIn(P \o Q) = AnswersIn(P) \o AnswersIn(Q)
<1>1. PICK l \in Nat, m \in Nat : l = Len(P) /\ m = Len(Q)  BY LenProperties
<1>2. PICK R \in Seq(Packet) :
        /\ R = P \o Q /\ Len(R) = l + m
        /\ \A i \in 1 .. l + m : R[i] = IF i <= l THEN P[i] ELSE Q[i - l]
  <2>1. /\ P \o Q \in Seq(Packet) /\ Len(P \o Q) = Len(P) + Len(Q)
        /\ \A i \in 1 .. Len(P) + Len(Q) :
             (P \o Q)[i] = IF i <= Len(P) THEN P[i] ELSE Q[i - Len(P)]
    BY ConcatProperties
  <2>. QED  BY <1>1, <2>1
<1>3. PICK a \in Seq(Answer) : a = Ans(P, l)  BY <1>1, AnsType
<1> DEFINE S == {n \in Nat : n <= m => Ans(R, l + n) = a \o Ans(Q, n)}
<1>4. 0 \in S
  <2>1. Ans(P, l) = Ans(R, l)
    <3>1. l <= Len(P) /\ l <= Len(R) /\ \A i \in 1 .. l : P[i] = R[i]
      BY <1>1, <1>2
    <3>. QED  BY <3>1, AnsSame
  <2>2. a \o Ans(Q, 0) = a  BY <1>3, AnsIs, ConcatEmptySeq
  <2>3. l + 0 = l  OBVIOUS
  <2>. QED  BY <1>3, <2>1, <2>2, <2>3
<1>5. ASSUME NEW n \in Nat, n \in S PROVE n + 1 \in S
  <2> SUFFICES ASSUME n + 1 <= m PROVE Ans(R, l + (n + 1)) = a \o Ans(Q, n + 1)
    OBVIOUS
  <2>1. PICK k \in Nat : k = l + n /\ k + 1 <= l + m /\ k + 1 = l + (n + 1)  OBVIOUS
  <2>2. PICK b \in Seq(Answer) : b = Ans(Q, n) /\ Ans(R, k) = a \o b
    <3>1. n <= m  OBVIOUS
    <3>2. Ans(Q, n) \in Seq(Answer)  BY <1>1, <3>1, AnsType
    <3>. QED  BY <1>5, <2>1, <3>1, <3>2
  <2>3. PICK p \in Packet : p = Q[n + 1] /\ p = R[k + 1]
    <3>1. k + 1 \in 1 .. l + m /\ ~(k + 1 <= l) /\ (k + 1) - l = n + 1  BY <2>1
    <3>2. R[k + 1] = Q[n + 1]  BY <1>2, <3>1
    <3>3. n + 1 \in 1 .. m  OBVIOUS
    <3>4. Q[n + 1] \in Packet  BY <1>1, <3>3, ElementOfSeq
    <3>. QED  BY <3>2, <3>4
  <2>4. /\ Ans(R, k + 1) = IF p.kind = "answer" THEN Append(a \o b, p) ELSE a \o b
        /\ Ans(Q, n + 1) = IF p.kind = "answer" THEN Append(b, p) ELSE b
    <3>1. k + 1 <= Len(R) /\ n + 1 <= Len(Q)  BY <1>1, <1>2, <2>1
    <3>2. Ans(R, k + 1) = IF R[k + 1].kind = "answer"
                          THEN Append(Ans(R, k), R[k + 1]) ELSE Ans(R, k)
      BY <3>1, AnsIs
    <3>3. Ans(Q, n + 1) = IF Q[n + 1].kind = "answer"
                          THEN Append(Ans(Q, n), Q[n + 1]) ELSE Ans(Q, n)
      BY <3>1, AnsIs
    <3>. QED  BY <2>2, <2>3, <3>2, <3>3
  <2>5. CASE p.kind = "answer"
    <3>1. p \in Answer  BY <2>5, PacketIs
    <3>2. <<p>> \in Seq(Answer)  BY <3>1
    <3>3. Append(a \o b, p) = (a \o b) \o <<p>>
      <4>1. a \o b \in Seq(Answer)  BY ConcatProperties
      <4>. QED  BY ONLY <3>1, <4>1, AppendIsConcat
    <3>4. Append(b, p) = b \o <<p>>  BY ONLY <3>1, b \in Seq(Answer), AppendIsConcat
    <3>5. PICK e \in Seq(Answer) : e = <<p>>  BY <3>2
    <3>6. Join(Join(a, b), e) = Join(a, Join(b, e))  BY JoinAssociative
    <3>7. (a \o b) \o <<p>> = a \o (b \o <<p>>)  BY ONLY <3>5, <3>6 DEF Join
    <3>. QED  BY ONLY <2>1, <2>4, <2>5, <3>3, <3>4, <3>7
  <2>. QED  BY <2>1, <2>4, <2>5
<1> HIDE DEF S
<1>6. \A n \in Nat : n \in S  BY <1>4, <1>5, SetInduction
<1>7. Ans(R, l + m) = a \o Ans(Q, m)  BY <1>6 DEF S
<1>. QED  BY <1>1, <1>2, <1>3, <1>7, AnsIs

\* Events are no answers.
LEMMA AnswersOfEvents ==
  ASSUME NEW P \in Seq(Packet), \A i \in 1 .. Len(P) : P[i].kind # "answer"
  PROVE  AnswersIn(P) = <<>>
<1>1. PICK l \in Nat : l = Len(P)  BY LenProperties
<1> DEFINE S == {n \in Nat : n <= l => Ans(P, n) = <<>>}
<1>2. 0 \in S  BY AnsIs
<1>3. ASSUME NEW n \in Nat, n \in S PROVE n + 1 \in S
  <2> SUFFICES ASSUME n + 1 <= l PROVE Ans(P, n + 1) = <<>>  OBVIOUS
  <2>1. P[n + 1].kind # "answer"  BY <1>1
  <2>2. Ans(P, n) = <<>>  BY <1>3
  <2>3. Ans(P, n + 1) = IF P[n + 1].kind = "answer"
                        THEN Append(Ans(P, n), P[n + 1]) ELSE Ans(P, n)
    BY <1>1, AnsIs
  <2>. QED  BY <2>1, <2>2, <2>3
<1> HIDE DEF S
<1>4. \A n \in Nat : n \in S  BY <1>2, <1>3, SetInduction
<1>5. Ans(P, l) = <<>>  BY <1>4 DEF S
<1>. QED  BY <1>1, <1>5, AnsIs

\* One packet.
LEMMA AnswersOfOne ==
  ASSUME NEW p \in Packet
  PROVE  /\ <<p>> \in Seq(Packet)
         /\ AnswersIn(<<p>>) = IF p.kind = "answer" THEN <<p>> ELSE <<>>
<1>1. PICK P \in Seq(Packet) : P = <<p>> /\ Len(P) = 1 /\ P[1] = p
  <2>1. <<p>> \in Seq(Packet)  OBVIOUS
  <2>2. Len(<<p>>) = 1 /\ <<p>>[1] = p  OBVIOUS
  <2>. QED  BY ONLY <2>1, <2>2
<1>2. 0 + 1 <= Len(P) /\ 0 + 1 = 1  BY <1>1
<1>3. /\ AnswersIn(P) = Ans(P, 1) /\ Ans(P, 0) = <<>>
      /\ Ans(P, 0 + 1) = IF P[0 + 1].kind = "answer"
                         THEN Append(Ans(P, 0), P[0 + 1]) ELSE Ans(P, 0)
  BY <1>1, <1>2, AnsIs
<1>4. Append(<<>>, p) = <<p>>
  <2>1. <<>> \in Seq(Packet)  BY EmptySeq
  <2>2. Append(<<>>, p) = <<>> \o <<p>>  BY <2>1, AppendIsConcat
  <2>3. <<>> \o P = P  BY ConcatEmptySeq
  <2>. QED  BY <1>1, <2>2, <2>3
<1>. QED  BY <1>1, <1>2, <1>3, <1>4

\* All of them are answers.
LEMMA AnswersType ==
  ASSUME NEW P \in Seq(Packet)
  PROVE  AnswersIn(P) \in Seq(Answer)
<1>1. PICK l \in Nat : l = Len(P)  BY LenProperties
<1>. QED  BY <1>1, AnsIs, AnsType

-----------------------------------------------------------------------------
(* The numbers of requests and answers. *)

IdsOf(s) == [i \in DOMAIN s |-> s[i].id]
IdsIn(P) == IdsOf(AnswersIn(P))
IdsQueued(q) == [i \in DOMAIN q |-> q[i].answer.id]

\* A function on 1 .. n is a sequence of n elements.
LEMMA FunctionIsSeq ==
  ASSUME NEW S, NEW n \in Nat, NEW f \in [1 .. n -> S]
  PROVE  f \in Seq(S) /\ Len(f) = n
<1>1. f \in Seq(S)  BY SeqDef
<1>2. Len(f) \in Nat /\ 1 .. Len(f) = 1 .. n  BY <1>1, LenProperties
<1>3. Len(f) = n
  <2>1. CASE Len(f) > n
    <3>1. Len(f) \in 1 .. Len(f)  BY <1>2, <2>1
    <3>. QED  BY <1>2, <2>1, <3>1
  <2>2. CASE Len(f) < n
    <3>1. n \in 1 .. n  BY <1>2, <2>2
    <3>. QED  BY <1>2, <2>2, <3>1
  <2>. QED  BY <1>2, <2>1, <2>2
<1>. QED  BY <1>1, <1>3

\* The ids of items that have one.
LEMMA IdsType ==
  ASSUME NEW S, \A x \in S : x.id \in Nat, NEW s \in Seq(S)
  PROVE  /\ IdsOf(s) \in Seq(Nat) /\ Len(IdsOf(s)) = Len(s)
         /\ \A i \in 1 .. Len(s) : IdsOf(s)[i] = s[i].id
<1>1. PICK l \in Nat : l = Len(s) /\ DOMAIN s = 1 .. l  BY LenProperties
<1>2. PICK f : f = [i \in 1 .. l |-> s[i].id]  OBVIOUS
<1>3. \A i \in 1 .. l : s[i].id \in Nat
  <2>1. \A i \in 1 .. l : s[i] \in S  BY <1>1, ElementOfSeq
  <2>. QED  BY <2>1
<1>4. f \in [1 .. l -> Nat]  BY <1>2, <1>3
<1>5. f \in Seq(Nat) /\ Len(f) = l  BY <1>4, FunctionIsSeq
<1>6. IdsOf(s) = f  BY <1>1, <1>2 DEF IdsOf
<1>. QED  BY <1>1, <1>2, <1>5, <1>6

\* The ids of two sequences.
LEMMA IdsConcat ==
  ASSUME NEW S, \A x \in S : x.id \in Nat, NEW s \in Seq(S), NEW t \in Seq(S)
  PROVE  IdsOf(s \o t) = IdsOf(s) \o IdsOf(t)
<1>1. PICK l \in Nat, m \in Nat : l = Len(s) /\ m = Len(t)  BY LenProperties
<1>2. PICK u \in Seq(S) :
        /\ u = s \o t /\ Len(u) = l + m
        /\ \A i \in 1 .. l + m : u[i] = IF i <= l THEN s[i] ELSE t[i - l]
  <2>1. /\ s \o t \in Seq(S) /\ Len(s \o t) = Len(s) + Len(t)
        /\ \A i \in 1 .. Len(s) + Len(t) :
             (s \o t)[i] = IF i <= Len(s) THEN s[i] ELSE t[i - Len(s)]
    BY ONLY s \in Seq(S), t \in Seq(S), ConcatProperties
  <2>. QED  BY <1>1, <2>1
<1>3. PICK a \in Seq(Nat) :
        a = IdsOf(s) /\ Len(a) = l /\ \A i \in 1 .. l : a[i] = s[i].id
  <2>1. /\ IdsOf(s) \in Seq(Nat) /\ Len(IdsOf(s)) = Len(s)
        /\ \A i \in 1 .. Len(s) : IdsOf(s)[i] = s[i].id
    BY IdsType
  <2>. QED  BY <1>1, <1>2, <2>1
<1>4. PICK b \in Seq(Nat) :
        b = IdsOf(t) /\ Len(b) = m /\ \A i \in 1 .. m : b[i] = t[i].id
  <2>1. /\ IdsOf(t) \in Seq(Nat) /\ Len(IdsOf(t)) = Len(t)
        /\ \A i \in 1 .. Len(t) : IdsOf(t)[i] = t[i].id
    BY IdsType
  <2>. QED  BY <1>1, <1>2, <2>1
<1>5. PICK c \in Seq(Nat) :
        c = IdsOf(u) /\ Len(c) = l + m /\ \A i \in 1 .. l + m : c[i] = u[i].id
  <2>1. /\ IdsOf(u) \in Seq(Nat) /\ Len(IdsOf(u)) = Len(u)
        /\ \A i \in 1 .. Len(u) : IdsOf(u)[i] = u[i].id
    BY IdsType
  <2>2. Len(u) = l + m  BY <1>2
  <2>. QED  BY ONLY <2>1, <2>2
<1>6. /\ a \o b \in Seq(Nat) /\ Len(a \o b) = l + m
      /\ \A i \in 1 .. l + m : (a \o b)[i] = IF i <= l THEN a[i] ELSE b[i - l]
  <2>1. /\ a \o b \in Seq(Nat) /\ Len(a \o b) = Len(a) + Len(b)
        /\ \A i \in 1 .. Len(a) + Len(b) :
             (a \o b)[i] = IF i <= Len(a) THEN a[i] ELSE b[i - Len(a)]
    BY ONLY a \in Seq(Nat), b \in Seq(Nat), ConcatProperties
  <2>. QED  BY <1>3, <1>4, <2>1
<1>7. ASSUME NEW i \in 1 .. l + m PROVE c[i] = (a \o b)[i]
  <2>1. CASE i <= l
    <3>1. i \in 1 .. l  BY <2>1
    <3>2. u[i] = s[i] /\ (a \o b)[i] = a[i]  BY <1>2, <1>6, <2>1
    <3>3. c[i] = u[i].id /\ a[i] = s[i].id  BY <1>3, <1>5, <3>1
    <3>. QED  BY ONLY <3>2, <3>3
  <2>2. CASE ~(i <= l)
    <3>1. PICK j \in 1 .. m : j = i - l  BY <2>2
    <3>2. c[i] = t[j].id
      <4>1. u[i] = t[j]  BY <1>2, <2>2, <3>1
      <4>2. c[i] = u[i].id  BY <1>5
      <4>. QED  BY ONLY <4>1, <4>2
    <3>3. (a \o b)[i] = b[j]  BY <1>6, <2>2, <3>1
    <3>. QED  BY <1>4, <3>2, <3>3
  <2>. QED  BY <2>1, <2>2
<1>8. c = a \o b
  <2>1. Len(c) = Len(a \o b) /\ \A i \in 1 .. Len(c) : c[i] = (a \o b)[i]
    BY <1>5, <1>6, <1>7
  <2>. QED  BY ONLY <1>6, <2>1, c \in Seq(Nat), SeqEqual
<1>. QED  BY <1>2, <1>3, <1>4, <1>5, <1>8

\* The ids of the answers that wait.
LEMMA QueuedType ==
  ASSUME NEW q \in Seq(Queued)
  PROVE  /\ IdsQueued(q) \in Seq(Nat) /\ Len(IdsQueued(q)) = Len(q)
         /\ \A i \in 1 .. Len(q) : IdsQueued(q)[i] = q[i].answer.id
<1>1. PICK l \in Nat : l = Len(q) /\ DOMAIN q = 1 .. l  BY LenProperties
<1>2. PICK f : f = [i \in 1 .. l |-> q[i].answer.id]  OBVIOUS
<1>3. \A i \in 1 .. l : q[i].answer.id \in Nat
  <2>1. \A i \in 1 .. l : q[i] \in Queued  BY <1>1, ElementOfSeq
  <2>. QED  BY <2>1 DEF Queued, Answer
<1>4. f \in [1 .. l -> Nat]  BY <1>2, <1>3
<1>5. f \in Seq(Nat) /\ Len(f) = l  BY <1>4, FunctionIsSeq
<1>6. IdsQueued(q) = f  BY <1>1, <1>2 DEF IdsQueued
<1>. QED  BY <1>1, <1>2, <1>5, <1>6

\* They only depend on the answers.
LEMMA QueuedSame ==
  ASSUME NEW q \in Seq(Queued), NEW r \in Seq(Queued), Len(r) = Len(q),
         \A i \in 1 .. Len(q) : r[i].answer = q[i].answer
  PROVE  IdsQueued(r) = IdsQueued(q)
<1>1. PICK a \in Seq(Nat) : /\ a = IdsQueued(q) /\ Len(a) = Len(q)
                            /\ \A i \in 1 .. Len(q) : a[i] = q[i].answer.id
  BY QueuedType
<1>2. PICK b \in Seq(Nat) : /\ b = IdsQueued(r) /\ Len(b) = Len(r)
                            /\ \A i \in 1 .. Len(r) : b[i] = r[i].answer.id
  BY QueuedType
<1>3. Len(a) = Len(b) /\ \A i \in 1 .. Len(a) : a[i] = b[i]  BY <1>1, <1>2, Zenon
<1>4. a = b  BY ONLY <1>3, a \in Seq(Nat), b \in Seq(Nat), SeqEqual
<1>. QED  BY <1>1, <1>2, <1>4

\* One more answer.
LEMMA QueuedAppend ==
  ASSUME NEW q \in Seq(Queued), NEW x \in Queued
  PROVE  IdsQueued(Append(q, x)) = IdsQueued(q) \o <<x.answer.id>>
<1>1. PICK l \in Nat : l = Len(q)  BY LenProperties
<1>2. PICK r \in Seq(Queued) :
        /\ r = Append(q, x) /\ Len(r) = l + 1
        /\ \A i \in 1 .. l : r[i] = q[i]
        /\ r[l + 1] = x
  <2>1. /\ Append(q, x) \in Seq(Queued) /\ Len(Append(q, x)) = Len(q) + 1
        /\ \A i \in 1 .. Len(q) : Append(q, x)[i] = q[i]
        /\ Append(q, x)[Len(q) + 1] = x
    BY ONLY q \in Seq(Queued), x \in Queued, AppendProperties
  <2>. QED  BY <1>1, <2>1
<1>3. PICK n \in Nat : n = x.answer.id  BY DEF Queued, Answer
<1>4. PICK a \in Seq(Nat) :
        a = IdsQueued(q) /\ Len(a) = l /\ \A i \in 1 .. l : a[i] = q[i].answer.id
  <2>1. /\ IdsQueued(q) \in Seq(Nat) /\ Len(IdsQueued(q)) = Len(q)
        /\ \A i \in 1 .. Len(q) : IdsQueued(q)[i] = q[i].answer.id
    BY QueuedType
  <2>. QED  BY <1>1, <2>1
<1>5. PICK b \in Seq(Nat) :
        b = IdsQueued(r) /\ Len(b) = l + 1 /\ \A i \in 1 .. l + 1 : b[i] = r[i].answer.id
  <2>1. /\ IdsQueued(r) \in Seq(Nat) /\ Len(IdsQueued(r)) = Len(r)
        /\ \A i \in 1 .. Len(r) : IdsQueued(r)[i] = r[i].answer.id
    BY QueuedType
  <2>. QED  BY <1>2, <2>1
<1>6. PICK c \in Seq(Nat) :
        c = Append(a, n) /\ Len(c) = l + 1 /\ (\A i \in 1 .. l : c[i] = a[i]) /\ c[l + 1] = n
  <2>1. /\ Append(a, n) \in Seq(Nat) /\ Len(Append(a, n)) = Len(a) + 1
        /\ \A i \in 1 .. Len(a) : Append(a, n)[i] = a[i]
        /\ Append(a, n)[Len(a) + 1] = n
    BY ONLY a \in Seq(Nat), n \in Nat, AppendProperties
  <2>. QED  BY <1>4, <2>1
<1>7. ASSUME NEW i \in 1 .. l + 1 PROVE b[i] = c[i]
  <2>1. CASE i = l + 1
    <3>1. b[i] = x.answer.id  BY <1>2, <1>5, <2>1
    <3>. QED  BY <1>3, <1>6, <2>1, <3>1
  <2>2. CASE i # l + 1
    <3>1. i \in 1 .. l  BY <2>2
    <3>2. b[i] = r[i].answer.id /\ r[i] = q[i]  BY <1>2, <1>5, <3>1
    <3>3. c[i] = q[i].answer.id  BY <1>4, <1>6, <3>1
    <3>. QED  BY ONLY <3>2, <3>3
  <2>. QED  BY <2>1, <2>2
<1>8. b = c
  <2>1. Len(b) = Len(c) /\ \A i \in 1 .. Len(b) : b[i] = c[i]  BY <1>5, <1>6, <1>7
  <2>. QED  BY ONLY <2>1, b \in Seq(Nat), c \in Seq(Nat), SeqEqual
<1>9. Append(a, n) = a \o <<n>>
  <2>1. Append(a, n) = Join(a, <<n>>)
    BY ONLY a \in Seq(Nat), n \in Nat, AppendJoin, Zenon
  <2>. QED  BY ONLY <2>1 DEF Join
<1>. QED  BY <1>2, <1>3, <1>4, <1>5, <1>6, <1>8, <1>9

\* A sequence is its head and its tail.
LEMMA HeadAndTail ==
  ASSUME NEW S, NEW s \in Seq(S), s # <<>>
  PROVE  /\ Head(s) \in S /\ Head(s) = s[1] /\ Tail(s) \in Seq(S)
         /\ s = <<Head(s)>> \o Tail(s)
<1>1. PICK t \in Seq(S), h \in S :
        /\ t = Tail(s) /\ h = Head(s) /\ h = s[1]
        /\ Len(t) = Len(s) - 1 /\ \A i \in 1 .. Len(t) : t[i] = s[i + 1]
  <2>1. /\ Head(s) \in S /\ Tail(s) \in Seq(S) /\ Len(Tail(s)) = Len(s) - 1
        /\ \A i \in 1 .. Len(Tail(s)) : Tail(s)[i] = s[i + 1]
    BY ONLY s \in Seq(S), s # <<>>, HeadTailProperties
  <2>2. Head(s) = s[1]  OBVIOUS
  <2>. QED  BY ONLY <2>1, <2>2
<1>2. PICK l \in Nat : l = Len(t) /\ Len(s) = l + 1
  <2>1. PICK m \in Nat, l \in Nat : m = Len(s) /\ l = Len(t)  BY LenProperties
  <2>2. l = m - 1  BY <1>1, <2>1
  <2>3. m = l + 1  BY ONLY <2>2, m \in Nat, l \in Nat
  <2>. QED  BY ONLY <2>1, <2>3, l \in Nat
<1>3. PICK e \in Seq(S) : e = <<h>> /\ Len(e) = 1 /\ e[1] = h
  <2>1. <<h>> \in Seq(S)  OBVIOUS
  <2>2. Len(<<h>>) = 1 /\ <<h>>[1] = h  OBVIOUS
  <2>. QED  BY ONLY <2>1, <2>2
<1>4. PICK w \in Seq(S) : /\ w = e \o t /\ Len(w) = 1 + l
                         /\ \A i \in 1 .. 1 + l : w[i] = IF i <= 1 THEN e[i] ELSE t[i - 1]
  <2>1. /\ e \o t \in Seq(S) /\ Len(e \o t) = Len(e) + Len(t)
        /\ \A i \in 1 .. Len(e) + Len(t) :
             (e \o t)[i] = IF i <= Len(e) THEN e[i] ELSE t[i - Len(e)]
    BY ONLY e \in Seq(S), t \in Seq(S), ConcatProperties
  <2>. QED  BY <1>2, <1>3, <2>1
<1>5. ASSUME NEW i \in 1 .. l + 1 PROVE s[i] = w[i]
  <2>1. CASE i = 1
    BY <1>1, <1>3, <1>4, <2>1
  <2>2. CASE i # 1
    <3>1. PICK j \in 1 .. l : i = j + 1 /\ j = i - 1 /\ ~(i <= 1)  BY <2>2
    <3>2. w[i] = t[j]
      <4>1. i \in 1 .. 1 + l  OBVIOUS
      <4>2. w[i] = IF i <= 1 THEN e[i] ELSE t[i - 1]  BY ONLY <1>4, <4>1
      <4>. QED  BY ONLY <3>1, <4>2
    <3>. QED  BY <1>1, <1>2, <3>1, <3>2
  <2>. QED  BY <2>1, <2>2
<1>6. s = w
  <2>1. Len(s) = Len(w) /\ \A i \in 1 .. Len(s) : s[i] = w[i]
    BY <1>2, <1>4, <1>5
  <2>. QED  BY ONLY <2>1, s \in Seq(S), w \in Seq(S), SeqEqual, Zenon
<1>7. s = <<Head(s)>> \o Tail(s)  BY ONLY <1>1, <1>3, <1>4, <1>6, Zenon
<1>. QED  BY ONLY <1>1, <1>7, Zenon

-----------------------------------------------------------------------------
(* The numbers under way, in the order in which they are answered. *)

\* Sequences of numbers, by name: the provers need not look into them.
Numbers == Seq(Nat)
Way(a, b, c, d) == Join(Join(Join(a, b), c), d)

\* UnderWay is the way of the four sequences.
LEMMA UnderWayIs ==
  UnderWay = Way(IdsQueued(answers), IdsIn(inbox), IdsIn(stream), IdsOf(requests))
BY DEF UnderWay, Way, Join, IdsQueued, IdsIn, IdsOf

\* Numbers are joined to numbers.
LEMMA Joined == \A x, y \in Numbers : Join(x, y) \in Numbers
BY ConcatProperties DEF Join, Numbers

\* Parentheses do not matter for numbers.
LEMMA Assoc ==
  \A x, y, z \in Numbers : Join(Join(x, y), z) = Join(x, Join(y, z))
BY JoinAssociative DEF Numbers

\* Joining nothing changes nothing.
LEMMA NoneIsNeutral ==
  /\ <<>> \in Numbers
  /\ \A x \in Numbers : Join(x, <<>>) = x /\ Join(<<>>, x) = x
BY EmptySeq, ConcatEmptySeq DEF Numbers, Join

\* The way is a sequence of numbers.
LEMMA WayType ==
  ASSUME NEW a \in Numbers, NEW b \in Numbers, NEW c \in Numbers, NEW d \in Numbers
  PROVE  Way(a, b, c, d) \in Numbers
BY Joined DEF Way

\* Packets arrive.
LEMMA WayReceived ==
  ASSUME NEW a \in Numbers, NEW b \in Numbers, NEW c \in Numbers, NEW d \in Numbers
  PROVE  Way(a, b, c, d) = Way(a, <<>>, Join(b, c), d)
<1>1. Join(Join(a, b), c) = Join(a, Join(b, c))  BY Assoc
<1>2. Join(a, <<>>) = a  BY NoneIsNeutral
<1>. QED  BY <1>1, <1>2 DEF Way

\* An answer is parsed.
LEMMA WayParsed ==
  ASSUME NEW a \in Numbers, NEW b \in Numbers, NEW c \in Numbers, NEW d \in Numbers,
         NEW x \in Numbers
  PROVE  Way(Join(a, x), b, c, d) = Way(a, Join(x, b), c, d)
BY Assoc DEF Way

\* A request is answered.
LEMMA WayAnswered ==
  ASSUME NEW a \in Numbers, NEW b \in Numbers, NEW c \in Numbers, NEW d \in Numbers,
         NEW x \in Numbers
  PROVE  Way(a, b, Join(c, x), d) = Way(a, b, c, Join(x, d))
<1>1. PICK e \in Numbers : e = Join(a, b)  BY Joined
<1>2. PICK f \in Numbers : f = Join(e, c)  BY Joined
<1>3. Join(e, Join(c, x)) = Join(f, x)  BY <1>2, Assoc
<1>4. Join(Join(f, x), d) = Join(f, Join(x, d))  BY Assoc
<1>. QED  BY <1>1, <1>2, <1>3, <1>4 DEF Way

\* A request is sent.
LEMMA WaySent ==
  ASSUME NEW a \in Numbers, NEW b \in Numbers, NEW c \in Numbers, NEW d \in Numbers,
         NEW x \in Numbers
  PROVE  Way(a, b, c, Join(d, x)) = Join(Way(a, b, c, d), x)
<1>1. PICK e \in Numbers : e = Join(Join(a, b), c)  BY Joined
<1>2. Join(e, Join(d, x)) = Join(Join(e, d), x)  BY Assoc
<1>. QED  BY <1>1, <1>2 DEF Way

\* An answer is taken.
LEMMA WayTaken ==
  ASSUME NEW a \in Numbers, NEW b \in Numbers, NEW c \in Numbers, NEW d \in Numbers,
         NEW x \in Numbers
  PROVE  Way(Join(x, a), b, c, d) = Join(x, Way(a, b, c, d))
<1>1. PICK e \in Numbers : e = Join(a, b) /\ Join(Join(x, a), b) = Join(x, e)
  BY Joined, Assoc
<1>2. PICK f \in Numbers : f = Join(e, c) /\ Join(Join(x, e), c) = Join(x, f)
  BY Joined, Assoc
<1>3. Join(Join(x, f), d) = Join(x, Join(f, d))  BY Assoc
<1>. QED  BY <1>1, <1>2, <1>3 DEF Way

\* The numbers after f, k of them.
From(f, k) == [i \in 1 .. k |-> f + i]

\* From is what it looks like.
LEMMA FromIs ==
  ASSUME NEW f \in Nat, NEW k \in Nat
  PROVE  /\ From(f, k) \in Seq(Nat) /\ Len(From(f, k)) = k
         /\ \A i \in 1 .. k : From(f, k)[i] = f + i
<1>1. From(f, k) \in [1 .. k -> Nat]  BY DEF From
<1>2. From(f, k) \in Seq(Nat) /\ Len(From(f, k)) = k  BY <1>1, FunctionIsSeq
<1>. QED  BY <1>2 DEF From

\* One more number.
LEMMA FromNext ==
  ASSUME NEW f \in Nat, NEW k \in Nat, NEW n \in Nat, n = f + k + 1
  PROVE  From(f, k) \o <<n>> = From(f, k + 1)
<1>1. PICK u \in Seq(Nat) : u = From(f, k) /\ Len(u) = k /\ \A i \in 1 .. k : u[i] = f + i
  BY FromIs
<1>2. PICK w \in Seq(Nat) : /\ w = From(f, k + 1) /\ Len(w) = k + 1
                            /\ \A i \in 1 .. k + 1 : w[i] = f + i
  <2>1. PICK m \in Nat : m = k + 1  OBVIOUS
  <2>2. /\ From(f, m) \in Seq(Nat) /\ Len(From(f, m)) = m
        /\ \A i \in 1 .. m : From(f, m)[i] = f + i
    BY FromIs
  <2>. QED  BY ONLY <2>1, <2>2
<1>3. PICK v \in Seq(Nat) : /\ v = Append(u, n) /\ Len(v) = k + 1
                            /\ \A i \in 1 .. k : v[i] = u[i]
                            /\ v[k + 1] = n
  <2>1. /\ Append(u, n) \in Seq(Nat) /\ Len(Append(u, n)) = Len(u) + 1
        /\ \A i \in 1 .. Len(u) : Append(u, n)[i] = u[i]
        /\ Append(u, n)[Len(u) + 1] = n
    BY ONLY u \in Seq(Nat), n \in Nat, AppendProperties
  <2>. QED  BY ONLY <1>1, <2>1
<1>4. ASSUME NEW i \in 1 .. k + 1 PROVE v[i] = w[i]
  <2>1. w[i] = f + i  BY <1>2
  <2>2. CASE i = k + 1  BY <1>3, <2>1, <2>2
  <2>3. CASE i # k + 1
    <3>1. i \in 1 .. k  BY <2>3
    <3>. QED  BY <1>1, <1>3, <2>1, <3>1
  <2>. QED  BY <2>2, <2>3
<1>5. v = w
  <2>1. Len(v) = Len(w) /\ \A i \in 1 .. Len(v) : v[i] = w[i]  BY <1>2, <1>3, <1>4
  <2>. QED  BY ONLY <2>1, v \in Seq(Nat), w \in Seq(Nat), SeqEqual
<1>6. Append(u, n) = u \o <<n>>
  <2>1. Append(u, n) = Join(u, <<n>>)
    BY ONLY u \in Seq(Nat), n \in Nat, AppendJoin, Zenon
  <2>. QED  BY ONLY <2>1 DEF Join
<1>. QED  BY <1>1, <1>2, <1>3, <1>5, <1>6

\* One number less.
LEMMA FromRest ==
  ASSUME NEW f \in Nat, NEW k \in Nat, NEW n \in Nat, NEW u \in Seq(Nat),
         <<n>> \o u = From(f, k)
  PROVE  k >= 1 /\ n = f + 1 /\ u = From(f + 1, k - 1)
<1>1. PICK l \in Nat : l = Len(u)  BY LenProperties
<1>2. PICK e \in Seq(Nat) : e = <<n>> /\ Len(e) = 1 /\ e[1] = n
  <2>1. <<n>> \in Seq(Nat)  OBVIOUS
  <2>2. Len(<<n>>) = 1 /\ <<n>>[1] = n  OBVIOUS
  <2>. QED  BY ONLY <2>1, <2>2
<1>3. PICK w \in Seq(Nat) : /\ w = e \o u /\ Len(w) = 1 + l
                            /\ \A i \in 1 .. 1 + l : w[i] = IF i <= 1 THEN e[i] ELSE u[i - 1]
  <2>1. /\ e \o u \in Seq(Nat) /\ Len(e \o u) = Len(e) + Len(u)
        /\ \A i \in 1 .. Len(e) + Len(u) :
             (e \o u)[i] = IF i <= Len(e) THEN e[i] ELSE u[i - Len(e)]
    BY ONLY e \in Seq(Nat), u \in Seq(Nat), ConcatProperties
  <2>. QED  BY <1>1, <1>2, <2>1
<1>4. w = From(f, k)  BY <1>2, <1>3
<1>5. Len(w) = k /\ \A i \in 1 .. k : w[i] = f + i
  BY <1>4, FromIs
<1>6. k = 1 + l  BY <1>3, <1>5
<1>7. n = f + 1
  <2>1. 1 \in 1 .. k /\ 1 \in 1 .. 1 + l  BY <1>6
  <2>2. w[1] = f + 1  BY <1>5, <2>1
  <2>3. w[1] = e[1]
    <3>1. 1 <= 1  OBVIOUS
    <3>2. w[1] = IF 1 <= 1 THEN e[1] ELSE u[1 - 1]  BY ONLY <1>3, <2>1
    <3>. QED  BY ONLY <3>1, <3>2
  <2>. QED  BY <1>2, <2>2, <2>3
<1>8. PICK g \in Nat : g = f + 1  OBVIOUS
<1>9. PICK v \in Seq(Nat) : v = From(g, l) /\ Len(v) = l /\ \A i \in 1 .. l : v[i] = g + i
  BY FromIs
<1>10. ASSUME NEW i \in 1 .. l PROVE u[i] = v[i]
  <2>1. PICK j \in 1 .. 1 + l : j = i + 1 /\ ~(j <= 1) /\ j - 1 = i  OBVIOUS
  <2>2. w[j] = u[i]  BY <1>3, <2>1
  <2>3. j \in 1 .. k  BY <1>6
  <2>4. w[j] = f + j  BY <1>5, <2>3
  <2>5. v[i] = f + j  BY <1>8, <1>9, <2>1
  <2>. QED  BY <2>2, <2>4, <2>5
<1>11. u = v
  <2>1. Len(u) = Len(v) /\ \A i \in 1 .. Len(u) : u[i] = v[i]  BY <1>1, <1>9, <1>10
  <2>. QED  BY ONLY <2>1, u \in Seq(Nat), v \in Seq(Nat), SeqEqual
<1>12. l = k - 1  BY <1>6
<1>. QED  BY <1>6, <1>7, <1>8, <1>9, <1>11, <1>12

-----------------------------------------------------------------------------
(* The packets of a batch of events. *)

Batch == [Serials -> EventKind]
EventOf(b, s) == [kind |-> b[s], serial |-> s]

\* Those of the serials up to n.
Evs(b, n) ==
  Upto([s \in Serials |-> EventOf(b, s)], {s \in Serials : b[s] # "none"})[n]

\* They grow by one with every serial that has an event (EventPackets).
LEMMA EvsIs ==
  ASSUME NEW b \in Batch
  PROVE  /\ EventPackets(b) = Evs(b, NumSerials) /\ Evs(b, 0) = <<>>
         /\ \A n \in Nat : n + 1 <= NumSerials =>
              Evs(b, n + 1) = IF b[n + 1] # "none"
                              THEN Append(Evs(b, n), EventOf(b, n + 1)) ELSE Evs(b, n)
<1>1. PICK D : D = {s \in Serials : b[s] # "none"}  OBVIOUS
<1>2. PICK P : P = [s \in 1 .. NumSerials |-> EventOf(b, s)]  OBVIOUS
<1>3. \A n : Evs(b, n) = Upto(P, D)[n]  BY <1>1, <1>2 DEF Evs, Serials
<1>4. EventPackets(b) = Upto(P, D)[NumSerials]
  <2>1. EventPackets(b) = Kept(P, D)
    BY <1>1, <1>2 DEF EventPackets, EventOf, Serials
  <2>2. P \in [1 .. NumSerials -> {EventOf(b, s) : s \in 1 .. NumSerials}]  BY <1>2
  <2>3. NumSerials \in Nat  BY SessionAssumption
  <2>4. Len(P) = NumSerials  BY ONLY <2>2, <2>3, FunctionIsSeq
  <2>. QED  BY <2>1, <2>4, KeptIs
<1>5. Evs(b, 0) = <<>>  BY <1>3, UptoIs
<1>6. ASSUME NEW n \in Nat, n + 1 <= NumSerials
      PROVE  Evs(b, n + 1) = IF b[n + 1] # "none"
                             THEN Append(Evs(b, n), EventOf(b, n + 1)) ELSE Evs(b, n)
  <2>1. Upto(P, D)[n + 1] = Step(P, D, Upto(P, D)[n], n + 1)  BY UptoIs
  <2>2. n + 1 \in 1 .. NumSerials  BY <1>6, SessionAssumption
  <2>3. n + 1 \in D <=> b[n + 1] # "none"  BY <1>1, <2>2 DEF Serials
  <2>4. P[n + 1] = EventOf(b, n + 1)  BY <1>2, <2>2
  <2>. QED  BY <1>3, <2>1, <2>3, <2>4 DEF Step
<1>. QED  BY <1>3, <1>4, <1>5, <1>6

\* The packet of a serial that has an event.
LEMMA EventIs ==
  ASSUME NEW b \in Batch, NEW s \in Serials, b[s] # "none"
  PROVE  EventOf(b, s) \in Event /\ EventOf(b, s).kind = b[s] /\ EventOf(b, s).serial = s
BY DEF Batch, EventKind, EventOf, Event

\* They are events.
LEMMA EvsType ==
  ASSUME NEW b \in Batch
  PROVE  \A n \in Nat : n <= NumSerials => Evs(b, n) \in Seq(Event)
<1> DEFINE S == {n \in Nat : n <= NumSerials => Evs(b, n) \in Seq(Event)}
<1>1. 0 \in S  BY EvsIs, EmptySeq
<1>2. ASSUME NEW n \in Nat, n \in S PROVE n + 1 \in S
  <2> SUFFICES ASSUME n + 1 <= NumSerials PROVE Evs(b, n + 1) \in Seq(Event)  OBVIOUS
  <2>1. Evs(b, n) \in Seq(Event)  BY <1>2, SessionAssumption
  <2>2. Evs(b, n + 1) = IF b[n + 1] # "none"
                        THEN Append(Evs(b, n), EventOf(b, n + 1)) ELSE Evs(b, n)
    BY EvsIs
  <2>3. n + 1 \in Serials  BY SessionAssumption DEF Serials
  <2>4. CASE b[n + 1] # "none"
    <3>1. EventOf(b, n + 1) \in Event  BY <2>3, <2>4, EventIs
    <3>2. Append(Evs(b, n), EventOf(b, n + 1)) \in Seq(Event)
      BY ONLY <2>1, <3>1, AppendProperties
    <3>. QED  BY <2>2, <2>4, <3>2
  <2>. QED  BY <2>1, <2>2, <2>4
<1> HIDE DEF S
<1>3. \A n \in Nat : n \in S  BY <1>1, <1>2, SetInduction
<1>. QED  BY <1>3 DEF S

\* A batch has no answers.
LEMMA EventPacketsType ==
  ASSUME NEW b \in Batch
  PROVE  /\ EventPackets(b) \in Seq(Event) /\ EventPackets(b) \in Seq(Packet)
         /\ AnswersIn(EventPackets(b)) = <<>>
<1>1. PICK e \in Seq(Event) : e = EventPackets(b)
  BY EvsIs, EvsType, SessionAssumption
<1>2. Event \subseteq Packet  BY DEF Packet
<1>3. e \in Seq(Packet)  BY ONLY <1>2, e \in Seq(Event), SeqMonotonic
<1>4. \A i \in 1 .. Len(e) : e[i] \in Event  BY ElementOfSeq
<1>5. \A i \in 1 .. Len(e) : e[i].kind # "answer"  BY <1>4 DEF Event
<1>6. AnswersIn(e) = <<>>  BY <1>3, <1>5, AnswersOfEvents
<1>. QED  BY <1>1, <1>3, <1>6

-----------------------------------------------------------------------------
(* The mirror.  Whether a serial is listed is told by the packets about it *)
(* and by lists; "added" stands for yes and "removed" for no.              *)

Status(s, list) == IF s \in list THEN "added" ELSE "removed"

IsNews(p, s) == p.kind \in {"added", "removed"} /\ p.serial = s
IsList(p) == p.kind = "answer" /\ p.cmd = "devicelist"
IsChange(p, s) == p.kind = "changed" /\ p.serial = s
Tells(p, s) == IsNews(p, s) \/ IsList(p)
Told(p, s) == IF p.kind = "answer" THEN Status(s, p.list) ELSE p.kind

\* The packets of P between positions j and n are no news of s.
NoNews(P, j, n, s) == \A i \in j + 1 .. n : ~IsNews(P[i], s)

\* What was told last of s is v, be it by the first n packets or before them,
\* in S.
AllSay(P, S, n, s, v) ==
  /\ NoNews(P, 0, n, s) => \A w \in S[s] : w = v
  /\ \A j \in 1 .. n : Tells(P[j], s) /\ NoNews(P, j, n, s) => Told(P[j], s) = v

\* Where it matters what was told of s, and what that should have been: at the
\* end, and wherever a register change of s follows.
Matters(P, n, s) == n = Len(P) \/ (n < Len(P) /\ IsChange(P[n + 1], s))
Truth(P, L, n, s) == IF n = Len(P) THEN Status(s, L) ELSE "added"

Consistent(P, L, S) ==
  \A s \in Serials : \A n \in 0 .. Len(P) :
    Matters(P, n, s) => AllSay(P, S, n, s, Truth(P, L, n, s))

\* Only the first n packets matter.
LEMMA SaySame ==
  ASSUME NEW P, NEW R, NEW S, NEW n \in Nat, NEW s, NEW v, \A i \in 1 .. n : R[i] = P[i],
         AllSay(P, S, n, s, v)
  PROVE  AllSay(R, S, n, s, v)
<1>1. ASSUME NEW j \in 0 .. n, NoNews(R, j, n, s) PROVE NoNews(P, j, n, s)
  <2> SUFFICES ASSUME NEW i \in j + 1 .. n PROVE ~IsNews(P[i], s)  BY DEF NoNews
  <2>1. ~IsNews(R[i], s)  BY <1>1 DEF NoNews
  <2>2. i \in 1 .. n  OBVIOUS
  <2>. QED  BY <2>1, <2>2
<1>2. ASSUME NoNews(R, 0, n, s) PROVE \A w \in S[s] : w = v
  BY <1>1, <1>2 DEF AllSay
<1>3. ASSUME NEW j \in 1 .. n, Tells(R[j], s), NoNews(R, j, n, s) PROVE Told(R[j], s) = v
  <2>1. NoNews(P, j, n, s)  BY <1>1, <1>3
  <2>2. Tells(P[j], s) => Told(P[j], s) = v  BY <2>1 DEF AllSay
  <2>. QED  BY <1>3, <2>2
<1>. QED  BY <1>2, <1>3 DEF AllSay

\* One more packet.
LEMMA SayNext ==
  ASSUME NEW P, NEW R, NEW S, NEW n \in Nat, NEW s, NEW v, NEW u,
         \A i \in 1 .. n : R[i] = P[i],
         AllSay(P, S, n, s, v),
         Tells(R[n + 1], s) => Told(R[n + 1], s) = u,
         ~IsNews(R[n + 1], s) => u = v
  PROVE  AllSay(R, S, n + 1, s, u)
<1>1. AllSay(R, S, n, s, v)  BY SaySame
<1>2. ASSUME NEW j \in 0 .. n, NoNews(R, j, n + 1, s) PROVE u = v /\ NoNews(R, j, n, s)
  <2>1. n + 1 \in j + 1 .. n + 1  OBVIOUS
  <2>2. ~IsNews(R[n + 1], s)  BY <1>2, <2>1 DEF NoNews
  <2>3. \A i \in j + 1 .. n : i \in j + 1 .. n + 1  OBVIOUS
  <2>. QED  BY <1>2, <2>2, <2>3 DEF NoNews
<1>3. ASSUME NoNews(R, 0, n + 1, s) PROVE \A w \in S[s] : w = u
  BY <1>1, <1>2, <1>3 DEF AllSay
<1>4. ASSUME NEW j \in 1 .. n + 1, Tells(R[j], s), NoNews(R, j, n + 1, s)
      PROVE  Told(R[j], s) = u
  <2>1. CASE j = n + 1  BY <1>4, <2>1
  <2>2. CASE j # n + 1
    <3>1. j \in 1 .. n /\ j \in 0 .. n  BY <2>2
    <3>2. u = v /\ NoNews(R, j, n, s)  BY <1>2, <1>4, <3>1
    <3>. QED  BY <1>1, <1>4, <3>1, <3>2 DEF AllSay
  <2>. QED  BY <2>1, <2>2
<1>. QED  BY <1>3, <1>4 DEF AllSay

\* Packet p takes the device list from L to M.
Follows(p, L, M) ==
  \A s \in Serials :
    /\ Tells(p, s) => Told(p, s) = Status(s, M)
    /\ ~IsNews(p, s) => Status(s, L) = Status(s, M)
    /\ IsChange(p, s) => s \in L

\* Such a packet at the end leaves the packets consistent.
LEMMA ConsistentNext ==
  ASSUME NEW P \in Seq(Packet), NEW p \in Packet, NEW S, NEW L, NEW M,
         Follows(p, L, M), Consistent(P, L, S)
  PROVE  Consistent(Append(P, p), M, S)
<1>1. PICK l \in Nat : l = Len(P)  BY LenProperties
<1>2. PICK R \in Seq(Packet) :
        /\ R = Append(P, p) /\ Len(R) = l + 1
        /\ \A i \in 1 .. l : R[i] = P[i]
        /\ R[l + 1] = p
  <2>1. /\ Append(P, p) \in Seq(Packet) /\ Len(Append(P, p)) = Len(P) + 1
        /\ \A i \in 1 .. Len(P) : Append(P, p)[i] = P[i]
        /\ Append(P, p)[Len(P) + 1] = p
    BY ONLY P \in Seq(Packet), p \in Packet, AppendProperties
  <2>. QED  BY <1>1, <2>1
<1> SUFFICES ASSUME NEW s \in Serials, NEW n \in 0 .. l + 1, Matters(R, n, s)
             PROVE  AllSay(R, S, n, s, Truth(R, M, n, s))
  BY <1>2 DEF Consistent
<1>3. AllSay(P, S, l, s, Status(s, L))
  <2>1. l \in 0 .. l  OBVIOUS
  <2>2. Matters(P, l, s) /\ Truth(P, L, l, s) = Status(s, L)
    BY <1>1 DEF Matters, Truth
  <2>. QED  BY <1>1, <2>1, <2>2 DEF Consistent
<1>4. CASE n < l
  <2>1. n \in 0 .. l /\ n # l /\ n # l + 1 /\ n + 1 \in 1 .. l /\ n \in Nat  BY <1>4
  <2>2. IsChange(R[n + 1], s)  BY <1>2, <2>1 DEF Matters
  <2>3. IsChange(P[n + 1], s)  BY <1>2, <2>1, <2>2
  <2>4. Matters(P, n, s)  BY <1>1, <1>4, <2>3 DEF Matters
  <2>5. AllSay(P, S, n, s, "added")
    BY <1>1, <2>1, <2>4 DEF Consistent, Truth
  <2>6. \A i \in 1 .. n : R[i] = P[i]  BY <1>2, <1>4
  <2>7. AllSay(R, S, n, s, "added")  BY <2>1, <2>5, <2>6, SaySame
  <2>. QED  BY <1>2, <2>1, <2>7 DEF Truth
<1>5. CASE n = l
  <2>1. n # l + 1  BY <1>5
  <2>2. IsChange(p, s)  BY <1>2, <1>5, <2>1 DEF Matters
  <2>3. Status(s, L) = "added"  BY <2>2 DEF Follows, Status
  <2>4. AllSay(R, S, l, s, "added")  BY <1>2, <1>3, <2>3, SaySame
  <2>. QED  BY <1>2, <1>5, <2>1, <2>4 DEF Truth
<1>6. CASE n = l + 1
  <2>1. /\ Tells(R[l + 1], s) => Told(R[l + 1], s) = Status(s, M)
        /\ ~IsNews(R[l + 1], s) => Status(s, M) = Status(s, L)
    BY <1>2 DEF Follows
  <2>2. AllSay(R, S, l + 1, s, Status(s, M))  BY <1>2, <1>3, <2>1, SayNext
  <2>. QED  BY <1>2, <1>6, <2>2 DEF Truth
<1>. QED  BY <1>4, <1>5, <1>6

\* The first packet is taken: what it told is told before.
LEMMA ConsistentRest ==
  ASSUME NEW p \in Packet, NEW Q \in Seq(Packet), NEW L, NEW S, NEW T,
         Consistent(<<p>> \o Q, L, S),
         \A s \in Serials : \A w \in T[s] :
           \/ Tells(p, s) /\ w = Told(p, s)
           \/ ~IsNews(p, s) /\ w \in S[s]
  PROVE  Consistent(Q, L, T)
<1>1. PICK l \in Nat : l = Len(Q)  BY LenProperties
<1>2. PICK e \in Seq(Packet) : e = <<p>> /\ Len(e) = 1 /\ e[1] = p
  <2>1. <<p>> \in Seq(Packet)  OBVIOUS
  <2>2. Len(<<p>>) = 1 /\ <<p>>[1] = p  OBVIOUS
  <2>. QED  BY ONLY <2>1, <2>2
<1>3. PICK P \in Seq(Packet) :
        /\ P = <<p>> \o Q /\ Len(P) = 1 + l
        /\ \A i \in 1 .. 1 + l : P[i] = IF i <= 1 THEN e[i] ELSE Q[i - 1]
  <2>1. /\ e \o Q \in Seq(Packet) /\ Len(e \o Q) = Len(e) + Len(Q)
        /\ \A i \in 1 .. Len(e) + Len(Q) :
             (e \o Q)[i] = IF i <= Len(e) THEN e[i] ELSE Q[i - Len(e)]
    BY ONLY e \in Seq(Packet), Q \in Seq(Packet), ConcatProperties
  <2>. QED  BY <1>1, <1>2, <2>1
<1>4. P[1] = p /\ \A i \in 1 .. l : P[i + 1] = Q[i]
  <2>1. P[1] = p  BY <1>2, <1>3
  <2>2. ASSUME NEW i \in 1 .. l PROVE P[i + 1] = Q[i]
    <3>1. i + 1 \in 1 .. 1 + l /\ ~(i + 1 <= 1) /\ (i + 1) - 1 = i  OBVIOUS
    <3>. QED  BY <1>3, <3>1
  <2>. QED  BY <2>1, <2>2
<1> SUFFICES ASSUME NEW s \in Serials, NEW n \in 0 .. l, Matters(Q, n, s)
             PROVE  AllSay(Q, T, n, s, Truth(Q, L, n, s))
  BY <1>1 DEF Consistent
<1>5. PICK v : v = Truth(Q, L, n, s)  OBVIOUS
<1>6. AllSay(P, S, n + 1, s, v)
  <2>1. n + 1 \in 0 .. 1 + l /\ (n + 1 = 1 + l <=> n = l)  OBVIOUS
  <2>2. Matters(P, n + 1, s)
    <3>1. CASE n = l  BY <1>3, <2>1, <3>1 DEF Matters
    <3>2. CASE n # l
      <4>1. n + 1 \in 1 .. l /\ n + 1 < 1 + l  BY <3>2
      <4>2. IsChange(Q[n + 1], s)  BY <1>1, <3>2 DEF Matters
      <4>3. IsChange(P[(n + 1) + 1], s)  BY <1>4, <4>1, <4>2
      <4>. QED  BY <1>3, <4>1, <4>3 DEF Matters
    <3>. QED  BY <3>1, <3>2
  <2>3. Truth(P, L, n + 1, s) = v  BY <1>1, <1>3, <1>5, <2>1 DEF Truth
  <2>. QED  BY <1>3, <2>1, <2>2, <2>3 DEF Consistent
<1>7. ASSUME NEW j \in 0 .. n, NoNews(Q, j, n, s) PROVE NoNews(P, j + 1, n + 1, s)
  <2> SUFFICES ASSUME NEW i \in (j + 1) + 1 .. n + 1 PROVE ~IsNews(P[i], s)
    BY DEF NoNews
  <2>1. PICK k \in j + 1 .. n : i = k + 1 /\ k \in 1 .. l
    <3>1. i - 1 \in j + 1 .. n /\ i = (i - 1) + 1 /\ i - 1 \in 1 .. l  OBVIOUS
    <3>. QED  BY <3>1
  <2>2. ~IsNews(Q[k], s)  BY <1>7 DEF NoNews
  <2>. QED  BY <1>4, <2>1, <2>2
<1>8. ASSUME NoNews(Q, 0, n, s), NEW w \in T[s] PROVE w = v
  <2>1. NoNews(P, 1, n + 1, s)
    <3>1. 0 \in 0 .. n /\ 0 + 1 = 1  OBVIOUS
    <3>. QED  BY <1>7, <1>8, <3>1
  <2>2. CASE Tells(p, s) /\ w = Told(p, s)
    <3>1. 1 \in 1 .. n + 1  OBVIOUS
    <3>2. Tells(P[1], s) /\ NoNews(P, 1, n + 1, s) => Told(P[1], s) = v
      BY <1>6, <3>1 DEF AllSay
    <3>. QED  BY <1>4, <2>1, <2>2, <3>2
  <2>3. CASE ~IsNews(p, s) /\ w \in S[s]
    <3>1. NoNews(P, 0, n + 1, s)
      <4> SUFFICES ASSUME NEW i \in 0 + 1 .. n + 1 PROVE ~IsNews(P[i], s)
        BY DEF NoNews
      <4>1. i = 1 \/ i \in 1 + 1 .. n + 1  OBVIOUS
      <4>. QED  BY <1>4, <2>1, <2>3, <4>1 DEF NoNews
    <3>. QED  BY <1>6, <2>3, <3>1 DEF AllSay
  <2>. QED  BY <2>2, <2>3
<1>9. ASSUME NEW j \in 1 .. n, Tells(Q[j], s), NoNews(Q, j, n, s) PROVE Told(Q[j], s) = v
  <2>1. j \in 0 .. n /\ j \in 1 .. l /\ j + 1 \in 1 .. n + 1  OBVIOUS
  <2>2. NoNews(P, j + 1, n + 1, s) /\ P[j + 1] = Q[j]  BY <1>4, <1>7, <1>9, <2>1
  <2>3. Tells(P[j + 1], s) /\ NoNews(P, j + 1, n + 1, s) => Told(P[j + 1], s) = v
    BY <1>6, <2>1 DEF AllSay
  <2>. QED  BY <1>9, <2>2, <2>3
<1>. QED  BY <1>5, <1>8, <1>9 DEF AllSay

\* Less is told before.
LEMMA ConsistentLess ==
  ASSUME NEW P \in Seq(Packet), NEW L, NEW S, NEW T, Consistent(P, L, S),
         \A s \in Serials : T[s] \subseteq S[s]
  PROVE  Consistent(P, L, T)
<1> SUFFICES ASSUME NEW s \in Serials, NEW n \in 0 .. Len(P), Matters(P, n, s)
             PROVE  AllSay(P, T, n, s, Truth(P, L, n, s))
  BY DEF Consistent
<1>1. AllSay(P, S, n, s, Truth(P, L, n, s))  BY DEF Consistent
<1>. QED  BY <1>1 DEF AllSay

\* A batch of events takes the device list from L to M.
Reports(b, L, M) ==
  \A s \in Serials :
    /\ b[s] = "added" => s \in M
    /\ b[s] = "removed" => s \notin M
    /\ b[s] \in {"none", "changed"} => (s \in L <=> s \in M)
    /\ b[s] = "changed" => s \in L

\* The device list when the events of the serials up to n have happened.
Mid(L, M, n) == {s \in Serials : (s <= n /\ s \in M) \/ (~(s <= n) /\ s \in L)}

\* Each event of the batch takes the list one serial further.
LEMMA MidNext ==
  ASSUME NEW b \in Batch, NEW L, NEW M, Reports(b, L, M),
         NEW n \in Nat, n + 1 <= NumSerials
  PROVE  /\ b[n + 1] = "none" => Mid(L, M, n + 1) = Mid(L, M, n)
         /\ b[n + 1] # "none" =>
              Follows(EventOf(b, n + 1), Mid(L, M, n), Mid(L, M, n + 1))
<1>1. PICK t \in Serials : t = n + 1  BY SessionAssumption DEF Serials
<1>2. \A s \in Serials : s # t => (s <= n + 1 <=> s <= n)  BY <1>1 DEF Serials
<1>3. \A s \in Serials : s # t => (s \in Mid(L, M, n) <=> s \in Mid(L, M, n + 1))
  BY <1>2 DEF Mid
<1>4. /\ t \in Mid(L, M, n) <=> t \in L
      /\ t \in Mid(L, M, n + 1) <=> t \in M
  <2>1. t <= n + 1 /\ ~(t <= n)  BY <1>1
  <2>. QED  BY <2>1 DEF Mid
<1>5. ASSUME b[t] = "none" PROVE Mid(L, M, n + 1) = Mid(L, M, n)
  <2>1. t \in L <=> t \in M  BY <1>5 DEF Reports
  <2>2. \A s \in Serials : s \in Mid(L, M, n) <=> s \in Mid(L, M, n + 1)
    BY <1>3, <1>4, <2>1
  <2>. QED  BY <2>2 DEF Mid
<1>6. ASSUME b[t] # "none"
      PROVE  Follows(EventOf(b, t), Mid(L, M, n), Mid(L, M, n + 1))
  <2>1. PICK p \in Event : p = EventOf(b, t) /\ p.kind = b[t] /\ p.serial = t
    BY <1>6, EventIs
  <2>2. p.kind \in {"added", "removed", "changed"}  BY DEF Event
  <2> SUFFICES ASSUME NEW s \in Serials
               PROVE  /\ Tells(p, s) => Told(p, s) = Status(s, Mid(L, M, n + 1))
                      /\ ~IsNews(p, s) =>
                           Status(s, Mid(L, M, n)) = Status(s, Mid(L, M, n + 1))
                      /\ IsChange(p, s) => s \in Mid(L, M, n)
    BY <2>1 DEF Follows
  <2>3. CASE s # t
    <3>1. ~Tells(p, s) /\ ~IsChange(p, s)
      BY <2>1, <2>2, <2>3 DEF Tells, IsNews, IsList, IsChange
    <3>2. Status(s, Mid(L, M, n)) = Status(s, Mid(L, M, n + 1))
      BY <1>3, <2>3 DEF Status
    <3>. QED  BY <3>1, <3>2
  <2>4. CASE s = t /\ p.kind = "changed"
    <3>1. ~Tells(p, s)  BY <2>4 DEF Tells, IsNews, IsList
    <3>2. t \in L /\ t \in M  BY <2>1, <2>4 DEF Reports
    <3>. QED  BY <1>4, <2>4, <3>1, <3>2 DEF Status
  <2>5. CASE s = t /\ p.kind # "changed"
    <3>1. IsNews(p, s) /\ ~IsChange(p, s)
      BY <2>1, <2>2, <2>5 DEF IsNews, IsChange
    <3>2. Told(p, s) = b[t] /\ b[t] \in {"added", "removed"}
      BY <2>1, <2>2, <2>5 DEF Told
    <3>3. Status(s, Mid(L, M, n + 1)) = b[t]
      BY <1>4, <2>5, <3>2 DEF Reports, Status
    <3>. QED  BY <3>1, <3>2, <3>3
  <2>. QED  BY <2>3, <2>4, <2>5
<1>. QED  BY <1>1, <1>5, <1>6

\* One more packet at the end.
LEMMA PutLast ==
  ASSUME NEW P \in Seq(Packet), NEW Q \in Seq(Packet), NEW p \in Packet
  PROVE  P \o Append(Q, p) = Append(P \o Q, p)
<1>1. PICK e \in Seq(Packet) : e = <<p>>
  <2>1. <<p>> \in Seq(Packet)  OBVIOUS
  <2>. QED  BY <2>1
<1>2. PICK R \in Seq(Packet) : R = Join(P, Q)
  <2>1. P \o Q \in Seq(Packet)
    BY ONLY P \in Seq(Packet), Q \in Seq(Packet), ConcatProperties
  <2>. QED  BY <2>1 DEF Join
<1>3. Append(Q, p) = Join(Q, e) /\ Append(R, p) = Join(R, e)  BY <1>1, AppendJoin
<1>4. Join(Join(P, Q), e) = Join(P, Join(Q, e))  BY JoinAssociative
<1>5. Join(P, Append(Q, p)) = Append(Join(P, Q), p)  BY ONLY <1>2, <1>3, <1>4
<1>. QED  BY ONLY <1>5 DEF Join

\* A batch at the end leaves the packets consistent.
LEMMA ConsistentBatch ==
  ASSUME NEW P \in Seq(Packet), NEW b \in Batch, NEW S,
         NEW L \in SUBSET Serials, NEW M \in SUBSET Serials,
         Reports(b, L, M), Consistent(P, L, S)
  PROVE  Consistent(P \o EventPackets(b), M, S)
<1> DEFINE N == {n \in Nat : n <= NumSerials =>
                               Consistent(P \o Evs(b, n), Mid(L, M, n), S)}
<1>1. 0 \in N
  <2>1. P \o Evs(b, 0) = P  BY EvsIs, ConcatEmptySeq
  <2>2. Mid(L, M, 0) = L
    <3>1. \A s \in Serials : ~(s <= 0)  BY DEF Serials
    <3>. QED  BY <3>1 DEF Mid
  <2>. QED  BY <2>1, <2>2
<1>2. ASSUME NEW n \in Nat, n \in N PROVE n + 1 \in N
  <2> SUFFICES ASSUME n + 1 <= NumSerials
               PROVE  Consistent(P \o Evs(b, n + 1), Mid(L, M, n + 1), S)
    OBVIOUS
  <2>1. n <= NumSerials /\ n + 1 \in Serials  BY SessionAssumption DEF Serials
  <2>2. Consistent(P \o Evs(b, n), Mid(L, M, n), S)  BY <1>2, <2>1
  <2>3. Evs(b, n + 1) = IF b[n + 1] # "none"
                        THEN Append(Evs(b, n), EventOf(b, n + 1)) ELSE Evs(b, n)
    BY EvsIs
  <2>4. CASE b[n + 1] = "none"
    <3>1. Mid(L, M, n + 1) = Mid(L, M, n)  BY <2>4, MidNext
    <3>. QED  BY <2>2, <2>3, <2>4, <3>1
  <2>5. CASE b[n + 1] # "none"
    <3>1. PICK x \in Seq(Packet) : x = Evs(b, n)
      <4>1. Evs(b, n) \in Seq(Event)  BY <2>1, EvsType
      <4>2. Event \subseteq Packet  BY DEF Packet
      <4>. QED  BY ONLY <4>1, <4>2, SeqMonotonic
    <3>2. PICK e \in Packet : e = EventOf(b, n + 1)
      BY <2>1, <2>5, EventIs DEF Packet
    <3>3. PICK y \in Seq(Packet) : y = P \o x
      BY ONLY P \in Seq(Packet), x \in Seq(Packet), ConcatProperties
    <3>4. P \o Append(x, e) = Append(y, e)  BY <3>3, PutLast
    <3>5. Follows(e, Mid(L, M, n), Mid(L, M, n + 1))  BY <2>5, <3>2, MidNext
    <3>6. Consistent(y, Mid(L, M, n), S)  BY <2>2, <3>1, <3>3
    <3>7. Consistent(Append(y, e), Mid(L, M, n + 1), S)
      BY <3>5, <3>6, ConsistentNext
    <3>. QED  BY <2>3, <2>5, <3>1, <3>2, <3>4, <3>7
  <2>. QED  BY <2>4, <2>5
<1> HIDE DEF N
<1>3. \A n \in Nat : n \in N  BY <1>1, <1>2, SetInduction
<1>4. Consistent(P \o Evs(b, NumSerials), Mid(L, M, NumSerials), S)
  BY <1>3, SessionAssumption DEF N
<1>5. Mid(L, M, NumSerials) = M
  <2>1. \A s \in Serials : s <= NumSerials  BY DEF Serials
  <2>. QED  BY <2>1 DEF Mid
<1>. QED  BY <1>4, <1>5, EvsIs

\* What the device registry reports.
LEMMA ReportsAll ==
  ASSUME NEW L \in SUBSET Serials
  PROVE  /\ NoEvents \in Batch /\ Reports(NoEvents, L, L)
         /\ \A s \in Serials : s \notin L =>
              OneEvent(s, "added") \in Batch /\ Reports(OneEvent(s, "added"), L, L \cup {s})
         /\ \A gone \in SUBSET L, changed \in SUBSET L : gone \cap changed = {} =>
              /\ PollEvents(gone, changed) \in Batch
              /\ Reports(PollEvents(gone, changed), L, L \ gone)
<1>1. NoEvents \in Batch /\ Reports(NoEvents, L, L)
  BY DEF NoEvents, Batch, EventKind, Reports
<1>2. ASSUME NEW s \in Serials, s \notin L
      PROVE  /\ OneEvent(s, "added") \in Batch
             /\ Reports(OneEvent(s, "added"), L, L \cup {s})
  BY <1>2 DEF OneEvent, Batch, EventKind, Reports
<1>3. ASSUME NEW gone \in SUBSET L, NEW changed \in SUBSET L, gone \cap changed = {}
      PROVE  /\ PollEvents(gone, changed) \in Batch
             /\ Reports(PollEvents(gone, changed), L, L \ gone)
  <2>1. PICK b : b = PollEvents(gone, changed)  OBVIOUS
  <2>2. \A s \in Serials : b[s] = IF s \in gone THEN "removed"
                                  ELSE IF s \in changed THEN "changed" ELSE "none"
    BY <2>1 DEF PollEvents
  <2>3. b \in Batch  BY <2>1 DEF PollEvents, Batch, EventKind
  <2>4. Reports(b, L, L \ gone)  BY <1>3, <2>2 DEF Reports
  <2>. QED  BY <2>1, <2>3, <2>4
<1>. QED  BY <1>1, <1>2, <1>3

-----------------------------------------------------------------------------
(* The invariant. *)

\* An answer tells of a failure, but for that of reprogram; and the item with
\* the number of the present call is that of the present call.
Fits(r, c, n) == r.id <= n /\ (c # Idle /\ r.id = c.id => r.cmd = c.cmd)
Honest(a) == a.ok => a.done \/ a.cmd = "reprogram"

\* What fits call c, the latest of n.
FitRequests(c, n) == {r \in Request : Fits(r, c, n)}
FitAnswers(c, n) == {a \in Answer : Fits(a, c, n) /\ Honest(a)}
FitPackets(c, n) == Event \cup FitAnswers(c, n)
FitQueued(c, n) == [answer : FitAnswers(c, n), later : SUBSET Serials]

Items ==
  /\ requests \in Seq(FitRequests(call, calls))
  /\ stream \in Seq(FitPackets(call, calls))
  /\ inbox \in Seq(FitPackets(call, calls))
  /\ answers \in Seq(FitQueued(call, calls))

Ends == [id : Nat, cmd : Commands \cup {"none"}, answer : Nat, raised : BOOLEAN,
         done : BOOLEAN]

Scalars ==
  /\ listed \in SUBSET Serials /\ devices \in SUBSET Serials
  /\ overtaken \in SUBSET Serials /\ synced \in BOOLEAN
  /\ calls \in Nat /\ abandoned \in Nat /\ Finished \in Nat
  /\ call # Idle => call \in Request /\ call.id = calls
  /\ last \in Ends

\* Told before the packets under way: by the mirror and by the lists that wait
\* to replace it.
Sources ==
  [s \in Serials |->
     {w \in {"added", "removed"} :
        \/ synced /\ s \notin overtaken /\ w = Status(s, devices)
        \/ \E i \in DOMAIN answers :
             /\ answers[i].answer.cmd = "devicelist" /\ s \notin answers[i].later
             /\ w = Status(s, answers[i].answer.list)}]

Mirrored == Consistent(inbox \o stream, listed, Sources)

IInv == Items /\ Scalars /\ AnswersInOrder /\ FailureIsRaised /\ Mirrored

\* What fits is of its type.
LEMMA FitSets ==
  ASSUME NEW c, NEW n
  PROVE  /\ FitRequests(c, n) \subseteq Request
         /\ FitAnswers(c, n) \subseteq Answer
         /\ FitPackets(c, n) \subseteq Packet
         /\ Event \subseteq FitPackets(c, n)
         /\ FitAnswers(c, n) \subseteq FitPackets(c, n)
         /\ FitQueued(c, n) \subseteq Queued
<1>1. FitAnswers(c, n) \subseteq Answer  BY DEF FitAnswers
<1>2. FitRequests(c, n) \subseteq Request  BY DEF FitRequests
<1>3. FitPackets(c, n) \subseteq Packet  BY <1>1 DEF FitPackets, Packet
<1>4. FitQueued(c, n) \subseteq Queued  BY <1>1 DEF FitQueued, Queued
<1>. QED  BY <1>1, <1>2, <1>3, <1>4 DEF FitPackets

\* What fits one call may fit another.
LEMMA FitSetsGrow ==
  ASSUME NEW c, NEW n, NEW d, NEW m,
         \A r \in Request \cup Answer : Fits(r, c, n) => Fits(r, d, m)
  PROVE  /\ FitRequests(c, n) \subseteq FitRequests(d, m)
         /\ FitPackets(c, n) \subseteq FitPackets(d, m)
         /\ FitQueued(c, n) \subseteq FitQueued(d, m)
<1>1. FitAnswers(c, n) \subseteq FitAnswers(d, m)  BY DEF FitAnswers
<1>2. FitRequests(c, n) \subseteq FitRequests(d, m)  BY DEF FitRequests
<1>3. FitPackets(c, n) \subseteq FitPackets(d, m)  BY <1>1 DEF FitPackets
<1>4. FitQueued(c, n) \subseteq FitQueued(d, m)  BY <1>1 DEF FitQueued
<1>. QED  BY <1>2, <1>3, <1>4

\* So may sequences of it.
LEMMA ItemsGrow ==
  ASSUME NEW c, NEW n, NEW d, NEW m,
         \A r \in Request \cup Answer : Fits(r, c, n) => Fits(r, d, m)
  PROVE  /\ Seq(FitRequests(c, n)) \subseteq Seq(FitRequests(d, m))
         /\ Seq(FitPackets(c, n)) \subseteq Seq(FitPackets(d, m))
         /\ Seq(FitQueued(c, n)) \subseteq Seq(FitQueued(d, m))
BY FitSetsGrow, SeqMonotonic

\* The four sequences are of their types.
LEMMA ItemsType ==
  ASSUME Items
  PROVE  /\ requests \in Seq(Request) /\ stream \in Seq(Packet)
         /\ inbox \in Seq(Packet) /\ answers \in Seq(Queued)
<1>1. requests \in Seq(Request)
  <2>1. requests \in Seq(FitRequests(call, calls))  BY DEF Items
  <2>2. FitRequests(call, calls) \subseteq Request  BY FitSets
  <2>. QED  BY ONLY <2>1, <2>2, SeqMonotonic
<1>2. stream \in Seq(Packet) /\ inbox \in Seq(Packet)
  <2>1. stream \in Seq(FitPackets(call, calls)) /\ inbox \in Seq(FitPackets(call, calls))
    BY DEF Items
  <2>2. FitPackets(call, calls) \subseteq Packet  BY FitSets
  <2>. QED  BY ONLY <2>1, <2>2, SeqMonotonic
<1>3. answers \in Seq(Queued)
  <2>1. answers \in Seq(FitQueued(call, calls))  BY DEF Items
  <2>2. FitQueued(call, calls) \subseteq Queued  BY FitSets
  <2>. QED  BY ONLY <2>1, <2>2, SeqMonotonic
<1>. QED  BY <1>1, <1>2, <1>3

-----------------------------------------------------------------------------
(* The numbers of longer and shorter sequences. *)

\* Requests and answers have numbers.
LEMMA HaveIds == (\A r \in Request : r.id \in Nat) /\ (\A a \in Answer : a.id \in Nat)
BY DEF Request, Answer

\* The number of one item.
LEMMA IdsOne ==
  ASSUME NEW x, x.id \in Nat
  PROVE  IdsOf(<<x>>) = <<x.id>>
<1>1. DOMAIN <<x>> = 1 .. 1 /\ <<x>>[1] = x  OBVIOUS
<1>2. IdsOf(<<x>>) = [i \in 1 .. 1 |-> x.id]
  <2>1. \A i \in 1 .. 1 : i = 1  OBVIOUS
  <2>. QED  BY <1>1, <2>1 DEF IdsOf
<1>. QED  BY <1>2

\* The ids of packets are numbers.
LEMMA IdsInType ==
  ASSUME NEW P \in Seq(Packet)
  PROVE  IdsIn(P) \in Numbers
<1>1. AnswersIn(P) \in Seq(Answer)  BY AnswersType
<1>2. IdsOf(AnswersIn(P)) \in Seq(Nat)  BY <1>1, IdsType, HaveIds
<1>. QED  BY <1>2 DEF IdsIn, Numbers

\* The ids of requests are numbers.
LEMMA RequestsType ==
  ASSUME NEW s \in Seq(Request)
  PROVE  IdsOf(s) \in Numbers
BY IdsType, HaveIds DEF Numbers

\* The ids of the answers that wait are numbers.
LEMMA AnswersIds ==
  ASSUME NEW q \in Seq(Queued)
  PROVE  IdsQueued(q) \in Numbers
BY QueuedType DEF Numbers

\* A number alone.
LEMMA OneNumber == \A n \in Nat : <<n>> \in Numbers
BY DEF Numbers

\* A request is appended (Call).
LEMMA RequestSent ==
  ASSUME NEW s \in Seq(Request), NEW r \in Request
  PROVE  IdsOf(Append(s, r)) = Join(IdsOf(s), <<r.id>>)
<1>1. <<r>> \in Seq(Request)  OBVIOUS
<1>2. Append(s, r) = s \o <<r>>  BY ONLY s \in Seq(Request), r \in Request, AppendIsConcat
<1>3. IdsOf(s \o <<r>>) = IdsOf(s) \o IdsOf(<<r>>)  BY <1>1, IdsConcat, HaveIds
<1>4. IdsOf(<<r>>) = <<r.id>>  BY HaveIds, IdsOne
<1>. QED  BY <1>2, <1>3, <1>4 DEF Join

\* The first request is taken (handleRequest).
LEMMA RequestTaken ==
  ASSUME NEW s \in Seq(Request), s # <<>>
  PROVE  IdsOf(s) = Join(<<Head(s).id>>, IdsOf(Tail(s)))
<1>1. PICK r \in Request : r = Head(s)  BY HeadAndTail
<1>2. PICK t \in Seq(Request) : t = Tail(s)  BY HeadAndTail
<1>3. s = <<r>> \o t  BY <1>1, <1>2, HeadAndTail
<1>4. <<r>> \in Seq(Request)  OBVIOUS
<1>5. IdsOf(<<r>> \o t) = IdsOf(<<r>>) \o IdsOf(t)  BY <1>4, IdsConcat, HaveIds
<1>6. IdsOf(<<r>>) = <<r.id>>  BY HaveIds, IdsOne
<1>. QED  BY <1>1, <1>2, <1>3, <1>5, <1>6 DEF Join

\* The ids of packets behind packets.
LEMMA PacketsJoined ==
  ASSUME NEW P \in Seq(Packet), NEW Q \in Seq(Packet)
  PROVE  IdsIn(P \o Q) = Join(IdsIn(P), IdsIn(Q))
<1>1. AnswersIn(P) \in Seq(Answer) /\ AnswersIn(Q) \in Seq(Answer)  BY AnswersType
<1>2. IdsOf(AnswersIn(P) \o AnswersIn(Q)) = IdsOf(AnswersIn(P)) \o IdsOf(AnswersIn(Q))
  BY <1>1, IdsConcat, HaveIds
<1>3. AnswersIn(P \o Q) = AnswersIn(P) \o AnswersIn(Q)  BY AnswersConcat
<1>. QED  BY <1>2, <1>3 DEF IdsIn, Join

\* Nothing has no ids.
LEMMA IdsOfNone == IdsOf(<<>>) = <<>> /\ IdsQueued(<<>>) = <<>>
BY DEF IdsOf, IdsQueued

\* The id of one packet.
LEMMA PacketIds ==
  ASSUME NEW p \in Packet
  PROVE  IdsIn(<<p>>) = IF p.kind = "answer" THEN <<p.id>> ELSE <<>>
<1>1. CASE p.kind = "answer"
  <2>1. p.id \in Nat  BY <1>1, PacketIs, HaveIds
  <2>2. IdsOf(<<p>>) = <<p.id>>  BY <2>1, IdsOne
  <2>3. AnswersIn(<<p>>) = <<p>>  BY <1>1, AnswersOfOne
  <2>. QED  BY <1>1, <2>2, <2>3 DEF IdsIn
<1>2. CASE p.kind # "answer"
  <2>1. AnswersIn(<<p>>) = <<>>  BY <1>2, AnswersOfOne
  <2>. QED  BY <1>2, <2>1, IdsOfNone DEF IdsIn
<1>. QED  BY <1>1, <1>2

\* Events add no ids.
LEMMA BatchIds ==
  ASSUME NEW P \in Seq(Packet), NEW b \in Batch
  PROVE  IdsIn(P \o EventPackets(b)) = IdsIn(P)
<1>1. PICK E \in Seq(Packet) : E = EventPackets(b) /\ AnswersIn(E) = <<>>
  BY EventPacketsType
<1>2. IdsIn(E) = <<>>  BY <1>1, IdsOfNone DEF IdsIn
<1>3. IdsIn(P \o E) = Join(IdsIn(P), IdsIn(E))  BY PacketsJoined
<1>4. IdsIn(P) \in Numbers  BY IdsInType
<1>. QED  BY <1>1, <1>2, <1>3, <1>4, NoneIsNeutral

\* The first answer that waits is taken (Return).
LEMMA QueuedTaken ==
  ASSUME NEW q \in Seq(Queued), q # <<>>
  PROVE  IdsQueued(q) = Join(<<Head(q).answer.id>>, IdsQueued(Tail(q)))
<1>1. PICK l \in Nat : l + 1 = Len(q)
  <2>1. PICK m \in Nat : m = Len(q)  BY LenProperties
  <2>2. m # 0  BY <2>1, EmptySeq
  <2>. QED  BY <2>1, <2>2
<1>2. PICK t \in Seq(Queued) :
        /\ t = Tail(q) /\ Len(t) = l
        /\ \A i \in 1 .. l : t[i] = q[i + 1]
  <2>1. /\ Tail(q) \in Seq(Queued) /\ Len(Tail(q)) = Len(q) - 1
        /\ \A i \in 1 .. Len(Tail(q)) : Tail(q)[i] = q[i + 1]
    BY ONLY q \in Seq(Queued), q # <<>>, HeadTailProperties
  <2>2. Len(Tail(q)) = l  BY ONLY <1>1, <2>1, l \in Nat
  <2>. QED  BY ONLY <2>1, <2>2
<1>3. PICK a \in Seq(Nat) : /\ a = IdsQueued(q) /\ Len(a) = l + 1
                            /\ \A i \in 1 .. l + 1 : a[i] = q[i].answer.id
  <2>1. /\ IdsQueued(q) \in Seq(Nat) /\ Len(IdsQueued(q)) = Len(q)
        /\ \A i \in 1 .. Len(q) : IdsQueued(q)[i] = q[i].answer.id
    BY QueuedType
  <2>. QED  BY <1>1, <2>1
<1>4. PICK b \in Seq(Nat) : /\ b = IdsQueued(t) /\ Len(b) = l
                            /\ \A i \in 1 .. l : b[i] = t[i].answer.id
  <2>1. /\ IdsQueued(t) \in Seq(Nat) /\ Len(IdsQueued(t)) = Len(t)
        /\ \A i \in 1 .. Len(t) : IdsQueued(t)[i] = t[i].answer.id
    BY QueuedType
  <2>. QED  BY <1>2, <2>1
<1>5. a # <<>>
  <2>1. Len(a) # 0  BY <1>3
  <2>2. Len(<<>>) = 0  OBVIOUS
  <2>. QED  BY ONLY <2>1, <2>2
<1>6. a = <<a[1]>> \o Tail(a)  BY <1>5, HeadAndTail
<1>7. PICK c \in Seq(Nat) : /\ c = Tail(a) /\ Len(c) = l
                            /\ \A i \in 1 .. l : c[i] = a[i + 1]
  <2>1. /\ Tail(a) \in Seq(Nat) /\ Len(Tail(a)) = Len(a) - 1
        /\ \A i \in 1 .. Len(Tail(a)) : Tail(a)[i] = a[i + 1]
    BY ONLY a \in Seq(Nat), <1>5, HeadTailProperties
  <2>2. Len(Tail(a)) = l  BY ONLY <1>3, <2>1, l \in Nat
  <2>. QED  BY ONLY <2>1, <2>2
<1>8. ASSUME NEW i \in 1 .. l PROVE c[i] = b[i]
  <2>1. i + 1 \in 1 .. l + 1  OBVIOUS
  <2>2. c[i] = q[i + 1].answer.id  BY <1>3, <1>7, <2>1
  <2>3. b[i] = q[i + 1].answer.id  BY <1>2, <1>4
  <2>. QED  BY ONLY <2>2, <2>3
<1>9. c = b
  <2>1. Len(c) = Len(b) /\ \A i \in 1 .. Len(c) : c[i] = b[i]  BY <1>4, <1>7, <1>8
  <2>. QED  BY ONLY <2>1, c \in Seq(Nat), b \in Seq(Nat), SeqEqual
<1>10. a[1] = Head(q).answer.id
  <2>1. 1 \in 1 .. l + 1  OBVIOUS
  <2>2. Head(q) = q[1]  BY HeadAndTail
  <2>. QED  BY <1>3, <2>1, <2>2
<1>. QED  BY <1>2, <1>3, <1>4, <1>6, <1>7, <1>9, <1>10 DEF Join

-----------------------------------------------------------------------------
(* The invariant holds initially. *)

LastFits ==
  last # Nothing => last.id >= last.answer /\ last.id - last.answer <= abandoned

\* AnswersInOrder in these terms, before and after a step.
LEMMA OrderIs ==
  /\ AnswersInOrder <=>
       /\ Way(IdsQueued(answers), IdsIn(inbox), IdsIn(stream), IdsOf(requests))
            = From(Finished, calls - Finished)
       /\ LastFits
  /\ AnswersInOrder' <=>
       /\ Way(IdsQueued(answers'), IdsIn(inbox'), IdsIn(stream'), IdsOf(requests'))
            = From(Finished', calls' - Finished')
       /\ LastFits'
<1>1. AnswersInOrder <=>
        /\ Way(IdsQueued(answers), IdsIn(inbox), IdsIn(stream), IdsOf(requests))
             = From(Finished, calls - Finished)
        /\ LastFits
  BY UnderWayIs DEF AnswersInOrder, From, LastFits
<1>2. UnderWay' = Way(IdsQueued(answers'), IdsIn(inbox'), IdsIn(stream'), IdsOf(requests'))
  BY DEF UnderWay, Way, Join, IdsQueued, IdsIn, IdsOf
<1>3. AnswersInOrder' <=>
        /\ Way(IdsQueued(answers'), IdsIn(inbox'), IdsIn(stream'), IdsOf(requests'))
             = From(Finished', calls' - Finished')
        /\ LastFits'
  BY <1>2 DEF AnswersInOrder, From, LastFits
<1>. QED  BY <1>1, <1>3

\* Before the first call has ended.
LEMMA NothingIs == Nothing \in Ends /\ Nothing.raised
BY DEF Nothing, Ends

\* Nothing is under way.
LEMMA NoPackets ==
  /\ \A S : <<>> \in Seq(S)
  /\ IdsIn(<<>>) = <<>> /\ <<>> \o <<>> = <<>> /\ Len(<<>>) = 0
<1>1. \A S : <<>> \in Seq(S)  BY EmptySeq
<1>2. Len(<<>>) = 0  OBVIOUS
<1>3. PICK P \in Seq(Packet) : P = <<>> /\ Len(P) = 0  BY <1>1, <1>2
<1>4. AnswersIn(P) = <<>>
  <2>1. \A i \in 1 .. Len(P) : P[i].kind # "answer"  BY <1>3
  <2>. QED  BY <2>1, AnswersOfEvents
<1>5. IdsIn(<<>>) = <<>>  BY <1>3, <1>4, IdsOfNone DEF IdsIn
<1>6. P \o <<>> = P  BY ConcatEmptySeq
<1>. QED  BY <1>1, <1>2, <1>3, <1>5, <1>6

\* The invariant holds when the connection is accepted.
LEMMA InitHolds == Init => IInv
<1> SUFFICES ASSUME Init PROVE IInv  OBVIOUS
<1> USE DEF Init
<1>1. Items  BY NoPackets DEF Items
<1>2. Finished = 0  BY DEF Finished
<1>3. Scalars  BY <1>2, NothingIs DEF Scalars
<1>4. AnswersInOrder
  <2>1. Way(<<>>, <<>>, <<>>, <<>>) = <<>>  BY NoneIsNeutral DEF Way
  <2>2. From(0, 0) = <<>>
    <3>1. From(0, 0) \in Seq(Nat) /\ Len(From(0, 0)) = 0  BY FromIs
    <3>2. From(0, 0) # <<>> => Len(From(0, 0)) \in Nat \ {0}  BY <3>1, EmptySeq
    <3>. QED  BY <3>1, <3>2
  <2>3. LastFits  BY DEF LastFits
  <2>4. calls - Finished = 0  BY <1>2
  <2>. QED  BY <1>2, <2>1, <2>2, <2>3, <2>4, OrderIs, NoPackets, IdsOfNone
<1>5. FailureIsRaised  BY NothingIs DEF FailureIsRaised
<1>6. Mirrored
  <2> SUFFICES ASSUME NEW s \in Serials, NEW n \in 0 .. 0
               PROVE  AllSay(<<>>, Sources, n, s, Truth(<<>>, listed, n, s))
    BY NoPackets DEF Mirrored, Consistent
  <2>1. Sources[s] = {}
    <3>1. DOMAIN answers = {}  OBVIOUS
    <3>2. synced = FALSE  OBVIOUS
    <3>. QED  BY ONLY <3>1, <3>2, s \in Serials DEF Sources
  <2>2. 1 .. n = {}  OBVIOUS
  <2>. QED  BY <2>1, <2>2 DEF AllSay
<1>. QED  BY <1>1, <1>3, <1>4, <1>5, <1>6 DEF IInv

-----------------------------------------------------------------------------
(* The steps of the server. *)

\* Events fit every call.
LEMMA BatchFits ==
  ASSUME NEW c, NEW n, NEW P \in Seq(FitPackets(c, n)), NEW b \in Batch
  PROVE  P \o EventPackets(b) \in Seq(FitPackets(c, n))
<1>1. EventPackets(b) \in Seq(Event)  BY EventPacketsType
<1>2. Event \subseteq FitPackets(c, n)  BY FitSets
<1>3. EventPackets(b) \in Seq(FitPackets(c, n))  BY ONLY <1>1, <1>2, SeqMonotonic
<1>. QED  BY ONLY <1>3, P \in Seq(FitPackets(c, n)), ConcatProperties

\* A batch is sent behind what is under way.
LEMMA BatchMirrored ==
  ASSUME NEW I \in Seq(Packet), NEW Q \in Seq(Packet), NEW b \in Batch, NEW S,
         NEW L \in SUBSET Serials, NEW M \in SUBSET Serials,
         Reports(b, L, M), Consistent(I \o Q, L, S)
  PROVE  Consistent(I \o (Q \o EventPackets(b)), M, S)
<1>1. PICK E \in Seq(Packet) : E = EventPackets(b)  BY EventPacketsType
<1>2. PICK P \in Seq(Packet) : P = I \o Q
  BY ONLY I \in Seq(Packet), Q \in Seq(Packet), ConcatProperties
<1>3. P \o E = I \o (Q \o E)
  <2>1. Join(Join(I, Q), E) = Join(I, Join(Q, E))  BY JoinAssociative
  <2>. QED  BY ONLY <1>2, <2>1 DEF Join
<1>4. Consistent(P \o E, M, S)  BY <1>1, <1>2, ConsistentBatch
<1>. QED  BY <1>1, <1>3, <1>4

\* What a step of the device manager reports is true.
LEMMA ManagerReports ==
  ASSUME ManagerStep, listed \in SUBSET Serials
  PROVE  /\ emitted' \in Batch /\ listed' \in SUBSET Serials
         /\ Reports(emitted', listed, listed')
<1>1. \/ Silent
      \/ \E s \in Serials : AddDevice(s)
      \/ \E gone, changed \in SUBSET listed : Update(gone, changed)
  BY DEF ManagerStep
<1>2. CASE Silent
  BY <1>2, ReportsAll DEF Silent
<1>3. ASSUME NEW s \in Serials, AddDevice(s)
      PROVE  /\ emitted' \in Batch /\ listed' \in SUBSET Serials
             /\ Reports(emitted', listed, listed')
  BY <1>3, ReportsAll DEF AddDevice
<1>4. ASSUME NEW gone \in SUBSET listed, NEW changed \in SUBSET listed, Update(gone, changed)
      PROVE  /\ emitted' \in Batch /\ listed' \in SUBSET Serials
             /\ Reports(emitted', listed, listed')
  BY <1>4, ReportsAll DEF Update
<1>. QED  BY <1>1, <1>2, <1>3, <1>4

\* Steps of the device manager.
LEMMA ManagerStepHolds == IInv /\ ManagerStep => IInv'
<1> SUFFICES ASSUME IInv, ManagerStep PROVE IInv'  OBVIOUS
<1>1. Items /\ Scalars /\ AnswersInOrder /\ FailureIsRaised /\ Mirrored  BY DEF IInv
<1>2. /\ requests \in Seq(Request) /\ stream \in Seq(Packet)
      /\ inbox \in Seq(Packet) /\ answers \in Seq(Queued)
  BY <1>1, ItemsType
<1>3. listed \in SUBSET Serials  BY <1>1 DEF Scalars
<1>4. /\ emitted' \in Batch /\ listed' \in SUBSET Serials
      /\ Reports(emitted', listed, listed')
  BY <1>3, ManagerReports
<1>5. /\ stream' = stream \o EventPackets(emitted')
      /\ UNCHANGED <<requests, clientVars>>
  BY DEF ManagerStep
<1>6. Items'
  <2>1. stream \in Seq(FitPackets(call, calls))  BY <1>1 DEF Items
  <2>2. stream' \in Seq(FitPackets(call, calls))  BY <1>4, <1>5, <2>1, BatchFits
  <2>. QED  BY <1>1, <1>5, <2>2 DEF Items, clientVars
<1>7. Finished' = Finished  BY <1>5 DEF Finished, clientVars
<1>8. Scalars'  BY <1>1, <1>4, <1>5, <1>7 DEF Scalars, clientVars
<1>9. AnswersInOrder'
  <2>1. IdsIn(stream') = IdsIn(stream)  BY <1>2, <1>4, <1>5, BatchIds
  <2>2. LastFits' <=> LastFits  BY <1>5 DEF LastFits, clientVars
  <2>3. UNCHANGED <<answers, inbox, requests, calls>>  BY <1>5 DEF clientVars
  <2>. QED  BY <1>1, <1>7, <2>1, <2>2, <2>3, OrderIs
<1>10. FailureIsRaised'  BY <1>1, <1>5 DEF FailureIsRaised, clientVars
<1>11. Mirrored'
  <2>1. Sources' = Sources  BY <1>5 DEF Sources, clientVars
  <2>2. inbox' = inbox  BY <1>5 DEF clientVars
  <2>3. Consistent(inbox \o stream, listed, Sources)  BY <1>1 DEF Mirrored
  <2>4. Consistent(inbox \o (stream \o EventPackets(emitted')), listed', Sources)
    BY <1>2, <1>3, <1>4, <2>3, BatchMirrored
  <2>. QED  BY <1>5, <2>1, <2>2, <2>4 DEF Mirrored
<1>. QED  BY <1>6, <1>8, <1>9, <1>10, <1>11 DEF IInv

\* What is answered fits the request, and tells the device list.
LEMMA ReplyIs ==
  ASSUME NEW c, NEW n, NEW r \in FitRequests(c, n), listed \in SUBSET Serials,
         NEW a \in Replies(r)
  PROVE  /\ a \in FitAnswers(c, n) /\ a.kind = "answer" /\ a.id = r.id
         /\ IsList(a) => a.list = listed
         /\ r.cmd = "access" /\ a.done => r.serial \in listed
<1> DEFINE Made(ok, done, list) ==
             a = [kind |-> "answer", id |-> r.id, cmd |-> r.cmd,
                  ok |-> ok, done |-> done, list |-> list]
<1>1. r \in Request /\ Fits(r, c, n) /\ r.cmd \in Commands  BY DEF FitRequests, Request
<1>2. \/ r.cmd = "devicelist" /\ Made(TRUE, TRUE, listed)
      \/ r.cmd \in {"reprogram", "access"} /\ Made(FALSE, FALSE, {})
      \/ r.cmd \in {"reprogram", "access"} /\ r.serial \in listed /\ Made(TRUE, TRUE, {})
      \/ r.cmd = "reprogram" /\ Made(TRUE, FALSE, {})
  BY <1>1 DEF Replies, devicelist, reprogram, access, Reply, Commands
<1>3. ASSUME NEW ok \in BOOLEAN, NEW done \in BOOLEAN, NEW list \in SUBSET Serials,
             Made(ok, done, list), ok => done \/ r.cmd = "reprogram"
      PROVE  /\ a \in FitAnswers(c, n) /\ a.kind = "answer" /\ a.id = r.id
             /\ a.cmd = r.cmd /\ a.list = list
  <2>1. /\ a.kind = "answer" /\ a.id = r.id /\ a.cmd = r.cmd /\ a.list = list
        /\ (a.ok <=> ok) /\ (a.done <=> done)
    BY <1>3
  <2>2. a \in Answer  BY <1>1, <1>3 DEF Answer, Request
  <2>3. Fits(a, c, n)  BY <1>1, <2>1 DEF Fits
  <2>4. Honest(a)  BY <1>3, <2>1 DEF Honest
  <2>. QED  BY <2>1, <2>2, <2>3, <2>4 DEF FitAnswers
<1>4. CASE r.cmd = "devicelist" /\ Made(TRUE, TRUE, listed)
  <2>1. r.cmd # "access"  BY <1>4
  <2>. QED  BY <1>3, <1>4, <2>1
<1>5. CASE r.cmd \in {"reprogram", "access"} /\ Made(FALSE, FALSE, {})
  <2>1. r.cmd # "devicelist" /\ ~a.done  BY <1>5
  <2>. QED  BY <1>3, <1>5, <2>1 DEF IsList
<1>6. CASE r.cmd \in {"reprogram", "access"} /\ r.serial \in listed /\ Made(TRUE, TRUE, {})
  <2>1. r.cmd # "devicelist"  BY <1>6
  <2>. QED  BY <1>3, <1>6, <2>1 DEF IsList
<1>7. CASE r.cmd = "reprogram" /\ Made(TRUE, FALSE, {})
  <2>1. r.cmd # "devicelist" /\ r.cmd # "access"  BY <1>7
  <2>. QED  BY <1>3, <1>7, <2>1 DEF IsList
<1>. QED  BY <1>2, <1>4, <1>5, <1>6, <1>7

\* A request is answered.
LEMMA handleRequestHolds == IInv /\ handleRequest => IInv'
<1> SUFFICES ASSUME IInv, handleRequest PROVE IInv'  OBVIOUS
<1>1. Items /\ Scalars /\ AnswersInOrder /\ FailureIsRaised /\ Mirrored  BY DEF IInv
<1>2. /\ requests \in Seq(Request) /\ stream \in Seq(Packet)
      /\ inbox \in Seq(Packet) /\ answers \in Seq(Queued)
  BY <1>1, ItemsType
<1>3. listed \in SUBSET Serials  BY <1>1 DEF Scalars
<1>4. requests # <<>> /\ requests' = Tail(requests) /\ UNCHANGED <<changes, clientVars>>
  BY DEF handleRequest
<1>5. /\ Head(requests) \in FitRequests(call, calls)
      /\ Tail(requests) \in Seq(FitRequests(call, calls))
  <2>1. requests \in Seq(FitRequests(call, calls))  BY <1>1 DEF Items
  <2>. QED  BY ONLY <1>4, <2>1, HeadTailProperties
<1>6. PICK r \in FitRequests(call, calls) : r = Head(requests)  BY <1>5
<1> DEFINE May(a) == IF r.cmd = "access" /\ a.done THEN {r.serial} ELSE {}
<1>7. PICK a \in Replies(r) :
        /\ \E changed \in SUBSET May(a) : Update({}, changed)
        /\ stream' = Append(stream \o EventPackets(emitted'), a)
  BY <1>6 DEF handleRequest
<1>8. /\ a \in FitAnswers(call, calls) /\ a.kind = "answer" /\ a.id = r.id
      /\ IsList(a) => a.list = listed
      /\ r.cmd = "access" /\ a.done => r.serial \in listed
  BY <1>3, ReplyIs
<1>9. PICK changed \in SUBSET listed : Update({}, changed)
  <2>1. May(a) \subseteq listed  BY <1>8
  <2>. QED  BY <1>7, <2>1
<1>10. emitted' \in Batch /\ listed' = listed /\ Reports(emitted', listed, listed)
  <2>1. listed' = listed \ {} /\ emitted' = PollEvents({}, changed)
    BY <1>9 DEF Update
  <2>2. listed \ {} = listed /\ {} \in SUBSET listed /\ {} \cap changed = {}  OBVIOUS
  <2>. QED  BY <1>3, <2>1, <2>2, ReportsAll
<1>11. a \in Packet /\ a \in FitPackets(call, calls)  BY <1>8, FitSets
<1>12. PICK X \in Seq(FitPackets(call, calls)) :
         X = stream \o EventPackets(emitted') /\ X \in Seq(Packet) /\ IdsIn(X) = IdsIn(stream)
  <2>1. stream \in Seq(FitPackets(call, calls))  BY <1>1 DEF Items
  <2>2. PICK X \in Seq(FitPackets(call, calls)) : X = stream \o EventPackets(emitted')
    BY <1>10, <2>1, BatchFits
  <2>3. FitPackets(call, calls) \subseteq Packet  BY FitSets
  <2>4. X \in Seq(Packet)  BY ONLY <2>3, X \in Seq(FitPackets(call, calls)), SeqMonotonic
  <2>5. IdsIn(X) = IdsIn(stream)  BY <1>2, <1>10, <2>2, BatchIds
  <2>. QED  BY <2>2, <2>4, <2>5
<1>13. Items'
  <2>1. Append(X, a) \in Seq(FitPackets(call, calls))
    BY ONLY <1>11, X \in Seq(FitPackets(call, calls)), AppendProperties
  <2>. QED  BY <1>1, <1>4, <1>5, <1>7, <1>12, <2>1 DEF Items, clientVars
<1>14. Finished' = Finished  BY <1>4 DEF Finished, clientVars
<1>15. Scalars'  BY <1>1, <1>4, <1>10, <1>14 DEF Scalars, clientVars
<1>16. AnswersInOrder'
  <2>1. PICK x \in Numbers : x = <<a.id>>
    <3>1. a.id \in Nat  BY <1>8, FitSets, HaveIds
    <3>. QED  BY <3>1, OneNumber
  <2>2. IdsIn(stream') = Join(IdsIn(stream), x)
    <3>1. <<a>> \in Seq(Packet)  BY <1>11
    <3>2. Append(X, a) = X \o <<a>>
      BY ONLY <1>11, <1>12, X \in Seq(FitPackets(call, calls)), AppendIsConcat
    <3>3. IdsIn(X \o <<a>>) = Join(IdsIn(X), IdsIn(<<a>>))
      BY <1>12, <3>1, PacketsJoined
    <3>4. IdsIn(<<a>>) = x  BY <1>8, <1>11, <2>1, PacketIds
    <3>. QED  BY <1>7, <1>12, <3>2, <3>3, <3>4
  <2>3. IdsOf(requests) = Join(x, IdsOf(requests'))
    BY <1>2, <1>4, <1>6, <1>8, <2>1, RequestTaken
  <2>4. /\ IdsQueued(answers) \in Numbers /\ IdsIn(inbox) \in Numbers
        /\ IdsIn(stream) \in Numbers
    BY <1>2, IdsInType, AnswersIds
  <2>5. IdsOf(requests') \in Numbers
    <3>1. requests' \in Seq(Request)  BY <1>2, <1>4, HeadAndTail
    <3>. QED  BY <3>1, RequestsType
  <2>6. Way(IdsQueued(answers), IdsIn(inbox), IdsIn(stream'), IdsOf(requests'))
          = Way(IdsQueued(answers), IdsIn(inbox), IdsIn(stream), IdsOf(requests))
    BY <2>2, <2>3, <2>4, <2>5, WayAnswered
  <2>7. LastFits' <=> LastFits  BY <1>4 DEF LastFits, clientVars
  <2>8. UNCHANGED <<answers, inbox, calls>>  BY <1>4 DEF clientVars
  <2>. QED  BY <1>1, <1>14, <2>6, <2>7, <2>8, OrderIs
<1>17. FailureIsRaised'  BY <1>1, <1>4 DEF FailureIsRaised, clientVars
<1>18. Mirrored'
  <2>1. Sources' = Sources  BY <1>4 DEF Sources, clientVars
  <2>2. Consistent(inbox \o X, listed, Sources)
    BY <1>1, <1>2, <1>3, <1>10, <1>12, BatchMirrored DEF Mirrored
  <2>3. Follows(a, listed, listed)
    BY <1>8 DEF Follows, Tells, Told, IsNews, IsChange
  <2>4. PICK Y \in Seq(Packet) : Y = inbox \o X
    BY ONLY <1>2, <1>12, ConcatProperties
  <2>5. Consistent(Append(Y, a), listed, Sources)
    BY <1>11, <2>2, <2>3, <2>4, ConsistentNext
  <2>6. inbox \o Append(X, a) = Append(Y, a)  BY <1>2, <1>11, <1>12, <2>4, PutLast
  <2>7. inbox' = inbox /\ stream' = Append(X, a)  BY <1>4, <1>7, <1>12 DEF clientVars
  <2>. QED  BY <1>10, <2>1, <2>5, <2>6, <2>7 DEF Mirrored
<1>. QED  BY <1>13, <1>15, <1>16, <1>17, <1>18 DEF IInv

-----------------------------------------------------------------------------
(* The steps of the client. *)

\* A call is under way, or none is.
LEMMA FinishedIs ==
  /\ Finished = calls - abandoned - (IF call = Idle THEN 0 ELSE 1)
  /\ Finished' = calls' - abandoned' - (IF call' = Idle THEN 0 ELSE 1)
BY DEF Finished

\* A call starts: its number is new.
LEMMA CallHolds ==
  ASSUME IInv, NEW cmd \in Commands, NEW serial \in Serials \cup {NoSerial}, Call(cmd, serial)
  PROVE  IInv'
<1>1. Items /\ Scalars /\ AnswersInOrder /\ FailureIsRaised /\ Mirrored  BY DEF IInv
<1>2. /\ requests \in Seq(Request) /\ stream \in Seq(Packet)
      /\ inbox \in Seq(Packet) /\ answers \in Seq(Queued)
  BY <1>1, ItemsType
<1>3. /\ calls' = calls + 1 /\ requests' = Append(requests, call')
      /\ call' = [id |-> calls + 1, cmd |-> cmd, serial |-> serial] /\ call = Idle
      /\ UNCHANGED <<listed, emitted, stream, changes, inbox, answers, devices, abandoned,
                     last, synced, overtaken>>
  BY DEF Call
<1>4. calls \in Nat /\ abandoned \in Nat /\ Finished \in Nat  BY <1>1 DEF Scalars
<1>5. PICK c \in Request : c = call' /\ c.id = calls + 1
  BY <1>3, <1>4 DEF Request
<1>6. c # Idle
  <2>1. c.cmd = cmd /\ Idle.cmd = "none"  BY <1>3, <1>5 DEF Idle
  <2>2. cmd # "none"  BY DEF Commands
  <2>. QED  BY <2>1, <2>2
<1>7. Items'
  <2>1. \A r \in Request \cup Answer : Fits(r, call, calls) => Fits(r, c, calls + 1)
    <3> SUFFICES ASSUME NEW r \in Request \cup Answer, Fits(r, call, calls)
                 PROVE  Fits(r, c, calls + 1)
      OBVIOUS
    <3>1. r.id \in Nat /\ r.id <= calls  BY HaveIds DEF Fits
    <3>2. r.id <= calls + 1 /\ r.id # calls + 1  BY <1>4, <3>1
    <3>. QED  BY <1>5, <3>2 DEF Fits
  <2>2. /\ Seq(FitRequests(call, calls)) \subseteq Seq(FitRequests(c, calls + 1))
        /\ Seq(FitPackets(call, calls)) \subseteq Seq(FitPackets(c, calls + 1))
        /\ Seq(FitQueued(call, calls)) \subseteq Seq(FitQueued(c, calls + 1))
    BY <2>1, ItemsGrow
  <2>3. /\ requests \in Seq(FitRequests(c, calls + 1))
        /\ stream \in Seq(FitPackets(c, calls + 1))
        /\ inbox \in Seq(FitPackets(c, calls + 1))
        /\ answers \in Seq(FitQueued(c, calls + 1))
    BY <1>1, <2>2 DEF Items
  <2>4. c \in FitRequests(c, calls + 1)
    BY <1>4, <1>5 DEF FitRequests, Fits
  <2>5. Append(requests, c) \in Seq(FitRequests(c, calls + 1))
    BY ONLY <2>3, <2>4, AppendProperties
  <2>. QED  BY <1>3, <1>5, <2>3, <2>5 DEF Items
<1>8. Finished' = Finished  BY <1>3, <1>4, <1>5, <1>6, FinishedIs
<1>9. Scalars'  BY <1>1, <1>3, <1>4, <1>5, <1>8 DEF Scalars
<1>10. AnswersInOrder'
  <2>1. PICK k \in Nat : k = calls - Finished
    <3>1. Finished <= calls  BY <1>4, FinishedIs
    <3>. QED  BY <1>4, <3>1
  <2>2. calls + 1 \in Nat /\ calls + 1 = Finished + k + 1 /\ (calls + 1) - Finished = k + 1
    BY <1>4, <2>1
  <2>3. PICK x \in Numbers : x = <<calls + 1>>  BY <2>2, OneNumber
  <2>4. IdsOf(requests') = Join(IdsOf(requests), x)
    BY <1>2, <1>3, <1>5, <2>3, RequestSent
  <2>5. /\ IdsQueued(answers) \in Numbers /\ IdsIn(inbox) \in Numbers
        /\ IdsIn(stream) \in Numbers /\ IdsOf(requests) \in Numbers
    BY <1>2, IdsInType, AnswersIds, RequestsType
  <2>6. Way(IdsQueued(answers), IdsIn(inbox), IdsIn(stream), IdsOf(requests'))
          = Join(From(Finished, k), x)
    BY <1>1, <2>1, <2>4, <2>5, WaySent, OrderIs
  <2>7. Join(From(Finished, k), x) = From(Finished, k + 1)
    BY <1>4, <2>2, <2>3, FromNext DEF Join
  <2>8. LastFits' <=> LastFits  BY <1>3 DEF LastFits
  <2>. QED  BY <1>1, <1>3, <1>8, <2>2, <2>6, <2>7, <2>8, OrderIs
<1>11. FailureIsRaised'  BY <1>1, <1>3 DEF FailureIsRaised
<1>12. Mirrored'
  <2>1. Sources' = Sources  BY <1>3 DEF Sources
  <2>. QED  BY <1>1, <1>3, <2>1 DEF Mirrored
<1>. QED  BY <1>7, <1>9, <1>10, <1>11, <1>12 DEF IInv

\* Packets arrive: nothing under way changes.
LEMMA ReceiveHolds == IInv /\ Receive => IInv'
<1> SUFFICES ASSUME IInv, Receive PROVE IInv'  OBVIOUS
<1>1. Items /\ Scalars /\ AnswersInOrder /\ FailureIsRaised /\ Mirrored  BY DEF IInv
<1>2. /\ requests \in Seq(Request) /\ stream \in Seq(Packet)
      /\ inbox \in Seq(Packet) /\ answers \in Seq(Queued)
  BY <1>1, ItemsType
<1>3. /\ inbox = <<>>
      /\ UNCHANGED <<listed, emitted, requests, changes, answers, devices, call, calls,
                     abandoned, last, synced, overtaken>>
  BY DEF Receive
<1>4. PICK l \in Nat : l = Len(stream)  BY <1>2, LenProperties
<1>5. PICK n \in 1 .. l : inbox' = SubSeq(stream, 1, n) /\ stream' = SubSeq(stream, n + 1, l)
  BY <1>4 DEF Receive
<1>6. ASSUME NEW S, stream \in Seq(S)
      PROVE  inbox' \in Seq(S) /\ stream' \in Seq(S) /\ inbox' \o stream' = stream
  <2>1. \A i \in 1 .. l : stream[i] \in S  BY ONLY <1>4, <1>6, ElementOfSeq
  <2>2. SubSeq(stream, 1, n) \in Seq(S)
    <3>1. 1 \in Int /\ n \in Int /\ \A i \in 1 .. n : stream[i] \in S  BY <2>1
    <3>. QED  BY ONLY <3>1, SubSeqProperties
  <2>3. SubSeq(stream, n + 1, l) \in Seq(S)
    <3>1. n + 1 \in Int /\ l \in Int /\ \A i \in n + 1 .. l : stream[i] \in S  BY <2>1
    <3>. QED  BY ONLY <3>1, SubSeqProperties
  <2>4. SubSeq(stream, 1, n) \o SubSeq(stream, n + 1, l) = SubSeq(stream, 1, l)
    <3>1. 1 \in 1 .. l + 1 /\ n \in 1 - 1 .. l /\ l \in n .. l  OBVIOUS
    <3>. QED  BY ONLY <1>4, <1>6, <3>1, ConcatAdjacentSubSeq
  <2>5. SubSeq(stream, 1, l) = stream  BY ONLY <1>4, <1>6, SubSeqFull
  <2>. QED  BY <1>5, <2>2, <2>3, <2>4, <2>5
<1>7. Items'
  <2>1. stream \in Seq(FitPackets(call, calls))  BY <1>1 DEF Items
  <2>2. /\ inbox' \in Seq(FitPackets(call, calls))
        /\ stream' \in Seq(FitPackets(call, calls))
    BY <1>6, <2>1
  <2>. QED  BY <1>1, <1>3, <2>2 DEF Items
<1>8. inbox' \in Seq(Packet) /\ stream' \in Seq(Packet) /\ inbox' \o stream' = stream
  BY <1>2, <1>6
<1>9. Finished' = Finished  BY <1>3 DEF Finished
<1>10. Scalars'  BY <1>1, <1>3, <1>9 DEF Scalars
<1>11. AnswersInOrder'
  <2>1. IdsIn(stream) = Join(IdsIn(inbox'), IdsIn(stream')) /\ IdsIn(inbox) = <<>>
    BY <1>3, <1>8, PacketsJoined, NoPackets
  <2>2. /\ IdsQueued(answers) \in Numbers /\ IdsIn(inbox') \in Numbers
        /\ IdsIn(stream') \in Numbers /\ IdsOf(requests) \in Numbers
    BY <1>2, <1>8, IdsInType, AnswersIds, RequestsType
  <2>3. Way(IdsQueued(answers), IdsIn(inbox'), IdsIn(stream'), IdsOf(requests))
          = Way(IdsQueued(answers), IdsIn(inbox), IdsIn(stream), IdsOf(requests))
    BY <2>1, <2>2, WayReceived
  <2>4. LastFits' <=> LastFits  BY <1>3 DEF LastFits
  <2>. QED  BY <1>1, <1>3, <1>9, <2>3, <2>4, OrderIs
<1>12. FailureIsRaised'  BY <1>1, <1>3 DEF FailureIsRaised
<1>13. Mirrored'
  <2>1. Sources' = Sources  BY <1>3 DEF Sources
  <2>2. inbox \o stream = stream  BY <1>2, <1>3, ConcatEmptySeq
  <2>. QED  BY <1>1, <1>3, <1>8, <2>1, <2>2 DEF Mirrored
<1>. QED  BY <1>7, <1>10, <1>11, <1>12, <1>13 DEF IInv

\* A call is given up: its answer stays under way.
LEMMA TimeoutHolds == IInv /\ Timeout => IInv'
<1> SUFFICES ASSUME IInv, Timeout PROVE IInv'  OBVIOUS
<1>1. Items /\ Scalars /\ AnswersInOrder /\ FailureIsRaised /\ Mirrored  BY DEF IInv
<1>2. /\ call # Idle /\ call' = Idle /\ abandoned' = abandoned + 1
      /\ UNCHANGED <<listed, emitted, requests, stream, changes, inbox, answers, devices,
                     calls, last, synced, overtaken>>
  BY DEF Timeout, serverVars
<1>3. calls \in Nat /\ abandoned \in Nat /\ Finished \in Nat  BY <1>1 DEF Scalars
<1>4. Items'
  <2>1. \A r \in Request \cup Answer : Fits(r, call, calls) => Fits(r, Idle, calls)
    BY DEF Fits
  <2>2. /\ Seq(FitRequests(call, calls)) \subseteq Seq(FitRequests(Idle, calls))
        /\ Seq(FitPackets(call, calls)) \subseteq Seq(FitPackets(Idle, calls))
        /\ Seq(FitQueued(call, calls)) \subseteq Seq(FitQueued(Idle, calls))
    BY <2>1, ItemsGrow
  <2>. QED  BY <1>1, <1>2, <2>2 DEF Items
<1>5. Finished' = Finished  BY <1>2, <1>3, FinishedIs
<1>6. Scalars'  BY <1>1, <1>2, <1>3, <1>5 DEF Scalars
<1>7. AnswersInOrder'
  <2>1. LastFits => LastFits'
    <3>1. last.id \in Nat /\ last.answer \in Nat  BY <1>1 DEF Scalars, Ends
    <3>. QED  BY <1>2, <1>3, <3>1 DEF LastFits
  <2>. QED  BY <1>1, <1>2, <1>5, <2>1, OrderIs
<1>8. FailureIsRaised'
  <2>1. abandoned' # 0  BY <1>2, <1>3
  <2>. QED  BY <2>1 DEF FailureIsRaised
<1>9. Mirrored'
  <2>1. Sources' = Sources  BY <1>2 DEF Sources
  <2>. QED  BY <1>1, <1>2, <2>1 DEF Mirrored
<1>. QED  BY <1>4, <1>6, <1>7, <1>8, <1>9 DEF IInv

\* Every answer that waits is told of s.
WithLater(q, s) == [i \in DOMAIN q |-> [q[i] EXCEPT !.later = @ \cup {s}]]

\* The answers stay the same but for that.
LEMMA Noted ==
  ASSUME NEW c, NEW n, NEW q \in Seq(FitQueued(c, n)), NEW s \in Serials
  PROVE  /\ WithLater(q, s) \in Seq(FitQueued(c, n))
         /\ Len(WithLater(q, s)) = Len(q) /\ DOMAIN WithLater(q, s) = DOMAIN q
         /\ \A i \in DOMAIN q : /\ WithLater(q, s)[i].answer = q[i].answer
                                /\ WithLater(q, s)[i].later = q[i].later \cup {s}
<1>1. PICK l \in Nat : l = Len(q) /\ DOMAIN q = 1 .. l  BY LenProperties
<1>2. PICK f : f = WithLater(q, s)  OBVIOUS
<1>3. ASSUME NEW i \in 1 .. l
      PROVE  /\ f[i] \in FitQueued(c, n)
             /\ f[i].answer = q[i].answer /\ f[i].later = q[i].later \cup {s}
  <2>1. PICK x \in FitQueued(c, n) : x = q[i]  BY <1>1, ElementOfSeq
  <2>2. f[i] = [x EXCEPT !.later = @ \cup {s}]  BY <1>1, <1>2, <2>1 DEF WithLater
  <2>. QED  BY <2>1, <2>2 DEF FitQueued
<1>4. f \in [1 .. l -> FitQueued(c, n)]
  <2>1. DOMAIN f = 1 .. l /\ f = [i \in 1 .. l |-> f[i]]  BY <1>1, <1>2 DEF WithLater
  <2>. QED  BY <1>3, <2>1
<1>5. f \in Seq(FitQueued(c, n)) /\ Len(f) = l  BY <1>4, FunctionIsSeq
<1>6. DOMAIN f = 1 .. l  BY <1>4
<1>. QED  BY <1>1, <1>2, <1>3, <1>5, <1>6

\* What parsing packet p does to the mirror and the answers that wait.
Parsed(p) ==
  \/ /\ p.kind = "answer"
     /\ answers' = Append(answers, [answer |-> p, later |-> {}])
     /\ UNCHANGED <<devices, overtaken>>
  \/ p.kind = "changed" /\ UNCHANGED <<answers, devices, overtaken>>
  \/ /\ p.kind \in {"added", "removed"}
     /\ devices' = IF p.kind = "added" THEN devices \cup {p.serial}
                   ELSE devices \ {p.serial}
     /\ answers' = WithLater(answers, p.serial) /\ overtaken' = overtaken \ {p.serial}

\* ParsePacket does that to packet p (_parse_data, __handle_added, __handle_removed).
LEMMA ParsePacketIs ==
  ASSUME ParsePacket, NEW p \in Packet, p = Head(inbox)
  PROVE  /\ inbox # <<>> /\ inbox' = Tail(inbox) /\ Parsed(p)
         /\ UNCHANGED <<listed, emitted, requests, stream, changes, call, calls, abandoned,
                        last, synced>>
<1>1. /\ inbox # <<>> /\ inbox' = Tail(inbox)
      /\ UNCHANGED <<serverVars, call, calls, abandoned, last, synced>>
  BY DEF ParsePacket
<1>2. Parsed(p)
  <2>1. IF p.kind = "answer"
          THEN /\ answers' = Append(answers, [answer |-> p, later |-> {}])
               /\ UNCHANGED <<devices, overtaken>>
          ELSE handle_event(p)
    BY DEF ParsePacket
  <2>2. CASE p.kind = "answer"  BY <2>1, <2>2 DEF Parsed
  <2>3. CASE p.kind = "changed"
    BY <2>1, <2>3 DEF Parsed, handle_event
  <2>4. CASE p.kind = "added"
    BY <2>1, <2>4 DEF Parsed, handle_event, Noting, WithLater
  <2>5. CASE p.kind = "removed"
    BY <2>1, <2>5 DEF Parsed, handle_event, Noting, WithLater
  <2>. QED  BY <2>2, <2>3, <2>4, <2>5, PacketIs
<1>. QED  BY <1>1, <1>2 DEF serverVars

\* Sources, before and after a step.
LEMMA SourcesIs ==
  /\ \A s \in Serials : \A w :
       w \in Sources[s] <=>
         /\ w \in {"added", "removed"}
         /\ \/ synced /\ s \notin overtaken /\ w = Status(s, devices)
            \/ \E i \in DOMAIN answers :
                 /\ answers[i].answer.cmd = "devicelist" /\ s \notin answers[i].later
                 /\ w = Status(s, answers[i].answer.list)
  /\ \A s \in Serials : \A w :
       w \in Sources'[s] <=>
         /\ w \in {"added", "removed"}
         /\ \/ synced' /\ s \notin overtaken' /\ w = Status(s, devices')
            \/ \E i \in DOMAIN answers' :
                 /\ answers'[i].answer.cmd = "devicelist" /\ s \notin answers'[i].later
                 /\ w = Status(s, answers'[i].answer.list)
BY DEF Sources

\* What is told before the next packet, after packet p has been parsed.
LEMMA ParsedSources ==
  ASSUME NEW c, NEW n, answers \in Seq(FitQueued(c, n)), NEW p \in FitPackets(c, n),
         Parsed(p), synced' = synced,
         NEW s \in Serials, NEW w \in Sources'[s]
  PROVE  \/ Tells(p, s) /\ w = Told(p, s)
         \/ ~IsNews(p, s) /\ w \in Sources[s]
<1>1. PICK l \in Nat : l = Len(answers) /\ DOMAIN answers = 1 .. l  BY LenProperties
<1>2. p \in Packet  BY FitSets
<1>3. w \in {"added", "removed"}  BY SourcesIs
<1>4. CASE /\ p.kind = "answer"
           /\ answers' = Append(answers, [answer |-> p, later |-> {}])
           /\ UNCHANGED <<devices, overtaken>>
  <2>1. ~IsNews(p, s)  BY <1>4 DEF IsNews
  <2>2. PICK x \in FitQueued(c, n) : x = [answer |-> p, later |-> {}]
    <3>1. p \in FitAnswers(c, n)  BY <1>4 DEF FitPackets, Event
    <3>. QED  BY <3>1 DEF FitQueued
  <2>3. x.answer = p  BY <2>2
  <2>4. /\ DOMAIN answers' = 1 .. l + 1
        /\ \A i \in 1 .. l : answers'[i] = answers[i]
        /\ answers'[l + 1] = x
    <3>1. /\ Append(answers, x) \in Seq(FitQueued(c, n))
          /\ Len(Append(answers, x)) = Len(answers) + 1
          /\ \A i \in 1 .. Len(answers) : Append(answers, x)[i] = answers[i]
          /\ Append(answers, x)[Len(answers) + 1] = x
      BY ONLY x \in FitQueued(c, n), answers \in Seq(FitQueued(c, n)), AppendProperties
    <3>2. DOMAIN Append(answers, x) = 1 .. Len(Append(answers, x))
      BY ONLY <3>1, LenProperties
    <3>. QED  BY <1>1, <1>4, <2>2, <3>1, <3>2
  <2>5. CASE synced' /\ s \notin overtaken' /\ w = Status(s, devices')
    <3>1. w \in Sources[s]  BY <1>3, <1>4, <2>5, SourcesIs
    <3>. QED  BY <2>1, <3>1
  <2>6. CASE \E i \in DOMAIN answers' :
               /\ answers'[i].answer.cmd = "devicelist" /\ s \notin answers'[i].later
               /\ w = Status(s, answers'[i].answer.list)
    <3>1. PICK i \in 1 .. l + 1 :
            /\ answers'[i].answer.cmd = "devicelist" /\ s \notin answers'[i].later
            /\ w = Status(s, answers'[i].answer.list)
      BY <2>4, <2>6
    <3>2. CASE i = l + 1
      <4>1. p.cmd = "devicelist" /\ w = Status(s, p.list)  BY <2>3, <2>4, <3>1, <3>2
      <4>. QED  BY <1>4, <4>1 DEF Tells, IsList, Told
    <3>3. CASE i # l + 1
      <4>1. i \in DOMAIN answers /\ answers'[i] = answers[i]  BY <1>1, <2>4, <3>3
      <4>2. w \in Sources[s]  BY <1>3, <3>1, <4>1, SourcesIs
      <4>. QED  BY <2>1, <4>2
    <3>. QED  BY <3>2, <3>3
  <2>. QED  BY <2>5, <2>6, SourcesIs
<1>5. CASE p.kind = "changed" /\ UNCHANGED <<answers, devices, overtaken>>
  <2>1. ~IsNews(p, s)  BY <1>5 DEF IsNews
  <2>2. w \in Sources[s]
    <3>1. Sources' = Sources  BY <1>5 DEF Sources
    <3>. QED  BY <3>1
  <2>. QED  BY <2>1, <2>2
<1>6. CASE /\ p.kind \in {"added", "removed"}
           /\ devices' = IF p.kind = "added" THEN devices \cup {p.serial}
                         ELSE devices \ {p.serial}
           /\ answers' = WithLater(answers, p.serial) /\ overtaken' = overtaken \ {p.serial}
  <2>1. p.serial \in Serials
    <3>1. p \in Event  BY <1>2, <1>6, PacketIs
    <3>. QED  BY <3>1 DEF Event
  <2>2. /\ DOMAIN answers' = DOMAIN answers
        /\ \A i \in DOMAIN answers : /\ answers'[i].answer = answers[i].answer
                                     /\ answers'[i].later = answers[i].later \cup {p.serial}
    BY <1>6, <2>1, Noted
  <2>3. CASE s = p.serial
    <3>1. IsNews(p, s)  BY <1>6, <2>3 DEF IsNews
    <3>2. w = Status(s, devices')
      <4>1. \A i \in DOMAIN answers' : s \in answers'[i].later  BY <2>2, <2>3
      <4>. QED  BY <4>1, SourcesIs
    <3>3. Status(s, devices') = p.kind  BY <1>6, <2>3 DEF Status
    <3>4. Told(p, s) = p.kind  BY <1>6 DEF Told
    <3>. QED  BY <3>1, <3>2, <3>3, <3>4 DEF Tells
  <2>4. CASE s # p.serial
    <3>1. ~IsNews(p, s)  BY <2>4 DEF IsNews
    <3>2. Status(s, devices') = Status(s, devices)  BY <1>6, <2>4 DEF Status
    <3>3. s \notin overtaken' => s \notin overtaken  BY <1>6, <2>4
    <3>4. CASE synced' /\ s \notin overtaken' /\ w = Status(s, devices')
      <4>1. w \in Sources[s]  BY <1>3, <3>2, <3>3, <3>4, SourcesIs
      <4>. QED  BY <3>1, <4>1
    <3>5. CASE \E i \in DOMAIN answers' :
                 /\ answers'[i].answer.cmd = "devicelist" /\ s \notin answers'[i].later
                 /\ w = Status(s, answers'[i].answer.list)
      <4>1. PICK i \in DOMAIN answers :
              /\ answers[i].answer.cmd = "devicelist" /\ s \notin answers[i].later
              /\ w = Status(s, answers[i].answer.list)
        BY <2>2, <3>5
      <4>2. w \in Sources[s]  BY <1>3, <4>1, SourcesIs
      <4>. QED  BY <3>1, <4>2
    <3>. QED  BY <3>4, <3>5, SourcesIs
  <2>. QED  BY <2>3, <2>4
<1>. QED  BY <1>4, <1>5, <1>6 DEF Parsed

\* A parsed answer waits in the order of arrival.
LEMMA ParsedAnswers ==
  ASSUME NEW c, NEW n, answers \in Seq(FitQueued(c, n)), NEW p \in FitPackets(c, n),
         Parsed(p)
  PROVE  /\ answers' \in Seq(FitQueued(c, n))
         /\ IdsQueued(answers') = Join(IdsQueued(answers), IdsIn(<<p>>))
         /\ p.kind \in {"added", "removed"} => p.serial \in Serials
<1>1. p \in Packet  BY FitSets
<1>2. answers \in Seq(Queued)
  <2>1. FitQueued(c, n) \subseteq Queued  BY FitSets
  <2>. QED  BY ONLY <2>1, answers \in Seq(FitQueued(c, n)), SeqMonotonic
<1>3. IdsQueued(answers) \in Numbers  BY <1>2, AnswersIds
<1>4. CASE /\ p.kind = "answer"
           /\ answers' = Append(answers, [answer |-> p, later |-> {}])
  <2>1. PICK x \in FitQueued(c, n) : x = [answer |-> p, later |-> {}]
    <3>1. p \in FitAnswers(c, n)  BY <1>4 DEF FitPackets, Event
    <3>. QED  BY <3>1 DEF FitQueued
  <2>2. x \in Queued /\ x.answer = p  BY <2>1, FitSets
  <2>3. Append(answers, x) \in Seq(FitQueued(c, n))
    BY ONLY x \in FitQueued(c, n), answers \in Seq(FitQueued(c, n)), AppendProperties
  <2>4. IdsQueued(Append(answers, x)) = IdsQueued(answers) \o <<p.id>>
    BY <1>2, <2>2, QueuedAppend
  <2>5. IdsIn(<<p>>) = <<p.id>>  BY <1>1, <1>4, PacketIds
  <2>6. ~(p.kind \in {"added", "removed"})  BY <1>4
  <2>. QED  BY <1>4, <2>1, <2>3, <2>4, <2>5, <2>6 DEF Join
<1>5. CASE p.kind # "answer"
  <2>1. IdsIn(<<p>>) = <<>>  BY <1>1, <1>5, PacketIds
  <2>2. p.serial \in Serials  BY <1>1, <1>5, PacketIs DEF Event
  <2>3. Join(IdsQueued(answers), <<>>) = IdsQueued(answers)  BY <1>3, NoneIsNeutral
  <2>4. CASE answers' = answers
    BY <2>1, <2>2, <2>3, <2>4
  <2>5. CASE answers' = WithLater(answers, p.serial)
    <3>1. PICK f \in Seq(FitQueued(c, n)) :
            /\ f = answers' /\ Len(f) = Len(answers)
            /\ \A i \in DOMAIN answers : f[i].answer = answers[i].answer
      BY <2>2, <2>5, Noted
    <3>2. f \in Seq(Queued)
      <4>1. FitQueued(c, n) \subseteq Queued  BY FitSets
      <4>. QED  BY ONLY <4>1, f \in Seq(FitQueued(c, n)), SeqMonotonic
    <3>3. \A i \in 1 .. Len(answers) : f[i].answer = answers[i].answer
      BY <1>2, <3>1, LenProperties
    <3>4. IdsQueued(f) = IdsQueued(answers)  BY <1>2, <3>1, <3>2, <3>3, QueuedSame
    <3>. QED  BY <2>1, <2>2, <2>3, <3>1, <3>4
  <2>. QED  BY <1>5, <2>4, <2>5 DEF Parsed
<1>. QED  BY <1>4, <1>5 DEF Parsed

\* A packet is parsed: what it tells is now told before the others.
LEMMA ParsePacketHolds == IInv /\ ParsePacket => IInv'
<1> SUFFICES ASSUME IInv, ParsePacket PROVE IInv'  OBVIOUS
<1>1. Items /\ Scalars /\ AnswersInOrder /\ FailureIsRaised /\ Mirrored  BY DEF IInv
<1>2. /\ requests \in Seq(Request) /\ stream \in Seq(Packet)
      /\ inbox \in Seq(Packet) /\ answers \in Seq(Queued)
  BY <1>1, ItemsType
<1>3. inbox # <<>>  BY DEF ParsePacket
<1>4. /\ Head(inbox) \in FitPackets(call, calls)
      /\ Tail(inbox) \in Seq(FitPackets(call, calls))
  <2>1. inbox \in Seq(FitPackets(call, calls))  BY <1>1 DEF Items
  <2>. QED  BY ONLY <1>3, <2>1, HeadTailProperties
<1>5. PICK p \in FitPackets(call, calls) : p = Head(inbox)  BY <1>4
<1>6. p \in Packet  BY FitSets
<1>7. /\ inbox' = Tail(inbox) /\ Parsed(p)
      /\ UNCHANGED <<listed, emitted, requests, stream, changes, call, calls, abandoned,
                     last, synced>>
  BY <1>5, <1>6, ParsePacketIs
<1>8. PICK t \in Seq(Packet) : t = inbox' /\ inbox = <<p>> \o t
  BY <1>2, <1>3, <1>5, <1>7, HeadAndTail
<1>9. answers \in Seq(FitQueued(call, calls))  BY <1>1 DEF Items
<1>10. /\ answers' \in Seq(FitQueued(call, calls))
       /\ IdsQueued(answers') = Join(IdsQueued(answers), IdsIn(<<p>>))
       /\ p.kind \in {"added", "removed"} => p.serial \in Serials
  BY <1>7, <1>9, ParsedAnswers
<1>11. Items'  BY <1>1, <1>4, <1>7, <1>10 DEF Items
<1>12. Finished' = Finished  BY <1>7 DEF Finished
<1>13. Scalars'
  <2>1. devices' \in SUBSET Serials /\ overtaken' \in SUBSET Serials
    BY <1>1, <1>7, <1>10 DEF Parsed, Scalars
  <2>. QED  BY <1>1, <1>7, <1>12, <2>1 DEF Scalars
<1>14. <<p>> \in Seq(Packet)  BY <1>6
<1>15. AnswersInOrder'
  <2>1. IdsIn(inbox) = Join(IdsIn(<<p>>), IdsIn(t))  BY <1>8, <1>14, PacketsJoined
  <2>2. /\ IdsQueued(answers) \in Numbers /\ IdsIn(t) \in Numbers
        /\ IdsIn(stream) \in Numbers /\ IdsOf(requests) \in Numbers
        /\ IdsIn(<<p>>) \in Numbers
    BY <1>2, <1>14, IdsInType, AnswersIds, RequestsType
  <2>3. Way(IdsQueued(answers'), IdsIn(t), IdsIn(stream), IdsOf(requests))
          = Way(IdsQueued(answers), IdsIn(inbox), IdsIn(stream), IdsOf(requests))
    BY <1>10, <2>1, <2>2, WayParsed
  <2>4. LastFits' <=> LastFits  BY <1>7 DEF LastFits
  <2>. QED  BY <1>1, <1>7, <1>8, <1>12, <2>3, <2>4, OrderIs
<1>16. FailureIsRaised'  BY <1>1, <1>7 DEF FailureIsRaised
<1>17. Mirrored'
  <2>1. (<<p>> \o t) \o stream = <<p>> \o (t \o stream)
    <3>1. PICK e \in Seq(Packet) : e = <<p>>  BY <1>14
    <3>2. Join(Join(e, t), stream) = Join(e, Join(t, stream))  BY <1>2, JoinAssociative
    <3>. QED  BY ONLY <3>1, <3>2 DEF Join
  <2>2. PICK Q \in Seq(Packet) : Q = t \o stream
    BY ONLY <1>2, t \in Seq(Packet), ConcatProperties
  <2>3. Consistent(<<p>> \o Q, listed, Sources)
    BY <1>1, <1>8, <2>1, <2>2 DEF Mirrored
  <2>4. \A s \in Serials : \A w \in Sources'[s] :
          \/ Tells(p, s) /\ w = Told(p, s)
          \/ ~IsNews(p, s) /\ w \in Sources[s]
    BY <1>7, <1>9, ParsedSources
  <2>5. Consistent(Q, listed, Sources')  BY <1>6, <2>3, <2>4, ConsistentRest
  <2>6. stream' = stream /\ inbox' = t /\ listed' = listed  BY <1>7, <1>8
  <2>. QED  BY <2>2, <2>5, <2>6 DEF Mirrored
<1>. QED  BY <1>11, <1>13, <1>15, <1>16, <1>17 DEF IInv

\* The answer of the call is the oldest that waits.
LEMMA ReturnHolds == IInv /\ Return => IInv'
<1> SUFFICES ASSUME IInv, Return PROVE IInv'  OBVIOUS
<1>1. Items /\ Scalars /\ AnswersInOrder /\ FailureIsRaised /\ Mirrored  BY DEF IInv
<1>2. /\ requests \in Seq(Request) /\ stream \in Seq(Packet)
      /\ inbox \in Seq(Packet) /\ answers \in Seq(Queued)
  BY <1>1, ItemsType
<1>3. answers # <<>>  BY DEF Return
<1>4. /\ Head(answers) \in FitQueued(call, calls)
      /\ Tail(answers) \in Seq(FitQueued(call, calls))
  <2>1. answers \in Seq(FitQueued(call, calls))  BY <1>1 DEF Items
  <2>. QED  BY ONLY <1>3, <2>1, HeadTailProperties
<1>5. PICK q \in FitQueued(call, calls) : q = Head(answers)  BY <1>4
<1>6. PICK a \in FitAnswers(call, calls) : a = q.answer  BY DEF FitQueued
<1>7. a \in Answer /\ a.id \in Nat /\ a.list \in SUBSET Serials /\ q.later \in SUBSET Serials
  BY FitSets DEF Answer, FitQueued
<1> DEFINE raised == ~a.ok \/ (call.cmd = "devicelist" /\ a.cmd # "devicelist")
           refresh == call.cmd = "devicelist" /\ ~raised
<1>8. /\ call # Idle /\ inbox = <<>> /\ answers' = Tail(answers) /\ call' = Idle
      /\ last' = [id |-> call.id, cmd |-> call.cmd, answer |-> a.id,
                  raised |-> raised, done |-> a.done]
      /\ devices' = IF refresh THEN a.list ELSE devices
      /\ synced' = (synced \/ refresh)
      /\ overtaken' = IF refresh THEN q.later ELSE overtaken
      /\ UNCHANGED <<listed, emitted, requests, stream, changes, inbox, calls, abandoned>>
  BY <1>5, <1>6 DEF Return, FinishWith, serverVars
<1>9. /\ calls \in Nat /\ abandoned \in Nat /\ Finished \in Nat
      /\ call \in Request /\ call.id = calls
  BY <1>1, <1>8 DEF Scalars
<1>10. Finished = calls - abandoned - 1 /\ Finished' = Finished + 1
  BY <1>8, <1>9, FinishedIs
<1>11. Items'
  <2>1. \A r \in Request \cup Answer : Fits(r, call, calls) => Fits(r, Idle, calls)
    BY DEF Fits
  <2>2. /\ Seq(FitRequests(call, calls)) \subseteq Seq(FitRequests(Idle, calls))
        /\ Seq(FitPackets(call, calls)) \subseteq Seq(FitPackets(Idle, calls))
        /\ Seq(FitQueued(call, calls)) \subseteq Seq(FitQueued(Idle, calls))
    BY <2>1, ItemsGrow
  <2>. QED  BY <1>1, <1>4, <1>8, <2>2 DEF Items
<1>12. a.id = Finished + 1
       /\ Way(IdsQueued(answers'), IdsIn(inbox'), IdsIn(stream'), IdsOf(requests'))
            = From(Finished', calls' - Finished')
  <2>1. PICK x \in Numbers : x = <<a.id>>  BY <1>7, OneNumber
  <2>2. IdsQueued(answers) = Join(x, IdsQueued(answers'))
    BY <1>2, <1>3, <1>5, <1>6, <1>8, <2>1, QueuedTaken
  <2>3. Tail(answers) \in Seq(Queued)  BY <1>2, <1>3, HeadAndTail
  <2>4. /\ IdsQueued(answers') \in Numbers /\ IdsIn(inbox) \in Numbers
        /\ IdsIn(stream) \in Numbers /\ IdsOf(requests) \in Numbers
    BY <1>2, <1>8, <2>3, IdsInType, AnswersIds, RequestsType
  <2>5. PICK u \in Numbers :
          u = Way(IdsQueued(answers'), IdsIn(inbox), IdsIn(stream), IdsOf(requests))
    BY <2>4, WayType
  <2>6. PICK k \in Nat : k = calls - Finished  BY <1>9, <1>10
  <2>7. Join(x, u) = From(Finished, k)
    BY <1>1, <2>2, <2>4, <2>5, <2>6, WayTaken, OrderIs
  <2>8. a.id = Finished + 1 /\ u = From(Finished + 1, k - 1)
    <3>1. PICK f \in Nat : f = Finished  BY <1>9
    <3>2. PICK i \in Nat : i = a.id  BY <1>7
    <3>3. u \in Seq(Nat)  BY DEF Numbers
    <3>4. <<i>> \o u = From(f, k)  BY <2>1, <2>7, <3>1, <3>2 DEF Join
    <3>5. i = f + 1 /\ u = From(f + 1, k - 1)
      BY ONLY <3>3, <3>4, f \in Nat, k \in Nat, i \in Nat, FromRest
    <3>. QED  BY <3>1, <3>2, <3>5
  <2>9. calls' - Finished' = k - 1  BY <1>8, <1>9, <1>10, <2>6
  <2>. QED  BY <1>8, <1>10, <2>5, <2>8, <2>9
<1>13. last'.id = calls /\ last'.answer = a.id /\ a.id = calls - abandoned
  BY <1>8, <1>9, <1>10, <1>12
<1>14. AnswersInOrder'
  <2>1. LastFits'
    <3>1. calls >= calls - abandoned /\ calls - (calls - abandoned) <= abandoned  BY <1>9
    <3>. QED  BY <1>8, <1>13, <3>1 DEF LastFits
  <2>. QED  BY <1>12, <2>1, OrderIs
<1>15. FailureIsRaised'
  <2> SUFFICES ASSUME abandoned = 0, ~raised
               PROVE  a.id = calls /\ (a.done \/ call.cmd = "reprogram")
    BY <1>8, <1>13 DEF FailureIsRaised
  <2>1. a.id = calls /\ a.id = call.id  BY <1>9, <1>13
  <2>2. Fits(a, call, calls) /\ Honest(a)  BY DEF FitAnswers
  <2>3. a.cmd = call.cmd  BY <1>8, <2>1, <2>2 DEF Fits
  <2>4. a.ok  OBVIOUS
  <2>. QED  BY <2>1, <2>2, <2>3, <2>4 DEF Honest
<1>16. Scalars'
  <2>1. last' \in Ends
    <3>1. raised \in BOOLEAN /\ a.done \in BOOLEAN  BY <1>7 DEF Answer
    <3>2. call.id \in Nat /\ call.cmd \in Commands  BY <1>9 DEF Request
    <3>. QED  BY <1>7, <1>8, <3>1, <3>2 DEF Ends
  <2>2. devices' \in SUBSET Serials /\ overtaken' \in SUBSET Serials
    BY <1>1, <1>7, <1>8 DEF Scalars
  <2>3. synced' \in BOOLEAN  BY <1>8
  <2>. QED  BY <1>1, <1>8, <1>9, <1>10, <2>1, <2>2, <2>3 DEF Scalars
<1>17. Mirrored'
  <2>1. PICK l \in Nat : l = Len(answers) /\ DOMAIN answers = 1 .. l /\ 1 \in 1 .. l
    <3>1. PICK l \in Nat : l = Len(answers) /\ DOMAIN answers = 1 .. l
      BY <1>2, LenProperties
    <3>2. l # 0  BY <1>2, <1>3, <3>1, EmptySeq
    <3>3. 1 \in 1 .. l  BY <3>2
    <3>. QED  BY <3>1, <3>3
  <2>2. \A i \in DOMAIN answers' : i + 1 \in DOMAIN answers /\ answers'[i] = answers[i + 1]
    <3>1. /\ Tail(answers) \in Seq(Queued) /\ Len(Tail(answers)) = Len(answers) - 1
          /\ \A i \in 1 .. Len(Tail(answers)) : Tail(answers)[i] = answers[i + 1]
      BY ONLY <1>2, <1>3, HeadTailProperties
    <3>2. DOMAIN Tail(answers) = 1 .. Len(Tail(answers))  BY ONLY <3>1, LenProperties
    <3>3. PICK m \in Nat : m = Len(Tail(answers)) /\ m = l - 1
      <4>1. Len(Tail(answers)) = l - 1 /\ l - 1 \in Nat  BY ONLY <2>1, <3>1
      <4>. QED  BY ONLY <4>1
    <3>4. \A i \in 1 .. m : i + 1 \in 1 .. l  BY <3>3
    <3>5. DOMAIN answers' = 1 .. m  BY <1>8, <3>2, <3>3
    <3>6. \A i \in 1 .. m : answers'[i] = answers[i + 1]  BY <1>8, <3>1, <3>3
    <3>. QED  BY <2>1, <3>4, <3>5, <3>6
  <2>3. ASSUME NEW s \in Serials, NEW w \in Sources'[s] PROVE w \in Sources[s]
    <3>1. w \in {"added", "removed"}  BY SourcesIs
    <3>2. CASE \E i \in DOMAIN answers' :
                 /\ answers'[i].answer.cmd = "devicelist" /\ s \notin answers'[i].later
                 /\ w = Status(s, answers'[i].answer.list)
      <4>1. PICK i \in DOMAIN answers' :
              /\ answers'[i].answer.cmd = "devicelist" /\ s \notin answers'[i].later
              /\ w = Status(s, answers'[i].answer.list)
        BY <3>2
      <4>2. PICK j \in DOMAIN answers : answers'[i] = answers[j]  BY <2>2
      <4>. QED  BY <3>1, <4>1, <4>2, SourcesIs
    <3>3. CASE synced' /\ s \notin overtaken' /\ w = Status(s, devices') /\ refresh
      <4>1. s \notin q.later /\ w = Status(s, a.list)  BY <1>8, <3>3
      <4>2. a.cmd = "devicelist"  BY <3>3
      <4>3. 1 \in DOMAIN answers /\ answers[1] = q
        <5>1. Head(answers) = answers[1]  BY <1>2, <1>3, HeadAndTail
        <5>. QED  BY <1>5, <2>1, <5>1
      <4>. QED  BY <1>6, <3>1, <4>1, <4>2, <4>3, SourcesIs
    <3>4. CASE synced' /\ s \notin overtaken' /\ w = Status(s, devices') /\ ~refresh
      <4>1. synced /\ devices' = devices /\ overtaken' = overtaken  BY <1>8, <3>4
      <4>. QED  BY <3>1, <3>4, <4>1, SourcesIs
    <3>. QED  BY <3>2, <3>3, <3>4, SourcesIs
  <2>4. PICK P \in Seq(Packet) : P = inbox \o stream
    BY ONLY <1>2, ConcatProperties
  <2>5. Consistent(P, listed, Sources)  BY <1>1, <2>4 DEF Mirrored
  <2>6. \A s \in Serials : Sources'[s] \subseteq Sources[s]  BY <2>3
  <2>7. Consistent(P, listed, Sources')  BY <2>5, <2>6, ConsistentLess
  <2>. QED  BY <1>8, <2>4, <2>7 DEF Mirrored
<1>. QED  BY <1>11, <1>14, <1>15, <1>16, <1>17 DEF IInv

-----------------------------------------------------------------------------
(* The theorems. *)

\* The invariant that the theorems follow from: what is under way is numbered
\* without gaps, and whatever was told of a device last is true.
THEOREM Invariance == Spec => []IInv
<1>1. Init => IInv  BY InitHolds
<1>2. IInv /\ [Next]_vars => IInv'
  <2> SUFFICES ASSUME IInv, [Next]_vars PROVE IInv'  OBVIOUS
  <2>1. CASE ManagerStep  BY <2>1, ManagerStepHolds
  <2>2. CASE handleRequest  BY <2>2, handleRequestHolds
  <2>3. ASSUME NEW cmd \in Commands, NEW s \in Serials \cup {NoSerial}, Call(cmd, s)
        PROVE  IInv'
    BY <2>3, CallHolds
  <2>4. CASE Receive  BY <2>4, ReceiveHolds
  <2>5. CASE ParsePacket  BY <2>5, ParsePacketHolds
  <2>6. CASE Return  BY <2>6, ReturnHolds
  <2>7. CASE Timeout  BY <2>7, TimeoutHolds
  <2>8. CASE UNCHANGED vars
    <3>1. UNCHANGED <<listed, emitted, requests, stream, changes, inbox, answers, devices,
                      call, calls, abandoned, last, synced, overtaken>>
      BY <2>8 DEF vars, serverVars, clientVars
    <3>2. Finished' = Finished /\ Sources' = Sources  BY <3>1 DEF Finished, Sources
    <3>3. Items' /\ Scalars'  BY <3>1, <3>2 DEF IInv, Items, Scalars
    <3>4. LastFits' <=> LastFits  BY <3>1 DEF LastFits
    <3>5. AnswersInOrder'  BY <3>1, <3>2, <3>4, OrderIs DEF IInv
    <3>6. FailureIsRaised'  BY <3>1 DEF IInv, FailureIsRaised
    <3>7. Mirrored'  BY <3>1, <3>2 DEF IInv, Mirrored
    <3>. QED  BY <3>3, <3>5, <3>6, <3>7 DEF IInv
  <2>. QED  BY <2>1, <2>2, <2>3, <2>4, <2>5, <2>6, <2>7, <2>8 DEF Next
<1>. QED  BY <1>1, <1>2, PTL DEF Spec

\* No answer is lost, repeated or reordered, for any number of time-outs
\* (_wait_for_answer).
THEOREM OrderIsKept == Spec => []AnswersInOrder
<1>1. IInv => AnswersInOrder  BY DEF IInv
<1>. QED  BY <1>1, Invariance, PTL

\* Without time-outs a call that does not raise has done what it says, but for
\* reprogram (handleRequest, _wait_for_answer).
THEOREM NoSilentFailure == Spec => []FailureIsRaised
<1>1. IInv => FailureIsRaised  BY DEF IInv
<1>. QED  BY <1>1, Invariance, PTL

\* A set of positions that is not empty has a last one.
LEMMA LatestIs ==
  ASSUME NEW n \in Nat, NEW N, N \subseteq 1 .. n, N # {}
  PROVE  \E i \in N : \A j \in N : j <= i
<1> DEFINE B == {k \in Nat : \A j \in N : j <= k}
<1>1. B \subseteq Nat /\ B # {}
  <2>1. n \in B  OBVIOUS
  <2>. QED  BY <2>1
<1>2. PICK m \in B : \A k \in B : ~(k < m)
  <2> HIDE DEF B
  <2>. QED  BY <1>1, LeastElement
<1>3. m \in Nat /\ \A j \in N : j <= m  OBVIOUS
<1>4. m \in N
  <2> SUFFICES ASSUME m \notin N PROVE FALSE  OBVIOUS
  <2>1. PICK i \in N : i \in 1 .. n /\ i <= m  BY <1>3
  <2>2. PICK k \in Nat : m = k + 1  BY <1>3, <2>1
  <2>3. \A j \in N : j <= k
    <3> SUFFICES ASSUME NEW j \in N PROVE j <= k  OBVIOUS
    <3>1. j \in 1 .. n /\ j <= m /\ j # m  BY <1>3
    <3>. QED  BY <2>2, <3>1
  <2>4. k \in B /\ k < m  BY <2>2, <2>3
  <2>. QED  BY <1>2, <2>4
<1>. QED  BY <1>3, <1>4

\* Once a list was applied, mirror and device list only differ by what is
\* under way and by the serials that an older list has overwritten
\* (_parse_data, __handle_device_list_changes).
THEOREM MirrorIsTrue == Spec => []MirrorFollows
<1>1. IInv => MirrorFollows
  <2> SUFFICES ASSUME IInv, synced, NEW s \in Serials, s \notin overtaken
               PROVE  WillMirror(s) = (s \in listed)
    BY DEF MirrorFollows
  <2>1. inbox \in Seq(Packet) /\ stream \in Seq(Packet)  BY ItemsType DEF IInv
  <2>2. PICK P \in Seq(Packet) : P = inbox \o stream  BY ONLY <2>1, ConcatProperties
  <2>3. PICK n \in Nat : n = Len(P) /\ DOMAIN P = 1 .. n  BY LenProperties
  <2>4. AllSay(P, Sources, n, s, Status(s, listed))
    <3>1. Consistent(P, listed, Sources)  BY <2>2 DEF IInv, Mirrored
    <3>2. n \in 0 .. n /\ Matters(P, n, s)  BY <2>3 DEF Matters
    <3>3. Truth(P, listed, n, s) = Status(s, listed)  BY <2>3 DEF Truth
    <3>. QED  BY <2>3, <3>1, <3>2, <3>3 DEF Consistent
  <2>5. PICK N : N = News(P, s)  OBVIOUS
  <2>6. N = {i \in 1 .. n : IsNews(P[i], s)}  BY <2>3, <2>5 DEF News, IsNews
  <2>7. CASE N = {}
    <3>1. WillMirror(s) = (s \in devices)  BY <2>2, <2>5, <2>7 DEF WillMirror
    <3>2. NoNews(P, 0, n, s)
      <4>1. \A i \in 0 + 1 .. n : i \in 1 .. n  OBVIOUS
      <4>. QED  BY <2>6, <2>7, <4>1 DEF NoNews
    <3>3. Status(s, devices) \in Sources[s]  BY SourcesIs DEF Status
    <3>4. Status(s, devices) = Status(s, listed)  BY <2>4, <3>2, <3>3 DEF AllSay
    <3>5. s \in devices <=> s \in listed  BY <3>4 DEF Status
    <3>. QED  BY <3>1, <3>5
  <2>8. CASE N # {}
    <3>1. PICK i : i = CHOOSE k \in N : \A j \in N : j <= k  OBVIOUS
    <3>2. i \in N /\ \A j \in N : j <= i
      <4>1. N \subseteq 1 .. n  BY <2>6
      <4>2. \E k \in N : \A j \in N : j <= k  BY <2>8, <4>1, LatestIs
      <4>. QED  BY <3>1, <4>2
    <3>3. WillMirror(s) = (P[i].kind = "added")
      BY <2>2, <2>5, <2>8, <3>1 DEF WillMirror
    <3>4. i \in 1 .. n /\ IsNews(P[i], s)  BY <2>6, <3>2
    <3>5. NoNews(P, i, n, s)
      <4> SUFFICES ASSUME NEW j \in i + 1 .. n PROVE ~IsNews(P[j], s)  BY DEF NoNews
      <4>1. j \in 1 .. n /\ ~(j <= i)  BY <3>4
      <4>. QED  BY <2>6, <3>2, <4>1
    <3>6. Told(P[i], s) = Status(s, listed)
      BY <2>4, <3>4, <3>5 DEF AllSay, Tells
    <3>7. P[i].kind = Status(s, listed)  BY <3>4, <3>6 DEF Told, IsNews
    <3>8. P[i].kind = "added" <=> s \in listed  BY <3>7 DEF Status
    <3>. QED  BY <3>3, <3>8
  <2>. QED  BY <2>7, <2>8
<1>. QED  BY <1>1, Invariance, PTL

\* A register change is handed to a device of the mirror, unless an older list
\* took the device away (_parse_data, __handle_reg_changed).
THEOREM ChangesAreHandled == Spec => []ChangesReachDevices
<1>1. IInv => ChangesReachDevices
  <2> SUFFICES ASSUME IInv, synced, inbox # <<>>, Head(inbox).kind = "changed",
                      Head(inbox).serial \notin overtaken
               PROVE  Head(inbox).serial \in devices
    BY DEF ChangesReachDevices
  <2>1. inbox \in Seq(Packet) /\ stream \in Seq(Packet)  BY ItemsType DEF IInv
  <2>2. PICK p \in Packet : p = Head(inbox) /\ p = inbox[1]  BY <2>1, HeadAndTail
  <2>3. PICK s \in Serials : s = p.serial
    <3>1. p \in Event  BY <2>2, PacketIs
    <3>. QED  BY <3>1 DEF Event
  <2>4. PICK l \in Nat, m \in Nat : l = Len(inbox) /\ m = Len(stream)  BY <2>1, LenProperties
  <2>5. l >= 1
    <3>1. l # 0  BY <2>1, <2>4, EmptySeq
    <3>. QED  BY <3>1
  <2>6. PICK P \in Seq(Packet) : P = inbox \o stream /\ Len(P) = l + m /\ P[1] = p
    <3>1. /\ inbox \o stream \in Seq(Packet)
          /\ Len(inbox \o stream) = Len(inbox) + Len(stream)
          /\ \A i \in 1 .. Len(inbox) + Len(stream) :
               (inbox \o stream)[i] = IF i <= Len(inbox) THEN inbox[i]
                                      ELSE stream[i - Len(inbox)]
      BY ONLY <2>1, ConcatProperties
    <3>2. 1 \in 1 .. l + m /\ 1 <= l  BY <2>5
    <3>. QED  BY <2>2, <2>4, <3>1, <3>2
  <2>7. AllSay(P, Sources, 0, s, "added")
    <3>1. Consistent(P, listed, Sources)  BY <2>6 DEF IInv, Mirrored
    <3>2. 0 \in 0 .. l + m /\ 0 < l + m /\ 0 # l + m /\ 0 + 1 = 1  BY <2>5
    <3>3. IsChange(P[0 + 1], s)  BY <2>2, <2>3, <2>6, <3>2 DEF IsChange
    <3>4. Matters(P, 0, s)  BY <2>6, <3>2, <3>3 DEF Matters
    <3>5. Truth(P, listed, 0, s) = "added"  BY <2>6, <3>2 DEF Truth
    <3>. QED  BY <2>6, <3>1, <3>2, <3>4, <3>5 DEF Consistent
  <2>8. NoNews(P, 0, 0, s)
    <3>1. 0 + 1 .. 0 = {}  OBVIOUS
    <3>. QED  BY <3>1 DEF NoNews
  <2>9. Status(s, devices) \in Sources[s]  BY <2>2, <2>3, SourcesIs DEF Status
  <2>10. Status(s, devices) = "added"  BY <2>7, <2>8, <2>9 DEF AllSay
  <2>. QED  BY <2>2, <2>3, <2>10 DEF Status
<1>. QED  BY <1>1, Invariance, PTL
=============================================================================
