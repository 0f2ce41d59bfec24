------------------------- MODULE FtdiTransfers_proofs -------------------------
(***************************************************************************)
(* Proofs about libftdi: FtdiTransfers, for any sizes of packets, chunks   *)
(* and requests, and FtdiEeprom.  What the bytes of the chip go through is *)
(* one predicate on values (Stream and Reading), with a lemma for each     *)
(* thing that a call does to them.                                         *)
(***************************************************************************)
EXTENDS FtdiTransfers, SequenceTheorems, TLAPS

\* The bytes a program got: in order, and followed by the byte base + 1.
Last(d) == IF d = <<>> THEN 0 ELSE d[Len(d)]
Before(d, i) == IF i = 1 THEN 0 ELSE d[i - 1]
Stream(d, g, base) ==
  /\ d \in Seq(Nat) /\ g \subseteq 0 .. Len(d) /\ base \in Nat
  /\ \A i \in DOMAIN d :
       IF i - 1 \in g THEN d[i] > Before(d, i) ELSE d[i] = Before(d, i) + 1
  /\ IF Len(d) \in g THEN Last(d) <= base ELSE Last(d) = base

\* A buffer that keeps the bytes after x.
Buffered(b, o, r, x) ==
  /\ o \in Nat /\ r \in Nat /\ x \in Nat
  /\ \A j \in 1 .. r : b[o + j] = x + j

\* A request got the bytes p after base, the buffer keeps those up to t.
Reading(p, b, o, r, t, base) ==
  /\ p \in Seq(Nat) /\ base \in Nat /\ p = Upward(base, Len(p))
  /\ t = base + Len(p) + r
  /\ Buffered(b, o, r, base + Len(p))

-----------------------------------------------------------------------------
(* Arithmetic. *)

\* Quotient and remainder.
LEMMA Division ==
  ASSUME NEW a \in Nat, NEW d \in Nat \ {0}
  PROVE  /\ a \div d \in Nat /\ a % d \in Nat /\ a % d < d
         /\ a = d * (a \div d) + (a % d)
OBVIOUS

\* They are the only ones.
LEMMA DivMod ==
  ASSUME NEW d \in Nat \ {0}, NEW k \in Nat, NEW r \in Nat, r < d
  PROVE  (d * k + r) \div d = k /\ (d * k + r) % d = r
<1>1. PICK a \in Nat : a = d * k + r  OBVIOUS
<1>2. PICK q \in Nat, m \in Nat : q = a \div d /\ m = a % d  BY Division
<1>3. m < d /\ a = d * q + m  BY <1>2, Division
<1>4. q = k
  <2>1. CASE q > k
    <3>1. PICK e \in Nat : q = k + 1 + e  BY <2>1
    <3>2. d * q = d * k + d + d * e  BY <3>1
    <3>3. d * e >= 0  OBVIOUS
    <3>. QED  BY <3>2, <3>3, <1>1, <1>3
  <2>2. CASE q < k
    <3>1. PICK e \in Nat : k = q + 1 + e  BY <2>2
    <3>2. d * k = d * q + d + d * e  BY <3>1
    <3>3. d * e >= 0  OBVIOUS
    <3>. QED  BY <3>2, <3>3, <1>1, <1>3
  <2>. QED  BY <2>1, <2>2
<1>. QED  BY <1>1, <1>2, <1>3, <1>4

\* The constants as the proofs need them (SizesAssumption).
LEMMA Sizes ==
  /\ PacketSize \in Nat \ {0} /\ PacketSize > 2
  /\ Payload \in Nat \ {0} /\ Payload = PacketSize - 2
  /\ Chunk \in Nat /\ Chunk % PacketSize = 0
  /\ WriteChunk \in Nat /\ MaxBytes \in Nat
BY SizesAssumption DEF Payload

-----------------------------------------------------------------------------
(* What a transfer brings. *)

\* A transfer consists of q whole packets, and the last one may be short.
Shape(n, length, q, rest) ==
  /\ n = Payload * q + rest /\ rest < Payload
  /\ \/ rest = 0 /\ length = PacketSize * q
     \/ length = PacketSize * q + 2 + rest

\* Every length a transfer may have is one of these (Lengths).
LEMMA LengthShape ==
  ASSUME NEW n \in Nat, n <= Payload * (Chunk \div PacketSize),
         NEW complete \in BOOLEAN, NEW length \in Lengths(n, complete)
  PROVE  \E q, rest \in Nat : Shape(n, length, q, rest)
<1>0. Payload \in Nat \ {0}
  BY Sizes
<1>1. PICK q \in Nat, rest \in Nat : q = n \div Payload /\ rest = n % Payload
  BY ONLY <1>0, Division, n \in Nat
<1>2. rest < Payload /\ n = Payload * q + rest
  BY ONLY <1>0, <1>1, Division, n \in Nat
<1>3. PICK whole \in Nat : whole = PacketSize * q
  BY Sizes
<1>4. whole = Chunk => rest = 0
  <2>1. ASSUME whole = Chunk PROVE Chunk \div PacketSize = q
    <3>1. (PacketSize * q + 0) \div PacketSize = q  BY Sizes, DivMod
    <3>2. PacketSize * q + 0 = Chunk  BY <1>3, <2>1, Sizes
    <3>. QED  BY <3>1, <3>2
  <2>2. PICK z \in Nat : z = Payload * q  BY Sizes
  <2>. QED  BY <1>2, <2>1, <2>2
<1>5. \/ length = whole /\ rest = 0
      \/ length = whole + 2 + rest
  BY <1>1, <1>3, <1>4 DEF Lengths
<1>. QED  BY <1>2, <1>3, <1>5 DEF Shape

\* A byte lies in one of the packets, and in a whole one if there is no other.
LEMMA Within ==
  ASSUME NEW n \in Nat, NEW q \in Nat, NEW rest \in Nat,
         n = Payload * q + rest, rest < Payload,
         NEW k \in Nat, NEW r \in Nat, Payload * k + r < n
  PROVE  k <= q /\ (rest = 0 => k < q)
<1>1. PICK z \in Nat : z = Payload * q  BY Sizes
<1>2. CASE k >= q
  <2>1. PICK e \in Nat : k = q + e  BY <1>2
  <2>2. Payload * k = z + Payload * e  BY <2>1, <1>1, Sizes
  <2>3. e >= 1 => Payload * e >= Payload
    <3>1. ASSUME e >= 1 PROVE Payload * e >= Payload
      <4>1. PICK f \in Nat : e = 1 + f  BY <3>1
      <4>2. Payload * e = Payload + Payload * f /\ Payload * f >= 0  BY <4>1, Sizes
      <4>. QED  BY <4>2, Sizes
    <3>. QED  BY <3>1
  <2>4. e = 0 => Payload * e = 0  BY Sizes
  <2>5. PICK y \in Nat : y = Payload * e  BY Sizes
  <2>6. z + y + r < z + rest  BY <1>1, <2>2, <2>5
  <2>7. e = 0 /\ rest # 0  BY <2>3, <2>4, <2>5, <2>6, <1>1, Sizes
  <2>. QED  BY <2>1, <2>7
<1>. QED  BY <1>2

\* How many packets there are to move up (num_of_chunks, chunk_remains).
LastMoved(length) ==
  IF length % PacketSize > 2 THEN length \div PacketSize ELSE length \div PacketSize - 1

\* ftdi_read_data counts the bytes of a transfer right, and moves up all packets
\* that hold some of them; the shortest transfers hold none (DataLength).
LEMMA Counted ==
  ASSUME NEW n \in Nat, NEW length, NEW q \in Nat, NEW rest \in Nat,
         Shape(n, length, q, rest)
  PROVE  /\ length \in Nat
         /\ length <= 2 => n = 0
         /\ length > 2 => DataLength(length) = n /\ n > 0
         /\ n > 0 => n + 2 <= length
         /\ LastMoved(length) = IF rest > 0 THEN q ELSE q - 1
<1>1. PICK a \in Nat, z \in Nat : a = PacketSize * q /\ z = Payload * q
  BY Sizes
<1>2. a = z + 2 * q  BY <1>1, Sizes
<1>3. n = z + rest /\ rest < Payload  BY <1>1 DEF Shape
<1>4. /\ q = 0 => z = 0
      /\ q >= 1 => z >= Payload
      /\ q >= 2 => z >= 2 * Payload
  <2>1. q = 0 => z = 0  BY <1>1, Sizes
  <2>2. ASSUME q >= 1 PROVE z >= Payload
    <3>1. PICK e \in Nat : q = 1 + e  BY <2>2
    <3>2. z = Payload + Payload * e /\ Payload * e >= 0  BY <3>1, <1>1, Sizes
    <3>. QED  BY <3>2, Sizes
  <2>3. ASSUME q >= 2 PROVE z >= 2 * Payload
    <3>1. PICK e \in Nat : q = 2 + e  BY <2>3
    <3>2. z = 2 * Payload + Payload * e /\ Payload * e >= 0  BY <3>1, <1>1, Sizes
    <3>. QED  BY <3>2, Sizes
  <2>. QED  BY <2>1, <2>2, <2>3
<1>6. CASE rest = 0 /\ length = a
  <2>1. length \div PacketSize = q /\ length % PacketSize = 0
    <3>1. (PacketSize * q + 0) \div PacketSize = q /\ (PacketSize * q + 0) % PacketSize = 0
      BY Sizes, DivMod
    <3>2. PacketSize * q + 0 = length  BY <1>1, <1>6
    <3>. QED  BY <3>1, <3>2
  <2>2. LastMoved(length) = q - 1  BY <2>1 DEF LastMoved
  <2>3. length > 2 => DataLength(length) = n /\ n > 0
    <3>1. q = 0 => length = 0  BY <1>2, <1>4, <1>6
    <3>2. CASE q = 1
      <4>1. z = Payload  BY <3>2, <1>1, Sizes
      <4>. QED  BY <1>2, <1>3, <1>6, <3>2, <4>1, Sizes DEF DataLength
    <3>3. CASE q >= 2
      <4>1. ~(length - 2 <= Payload)  BY <1>2, <1>4, <1>6, <3>3, Sizes
      <4>2. DataLength(length) = (length - 2) - (2 * (q - 1) + 0)
        BY <2>1, <4>1 DEF DataLength
      <4>. QED  BY <1>2, <1>3, <1>4, <1>6, <3>3, <4>2, Sizes
    <3>. QED  BY <3>1, <3>2, <3>3
  <2>4. n > 0 => n + 2 <= length  BY <1>2, <1>3, <1>4, <1>6
  <2>5. length <= 2 => n = 0  BY <1>2, <1>3, <1>4, <1>6, Sizes
  <2>6. length \in Nat  BY <1>6
  <2>. QED  BY <1>6, <2>2, <2>3, <2>4, <2>5, <2>6
<1>7. CASE length = a + 2 + rest
  <2>1. length \div PacketSize = q /\ length % PacketSize = 2 + rest
    <3>1. 2 + rest \in Nat /\ 2 + rest < PacketSize  BY <1>3, Sizes
    <3>2. PICK s \in Nat : s = 2 + rest  OBVIOUS
    <3>3. (PacketSize * q + s) \div PacketSize = q /\ (PacketSize * q + s) % PacketSize = s
      BY <3>1, <3>2, Sizes, DivMod
    <3>4. PacketSize * q + s = length  BY <1>1, <1>7, <3>2
    <3>. QED  BY <3>2, <3>3, <3>4
  <2>2. LastMoved(length) = IF rest > 0 THEN q ELSE q - 1
    BY <2>1 DEF LastMoved
  <2>3. length > 2 => DataLength(length) = n /\ n > 0
    <3>1. CASE q = 0
      <4>1. a = 0 /\ z = 0  BY <3>1, <1>2, <1>4
      <4>2. length - 2 = rest /\ rest <= Payload  BY <4>1, <1>3, <1>7, Sizes
      <4>3. DataLength(length) = rest  BY <4>2 DEF DataLength
      <4>. QED  BY <4>1, <4>3, <1>3, <1>7
    <3>2. CASE q >= 1
      <4>1. ~(length - 2 <= Payload)  BY <1>2, <1>4, <1>7, <3>2, Sizes
      <4>2. DataLength(length) = IF 2 + rest > 2 THEN (length - 2) - 2 * q
                                 ELSE (length - 2) - (2 * (q - 1) + 2 + rest)
        BY <2>1, <4>1 DEF DataLength
      <4>. QED  BY <1>2, <1>3, <1>4, <1>7, <3>2, <4>2, Sizes
    <3>. QED  BY <3>1, <3>2
  <2>4. n > 0 => n + 2 <= length  BY <1>2, <1>3, <1>7
  <2>5. length <= 2 => n = 0  BY <1>2, <1>3, <1>7
  <2>6. length \in Nat  BY <1>7
  <2>. QED  BY <1>7, <2>2, <2>3, <2>4, <2>5, <2>6
<1>. QED  BY <1>1, <1>6, <1>7 DEF Shape

\* Byte r of packet k is in the transfer.
LEMMA Placed ==
  ASSUME NEW n \in Nat, NEW length, NEW q \in Nat, NEW rest \in Nat,
         Shape(n, length, q, rest), NEW k \in Nat, NEW r \in Nat,
         r < Payload, Payload * k + r < n
  PROVE  PacketSize * k + r + 3 <= length
<1>1. PICK a \in Nat, z \in Nat, aq \in Nat, zq \in Nat :
        a = PacketSize * k /\ z = Payload * k /\ aq = PacketSize * q /\ zq = Payload * q
  BY Sizes
<1>2. k <= q /\ (rest = 0 => k < q)
  BY Within DEF Shape
<1>3. /\ n = zq + rest /\ z + r < n
      /\ (rest = 0 /\ length = aq) \/ length = aq + 2 + rest
  BY <1>1 DEF Shape
<1>4. CASE k < q
  <2>1. PICK e \in Nat : q = k + 1 + e  BY <1>4
  <2>2. PacketSize * q = PacketSize * k + PacketSize + PacketSize * e  BY <2>1, Sizes
  <2>3. PacketSize * e >= 0  BY Sizes
  <2>4. aq >= a + PacketSize  BY <1>1, <2>2, <2>3, Sizes
  <2>5. a + r + 3 <= length  BY <1>3, <2>4, Sizes
  <2>. QED  BY <1>1, <2>5
<1>5. CASE k = q
  <2>1. a = aq /\ z = zq /\ rest # 0  BY <1>1, <1>2, <1>5
  <2>2. a + r + 3 <= length  BY <1>3, <2>1
  <2>. QED  BY <1>1, <2>2
<1>. QED  BY <1>2, <1>4, <1>5

\* The bytes behind the status of the first packet are, after the later packets
\* are moved up, those of the chip in order (Packets, Moved).
LEMMA MovedBytes ==
  ASSUME NEW n \in Nat, NEW length, NEW q \in Nat, NEW rest \in Nat,
         Shape(n, length, q, rest), NEW t \in Nat, NEW raw,
         raw = Packets(Upward(t, n), length)
  PROVE  /\ Len(raw) = length
         /\ Buffered(Moved(raw), 2, n, t)
<1>1. length \in Nat /\ (n > 0 => n + 2 <= length)
  BY Counted
<1>2. /\ Len(raw) = length /\ DOMAIN raw = 1 .. length
      /\ \A p \in 1 .. length : raw[p] =
           IF (p - 1) % PacketSize < 2 THEN 0
           ELSE Upward(t, n)[Payload * ((p - 1) \div PacketSize) + ((p - 1) % PacketSize) - 1]
  BY <1>1 DEF Packets
<1>3. ASSUME NEW j \in 1 .. n  PROVE Moved(raw)[2 + j] = t + j
  <2>0. PICK i \in Nat : i = j - 1 /\ i < n  OBVIOUS
  <2>pay. Payload \in Nat \ {0}
    BY Sizes
  <2>1. PICK k \in Nat, r \in Nat : k = i \div Payload /\ r = i % Payload
    BY ONLY <2>pay, Division, i \in Nat
  <2>2. r < Payload /\ i = Payload * k + r /\ j - 1 = Payload * k + r
    <3>1. r < Payload /\ i = Payload * k + r
      BY ONLY <2>pay, <2>1, Division, i \in Nat
    <3>. QED  BY ONLY <2>0, <3>1
  <2>3. PICK a \in Nat, z \in Nat : a = PacketSize * k /\ z = Payload * k /\ a = z + 2 * k
    BY Sizes
  <2>4. k <= LastMoved(length)
    <3>1. Payload * k + r < n  BY <2>0, <2>2
    <3>2. k <= q /\ (rest = 0 => k < q)  BY <3>1, Within DEF Shape
    <3>3. LastMoved(length) = IF rest > 0 THEN q ELSE q - 1  BY Counted
    <3>. QED  BY ONLY <3>2, <3>3, k \in Nat, q \in Nat, rest \in Nat
  <2>5. 2 + j \in 1 .. length
    BY <1>1
  <2>6. (2 + j) + 2 * k = a + (r + 3)
    BY <2>2, <2>3
  <2>7. k >= 1 => j > Payload
    <3>1. ASSUME k >= 1 PROVE z >= Payload
      <4>1. PICK e \in Nat : k = 1 + e  BY <3>1
      <4>2. z = Payload + Payload * e /\ Payload * e >= 0  BY <4>1, <2>3, Sizes
      <4>. QED  BY <4>2, Sizes
    <3>. QED  BY <3>1, <2>2, <2>3, Sizes
  <2>8. (2 + j) + 2 * k \in 1 .. length
    <3>1. PacketSize * k + r + 3 <= length  BY <2>0, <2>2, Placed
    <3>. QED  BY <1>1, <2>3, <2>6, <3>1
  <2>9. Moved(raw)[2 + j] = raw[(2 + j) + 2 * k]
    <3>1. PICK p \in 1 .. length : p = 2 + j  BY <2>5
    <3>2. (p - 3) \div Payload = k
      <4>1. p - 3 = i  BY <2>0, <3>1
      <4>. QED  BY <2>1, <4>1
    <3>3. Moved(raw)[p] =
            IF length - 2 > Payload /\ p > 2 /\ k \in 1 .. LastMoved(length)
               /\ p + 2 * k \in 1 .. length
              THEN raw[p + 2 * k] ELSE raw[p]
      BY <1>2, <3>2 DEF Moved, LastMoved
    <3>4. CASE k = 0
      BY <3>1, <3>3, <3>4
    <3>5. CASE k >= 1
      <4>1. length - 2 > Payload  BY <1>1, <2>7, <3>5, Sizes
      <4>2. k \in 1 .. LastMoved(length)
        BY <1>1, <2>4, <3>5, Sizes, Division DEF LastMoved
      <4>. QED  BY <2>8, <3>1, <3>3, <4>1, <4>2
    <3>. QED  BY <3>4, <3>5
  <2>10. raw[(2 + j) + 2 * k] = t + j
    <3>1. PICK p \in Nat : p = (2 + j) + 2 * k  OBVIOUS
    <3>2. PICK s \in Nat : s = r + 2  OBVIOUS
    <3>3. s < PacketSize /\ p - 1 = PacketSize * k + s
      BY <2>2, <2>3, <2>6, <3>1, <3>2, Sizes
    <3>4. (p - 1) \div PacketSize = k /\ (p - 1) % PacketSize = s
      BY <3>3, Sizes, DivMod
    <3>5. raw[p] = Upward(t, n)[Payload * k + s - 1]
      BY <1>2, <2>8, <3>1, <3>2, <3>4
    <3>6. Payload * k + s - 1 = j
      BY <2>2, <2>3, <3>2
    <3>. QED  BY <3>1, <3>5, <3>6 DEF Upward
  <2>. QED  BY <2>9, <2>10
<1>4. Buffered(Moved(raw), 2, n, t)
  BY <1>3 DEF Buffered
<1>. QED  BY <1>2, <1>4

-----------------------------------------------------------------------------
(* Bytes in order. *)

\* n bytes after x.
LEMMA UpwardIs ==
  ASSUME NEW x \in Nat, NEW n \in Nat
  PROVE  /\ Upward(x, n) \in Seq(Nat) /\ Len(Upward(x, n)) = n
         /\ \A j \in 1 .. n : Upward(x, n)[j] = x + j
BY DEF Upward

\* None are none.
LEMMA UpwardNone ==
  ASSUME NEW x \in Nat
  PROVE  <<>> = Upward(x, 0)
<1>1. <<>> \in Seq(Nat) /\ Len(<<>>) = 0  BY EmptySeq
<1>. QED  BY <1>1, UpwardIs, SeqEqual

\* Some bytes and the next ones.
LEMMA UpwardConcat ==
  ASSUME NEW x \in Nat, NEW a \in Nat, NEW b \in Nat
  PROVE  Upward(x, a) \o Upward(x + a, b) = Upward(x, a + b)
<1> DEFINE u == Upward(x, a)
           v == Upward(x + a, b)
           w == Upward(x, a + b)
<1>1. /\ u \in Seq(Nat) /\ Len(u) = a /\ \A j \in 1 .. a : u[j] = x + j
      /\ v \in Seq(Nat) /\ Len(v) = b /\ \A j \in 1 .. b : v[j] = (x + a) + j
      /\ w \in Seq(Nat) /\ Len(w) = a + b /\ \A j \in 1 .. a + b : w[j] = x + j
  <2>1. x + a \in Nat /\ a + b \in Nat  OBVIOUS
  <2>2. u \in Seq(Nat) /\ Len(u) = a /\ \A j \in 1 .. a : u[j] = x + j
    BY UpwardIs
  <2>3. v \in Seq(Nat) /\ Len(v) = b /\ \A j \in 1 .. b : v[j] = (x + a) + j
    BY <2>1, UpwardIs
  <2>4. w \in Seq(Nat) /\ Len(w) = a + b /\ \A j \in 1 .. a + b : w[j] = x + j
    BY <2>1, UpwardIs
  <2>. QED  BY <2>2, <2>3, <2>4
<1> HIDE DEF u, v, w
<1>2. /\ u \o v \in Seq(Nat) /\ Len(u \o v) = a + b
      /\ \A i \in 1 .. a + b : (u \o v)[i] = IF i <= a THEN u[i] ELSE v[i - a]
  <2>1. /\ u \o v \in Seq(Nat) /\ Len(u \o v) = Len(u) + Len(v)
        /\ \A i \in 1 .. Len(u) + Len(v) :
             (u \o v)[i] = IF i <= Len(u) THEN u[i] ELSE v[i - Len(u)]
    <3>1. u \in Seq(Nat) /\ v \in Seq(Nat)  BY <1>1
    <3>. QED  BY ONLY <3>1, ConcatProperties
  <2>. QED  BY ONLY <1>1, <2>1
<1>3. ASSUME NEW i \in 1 .. a + b PROVE (u \o v)[i] = w[i]
  <2>1. CASE i <= a
    BY <1>1, <1>2, <2>1
  <2>2. CASE i > a
    <3>1. PICK j \in 1 .. b : j = i - a  BY <2>2
    <3>2. (u \o v)[i] = v[j]  BY <1>2, <2>2, <3>1
    <3>3. v[j] = (x + a) + j  BY <1>1
    <3>4. w[i] = x + i  BY <1>1
    <3>5. (x + a) + j = x + i  BY <3>1
    <3>. QED  BY <3>2, <3>3, <3>4, <3>5
  <2>3. i <= a \/ i > a  OBVIOUS
  <2>. QED  BY <2>1, <2>2, <2>3
<1>4. u \o v = w
  BY <1>1, <1>2, <1>3, SeqEqual
<1>. QED  BY <1>4 DEF u, v, w

\* A part of a buffer that keeps the bytes after x.
LEMMA SliceIs ==
  ASSUME NEW b, NEW o, NEW n, NEW x, Buffered(b, o, n, x)
  PROVE  Slice(b, o, n) = Upward(x, n)
<1>0. o \in Nat /\ n \in Nat /\ x \in Nat /\ \A j \in 1 .. n : b[o + j] = x + j
  BY DEF Buffered
<1>1. ASSUME NEW i \in (o + 1) .. (o + n) PROVE b[i] = x + (i - o) /\ b[i] \in Nat
  <2>1. PICK j \in 1 .. n : i = o + j /\ j = i - o  
    <3>1. i - o \in 1 .. n /\ i = o + (i - o)  BY <1>0
    <3>. QED  BY <3>1
  <2>. QED  BY <1>0, <2>1
<1>2. PICK m \in Int, l \in Int : m = o + 1 /\ l = o + n  BY <1>0
<1>3. /\ SubSeq(b, m, l) \in Seq(Nat)
      /\ Len(SubSeq(b, m, l)) = n
      /\ \A i \in 1 .. n : SubSeq(b, m, l)[i] = b[m + i - 1]
  <2>1. \A i \in m .. l : b[i] \in Nat  BY <1>1, <1>2
  <2>2. l - m + 1 = n /\ (m <= l \/ n = 0)  BY <1>0, <1>2
  <2>. QED  BY <2>1, <2>2, SubSeqProperties
<1>4. ASSUME NEW i \in 1 .. n PROVE SubSeq(b, m, l)[i] = x + i
  <2>1. m + i - 1 = o + i  BY <1>0, <1>2
  <2>. QED  BY <1>0, <1>3, <2>1
<1>5. SubSeq(b, m, l) = Upward(x, n)
  <2>1. /\ Upward(x, n) \in Seq(Nat) /\ Len(Upward(x, n)) = n
        /\ \A j \in 1 .. n : Upward(x, n)[j] = x + j
    BY <1>0, UpwardIs
  <2>2. \A i \in 1 .. Len(SubSeq(b, m, l)) : SubSeq(b, m, l)[i] = Upward(x, n)[i]
    BY <1>3, <1>4, <2>1
  <2>. QED  BY <1>3, <2>1, <2>2, SeqEqual
<1>. QED  BY <1>2, <1>5 DEF Slice

\* The program gets the next bytes (Deliver).
LEMMA StreamDelivers ==
  ASSUME NEW d, NEW g, NEW base, Stream(d, g, base), NEW n \in Nat
  PROVE  Stream(d \o Upward(base, n), g, base + n)
<1> DEFINE u == Upward(base, n)
           e == d \o u
<1> HIDE DEF u
<1>1. /\ d \in Seq(Nat) /\ g \subseteq 0 .. Len(d) /\ base \in Nat
      /\ \A i \in DOMAIN d :
           IF i - 1 \in g THEN d[i] > Before(d, i) ELSE d[i] = Before(d, i) + 1
      /\ IF Len(d) \in g THEN Last(d) <= base ELSE Last(d) = base
  BY DEF Stream
<1>2. PICK l \in Nat : l = Len(d) /\ DOMAIN d = 1 .. l
  BY <1>1, LenProperties
<1>3. u \in Seq(Nat) /\ Len(u) = n /\ \A j \in 1 .. n : u[j] = base + j
  BY <1>1, UpwardIs DEF u
<1>4. /\ e \in Seq(Nat) /\ Len(e) = l + n
      /\ \A i \in 1 .. l + n : e[i] = IF i <= l THEN d[i] ELSE u[i - l]
  <2>1. /\ e \in Seq(Nat) /\ Len(e) = Len(d) + Len(u)
        /\ \A i \in 1 .. Len(d) + Len(u) :
             e[i] = IF i <= Len(d) THEN d[i] ELSE u[i - Len(d)]
    BY <1>1, <1>3, ConcatProperties
  <2>. QED  BY <1>2, <1>3, <2>1
<1>5. DOMAIN e = 1 .. l + n
  BY <1>4, LenProperties
<1>6. Last(d) = IF l = 0 THEN 0 ELSE d[l]
  BY <1>1, <1>2, EmptySeq DEF Last
<1>7. Last(e) = IF l + n = 0 THEN 0 ELSE e[l + n]
  <2>1. e = <<>> <=> l + n = 0  BY <1>4, EmptySeq
  <2>. QED  BY <1>4, <2>1 DEF Last
<1> HIDE DEF e
<1>8. ASSUME NEW i \in 1 .. l + n
      PROVE  IF i - 1 \in g THEN e[i] > Before(e, i) ELSE e[i] = Before(e, i) + 1
  <2>1. CASE i <= l
    <3>1. e[i] = d[i] /\ (i # 1 => e[i - 1] = d[i - 1])
      BY <1>4, <2>1
    <3>2. Before(e, i) = Before(d, i)  BY <3>1 DEF Before
    <3>3. i \in DOMAIN d  BY <1>2, <2>1
    <3>. QED  BY <1>1, <3>1, <3>2, <3>3
  <2>2. CASE i = l + 1
    <3>1. u[1] = base + 1  BY <1>3, <2>2
    <3>2. e[i] = base + 1  BY <1>4, <2>2, <3>1
    <3>3. Before(e, i) = Last(d)
      <4>1. CASE l = 0
        BY <1>6, <2>2, <4>1 DEF Before
      <4>2. CASE l > 0
        <5>1. i # 1 /\ i - 1 = l /\ e[l] = d[l]  BY <1>4, <2>2, <4>2
        <5>. QED  BY <1>6, <4>2, <5>1 DEF Before
      <4>. QED  BY <4>1, <4>2
    <3>4. IF l \in g THEN Last(d) <= base ELSE Last(d) = base  BY <1>1, <1>2
    <3>5. i - 1 = l  BY <2>2
    <3>6. Last(d) \in Nat
      <4>1. l # 0 => d[l] \in Nat  BY <1>1, <1>2, ElementOfSeq
      <4>. QED  BY <1>6, <4>1
    <3>. QED  BY <1>1, <3>2, <3>3, <3>4, <3>5, <3>6
  <2>3. CASE i > l + 1
    <3>1. e[i] = u[i - l] /\ e[i - 1] = u[(i - 1) - l]  BY <1>4, <2>3
    <3>2. PICK j \in 1 .. n, k \in 1 .. n : j = i - l /\ k = (i - 1) - l /\ j = k + 1
      BY <2>3
    <3>3. e[i] = base + j /\ e[i - 1] = base + k  BY <1>3, <3>1, <3>2
    <3>4. Before(e, i) = base + k  BY <2>3, <3>3 DEF Before
    <3>5. i - 1 \notin g  BY <1>1, <1>2, <2>3
    <3>. QED  BY <1>1, <3>2, <3>3, <3>4, <3>5
  <2>. QED  BY <2>1, <2>2, <2>3
<1>9. IF l + n \in g THEN Last(e) <= base + n ELSE Last(e) = base + n
  <2>1. CASE n = 0
    <3>1. l > 0 => e[l] = d[l]  BY <1>4, <2>1
    <3>2. Last(e) = Last(d)  BY <1>6, <1>7, <2>1, <3>1
    <3>. QED  BY <1>1, <1>2, <2>1, <3>2
  <2>2. CASE n > 0
    <3>1. e[l + n] = u[(l + n) - l] /\ (l + n) - l = n  BY <1>4, <2>2
    <3>2. Last(e) = base + n  BY <1>3, <1>7, <2>2, <3>1
    <3>3. l + n \notin g  BY <1>1, <1>2, <2>2
    <3>. QED  BY <3>2, <3>3
  <2>. QED  BY <2>1, <2>2
<1>10. g \subseteq 0 .. l + n /\ base + n \in Nat
  BY <1>1, <1>2
<1>11. Stream(e, g, base + n)
  BY <1>4, <1>5, <1>8, <1>9, <1>10 DEF Stream
<1>. QED  BY <1>11 DEF e, u

\* The program loses the next bytes and knows of it (Lose).
LEMMA StreamLoses ==
  ASSUME NEW d, NEW g, NEW base, Stream(d, g, base), NEW n \in Nat
  PROVE  Stream(d, IF n > 0 THEN g \cup {Len(d)} ELSE g, base + n)
<1>1. PICK l \in Nat : l = Len(d) /\ DOMAIN d = 1 .. l
  BY LenProperties DEF Stream
<1>2. base \in Nat  BY DEF Stream
<1>3. CASE n = 0
  <2>1. base + n = base /\ ~(n > 0)  BY <1>2, <1>3
  <2>. QED  BY <2>1
<1>4. CASE n > 0
  <2>1. PICK h : h = g \cup {l}  OBVIOUS
  <2>2. h \subseteq 0 .. l /\ l \in h
    <3>1. g \subseteq 0 .. l  BY <1>1 DEF Stream
    <3>. QED  BY <2>1, <3>1
  <2>3. \A i \in 1 .. l : i - 1 \in h <=> i - 1 \in g  BY <2>1
  <2>4. Last(d) \in Nat
    <3>1. l # 0 => d[l] \in Nat  BY <1>1, ElementOfSeq DEF Stream
    <3>2. l = 0 => d = <<>>  BY <1>1, EmptySeq DEF Stream
    <3>. QED  BY <1>1, <3>1, <3>2 DEF Last
  <2>5. Last(d) <= base + n /\ base + n \in Nat
    BY <1>2, <2>4 DEF Stream
  <2>6. Stream(d, h, base + n)
    BY <1>1, <2>2, <2>3, <2>5 DEF Stream
  <2>. QED  BY <1>1, <1>4, <2>1, <2>6
<1>. QED  BY <1>3, <1>4

-----------------------------------------------------------------------------
(* What a request has and what the buffer keeps. *)

\* Before a request the n next bytes are taken from the buffer (the first lines
\* of ftdi_read_data and ftdi_read_data_submit).
LEMMA ReadingHits ==
  ASSUME NEW b, NEW o, NEW r, NEW t, NEW base, Reading(<<>>, b, o, r, t, base),
         NEW n \in Nat, n <= r
  PROVE  /\ Slice(b, o, n) = Upward(base, n)
         /\ Reading(<<>>, b, o + n, r - n, t, base + n)
         /\ Reading(Slice(b, o, n), b, o + n, r - n, t, base)
<1>1. Len(<<>>) = 0 /\ <<>> \in Seq(Nat)
  BY EmptySeq
<1>2. /\ base \in Nat /\ o \in Nat /\ r \in Nat /\ t = base + r
      /\ \A j \in 1 .. r : b[o + j] = base + j
  BY <1>1 DEF Reading, Buffered
<1>3. Slice(b, o, n) = Upward(base, n)
  <2>1. \A j \in 1 .. n : j \in 1 .. r  BY <1>2
  <2>2. Buffered(b, o, n, base)  BY <1>2, <2>1 DEF Buffered
  <2>. QED  BY <2>2, SliceIs
<1>4. PICK u : u = Upward(base, n)  OBVIOUS
<1>5. u \in Seq(Nat) /\ Len(u) = n
  BY <1>2, <1>4, UpwardIs
<1>6. Buffered(b, o + n, r - n, base + n)
  <2>1. ASSUME NEW j \in 1 .. r - n PROVE b[(o + n) + j] = (base + n) + j
    <3>1. PICK k \in 1 .. r : k = n + j  BY <1>2
    <3>2. b[o + k] = base + k  BY <1>2
    <3>3. o + k = (o + n) + j /\ base + k = (base + n) + j  BY <1>2, <3>1
    <3>. QED  BY <3>2, <3>3
  <2>2. o + n \in Nat /\ r - n \in Nat /\ base + n \in Nat  BY <1>2
  <2>. QED  BY <2>1, <2>2 DEF Buffered
<1>7. t = (base + n) + (r - n)
  BY <1>2
<1>8. Reading(<<>>, b, o + n, r - n, t, base + n)
  <2>1. <<>> = Upward(base + n, 0)  BY <1>2, UpwardNone
  <2>2. (base + n) + 0 = base + n /\ base + n \in Nat  BY <1>2
  <2>. QED  BY <1>1, <1>6, <1>7, <2>1, <2>2 DEF Reading
<1>9. Reading(u, b, o + n, r - n, t, base)
  BY <1>2, <1>4, <1>5, <1>6, <1>7 DEF Reading
<1>. QED  BY <1>3, <1>4, <1>8, <1>9

\* An empty buffer keeps no bytes.
LEMMA NothingKept ==
  ASSUME NEW b, NEW o \in Nat, NEW x \in Nat
  PROVE  Buffered(b, o, 0, x)
BY DEF Buffered

\* A request that the buffer cannot answer takes all of it.
LEMMA ReadingStarts ==
  ASSUME NEW b, NEW o, NEW r, NEW t, NEW base, Reading(<<>>, b, o, r, t, base)
  PROVE  /\ Reading(Slice(b, o, r), <<>>, 0, 0, t, base)
         /\ Len(Slice(b, o, r)) = r /\ r \in Nat
<1>1. Len(<<>>) = 0
  BY EmptySeq
<1>2. base \in Nat /\ r \in Nat /\ t = base + r
  BY <1>1 DEF Reading, Buffered
<1>3. Slice(b, o, r) = Upward(base, r)
  BY <1>2, ReadingHits
<1>4. PICK u : u = Upward(base, r)  OBVIOUS
<1>5. u \in Seq(Nat) /\ Len(u) = r
  BY <1>2, <1>4, UpwardIs
<1>6. Buffered(<<>>, 0, 0, base + r)
  BY <1>2, NothingKept
<1>7. t = base + r + 0
  BY <1>2
<1>8. Reading(u, <<>>, 0, 0, t, base)
  BY <1>2, <1>4, <1>5, <1>6, <1>7 DEF Reading
<1>. QED  BY <1>2, <1>3, <1>4, <1>5, <1>8

\* What the request got is no longer of interest, because the program has it or
\* was told of an error.
LEMMA ReadingEnds ==
  ASSUME NEW p, NEW b, NEW o, NEW r, NEW t, NEW base, Reading(p, b, o, r, t, base)
  PROVE  /\ Reading(<<>>, b, o, r, t, base + Len(p))
         /\ Len(p) \in Nat /\ p = Upward(base, Len(p)) /\ r \in Nat
<1>1. Len(<<>>) = 0 /\ <<>> \in Seq(Nat)
  BY EmptySeq
<1>2. /\ base \in Nat /\ p = Upward(base, Len(p)) /\ t = base + Len(p) + r
      /\ Buffered(b, o, r, base + Len(p)) /\ p \in Seq(Nat) /\ r \in Nat
  BY DEF Reading, Buffered
<1>3. PICK l \in Nat : l = Len(p)
  BY <1>2, LenProperties
<1>4. <<>> = Upward(base + l, 0)
  BY <1>2, UpwardNone
<1>5. (base + l) + 0 = base + l /\ base + l \in Nat
  BY <1>2
<1>6. Reading(<<>>, b, o, r, t, base + l)
  BY <1>1, <1>2, <1>3, <1>4, <1>5 DEF Reading
<1>. QED  BY <1>2, <1>3, <1>6

\* Nor are the bytes that were kept and k more, when the buffer is emptied.
LEMMA ReadingResets ==
  ASSUME NEW b, NEW o, NEW r, NEW t, NEW base, Reading(<<>>, b, o, r, t, base),
         NEW k \in Nat, NEW c, NEW m \in Nat
  PROVE  Reading(<<>>, c, m, 0, t + k, base + (r + k))
<1>1. Len(<<>>) = 0 /\ <<>> \in Seq(Nat)
  BY EmptySeq
<1>2. base \in Nat /\ r \in Nat /\ t = base + r
  BY <1>1 DEF Reading, Buffered
<1>3. PICK x \in Nat : x = base + (r + k)
  BY <1>2
<1>4. <<>> = Upward(x, 0) /\ Buffered(c, m, 0, x)
  BY UpwardNone, NothingKept
<1>5. t + k = x + 0 + 0 /\ x + 0 = x
  BY <1>2, <1>3
<1>6. Reading(<<>>, c, m, 0, t + k, x)
  BY <1>1, <1>4, <1>5 DEF Reading
<1>. QED  BY <1>3, <1>6

\* What the buffer keeps of a transfer (KeepRest).
Keeps(raw, p, size, c, m, l) ==
  LET part == TakenFrom(raw, p, size)
      left == DataLength(Len(raw)) - part
  IN  IF left = 0 THEN c = <<>> /\ m = 0 /\ l = 0
      ELSE c = Moved(raw) /\ m = 2 + part /\ l = left

\* A transfer with data, of which the buffer keeps what the request leaves.
Transfers(p, size, t, n, length, q, rest, raw, c, m, l) ==
  /\ Len(p) < size /\ Shape(n, length, q, rest) /\ length > 2
  /\ raw = Packets(Upward(t, n), length) /\ Keeps(raw, p, size, c, m, l)

\* Unless a request has all it wants nothing is left.
AllIfShort(got, size, l) == Len(got) <= size /\ (Len(got) # size => l = 0)

\* The request takes what it still wants, in order, and the buffer keeps the rest
\* (ftdi_read_data, ftdi_read_data_cb).
LEMMA ReadingTakes ==
  ASSUME NEW p, NEW b, NEW o, NEW t \in Nat, NEW base \in Nat,
         Reading(p, b, o, 0, t, base),
         NEW size \in Nat, NEW n \in Nat, NEW length, NEW q \in Nat, NEW rest \in Nat,
         NEW raw, NEW c, NEW m, NEW l,
         Transfers(p, size, t, n, length, q, rest, raw, c, m, l)
  PROVE  /\ Reading(NowGot(raw, p, size), c, m, l, t + n, base)
         /\ AllIfShort(NowGot(raw, p, size), size, l)
<1>0. /\ Len(p) < size /\ Shape(n, length, q, rest) /\ length > 2
      /\ raw = Packets(Upward(t, n), length) /\ Keeps(raw, p, size, c, m, l)
  BY DEF Transfers
<1>1. /\ base \in Nat /\ p = Upward(base, Len(p)) /\ t = base + Len(p) + 0
      /\ p \in Seq(Nat)
  BY DEF Reading
<1>2. PICK k \in Nat : k = Len(p) /\ t = base + k /\ p = Upward(base, k) /\ k < size
  BY <1>0, <1>1, LenProperties
<1>room. PICK w \in Nat : w = size - k
  BY ONLY <1>2, k \in Nat, size \in Nat
<1>3. /\ Len(raw) = length
      /\ Buffered(Moved(raw), 2, n, t)
  BY <1>0, MovedBytes
<1>4. DataLength(Len(raw)) = n
  BY <1>0, <1>3, Counted
<1>5. PICK part \in Nat : part = TakenFrom(raw, p, size) /\ part = Least(n, size - k)
  <2>1. TakenFrom(raw, p, size) = Least(n, size - k)
    BY ONLY <1>2, <1>4 DEF TakenFrom
  <2>2. Least(n, w) \in Nat
    BY ONLY n \in Nat, w \in Nat DEF Least
  <2>. QED  BY ONLY <1>room, <2>1, <2>2
<1>6. part <= n /\ k + part <= size /\ (k + part # size => part = n)
  <2>1. part = IF n < w THEN n ELSE w  BY <1>5, <1>room DEF Least
  <2>2. k + w = size
    BY ONLY <1>room, k \in Nat, size \in Nat, w \in Nat
  <2>. QED  BY ONLY <2>1, <2>2, k \in Nat, w \in Nat, n \in Nat, part \in Nat
<1>7. Slice(Moved(raw), 2, part) = Upward(t, part)
  <2>1. Buffered(Moved(raw), 2, part, t)  BY <1>3, <1>6 DEF Buffered
  <2>. QED  BY <2>1, SliceIs
<1>8. NowGot(raw, p, size) = Upward(base, k + part)
  <2>1. Upward(base, k) \o Upward(t, part) = Upward(base, k + part)
    <3>1. PICK x \in Nat : x = base /\ t = x + k  BY <1>1, <1>2
    <3>2. Upward(x, k) \o Upward(x + k, part) = Upward(x, k + part)
      BY ONLY x \in Nat, k \in Nat, part \in Nat, UpwardConcat
    <3>. QED  BY ONLY <3>1, <3>2
  <2>. QED  BY <1>2, <1>5, <1>7, <2>1 DEF NowGot
<1>9. PICK got : got = NowGot(raw, p, size)  OBVIOUS
<1>10. got \in Seq(Nat) /\ Len(got) = k + part /\ got = Upward(base, k + part)
  <2>1. k + part \in Nat  OBVIOUS
  <2>. QED  BY <1>1, <1>8, <1>9, <2>1, UpwardIs
<1>11. IF n - part = 0 THEN c = <<>> /\ m = 0 /\ l = 0
       ELSE c = Moved(raw) /\ m = 2 + part /\ l = n - part
  BY <1>0, <1>4, <1>5 DEF Keeps
<1>12. PICK x \in Nat : x = base + (k + part) /\ x = t + part
  BY <1>1, <1>2
<1>13. Buffered(c, m, l, x) /\ l = n - part
  <2>1. CASE n - part = 0
    BY <1>11, <2>1, NothingKept
  <2>2. CASE n - part # 0
    <3>1. ASSUME NEW j \in 1 .. n - part PROVE Moved(raw)[(2 + part) + j] = x + j
      <4>1. PICK i \in 1 .. n : i = part + j  BY <1>6
      <4>2. Moved(raw)[2 + i] = t + i  BY <1>3 DEF Buffered
      <4>3. 2 + i = (2 + part) + j /\ t + i = x + j  BY <1>12, <4>1
      <4>. QED  BY <4>2, <4>3
    <3>2. n - part \in Nat /\ 2 + part \in Nat  BY <1>6
    <3>. QED  BY <1>11, <2>2, <3>1, <3>2 DEF Buffered
  <2>. QED  BY <2>1, <2>2
<1>14. t + n = base + (k + part) + l
  BY <1>1, <1>2, <1>6, <1>13
<1>15. Reading(got, c, m, l, t + n, base)
  BY <1>1, <1>10, <1>12, <1>13, <1>14 DEF Reading
<1>16. Len(got) <= size /\ (Len(got) # size => l = 0)
  BY <1>6, <1>10, <1>13
<1>. QED  BY <1>9, <1>15, <1>16 DEF AllIfShort

\* The program gets `delivered` and the request the bytes after them, the buffer
\* keeps the bytes after those, up to the last one that was transferred.
ReadsAt(p, b, o, r, t, d, g) ==
  \E base \in Nat : Stream(d, g, base) /\ Reading(p, b, o, r, t, base)

\* The positions of what was lost, when n more bytes are (Lose).
GapsWith(d, g, n) == IF n > 0 THEN g \cup {Len(d)} ELSE g

\* The types of what it is about.
LEMMA ReadsTypes ==
  ASSUME NEW p, NEW b, NEW o, NEW r, NEW t, NEW d, NEW g, ReadsAt(p, b, o, r, t, d, g)
  PROVE  /\ p \in Seq(Nat) /\ Len(p) \in Nat /\ o \in Nat /\ r \in Nat
         /\ d \in Seq(Nat)
<1>1. PICK base \in Nat : Stream(d, g, base) /\ Reading(p, b, o, r, t, base)
  BY DEF ReadsAt
<1>2. p \in Seq(Nat) /\ o \in Nat /\ r \in Nat /\ d \in Seq(Nat)
  BY <1>1 DEF Stream, Reading, Buffered
<1>. QED  BY <1>2, LenProperties

\* The next bytes are taken from the buffer, by the program or by a request.
LEMMA ReadsHit ==
  ASSUME NEW b, NEW o, NEW r, NEW t, NEW d, NEW g, ReadsAt(<<>>, b, o, r, t, d, g),
         NEW n \in Nat, n <= r
  PROVE  /\ ReadsAt(<<>>, b, o + n, r - n, t, d \o Slice(b, o, n), g)
         /\ ReadsAt(Slice(b, o, n), b, o + n, r - n, t, d, g)
         /\ Len(Slice(b, o, n)) = n
<1>1. PICK base \in Nat : Stream(d, g, base) /\ Reading(<<>>, b, o, r, t, base)
  BY DEF ReadsAt
<1>2. /\ Slice(b, o, n) = Upward(base, n)
      /\ Reading(<<>>, b, o + n, r - n, t, base + n)
      /\ Reading(Slice(b, o, n), b, o + n, r - n, t, base)
  BY <1>1, ReadingHits
<1>3. Stream(d \o Slice(b, o, n), g, base + n)
  BY <1>1, <1>2, StreamDelivers
<1>4. base + n \in Nat  OBVIOUS
<1>5. Len(Slice(b, o, n)) = n
  BY <1>2, UpwardIs
<1>. QED  BY <1>1, <1>2, <1>3, <1>4, <1>5 DEF ReadsAt

\* A request takes all there is in the buffer.
LEMMA ReadsStart ==
  ASSUME NEW b, NEW o, NEW r, NEW t, NEW d, NEW g, ReadsAt(<<>>, b, o, r, t, d, g)
  PROVE  /\ ReadsAt(Slice(b, o, r), <<>>, 0, 0, t, d, g)
         /\ Len(Slice(b, o, r)) = r
<1>1. PICK base \in Nat : Stream(d, g, base) /\ Reading(<<>>, b, o, r, t, base)
  BY DEF ReadsAt
<1>2. Reading(Slice(b, o, r), <<>>, 0, 0, t, base) /\ Len(Slice(b, o, r)) = r
  BY <1>1, ReadingStarts
<1>. QED  BY <1>1, <1>2 DEF ReadsAt

\* The program gets what the request got.
LEMMA ReadsDelivered ==
  ASSUME NEW p, NEW b, NEW o, NEW r, NEW t, NEW d, NEW g, ReadsAt(p, b, o, r, t, d, g)
  PROVE  ReadsAt(<<>>, b, o, r, t, d \o p, g)
<1>1. PICK base \in Nat : Stream(d, g, base) /\ Reading(p, b, o, r, t, base)
  BY DEF ReadsAt
<1>2. /\ Reading(<<>>, b, o, r, t, base + Len(p))
      /\ Len(p) \in Nat /\ p = Upward(base, Len(p))
  BY <1>1, ReadingEnds
<1>3. PICK k \in Nat : k = Len(p) /\ p = Upward(base, k)  BY <1>2
<1>4. Stream(d \o Upward(base, k), g, base + k)
  BY <1>1, StreamDelivers
<1>5. Stream(d \o p, g, base + k) /\ base + k \in Nat
  BY <1>3, <1>4
<1>. QED  BY <1>2, <1>3, <1>5 DEF ReadsAt

\* The program is told of an error, and what the request got is lost, also the
\* n bytes that came last.
LEMMA ReadsLost ==
  ASSUME NEW p, NEW b, NEW o, NEW r, NEW t, NEW d, NEW g, ReadsAt(p, b, o, r, t, d, g)
  PROVE  /\ ReadsAt(<<>>, b, o, r, t, d, GapsWith(d, g, Len(p)))
         /\ r = 0 => \A n \in Nat :
              ReadsAt(<<>>, b, o, 0, t + n, d, GapsWith(d, g, n + Len(p)))
<1>1. PICK base \in Nat : Stream(d, g, base) /\ Reading(p, b, o, r, t, base)
  BY DEF ReadsAt
<1>2. Reading(<<>>, b, o, r, t, base + Len(p)) /\ Len(p) \in Nat
  BY <1>1, ReadingEnds
<1>3. PICK k \in Nat : k = Len(p)  BY <1>2
<1>4. Stream(d, GapsWith(d, g, k), base + k) /\ base + k \in Nat
  <2>1. base + k \in Nat  OBVIOUS
  <2>2. Stream(d, GapsWith(d, g, k), base + k)  BY <1>1, StreamLoses DEF GapsWith
  <2>. QED  BY <2>1, <2>2
<1>5. ASSUME r = 0, NEW n \in Nat
      PROVE  ReadsAt(<<>>, b, o, 0, t + n, d, GapsWith(d, g, n + k))
  <2>1. o \in Nat  BY <1>1 DEF Reading, Buffered
  <2>2. Reading(<<>>, b, o, 0, t, base + k)  BY <1>2, <1>3, <1>5
  <2>3. Reading(<<>>, b, o, 0, t + n, (base + k) + (0 + n))
    BY <2>1, <2>2, ReadingResets
  <2>4. PICK x \in Nat, y \in Nat : x = n + k /\ y = base + x /\ y = (base + k) + (0 + n)
    OBVIOUS
  <2>5. Stream(d, GapsWith(d, g, x), base + x)
    BY <1>1, StreamLoses DEF GapsWith
  <2>. QED  BY <2>3, <2>4, <2>5 DEF ReadsAt
<1>. QED  BY <1>2, <1>3, <1>4, <1>5 DEF ReadsAt

\* The program forgets what is kept, and k bytes that the chip has.
LEMMA ReadsReset ==
  ASSUME NEW b, NEW o, NEW r, NEW t, NEW d, NEW g, ReadsAt(<<>>, b, o, r, t, d, g),
         NEW k \in Nat
  PROVE  ReadsAt(<<>>, <<>>, 0, 0, t + k, d, GapsWith(d, g, r + k))
<1>1. PICK base \in Nat : Stream(d, g, base) /\ Reading(<<>>, b, o, r, t, base)
  BY DEF ReadsAt
<1>2. PICK x \in Nat : x = r + k
  <2>1. r \in Nat  BY <1>1 DEF Reading, Buffered
  <2>. QED  BY <2>1
<1>3. Reading(<<>>, <<>>, 0, 0, t + k, base + x)
  BY <1>1, <1>2, ReadingResets
<1>4. Stream(d, GapsWith(d, g, x), base + x) /\ base + x \in Nat
  <2>1. base + x \in Nat  OBVIOUS
  <2>2. Stream(d, GapsWith(d, g, x), base + x)  BY <1>1, StreamLoses DEF GapsWith
  <2>. QED  BY <2>1, <2>2
<1>. QED  BY <1>2, <1>3, <1>4 DEF ReadsAt

\* What one transfer may bring (Most).
LEMMA AtMost ==
  ASSUME sent \in Nat, taken \in Nat, taken <= sent, NEW n \in Nat, n <= Most
  PROVE  /\ taken + n \in Nat /\ taken + n <= sent
         /\ n <= Payload * (Chunk \div PacketSize)
<1>1. PICK z \in Nat : z = Payload * (Chunk \div PacketSize)
  <2>1. Chunk \div PacketSize \in Nat  BY Sizes, Division
  <2>. QED  BY <2>1, Sizes
<1>. QED  BY <1>1 DEF Most, Least, Available

\* A transfer that brings n bytes of data, of which the buffer keeps what the
\* request leaves.
Answers(p, size, t, n, length, raw, c, m, l) ==
  /\ Len(p) < size /\ n <= Payload * (Chunk \div PacketSize)
  /\ \E complete \in BOOLEAN : length \in Lengths(n, complete)
  /\ length > 2 /\ raw = Packets(Upward(t, n), length) /\ Keeps(raw, p, size, c, m, l)

\* What ReadingTakes says of the reads.
LEMMA ReadsTake ==
  ASSUME NEW p, NEW b, NEW o, NEW t \in Nat, NEW d, NEW g, ReadsAt(p, b, o, 0, t, d, g),
         NEW size \in Nat, NEW n \in Nat, NEW length, NEW raw, NEW c, NEW m, NEW l,
         Answers(p, size, t, n, length, raw, c, m, l)
  PROVE  /\ ReadsAt(NowGot(raw, p, size), c, m, l, t + n, d, g)
         /\ AllIfShort(NowGot(raw, p, size), size, l)
<1>1. PICK base \in Nat : Stream(d, g, base) /\ Reading(p, b, o, 0, t, base)
  BY DEF ReadsAt
<1>2. PICK q \in Nat, rest \in Nat : Shape(n, length, q, rest)
  BY LengthShape DEF Answers
<1>3. Transfers(p, size, t, n, length, q, rest, raw, c, m, l)
  BY <1>2 DEF Answers, Transfers
<1>4. /\ Reading(NowGot(raw, p, size), c, m, l, t + n, base)
      /\ AllIfShort(NowGot(raw, p, size), size, l)
  BY <1>1, <1>3, ReadingTakes
<1>. QED  BY <1>1, <1>4 DEF ReadsAt

-----------------------------------------------------------------------------
(* The invariant. *)

Call ==
  [op : {"idle", "read", "write", "done"}, size : Nat, got : Seq(Nat),
   tc : Blocks, failed : {0, 1}]
Block ==
  [state : {"none", "open", "completed", "freed"}, size : Nat, got : Seq(Nat),
   offset : Nat, from : Nat, inFlight : BOOLEAN, cancelled : BOOLEAN, ok : BOOLEAN]

Counts == sent \in Nat /\ taken \in Nat /\ taken <= sent

\* A write has sent the first of its bytes, in order.
CallOK(c) ==
  /\ c \in Call
  /\ c.op = "write" => c.got = Upward(0, Len(c.got)) /\ Len(c.got) <= c.size
BlockOK(t, b) ==
  /\ b \in Block
  /\ b.state # "freed" => (b.inFlight <=> b.state = "open")
  /\ t \in Writers => b.got = Upward(0, b.offset) /\ b.from = b.offset
BlocksOK(blocks) ==
  blocks \in [Blocks -> Block] /\ \A t \in Blocks : BlockOK(t, blocks[t])

\* A request for bytes of the chip wants more than it has, and then the buffer
\* keeps none. There is one such request.
Wants(got, size) == Len(got) < size /\ readbuffer_remaining = 0
OneRead ==
  /\ call.op = "read" => tc[Reader].state = "none" /\ Wants(call.got, call.size)
  /\ tc[Reader].state = "open" => Wants(tc[Reader].got, tc[Reader].size)

\* What the program asked for and was not given yet.
PendingOf(c, b) ==
  IF c.op = "read" THEN c.got
  ELSE IF b.state \in {"open", "completed"} THEN b.got ELSE <<>>
Pending == PendingOf(call, tc[Reader])
Reads ==
  ReadsAt(Pending, readbuffer, readbuffer_offset, readbuffer_remaining, taken,
          delivered, gaps)

IInv == Counts /\ CallOK(call) /\ BlocksOK(tc) /\ OneRead /\ Reads

\* The names of the blocks differ.
LEMMA Names ==
  Reader \in Blocks /\ Writers \subseteq Blocks /\ Reader \notin Writers
BY BlocksAssumption DEF Blocks

\* Nothing is called.
LEMMA IdleOK == CallOK(Idle) /\ Idle.op = "idle"
<1>1. <<>> \in Seq(Nat)  BY EmptySeq
<1>2. Idle \in Call  BY <1>1, Names DEF Idle, Call
<1>. QED  BY <1>2 DEF CallOK, Idle

\* A call starts.
LEMMA InCallIs ==
  ASSUME NEW op \in {"read", "write"}, NEW size \in Nat, NEW got \in Seq(Nat)
  PROVE  /\ InCall(op, size, got) \in Call
         /\ InCall(op, size, got).op = op /\ InCall(op, size, got).size = size
         /\ InCall(op, size, got).got = got
BY Names DEF InCall, Idle, Call

\* A call has got some more.
LEMMA CallGot ==
  ASSUME NEW c \in Call, NEW got \in Seq(Nat), NEW d, d = [c EXCEPT !.got = got]
  PROVE  d \in Call /\ d.op = c.op /\ d.size = c.size /\ d.got = got
BY DEF Call

\* A block without a request.
LEMMA NoBlockOK ==
  \A t : BlockOK(t, NoBlock) /\ NoBlock.state = "none"
<1>1. <<>> \in Seq(Nat) /\ Len(<<>>) = 0 /\ <<>> = Upward(0, 0)
  BY EmptySeq, UpwardNone
<1>. QED  BY <1>1 DEF NoBlock, BlockOK, Block

\* A request that was submitted.
LEMMA SubmittedIs ==
  ASSUME NEW size \in Nat, NEW got \in Seq(Nat)
  PROVE  /\ Submitted(size, got) \in Block /\ Submitted(size, got).state = "open"
         /\ Submitted(size, got).size = size /\ Submitted(size, got).got = got
         /\ Submitted(size, got).offset = Len(got) /\ Submitted(size, got).from = 0
<1>1. Len(got) \in Nat  BY LenProperties
<1>2. PICK b : b = Submitted(size, got)  OBVIOUS
<1>3. /\ b \in Block /\ b.state = "open" /\ b.size = size /\ b.got = got
      /\ b.offset = Len(got) /\ b.from = 0
  BY <1>1, <1>2 DEF Submitted, NoBlock, Block
<1>. QED  BY <1>2, <1>3

LEMMA SubmittedFlies ==
  ASSUME NEW size, NEW got, NEW b, b = Submitted(size, got)
  PROVE  b.inFlight = TRUE
BY DEF Submitted, NoBlock

\* One block changes.
LEMMA BlockChanges ==
  ASSUME BlocksOK(tc), NEW t \in Blocks, NEW b, BlockOK(t, b), tc' = [tc EXCEPT ![t] = b]
  PROVE  /\ BlocksOK(tc') /\ tc'[t] = b
         /\ \A u \in Blocks : u # t => tc'[u] = tc[u]
<1>1. /\ tc' \in [Blocks -> Block] /\ tc'[t] = b
      /\ \A u \in Blocks : u # t => tc'[u] = tc[u]
  BY DEF BlocksOK, BlockOK
<1>2. BlocksOK(tc')  BY <1>1 DEF BlocksOK
<1>. QED  BY <1>1, <1>2

\* A block of a write changes, or the one of the reads does but the request has
\* the same as before.
LEMMA OthersKeep ==
  ASSUME IInv, CallOK(call'), call.op # "read", call'.op # "read",
         BlocksOK(tc'),
         tc'[Reader].state = tc[Reader].state, tc'[Reader].got = tc[Reader].got,
         tc'[Reader].size = tc[Reader].size,
         UNCHANGED <<sent, taken, bufferVars, delivered, gaps>>
  PROVE  IInv'
<1>1. Counts'  BY DEF IInv, Counts
<1>2. OneRead'  BY DEF IInv, OneRead, Wants, bufferVars
<1>3. Pending' = Pending  BY DEF Pending, PendingOf
<1>4. Reads'  BY <1>3 DEF IInv, Reads, bufferVars
<1>. QED  BY <1>1, <1>2, <1>4 DEF IInv

-----------------------------------------------------------------------------
(* The steps. *)

\* Before a read nothing is pending.
LEMMA BeforeRead ==
  ASSUME IInv, MayRead
  PROVE  /\ ReadsAt(<<>>, readbuffer, readbuffer_offset, readbuffer_remaining, taken,
                    delivered, gaps)
         /\ readbuffer_remaining \in Nat
         /\ call.op = "idle" /\ tc[Reader].state = "none"
<1>1. Pending = <<>>  BY DEF MayRead, Pending, PendingOf
<1>2. ReadsAt(<<>>, readbuffer, readbuffer_offset, readbuffer_remaining, taken,
              delivered, gaps)
  BY <1>1 DEF IInv, Reads
<1>3. readbuffer_remaining \in Nat  BY <1>2, ReadsTypes
<1>. QED  BY <1>2, <1>3 DEF MayRead

LEMMA ReadDataKeeps ==
  ASSUME IInv, NEW size \in ReadSizes, ftdi_read_data(size)
  PROVE  IInv'
<1>1. size \in Nat  BY SizesAssumption
<1>2. /\ ReadsAt(<<>>, readbuffer, readbuffer_offset, readbuffer_remaining, taken,
                 delivered, gaps)
      /\ readbuffer_remaining \in Nat /\ call.op = "idle" /\ tc[Reader].state = "none"
  BY BeforeRead DEF ftdi_read_data
<1>3. UNCHANGED <<sent, taken, tc, faults>>  BY DEF ftdi_read_data
<1>4. Counts' /\ BlocksOK(tc')  BY <1>3 DEF IInv, Counts
<1>5. CASE size <= readbuffer_remaining
  <2>1. /\ Deliver(Slice(readbuffer, readbuffer_offset, size))
        /\ TakeKept(size) /\ UNCHANGED call
    BY <1>5 DEF ftdi_read_data
  <2>2. ReadsAt(<<>>, readbuffer, readbuffer_offset + size, readbuffer_remaining - size,
                taken, delivered \o Slice(readbuffer, readbuffer_offset, size), gaps)
    BY <1>1, <1>2, <1>5, ReadsHit
  <2>3. Pending' = <<>>  BY <1>2, <1>3, <2>1 DEF Pending, PendingOf
  <2>4. Reads'  BY <1>3, <2>1, <2>2, <2>3 DEF Reads, Deliver, TakeKept
  <2>5. OneRead'  BY <1>2, <1>3, <2>1 DEF OneRead
  <2>. QED  BY <1>4, <2>1, <2>4, <2>5 DEF IInv
<1>6. CASE ~(size <= readbuffer_remaining)
  <2>1. call' = InCall("read", size, Kept) /\ EmptyBuffer /\ Neither
    BY <1>6 DEF ftdi_read_data
  <2>2. /\ ReadsAt(Kept, <<>>, 0, 0, taken, delivered, gaps)
        /\ Len(Kept) = readbuffer_remaining
    BY <1>2, ReadsStart DEF Kept
  <2>3. Kept \in Seq(Nat)  BY <2>2, ReadsTypes
  <2>4. call' \in Call /\ call'.op = "read" /\ call'.size = size /\ call'.got = Kept
    BY <1>1, <2>1, <2>3, InCallIs
  <2>5. Pending' = Kept  BY <2>4 DEF Pending, PendingOf
  <2>6. Reads'  BY <1>3, <2>1, <2>2, <2>5 DEF Reads, EmptyBuffer, Neither
  <2>7. Len(Kept) < size  BY <1>1, <1>2, <1>6, <2>2
  <2>8. OneRead'
    BY <1>2, <1>3, <2>1, <2>4, <2>7 DEF OneRead, Wants, EmptyBuffer
  <2>9. CallOK(call')  BY <2>4 DEF CallOK
  <2>. QED  BY <1>4, <2>6, <2>8, <2>9 DEF IInv
<1>. QED  BY <1>5, <1>6

\* Not yet answered, a read of the chip has the buffer for itself.
LEMMA InRead ==
  ASSUME IInv, call.op = "read"
  PROVE  /\ ReadsAt(call.got, readbuffer, readbuffer_offset, 0, taken, delivered, gaps)
         /\ call.size \in Nat /\ Len(call.got) < call.size
         /\ tc[Reader].state = "none" /\ readbuffer_remaining = 0
         /\ call \in Call
<1>1. Pending = call.got  BY DEF Pending, PendingOf
<1>2. readbuffer_remaining = 0 /\ Len(call.got) < call.size /\ tc[Reader].state = "none"
  BY DEF IInv, OneRead, Wants
<1>3. call \in Call /\ call.size \in Nat  BY DEF IInv, CallOK, Call
<1>. QED  BY <1>1, <1>2, <1>3 DEF IInv, Reads

\* What a transfer may bring.
LEMMA MostNat ==
  ASSUME Counts
  PROVE  Most \in Nat
<1>1. PICK z \in Nat : z = Payload * (Chunk \div PacketSize)
  <2>1. Chunk \div PacketSize \in Nat  BY Sizes, Division
  <2>. QED  BY <2>1, Sizes
<1>. QED  BY <1>1 DEF Counts, Most, Least, Available

LEMMA LengthNat ==
  ASSUME NEW n \in Nat, n <= Payload * (Chunk \div PacketSize),
         NEW complete \in BOOLEAN, NEW length \in Lengths(n, complete)
  PROVE  length \in Nat
<1>1. PICK q \in Nat, rest \in Nat : Shape(n, length, q, rest)  BY LengthShape
<1>. QED  BY <1>1, Counted

LEMMA KeepRestKeeps ==
  ASSUME NEW raw, NEW got, NEW size, KeepRest(raw, got, size)
  PROVE  Keeps(raw, got, size, readbuffer', readbuffer_offset', readbuffer_remaining')
BY DEF KeepRest, Keeps, EmptyBuffer

LEMMA ReadTransferKeeps ==
  ASSUME IInv, ReadTransfer
  PROVE  IInv'
<1>1. call.op = "read" /\ UNCHANGED <<sent, tc, faults>>  BY DEF ReadTransfer
<1>2. /\ ReadsAt(call.got, readbuffer, readbuffer_offset, 0, taken, delivered, gaps)
      /\ call.size \in Nat /\ Len(call.got) < call.size
      /\ tc[Reader].state = "none" /\ readbuffer_remaining = 0
      /\ call \in Call
  BY <1>1, InRead
<1> DEFINE Happens(n, length, raw, got) ==
        /\ taken' = taken + n
        /\ IF NoData(length)
             THEN call' = Idle /\ Deliver(call.got) /\ UNCHANGED bufferVars
             ELSE /\ KeepRest(raw, call.got, call.size)
                  /\ IF Len(got) = call.size
                       THEN call' = Idle /\ Deliver(got)
                       ELSE call' = [call EXCEPT !.got = got] /\ Neither
<1>n. PICK n \in 0 .. Most : \E length \in Lengths(n, TRUE) :
        Happens(n, length, Arrived(n, length),
                NowGot(Arrived(n, length), call.got, call.size))
  BY DEF ReadTransfer
<1>length. PICK length \in Lengths(n, TRUE) :
        Happens(n, length, Arrived(n, length),
                NowGot(Arrived(n, length), call.got, call.size))
  BY <1>n
<1>3. PICK raw, got :
        /\ raw = Packets(Upward(taken, n), length)
        /\ got = NowGot(raw, call.got, call.size)
        /\ Happens(n, length, raw, got)
  BY <1>length DEF Arrived
<1>4. sent \in Nat /\ taken \in Nat /\ taken <= sent  BY DEF IInv, Counts
<1>5. n \in Nat /\ n <= Most
  <2>1. Most \in Nat  BY MostNat DEF IInv
  <2>. QED  BY <2>1
<1>6. taken + n \in Nat /\ taken + n <= sent /\ n <= Payload * (Chunk \div PacketSize)
  BY <1>4, <1>5, AtMost
<1>7. Counts' /\ BlocksOK(tc')  BY <1>1, <1>3, <1>4, <1>6 DEF IInv, Counts
<1>8. TRUE \in BOOLEAN /\ length \in Nat  BY <1>5, <1>6, LengthNat
<1>9. CASE NoData(length)
  <2>1. call' = Idle /\ Deliver(call.got) /\ UNCHANGED bufferVars  BY <1>3, <1>9
  <2>2. length <= 2  BY <1>9 DEF NoData
  <2>3. n = 0
    <3>1. PICK q \in Nat, rest \in Nat : Shape(n, length, q, rest)
      BY <1>5, <1>6, <1>8, LengthShape
    <3>. QED  BY <1>5, <2>2, <3>1, Counted
  <2>4. taken' = taken  BY <1>3, <1>4, <2>3
  <2>5. ReadsAt(<<>>, readbuffer, readbuffer_offset, 0, taken,
                delivered \o call.got, gaps)
    BY <1>2, ReadsDelivered
  <2>6. Pending' = <<>>  BY <1>1, <1>2, <2>1, IdleOK DEF Pending, PendingOf
  <2>7. Reads'  BY <1>2, <2>1, <2>4, <2>5, <2>6 DEF Reads, Deliver, bufferVars
  <2>8. OneRead'  BY <1>1, <1>2, <2>1, IdleOK DEF OneRead
  <2>. QED  BY <1>7, <2>1, <2>7, <2>8, IdleOK DEF IInv
<1>10. CASE ~NoData(length)
  <2>1. /\ KeepRest(raw, call.got, call.size)
        /\ IF Len(got) = call.size
             THEN call' = Idle /\ Deliver(got)
             ELSE call' = [call EXCEPT !.got = got] /\ Neither
    BY <1>3, <1>10
  <2>2. length > 2  BY <1>8, <1>10 DEF NoData
  <2>3. Keeps(raw, call.got, call.size,
              readbuffer', readbuffer_offset', readbuffer_remaining')
    BY <2>1, KeepRestKeeps
  <2>4. /\ ReadsAt(got, readbuffer', readbuffer_offset', readbuffer_remaining',
                   taken + n, delivered, gaps)
        /\ AllIfShort(got, call.size, readbuffer_remaining')
    <3>1. Answers(call.got, call.size, taken, n, length, raw,
                  readbuffer', readbuffer_offset', readbuffer_remaining')
      BY <1>2, <1>3, <1>6, <1>8, <2>2, <2>3 DEF Answers
    <3>2. PICK z \in Nat : z = call.size  BY <1>2
    <3>. QED  BY <1>2, <1>3, <1>4, <1>5, <3>1, <3>2, ReadsTake
  <2>5. got \in Seq(Nat) /\ Len(got) \in Nat  BY <2>4, ReadsTypes
  <2>6. CASE Len(got) = call.size
    <3>1. call' = Idle /\ Deliver(got)  BY <2>1, <2>6
    <3>2. ReadsAt(<<>>, readbuffer', readbuffer_offset', readbuffer_remaining',
                  taken + n, delivered \o got, gaps)
      BY <2>4, ReadsDelivered
    <3>3. Pending' = <<>>  BY <1>1, <1>2, <3>1, IdleOK DEF Pending, PendingOf
    <3>4. Reads'  BY <1>3, <3>1, <3>2, <3>3 DEF Reads, Deliver
    <3>5. OneRead'  BY <1>1, <1>2, <3>1, IdleOK DEF OneRead
    <3>. QED  BY <1>7, <3>1, <3>4, <3>5, IdleOK DEF IInv
  <2>7. CASE Len(got) # call.size
    <3>1. call' = [call EXCEPT !.got = got] /\ Neither  BY <2>1, <2>7
    <3>2. call' \in Call /\ call'.op = "read" /\ call'.size = call.size /\ call'.got = got
      BY <1>1, <1>2, <2>5, <3>1, CallGot
    <3>3. Pending' = got  BY <3>2 DEF Pending, PendingOf
    <3>4. Reads'  BY <1>3, <2>4, <3>1, <3>3 DEF Reads, Neither
    <3>5. Len(got) < call.size /\ readbuffer_remaining' = 0
      BY <1>2, <2>4, <2>5, <2>7 DEF AllIfShort
    <3>6. OneRead'  BY <1>1, <1>2, <3>2, <3>5 DEF OneRead, Wants
    <3>7. CallOK(call')  BY <3>2 DEF CallOK
    <3>. QED  BY <1>7, <3>4, <3>6, <3>7 DEF IInv
  <2>. QED  BY <2>6, <2>7
<1>. QED  BY <1>9, <1>10

LEMMA ReadFailsKeeps ==
  ASSUME IInv, ReadFails
  PROVE  IInv'
<1>1. /\ call.op = "read" /\ call' = Idle /\ UNCHANGED <<sent, bufferVars, tc>>
  BY DEF ReadFails
<1>2. /\ ReadsAt(call.got, readbuffer, readbuffer_offset, 0, taken, delivered, gaps)
      /\ tc[Reader].state = "none" /\ readbuffer_remaining = 0
  BY <1>1, InRead
<1>3. PICK n \in 0 .. Most : taken' = taken + n /\ Lose(n + Len(call.got))
  BY DEF ReadFails
<1>4. sent \in Nat /\ taken \in Nat /\ taken <= sent  BY DEF IInv, Counts
<1>5. n \in Nat /\ n <= Most
  <2>1. Most \in Nat  BY MostNat DEF IInv
  <2>. QED  BY <2>1
<1>6. taken + n \in Nat /\ taken + n <= sent
  BY <1>4, <1>5, AtMost
<1>7. Counts' /\ BlocksOK(tc')  BY <1>1, <1>3, <1>4, <1>6 DEF IInv, Counts
<1>8. ReadsAt(<<>>, readbuffer, readbuffer_offset, 0, taken + n, delivered,
              GapsWith(delivered, gaps, n + Len(call.got)))
  BY <1>2, <1>5, ReadsLost
<1>9. Pending' = <<>>  BY <1>1, <1>2, IdleOK DEF Pending, PendingOf
<1>10. Reads'  BY <1>1, <1>2, <1>3, <1>8, <1>9 DEF Reads, Lose, GapsWith, bufferVars
<1>11. OneRead'  BY <1>1, <1>2, IdleOK DEF OneRead
<1>. QED  BY <1>1, <1>7, <1>10, <1>11, IdleOK DEF IInv

\* Writes.
LEMMA NoBytes == \E e \in Seq(Nat) : e = <<>> /\ Len(e) = 0 /\ e = Upward(0, 0)
<1>1. <<>> \in Seq(Nat) /\ Len(<<>>) = 0  BY EmptySeq
<1>2. <<>> = Upward(0, 0)  BY UpwardNone
<1>. QED  BY <1>1, <1>2

LEMMA WriteDataKeeps ==
  ASSUME IInv, NEW size \in WriteSizes, ftdi_write_data(size)
  PROVE  IInv'
<1>1. /\ call.op = "idle" /\ call' = InCall("write", size, <<>>) /\ Neither
      /\ UNCHANGED <<sent, taken, bufferVars, tc, faults>>
  BY DEF ftdi_write_data
<1>2. size \in Nat  BY SizesAssumption
<1>3. PICK e \in Seq(Nat) : e = <<>> /\ Len(e) = 0 /\ e = Upward(0, 0)
  BY NoBytes
<1>4. call' \in Call /\ call'.op = "write" /\ call'.size = size /\ call'.got = e
  <2>1. call' = InCall("write", size, e) /\ "write" \in {"read", "write"}  BY <1>1, <1>3
  <2>. QED  BY <1>2, <2>1, InCallIs
<1>5. CallOK(call')
  BY <1>2, <1>3, <1>4 DEF CallOK
<1>. QED  BY <1>1, <1>4, <1>5, OthersKeep DEF IInv, Neither

LEMMA WriteTransferKeeps ==
  ASSUME IInv, WriteTransfer
  PROVE  IInv'
<1>1. call.op = "write" /\ Neither /\ UNCHANGED <<sent, taken, bufferVars, tc>>
  BY DEF WriteTransfer
<1>2. /\ call \in Call /\ call.got = Upward(0, Len(call.got)) /\ Len(call.got) <= call.size
      /\ call.size \in Nat
  BY <1>1 DEF IInv, CallOK, Call
<1>3. CallOK(call') /\ call'.op # "read"
  <2>1. CASE call' = Idle  BY <2>1, IdleOK
  <2>2. CASE call' # Idle
    <3>1. PICK k \in Nat, size \in Nat : k = Len(call.got) /\ size = call.size /\ k <= size
      <4>1. Len(call.got) \in Nat  BY <1>2, LenProperties DEF Call
      <4>. QED  BY <1>2, <4>1
    <3>2. PICK room \in Nat : room = size - k  BY <3>1
    <3>3. PICK part \in Nat : part = Least(WriteChunk, room)  BY Sizes DEF Least
    <3>4. k + part <= size
      <4>1. part <= room  BY <3>3, Sizes DEF Least
      <4>. QED  BY <3>1, <3>2, <4>1
    <3>5. PICK got : got = Upward(0, k) \o Upward(k, part)  OBVIOUS
    <3>6. call' = [call EXCEPT !.got = got]
      <4>1. call.got \o Upward(Len(call.got), Least(WriteChunk, call.size - Len(call.got)))
              = got
        BY <1>2, <3>1, <3>2, <3>3, <3>5
      <4>. QED  BY <2>2, <4>1 DEF WriteTransfer
    <3>7. got = Upward(0, k + part)
      <4>1. 0 + k = k /\ 0 \in Nat  OBVIOUS
      <4>2. Upward(0, k) \o Upward(0 + k, part) = Upward(0, k + part)
        BY ONLY <4>1, k \in Nat, part \in Nat, UpwardConcat
      <4>. QED  BY <3>5, <4>1, <4>2
    <3>8. got \in Seq(Nat) /\ Len(got) = k + part
      <4>1. PICK x \in Nat : x = k + part  OBVIOUS
      <4>. QED  BY <3>7, <4>1, UpwardIs
    <3>9. call' \in Call /\ call'.op = "write" /\ call'.size = size /\ call'.got = got
      BY <1>1, <1>2, <3>1, <3>6, <3>8, CallGot
    <3>. QED  BY <3>4, <3>7, <3>8, <3>9 DEF CallOK
  <2>. QED  BY <2>1, <2>2
<1>. QED  BY <1>1, <1>3, OthersKeep DEF IInv, Neither

LEMMA SubmitWriteKeeps ==
  ASSUME IInv, NEW w \in Writers, NEW size \in WriteSizes, ftdi_write_data_submit(w, size)
  PROVE  IInv'
<1>1. /\ call.op = "idle" /\ tc' = [tc EXCEPT ![w] = Submitted(size, <<>>)] /\ Neither
      /\ UNCHANGED <<sent, taken, bufferVars, call, faults>>
  BY DEF ftdi_write_data_submit
<1>2. size \in Nat  BY SizesAssumption
<1>3. PICK e \in Seq(Nat) : e = <<>> /\ Len(e) = 0 /\ e = Upward(0, 0)
  BY NoBytes
<1>4. PICK b : b = Submitted(size, e)  OBVIOUS
<1>5. /\ b \in Block /\ b.state = "open" /\ b.inFlight = TRUE
      /\ b.got = e /\ b.offset = Len(e) /\ b.from = 0
  <2>1. /\ b \in Block /\ b.state = "open" /\ b.got = e
        /\ b.offset = Len(e) /\ b.from = 0
    BY ONLY <1>2, <1>4, e \in Seq(Nat), SubmittedIs
  <2>2. b.inFlight = TRUE  BY ONLY <1>4, SubmittedFlies
  <2>. QED  BY <2>1, <2>2
<1>6. BlockOK(w, b)  BY <1>3, <1>5 DEF BlockOK
<1>7. BlocksOK(tc') /\ \A u \in Blocks : u # w => tc'[u] = tc[u]
  <2>1. tc' = [tc EXCEPT ![w] = b] /\ w \in Blocks /\ BlocksOK(tc)
    BY <1>1, <1>3, <1>4, Names DEF IInv
  <2>. QED  BY <1>6, <2>1, BlockChanges
<1>8. tc'[Reader] = tc[Reader]  BY <1>7, Names
<1>. QED  BY <1>1, <1>7, <1>8, OthersKeep DEF IInv, Neither

LEMMA WriteCallbackKeeps ==
  ASSUME IInv, NEW w \in Writers, NEW n \in 0 .. WriteChunk, NEW complete \in BOOLEAN,
         ftdi_write_data_cb(w, n, complete)
  PROVE  IInv'
<1>1. /\ Ends(w) /\ Neither /\ UNCHANGED <<sent, taken, bufferVars, call>>
  BY DEF ftdi_write_data_cb
<1>2. PICK a : /\ a \in Block /\ a = tc[w] /\ a.inFlight /\ a.state # "freed"
               /\ a.state = "open" /\ a.got = Upward(0, a.offset) /\ a.from = a.offset
  BY <1>1, Names DEF Ends, IInv, BlocksOK, BlockOK
<1>3. PICK k \in Nat, m \in Nat : k = a.offset /\ m = k + n /\ n \in Nat
  BY <1>2, Sizes DEF Block
<1>4. a.got \o Upward(a.from, n) = Upward(0, m)
  <2>1. 0 + k = k /\ 0 \in Nat  OBVIOUS
  <2>2. Upward(0, k) \o Upward(0 + k, n) = Upward(0, k + n)
    BY ONLY <1>3, <2>1, k \in Nat, UpwardConcat
  <2>. QED  BY <1>2, <1>3, <2>1, <2>2
<1>5. PICK b : b = [a EXCEPT !.got = Upward(0, m), !.offset = m, !.from = m,
                             !.ok = complete, !.cancelled = FALSE]
  OBVIOUS
<1>6. tc' = [tc EXCEPT ![w] = Completed(b)] \/ tc' = [tc EXCEPT ![w] = b]
  <2>1. [[tc[w] EXCEPT !.got = @ \o Upward(tc[w].from, n), !.offset = @ + n,
                       !.ok = complete, !.cancelled = FALSE]
          EXCEPT !.from = tc[w].offset + n] = b
    BY <1>2, <1>3, <1>4, <1>5 DEF Block
  <2>2. [tc[w] EXCEPT !.got = @ \o Upward(tc[w].from, n), !.offset = @ + n,
                      !.ok = complete, !.cancelled = FALSE].offset = tc[w].offset + n
    BY <1>2 DEF Block
  <2>. QED  BY <2>1, <2>2 DEF ftdi_write_data_cb, Leaves
<1>7. Upward(0, m) \in Seq(Nat)  BY UpwardIs
<1>8. BlockOK(w, b) /\ BlockOK(w, Completed(b))
  <2>1. /\ b \in Block /\ b.state = "open" /\ b.inFlight /\ b.got = Upward(0, b.offset)
        /\ b.from = b.offset
    BY <1>2, <1>5, <1>7 DEF Block
  <2>2. PICK c : c = Completed(b)  OBVIOUS
  <2>3. /\ c \in Block /\ c.state = "completed" /\ c.inFlight = FALSE
        /\ c.got = b.got /\ c.offset = b.offset /\ c.from = b.from
    BY <2>1, <2>2 DEF Completed, Block
  <2>. QED  BY <2>1, <2>2, <2>3 DEF BlockOK
<1>9. BlocksOK(tc') /\ \A u \in Blocks : u # w => tc'[u] = tc[u]
  BY <1>6, <1>8, Names, BlockChanges DEF IInv
<1>10. tc'[Reader] = tc[Reader]  BY <1>9, Names
<1>11. CASE call.op # "read"
  BY <1>1, <1>9, <1>10, <1>11, OthersKeep DEF IInv, Neither
<1>12. CASE call.op = "read"
  <2>1. Counts' /\ OneRead'
    BY <1>1, <1>10 DEF IInv, Counts, OneRead, Wants, bufferVars
  <2>2. Pending' = Pending  BY <1>1, <1>10 DEF Pending, PendingOf
  <2>3. Reads'  BY <1>1, <2>2 DEF IInv, Reads, bufferVars, Neither
  <2>. QED  BY <1>1, <1>9, <2>1, <2>3 DEF IInv
<1>. QED  BY <1>11, <1>12

\* Submitted reads.
LEMMA SubmitReadKeeps ==
  ASSUME IInv, NEW size \in ReadSizes, ftdi_read_data_submit(size)
  PROVE  IInv'
<1>1. size \in Nat  BY SizesAssumption
<1>2. /\ ReadsAt(<<>>, readbuffer, readbuffer_offset, readbuffer_remaining, taken,
                 delivered, gaps)
      /\ readbuffer_remaining \in Nat /\ call.op = "idle" /\ tc[Reader].state = "none"
  BY BeforeRead DEF ftdi_read_data_submit
<1>3. UNCHANGED <<sent, taken, call>>  BY DEF ftdi_read_data_submit
<1>4. Counts' /\ CallOK(call')  BY <1>3 DEF IInv, Counts
<1>5. BlocksOK(tc) /\ Reader \in Blocks /\ Reader \notin Writers  BY Names DEF IInv
<1>6. CASE size <= readbuffer_remaining
  <2>1. PICK got, a : got = Slice(readbuffer, readbuffer_offset, size)
                      /\ a = Submitted(size, got)
    OBVIOUS
  <2>2. PICK b : b = [a EXCEPT !.state = "completed", !.inFlight = FALSE]  OBVIOUS
  <2>3. tc' = [tc EXCEPT ![Reader] = b] /\ TakeKept(size) /\ Neither
    BY <1>6, <2>1, <2>2 DEF ftdi_read_data_submit
  <2>4. ReadsAt(got, readbuffer, readbuffer_offset + size, readbuffer_remaining - size,
                taken, delivered, gaps)
    BY <1>1, <1>2, <1>6, <2>1, ReadsHit
  <2>5. got \in Seq(Nat)  BY <2>4, ReadsTypes
  <2>6. a \in Block /\ a.got = got
    BY ONLY <1>1, <2>1, <2>5, SubmittedIs
  <2>7. b \in Block /\ b.state = "completed" /\ b.inFlight = FALSE /\ b.got = got
    BY <2>2, <2>6 DEF Block
  <2>8. BlockOK(Reader, b)  BY <1>5, <2>7 DEF BlockOK
  <2>9. BlocksOK(tc') /\ tc'[Reader] = b  BY <1>5, <2>3, <2>8, BlockChanges
  <2>10. Pending' = got  BY <1>2, <1>3, <2>7, <2>9 DEF Pending, PendingOf
  <2>11. Reads'  BY <1>3, <2>3, <2>4, <2>10 DEF Reads, TakeKept, Neither
  <2>12. OneRead'  BY <1>2, <1>3, <2>7, <2>9 DEF OneRead
  <2>. QED  BY <1>4, <2>9, <2>11, <2>12 DEF IInv
<1>7. CASE ~(size <= readbuffer_remaining)
  <2>1. /\ EmptyBuffer
        /\ \/ /\ tc' = [tc EXCEPT ![Reader] = Submitted(size, Kept)] /\ Neither
           \/ Lose(readbuffer_remaining) /\ UNCHANGED tc
    BY <1>7 DEF ftdi_read_data_submit
  <2>2. /\ ReadsAt(Kept, <<>>, 0, 0, taken, delivered, gaps)
        /\ Len(Kept) = readbuffer_remaining
    BY <1>2, ReadsStart DEF Kept
  <2>3. CASE tc' = [tc EXCEPT ![Reader] = Submitted(size, Kept)] /\ Neither
    <3>1. Kept \in Seq(Nat)  BY <2>2, ReadsTypes
    <3>2. PICK b : b = Submitted(size, Kept)  OBVIOUS
    <3>3. /\ b \in Block /\ b.state = "open" /\ b.inFlight = TRUE
          /\ b.size = size /\ b.got = Kept
      <4>1. b \in Block /\ b.state = "open" /\ b.size = size /\ b.got = Kept
        BY ONLY <1>1, <3>1, <3>2, SubmittedIs
      <4>2. b.inFlight = TRUE  BY ONLY <3>2, SubmittedFlies
      <4>. QED  BY <4>1, <4>2
    <3>4. BlockOK(Reader, b)  BY <1>5, <3>3 DEF BlockOK
    <3>5. tc' = [tc EXCEPT ![Reader] = b]  BY <2>3, <3>2
    <3>6. BlocksOK(tc') /\ tc'[Reader] = b  BY <1>5, <3>4, <3>5, BlockChanges
    <3>7. Pending' = Kept  BY <1>2, <1>3, <3>3, <3>6 DEF Pending, PendingOf
    <3>8. Reads'  BY <1>3, <2>1, <2>2, <2>3, <3>7 DEF Reads, EmptyBuffer, Neither
    <3>9. Len(Kept) < size  BY <1>1, <1>2, <1>7, <2>2
    <3>10. OneRead'
      BY <1>2, <1>3, <2>1, <3>3, <3>6, <3>9 DEF OneRead, Wants, EmptyBuffer
    <3>. QED  BY <1>4, <3>6, <3>8, <3>10 DEF IInv
  <2>4. CASE Lose(readbuffer_remaining) /\ UNCHANGED tc
    <3>1. ReadsAt(<<>>, <<>>, 0, 0, taken, delivered,
                  GapsWith(delivered, gaps, readbuffer_remaining))
      BY <2>2, ReadsLost
    <3>2. Pending' = <<>>  BY <1>2, <1>3, <2>4 DEF Pending, PendingOf
    <3>3. Reads'
      BY <1>3, <2>1, <2>4, <3>1, <3>2 DEF Reads, EmptyBuffer, Lose, GapsWith
    <3>4. OneRead'  BY <1>2, <1>3, <2>4 DEF OneRead
    <3>5. BlocksOK(tc')  BY <1>5, <2>4
    <3>. QED  BY <1>4, <3>3, <3>4, <3>5 DEF IInv
  <2>. QED  BY <2>1, <2>3, <2>4
<1>. QED  BY <1>6, <1>7

LEMMA ReadCallbackKeeps ==
  ASSUME IInv, NEW n \in 0 .. MaxBytes, NEW complete \in BOOLEAN,
         ftdi_read_data_cb(n, complete)
  PROVE  IInv'
<1>1. /\ Ends(Reader) /\ n <= Most /\ taken' = taken + n /\ Neither
      /\ UNCHANGED <<sent, call>>
  BY DEF ftdi_read_data_cb
<1>2. BlocksOK(tc) /\ Reader \in Blocks /\ Reader \notin Writers  BY Names DEF IInv
<1>3. PICK a : /\ a = tc[Reader] /\ a \in Block /\ a.state = "open" /\ a.inFlight
  BY <1>1, <1>2 DEF Ends, BlocksOK, BlockOK
<1>4. call.op # "read"  BY <1>3 DEF IInv, OneRead
<1>5. /\ Pending = a.got /\ Len(a.got) < a.size /\ readbuffer_remaining = 0
      /\ a.size \in Nat
  BY <1>3, <1>4 DEF Pending, PendingOf, IInv, OneRead, Wants, Block
<1>6. ReadsAt(a.got, readbuffer, readbuffer_offset, 0, taken, delivered, gaps)
  BY <1>5 DEF IInv, Reads
<1> DEFINE Happens(length, raw, got) ==
      LET block == [a EXCEPT !.got = got, !.offset = Len(got), !.ok = complete,
                             !.cancelled = FALSE]
      IN  /\ IF length > 2 THEN KeepRest(raw, a.got, a.size) ELSE UNCHANGED bufferVars
          /\ \/ tc' = [tc EXCEPT ![Reader] =
                         IF Len(got) = a.size THEN Completed(block) ELSE block]
             \/ tc' = [tc EXCEPT ![Reader] = Completed(block)]
<1>length. PICK length \in Lengths(n, complete) :
        Happens(length, Arrived(n, length),
                IF length > 2 THEN NowGot(Arrived(n, length), a.got, a.size) ELSE a.got)
  BY <1>3 DEF ftdi_read_data_cb, Leaves
<1>7. PICK raw, got :
        /\ raw = Packets(Upward(taken, n), length)
        /\ got = (IF length > 2 THEN NowGot(raw, a.got, a.size) ELSE a.got)
        /\ Happens(length, raw, got)
  BY <1>length DEF Arrived
<1>8. sent \in Nat /\ taken \in Nat /\ taken <= sent /\ n \in Nat
  BY Sizes DEF IInv, Counts
<1>9. taken + n \in Nat /\ taken + n <= sent /\ n <= Payload * (Chunk \div PacketSize)
  BY <1>1, <1>8, AtMost
<1>10. Counts' /\ CallOK(call')  BY <1>1, <1>8, <1>9 DEF IInv, Counts
<1>11. length \in Nat  BY <1>8, <1>9, LengthNat
<1>12. /\ ReadsAt(got, readbuffer', readbuffer_offset', readbuffer_remaining',
                  taken + n, delivered, gaps)
       /\ AllIfShort(got, a.size, readbuffer_remaining')
  <2>1. CASE length > 2
    <3>1. got = NowGot(raw, a.got, a.size) /\ KeepRest(raw, a.got, a.size)
      BY <1>7, <2>1
    <3>2. Keeps(raw, a.got, a.size,
                readbuffer', readbuffer_offset', readbuffer_remaining')
      BY <3>1, KeepRestKeeps
    <3>3. raw = Packets(Upward(taken, n), length)  BY <1>7
    <3>4. /\ ReadsAt(NowGot(raw, a.got, a.size), readbuffer', readbuffer_offset',
                     readbuffer_remaining', taken + n, delivered, gaps)
          /\ AllIfShort(NowGot(raw, a.got, a.size), a.size, readbuffer_remaining')
      <4>1. Answers(a.got, a.size, taken, n, length, raw,
                    readbuffer', readbuffer_offset', readbuffer_remaining')
        BY <1>5, <1>9, <2>1, <3>2, <3>3 DEF Answers
      <4>2. PICK z \in Nat : z = a.size  BY <1>5
      <4>. QED  BY <1>6, <1>8, <4>1, <4>2, ReadsTake
    <3>. QED  BY <3>1, <3>4
  <2>2. CASE ~(length > 2)
    <3>1. got = a.got /\ UNCHANGED bufferVars  BY <1>7, <2>2
    <3>2. n = 0
      <4>1. PICK q \in Nat, rest \in Nat : Shape(n, length, q, rest)
        BY <1>8, <1>9, LengthShape
      <4>2. length <= 2  BY <1>11, <2>2
      <4>. QED  BY <1>8, <4>1, <4>2, Counted
    <3>3. taken + n = taken  BY <1>8, <3>2
    <3>4. Len(a.got) \in Nat  BY <1>6, ReadsTypes
    <3>5. AllIfShort(got, a.size, readbuffer_remaining')
      BY <1>5, <3>1, <3>4 DEF AllIfShort, bufferVars
    <3>. QED  BY <1>5, <1>6, <3>1, <3>3, <3>5 DEF bufferVars
  <2>. QED  BY <2>1, <2>2
<1>13. got \in Seq(Nat) /\ Len(got) \in Nat  BY <1>12, ReadsTypes
<1>14. PICK b : b = [a EXCEPT !.got = got, !.offset = Len(got), !.ok = complete,
                              !.cancelled = FALSE]
  OBVIOUS
<1>15. PICK c : c = Completed(b)  OBVIOUS
<1>16. /\ b \in Block /\ b.state = "open" /\ b.inFlight /\ b.got = got /\ b.size = a.size
  BY <1>3, <1>13, <1>14 DEF Block
<1>17. /\ c \in Block /\ c.state = "completed" /\ c.inFlight = FALSE /\ c.got = got
  BY <1>15, <1>16 DEF Completed, Block
<1>18. BlockOK(Reader, b) /\ BlockOK(Reader, c)
  BY <1>2, <1>16, <1>17 DEF BlockOK
<1>19. \/ tc' = [tc EXCEPT ![Reader] = c]
       \/ tc' = [tc EXCEPT ![Reader] = b] /\ Len(got) # a.size
  BY <1>7, <1>14, <1>15
<1>20. BlocksOK(tc') /\ (tc'[Reader] = c \/ (tc'[Reader] = b /\ Len(got) # a.size))
  BY <1>2, <1>18, <1>19, BlockChanges
<1>21. Pending' = got  BY <1>1, <1>4, <1>16, <1>17, <1>20 DEF Pending, PendingOf
<1>22. Reads'  BY <1>1, <1>12, <1>21 DEF Reads, Neither
<1>23. OneRead'
  <2>1. Len(got) # a.size => Len(got) < a.size /\ readbuffer_remaining' = 0
    BY <1>5, <1>12, <1>13 DEF AllIfShort
  <2>. QED  BY <1>1, <1>4, <1>16, <1>17, <1>20, <2>1 DEF OneRead, Wants
<1>. QED  BY <1>10, <1>20, <1>22, <1>23 DEF IInv

\* ftdi_transfer_data_done.
LEMMA DataDoneKeeps ==
  ASSUME IInv, NEW t \in Blocks, ftdi_transfer_data_done(t)
  PROVE  IInv'
<1>1. /\ call.op = "idle" /\ call' = [Idle EXCEPT !.op = "done", !.tc = t] /\ Neither
      /\ UNCHANGED <<sent, taken, bufferVars, tc, faults>>
  BY DEF ftdi_transfer_data_done
<1>2. Idle \in Call  BY IdleOK DEF CallOK
<1>3. call' \in Call /\ call'.op = "done"  BY <1>1, <1>2 DEF Call
<1>4. CallOK(call')  BY <1>3 DEF CallOK
<1>. QED  BY <1>1, <1>3, <1>4, OthersKeep DEF IInv, Neither

\* The request of a wait is over, and the block of t is b. What a read got is the
\* program's, or lost.
LEMMA RequestEnds ==
  ASSUME IInv, call.op = "done", NEW t \in Blocks, NEW b, BlockOK(t, b),
         tc' = [tc EXCEPT ![t] = b], b.state \in {"none", "freed"},
         t = Reader => tc[t].state \in {"open", "completed"},
         call' = Idle, NEW success \in BOOLEAN, Report(t, success),
         UNCHANGED <<sent, taken, bufferVars>>
  PROVE  IInv'
<1>1. BlocksOK(tc') /\ tc'[t] = b /\ \A u \in Blocks : u # t => tc'[u] = tc[u]
  BY BlockChanges DEF IInv
<1>2. CallOK(call') /\ call'.op = "idle"  BY IdleOK
<1>3. Counts'  BY DEF IInv, Counts
<1>4. CASE t # Reader
  <2>1. tc'[Reader] = tc[Reader]  BY <1>1, <1>4, Names
  <2>2. UNCHANGED <<delivered, gaps>>  BY <1>4 DEF Report, Neither
  <2>. QED  BY <1>1, <1>2, <2>1, <2>2, OthersKeep
<1>5. CASE t = Reader
  <2>1. PICK p : p = tc[Reader].got /\ Pending = p
    BY <1>5 DEF Pending, PendingOf
  <2>2. ReadsAt(p, readbuffer, readbuffer_offset, readbuffer_remaining, taken,
                delivered, gaps)
    BY <2>1 DEF IInv, Reads
  <2>3. Pending' = <<>>  BY <1>1, <1>2, <1>5 DEF Pending, PendingOf
  <2>4. OneRead'  BY <1>1, <1>2, <1>5 DEF OneRead
  <2>5. Reads'
    <3>1. CASE success
      <4>1. Deliver(p)  BY <1>5, <2>1, <3>1 DEF Report
      <4>2. ReadsAt(<<>>, readbuffer, readbuffer_offset, readbuffer_remaining, taken,
                    delivered \o p, gaps)
        BY <2>2, ReadsDelivered
      <4>. QED  BY <2>3, <4>1, <4>2 DEF Reads, Deliver, bufferVars
    <3>2. CASE ~success
      <4>1. Lose(Len(p))  BY <1>5, <2>1, <3>2 DEF Report
      <4>2. ReadsAt(<<>>, readbuffer, readbuffer_offset, readbuffer_remaining, taken,
                    delivered, GapsWith(delivered, gaps, Len(p)))
        BY <2>2, ReadsLost
      <4>. QED  BY <2>3, <4>1, <4>2 DEF Reads, Lose, GapsWith, bufferVars
    <3>. QED  BY <3>1, <3>2
  <2>. QED  BY <1>1, <1>2, <1>3, <2>4, <2>5 DEF IInv
<1>. QED  BY <1>4, <1>5

LEMMA DoneReturnsKeeps ==
  ASSUME IInv, DoneReturns
  PROVE  IInv'
<1>1. PICK t : t = call.tc  OBVIOUS
<1>2. t \in Blocks  BY <1>1 DEF IInv, CallOK, Call
<1>3. /\ call.op = "done" /\ tc[t].state = "completed" /\ call' = Idle
      /\ Report(t, call.failed = 0 /\ tc[t].ok)
      /\ tc' = [tc EXCEPT ![t] = IF @.inFlight THEN [@ EXCEPT !.state = "freed"] ELSE NoBlock]
      /\ UNCHANGED <<sent, taken, bufferVars>>
  BY <1>1 DEF DoneReturns
<1>4. tc[t].inFlight = FALSE
  BY <1>2, <1>3 DEF IInv, BlocksOK, BlockOK, Block
<1>5. tc' = [tc EXCEPT ![t] = NoBlock]
  BY <1>3, <1>4
<1>6. BlockOK(t, NoBlock) /\ NoBlock.state = "none"  BY NoBlockOK
<1>7. PICK success \in BOOLEAN : success = (call.failed = 0 /\ tc[t].ok)
  OBVIOUS
<1>8. Report(t, success)  BY <1>3, <1>7
<1>. QED  BY <1>2, <1>3, <1>5, <1>6, <1>8, RequestEnds

LEMMA EventsFailKeeps ==
  ASSUME IInv, EventsFail
  PROVE  IInv'
<1>1. PICK t : t = call.tc  OBVIOUS
<1>2. t \in Blocks /\ call \in Call  BY <1>1 DEF IInv, CallOK, Call
<1>3. /\ call.op = "done" /\ tc[t].state = "open"
      /\ UNCHANGED <<sent, taken, bufferVars>>
  BY <1>1 DEF EventsFail
<1>4. PICK a : a = tc[t] /\ BlockOK(t, a) /\ a \in Block
  BY <1>2 DEF IInv, BlocksOK, BlockOK
<1>5. BlocksOK(tc)  BY DEF IInv
<1>6. CASE call.failed = 0
  <2>1. /\ tc' = [tc EXCEPT ![t].cancelled = TRUE]
        /\ call' = [call EXCEPT !.failed = 1] /\ Neither
    BY <1>1, <1>6 DEF EventsFail
  <2>2. PICK b : b = [a EXCEPT !.cancelled = TRUE]  OBVIOUS
  <2>3. tc' = [tc EXCEPT ![t] = b]  BY <1>4, <2>1, <2>2
  <2>4. /\ b \in Block /\ b.state = a.state /\ b.inFlight = a.inFlight /\ b.got = a.got
        /\ b.offset = a.offset /\ b.from = a.from /\ b.size = a.size
    BY <1>4, <2>2 DEF Block
  <2>5. BlockOK(t, b)  BY <1>4, <2>4 DEF BlockOK
  <2>6. BlocksOK(tc') /\ tc'[t] = b /\ \A u \in Blocks : u # t => tc'[u] = tc[u]
    BY <1>2, <1>5, <2>3, <2>5, BlockChanges
  <2>7. /\ tc'[Reader].state = tc[Reader].state /\ tc'[Reader].got = tc[Reader].got
        /\ tc'[Reader].size = tc[Reader].size
    <3>1. CASE t = Reader  BY <1>4, <2>4, <2>6, <3>1
    <3>2. CASE t # Reader  BY <2>6, <3>2, Names
    <3>. QED  BY <3>1, <3>2
  <2>8. CallOK(call') /\ call'.op = "done"
    <3>1. call' \in Call /\ call'.op = "done"  BY <1>2, <1>3, <2>1 DEF Call
    <3>. QED  BY <3>1 DEF CallOK
  <2>. QED  BY <1>3, <2>1, <2>6, <2>7, <2>8, OthersKeep DEF Neither
<1>7. CASE call.failed # 0
  <2>1. tc' = [tc EXCEPT ![t].state = "freed"] /\ call' = Idle /\ Report(t, FALSE)
    BY <1>1, <1>7 DEF EventsFail
  <2>2. PICK b : b = [a EXCEPT !.state = "freed"]  OBVIOUS
  <2>3. tc' = [tc EXCEPT ![t] = b]  BY <1>4, <2>1, <2>2
  <2>4. /\ b \in Block /\ b.state = "freed" /\ b.got = a.got
        /\ b.offset = a.offset /\ b.from = a.from
    BY <1>4, <2>2 DEF Block
  <2>5. BlockOK(t, b)  BY <1>4, <2>4 DEF BlockOK
  <2>6. FALSE \in BOOLEAN  OBVIOUS
  <2>. QED  BY <1>2, <1>3, <2>1, <2>3, <2>4, <2>5, <2>6, RequestEnds
<1>. QED  BY <1>6, <1>7

\* The chip and the other calls.
LEMMA ChipSendsKeeps ==
  ASSUME IInv, ChipSends
  PROVE  IInv'
<1>1. /\ sent' = sent + 1 /\ Neither /\ UNCHANGED <<taken, bufferVars, call, tc, faults>>
  BY DEF ChipSends
<1>2. Counts' /\ CallOK(call') /\ BlocksOK(tc')  BY <1>1 DEF IInv, Counts
<1>3. OneRead'  BY <1>1 DEF IInv, OneRead, Wants, bufferVars
<1>4. Pending' = Pending  BY <1>1 DEF Pending, PendingOf
<1>5. Reads'  BY <1>1, <1>4 DEF IInv, Reads, bufferVars, Neither
<1>. QED  BY <1>2, <1>3, <1>5 DEF IInv

LEMMA InvalidateKeeps ==
  ASSUME IInv, NEW purge \in BOOLEAN, Invalidate(purge)
  PROVE  IInv'
<1>1. /\ EmptyBuffer /\ Lose(readbuffer_remaining + IF purge THEN Available ELSE 0)
      /\ taken' = (IF purge THEN sent ELSE taken)
      /\ UNCHANGED <<sent, call, tc, faults>>
  BY DEF Invalidate
<1>2. /\ ReadsAt(<<>>, readbuffer, readbuffer_offset, readbuffer_remaining, taken,
                 delivered, gaps)
      /\ readbuffer_remaining \in Nat /\ call.op = "idle" /\ tc[Reader].state = "none"
  BY BeforeRead DEF Invalidate
<1>3. sent \in Nat /\ taken \in Nat /\ taken <= sent  BY DEF IInv, Counts
<1>4. PICK k \in Nat : k = (IF purge THEN Available ELSE 0) /\ taken' = taken + k
  BY <1>1, <1>3 DEF Available
<1>5. ReadsAt(<<>>, <<>>, 0, 0, taken + k, delivered,
              GapsWith(delivered, gaps, readbuffer_remaining + k))
  BY <1>2, ReadsReset
<1>6. Counts' /\ CallOK(call') /\ BlocksOK(tc')  BY <1>1, <1>3 DEF IInv, Counts
<1>7. Pending' = <<>>  BY <1>1, <1>2 DEF Pending, PendingOf
<1>8. Lose(readbuffer_remaining + k)  BY <1>1, <1>4
<1>9. Reads'  BY <1>1, <1>4, <1>5, <1>7, <1>8 DEF Reads, EmptyBuffer, Lose, GapsWith
<1>10. OneRead'  BY <1>1, <1>2 DEF OneRead
<1>. QED  BY <1>6, <1>9, <1>10 DEF IInv

-----------------------------------------------------------------------------
\* Initially nothing was sent.
LEMMA InitInv == Init => IInv
<1> SUFFICES ASSUME Init PROVE IInv  OBVIOUS
<1>1. /\ sent = 0 /\ taken = 0
      /\ readbuffer = <<>> /\ readbuffer_offset = 0 /\ readbuffer_remaining = 0
      /\ call = Idle /\ tc = [t \in Blocks |-> NoBlock]
      /\ delivered = <<>> /\ gaps = {}
  BY DEF Init
<1>2. Counts /\ CallOK(call) /\ call.op = "idle"  BY <1>1, IdleOK DEF Counts
<1>3. tc[Reader].state = "none" /\ BlocksOK(tc)
  <2>1. NoBlock \in Block  BY NoBlockOK DEF BlockOK
  <2>. QED  BY <1>1, <2>1, NoBlockOK, Names DEF BlocksOK
<1>4. OneRead  BY <1>2, <1>3 DEF OneRead
<1>5. Pending = <<>>  BY <1>2, <1>3 DEF Pending, PendingOf
<1>6. PICK e \in Seq(Nat) : e = <<>> /\ Len(e) = 0 /\ e = Upward(0, 0)  BY NoBytes
<1>7. Stream(e, {}, 0)
  <2>1. DOMAIN e = 1 .. 0  BY <1>6, LenProperties
  <2>. QED  BY <1>6, <2>1 DEF Stream, Last
<1>8. Reading(e, e, 0, 0, 0, 0)
  <2>1. Buffered(e, 0, 0, 0)  BY NothingKept
  <2>2. 0 + 0 = 0  OBVIOUS
  <2>. QED  BY <1>6, <2>1, <2>2 DEF Reading
<1>9. ReadsAt(e, e, 0, 0, 0, e, {})  BY <1>7, <1>8 DEF ReadsAt
<1>10. Reads  BY <1>1, <1>5, <1>6, <1>9 DEF Reads
<1>. QED  BY <1>2, <1>3, <1>4, <1>10 DEF IInv

\* Every step keeps the invariant.
LEMMA NextInv == IInv /\ [Next]_vars => IInv'
<1> SUFFICES ASSUME IInv, [Next]_vars PROVE IInv'  OBVIOUS
<1>1. ASSUME NEW size \in ReadSizes, ftdi_read_data(size) PROVE IInv'
  BY <1>1, ReadDataKeeps
<1>2. ASSUME NEW size \in ReadSizes, ftdi_read_data_submit(size) PROVE IInv'
  BY <1>2, SubmitReadKeeps
<1>3. ASSUME NEW size \in WriteSizes, ftdi_write_data(size) PROVE IInv'
  BY <1>3, WriteDataKeeps
<1>4. ASSUME NEW size \in WriteSizes, NEW w \in Writers, ftdi_write_data_submit(w, size)
      PROVE  IInv'
  BY <1>4, SubmitWriteKeeps
<1>5. CASE ReadTransfer  BY <1>5, ReadTransferKeeps
<1>6. CASE ReadFails  BY <1>6, ReadFailsKeeps
<1>7. CASE WriteTransfer  BY <1>7, WriteTransferKeeps
<1>8. ASSUME NEW n \in 0 .. MaxBytes, NEW complete \in BOOLEAN,
             ftdi_read_data_cb(n, complete)
      PROVE  IInv'
  BY <1>8, ReadCallbackKeeps
<1>9. ASSUME NEW w \in Writers, NEW n \in 0 .. WriteChunk, NEW complete \in BOOLEAN,
             ftdi_write_data_cb(w, n, complete)
      PROVE  IInv'
  BY <1>9, WriteCallbackKeeps
<1>10. ASSUME NEW t \in Blocks, ftdi_transfer_data_done(t) PROVE IInv'
  BY <1>10, DataDoneKeeps
<1>11. CASE DoneReturns  BY <1>11, DoneReturnsKeeps
<1>12. CASE EventsFail  BY <1>12, EventsFailKeeps
<1>13. CASE ChipSends  BY <1>13, ChipSendsKeeps
<1>14. ASSUME NEW purge \in BOOLEAN, Invalidate(purge) PROVE IInv'
  BY <1>14, InvalidateKeeps
<1>15. CASE UNCHANGED vars
  <2>1. Counts' /\ CallOK(call') /\ BlocksOK(tc')  BY <1>15 DEF IInv, Counts, vars
  <2>2. OneRead'  BY <1>15 DEF IInv, OneRead, Wants, bufferVars, vars
  <2>3. Pending' = Pending  BY <1>15 DEF Pending, PendingOf, vars
  <2>4. Reads'  BY <1>15, <2>3 DEF IInv, Reads, bufferVars, vars
  <2>. QED  BY <2>1, <2>2, <2>4 DEF IInv
<1>. QED
  BY <1>1, <1>2, <1>3, <1>4, <1>5, <1>6, <1>7, <1>8, <1>9, <1>10, <1>11, <1>12,
     <1>13, <1>14, <1>15 DEF Next

LEMMA Inductive == Spec => []IInv
BY InitInv, NextInv, PTL DEF Spec

-----------------------------------------------------------------------------
\* A program gets the bytes of the chip in order, none twice and none missing
\* without an error it was told of or a reset of its own, for all sizes of packets,
\* chunks and requests; and writes send theirs in order (ftdi_read_data,
\* ftdi_read_data_cb, ftdi_write_data, ftdi_write_data_cb).
THEOREM DataStaysInOrder == Spec => []DataInOrder
<1>1. ASSUME IInv PROVE DataInOrder
  <2>1. PICK base \in Nat : Stream(delivered, gaps, base)
    BY <1>1 DEF IInv, Reads, ReadsAt
  <2>2. \A i \in DOMAIN delivered :
          LET before == IF i = 1 THEN 0 ELSE delivered[i - 1] IN
          IF i - 1 \in gaps THEN delivered[i] > before ELSE delivered[i] = before + 1
    BY <2>1 DEF Stream, Before
  <2>3. \A w \in Writers : tc[w].got = Upward(0, tc[w].offset)
    BY <1>1, Names DEF IInv, BlocksOK, BlockOK
  <2>4. call.op = "write" => call.got = Upward(0, Len(call.got))
    BY <1>1 DEF IInv, CallOK
  <2>. QED  BY <2>2, <2>3, <2>4 DEF DataInOrder
<1>. QED  BY <1>1, Inductive, PTL

\* Until its request is complete, and only then, a transfer is with libusb: none is
\* freed or written to behind its owner's back, except after the second failure of
\* libusb_handle_events (ftdi_transfer_data_done and the callbacks).
THEOREM InFlightExactlyOpen == Spec => []InFlightIffOpen
<1>1. ASSUME IInv PROVE InFlightIffOpen
  BY <1>1 DEF IInv, BlocksOK, BlockOK, InFlightIffOpen
<1>. QED  BY <1>1, Inductive, PTL

-----------------------------------------------------------------------------
(* The EEPROM of the same chip: for every chip, every configuration and any *)
(* failing transfers, no EEPROM receives an image that was built for        *)
(* another type of chip.                                                    *)

CONSTANTS Uses, Others, Garbage, Factory, FailPoints
VARIABLES type, kind, use, mem, memOf, ee, bufOf, last, calls, eepromFaults

Eeprom == INSTANCE FtdiEeprom WITH faults <- eepromFaults

\* struct ftdi_eeprom has its fields, whatever their values.
IsStruct(e) == DOMAIN e = {"values", "texts", "size", "buf", "initialized"}

\* What may be written is for the connected chip: an image in a buffer that
\* counts as initialized was built for it.
WritableIsForChip ==
  (ee.initialized = TRUE /\ bufOf.what = "image") => bufOf.type = type

EepromIInv == IsStruct(ee) /\ Eeprom!ImageIsForChip /\ WritableIsForChip

-----------------------------------------------------------------------------
\* What is not an image: a blank, mixed or unknown content (the origins that
\* failed, refused and clearing calls leave).
LEMMA NoImages ==
  /\ Eeprom!Blank.what # "image" /\ Eeprom!Mixed.what # "image" /\ Eeprom!Unknown.what # "image"
BY DEF Eeprom!Blank, Eeprom!Mixed, Eeprom!Unknown, Eeprom!Origin

\* An image that is built is one for the connected chip (ftdi_eeprom_build).
LEMMA BuiltForChip ==
  ASSUME NEW t, NEW v, NEW texts
  PROVE  Eeprom!Built(t, v, texts).type = t
BY DEF Eeprom!Built, Eeprom!Origin

\* ftdi_init and ftdi_eeprom_initdefaults leave a structure that is not
\* initialized for any device.
LEMMA InitialStruct ==
  Eeprom!Init => IsStruct(ee) /\ ee.initialized = FALSE
BY DEF Eeprom!Init, IsStruct, Eeprom!Defaults

LEMMA DefaultStruct ==
  ASSUME NEW t, NEW texts
  PROVE  IsStruct(Eeprom!Defaults(t, texts)) /\ Eeprom!Defaults(t, texts).initialized = FALSE
BY DEF IsStruct, Eeprom!Defaults

\* In the initial state nothing was built yet.
LEMMA InitEepromIInv == Eeprom!Init => EepromIInv
<1> SUFFICES ASSUME Eeprom!Init PROVE EepromIInv
  OBVIOUS
<1>1. memOf = Eeprom!Blank /\ bufOf = Eeprom!Blank
  BY DEF Eeprom!Init
<1> QED
  BY <1>1, NoImages, InitialStruct DEF EepromIInv, Eeprom!ImageIsForChip, WritableIsForChip

\* Every call keeps it.
LEMMA NextEepromIInv == EepromIInv /\ [Eeprom!Next]_Eeprom!vars => EepromIInv'
<1> SUFFICES ASSUME EepromIInv, [Eeprom!Next]_Eeprom!vars PROVE EepromIInv'
  OBVIOUS
<1> USE NoImages DEF EepromIInv, Eeprom!ImageIsForChip, WritableIsForChip, IsStruct, Eeprom!deviceVars
<1>1. ASSUME NEW texts, Eeprom!ftdi_eeprom_initdefaults(texts) PROVE EepromIInv'
  BY <1>1, DefaultStruct DEF Eeprom!ftdi_eeprom_initdefaults
<1>2. ASSUME NEW texts, Eeprom!ftdi_eeprom_set_strings(texts) PROVE EepromIInv'
  BY <1>2 DEF Eeprom!ftdi_eeprom_set_strings
<1>3. ASSUME NEW s, Eeprom!ftdi_set_eeprom_value(s) PROVE EepromIInv'
  BY <1>3 DEF Eeprom!ftdi_set_eeprom_value
<1>4. ASSUME Eeprom!ftdi_set_eeprom_buf PROVE EepromIInv'
  BY <1>4 DEF Eeprom!ftdi_set_eeprom_buf
<1>5. ASSUME Eeprom!ftdi_eeprom_build PROVE EepromIInv'
  <2>1. type' = type /\ memOf' = memOf /\ IsStruct(ee)'
    BY <1>5 DEF Eeprom!ftdi_eeprom_build
  <2>2. \/ ee'.initialized = ee.initialized /\ bufOf' = bufOf
        \/ bufOf' = Eeprom!Built(type, ee.values, ee.texts)
    BY <1>5 DEF Eeprom!ftdi_eeprom_build
  <2> QED
    BY <2>1, <2>2, BuiltForChip
<1>6. ASSUME Eeprom!ftdi_eeprom_decode PROVE EepromIInv'
  BY <1>6 DEF Eeprom!ftdi_eeprom_decode
<1>7. ASSUME Eeprom!ftdi_read_eeprom PROVE EepromIInv'
  <2>1. /\ type' = type /\ memOf' = memOf
        /\ IsStruct(ee)' /\ ee'.initialized = ee.initialized
    BY <1>7 DEF Eeprom!ftdi_read_eeprom
  <2>2. bufOf' \in {memOf, bufOf, Eeprom!Mixed, Eeprom!Unknown}
    BY <1>7 DEF Eeprom!ftdi_read_eeprom
  <2> QED
    BY <2>1, <2>2
<1>8. ASSUME Eeprom!ftdi_write_eeprom PROVE EepromIInv'
  <2>1. type' = type /\ ee' = ee /\ bufOf' = bufOf /\ ee.initialized = TRUE
    BY <1>8 DEF Eeprom!ftdi_write_eeprom
  <2>2. memOf' \in {memOf, bufOf, Eeprom!Mixed, Eeprom!Unknown}
    BY <1>8 DEF Eeprom!ftdi_write_eeprom
  <2> QED
    BY <2>1, <2>2
<1>9. ASSUME Eeprom!ftdi_erase_eeprom PROVE EepromIInv'
  <2>1. /\ type' = type /\ bufOf' = bufOf
        /\ IsStruct(ee)' /\ ee'.initialized = ee.initialized
    BY <1>9 DEF Eeprom!ftdi_erase_eeprom
  <2>2. memOf' \in {memOf, Eeprom!Blank}
    BY <1>9 DEF Eeprom!ftdi_erase_eeprom
  <2> QED
    BY <2>1, <2>2
<1>10. ASSUME NEW addr, Eeprom!ftdi_write_eeprom_location(addr) PROVE EepromIInv'
  BY <1>10 DEF Eeprom!ftdi_write_eeprom_location
<1>11. ASSUME NEW t, NEW k, Eeprom!Reopen(t, k) PROVE EepromIInv'
  BY <1>11 DEF Eeprom!Reopen
<1>12. CASE UNCHANGED Eeprom!vars
  BY <1>12 DEF Eeprom!vars
<1> QED
  BY <1>1, <1>2, <1>3, <1>4, <1>5, <1>6, <1>7, <1>8, <1>9, <1>10, <1>11, <1>12 DEF Eeprom!Next

\* No EEPROM ever receives an image that was built for another type of chip,
\* whatever is built, read, decoded, erased and written in any order, however
\* transfers fail and whatever chip the context is opened for next: the test
\* "Was the eeprom structure initialized for the actual connected device?" of
\* ftdi_write_eeprom suffices.
THEOREM ImagesStayWithChip == Eeprom!Spec => []Eeprom!ImageIsForChip
<1>1. Eeprom!Init => EepromIInv
  BY InitEepromIInv
<1>2. EepromIInv /\ [Eeprom!Next]_Eeprom!vars => EepromIInv'
  BY NextEepromIInv
<1>3. EepromIInv => Eeprom!ImageIsForChip
  BY DEF EepromIInv
<1> QED
  BY <1>1, <1>2, <1>3, PTL DEF Eeprom!Spec
=============================================================================
