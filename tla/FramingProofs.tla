--------------------------- MODULE FramingProofs ---------------------------
(***************************************************************************)
(* The daemon decodes what the reader delivered, for bytes of every base,  *)
(* and inputs, chunk sizes and limits of every value.                      *)
(*                                                                         *)
(* The stream that StreamAll sets out to write is a function of the input  *)
(* and the chunk size: frame j carries the bytes Pay[j] + 1 .. Pay[j + 1]  *)
(* of the input and starts behind byte At[j] of the stream; past the end   *)
(* of the input every frame is empty, that is a terminator.  What has been *)
(* written is a prefix of that stream, and the daemon stands at a boundary *)
(* of one of its frames.                                                   *)
(***************************************************************************)
EXTENDS Framing, SequenceTheorems, TLAPS

Pay  == [j \in Nat |-> IF j * chunkSize <= Len(data) THEN j * chunkSize ELSE Len(data)]
Size == [j \in Nat |-> Pay[j + 1] - Pay[j]]
At   == [j \in Nat |-> j * chunkHeaderSize + Pay[j]]

TypeInv ==
  /\ pc \in {"fill", "frame", "terminator", "complete", "failed"}
  /\ data \in Seq(Byte) /\ chunkSize \in 1 .. MaxChunkSize /\ maxBytes \in Int
  /\ buf \in Seq(Byte) /\ eof \in BOOLEAN /\ total \in Nat
  /\ wire \in Seq(Byte) /\ body \in Seq(Byte) /\ need \in Nat
  /\ daemon \in {"header", "payload", "judging", "replied", "dropped"}

\* With r bytes read, the wire agrees with frame j where it overlaps it.
Holds(j, r) ==
  /\ \A i \in 1 .. chunkHeaderSize :
       (At[j] + i) - r \in 1 .. Len(wire) => wire[(At[j] + i) - r] = Header(Size[j])[i]
  /\ \A i \in 1 .. Size[j] :
       (At[j] + chunkHeaderSize + i) - r \in 1 .. Len(wire) =>
         wire[(At[j] + chunkHeaderSize + i) - r] = data[Pay[j] + i]

\* The client has written k frames in full, and end bytes in all.  The bytes
\* in its buffer are those of frame k, and within the limit.
ClientAt(k, end) ==
  /\ \A j \in Nat : j < k => Pay[j] < Len(data)
  /\ total = Pay[k]
  /\ maxBytes >= 0 => Pay[k] <= maxBytes
  /\ pc = "fill" => end = At[k] /\ Pay[k] = k * chunkSize
  /\ pc = "frame" =>
       /\ end = At[k] /\ Len(buf) = Size[k] /\ Size[k] > 0
       /\ \A i \in 1 .. Size[k] : buf[i] = data[Pay[k] + i]
       /\ IF eof THEN Pay[k + 1] = Len(data) ELSE Pay[k + 1] = (k + 1) * chunkSize
       /\ maxBytes >= 0 => Pay[k + 1] <= maxBytes
  /\ pc = "terminator" => end = At[k] /\ Pay[k] = Len(data) /\ eof
  /\ pc = "complete" => end = At[k + 1] /\ Pay[k] = Len(data) /\ eof
  /\ pc = "failed" =>
       /\ At[k] <= end /\ end <= At[k + 1]
       /\ At[k] < end =>
            /\ Pay[k] = Len(data) => eof
            /\ maxBytes >= 0 => Pay[k + 1] <= maxBytes

\* The daemon has decoded f frames, and read r bytes.
DaemonAt(f, r) ==
  /\ Len(body) = Pay[f] /\ \A i \in 1 .. Pay[f] : body[i] = data[i]
  /\ r \in {At[f], At[f] + chunkHeaderSize}
  /\ \A j \in Nat : j < f => Pay[j] < Len(data)
  /\ daemon = "header" => r = At[f]
  /\ daemon = "payload" => r = At[f] + chunkHeaderSize /\ need = Size[f] /\ Size[f] # 0
  /\ daemon = "judging" => r = At[f] + chunkHeaderSize /\ Size[f] = 0
  /\ daemon = "dropped" => pc = "failed"

StreamInv ==
  \E k, f, r \in Nat :
    /\ ClientAt(k, r + Len(wire)) /\ DaemonAt(f, r)
    /\ \A j \in Nat : Holds(j, r)

-----------------------------------------------------------------------------
(* The length prefix.                                                      *)

LEMMA BaseType == Base \in Nat /\ Base > 1
BY FramingAssumption

\* A number is its quotient and its remainder.
LEMMA Division ==
  ASSUME NEW n \in Nat
  PROVE  /\ n \div Base \in Nat /\ n % Base \in Byte
         /\ n = (n \div Base) * Base + (n % Base)
BY BaseType DEF Byte

LEMMA ShiftNat ==
  ASSUME NEW x \in Nat, NEW y \in Nat
  PROVE  x * Base + y \in Nat
BY BaseType

\* Dividing by the base takes one factor off a bound.
LEMMA Shorter ==
  ASSUME NEW n \in Nat, NEW m \in Nat, n < m * Base
  PROVE  n \div Base < m
<1> DEFINE q == n \div Base
<1>1. q \in Nat /\ n >= q * Base
  BY BaseType, Division DEF Byte
<1>2. SUFFICES ASSUME q >= m PROVE FALSE
  BY <1>1
<1>3. q * Base >= m * Base
  BY BaseType, <1>1, <1>2
<1> QED
  BY BaseType, <1>1, <1>3

\* Uint32 reads back what PutUint32 has written: no length in use wraps.
LEMMA NumberOfHeader ==
  ASSUME NEW n \in 0 .. MaxChunkSize
  PROVE  Number(Header(n)) = n
<1> DEFINE hi == n \div Base
           up == hi \div Base
           top == up \div Base
<1>1. /\ hi \in Nat /\ n % Base \in Nat /\ n = hi * Base + (n % Base)
  BY Division DEF Byte
<1>2. /\ up \in Nat /\ hi % Base \in Nat /\ hi = up * Base + (hi % Base)
  BY <1>1, Division DEF Byte
<1>3. /\ top \in Nat /\ up % Base \in Nat /\ up = top * Base + (up % Base)
  BY <1>2, Division DEF Byte
<1>4. top < Base
  <2>1. hi < Base * Base * Base
    BY BaseType, FramingAssumption, Shorter
  <2>2. up < Base * Base
    BY BaseType, <1>1, <2>1, Shorter
  <2> QED
    BY BaseType, <1>2, <2>2, Shorter
<1>5. top % Base = top
  BY BaseType, <1>3, <1>4
<1>6. Header(n) = <<top, up % Base, hi % Base, n % Base>>
  BY <1>5 DEF Header
<1>7. Number(Header(n)) = ((top * Base + (up % Base)) * Base + (hi % Base)) * Base + (n % Base)
  BY <1>6 DEF Number
<1> HIDE DEF hi, up, top
<1> QED
  BY BaseType, <1>1, <1>2, <1>3, <1>7

LEMMA HeaderType ==
  ASSUME NEW n \in Nat
  PROVE  Header(n) \in Seq(Byte) /\ Len(Header(n)) = chunkHeaderSize
BY Division DEF Header, chunkHeaderSize

\* A slice of a sequence, element by element.
LEMMA Piece ==
  ASSUME NEW S, NEW s \in Seq(S), NEW m \in Nat, NEW n \in Nat, m + n <= Len(s)
  PROVE  /\ SubSeq(s, m + 1, m + n) \in Seq(S) /\ Len(SubSeq(s, m + 1, m + n)) = n
         /\ \A i \in 1 .. n : SubSeq(s, m + 1, m + n)[i] = s[m + i]
<1> DEFINE t == SubSeq(s, m + 1, m + n)
<1>1. \A i \in m + 1 .. m + n : i \in 1 .. Len(s)
  OBVIOUS
<1>2. \A i \in m + 1 .. m + n : s[i] \in S
  BY <1>1
<1>3. m + 1 \in Int /\ m + n \in Int
  OBVIOUS
<1>4. /\ t \in Seq(S)
      /\ Len(t) = IF m + 1 <= m + n THEN (m + n) - (m + 1) + 1 ELSE 0
      /\ \A i \in 1 .. (m + n) - (m + 1) + 1 : t[i] = s[(m + 1) + i - 1]
  BY <1>2, <1>3, SubSeqProperties
<1> HIDE DEF t
<1>5. Len(t) = n
  BY <1>4
<1>6. ASSUME NEW i \in 1 .. n PROVE t[i] = s[m + i]
  <2>1. i \in 1 .. (m + n) - (m + 1) + 1 /\ (m + 1) + i - 1 = m + i
    OBVIOUS
  <2> QED
    BY <1>4, <2>1
<1> QED
  BY <1>4, <1>5, <1>6 DEF t

-----------------------------------------------------------------------------
(* The layout of the stream.                                               *)

\* Frames follow each other without a gap, none is longer than chunkSize, and
\* only the ones past the end of the input are empty.
Layout ==
  /\ Pay \in [Nat -> Nat] /\ Size \in [Nat -> Nat] /\ At \in [Nat -> Nat]
  /\ Pay[0] = 0 /\ At[0] = 0
  /\ \A j \in Nat :
       /\ Pay[j] <= Len(data) /\ Pay[j + 1] = Pay[j] + Size[j]
       /\ At[j + 1] = At[j] + chunkHeaderSize + Size[j]
       /\ Size[j] <= chunkSize /\ (Size[j] = 0 => Pay[j] = Len(data))
       /\ Pay[j] = Len(data) => Size[j] = 0
  /\ \A j, k \in Nat : j < k => Pay[j + 1] <= Pay[k] /\ At[j + 1] <= At[k]

LEMMA StreamLayout ==
  ASSUME TypeInv
  PROVE  Layout
<1> DEFINE L == Len(data)
           c == chunkSize
           M(j) == j * c
<1>1. L \in Nat /\ c \in Nat /\ c > 0
  BY FramingAssumption DEF TypeInv
<1>2. ASSUME NEW j \in Nat PROVE M(j) \in Nat /\ j + 1 \in Nat /\ M(j + 1) = M(j) + c
  BY <1>1
<1>3. ASSUME NEW j \in Nat PROVE Pay[j] = IF M(j) <= L THEN M(j) ELSE L
  BY DEF Pay
<1>4. ASSUME NEW j \in Nat, NEW k \in Nat, j < k PROVE M(j + 1) <= M(k)
  <2> DEFINE d == k - (j + 1)
  <2>1. d \in Nat /\ d * c \in Nat /\ (j + 1) * c \in Nat
    BY <1>1, <1>4
  <2>2. k * c = (j + 1) * c + d * c
    BY <1>1
  <2> QED
    BY <2>1, <2>2
<1>5. M(0) = 0
  BY <1>1
<1>6. ASSUME NEW j \in Nat
      PROVE  Size[j] = Pay[j + 1] - Pay[j] /\ At[j] = j * 4 + Pay[j]
  BY DEF Size, At, chunkHeaderSize
<1> HIDE DEF M, L, c
<1>7. ASSUME NEW j \in Nat PROVE Pay[j] \in Nat /\ Pay[j] <= L
  BY <1>1, <1>2, <1>3
<1>8. ASSUME NEW j \in Nat
      PROVE  /\ Size[j] \in Nat /\ At[j] \in Nat
             /\ Pay[j + 1] = Pay[j] + Size[j] /\ At[j + 1] = At[j] + 4 + Size[j]
             /\ Size[j] <= c /\ (Size[j] = 0 => Pay[j] = L)
             /\ Pay[j] = L => Size[j] = 0
  <2>1. /\ M(j) \in Nat /\ j + 1 \in Nat /\ M(j + 1) = M(j) + c
        /\ Pay[j] = (IF M(j) <= L THEN M(j) ELSE L)
        /\ Pay[j] \in Nat /\ At[j] = j * 4 + Pay[j] /\ Size[j] = Pay[j + 1] - Pay[j]
    BY <1>2, <1>3, <1>6, <1>7
  <2>2. /\ Pay[j + 1] = (IF M(j + 1) <= L THEN M(j + 1) ELSE L)
        /\ Pay[j + 1] \in Nat /\ At[j + 1] = (j + 1) * 4 + Pay[j + 1]
    BY <2>1, <1>3, <1>6, <1>7
  <2> QED
    BY <1>1, <2>1, <2>2
<1>9. ASSUME NEW j \in Nat, NEW k \in Nat, j < k
      PROVE  Pay[j + 1] <= Pay[k] /\ At[j + 1] <= At[k]
  <2>1. /\ j + 1 \in Nat /\ M(j + 1) \in Nat /\ M(j + 1) <= M(k) /\ M(k) \in Nat
        /\ Pay[k] = (IF M(k) <= L THEN M(k) ELSE L)
        /\ Pay[k] \in Nat /\ At[k] = k * 4 + Pay[k]
    BY <1>2, <1>3, <1>4, <1>6, <1>7, <1>9
  <2>2. /\ Pay[j + 1] = (IF M(j + 1) <= L THEN M(j + 1) ELSE L)
        /\ Pay[j + 1] \in Nat /\ At[j + 1] = (j + 1) * 4 + Pay[j + 1]
    BY <2>1, <1>3, <1>6, <1>7
  <2> QED
    BY <1>1, <1>9, <2>1, <2>2
<1>10. Pay \in [Nat -> Nat] /\ Size \in [Nat -> Nat] /\ At \in [Nat -> Nat]
  BY <1>7, <1>8 DEF Pay, Size, At
<1>11. Pay[0] = 0 /\ At[0] = 0
  BY <1>1, <1>3, <1>5, <1>6
<1> QED
  BY <1>7, <1>8, <1>9, <1>10, <1>11 DEF Layout, chunkHeaderSize, L, c

\* The layout about one frame.
LEMMA FrameLayout ==
  ASSUME Layout, NEW k \in Nat
  PROVE  /\ Pay[k] \in Nat /\ Size[k] \in Nat /\ At[k] \in Nat
         /\ Pay[k + 1] \in Nat /\ Size[k + 1] \in Nat /\ At[k + 1] \in Nat
         /\ Pay[k + 1] = Pay[k] + Size[k] /\ At[k + 1] = At[k] + 4 + Size[k]
         /\ Pay[k + 1] <= Len(data) /\ Size[k] <= chunkSize
         /\ Pay[k] = Len(data) => Size[k] = 0
         /\ Size[k] = 0 => Pay[k] = Len(data)
<1>1. k + 1 \in Nat
  OBVIOUS
<1>2. /\ Pay[k] \in Nat /\ Size[k] \in Nat /\ At[k] \in Nat
      /\ Pay[k + 1] \in Nat /\ Size[k + 1] \in Nat /\ At[k + 1] \in Nat
  BY <1>1 DEF Layout
<1>3. /\ Pay[k + 1] = Pay[k] + Size[k] /\ At[k + 1] = At[k] + chunkHeaderSize + Size[k]
      /\ Size[k] <= chunkSize
      /\ Pay[k] = Len(data) => Size[k] = 0
      /\ Size[k] = 0 => Pay[k] = Len(data)
  BY DEF Layout
<1>4. Pay[k + 1] <= Len(data)
  BY <1>1 DEF Layout
<1> QED
  BY <1>2, <1>3, <1>4 DEF chunkHeaderSize

\* A step that leaves the parameters of the stream alone leaves its layout.
LEMMA LayoutKept ==
  ASSUME UNCHANGED config
  PROVE  Pay' = Pay /\ Size' = Size /\ At' = At
BY DEF config, Pay, Size, At

-----------------------------------------------------------------------------
(* The wire.                                                               *)

\* The i-th byte of frame k.
FrameByte(k, i) ==
  IF i <= chunkHeaderSize THEN Header(Size[k])[i] ELSE data[(Pay[k] + i) - chunkHeaderSize]

\* What is written of frame k behind the frames before it keeps to the stream.
LEMMA Written ==
  ASSUME TypeInv, Layout, UNCHANGED config,
         NEW k \in Nat, NEW r \in Nat, NEW s \in Seq(Byte),
         r + Len(wire) = At[k], Len(s) <= chunkHeaderSize + Size[k],
         \A i \in 1 .. Len(s) : s[i] = FrameByte(k, i),
         wire' = wire \o s, \A j \in Nat : Holds(j, r)
  PROVE  \A j \in Nat : Holds(j, r)'
<1>1. Pay' = Pay /\ Size' = Size /\ At' = At /\ data' = data
  BY LayoutKept DEF config
<1>2. /\ wire \in Seq(Byte) /\ Len(wire) \in Nat /\ Len(s) \in Nat
      /\ Len(wire') = Len(wire) + Len(s)
      /\ \A p \in 1 .. Len(wire) : wire'[p] = wire[p]
      /\ \A p \in 1 .. Len(s) : wire'[Len(wire) + p] = s[p]
  BY DEF TypeInv
<1> TAKE j \in Nat
<1>3. /\ At[j] \in Nat /\ At[k] \in Nat /\ Size[j] \in Nat /\ Size[k] \in Nat
      /\ Pay[j] \in Nat /\ Pay[k] \in Nat
      /\ j < k => At[j] + chunkHeaderSize + Size[j] <= At[k]
      /\ k < j => At[k] + chunkHeaderSize + Size[k] <= At[j]
  BY DEF Layout
<1>4. ASSUME NEW i \in 1 .. chunkHeaderSize + Size[j],
             (At[j] + i) - r \in 1 .. Len(wire')
      PROVE  \/ (At[j] + i) - r \in 1 .. Len(wire) /\ wire'[(At[j] + i) - r] = wire[(At[j] + i) - r]
             \/ j = k /\ i \in 1 .. Len(s) /\ wire'[(At[j] + i) - r] = s[i]
  <2> DEFINE a == At[j]
             b == At[k]
             x == Size[j]
             y == Size[k]
             w == Len(wire)
             z == Len(s)
  <2>1. /\ a \in Nat /\ b \in Nat /\ x \in Nat /\ y \in Nat /\ w \in Nat /\ z \in Nat
        /\ j < k => a + 4 + x <= b
        /\ k < j => b + 4 + y <= a
        /\ r + w = b /\ z <= 4 + y
        /\ i \in 1 .. 4 + x /\ (a + i) - r \in 1 .. w + z
    BY <1>2, <1>3, <1>4 DEF chunkHeaderSize
  <2> HIDE DEF a, b, x, y, w, z
  <2>2. CASE (a + i) - r <= w
    <3>1. (a + i) - r \in 1 .. w
      BY <2>1, <2>2
    <3> QED
      BY <1>2, <3>1 DEF a, w
  <2>3. CASE ~((a + i) - r <= w)
    <3>1. j = k
      BY <2>1, <2>3
    <3>2. a = b
      BY <3>1 DEF a, b
    <3>3. i \in 1 .. z /\ (a + i) - r = w + i
      BY <2>1, <2>3, <3>2
    <3> QED
      BY <1>2, <3>1, <3>3 DEF a, w, z
  <2> QED
    BY <2>2, <2>3
<1>5. ASSUME NEW i \in 1 .. chunkHeaderSize, (At[j] + i) - r \in 1 .. Len(wire')
      PROVE  wire'[(At[j] + i) - r] = Header(Size[j])[i]
  <2>1. i \in 1 .. chunkHeaderSize + Size[j] /\ i <= chunkHeaderSize
    BY <1>3 DEF chunkHeaderSize
  <2> QED
    BY <1>4, <1>5, <2>1 DEF Holds, FrameByte
<1>6. ASSUME NEW i \in 1 .. Size[j], (At[j] + chunkHeaderSize + i) - r \in 1 .. Len(wire')
      PROVE  wire'[(At[j] + chunkHeaderSize + i) - r] = data[Pay[j] + i]
  <2> DEFINE h == chunkHeaderSize + i
  <2>1. /\ h \in 1 .. chunkHeaderSize + Size[j] /\ ~(h <= chunkHeaderSize)
        /\ (At[j] + h) - r = (At[j] + chunkHeaderSize + i) - r
        /\ (Pay[j] + h) - chunkHeaderSize = Pay[j] + i
    <3> DEFINE a == At[j]
               x == Size[j]
               y == Pay[j]
    <3>1. a \in Nat /\ x \in Nat /\ y \in Nat /\ i \in 1 .. x
      BY <1>3
    <3> HIDE DEF a, x, y
    <3>2. /\ 4 + i \in 1 .. 4 + x /\ ~(4 + i <= 4)
          /\ (a + (4 + i)) - r = (a + 4 + i) - r
          /\ (y + (4 + i)) - 4 = y + i
      BY <3>1
    <3> QED
      BY <3>2 DEF a, x, y, chunkHeaderSize
  <2> HIDE DEF h
  <2>2. CASE j = k /\ h \in 1 .. Len(s) /\ wire'[(At[j] + h) - r] = s[h]
    BY <2>1, <2>2 DEF FrameByte
  <2>3. CASE (At[j] + h) - r \in 1 .. Len(wire) /\ wire'[(At[j] + h) - r] = wire[(At[j] + h) - r]
    <3>1. Holds(j, r)
      OBVIOUS
    <3>2. (At[j] + chunkHeaderSize + i) - r \in 1 .. Len(wire)
      BY <2>1, <2>3
    <3>3. wire[(At[j] + chunkHeaderSize + i) - r] = data[Pay[j] + i]
      BY <3>1, <3>2 DEF Holds
    <3> QED
      BY <2>1, <2>3, <3>3
  <2> QED
    BY <1>4, <1>6, <2>1, <2>2, <2>3
<1> QED
  BY <1>1, <1>5, <1>6 DEF Holds

\* What is taken off the front of the wire leaves the rest in its place.
LEMMA Taken ==
  ASSUME TypeInv, Layout, UNCHANGED config,
         NEW r \in Nat, NEW n \in 0 .. Len(wire), Take(n),
         \A j \in Nat : Holds(j, r)
  PROVE  /\ wire' \in Seq(Byte) /\ Len(wire') = Len(wire) - n
         /\ \A j \in Nat : Holds(j, r + n)'
<1>1. Pay' = Pay /\ Size' = Size /\ At' = At /\ data' = data
  BY LayoutKept DEF config
<1>2. wire \in Seq(Byte) /\ Len(wire) \in Nat
  BY DEF TypeInv
<1>3. /\ wire' \in Seq(Byte) /\ Len(wire') = Len(wire) - n
      /\ \A p \in 1 .. Len(wire) - n : wire'[p] = wire[n + p]
  BY <1>2 DEF Take
<1>4. ASSUME NEW j \in Nat PROVE Holds(j, r + n)'
  <2>1. /\ At[j] \in Nat /\ Size[j] \in Nat
    BY DEF Layout
  <2>2. ASSUME NEW p \in Int, p - (r + n) \in 1 .. Len(wire')
        PROVE  p - r \in 1 .. Len(wire) /\ wire'[p - (r + n)] = wire[p - r]
    BY <1>2, <1>3, <2>2
  <2>3. ASSUME NEW i \in 1 .. chunkHeaderSize, (At[j] + i) - (r + n) \in 1 .. Len(wire')
        PROVE  wire'[(At[j] + i) - (r + n)] = Header(Size[j])[i]
    <3> DEFINE p == At[j] + i
    <3>1. p \in Int /\ p - (r + n) \in 1 .. Len(wire')
      BY <2>1, <2>3
    <3> HIDE DEF p
    <3>2. p - r \in 1 .. Len(wire) /\ wire'[p - (r + n)] = wire[p - r]
      BY <2>2, <3>1
    <3>3. Holds(j, r)
      OBVIOUS
    <3>4. wire[p - r] = Header(Size[j])[i]
      BY <3>2, <3>3 DEF Holds, p
    <3> QED
      BY <3>2, <3>4 DEF p
  <2>4. ASSUME NEW i \in 1 .. Size[j],
               (At[j] + chunkHeaderSize + i) - (r + n) \in 1 .. Len(wire')
        PROVE  wire'[(At[j] + chunkHeaderSize + i) - (r + n)] = data[Pay[j] + i]
    <3> DEFINE p == At[j] + chunkHeaderSize + i
    <3>1. p \in Int /\ p - (r + n) \in 1 .. Len(wire')
      BY <2>1, <2>4 DEF chunkHeaderSize
    <3> HIDE DEF p
    <3>2. p - r \in 1 .. Len(wire) /\ wire'[p - (r + n)] = wire[p - r]
      BY <2>2, <3>1
    <3>3. Holds(j, r)
      OBVIOUS
    <3>4. wire[p - r] = data[Pay[j] + i]
      BY <3>2, <3>3 DEF Holds, p
    <3> QED
      BY <3>2, <3>4 DEF p
  <2> QED
    BY <1>1, <2>3, <2>4 DEF Holds
<1> QED
  BY <1>3, <1>4

-----------------------------------------------------------------------------
(* Types.                                                                  *)

LEMMA FrameType ==
  ASSUME TypeInv
  PROVE  Frame \in Seq(Byte)
BY HeaderType DEF Frame, TypeInv

LEMMA TypeInit == Init => TypeInv
<1> SUFFICES ASSUME Init PROVE TypeInv
  OBVIOUS
<1>1. \A size \in ChunkSizes : Clamp(size) \in 1 .. MaxChunkSize
  BY FramingAssumption DEF Clamp
<1>2. data \in Seq(Byte) /\ maxBytes \in Int /\ chunkSize \in 1 .. MaxChunkSize
  BY <1>1, FramingAssumption DEF Init
<1>3. <<>> \in Seq(Byte) /\ FALSE \in BOOLEAN
  OBVIOUS
<1> QED
  BY <1>2, <1>3 DEF Init, TypeInv

LEMMA TypeNext ==
  ASSUME TypeInv, [Next]_vars
  PROVE  TypeInv'
<1> USE DEF TypeInv
<1>1. CASE Fill
  <2> PICK n \in 0 .. chunkSize, end \in {"nil", "EOF", "error"} :
        /\ total + n <= Len(data)
        /\ buf' = SubSeq(data, total + 1, total + n) /\ eof' = (end = "EOF")
        /\ pc' = IF (maxBytes >= 0 /\ total + n > maxBytes) \/ end = "error" THEN "failed"
                 ELSE IF n = 0 THEN "terminator" ELSE "frame"
    BY <1>1 DEF Fill
  <2>1. buf' \in Seq(Byte)
    <3>1. n \in Nat
      BY FramingAssumption
    <3> QED
      BY <3>1, Piece
  <2>2. pc' \in {"failed", "terminator", "frame"}
    OBVIOUS
  <2>3. eof' \in BOOLEAN
    BY Zenon
  <2> QED
    BY <1>1, <2>1, <2>2, <2>3 DEF Fill, config, daemonVars
<1>2. CASE WriteFrame
  <2>1. wire' \in Seq(Byte) /\ total' \in Nat
    BY <1>2, FrameType DEF WriteFrame
  <2> QED
    BY <1>2, <2>1 DEF WriteFrame, config, daemonVars
<1>3. CASE WriteTerminator
  <2>1. wire' \in Seq(Byte)
    BY <1>3, FrameType DEF WriteTerminator
  <2> QED
    BY <1>3, <2>1 DEF WriteTerminator, config, daemonVars
<1>4. CASE WriteBreaks
  <2>1. wire' \in Seq(Byte)
    <3> PICK k \in 0 .. Len(Frame) : wire' = wire \o SubSeq(Frame, 1, k)
      BY <1>4 DEF WriteBreaks
    <3>1. SubSeq(Frame, 1, k) \in Seq(Byte)
      BY FrameType, SubSeqProperties
    <3> QED
      BY <3>1
  <2> QED
    BY <1>4, <2>1 DEF WriteBreaks, config, daemonVars
<1>5. CASE ReadHeader
  <2>1. wire' \in Seq(Byte)
    BY <1>5 DEF ReadHeader, Take, chunkHeaderSize
  <2>2. SubSeq(wire, 1, 4) \in Seq(Byte) /\ Len(SubSeq(wire, 1, 4)) = 4
    BY <1>5 DEF ReadHeader, chunkHeaderSize
  <2>3. need' \in Nat
    <3> DEFINE d == SubSeq(wire, 1, 4)
    <3>1. d[1] \in Nat /\ d[2] \in Nat /\ d[3] \in Nat /\ d[4] \in Nat
      BY <2>2 DEF Byte
    <3>2. need' = ((d[1] * Base + d[2]) * Base + d[3]) * Base + d[4]
      BY <1>5 DEF ReadHeader, Number, chunkHeaderSize
    <3> HIDE DEF d
    <3> QED
      BY <3>1, <3>2, ShiftNat
  <2>4. daemon' \in {"judging", "dropped", "payload"}
    BY <1>5 DEF ReadHeader
  <2> QED
    BY <1>5, <2>1, <2>3, <2>4 DEF ReadHeader, config
<1>6. CASE ReadPayload
  <2>1. wire' \in Seq(Byte) /\ body' \in Seq(Byte)
    BY <1>6 DEF ReadPayload, Take
  <2>2. daemon' \in {"replied", "header"}
    BY <1>6 DEF ReadPayload
  <2> QED
    BY <1>6, <2>1, <2>2 DEF ReadPayload, config
<1>7. CASE ReadEOF
  BY <1>7 DEF ReadEOF, config
<1>8. CASE UNCHANGED vars
  BY <1>8 DEF vars, config, daemonVars
<1> QED
  BY <1>1, <1>2, <1>3, <1>4, <1>5, <1>6, <1>7, <1>8
     DEF Next, StreamAll, Daemon, Terminated

-----------------------------------------------------------------------------
(* The client.                                                             *)

\* What StreamAll hands to Write is frame k.
LEMMA FrameIs ==
  ASSUME TypeInv, Layout, NEW k \in Nat, NEW end \in Nat, ClientAt(k, end),
         pc \in {"frame", "terminator"}
  PROVE  /\ Len(Frame) = chunkHeaderSize + Size[k]
         /\ \A i \in 1 .. Len(Frame) : Frame[i] = FrameByte(k, i)
<1>1. Size[k] \in Nat /\ Pay[k] \in Nat
  BY DEF Layout
<1>2. Header(Size[k]) \in Seq(Byte) /\ Len(Header(Size[k])) = chunkHeaderSize
  BY <1>1, HeaderType
<1>3. CASE pc = "frame"
  <2>1. /\ buf \in Seq(Byte) /\ Len(buf) = Size[k]
        /\ \A i \in 1 .. Size[k] : buf[i] = data[Pay[k] + i]
    BY <1>3 DEF ClientAt, TypeInv
  <2>2. Frame = Header(Size[k]) \o buf
    BY <1>3, <2>1 DEF Frame
  <2>3. Len(Frame) = chunkHeaderSize + Size[k]
    <3>1. Len(Header(Size[k]) \o buf) = Len(Header(Size[k])) + Len(buf)
      BY <1>2, <2>1, ConcatProperties
    <3> QED
      BY <1>2, <2>1, <2>2, <3>1
  <2>4. ASSUME NEW i \in 1 .. Len(Frame) PROVE Frame[i] = FrameByte(k, i)
    <3>1. CASE i <= chunkHeaderSize
      <4> DEFINE h == Header(Size[k])
      <4>1. h \in Seq(Byte) /\ buf \in Seq(Byte) /\ Len(h) = 4 /\ i \in 1 .. 4
        BY <1>2, <2>1, <3>1 DEF chunkHeaderSize
      <4>2. Frame = h \o buf /\ FrameByte(k, i) = h[i]
        BY <2>2, <3>1 DEF FrameByte, chunkHeaderSize
      <4> HIDE DEF h
      <4>3. (h \o buf)[i] = h[i]
        <5> DEFINE t == h \o buf
                   n == Len(h)
                   m == Len(buf)
        <5>1. \A j \in 1 .. n + m : t[j] = IF j <= n THEN h[j] ELSE buf[j - n]
          BY <4>1, ConcatProperties
        <5>2. n = 4 /\ m \in Nat
          BY <4>1
        <5> HIDE DEF t, n, m
        <5>3. i \in 1 .. n + m /\ i <= n
          BY <4>1, <5>2
        <5>4. t[i] = h[i]
          BY <5>1, <5>3
        <5> QED
          BY <5>4 DEF t
      <4> QED
        BY <4>2, <4>3
    <3>2. CASE ~(i <= chunkHeaderSize)
      <4> DEFINE h == i - chunkHeaderSize
      <4>1. h \in 1 .. Size[k] /\ (Pay[k] + i) - chunkHeaderSize = Pay[k] + h
        BY <1>1, <2>3, <3>2 DEF chunkHeaderSize
      <4>2. Frame[i] = buf[h]
        BY <1>2, <2>1, <2>2, <2>3, <3>2 DEF chunkHeaderSize
      <4> QED
        BY <2>1, <3>2, <4>1, <4>2 DEF FrameByte
    <3> QED
      BY <3>1, <3>2
  <2> QED
    BY <2>3, <2>4
<1>4. CASE pc = "terminator"
  <2>1. Size[k] = 0
    BY <1>4 DEF ClientAt, Layout
  <2>2. Frame = Header(Size[k])
    BY <1>4, <2>1 DEF Frame
  <2> QED
    BY <1>2, <2>1, <2>2 DEF FrameByte, chunkHeaderSize
<1> QED
  BY <1>3, <1>4

\* What a step needs to know of where the two ends are.
Ends(k, f, r) ==
  /\ ClientAt(k, r + Len(wire)) /\ DaemonAt(f, r)
  /\ \A j \in Nat : Holds(j, r)

\* The daemon does not notice what the client does.
LEMMA DaemonStays ==
  ASSUME UNCHANGED <<config, daemonVars>>, NEW f \in Nat, NEW r \in Nat,
         DaemonAt(f, r), pc' = pc \/ pc # "failed"
  PROVE  DaemonAt(f, r)'
<1>1. Pay' = Pay /\ Size' = Size /\ At' = At
  BY LayoutKept
<1> QED
  BY <1>1 DEF DaemonAt, config, daemonVars

LEMMA FillStep ==
  ASSUME TypeInv, Layout, Fill, NEW k \in Nat, NEW f \in Nat, NEW r \in Nat, Ends(k, f, r)
  PROVE  Ends(k, f, r)'
<1>1. Pay' = Pay /\ Size' = Size /\ At' = At /\ UNCHANGED <<config, daemonVars, wire, total>>
  BY LayoutKept DEF Fill
<1>2. (\A j \in Nat : Holds(j, r))'
  BY <1>1 DEF Holds, Ends, config
<1>3. DaemonAt(f, r)'
  BY <1>1, DaemonStays DEF Ends, Fill
<1>4. PICK n \in 0 .. chunkSize, end \in {"nil", "EOF", "error"} :
        /\ total + n <= Len(data)
        /\ end = "nil" => n = chunkSize
        /\ end = "EOF" => total + n = Len(data)
        /\ buf' = SubSeq(data, total + 1, total + n) /\ eof' = (end = "EOF")
        /\ pc' = IF (maxBytes >= 0 /\ total + n > maxBytes) \/ end = "error" THEN "failed"
                 ELSE IF n = 0 THEN "terminator" ELSE "frame"
  BY DEF Fill
<1>5. /\ pc = "fill" /\ ClientAt(k, r + Len(wire))
      /\ total = Pay[k] /\ r + Len(wire) = At[k] /\ Pay[k] = k * chunkSize
  BY DEF Fill, Ends, ClientAt
<1>6. /\ chunkSize \in Nat /\ chunkSize > 0 /\ n \in Nat /\ Len(data) \in Nat
      /\ maxBytes \in Int
  BY FramingAssumption DEF TypeInv
<1>7. /\ Pay[k] \in Nat /\ Size[k] \in Nat /\ Pay[k + 1] \in Nat /\ At[k] \in Nat
      /\ Pay[k + 1] = Pay[k] + Size[k] /\ At[k + 1] = At[k] + 4 + Size[k]
      /\ Size[k] <= chunkSize /\ (Pay[k] = Len(data) => Size[k] = 0)
      /\ Pay[k + 1] <= Len(data) /\ (Size[k] = 0 => Pay[k] = Len(data))
  BY FrameLayout
<1>8. (k + 1) * chunkSize = k * chunkSize + chunkSize
  BY <1>6
<1>9. Pay[k + 1] = IF Pay[k] + chunkSize <= Len(data) THEN Pay[k] + chunkSize ELSE Len(data)
  BY <1>5, <1>8 DEF Pay
<1>10. /\ Len(buf') = n /\ \A i \in 1 .. n : buf'[i] = data[Pay[k] + i]
  <2> DEFINE m == Pay[k]
  <2>1. buf' = SubSeq(data, m + 1, m + n) /\ m + n <= Len(data)
    BY <1>4, <1>5
  <2>2. m \in Nat /\ data \in Seq(Byte) /\ n \in Nat
    BY <1>6, <1>7 DEF TypeInv
  <2> HIDE DEF m
  <2>3. /\ SubSeq(data, m + 1, m + n) \in Seq(Byte) /\ Len(SubSeq(data, m + 1, m + n)) = n
        /\ \A i \in 1 .. n : SubSeq(data, m + 1, m + n)[i] = data[m + i]
    BY ONLY <2>1, <2>2, Piece, ZenonT(30)
  <2> QED
    BY <2>1, <2>3 DEF m
<1>11. /\ \A j \in Nat : j < k => Pay[j] < Len(data)
       /\ maxBytes >= 0 => Pay[k] <= maxBytes
  BY <1>5 DEF ClientAt
<1>12. eof' <=> (end = "EOF")
  BY <1>4, Zenon
<1>13. /\ Pay[k] + n <= Len(data) /\ (end = "nil" => n = chunkSize)
       /\ end = "EOF" => Pay[k] + n = Len(data)
       /\ pc' = IF (maxBytes >= 0 /\ Pay[k] + n > maxBytes) \/ end = "error" THEN "failed"
                ELSE IF n = 0 THEN "terminator" ELSE "frame"
  BY <1>4, <1>5
<1>14. ClientAt(k, r + Len(wire))'
  <2>1. CASE pc' = "failed"
    <3> DEFINE a == At[k]
               b == At[k + 1]
               x == Size[k]
    <3>1. a <= b /\ a <= a /\ ~(a < a)
      <4>1. a \in Nat /\ x \in Nat /\ b = a + 4 + x
        BY <1>7
      <4> HIDE DEF a, b, x
      <4> QED
        BY <4>1
    <3> QED
      BY <1>1, <1>5, <1>11, <2>1, <3>1 DEF ClientAt, config
  <2>2. CASE pc' = "terminator"
    <3>1. n = 0 /\ end = "EOF"
      BY <1>6, <1>13, <2>2
    <3>2. Pay[k] = Len(data) /\ eof'
      BY <1>6, <1>7, <1>12, <1>13, <3>1
    <3> QED
      BY <1>1, <1>5, <1>11, <2>2, <3>2 DEF ClientAt, config
  <2>3. CASE pc' = "frame"
    <3>1. n > 0 /\ end \in {"nil", "EOF"} /\ (maxBytes >= 0 => Pay[k] + n <= maxBytes)
      BY <1>6, <1>7, <1>13, <2>3
    <3>2. n = Size[k]
      <4> DEFINE p == Pay[k]
                 q == Pay[k + 1]
                 x == Size[k]
                 L == Len(data)
                 c == chunkSize
      <4>1. /\ p \in Nat /\ x \in Nat /\ L \in Nat /\ c \in Nat /\ n \in Nat /\ n <= c
            /\ q = p + x /\ q = (IF p + c <= L THEN p + c ELSE L)
        BY <1>6, <1>7, <1>9
      <4>2. p + n <= L /\ (n = c \/ p + n = L)
        BY <1>13, <3>1
      <4> HIDE DEF p, q, x, L, c
      <4>3. n = x
        BY <4>1, <4>2
      <4> QED
        BY <4>3 DEF x
    <3>3. /\ Len(buf') = Size[k] /\ Size[k] > 0
          /\ \A i \in 1 .. Size[k] : buf'[i] = data[Pay[k] + i]
          /\ maxBytes >= 0 => Pay[k + 1] <= maxBytes
      BY <1>7, <1>10, <3>1, <3>2
    <3>4. IF eof' THEN Pay[k + 1] = Len(data) ELSE Pay[k + 1] = (k + 1) * chunkSize
      <4>1. CASE end = "nil"
        <5>1. ~eof' /\ n = chunkSize
          BY <1>12, <1>13, <4>1
        <5>2. Pay[k + 1] = (k + 1) * chunkSize
          BY <1>5, <1>7, <1>8, <3>2, <5>1
        <5> QED
          BY <5>1, <5>2
      <4>2. CASE end = "EOF"
        <5>1. Pay[k + 1] = Len(data)
          BY <1>7, <1>13, <3>2, <4>2
        <5> QED
          BY <1>12, <4>2, <5>1
      <4> QED
        BY <3>1, <4>1, <4>2
    <3> QED
      BY <1>1, <1>5, <1>11, <2>3, <3>3, <3>4 DEF ClientAt, config
  <2> QED
    BY <1>13, <2>1, <2>2, <2>3
<1> QED
  BY <1>1, <1>2, <1>3, <1>14 DEF Ends

LEMMA WriteFrameStep ==
  ASSUME TypeInv, Layout, WriteFrame,
         NEW k \in Nat, NEW f \in Nat, NEW r \in Nat, Ends(k, f, r)
  PROVE  Ends(k + 1, f, r)'
<1>1. /\ Pay' = Pay /\ Size' = Size /\ At' = At /\ UNCHANGED <<config, daemonVars, eof>>
      /\ pc = "frame" /\ wire' = wire \o Frame /\ total' = total + Len(buf)
      /\ pc' = (IF eof THEN "terminator" ELSE "fill")
  BY LayoutKept DEF WriteFrame
<1>2. DaemonAt(f, r)'
  BY <1>1, DaemonStays DEF Ends
<1>3. /\ ClientAt(k, r + Len(wire)) /\ r + Len(wire) = At[k]
      /\ total = Pay[k] /\ Len(buf) = Size[k] /\ Size[k] > 0
      /\ IF eof THEN Pay[k + 1] = Len(data) ELSE Pay[k + 1] = (k + 1) * chunkSize
      /\ maxBytes >= 0 => Pay[k + 1] <= maxBytes
      /\ \A j \in Nat : j < k => Pay[j] < Len(data)
  BY <1>1 DEF Ends, ClientAt
<1>4. /\ Frame \in Seq(Byte) /\ wire \in Seq(Byte) /\ Len(wire) \in Nat
      /\ r + Len(wire) \in Nat
  BY FrameType DEF TypeInv
<1>len. Len(Frame) = 4 + Size[k]
  BY <1>1, <1>3, <1>4, FrameIs DEF chunkHeaderSize
<1>bytes. \A i \in 1 .. Len(Frame) : Frame[i] = FrameByte(k, i)
  BY <1>1, <1>3, <1>4, FrameIs
<1>5. /\ Pay[k] \in Nat /\ Size[k] \in Nat /\ At[k] \in Nat
      /\ Pay[k + 1] = Pay[k] + Size[k] /\ At[k + 1] = At[k] + 4 + Size[k]
      /\ Pay[k + 1] <= Len(data)
  BY FrameLayout
<1>6. (\A j \in Nat : Holds(j, r))'
  <2>1. Len(Frame) <= chunkHeaderSize + Size[k] /\ \A j \in Nat : Holds(j, r)
    BY <1>5, <1>len DEF Ends, chunkHeaderSize
  <2> QED
    BY <1>1, <1>3, <1>4, <1>bytes, <2>1, Written
<1>7. r + Len(wire') = At[k + 1] /\ total' = Pay[k + 1]
  <2>1. Len(wire') = Len(wire) + Len(Frame)
    BY <1>1, <1>4
  <2>2. total' = Pay[k + 1]
    BY <1>1, <1>3, <1>5
  <2> DEFINE w == Len(wire)
             v == Len(wire')
             a == At[k]
             b == At[k + 1]
             x == Size[k]
  <2>3. r + w = a /\ b = a + 4 + x /\ v = w + (4 + x) /\ w \in Nat /\ x \in Nat
    BY <1>3, <1>4, <1>5, <1>len, <2>1
  <2> HIDE DEF w, v, a, b, x
  <2>4. r + v = b
    BY <2>3
  <2> QED
    BY <2>2, <2>4 DEF v, b
<1>8. Pay[k] < Len(data) /\ \A j \in Nat : j < k + 1 => j < k \/ j = k
  <2> DEFINE p == Pay[k]
             x == Size[k]
             n == Len(data)
  <2>1. p \in Nat /\ x \in Nat /\ x > 0 /\ n \in Nat /\ p + x <= n
    BY <1>3, <1>5 DEF TypeInv
  <2>2. p < n
    <3> HIDE DEF p, x, n
    <3> QED
      BY <2>1
  <2> QED
    BY <2>2
<1>9. ClientAt(k + 1, r + Len(wire))'
  BY <1>1, <1>3, <1>7, <1>8 DEF ClientAt, config
<1> QED
  BY <1>2, <1>6, <1>9 DEF Ends

LEMMA WriteTerminatorStep ==
  ASSUME TypeInv, Layout, WriteTerminator,
         NEW k \in Nat, NEW f \in Nat, NEW r \in Nat, Ends(k, f, r)
  PROVE  Ends(k, f, r)'
<1>1. /\ Pay' = Pay /\ Size' = Size /\ At' = At /\ UNCHANGED <<config, daemonVars, eof, total>>
      /\ pc = "terminator" /\ wire' = wire \o Frame /\ pc' = "complete"
  BY LayoutKept DEF WriteTerminator
<1>2. DaemonAt(f, r)'
  BY <1>1, DaemonStays DEF Ends
<1>3. /\ ClientAt(k, r + Len(wire)) /\ r + Len(wire) = At[k]
      /\ Pay[k] = Len(data) /\ eof
  BY <1>1 DEF Ends, ClientAt
<1>4. /\ Frame \in Seq(Byte) /\ wire \in Seq(Byte) /\ Len(wire) \in Nat
      /\ r + Len(wire) \in Nat
  BY FrameType DEF TypeInv
<1>len. Len(Frame) = 4 + Size[k]
  BY <1>1, <1>3, <1>4, FrameIs DEF chunkHeaderSize
<1>bytes. \A i \in 1 .. Len(Frame) : Frame[i] = FrameByte(k, i)
  BY <1>1, <1>3, <1>4, FrameIs
<1>5. Size[k] \in Nat /\ At[k] \in Nat /\ At[k + 1] = At[k] + 4 + Size[k]
  BY FrameLayout
<1>6. (\A j \in Nat : Holds(j, r))'
  <2>1. Len(Frame) <= chunkHeaderSize + Size[k] /\ \A j \in Nat : Holds(j, r)
    BY <1>5, <1>len DEF Ends, chunkHeaderSize
  <2> QED
    BY <1>1, <1>3, <1>4, <1>bytes, <2>1, Written
<1>7. r + Len(wire') = At[k + 1]
  <2>1. Len(wire') = Len(wire) + Len(Frame)
    BY <1>1, <1>4
  <2> DEFINE w == Len(wire)
             v == Len(wire')
             a == At[k]
             b == At[k + 1]
             x == Size[k]
  <2>3. r + w = a /\ b = a + 4 + x /\ v = w + (4 + x) /\ w \in Nat /\ x \in Nat
    BY <1>3, <1>4, <1>5, <1>len, <2>1
  <2> HIDE DEF w, v, a, b, x
  <2>4. r + v = b
    BY <2>3
  <2> QED
    BY <2>4 DEF v, b
<1>8. ClientAt(k, r + Len(wire))'
  BY <1>1, <1>3, <1>7 DEF ClientAt, config
<1> QED
  BY <1>2, <1>6, <1>8 DEF Ends

LEMMA WriteBreaksStep ==
  ASSUME TypeInv, Layout, WriteBreaks,
         NEW k \in Nat, NEW f \in Nat, NEW r \in Nat, Ends(k, f, r)
  PROVE  Ends(k, f, r)'
<1>1. /\ Pay' = Pay /\ Size' = Size /\ At' = At
      /\ UNCHANGED <<config, daemonVars, eof, total>>
      /\ pc \in {"frame", "terminator"} /\ pc' = "failed"
  BY LayoutKept DEF WriteBreaks
<1>2. DaemonAt(f, r)'
  BY <1>1, DaemonStays DEF Ends
<1>3. /\ ClientAt(k, r + Len(wire)) /\ r + Len(wire) = At[k]
      /\ Pay[k] = Len(data) => eof
      /\ maxBytes >= 0 => Pay[k + 1] <= maxBytes
  <2>1. /\ Pay[k] \in Nat /\ Pay[k + 1] = Pay[k] + Size[k] /\ Size[k] \in Nat
        /\ Pay[k] = Len(data) => Size[k] = 0
    BY FrameLayout
  <2>2. CASE pc = "frame"
    BY <2>1, <2>2 DEF Ends, ClientAt
  <2>3. CASE pc = "terminator"
    BY <2>1, <2>3 DEF Ends, ClientAt
  <2> QED
    BY <1>1, <2>2, <2>3
<1>4. /\ Frame \in Seq(Byte) /\ wire \in Seq(Byte) /\ Len(wire) \in Nat
      /\ r + Len(wire) \in Nat
  BY FrameType DEF TypeInv
<1>len. Len(Frame) = 4 + Size[k]
  BY <1>1, <1>3, <1>4, FrameIs DEF chunkHeaderSize
<1>bytes. \A i \in 1 .. Len(Frame) : Frame[i] = FrameByte(k, i)
  BY <1>1, <1>3, <1>4, FrameIs
<1>5. Size[k] \in Nat /\ At[k] \in Nat /\ At[k + 1] = At[k] + 4 + Size[k]
  BY FrameLayout
<1>6. PICK n \in 0 .. Len(Frame) : wire' = wire \o SubSeq(Frame, 1, n)
  BY DEF WriteBreaks
<1> DEFINE s == SubSeq(Frame, 1, n)
<1>7. /\ s \in Seq(Byte) /\ Len(s) = n /\ \A i \in 1 .. n : s[i] = Frame[i]
      /\ n \in Nat /\ n <= 4 + Size[k]
  <2>1. n \in Nat /\ n <= Len(Frame)
    BY <1>4
  <2>2. s \in Seq(Byte) /\ Len(s) = n /\ \A i \in 1 .. n : s[i] = Frame[i]
    BY <1>4, <2>1
  <2> QED
    BY <1>len, <2>1, <2>2
<1>8. wire' = wire \o s
  BY <1>6
<1> HIDE DEF s
<1>9. (\A j \in Nat : Holds(j, r))'
  <2>1. /\ Len(s) <= chunkHeaderSize + Size[k]
        /\ \A i \in 1 .. Len(s) : s[i] = FrameByte(k, i)
        /\ \A j \in Nat : Holds(j, r)
    <3>1. Len(s) <= chunkHeaderSize + Size[k]
      BY <1>7 DEF chunkHeaderSize
    <3>2. ASSUME NEW i \in 1 .. Len(s) PROVE s[i] = FrameByte(k, i)
      <4>1. i \in 1 .. n /\ i \in 1 .. Len(Frame)
        BY <1>5, <1>7, <1>len
      <4> QED
        BY <1>7, <1>bytes, <4>1
    <3> QED
      BY <3>1, <3>2 DEF Ends
  <2> QED
    BY <1>1, <1>3, <1>7, <1>8, <2>1, Written
<1>10. At[k] <= r + Len(wire') /\ r + Len(wire') <= At[k + 1]
  <2>1. Len(wire') = Len(wire) + n
    BY <1>4, <1>7, <1>8, ConcatProperties
  <2> DEFINE w == Len(wire)
             v == Len(wire')
             a == At[k]
             b == At[k + 1]
             x == Size[k]
  <2>2. /\ r + w = a /\ b = a + 4 + x /\ v = w + n /\ w \in Nat /\ x \in Nat
        /\ n \in Nat /\ n <= 4 + x
    BY <1>3, <1>4, <1>5, <1>7, <2>1
  <2> HIDE DEF w, v, a, b, x
  <2>3. a <= r + v /\ r + v <= b
    BY <2>2
  <2> QED
    BY <2>3 DEF v, a, b
<1>11. ClientAt(k, r + Len(wire))'
  BY <1>1, <1>3, <1>10 DEF ClientAt, config
<1> QED
  BY <1>2, <1>9, <1>11 DEF Ends

-----------------------------------------------------------------------------
(* The daemon.                                                             *)

\* The client does not notice what the daemon reads.
LEMMA ClientStays ==
  ASSUME UNCHANGED <<config, pc, buf, eof, total>>, NEW k \in Nat, NEW end \in Nat,
         ClientAt(k, end)
  PROVE  ClientAt(k, end)'
<1>1. Pay' = Pay /\ Size' = Size /\ At' = At
  BY LayoutKept
<1> QED
  BY <1>1 DEF ClientAt, config

\* The prefix that is read is that of frame f.
LEMMA ReadHeaderStep ==
  ASSUME TypeInv, Layout, ReadHeader,
         NEW k \in Nat, NEW f \in Nat, NEW r \in Nat, Ends(k, f, r)
  PROVE  Ends(k, f, r + 4)'
<1>1. /\ Pay' = Pay /\ Size' = Size /\ At' = At
      /\ UNCHANGED <<config, pc, buf, eof, total, body>>
      /\ daemon = "header" /\ Len(wire) >= 4 /\ Take(4)
      /\ need' = Number(SubSeq(wire, 1, 4))
      /\ daemon' = CASE need' = 0            -> "judging"
                     [] need' > MaxFakeChunk -> "dropped"
                     [] OTHER                -> "payload"
  BY LayoutKept DEF ReadHeader, chunkHeaderSize
<1>2. wire \in Seq(Byte) /\ Len(wire) \in Nat /\ 4 \in 0 .. Len(wire)
  BY <1>1 DEF TypeInv
<1>3. DaemonAt(f, r) /\ r = At[f] /\ Holds(f, r) /\ ClientAt(k, r + Len(wire))
  BY <1>1 DEF Ends, DaemonAt
<1>4. Size[f] \in Nat /\ At[f] \in Nat /\ Size[f] <= chunkSize
  BY FrameLayout
<1>5. \A i \in 1 .. 4 : wire[i] = Header(Size[f])[i]
  <2> TAKE i \in 1 .. 4
  <2>1. (At[f] + i) - r = i /\ i \in 1 .. Len(wire)
    BY <1>1, <1>2, <1>3, <1>4
  <2> QED
    BY <1>3, <2>1 DEF Holds, chunkHeaderSize
<1>6. need' = Size[f]
  <2>1. \A i \in 1 .. 4 : SubSeq(wire, 1, 4)[i] = wire[i]
    BY <1>1, <1>2
  <2>2. Number(SubSeq(wire, 1, 4)) = Number(Header(Size[f]))
    BY <1>5, <2>1 DEF Number
  <2>3. Size[f] \in 0 .. MaxChunkSize
    BY <1>4, FramingAssumption DEF TypeInv
  <2> QED
    BY <1>1, <2>2, <2>3, NumberOfHeader
<1>7. /\ Len(wire') = Len(wire) - 4
      /\ \A j \in Nat : Holds(j, r + 4)'
  BY <1>1, <1>2, Taken DEF Ends
<1>8. ClientAt(k, (r + 4) + Len(wire))'
  <2>1. (r + 4) + Len(wire') = r + Len(wire) /\ r + Len(wire) \in Nat
    BY <1>2, <1>7
  <2>2. ASSUME NEW end \in Nat, end = r + Len(wire) PROVE ClientAt(k, end)'
    BY <1>1, <1>3, <2>2, ClientStays
  <2> QED
    BY <2>1, <2>2
<1>9. daemon' = IF Size[f] = 0 THEN "judging" ELSE "payload"
  <2>1. Size[f] <= MaxFakeChunk
    BY <1>4, FramingAssumption DEF TypeInv
  <2> QED
    BY <1>1, <1>4, <1>6, <2>1, FramingAssumption
<1>10. DaemonAt(f, r + 4)'
  BY <1>1, <1>3, <1>6, <1>9 DEF DaemonAt, chunkHeaderSize, config
<1> QED
  BY <1>7, <1>8, <1>10 DEF Ends

\* The payload that is read is that of frame f.
LEMMA ReadPayloadStep ==
  ASSUME TypeInv, Layout, ReadPayload,
         NEW k \in Nat, NEW f \in Nat, NEW r \in Nat, Ends(k, f, r),
         NEW m \in Nat, m = r + need
  PROVE  Ends(k, f + 1, m)'
<1>1. /\ Pay' = Pay /\ Size' = Size /\ At' = At
      /\ UNCHANGED <<config, pc, buf, eof, total, need>>
      /\ daemon = "payload" /\ Len(wire) >= need /\ Take(need)
      /\ body' = body \o SubSeq(wire, 1, need)
      /\ daemon' \in {"replied", "header"}
  BY LayoutKept DEF ReadPayload
<1>2. /\ wire \in Seq(Byte) /\ Len(wire) \in Nat /\ need \in Nat
      /\ need \in 0 .. Len(wire) /\ body \in Seq(Byte)
  BY <1>1 DEF TypeInv
<1>3. /\ DaemonAt(f, r) /\ r = At[f] + 4 /\ need = Size[f] /\ Holds(f, r)
      /\ ClientAt(k, r + Len(wire))
      /\ Len(body) = Pay[f] /\ \A i \in 1 .. Pay[f] : body[i] = data[i]
  BY <1>1 DEF Ends, DaemonAt, chunkHeaderSize
<1>4. /\ Size[f] \in Nat /\ At[f] \in Nat /\ Pay[f] \in Nat
      /\ Pay[f + 1] = Pay[f] + Size[f] /\ At[f + 1] = At[f] + 4 + Size[f]
  BY FrameLayout
<1>5. \A i \in 1 .. need : wire[i] = data[Pay[f] + i]
  <2> TAKE i \in 1 .. need
  <2>1. i \in 1 .. Size[f]
    BY <1>3
  <2>2. (At[f] + 4 + i) - r = i /\ i \in 1 .. Len(wire)
    <3> DEFINE a == At[f]
    <3>1. a \in Nat /\ r = a + 4
      BY <1>3, <1>4
    <3> HIDE DEF a
    <3>2. (a + 4 + i) - r = i
      BY <3>1
    <3> QED
      BY <1>1, <1>2, <3>2 DEF a
  <2> QED
    BY <1>3, <2>1, <2>2 DEF Holds, chunkHeaderSize
<1>6. /\ Len(wire') = Len(wire) - need
      /\ \A j \in Nat : Holds(j, r + need)'
  BY <1>1, <1>2, Taken DEF Ends
<1>7. ClientAt(k, (r + need) + Len(wire))'
  <2>1. (r + need) + Len(wire') = r + Len(wire) /\ r + Len(wire) \in Nat
    BY <1>2, <1>6
  <2>2. ASSUME NEW end \in Nat, end = r + Len(wire) PROVE ClientAt(k, end)'
    BY <1>1, <1>3, <2>2, ClientStays
  <2> QED
    BY <1>1, <2>1, <2>2
<1>8. Len(body') = Pay[f + 1] /\ \A i \in 1 .. Pay[f + 1] : body'[i] = data[i]
  <2> DEFINE p == Pay[f]
             s == SubSeq(wire, 1, need)
  <2>1. s \in Seq(Byte) /\ Len(s) = need /\ \A i \in 1 .. need : s[i] = wire[i]
    BY <1>2
  <2>2. /\ p \in Nat /\ Pay[f + 1] = p + need /\ body' = body \o s /\ Len(body) = p
        /\ \A i \in 1 .. p : body[i] = data[i]
        /\ \A i \in 1 .. need : s[i] = data[p + i]
    BY <1>1, <1>3, <1>4, <1>5, <2>1
  <2> HIDE DEF p, s
  <2>3. Len(body') = p + need
    BY <1>2, <2>1, <2>2, ConcatProperties
  <2>4. ASSUME NEW i \in 1 .. p + need PROVE body'[i] = data[i]
    <3>1. CASE i <= p
      BY <1>2, <2>1, <2>2, <3>1
    <3>2. CASE ~(i <= p)
      <4>1. i - p \in 1 .. need /\ p + (i - p) = i
        BY <1>2, <2>2, <3>2
      <4>2. body'[i] = s[i - p]
        BY <1>2, <2>1, <2>2, <3>2, ConcatProperties
      <4> QED
        BY <2>2, <4>1, <4>2
    <3> QED
      BY <3>1, <3>2
  <2> QED
    BY <2>2, <2>3, <2>4
<1>9. r + need = At[f + 1]
  <2> DEFINE a == At[f]
             b == At[f + 1]
  <2>1. a \in Nat /\ r = a + 4 /\ b = a + 4 + need
    BY <1>3, <1>4
  <2> HIDE DEF a, b
  <2>2. r + need = b
    BY <1>2, <2>1
  <2> QED
    BY <2>2 DEF b
<1>10. DaemonAt(f + 1, m)'
  <2>1. \A j \in Nat : j < f + 1 => Pay[j] < Len(data)
    <3>1. Pay[f] < Len(data)
      <4>1. Size[f] # 0 /\ Pay[f + 1] <= Len(data) /\ Len(data) \in Nat
        BY <1>1, <1>3, FrameLayout DEF DaemonAt, TypeInv
      <4> DEFINE p == Pay[f]
                 q == Pay[f + 1]
                 x == Size[f]
                 n == Len(data)
      <4>2. p \in Nat /\ x \in Nat /\ x # 0 /\ q = p + x /\ q <= n /\ n \in Nat
        BY <1>4, <4>1
      <4> HIDE DEF p, q, x, n
      <4>3. p < n
        BY <4>2
      <4> QED
        BY <4>3 DEF p, n
    <3>2. \A j \in Nat : j < f => Pay[j] < Len(data)
      BY <1>3 DEF DaemonAt
    <3>3. \A j \in Nat : j < f + 1 => j < f \/ j = f
      OBVIOUS
    <3> QED
      BY <3>1, <3>2, <3>3
  <2> QED
    BY <1>1, <1>8, <1>9, <2>1 DEF DaemonAt, chunkHeaderSize, config
<1>11. (\A j \in Nat : Holds(j, m))' /\ ClientAt(k, m + Len(wire))'
  BY <1>1, <1>6, <1>7
<1> QED
  BY <1>10, <1>11 DEF Ends

LEMMA ReadEOFStep ==
  ASSUME TypeInv, ReadEOF,
         NEW k \in Nat, NEW f \in Nat, NEW r \in Nat, Ends(k, f, r)
  PROVE  Ends(k, f, r)'
<1>1. /\ Pay' = Pay /\ Size' = Size /\ At' = At
      /\ UNCHANGED <<config, pc, buf, eof, total, wire, need, body>>
      /\ daemon' = "dropped" /\ pc = "failed"
  BY LayoutKept DEF ReadEOF
<1>2. (\A j \in Nat : Holds(j, r))'
  BY <1>1 DEF Holds, Ends, config
<1>3. r + Len(wire) \in Nat
  BY DEF TypeInv
<1>4. ClientAt(k, r + Len(wire))'
  BY <1>1 DEF Ends, ClientAt, config
<1>5. DaemonAt(f, r)'
  BY <1>1 DEF Ends, DaemonAt, config
<1> QED
  BY <1>2, <1>4, <1>5 DEF Ends

-----------------------------------------------------------------------------
(* The invariant.                                                          *)

LEMMA StreamInit == Init => StreamInv
<1> SUFFICES ASSUME Init PROVE StreamInv
  OBVIOUS
<1>1. TypeInv /\ Layout
  BY TypeInit, StreamLayout
<1>2. /\ pc = "fill" /\ total = 0 /\ wire = <<>> /\ body = <<>> /\ daemon = "header"
  BY DEF Init
<1>3. Len(wire) = 0 /\ Len(body) = 0 /\ 0 * chunkSize = 0 /\ Pay[0] = 0 /\ At[0] = 0
  BY <1>1, <1>2, FramingAssumption DEF TypeInv, Layout
<1>4. ClientAt(0, 0 + Len(wire))
  BY <1>2, <1>3 DEF ClientAt
<1>5. DaemonAt(0, 0)
  BY <1>2, <1>3 DEF DaemonAt
<1>6. \A j \in Nat : Holds(j, 0)
  BY <1>3 DEF Holds
<1> QED
  BY <1>4, <1>5, <1>6 DEF StreamInv

LEMMA StreamNext ==
  ASSUME TypeInv, StreamInv, [Next]_vars
  PROVE  StreamInv'
<1>1. Layout
  BY StreamLayout
<1>2. PICK k \in Nat, f \in Nat, r \in Nat : Ends(k, f, r)
  BY DEF StreamInv, Ends
<1>3. ASSUME NEW a \in Nat, NEW b \in Nat, NEW c \in Nat, Ends(a, b, c)'
      PROVE  StreamInv'
  BY <1>3 DEF StreamInv, Ends
<1>4. CASE Fill
  BY <1>1, <1>2, <1>3, <1>4, FillStep
<1>5. CASE WriteFrame
  <2>1. k + 1 \in Nat
    OBVIOUS
  <2> QED
    BY <1>1, <1>2, <1>3, <1>5, <2>1, WriteFrameStep
<1>6. CASE WriteTerminator
  BY <1>1, <1>2, <1>3, <1>6, WriteTerminatorStep
<1>7. CASE WriteBreaks
  BY <1>1, <1>2, <1>3, <1>7, WriteBreaksStep
<1>8. CASE ReadHeader
  <2>1. r + 4 \in Nat
    OBVIOUS
  <2> QED
    BY <1>1, <1>2, <1>3, <1>8, <2>1, ReadHeaderStep
<1>9. CASE ReadPayload
  <2>1. f + 1 \in Nat /\ r + need \in Nat
    BY DEF TypeInv
  <2>2. PICK m \in Nat : m = r + need
    BY <2>1
  <2>3. Ends(k, f + 1, m)'
    BY <1>1, <1>2, <1>9, <2>2, ReadPayloadStep
  <2> QED
    BY <1>3, <2>1, <2>3, Zenon
<1>10. CASE ReadEOF
  BY <1>2, <1>3, <1>10, ReadEOFStep
<1>11. CASE UNCHANGED vars
  <2>1. Pay' = Pay /\ Size' = Size /\ At' = At
    BY <1>11, LayoutKept DEF vars
  <2>2. (\A j \in Nat : Holds(j, r))'
    BY <1>2, <1>11, <2>1 DEF Ends, Holds, vars, config
  <2>3. ClientAt(k, r + Len(wire))'
    BY <1>2, <1>11, <2>1 DEF Ends, ClientAt, vars, config
  <2>4. DaemonAt(f, r)'
    BY <1>2, <1>11, <2>1 DEF Ends, DaemonAt, vars, config, daemonVars
  <2> QED
    BY <1>3, <2>2, <2>3, <2>4 DEF Ends
<1> QED
  BY <1>4, <1>5, <1>6, <1>7, <1>8, <1>9, <1>10, <1>11
     DEF Next, StreamAll, Daemon, Terminated

LEMMA StreamGives ==
  ASSUME TypeInv, StreamInv
  PROVE  DecodesWhatWasRead
<1>1. Layout
  BY StreamLayout
<1>2. PICK k \in Nat, f \in Nat, r \in Nat : Ends(k, f, r)
  BY DEF StreamInv, Ends
<1> DEFINE end == r + Len(wire)
<1>3. /\ data \in Seq(Byte) /\ body \in Seq(Byte) /\ Len(data) \in Nat
      /\ Len(wire) \in Nat /\ end \in Nat /\ r <= end /\ maxBytes \in Int
  BY DEF TypeInv
<1>4. ClientAt(k, end) /\ DaemonAt(f, r)
  BY <1>2 DEF Ends
<1> HIDE DEF end
<1>5. /\ Pay[k] \in Nat /\ At[k] \in Nat /\ Size[k] \in Nat /\ At[k + 1] \in Nat
      /\ Pay[k] <= Len(data)
      /\ Pay[k + 1] = Pay[k] + Size[k] /\ At[k + 1] = At[k] + 4 + Size[k]
      /\ Pay[k] = Len(data) => Size[k] = 0
  BY <1>1, FrameLayout DEF Layout
<1>6. /\ Pay[f] \in Nat /\ At[f] \in Nat /\ Size[f] \in Nat /\ Pay[f] <= Len(data)
      /\ Size[f] = 0 => Pay[f] = Len(data)
  BY <1>1, FrameLayout DEF Layout
<1>7. /\ f < k => Pay[f + 1] <= Pay[k]
      /\ k < f => At[k + 1] <= At[f] /\ Pay[k + 1] <= Pay[f]
      /\ k + 1 < f => At[(k + 1) + 1] <= At[f]
      /\ Pay[f] <= Pay[f + 1] /\ Pay[f + 1] \in Nat
      /\ At[(k + 1) + 1] >= At[k + 1] + 4 /\ At[(k + 1) + 1] \in Nat
  <2>1. k + 1 \in Nat /\ f + 1 \in Nat /\ (k + 1) + 1 \in Nat
    OBVIOUS
  <2>2. /\ f < k => Pay[f + 1] <= Pay[k]
        /\ k < f => At[k + 1] <= At[f] /\ Pay[k + 1] <= Pay[f]
        /\ k + 1 < f => At[(k + 1) + 1] <= At[f]
    BY <1>1, <2>1 DEF Layout
  <2>3. Pay[f] <= Pay[f + 1] /\ Pay[f + 1] \in Nat
    <3>1. Pay[f + 1] = Pay[f] + Size[f] /\ Pay[f + 1] \in Nat
      BY <1>1, FrameLayout
    <3> QED
      BY <1>6, <3>1
  <2>4. /\ At[(k + 1) + 1] = At[k + 1] + 4 + Size[k + 1]
        /\ At[(k + 1) + 1] \in Nat /\ At[k + 1] \in Nat /\ Size[k + 1] \in Nat
    BY <1>1, <2>1, FrameLayout
  <2> QED
    BY <2>2, <2>3, <2>4
<1>8. At[f] <= r /\ r <= end
  BY <1>3, <1>4, <1>6 DEF DaemonAt, chunkHeaderSize
<1>9. IsPrefix(body, data)
  <2>1. Len(body) = Pay[f] /\ \A i \in 1 .. Pay[f] : body[i] = data[i]
    BY <1>4 DEF DaemonAt
  <2>2. Len(body) \in Nat /\ Len(body) <= Len(data) /\ \A i \in 1 .. Len(body) : body[i] = data[i]
    BY <1>6, <2>1
  <2>3. SubSeq(body, 1, Len(body)) = SubSeq(data, 1, Len(body))
    BY <1>3, <2>2
  <2> QED
    BY <2>2, <2>3 DEF IsPrefix
<1>10. At[k] <= end /\ end <= At[k + 1] /\ (pc \notin {"failed", "complete"} => end = At[k])
  <2>1. pc \in {"fill", "frame", "terminator", "complete", "failed"}
    BY DEF TypeInv
  <2>2. At[k] <= At[k + 1] /\ At[k + 1] \in Nat
    BY <1>5
  <2>3. /\ pc \in {"fill", "frame", "terminator"} => end = At[k]
        /\ pc = "complete" => end = At[k + 1]
        /\ pc = "failed" => At[k] <= end /\ end <= At[k + 1]
    BY <1>4 DEF ClientAt
  <2> QED
    BY <1>3, <1>5, <2>1, <2>2, <2>3
<1>11. /\ f <= k + 1 /\ (f <= k => Pay[f] <= Pay[k])
       /\ f = k + 1 => At[k] < end
       /\ k <= f /\ r = At[f] + 4 => f = k /\ At[k] < end
  <2> DEFINE pk == Pay[k]
             pf == Pay[f]
             q  == Pay[f + 1]
             ak == At[k]
             b  == At[k + 1]
             c  == At[(k + 1) + 1]
             af == At[f]
  <2>1. /\ pk \in Nat /\ pf \in Nat /\ q \in Nat /\ ak \in Nat /\ b \in Nat /\ c \in Nat
        /\ af \in Nat /\ end \in Nat
    BY <1>3, <1>5, <1>6, <1>7
  <2>2. /\ pf <= q /\ (f < k => q <= pk) /\ (f = k => pf = pk /\ af = ak)
        /\ c >= b + 4 /\ (k + 1 < f => c <= af) /\ (k < f => b <= af)
    BY <1>7
  <2>3. af <= r /\ r <= end /\ end <= b /\ (f = k + 1 => af = b)
    BY <1>8, <1>10
  <2>4. PICK x \in Nat : b = ak + 4 + x
    BY <1>5
  <2> HIDE DEF pk, pf, q, ak, b, c, af
  <2>5. f <= k + 1 /\ (f <= k => pf <= pk) /\ (f = k + 1 => ak < end)
    BY <2>1, <2>2, <2>3, <2>4
  <2>6. ASSUME k <= f, r = af + 4 PROVE f = k /\ ak < end
    BY <2>1, <2>2, <2>3, <2>4, <2>6
  <2> QED
    BY <2>5, <2>6 DEF pk, pf, ak, af
<1>12. maxBytes >= 0 => Len(body) <= maxBytes
  <2> SUFFICES ASSUME maxBytes >= 0 PROVE Pay[f] <= maxBytes
    BY <1>4 DEF DaemonAt
  <2>1. Pay[k] <= maxBytes
    BY <1>4 DEF ClientAt
  <2>2. CASE f <= k
    BY <1>3, <1>5, <1>6, <1>11, <2>1, <2>2
  <2>3. CASE f = k + 1
    <3>1. At[k] < end /\ pc \in {"failed", "complete"}
      BY <1>3, <1>5, <1>10, <1>11, <2>3
    <3>2. CASE pc = "failed"
      BY <1>4, <2>3, <3>1, <3>2 DEF ClientAt
    <3>3. CASE pc = "complete"
      <4>1. Pay[k] = Len(data)
        BY <1>4, <3>3 DEF ClientAt
      <4> QED
        BY <1>5, <2>1, <2>3, <4>1
    <3> QED
      BY <3>1, <3>2, <3>3
  <2> QED
    BY <1>11, <2>2, <2>3
<1>13. ASSUME daemon = "judging" PROVE eof /\ body = data
  <2>1. r = At[f] + 4 /\ Pay[f] = Len(data)
    BY <1>4, <1>6, <1>13 DEF DaemonAt, chunkHeaderSize
  <2>2. body = data
    <3>1. Len(body) = Len(data) /\ \A i \in 1 .. Len(data) : body[i] = data[i]
      BY <1>4, <2>1 DEF DaemonAt
    <3> QED
      BY <1>3, <3>1, SeqEqual
  <2>3. ~(f < k)
    BY <1>4, <1>6, <1>3, <2>1 DEF ClientAt
  <2>4. f = k /\ At[k] < end
    BY <1>11, <2>1, <2>3
  <2>5. pc \in {"failed", "complete"}
    BY <1>3, <1>5, <1>10, <2>4
  <2>6. eof
    BY <1>4, <2>1, <2>4, <2>5 DEF ClientAt
  <2> QED
    BY <2>2, <2>6
<1>14. daemon = "dropped" => pc = "failed"
  BY <1>4 DEF DaemonAt
<1> QED
  BY <1>9, <1>12, <1>13, <1>14 DEF DecodesWhatWasRead

\* Behind a complete stream, the daemon finds all of what it reads next.
Fed ==
  pc = "complete" =>
    /\ daemon = "header" => Len(wire) >= chunkHeaderSize
    /\ daemon = "payload" => Len(wire) >= need

\* Before the terminator is read, its frame is at or ahead of the daemon's.
LEMMA StreamFeeds ==
  ASSUME TypeInv, StreamInv
  PROVE  Fed
<1> SUFFICES ASSUME pc = "complete", daemon \in {"header", "payload"}
             PROVE  /\ daemon = "header" => Len(wire) >= 4
                    /\ daemon = "payload" => Len(wire) >= need
  BY DEF Fed, chunkHeaderSize
<1>1. Layout
  BY StreamLayout
<1>2. PICK k \in Nat, f \in Nat, r \in Nat : Ends(k, f, r)
  BY DEF StreamInv, Ends
<1>3. /\ r + Len(wire) = At[k + 1] /\ Pay[k] = Len(data)
      /\ \A j \in Nat : j < f => Pay[j] < Len(data)
      /\ daemon = "header" => r = At[f]
      /\ daemon = "payload" => r = At[f] + 4 /\ need = Size[f]
  BY <1>2 DEF Ends, ClientAt, DaemonAt, chunkHeaderSize
<1>4. Len(data) \in Nat /\ Len(wire) \in Nat
  BY DEF TypeInv
<1>5. f <= k
  BY <1>3, <1>4
<1> DEFINE b == At[k + 1]
           a == At[f]
           c == At[f + 1]
           x == Size[f]
           w == Len(wire)
<1>6. /\ a \in Nat /\ b \in Nat /\ c \in Nat /\ x \in Nat /\ w \in Nat /\ c = a + 4 + x
  BY <1>1, <1>4, FrameLayout
<1>7. c <= b
  <2>1. k + 1 \in Nat /\ f < k + 1
    BY <1>5
  <2> QED
    BY <1>1, <2>1 DEF Layout
<1>8. /\ r + w = b /\ (daemon = "header" => r = a)
      /\ daemon = "payload" => r = a + 4 /\ need = x
  BY <1>3
<1> HIDE DEF a, b, c, x, w
<1>9. (daemon = "header" => w >= 4) /\ (daemon = "payload" => w >= need)
  BY <1>6, <1>7, <1>8
<1> QED
  BY <1>9 DEF w

\* The invariant holds throughout.
LEMMA FramingInvariance == Spec => [](TypeInv /\ StreamInv)
<1>1. Init => TypeInv /\ StreamInv
  BY TypeInit, StreamInit
<1>2. TypeInv /\ StreamInv /\ [Next]_vars => TypeInv' /\ StreamInv'
  BY TypeNext, StreamNext
<1> QED
  BY <1>1, <1>2, PTL DEF Spec

-----------------------------------------------------------------------------
\* StreamAll's buffer, the wire and the daemon's state stay within their
\* types; no chunk is longer than MaxChunkSize.
THEOREM FramingTypes == Spec => []TypeInv
<1>1. TypeInv /\ [Next]_vars => TypeInv'
  BY TypeNext
<1> QED
  BY TypeInit, <1>1, PTL DEF Spec

\* Whatever the input, the chunk size and the limits, what the daemon decodes
\* (readChunks) is what the reader delivered, within the client's limit, and a
\* terminator is understood only after the last byte of an input that ended.
THEOREM DecodedIsRead == Spec => []DecodesWhatWasRead
<1>1. TypeInv /\ StreamInv => DecodesWhatWasRead
  BY StreamGives
<1> QED
  BY <1>1, FramingInvariance, PTL

\* When StreamAll has returned without an error, every read of a daemon that
\* still reads (io.ReadFull in readChunks) finds its bytes: neither end waits
\* for the other.  This is the safety part of CompleteIsUnderstood.
THEOREM CompleteFeedsDaemon == Spec => []Fed
<1>1. TypeInv /\ StreamInv => Fed
  BY StreamFeeds
<1> QED
  BY <1>1, FramingInvariance, PTL

=============================================================================
