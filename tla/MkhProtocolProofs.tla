-------------------------- MODULE MkhProtocolProofs --------------------------
(***************************************************************************)
(* Proofs about MkhProtocol: what crc16 and whitening_encode compute bit by *)
(* bit is what a hub and the Bluetooth controller compute from their own    *)
(* definitions, for every telegram; so every order comes through.           *)
(***************************************************************************)
EXTENDS MkhProtocol, FoldFacts, SequenceTheorems

-----------------------------------------------------------------------------
\* Bits

LEMMA BitFacts ==
    ASSUME NEW a \in Bit, NEW b \in Bit
    PROVE  /\ (a + b) % 2 \in Bit /\ (a + b) % 2 = (b + a) % 2
           /\ (((a + b) % 2) + b) % 2 = a
           /\ (a + 1) % 2 = 1 - a /\ (a + 0) % 2 = a
BY DEF Bit

LEMMA BitZero ==
    ASSUME NEW a \in Bit
    PROVE  (a + 0) % 2 = a
BY DEF Bit

LEMMA BitsType ==
    ASSUME NEW n \in Nat, NEW width \in Nat
    PROVE  Bits(n, width) \in [1 .. width -> Bit]
<1>1. ASSUME NEW i \in 1 .. width PROVE (n \div 2^(i - 1)) % 2 \in Bit
  BY DEF Bit
<1> QED
  BY <1>1 DEF Bits

LEMMA NumberOfBits ==
    ASSUME NEW n \in Byte
    PROVE  Number(Bits(n, 8)) = n
BY DEF Number, Bits, Byte

LEMMA NumberType ==
    ASSUME NEW bits \in ByteBits
    PROVE  Number(bits) \in Byte
<1> USE DEF ByteBits, Bit
<1>1. PICK a \in 0 .. 1, b \in 0 .. 1, c \in 0 .. 1, d \in 0 .. 1 :
         bits[1] = a /\ bits[2] = b /\ bits[3] = c /\ bits[4] = d
  OBVIOUS
<1>2. PICK e \in 0 .. 1, f \in 0 .. 1, g \in 0 .. 1, h \in 0 .. 1 :
         bits[5] = e /\ bits[6] = f /\ bits[7] = g /\ bits[8] = h
  OBVIOUS
<1>3. Number(bits) = a + 2 * b + 4 * c + 8 * d + 16 * e + 32 * f + 64 * g + 128 * h
  BY <1>1, <1>2 DEF Number
<1> QED
  BY <1>3 DEF Byte

LEMMA XorType ==
    ASSUME NEW n \in Nat, NEW a \in [1 .. n -> Bit], NEW b \in [1 .. n -> Bit]
    PROVE  /\ Xor(a, b) \in [1 .. n -> Bit]
           /\ \A i \in 1 .. n : Xor(a, b)[i] = (a[i] + b[i]) % 2
BY BitFacts DEF Xor

\* Words and bytes.
LEMMA XorWord ==
    ASSUME NEW a \in WordBits, NEW b \in WordBits
    PROVE  Xor(a, b) \in WordBits /\ \A i \in 1 .. 16 : Xor(a, b)[i] = (a[i] + b[i]) % 2
BY BitFacts DEF Xor, WordBits

LEMMA XorByte ==
    ASSUME NEW a \in ByteBits, NEW b \in ByteBits
    PROVE  Xor(a, b) \in ByteBits /\ \A i \in 1 .. 8 : Xor(a, b)[i] = (a[i] + b[i]) % 2
BY BitFacts DEF Xor, ByteBits

\* A sequence of a known length.
LEMMA SequenceOf ==
    ASSUME NEW S, NEW n \in Nat, NEW s \in [1 .. n -> S]
    PROVE  s \in Seq(S) /\ Len(s) = n /\ DOMAIN s = 1 .. n
OBVIOUS

LEMMA FunctionOf ==
    ASSUME NEW S, NEW n \in Nat, NEW s \in Seq(S), Len(s) = n
    PROVE  s \in [1 .. n -> S]
BY LenProperties

LEMMA ReverseType ==
    ASSUME NEW n \in Nat, NEW a \in [1 .. n -> Bit]
    PROVE  /\ reverse_bits(a) \in [1 .. n -> Bit]
           /\ \A i \in 1 .. n : reverse_bits(a)[i] = a[n + 1 - i]
<1>1. Len(a) = n
  OBVIOUS
<1>2. \A i \in 1 .. n : n - i + 1 \in 1 .. n /\ n - i + 1 = n + 1 - i
  OBVIOUS
<1> QED
  BY <1>1, <1>2 DEF reverse_bits, Reverse

-----------------------------------------------------------------------------
\* Whitening

LEMMA WhiteningTypes ==
    /\ \A ctx \in Context : whitening_step[ctx] \in Context
    /\ \A window \in Context : Slide[window] \in Context
    /\ \A key \in Nat : whitening_init(key) \in Context /\ Start(key) \in Context
<1>1. ASSUME NEW ctx \in Context PROVE whitening_step[ctx] \in Context
  <2>1. (ctx[4] + ctx[7]) % 2 \in Bit
    BY BitFacts DEF Context
  <2> QED
    BY <2>1 DEF whitening_step, Context
<1>2. ASSUME NEW window \in Context PROVE Slide[window] \in Context
  <2>1. (window[5] + window[1]) % 2 \in Bit
    BY BitFacts DEF Context
  <2> QED
    BY <2>1 DEF Slide, Context
<1>3. ASSUME NEW key \in Nat PROVE whitening_init(key) \in Context /\ Start(key) \in Context
  <2>1. Bits(key, 6) \in [1 .. 6 -> Bit]
    BY BitsType
  <2> QED
    BY <2>1 DEF whitening_init, Start, Context, Bit
<1> QED
  BY <1>1, <1>2, <1>3

\* The registers are what their steps make of them, and hold bits.
LEMMA WhiteningRuns ==
    ASSUME NEW key \in Nat
    PROVE  /\ Whitening(key)[0] = whitening_init(key)
           /\ \A t \in Nat : /\ Whitening(key)[t] \in Context
                             /\ Whitening(key)[t + 1] = whitening_step[Whitening(key)[t]]
<1> DEFINE W == Whitening(key)
<1>1. whitening_init(key) \in Context /\ whitening_step \in StepsOn(Context)
  BY WhiteningTypes DEF whitening_step, Context, StepsOn
<1>2. PICK f : IsRepetition(Context, whitening_init(key), whitening_step, f)
  BY <1>1, RepetitionExists
<1>3. IsRepetition(Context, whitening_init(key), whitening_step, W)
  BY <1>2, Zenon DEF IsRepetition, Whitening
<1> HIDE DEF W
<1>4. W[0] = whitening_init(key) /\ \A t \in Nat : W[t] \in Context /\ W[t + 1] = whitening_step[W[t]]
  BY <1>1, <1>3, RepetitionRuns
<1> QED
  BY <1>4 DEF W

LEMMA WindowsRun ==
    ASSUME NEW channel \in Nat
    PROVE  /\ Windows(channel)[0] = Start(channel)
           /\ \A t \in Nat : /\ Windows(channel)[t] \in Context
                             /\ Windows(channel)[t + 1] = Slide[Windows(channel)[t]]
<1> DEFINE W == Windows(channel)
<1>1. Start(channel) \in Context /\ Slide \in StepsOn(Context)
  BY WhiteningTypes DEF Slide, Context, StepsOn
<1>2. PICK f : IsRepetition(Context, Start(channel), Slide, f)
  BY <1>1, RepetitionExists
<1>3. IsRepetition(Context, Start(channel), Slide, W)
  BY <1>2, Zenon DEF IsRepetition, Windows
<1> HIDE DEF W
<1>4. W[0] = Start(channel) /\ \A t \in Nat : W[t] \in Context /\ W[t + 1] = Slide[W[t]]
  BY <1>1, <1>3, RepetitionRuns
<1> QED
  BY <1>4 DEF W

\* The same bits in both registers, each in its own order.
Coupled(ctx, window) ==
    /\ window[1] = ctx[4] /\ window[2] = ctx[3] /\ window[3] = ctx[2] /\ window[4] = ctx[1]
    /\ window[5] = ctx[7] /\ window[6] = ctx[6] /\ window[7] = ctx[5]

\* mkh_protocol.c:120, whitening_step.  A shift register that feeds its last bit back and
\* Bluetooth's recurrence, which looks back at its own output, go through the same bits:
\* what whitening_step returns is the whitening that the specification of Bluetooth
\* defines, for every key and for ever.
THEOREM WhiteningIsBluetooths ==
    ASSUME NEW key \in Nat
    PROVE  \A t \in Nat : Whitening(key)[t + 1][1] = Windows(key)[t][5]
<1> DEFINE T == {t \in Nat : Coupled(Whitening(key)[t], Windows(key)[t])}
<1>1. 0 \in T
  <2>1. Coupled(whitening_init(key), Start(key))
    BY DEF Coupled, whitening_init, Start
  <2> QED
    BY <2>1, WhiteningRuns, WindowsRun
<1>2. ASSUME NEW t \in T PROVE t + 1 \in T
  <2>1. t \in Nat /\ t + 1 \in Nat /\ Coupled(Whitening(key)[t], Windows(key)[t])
    OBVIOUS
  <2>2. ASSUME NEW ctx \in Context, NEW window \in Context, Coupled(ctx, window)
        PROVE  Coupled(whitening_step[ctx], Slide[window])
    <3>1. ctx[4] \in Bit /\ ctx[7] \in Bit
      BY DEF Context
    <3>2. (ctx[4] + ctx[7]) % 2 = (window[5] + window[1]) % 2
      BY <2>2, <3>1, BitFacts DEF Coupled
    <3>3. whitening_step[ctx] =
            <<ctx[7], ctx[1], ctx[2], ctx[3], (ctx[4] + ctx[7]) % 2, ctx[5], ctx[6]>>
      BY DEF whitening_step, Context
    <3>4. Slide[window] = <<window[2], window[3], window[4], window[5], window[6], window[7],
                            (window[5] + window[1]) % 2>>
      BY DEF Slide, Context
    <3> QED
      BY <2>2, <3>2, <3>3, <3>4 DEF Coupled
  <2>3. Coupled(Whitening(key)[t + 1], Windows(key)[t + 1])
    BY <2>1, <2>2, WhiteningRuns, WindowsRun
  <2> QED
    BY <2>1, <2>3
<1>3. T \in SUBSET Nat
  OBVIOUS
<1>4. T = Nat
  <2> HIDE DEF T
  <2> QED
    BY <1>1, <1>2, <1>3, SetInduction
<1>5. ASSUME NEW t \in Nat PROVE Whitening(key)[t + 1][1] = Windows(key)[t][5]
  <2>1. Coupled(Whitening(key)[t], Windows(key)[t])
    BY <1>4
  <2>2. \A ctx \in Context : whitening_step[ctx][1] = ctx[7]
    BY DEF whitening_step, Context
  <2> QED
    BY <2>1, <2>2, WhiteningRuns DEF Coupled
<1> QED
  BY <1>5

\* The bytes of both passes are the bits that the two receivers take away.
LEMMA PassBits ==
    ASSUME NEW key \in Nat, NEW n \in Nat, NEW i \in 1 .. n
    PROVE  /\ KeyBytes(key, n)[i] \in ByteBits
           /\ \A b \in 1 .. 8 : /\ 8 * (i - 1) + b \in 1 .. 8 * n
                                /\ KeyBytes(key, n)[i][b] = Sequence(key, 8 * n)[8 * (i - 1) + b]
<1>1. ASSUME NEW b \in 1 .. 8
      PROVE  /\ 8 * (i - 1) + b \in 1 .. 8 * n
             /\ KeyBytes(key, n)[i][b] = Sequence(key, 8 * n)[8 * (i - 1) + b]
             /\ KeyBytes(key, n)[i][b] \in Bit
  <2> DEFINE t == 8 * (i - 1) + b - 1
  <2>1. t \in Nat /\ t + 1 \in 1 .. 8 * n /\ t + 1 = 8 * (i - 1) + b /\ (t + 1) - 1 = t
    OBVIOUS
  <2>2. KeyBytes(key, n)[i][b] = Whitening(key)[8 * (i - 1) + b][1]
    BY DEF KeyBytes
  <2> HIDE DEF t
  <2>3. Sequence(key, 8 * n)[t + 1] = Windows(key)[t][5]
    BY <2>1 DEF Sequence
  <2>4. Whitening(key)[t + 1] \in Context
    BY <2>1, WhiteningRuns
  <2>5. Whitening(key)[t + 1][1] \in Bit
    BY <2>4 DEF Context
  <2> QED
    BY <2>1, <2>2, <2>3, <2>5, WhiteningIsBluetooths
<1>2. KeyBytes(key, n)[i] = [b \in 1 .. 8 |-> KeyBytes(key, n)[i][b]]
  BY DEF KeyBytes
<1> QED
  BY <1>1, <1>2 DEF ByteBits

-----------------------------------------------------------------------------
\* Checksum

\* The polynomial in a word, lowest bit first.
LEMMA WordFacts ==
    /\ Polynomial \in WordBits /\ AllOnes \in WordBits
    /\ \A i \in 1 .. 16 : Polynomial[i] = IF i \in {1, 6, 13} THEN 1 ELSE 0
    /\ \A i \in 1 .. 16 : AllOnes[i] = 1
<1>1. Polynomial \in WordBits /\ AllOnes \in WordBits
  <2>1. ASSUME NEW n \in Nat PROVE Bits(n, 16) \in WordBits
    BY BitsType DEF WordBits
  <2> QED
    BY <2>1 DEF Polynomial, AllOnes
<1> DEFINE p == Polynomial
           q == AllOnes
<1>2. /\ p[1] = 1 /\ p[2] = 0 /\ p[3] = 0 /\ p[4] = 0 /\ p[5] = 0 /\ p[6] = 1 /\ p[7] = 0 /\ p[8] = 0
      /\ p[9] = 0 /\ p[10] = 0 /\ p[11] = 0 /\ p[12] = 0 /\ p[13] = 1 /\ p[14] = 0 /\ p[15] = 0 /\ p[16] = 0
  BY DEF Bits, Polynomial
<1>3. /\ q[1] = 1 /\ q[2] = 1 /\ q[3] = 1 /\ q[4] = 1 /\ q[5] = 1 /\ q[6] = 1 /\ q[7] = 1 /\ q[8] = 1
      /\ q[9] = 1 /\ q[10] = 1 /\ q[11] = 1 /\ q[12] = 1 /\ q[13] = 1 /\ q[14] = 1 /\ q[15] = 1 /\ q[16] = 1
  BY DEF Bits, AllOnes
<1> HIDE DEF p, q
<1>4. \A i \in 1 .. 16 : p[i] = IF i \in {1, 6, 13} THEN 1 ELSE 0
  BY <1>2
<1>5. \A i \in 1 .. 16 : q[i] = 1
  BY <1>3
<1> QED
  BY <1>1, <1>4, <1>5 DEF p, q

LEMMA ShiftBits ==
    ASSUME NEW r \in WordBits
    PROVE  /\ CrcShift[r] \in WordBits
           /\ CrcShift[r][1] = r[16]
           /\ \A i \in 2 .. 16 : CrcShift[r][i] = IF i \in {6, 13} THEN (r[i - 1] + r[16]) % 2
                                                    ELSE r[i - 1]
<1> DEFINE left == <<0, r[1], r[2], r[3], r[4], r[5], r[6], r[7], r[8], r[9], r[10], r[11], r[12],
                    r[13], r[14], r[15]>>
<1>1. \A i \in 1 .. 16 : r[i] \in Bit
  BY DEF WordBits
<1>2. /\ left \in [1 .. 16 -> Bit]
      /\ left[1] = 0 /\ \A i \in 2 .. 16 : left[i] = r[i - 1]
  BY <1>1 DEF WordBits, Bit
<1> HIDE DEF left
<1>3. CrcShift[r] = IF r[16] = 1 THEN Xor(left, Polynomial) ELSE left
  BY DEF CrcShift, left
<1>4. CASE r[16] = 1
  <2>1. /\ Xor(left, Polynomial) \in WordBits
        /\ \A i \in 1 .. 16 : Xor(left, Polynomial)[i] = (left[i] + Polynomial[i]) % 2
    BY <1>2, WordFacts, BitFacts DEF Xor, WordBits
  <2>2. \A i \in 1 .. 16 : left[i] \in Bit
    BY <1>2
  <2> QED
    BY <1>2, <1>3, <1>4, <2>1, <2>2, WordFacts DEF Bit
<1>5. CASE r[16] = 0
  BY <1>1, <1>2, <1>3, <1>5 DEF WordBits, Bit
<1> QED
  BY <1>1, <1>4, <1>5 DEF Bit

LEMMA XorHighBits ==
    ASSUME NEW r \in WordBits, NEW byte \in ByteBits
    PROVE  /\ XorHigh(r, byte) \in WordBits
           /\ \A i \in 1 .. 16 : XorHigh(r, byte)[i] = IF i <= 8 THEN r[i] ELSE (r[i] + byte[i - 8]) % 2
<1>1. \A i \in 1 .. 16 : r[i] \in Bit
  BY DEF WordBits
<1>2. \A i \in 1 .. 16 : ~(i <= 8) => byte[i - 8] \in Bit
  BY DEF ByteBits
<1>3. \A i \in 1 .. 16 : ~(i <= 8) => (r[i] + byte[i - 8]) % 2 \in Bit
  BY <1>1, <1>2, BitFacts
<1> QED
  BY <1>1, <1>3 DEF XorHigh, WordBits

Carry(r, bit) == (r[1] + bit) % 2

LEMMA BitStepBits ==
    ASSUME NEW r \in WordBits, NEW bit \in Bit
    PROVE  /\ Carry(r, bit) \in Bit
           /\ BitCrcStep[r][bit] \in WordBits
           /\ BitCrcStep[r][bit][16] = Carry(r, bit)
           /\ \A i \in 1 .. 15 : BitCrcStep[r][bit][i] =
                  IF i \in {4, 11} THEN (r[i + 1] + Carry(r, bit)) % 2 ELSE r[i + 1]
<1> DEFINE carry == Carry(r, bit)
<1>1. carry \in Bit /\ \A i \in 1 .. 16 : r[i] \in Bit /\ (r[i] + carry) % 2 \in Bit
  BY BitFacts DEF WordBits, Carry
<1> HIDE DEF carry
<1>2. BitCrcStep[r][bit] =
         <<r[2], r[3], r[4], (r[5] + carry) % 2, r[6], r[7], r[8], r[9], r[10], r[11],
           (r[12] + carry) % 2, r[13], r[14], r[15], r[16], carry>>
  BY DEF BitCrcStep, carry, Carry
<1>3. BitCrcStep[r][bit] \in WordBits
  BY <1>1, <1>2 DEF WordBits
<1>4. /\ BitCrcStep[r][bit][16] = carry
      /\ \A i \in 1 .. 15 : BitCrcStep[r][bit][i] =
             IF i \in {4, 11} THEN (r[i + 1] + carry) % 2 ELSE r[i + 1]
  BY <1>2
<1> QED
  BY <1>1, <1>3, <1>4 DEF carry

\* One step of both registers: a word in which the bits that are still to come are already
\* added to the top, and one that takes each bit when it comes, stay as far apart.
LEMMA StepsTogether ==
    ASSUME NEW w \in WordBits, NEW r \in WordBits, NEW ahead \in [1 .. 17 -> Bit], ahead[17] = 0,
           \A j \in 1 .. 16 : w[17 - j] = (r[j] + ahead[j]) % 2
    PROVE  \A j \in 1 .. 16 :
              CrcShift[w][17 - j] = (BitCrcStep[r][ahead[1]][j] + ahead[j + 1]) % 2
<1> DEFINE bit == ahead[1]
           carry == Carry(r, bit)
<1>1. bit \in Bit /\ carry \in Bit
  BY BitStepBits
<1>2. w[16] = carry
  <2>1. w[17 - 1] = (r[1] + ahead[1]) % 2 /\ 17 - 1 = 16
    OBVIOUS
  <2> QED
    BY <2>1 DEF Carry
<1> HIDE DEF bit, carry
<1>3. /\ BitCrcStep[r][bit][16] = carry
      /\ \A i \in 1 .. 15 : BitCrcStep[r][bit][i] =
             IF i \in {4, 11} THEN (r[i + 1] + carry) % 2 ELSE r[i + 1]
  BY <1>1, BitStepBits DEF carry
<1>4. ASSUME NEW j \in 1 .. 15
      PROVE  CrcShift[w][17 - j] = (BitCrcStep[r][bit][j] + ahead[j + 1]) % 2
  <2>1. 17 - j \in 2 .. 16 /\ (17 - j) - 1 = 17 - (j + 1) /\ j + 1 \in 1 .. 16
    OBVIOUS
  <2>2. w[17 - (j + 1)] = (r[j + 1] + ahead[j + 1]) % 2
    BY <2>1
  <2>3. r[j + 1] \in Bit /\ ahead[j + 1] \in Bit
    BY <2>1 DEF WordBits
  <2>4. CrcShift[w][17 - j] = IF 17 - j \in {6, 13} THEN (w[17 - (j + 1)] + carry) % 2
                                                      ELSE w[17 - (j + 1)]
    <3>1. PICK i \in 2 .. 16 : i = 17 - j
      BY <2>1
    <3>2. CrcShift[w][i] = IF i \in {6, 13} THEN (w[i - 1] + w[16]) % 2 ELSE w[i - 1]
      BY ShiftBits
    <3>3. i - 1 = 17 - (j + 1)
      BY <3>1
    <3> QED
      BY <1>2, <3>1, <3>2, <3>3
  <2>5. 17 - j \in {6, 13} <=> j \in {4, 11}
    OBVIOUS
  <2>6. ASSUME NEW a \in Bit, NEW b \in Bit, NEW c \in Bit
        PROVE  (((a + b) % 2) + c) % 2 = (((a + c) % 2) + b) % 2
    BY DEF Bit
  <2>7. CASE j \in {4, 11}
    <3>1. CrcShift[w][17 - j] = (((r[j + 1] + ahead[j + 1]) % 2) + carry) % 2
      BY <2>2, <2>4, <2>5, <2>7
    <3>2. BitCrcStep[r][bit][j] = (r[j + 1] + carry) % 2
      BY <1>3, <2>7
    <3> QED
      BY <1>1, <2>3, <2>6, <3>1, <3>2
  <2>8. CASE j \notin {4, 11}
    BY <1>3, <2>2, <2>4, <2>5, <2>8
  <2> QED
    BY <2>7, <2>8
<1>5. CrcShift[w][1] = (BitCrcStep[r][bit][16] + ahead[17]) % 2
  BY <1>1, <1>2, <1>3, ShiftBits DEF Bit
<1>6. ASSUME NEW j \in 1 .. 16
      PROVE  CrcShift[w][17 - j] = (BitCrcStep[r][bit][j] + ahead[j + 1]) % 2
  <2>1. CASE j = 16
    BY <1>5, <2>1
  <2>2. CASE j # 16
    <3>1. j \in 1 .. 15
      BY <2>2
    <3> QED
      BY <1>4, <3>1
  <2> QED
    BY <2>1, <2>2
<1> QED
  BY <1>6 DEF bit

\* What goes into a shift: a byte is added to the top before the first of its eight.
Fed(bytes, t, result) == IF t % 8 = 0 THEN XorHigh(result, bytes[1 + (t \div 8)]) ELSE result

\* The register after each shift.
ShiftRegister(bytes) ==
    LET result[t \in 0 .. 8 * Len(bytes)] ==
            IF t = 0 THEN AllOnes ELSE CrcShift[Fed(bytes, t - 1, result[t - 1])]
    IN result

LEMMA FedType ==
    ASSUME NEW bytes \in Seq(ByteBits), NEW t \in 0 .. 8 * Len(bytes) - 1, NEW w \in WordBits
    PROVE  Fed(bytes, t, w) \in WordBits
<1>1. 1 + (t \div 8) \in 1 .. Len(bytes)
  OBVIOUS
<1>2. bytes[1 + (t \div 8)] \in ByteBits
  BY <1>1
<1> QED
  BY <1>2, XorHighBits DEF Fed

LEMMA ShiftRegisterRuns ==
    ASSUME NEW bytes \in Seq(ByteBits)
    PROVE  /\ ShiftRegister(bytes)[0] = AllOnes
           /\ \A t \in 0 .. 8 * Len(bytes) : ShiftRegister(bytes)[t] \in WordBits
           /\ \A t \in 0 .. 8 * Len(bytes) - 1 :
                 ShiftRegister(bytes)[t + 1] = CrcShift[Fed(bytes, t, ShiftRegister(bytes)[t])]
<1>1. PICK last \in Nat : last = 8 * Len(bytes)
  OBVIOUS
<1>2. AllOnes \in WordBits
  BY WordFacts
<1> DEFINE e(f, t) == IF t = 0 THEN AllOnes
                      ELSE CrcShift[Fed(bytes, t - 1, f[t - 1])]
           steps == [t \in 1 .. last |-> [w \in WordBits |-> CrcShift[Fed(bytes, t - 1, w)]]]
           W == ShiftRegister(bytes)
<1>3. ASSUME NEW f, NEW t PROVE e(f, t) = IF t = 0 THEN AllOnes ELSE CrcShift[Fed(bytes, t - 1, f[t - 1])]
  OBVIOUS
<1>4. \A t \in 1 .. last : t - 1 \in 0 .. 8 * Len(bytes) - 1 /\ t - 1 \in 0 .. last /\ t # 0
  BY <1>1
<1>5. ASSUME NEW t \in 1 .. last, NEW w \in WordBits PROVE CrcShift[Fed(bytes, t - 1, w)] \in WordBits
  BY <1>4, FedType, ShiftBits
<1>6. /\ steps \in StepsUpTo(last, WordBits)
      /\ \A t \in 1 .. last, w \in WordBits : steps[t][w] = CrcShift[Fed(bytes, t - 1, w)]
  BY <1>5 DEF StepsUpTo
<1>7. ASSUME NEW f, f = [t \in 0 .. 8 * Len(bytes) |-> e(f, t)]
      PROVE  W = [t \in 0 .. 8 * Len(bytes) |-> e(W, t)]
  BY <1>7, Zenon DEF ShiftRegister
<1> HIDE DEF e, steps, W
<1>8. PICK f : Iterated(WordBits, AllOnes, steps, last, f)
  BY <1>2, <1>6, BoundedIterationExists
<1> USE DEF Iterated
<1>9. ASSUME NEW t \in 0 .. last PROVE f[t] = e(f, t)
  <2>1. CASE t = 0
    BY <1>3, <1>8, <2>1
  <2>2. CASE t # 0
    <3>1. t \in 1 .. last
      BY <2>2
    <3>2. f[t - 1] \in WordBits
      BY <1>4, <1>8, <3>1
    <3>3. f[t] = CrcShift[Fed(bytes, t - 1, f[t - 1])]
      BY <1>6, <1>8, <3>1, <3>2
    <3> QED
      BY <1>3, <2>2, <3>3
  <2> QED
    BY <2>1, <2>2
<1>10. f = [t \in 0 .. last |-> e(f, t)]
  <2>1. f = [t \in 0 .. last |-> f[t]]
    BY <1>8
  <2> QED
    BY <1>9, <2>1
<1>11. W = [t \in 0 .. last |-> e(W, t)]
  BY <1>1, <1>7, <1>10
<1>12. \A t \in 0 .. last : W[t] = e(W, t)
  BY <1>11
<1>13. W[0] = AllOnes
  BY <1>3, <1>12
<1>14. \A t \in 1 .. last : W[t] = CrcShift[Fed(bytes, t - 1, W[t - 1])]
  <2>1. \A t \in 1 .. last : t \in 0 .. last
    BY <1>4
  <2> QED
    BY <1>3, <1>4, <1>12, <2>1
<1>15. \A t \in 1 .. last : W[t - 1] \in WordBits => W[t] = steps[t][W[t - 1]]
  BY <1>6, <1>14
<1>16. \A t \in 0 .. last : W[t] \in WordBits
  BY <1>2, <1>6, <1>13, <1>15, BoundedIterationType
<1>17. \A t \in 0 .. last - 1 : W[t + 1] = CrcShift[Fed(bytes, t, W[t])]
  <2>1. \A t \in 0 .. last - 1 : t + 1 \in 1 .. last /\ (t + 1) - 1 = t
    BY <1>4
  <2> QED
    BY <1>14, <2>1
<1> QED
  BY <1>1, <1>13, <1>16, <1>17 DEF W

\* The eight shifts of a byte, one at a time.
LEMMA EightShifts ==
    ASSUME NEW bytes \in Seq(ByteBits), NEW n \in 1 .. Len(bytes)
    PROVE  /\ 8 * (n - 1) \in 0 .. 8 * Len(bytes) /\ 8 * n \in 0 .. 8 * Len(bytes)
           /\ ShiftRegister(bytes)[8 * n] =
                 CrcShifts(XorHigh(ShiftRegister(bytes)[8 * (n - 1)], bytes[n]))
<1> DEFINE S == ShiftRegister(bytes)
<1>1. PICK t \in Nat : t = 8 * (n - 1)
  OBVIOUS
<1>2. \A d \in 0 .. 7 : t + d \in 0 .. 8 * Len(bytes) - 1
  BY <1>1
<1>3. \A d \in 0 .. 7 : S[(t + d) + 1] = CrcShift[Fed(bytes, t + d, S[t + d])]
  BY <1>2, ShiftRegisterRuns
<1> HIDE DEF S
<1>4. Fed(bytes, t, S[t]) = XorHigh(S[t], bytes[n])
  <2>1. t % 8 = 0 /\ 1 + (t \div 8) = n
    BY <1>1
  <2> QED
    BY <2>1 DEF Fed
<1>5. \A d \in 1 .. 7 : Fed(bytes, t + d, S[t + d]) = S[t + d]
  <2>1. \A d \in 1 .. 7 : (t + d) % 8 # 0
    BY <1>1
  <2> QED
    BY <2>1 DEF Fed
<1>6. S[t + 1] = CrcShift[XorHigh(S[t], bytes[n])]
  <2>1. S[(t + 0) + 1] = CrcShift[Fed(bytes, t + 0, S[t + 0])] /\ t + 0 = t
    BY <1>3
  <2> QED
    BY <1>4, <2>1
<1>7. \A d \in 1 .. 7 : S[(t + d) + 1] = CrcShift[S[t + d]]
  BY <1>3, <1>5
<1>8. /\ S[t + 2] = CrcShift[S[t + 1]] /\ S[t + 3] = CrcShift[S[t + 2]]
      /\ S[t + 4] = CrcShift[S[t + 3]] /\ S[t + 5] = CrcShift[S[t + 4]]
      /\ S[t + 6] = CrcShift[S[t + 5]] /\ S[t + 7] = CrcShift[S[t + 6]]
      /\ S[t + 8] = CrcShift[S[t + 7]]
  <2>1. /\ (t + 1) + 1 = t + 2 /\ (t + 2) + 1 = t + 3 /\ (t + 3) + 1 = t + 4 /\ (t + 4) + 1 = t + 5
        /\ (t + 5) + 1 = t + 6 /\ (t + 6) + 1 = t + 7 /\ (t + 7) + 1 = t + 8
    OBVIOUS
  <2> QED
    BY <1>7, <2>1
<1>9. S[t + 8] = CrcShifts(XorHigh(S[t], bytes[n]))
  BY <1>6, <1>8, Zenon DEF CrcShifts
<1>10. t + 8 = 8 * n /\ 8 * (n - 1) \in 0 .. 8 * Len(bytes) /\ 8 * n \in 0 .. 8 * Len(bytes)
  BY <1>1
<1> QED
  BY <1>1, <1>9, <1>10 DEF S

\* crc16 sees the register only after the eight shifts of a byte.
LEMMA CrcRegisterRuns ==
    ASSUME NEW bytes \in Seq(ByteBits)
    PROVE  CrcRegister(bytes)[Len(bytes)] = ShiftRegister(bytes)[8 * Len(bytes)]
<1> DEFINE e(f, n) == IF n = 0 THEN AllOnes ELSE CrcShifts(XorHigh(f[n - 1], bytes[n]))
           S == ShiftRegister(bytes)
           W == CrcRegister(bytes)
           g == [n \in 0 .. Len(bytes) |-> S[8 * n]]
<1>1. \A f, n : e(f, n) = IF n = 0 THEN AllOnes ELSE CrcShifts(XorHigh(f[n - 1], bytes[n]))
  OBVIOUS
<1>2. ASSUME NEW f, f = [n \in 0 .. Len(bytes) |-> e(f, n)]
      PROVE  W = [n \in 0 .. Len(bytes) |-> e(W, n)]
  BY <1>2, Zenon DEF CrcRegister
<1>3. S[0] = AllOnes /\ \A n \in 1 .. Len(bytes) : S[8 * n] = CrcShifts(XorHigh(S[8 * (n - 1)], bytes[n]))
  BY ShiftRegisterRuns, EightShifts
<1> HIDE DEF e, S, W
<1>4. ASSUME NEW n \in 0 .. Len(bytes) PROVE g[n] = e(g, n)
  <2>1. CASE n = 0
    BY <1>1, <1>3, <2>1
  <2>2. CASE n # 0
    <3>1. n \in 1 .. Len(bytes) /\ n - 1 \in 0 .. Len(bytes)
      BY <2>2
    <3>2. g[n] = S[8 * n] /\ g[n - 1] = S[8 * (n - 1)]
      BY <3>1
    <3> QED
      BY <1>1, <1>3, <2>2, <3>1, <3>2
  <2> QED
    BY <2>1, <2>2
<1>5. g = [n \in 0 .. Len(bytes) |-> e(g, n)]
  BY <1>4
<1>6. W = [n \in 0 .. Len(bytes) |-> e(W, n)]
  BY <1>2, <1>5
<1>7. W[0] = AllOnes /\ \A n \in 1 .. Len(bytes) : W[n] = CrcShifts(XorHigh(W[n - 1], bytes[n]))
  <2>1. \A n \in 0 .. Len(bytes) : W[n] = e(W, n)
    BY <1>6
  <2>2. 0 \in 0 .. Len(bytes) /\ \A n \in 1 .. Len(bytes) : n \in 0 .. Len(bytes) /\ n # 0
    OBVIOUS
  <2> QED
    BY <1>1, <2>1, <2>2
<1> DEFINE T == {n \in Nat : n <= Len(bytes) => W[n] = S[8 * n]}
<1>8. 0 \in T
  BY <1>3, <1>7
<1>9. ASSUME NEW n \in T PROVE n + 1 \in T
  <2>1. n \in Nat /\ n + 1 \in Nat /\ (n + 1) - 1 = n
    OBVIOUS
  <2>2. ASSUME n + 1 <= Len(bytes) PROVE W[n + 1] = S[8 * (n + 1)]
    <3>1. n + 1 \in 1 .. Len(bytes) /\ W[n] = S[8 * n]
      BY <2>1, <2>2
    <3> QED
      BY <1>3, <1>7, <2>1, <3>1
  <2> QED
    BY <2>1, <2>2
<1>10. T \in SUBSET Nat
  OBVIOUS
<1>11. T = Nat
  <2> HIDE DEF T
  <2> QED
    BY <1>8, <1>9, <1>10, SetInduction
<1>12. Len(bytes) \in T
  BY <1>11
<1> QED
  BY <1>12 DEF S, W

Ones == [i \in 1 .. 16 |-> 1]

LEMMA OnesType == Ones \in WordBits /\ \A i \in 1 .. 16 : Ones[i] = 1
BY DEF Ones, WordBits, Bit

LEMMA BitCrcRegisterRuns ==
    ASSUME NEW bits \in Seq(Bit)
    PROVE  /\ BitCrcRegister(bits)[0] = Ones
           /\ \A t \in 0 .. Len(bits) : BitCrcRegister(bits)[t] \in WordBits
           /\ \A t \in 0 .. Len(bits) - 1 :
                 BitCrcRegister(bits)[t + 1] = BitCrcStep[BitCrcRegister(bits)[t]][bits[t + 1]]
<1>1. PICK last \in Nat : last = Len(bits)
  OBVIOUS
<1>2. Ones \in WordBits
  BY OnesType
<1> DEFINE e(f, t) == IF t = 0 THEN Ones
                      ELSE BitCrcStep[f[t - 1]][bits[t]]
           steps == [t \in 1 .. last |-> [w \in WordBits |-> BitCrcStep[w][bits[t]]]]
           W == BitCrcRegister(bits)
<1>3. ASSUME NEW f, NEW t PROVE e(f, t) = IF t = 0 THEN Ones ELSE BitCrcStep[f[t - 1]][bits[t]]
  OBVIOUS
<1>4. \A t \in 1 .. last : bits[t] \in Bit /\ t - 1 \in 0 .. last /\ t # 0
  BY <1>1
<1>5. ASSUME NEW t \in 1 .. last, NEW w \in WordBits PROVE BitCrcStep[w][bits[t]] \in WordBits
  BY <1>4, BitStepBits
<1>6. /\ steps \in StepsUpTo(last, WordBits)
      /\ \A t \in 1 .. last, w \in WordBits : steps[t][w] = BitCrcStep[w][bits[t]]
  BY <1>5 DEF StepsUpTo
<1>7. ASSUME NEW f, f = [t \in 0 .. Len(bits) |-> e(f, t)]
      PROVE  W = [t \in 0 .. Len(bits) |-> e(W, t)]
  BY <1>7, Zenon DEF BitCrcRegister, Ones
<1> HIDE DEF e, steps, W
<1>8. PICK f : Iterated(WordBits, Ones, steps, last, f)
  BY <1>2, <1>6, BoundedIterationExists
<1> USE DEF Iterated
<1>9. ASSUME NEW t \in 0 .. last PROVE f[t] = e(f, t)
  <2>1. CASE t = 0
    BY <1>3, <1>8, <2>1
  <2>2. CASE t # 0
    <3>1. t \in 1 .. last
      BY <2>2
    <3>2. f[t - 1] \in WordBits
      BY <1>4, <1>8, <3>1
    <3>3. f[t] = BitCrcStep[f[t - 1]][bits[t]]
      BY <1>6, <1>8, <3>1, <3>2
    <3> QED
      BY <1>3, <2>2, <3>3
  <2> QED
    BY <2>1, <2>2
<1>10. f = [t \in 0 .. last |-> e(f, t)]
  <2>1. f = [t \in 0 .. last |-> f[t]]
    BY <1>8
  <2> QED
    BY <1>9, <2>1
<1>11. W = [t \in 0 .. last |-> e(W, t)]
  BY <1>1, <1>7, <1>10
<1>12. \A t \in 0 .. last : W[t] = e(W, t)
  BY <1>11
<1>13. W[0] = Ones
  BY <1>3, <1>12
<1>14. \A t \in 1 .. last : W[t] = BitCrcStep[W[t - 1]][bits[t]]
  <2>1. \A t \in 1 .. last : t \in 0 .. last
    BY <1>4
  <2> QED
    BY <1>3, <1>4, <1>12, <2>1
<1>15. \A t \in 1 .. last : W[t - 1] \in WordBits => W[t] = steps[t][W[t - 1]]
  BY <1>6, <1>14
<1>16. \A t \in 0 .. last : W[t] \in WordBits
  BY <1>2, <1>6, <1>13, <1>15, BoundedIterationType
<1>17. \A t \in 0 .. last - 1 : W[t + 1] = BitCrcStep[W[t]][bits[t + 1]]
  <2>1. \A t \in 0 .. last - 1 : t + 1 \in 1 .. last /\ (t + 1) - 1 = t
    BY <1>4
  <2> QED
    BY <1>14, <2>1
<1> QED
  BY <1>1, <1>13, <1>16, <1>17 DEF W

\* What the word has of the byte under way and the bit-wise register has not seen yet,
\* once the byte is added to the word, and before.
Ahead(bits, t) == [j \in 1 .. 17 |-> IF j + (t % 8) <= 8 THEN bits[t + j] ELSE 0]
Owed(bits, t) == [j \in 1 .. 16 |-> IF t % 8 = 0 THEN 0 ELSE Ahead(bits, t)[j]]

LEMMA AheadFacts ==
    ASSUME NEW bits \in Seq(Bit), NEW n \in Nat, Len(bits) = 8 * n, NEW t \in 0 .. 8 * n - 1
    PROVE  /\ Ahead(bits, t) \in [1 .. 17 -> Bit] /\ Ahead(bits, t)[17] = 0
           /\ Ahead(bits, t)[1] = bits[t + 1] /\ bits[t + 1] \in Bit
           /\ \A j \in 1 .. 16 : Owed(bits, t + 1)[j] = Ahead(bits, t)[j + 1]
           /\ t % 8 # 0 => \A j \in 1 .. 16 : Owed(bits, t)[j] = Ahead(bits, t)[j]
<1>1. \A j \in 1 .. 17 : j + (t % 8) <= 8 => t + j \in 1 .. 8 * n
  OBVIOUS
<1>2. \A j \in 1 .. 17 : (IF j + (t % 8) <= 8 THEN bits[t + j] ELSE 0) \in Bit
  BY <1>1 DEF Bit
<1>3. Ahead(bits, t) \in [1 .. 17 -> Bit]
  BY <1>2 DEF Ahead
<1>4. Ahead(bits, t)[17] = 0 /\ Ahead(bits, t)[1] = bits[t + 1] /\ bits[t + 1] \in Bit
  BY DEF Ahead
<1>5. ASSUME NEW j \in 1 .. 16 PROVE Owed(bits, t + 1)[j] = Ahead(bits, t)[j + 1]
  <2>1. j + 1 \in 1 .. 17 /\ j \in 1 .. 17 /\ (t + 1) + j = t + (j + 1)
    OBVIOUS
  <2>2. CASE (t + 1) % 8 = 0
    <3>1. ~((j + 1) + (t % 8) <= 8)
      BY <2>2
    <3> QED
      BY <2>1, <2>2, <3>1 DEF Owed, Ahead
  <2>3. CASE (t + 1) % 8 # 0
    <3>1. (t + 1) % 8 = (t % 8) + 1
      BY <2>3
    <3>2. (j + 1) + (t % 8) <= 8 <=> j + ((t + 1) % 8) <= 8
      BY <3>1
    <3> QED
      BY <2>1, <2>3, <3>2 DEF Owed, Ahead
  <2> QED
    BY <2>2, <2>3
<1>6. t % 8 # 0 => \A j \in 1 .. 16 : Owed(bits, t)[j] = Ahead(bits, t)[j]
  BY DEF Owed
<1> QED
  BY <1>3, <1>4, <1>5, <1>6

LEMMA TopHalf ==
    ASSUME NEW j \in 1 .. 16, NEW k \in 1 .. 16, k = 17 - j, j <= 8
    PROVE  ~(k <= 8) /\ k - 8 = 9 - j /\ j \in 1 .. 8
OBVIOUS

LEMMA FedTogether ==
    ASSUME NEW bytes \in Seq(ByteBits), NEW bits \in Seq(Bit), Len(bits) = 8 * Len(bytes),
           \A i \in 1 .. Len(bytes), b \in 1 .. 8 : bits[8 * (i - 1) + b] = bytes[i][9 - b],
           NEW t \in 0 .. 8 * Len(bytes) - 1, NEW w \in WordBits, NEW r \in WordBits,
           \A j \in 1 .. 16 : w[17 - j] = (r[j] + Owed(bits, t)[j]) % 2
    PROVE  \A j \in 1 .. 16 : Fed(bytes, t, w)[17 - j] = (r[j] + Ahead(bits, t)[j]) % 2
<1> SUFFICES ASSUME NEW j \in 1 .. 16
             PROVE  Fed(bytes, t, w)[17 - j] = (r[j] + Ahead(bits, t)[j]) % 2
  OBVIOUS
<1>1. CASE t % 8 # 0
  <2>1. Fed(bytes, t, w) = w
    BY <1>1 DEF Fed
  <2>2. Owed(bits, t)[j] = Ahead(bits, t)[j]
    BY <1>1 DEF Owed
  <2> QED
    BY <2>1, <2>2
<1>2. CASE t % 8 = 0
  <2>1. PICK i \in 1 .. Len(bytes) : i = 1 + (t \div 8) /\ t = 8 * (i - 1)
    BY <1>2, SMTT(20)
  <2>2. Fed(bytes, t, w) = XorHigh(w, bytes[i])
    BY <1>2, <2>1 DEF Fed
  <2>3. w[17 - j] = r[j] /\ r[j] \in Bit
    <3>1. Owed(bits, t)[j] = 0
      BY <1>2 DEF Owed
    <3>2. w[17 - j] = (r[j] + 0) % 2 /\ r[j] \in Bit
      BY <3>1 DEF WordBits
    <3> QED
      BY <3>2, BitFacts
  <2>4. PICK k \in 1 .. 16 : k = 17 - j
    OBVIOUS
  <2>5. XorHigh(w, bytes[i])[k] = IF k <= 8 THEN w[k] ELSE (w[k] + bytes[i][k - 8]) % 2
    <3>1. bytes[i] \in ByteBits
      BY SMTT(20)
    <3> QED
      BY <3>1, XorHighBits
  <2>6. CASE j <= 8
    <3>1. ~(k <= 8) /\ k - 8 = 9 - j /\ j \in 1 .. 8
      BY <2>4, <2>6, TopHalf
    <3>2. bits[8 * (i - 1) + j] = bytes[i][9 - j]
      BY <3>1
    <3>3. Ahead(bits, t)[j] = bits[t + j]
      BY <1>2, <2>6 DEF Ahead
    <3>4. XorHigh(w, bytes[i])[17 - j] = (r[j] + bytes[i][9 - j]) % 2
      BY <2>3, <2>4, <2>5, <3>1
    <3> QED
      BY <2>1, <2>2, <3>2, <3>3, <3>4
  <2>7. CASE ~(j <= 8)
    <3>1. k <= 8
      BY <2>4, <2>7
    <3>2. Ahead(bits, t)[j] = 0
      <4>1. j \in 1 .. 17 /\ ~(j + (t % 8) <= 8)
        BY <1>2, <2>7
      <4> QED
        BY <4>1 DEF Ahead
    <3>3. XorHigh(w, bytes[i])[17 - j] = r[j]
      BY <2>3, <2>4, <2>5, <3>1
    <3>4. (r[j] + 0) % 2 = r[j]
      BY <2>3, BitFacts
    <3> QED
      BY <2>2, <3>2, <3>3, <3>4
  <2> QED
    BY <2>6, <2>7
<1> QED
  BY <1>1, <1>2

\* mkh_protocol.c:82, crc16: it adds a byte to the top of its register and shifts eight times;
\* a hub shifts once for every bit it hears and adds it on the way.  Both end with the same
\* register, whatever the bytes are, when each byte arrives top bit first.
THEOREM CrcIsBitCrc ==
    ASSUME NEW bytes \in Seq(ByteBits), NEW bits \in Seq(Bit), Len(bits) = 8 * Len(bytes),
           \A i \in 1 .. Len(bytes), b \in 1 .. 8 : bits[8 * (i - 1) + b] = bytes[i][9 - b]
    PROVE  /\ CrcRegister(bytes)[Len(bytes)] \in WordBits
           /\ BitCrc(bits) \in WordBits
           /\ \A j \in 1 .. 16 : CrcRegister(bytes)[Len(bytes)][17 - j] = BitCrc(bits)[j]
<1>1. PICK n \in Nat : n = Len(bytes)
  OBVIOUS
<1> DEFINE W == ShiftRegister(bytes)
           R == BitCrcRegister(bits)
           J(t) == \A j \in 1 .. 16 : W[t][17 - j] = (R[t][j] + Owed(bits, t)[j]) % 2
           T == {t \in Nat : t <= 8 * n => J(t)}
<1>2. /\ W[0] = AllOnes /\ \A t \in 0 .. 8 * n : W[t] \in WordBits
      /\ \A t \in 0 .. 8 * n - 1 : W[t + 1] = CrcShift[Fed(bytes, t, W[t])]
  BY <1>1, ShiftRegisterRuns
<1>3. /\ R[0] = Ones /\ \A t \in 0 .. 8 * n : R[t] \in WordBits
      /\ \A t \in 0 .. 8 * n - 1 : R[t + 1] = BitCrcStep[R[t]][bits[t + 1]]
  BY <1>1, BitCrcRegisterRuns
<1> HIDE DEF W, R
<1>4. 0 \in T
  <2>1. ASSUME NEW j \in 1 .. 16 PROVE W[0][17 - j] = (R[0][j] + Owed(bits, 0)[j]) % 2
    <3>1. 17 - j \in 1 .. 16
      OBVIOUS
    <3>2. W[0][17 - j] = 1 /\ R[0][j] = 1
      BY <1>2, <1>3, <3>1, WordFacts, OnesType
    <3>3. Owed(bits, 0)[j] = 0
      BY DEF Owed
    <3> QED
      BY <3>2, <3>3
  <2> QED
    BY <2>1
<1>5. ASSUME NEW t \in T PROVE t + 1 \in T
  <2>1. t \in Nat /\ t + 1 \in Nat
    OBVIOUS
  <2>2. ASSUME t + 1 <= 8 * n PROVE J(t + 1)
    <3>1. t \in 0 .. 8 * n - 1 /\ t \in 0 .. 8 * n /\ t <= 8 * n
      BY <2>1, <2>2
    <3> DEFINE w == W[t]
               r == R[t]
               fed == Fed(bytes, t, w)
               ahead == Ahead(bits, t)
    <3>2. w \in WordBits /\ r \in WordBits
      BY <1>2, <1>3, <3>1
    <3>3. \A j \in 1 .. 16 : w[17 - j] = (r[j] + Owed(bits, t)[j]) % 2
      BY <3>1
    <3> HIDE DEF w, r
    <3>4. \A j \in 1 .. 16 : fed[17 - j] = (r[j] + ahead[j]) % 2
      BY <1>1, <3>1, <3>2, <3>3, FedTogether
    <3>5. fed \in WordBits
      BY <1>1, <3>1, <3>2, FedType
    <3>6. /\ ahead \in [1 .. 17 -> Bit] /\ ahead[17] = 0 /\ ahead[1] = bits[t + 1]
          /\ \A j \in 1 .. 16 : Owed(bits, t + 1)[j] = ahead[j + 1]
      BY <1>1, <3>1, AheadFacts
    <3> HIDE DEF fed, ahead
    <3>7. \A j \in 1 .. 16 : CrcShift[fed][17 - j] = (BitCrcStep[r][ahead[1]][j] + ahead[j + 1]) % 2
      BY <3>2, <3>4, <3>5, <3>6, StepsTogether
    <3>8. W[t + 1] = CrcShift[fed] /\ R[t + 1] = BitCrcStep[r][ahead[1]]
      BY <1>2, <1>3, <3>1, <3>6 DEF fed, w, r
    <3> QED
      BY <3>6, <3>7, <3>8
  <2> QED
    BY <2>1, <2>2
<1>6. T \in SUBSET Nat
  OBVIOUS
<1>7. T = Nat
  <2> HIDE DEF T
  <2> QED
    BY <1>4, <1>5, <1>6, SetInduction
<1>8. \A j \in 1 .. 16 : W[8 * n][17 - j] = (R[8 * n][j] + Owed(bits, 8 * n)[j]) % 2
  <2>1. PICK m \in Nat : m = 8 * n
    OBVIOUS
  <2>2. m \in T
    BY <1>7
  <2>3. m <= 8 * n
    BY <2>1
  <2>4. J(m)
    BY <2>2, <2>3
  <2> QED
    BY <2>1, <2>4
<1>9. ASSUME NEW j \in 1 .. 16 PROVE W[8 * n][17 - j] = R[8 * n][j]
  <2>1. W[8 * n][17 - j] = (R[8 * n][j] + Owed(bits, 8 * n)[j]) % 2
    BY <1>8
  <2>2. Owed(bits, 8 * n)[j] = 0
    BY DEF Owed
  <2>3. R[8 * n][j] \in Bit
    <3>1. 8 * n \in 0 .. 8 * n
      OBVIOUS
    <3>2. R[8 * n] \in WordBits
      BY <1>3, <3>1
    <3> QED
      BY <3>2 DEF WordBits
  <2>4. W[8 * n][17 - j] = (R[8 * n][j] + 0) % 2
    BY <2>1, <2>2
  <2> QED
    BY <2>3, <2>4, BitZero
<1>10. BitCrc(bits) = R[8 * n]
  BY <1>1 DEF BitCrc, R
<1>11. CrcRegister(bytes)[Len(bytes)] = W[8 * n] /\ W[8 * n] \in WordBits /\ R[8 * n] \in WordBits
  <2>1. 8 * n \in 0 .. 8 * n
    OBVIOUS
  <2>2. CrcRegister(bytes)[Len(bytes)] = W[8 * n]
    BY <1>1, CrcRegisterRuns DEF W
  <2> QED
    BY <1>2, <1>3, <2>1, <2>2
<1> QED
  BY <1>9, <1>10, <1>11

-----------------------------------------------------------------------------
\* Bytes and the bits of a stream

LEMMA PlaceOf ==
    ASSUME NEW n \in Nat, NEW k \in 1 .. 8 * n
    PROVE  \E i \in 1 .. n, b \in 1 .. 8 : k = 8 * (i - 1) + b
<1>1. 1 + ((k - 1) \div 8) \in 1 .. n /\ 1 + ((k - 1) % 8) \in 1 .. 8
  OBVIOUS
<1>2. k = 8 * ((1 + ((k - 1) \div 8)) - 1) + (1 + ((k - 1) % 8))
  OBVIOUS
<1> QED
  BY <1>1, <1>2

LEMMA PlaceParts ==
    ASSUME NEW n \in Nat, NEW i \in 1 .. n, NEW b \in 1 .. 8
    PROVE  /\ 8 * (i - 1) + b \in 1 .. 8 * n
           /\ 1 + ((8 * (i - 1) + b - 1) \div 8) = i
           /\ (8 * (i - 1) + b - 1) % 8 = b - 1
OBVIOUS

\* Two strings after each other, and a part of one.
Strings(S, n) == [1 .. n -> S]
IsJoined(S, whole, s, m, t, n) ==
    /\ whole \in Strings(S, m + n)
    /\ \A i \in 1 .. m : whole[i] = s[i]
    /\ \A i \in 1 .. n : whole[m + i] = t[i]
IsPart(S, part, s, from, n) ==
    part \in Strings(S, n) /\ \A i \in 1 .. n : part[i] = s[from + i]

LEMMA JoinedStrings ==
    ASSUME NEW S, NEW m \in Nat, NEW n \in Nat, NEW s \in Strings(S, m), NEW t \in Strings(S, n)
    PROVE  IsJoined(S, s \o t, s, m, t, n)
<1>1. s \in Seq(S) /\ Len(s) = m /\ t \in Seq(S) /\ Len(t) = n
  <2>1. s \in Seq(S) /\ Len(s) = m
    BY DEF Strings
  <2>2. t \in Seq(S) /\ Len(t) = n
    BY DEF Strings
  <2> QED
    BY <2>1, <2>2
<1>2. s \o t \in Seq(S) /\ Len(s \o t) = m + n
  BY <1>1, ConcatProperties
<1>3. \A i \in 1 .. m + n : (s \o t)[i] = IF i <= m THEN s[i] ELSE t[i - m]
  BY <1>1, ConcatProperties
<1>4. ASSUME NEW i \in 1 .. n PROVE (s \o t)[m + i] = t[i]
  <2>1. PICK k \in 1 .. m + n : k = m + i
    OBVIOUS
  <2>2. ~(k <= m) /\ k - m = i
    BY <2>1
  <2> QED
    BY <1>3, <2>1, <2>2
<1>5. s \o t \in Strings(S, m + n)
  <2>1. PICK last \in Nat : last = m + n
    OBVIOUS
  <2>2. PICK whole \in Seq(S) : whole = s \o t /\ Len(whole) = last
    BY <1>2, <2>1
  <2>3. whole \in [1 .. last -> S]
    BY <2>2, FunctionOf
  <2> QED
    BY <2>1, <2>2, <2>3 DEF Strings
<1>6. \A i \in 1 .. m : i \in 1 .. m + n /\ i <= m
  OBVIOUS
<1> QED
  BY <1>3, <1>4, <1>5, <1>6 DEF IsJoined

\* The first part of a sequence of bits, or a part in the middle.
LEMMA PartOf ==
    ASSUME NEW S, NEW len \in Nat, NEW s \in [1 .. len -> S], NEW from \in Nat, NEW n \in Nat, from + n <= len
    PROVE  /\ SubSeq(s, from + 1, from + n) \in [1 .. n -> S]
           /\ \A i \in 1 .. n : SubSeq(s, from + 1, from + n)[i] = s[from + i]
<1>1. PICK a \in Int, b \in Int : a = from + 1 /\ b = from + n
  OBVIOUS
<1>2. \A i \in a .. b : s[i] \in S
  BY <1>1
<1>3. /\ SubSeq(s, a, b) \in Seq(S)
      /\ Len(SubSeq(s, a, b)) = IF a <= b THEN b - a + 1 ELSE 0
      /\ \A i \in 1 .. b - a + 1 : SubSeq(s, a, b)[i] = s[a + i - 1]
  BY <1>2, SubSeqProperties
<1>4. b - a + 1 = n /\ (IF a <= b THEN b - a + 1 ELSE 0) = n
  BY <1>1
<1>5. \A i \in 1 .. n : a + i - 1 = from + i
  BY <1>1
<1>6. PICK part \in Seq(S) : part = SubSeq(s, a, b) /\ Len(part) = n
  BY <1>3, <1>4
<1>7. part \in [1 .. n -> S]
  BY <1>6, FunctionOf
<1>8. \A i \in 1 .. n : part[i] = s[from + i]
  BY <1>3, <1>4, <1>5, <1>6
<1> QED
  BY <1>1, <1>6, <1>7, <1>8

LEMMA PartOfString ==
    ASSUME NEW S, NEW len \in Nat, NEW s \in Strings(S, len), NEW from \in Nat, NEW n \in Nat,
           from + n <= len, NEW a, NEW b, a = from + 1, b = from + n
    PROVE  IsPart(S, SubSeq(s, a, b), s, from, n)
BY PartOf DEF Strings, IsPart

-----------------------------------------------------------------------------
\* The checksum of a telegram

LEMMA SeedFacts ==
    /\ \A i \in 1 .. 5 : 6 - i \in 1 .. 5 /\ kSeed[6 - i] \in Nat /\ Bits(kSeed[6 - i], 8) \in ByteBits
    /\ \A i \in 1 .. 3 : kHeader[i] \in Nat /\ Bits(kHeader[i], 8) \in ByteBits
<1>1. \A i \in 1 .. 5 : kSeed[i] \in Nat
  BY DEF kSeed
<1>2. \A i \in 1 .. 3 : kHeader[i] \in Nat
  BY DEF kHeader
<1>3. \A i \in 1 .. 5 : 6 - i \in 1 .. 5
  OBVIOUS
<1>4. ASSUME NEW v \in Nat PROVE Bits(v, 8) \in ByteBits
  BY BitsType DEF ByteBits
<1> QED
  BY <1>1, <1>2, <1>3, <1>4

LEMMA ReverseByte ==
    ASSUME NEW byte \in ByteBits
    PROVE  reverse_bits(byte) \in ByteBits /\ \A b \in 1 .. 8 : reverse_bits(byte)[b] = byte[9 - b]
<1>1. byte \in [1 .. 8 -> Bit]
  BY DEF ByteBits
<1>2. /\ reverse_bits(byte) \in [1 .. 8 -> Bit]
      /\ \A b \in 1 .. 8 : reverse_bits(byte)[b] = byte[8 + 1 - b]
  BY <1>1, ReverseType
<1>3. \A b \in 1 .. 8 : 8 + 1 - b = 9 - b
  OBVIOUS
<1> QED
  BY <1>2, <1>3 DEF ByteBits

LEMMA FixedBytes ==
    /\ Header \in [1 .. 3 -> ByteBits]
    /\ \A i \in 1 .. 3, b \in 1 .. 8 : Header[i][b] = Bits(kHeader[i], 8)[9 - b]
    /\ Address \in [1 .. 5 -> ByteBits]
    /\ \A i \in 1 .. 5, b \in 1 .. 8 : Address[i][b] = Bits(kSeed[6 - i], 8)[9 - b]
<1>1. ASSUME NEW i \in 1 .. 3
      PROVE  Header[i] \in ByteBits /\ \A b \in 1 .. 8 : Header[i][b] = Bits(kHeader[i], 8)[9 - b]
  BY SeedFacts, ReverseByte DEF Header
<1>2. ASSUME NEW i \in 1 .. 5
      PROVE  Address[i] \in ByteBits /\ \A b \in 1 .. 8 : Address[i][b] = Bits(kSeed[6 - i], 8)[9 - b]
  BY SeedFacts, ReverseByte DEF Address
<1>3. Header = [i \in 1 .. 3 |-> Header[i]] /\ Address = [i \in 1 .. 5 |-> Address[i]]
  BY DEF Header, Address
<1> QED
  BY <1>1, <1>2, <1>3

LEMMA CrcInputBytes ==
    ASSUME NEW n \in Nat, NEW data \in [1 .. n -> ByteBits]
    PROVE  /\ CrcInput(data) \in Seq(ByteBits) /\ Len(CrcInput(data)) = n + 5
           /\ \A i \in 1 .. 5, b \in 1 .. 8 : CrcInput(data)[i][9 - b] = Address[i][b]
           /\ \A i \in 1 .. n, b \in 1 .. 8 : CrcInput(data)[5 + i][9 - b] = data[i][b]
<1> DEFINE seed == [i \in 1 .. 5 |-> Bits(kSeed[6 - i], 8)]
           mirrored == [i \in 1 .. n |-> reverse_bits(data[i])]
<1>1. Len(data) = n
  OBVIOUS
<1>2. seed \in [1 .. 5 -> ByteBits] /\ \A i \in 1 .. 5 : seed[i] = Bits(kSeed[6 - i], 8)
  BY SeedFacts
<1>3. mirrored \in [1 .. n -> ByteBits] /\ \A i \in 1 .. n : mirrored[i] = reverse_bits(data[i])
  BY ReverseByte
<1>4. CrcInput(data) = seed \o mirrored
  BY <1>1 DEF CrcInput
<1> HIDE DEF seed, mirrored
<1>5. /\ \A i \in 1 .. 5 : (seed \o mirrored)[i] = seed[i]
      /\ \A i \in 1 .. n : (seed \o mirrored)[5 + i] = mirrored[i]
  <2>1. PICK m \in Nat : m = 5
    OBVIOUS
  <2>2. seed \in Strings(ByteBits, m) /\ mirrored \in Strings(ByteBits, n)
    BY <1>2, <1>3, <2>1 DEF Strings
  <2>3. IsJoined(ByteBits, seed \o mirrored, seed, m, mirrored, n)
    BY <2>2, JoinedStrings
  <2> QED
    BY <2>1, <2>3 DEF IsJoined
<1>6. seed \o mirrored \in Seq(ByteBits) /\ Len(seed \o mirrored) = n + 5
  <2>1. seed \in Seq(ByteBits) /\ Len(seed) = 5
    <3>1. PICK m \in Nat : m = 5
      OBVIOUS
    <3>2. seed \in [1 .. m -> ByteBits]
      BY <1>2, <3>1
    <3> QED
      BY <3>1, <3>2, SequenceOf
  <2>2. mirrored \in Seq(ByteBits) /\ Len(mirrored) = n
    BY <1>3, SequenceOf
  <2>3. seed \o mirrored \in Seq(ByteBits) /\ Len(seed \o mirrored) = Len(seed) + Len(mirrored)
    BY <2>1, <2>2, ConcatProperties
  <2> QED
    BY <2>1, <2>2, <2>3
<1>7. ASSUME NEW i \in 1 .. 5, NEW b \in 1 .. 8 PROVE CrcInput(data)[i][9 - b] = Address[i][b]
  <2>1. CrcInput(data)[i] = Bits(kSeed[6 - i], 8)
    BY <1>2, <1>4, <1>5
  <2>2. Address[i][b] = Bits(kSeed[6 - i], 8)[9 - b]
    BY FixedBytes
  <2> QED
    BY <2>1, <2>2
<1>8. ASSUME NEW i \in 1 .. n, NEW b \in 1 .. 8 PROVE CrcInput(data)[5 + i][9 - b] = data[i][b]
  <2>1. 9 - b \in 1 .. 8 /\ 9 - (9 - b) = b /\ data[i] \in ByteBits
    OBVIOUS
  <2>2. reverse_bits(data[i])[9 - b] = data[i][9 - (9 - b)]
    BY <2>1, ReverseByte
  <2> QED
    BY <1>3, <1>4, <1>5, <2>1, <2>2
<1> QED
  BY <1>4, <1>6, <1>7, <1>8

LEMMA InvertedMirror ==
    ASSUME NEW r \in WordBits
    PROVE  /\ Xor(reverse_bits(r), AllOnes) \in WordBits
           /\ \A j \in 1 .. 16 : Xor(reverse_bits(r), AllOnes)[j] = 1 - r[17 - j]
<1>1. r \in [1 .. 16 -> Bit] /\ AllOnes \in [1 .. 16 -> Bit] /\ \A i \in 1 .. 16 : AllOnes[i] = 1
  BY WordFacts DEF WordBits
<1>2. /\ reverse_bits(r) \in [1 .. 16 -> Bit]
      /\ \A j \in 1 .. 16 : reverse_bits(r)[j] = r[16 + 1 - j]
  BY <1>1, ReverseType
<1>3. /\ Xor(reverse_bits(r), AllOnes) \in WordBits
      /\ \A j \in 1 .. 16 : Xor(reverse_bits(r), AllOnes)[j] = (reverse_bits(r)[j] + AllOnes[j]) % 2
  <2>1. reverse_bits(r) \in WordBits /\ AllOnes \in WordBits
    BY <1>1, <1>2 DEF WordBits
  <2> QED
    BY <2>1, XorWord
<1>4. ASSUME NEW j \in 1 .. 16 PROVE Xor(reverse_bits(r), AllOnes)[j] = 1 - r[17 - j]
  <2>1. 16 + 1 - j = 17 - j /\ 17 - j \in 1 .. 16
    OBVIOUS
  <2>2. reverse_bits(r)[j] = r[17 - j] /\ r[17 - j] \in Bit
    BY <1>1, <1>2, <2>1
  <2>3. (r[17 - j] + 1) % 2 = 1 - r[17 - j]
    BY <2>2 DEF Bit
  <2> QED
    BY <1>1, <1>3, <2>2, <2>3
<1> QED
  BY <1>3, <1>4 DEF WordBits

LEMMA FiveMoreRange ==
    ASSUME NEW n \in Nat
    PROVE  \A i \in 1 .. n + 5 : i \in Nat /\ 1 <= i /\ i <= n + 5
OBVIOUS

\* crc16 of a telegram is the inverted checksum a hub computes over the address and the
\* telegram in the order in which their bits arrive.
LEMMA ChecksumType ==
    ASSUME NEW n \in Nat, NEW data \in [1 .. n -> ByteBits]
    PROVE  crc16(data) \in WordBits
<1> DEFINE bytes == CrcInput(data)
           r == CrcRegister(bytes)[Len(bytes)]
<1>1. bytes \in Seq(ByteBits) /\ Len(bytes) = n + 5
  BY CrcInputBytes
<1>2. 8 * Len(bytes) \in 0 .. 8 * Len(bytes)
  BY <1>1
<1>3. r \in WordBits
  BY <1>1, <1>2, CrcRegisterRuns, ShiftRegisterRuns
<1>4. crc16(data) = Xor(reverse_bits(r), AllOnes)
  BY DEF crc16
<1> HIDE DEF r
<1> QED
  BY <1>3, <1>4, InvertedMirror

LEMMA ChecksumHeard ==
    ASSUME NEW n \in Nat, NEW data \in [1 .. n -> ByteBits], NEW s \in [1 .. 8 * (n + 5) -> Bit],
           \A i \in 1 .. 5, b \in 1 .. 8 : s[8 * (i - 1) + b] = Address[i][b],
           \A i \in 1 .. n, b \in 1 .. 8 : s[8 * (i + 4) + b] = data[i][b]
    PROVE  \A j \in 1 .. 16 : crc16(data)[j] = 1 - BitCrc(s)[j]
<1> DEFINE bytes == CrcInput(data)
           r == CrcRegister(bytes)[Len(bytes)]
<1>1. bytes \in Seq(ByteBits) /\ Len(bytes) = n + 5
  BY CrcInputBytes
<1>2. s \in Seq(Bit) /\ Len(s) = 8 * Len(bytes)
  <2>1. PICK len \in Nat : len = 8 * (n + 5)
    OBVIOUS
  <2>2. s \in [1 .. len -> Bit]
    BY <2>1
  <2>3. s \in Seq(Bit) /\ Len(s) = len
    BY <2>2, SequenceOf
  <2> QED
    BY <1>1, <2>1, <2>3
<1> HIDE DEF bytes
<1>3. \A i \in 1 .. Len(bytes) : i \in Nat /\ 1 <= i /\ i <= n + 5
  <2>1. 1 .. Len(bytes) = 1 .. n + 5
    BY <1>1, Zenon
  <2>2. \A i \in 1 .. n + 5 : i \in Nat /\ 1 <= i /\ i <= n + 5
    BY FiveMoreRange, Zenon
  <2> QED
    BY <2>1, <2>2, Zenon
<1>4. ASSUME NEW i \in 1 .. Len(bytes), NEW b \in 1 .. 8 PROVE s[8 * (i - 1) + b] = bytes[i][9 - b]
  <2>0. i \in Nat /\ 1 <= i /\ i <= n + 5
    BY <1>3
  <2>1. CASE i <= 5
    <3>1. i \in 1 .. 5
      BY <2>0, <2>1
    <3>2. bytes[i][9 - b] = Address[i][b]
      BY <3>1, CrcInputBytes DEF bytes
    <3>3. s[8 * (i - 1) + b] = Address[i][b]
      BY <3>1
    <3> QED
      BY <3>2, <3>3
  <2>2. CASE ~(i <= 5)
    <3>1. PICK k \in 1 .. n : i = 5 + k
      <4>1. i - 5 \in 1 .. n /\ i = 5 + (i - 5)
        BY <2>0, <2>2
      <4> QED
        BY <4>1
    <3>2. bytes[5 + k][9 - b] = data[k][b] /\ s[8 * (k + 4) + b] = data[k][b]
      BY CrcInputBytes DEF bytes
    <3>3. i - 1 = k + 4
      BY <3>1
    <3> QED
      BY <3>1, <3>2, <3>3
  <2> QED
    BY <2>1, <2>2
<1>5. crc16(data) = Xor(reverse_bits(r), AllOnes)
  BY DEF crc16, bytes
<1>6. r \in WordBits /\ \A j \in 1 .. 16 : r[17 - j] = BitCrc(s)[j]
  BY <1>1, <1>2, <1>4, CrcIsBitCrc
<1> HIDE DEF r
<1>7. \A j \in 1 .. 16 : Xor(reverse_bits(r), AllOnes)[j] = 1 - r[17 - j]
  BY <1>6, InvertedMirror
<1> QED
  BY <1>5, <1>6, <1>7

-----------------------------------------------------------------------------
\* The payload of a telegram

LEMMA PassFacts ==
    /\ Pass1 \in [1 .. 17 -> ByteBits]
    /\ \A i \in 1 .. 17, b \in 1 .. 8 : Pass1[i][b] = HubSequence[8 * (i - 1) + b]
    /\ Pass2 \in [1 .. 35 -> ByteBits]
    /\ \A i \in 1 .. 35, b \in 1 .. 8 : Pass2[i][b] = Channel37[8 * (i - 1) + b]
<1>1. ASSUME NEW key \in Nat, NEW n \in Nat
      PROVE  /\ KeyBytes(key, n) \in [1 .. n -> ByteBits]
             /\ \A i \in 1 .. n, b \in 1 .. 8 : KeyBytes(key, n)[i][b] = Sequence(key, 8 * n)[8 * (i - 1) + b]
  <2>1. KeyBytes(key, n) = [i \in 1 .. n |-> KeyBytes(key, n)[i]]
    BY DEF KeyBytes
  <2> QED
    BY <2>1, PassBits
<1>2. Pass1 = KeyBytes(63, 17) /\ HubSequence = Sequence(63, 8 * 17)
  BY DEF Pass1, HubSequence, kCtxValue1
<1>3. Pass2 = KeyBytes(37, 35) /\ Channel37 = Sequence(37, 8 * 35)
  BY DEF Pass2, Channel37, kCtxValue2
<1>4. PICK key \in Nat, n \in Nat : key = 63 /\ n = 17
  OBVIOUS
<1>5. PICK k \in Nat, m \in Nat : k = 37 /\ m = 35
  OBVIOUS
<1>6. /\ KeyBytes(key, n) \in [1 .. n -> ByteBits]
      /\ \A i \in 1 .. n, b \in 1 .. 8 : KeyBytes(key, n)[i][b] = Sequence(key, 8 * n)[8 * (i - 1) + b]
  BY <1>1
<1>7. /\ KeyBytes(k, m) \in [1 .. m -> ByteBits]
      /\ \A i \in 1 .. m, b \in 1 .. 8 : KeyBytes(k, m)[i][b] = Sequence(k, 8 * m)[8 * (i - 1) + b]
  BY <1>1
<1>8. /\ KeyBytes(63, 17) \in [1 .. 17 -> ByteBits]
      /\ \A i \in 1 .. 17, b \in 1 .. 8 : KeyBytes(63, 17)[i][b] = Sequence(63, 8 * 17)[8 * (i - 1) + b]
  BY <1>4, <1>6, Zenon
<1>9. /\ KeyBytes(37, 35) \in [1 .. 35 -> ByteBits]
      /\ \A i \in 1 .. 35, b \in 1 .. 8 : KeyBytes(37, 35)[i][b] = Sequence(37, 8 * 35)[8 * (i - 1) + b]
  BY <1>5, <1>7, Zenon
<1> QED
  BY <1>2, <1>3, <1>8, <1>9, Zenon

LEMMA WhitenedBytes ==
    ASSUME NEW n \in Nat, NEW m \in Nat, NEW from \in Nat, from + n <= m,
           NEW bytes \in [1 .. n -> ByteBits], NEW pass \in [1 .. m -> ByteBits]
    PROVE  /\ Whitened(bytes, pass, from) \in [1 .. n -> ByteBits]
           /\ \A i \in 1 .. n, b \in 1 .. 8 :
                 Whitened(bytes, pass, from)[i][b] = (bytes[i][b] + pass[from + i][b]) % 2
<1>1. \A i \in 1 .. n : bytes[i] \in ByteBits /\ pass[from + i] \in ByteBits
  OBVIOUS
<1>2. Whitened(bytes, pass, from) = [i \in 1 .. n |-> Xor(bytes[i], pass[from + i])]
  BY DEF Whitened
<1>3. \A i \in 1 .. n : /\ Xor(bytes[i], pass[from + i]) \in ByteBits
                        /\ \A b \in 1 .. 8 : Xor(bytes[i], pass[from + i])[b] = (bytes[i][b] + pass[from + i][b]) % 2
  BY <1>1, XorByte
<1> QED
  BY <1>2, <1>3

IsWhitened(out, bytes, pass, from, n) ==
    /\ out \in Strings(ByteBits, n)
    /\ \A i \in 1 .. n, b \in 1 .. 8 : out[i][b] = (bytes[i][b] + pass[from + i][b]) % 2

LEMMA WhitenedString ==
    ASSUME NEW n \in Nat, NEW m \in Nat, NEW from \in Nat, from + n <= m,
           NEW bytes \in Strings(ByteBits, n), NEW pass \in Strings(ByteBits, m)
    PROVE  IsWhitened(Whitened(bytes, pass, from), bytes, pass, from, n)
BY WhitenedBytes, ZenonT(40) DEF Strings, IsWhitened

LEMMA WordHalves ==
    ASSUME NEW w \in WordBits
    PROVE  /\ SubSeq(w, 1, 8) \in ByteBits /\ SubSeq(w, 9, 16) \in ByteBits
           /\ \A b \in 1 .. 8 : SubSeq(w, 1, 8)[b] = w[b] /\ SubSeq(w, 9, 16)[b] = w[8 + b]
<1>1. PICK len \in Nat, half \in Nat, from \in Nat : len = 16 /\ half = 8 /\ from = 0
  OBVIOUS
<1>2. w \in Strings(Bit, len)
  BY <1>1 DEF WordBits, Strings
<1>3. /\ from + half <= len /\ 1 = from + 1 /\ 8 = from + half
      /\ half + half <= len /\ 9 = half + 1 /\ 16 = half + half
  BY <1>1
<1>4. IsPart(Bit, SubSeq(w, 1, 8), w, from, half)
  BY <1>2, <1>3, PartOfString
<1>5. IsPart(Bit, SubSeq(w, 9, 16), w, half, half)
  BY <1>2, <1>3, PartOfString
<1>6. ASSUME NEW part, NEW k \in Nat, IsPart(Bit, part, w, k, half)
      PROVE  part \in ByteBits /\ \A b \in 1 .. 8 : part[b] = w[k + b]
  BY <1>1, <1>6 DEF IsPart, Strings, ByteBits
<1>7. \A b \in 1 .. 8 : from + b = b /\ half + b = 8 + b
  BY <1>1
<1> QED
  BY <1>4, <1>5, <1>6, <1>7

\* The bytes before whitening: the address, the telegram and its checksum.
LEMMA BodyBytes ==
    ASSUME NEW n \in Nat, NEW data \in [1 .. n -> ByteBits]
    PROVE  /\ Body(data) \in [1 .. n + 7 -> ByteBits]
           /\ \A i \in 1 .. 5 : Body(data)[i] = Address[i]
           /\ \A i \in 1 .. n : Body(data)[5 + i] = data[i]
           /\ \A b \in 1 .. 8 : /\ Body(data)[n + 6][b] = crc16(data)[b]
                                /\ Body(data)[n + 7][b] = crc16(data)[8 + b]
<1> DEFINE low == SubSeq(crc16(data), 1, 8)
           high == SubSeq(crc16(data), 9, 16)
           sum == <<low, high>>
<1>1. /\ low \in ByteBits /\ high \in ByteBits
      /\ \A b \in 1 .. 8 : low[b] = crc16(data)[b] /\ high[b] = crc16(data)[8 + b]
  BY ChecksumType, WordHalves
<1>2. Body(data) = (Address \o data) \o sum
  BY DEF Body
<1> HIDE DEF low, high
<1>3. sum \in [1 .. 2 -> ByteBits] /\ sum[1] = low /\ sum[2] = high
  BY <1>1
<1> HIDE DEF sum
<1>4. PICK five \in Nat, two \in Nat : five = 5 /\ two = 2
  OBVIOUS
<1>5. /\ Address \in Strings(ByteBits, five) /\ sum \in Strings(ByteBits, two)
      /\ data \in Strings(ByteBits, n)
  BY <1>3, <1>4, FixedBytes DEF Strings
<1> DEFINE front == Address \o data
           whole == front \o sum
<1>6. IsJoined(ByteBits, front, Address, five, data, n)
  BY <1>5, JoinedStrings
<1> HIDE DEF front
<1>7. PICK m \in Nat : m = five + n
  BY <1>4
<1>8. IsJoined(ByteBits, whole, front, m, sum, two)
  <2>1. front \in Strings(ByteBits, m)
    BY <1>6, <1>7 DEF IsJoined
  <2> QED
    BY <1>5, <2>1, JoinedStrings
<1>9. Body(data) = whole
  BY <1>2 DEF front
<1> HIDE DEF whole
<1>10. /\ \A i \in 1 .. 5 : whole[i] = Address[i]
       /\ \A i \in 1 .. n : whole[5 + i] = data[i]
  BY <1>4, <1>6, <1>7, <1>8 DEF IsJoined
<1>11. whole[n + 6] = low /\ whole[n + 7] = high
  <2>1. m + 1 = n + 6 /\ m + 2 = n + 7 /\ 1 \in 1 .. two /\ 2 \in 1 .. two
    BY <1>4, <1>7
  <2> QED
    BY <1>3, <1>8, <2>1 DEF IsJoined
<1>12. whole \in [1 .. n + 7 -> ByteBits]
  <2>1. m + two = n + 7
    BY <1>4, <1>7
  <2> QED
    BY <1>8, <2>1 DEF IsJoined, Strings
<1> QED
  BY <1>1, <1>9, <1>10, <1>11, <1>12

IsBody(body, data, n) ==
    /\ \A i \in 1 .. 5 : body[i] = Address[i]
    /\ \A i \in 1 .. n : body[5 + i] = data[i]

LEMMA BodyParts ==
    ASSUME NEW n \in Nat, NEW data \in Strings(ByteBits, n)
    PROVE  IsBody(Body(data), data, n)
<1>1. data \in [1 .. n -> ByteBits]
  BY DEF Strings
<1> QED
  BY <1>1, BodyBytes DEF IsBody

LEMMA PayloadBytes ==
    ASSUME NEW n \in 0 .. 10, NEW data \in [1 .. n -> ByteBits]
    PROVE  /\ Encrypt(data) \in [1 .. n + 10 -> ByteBits]
           /\ \A i \in 1 .. 3, b \in 1 .. 8 :
                 Encrypt(data)[i][b] = (Header[i][b] + Pass2[15 + i][b]) % 2
           /\ \A i \in 1 .. n + 7, b \in 1 .. 8 :
                 Encrypt(data)[3 + i][b] =
                    (((Body(data)[i][b] + Pass1[i][b]) % 2) + Pass2[18 + i][b]) % 2
<1>1. PICK k \in Nat, m \in Nat, three \in Nat, total \in Nat :
         k = n + 7 /\ m = n /\ three = 3 /\ total = n + 10
  OBVIOUS
<1>2. PICK p \in Nat, q \in Nat, zero \in Nat, offset \in Nat :
         p = 17 /\ q = 35 /\ zero = 0 /\ offset = 15
  OBVIOUS
<1> DEFINE body == Body(data)
           once == Whitened(body, Pass1, zero)
           framed == Header \o once
           twice == Whitened(framed, Pass2, offset)
<1>3. body \in Strings(ByteBits, k)
  BY <1>1, BodyBytes DEF Strings
<1>4. /\ Pass1 \in Strings(ByteBits, p) /\ Pass2 \in Strings(ByteBits, q)
      /\ Header \in Strings(ByteBits, three)
  BY <1>1, <1>2, PassFacts, FixedBytes DEF Strings
<1>5. zero + k <= p /\ offset + total <= q /\ three + k = total
  BY <1>1, <1>2
<1> HIDE DEF body
<1>6. IsWhitened(once, body, Pass1, zero, k)
  BY <1>3, <1>4, <1>5, WhitenedString
<1>7. Encrypt(data) = twice
  BY <1>2 DEF Encrypt, Offset, body
<1> HIDE DEF once
<1>8. IsJoined(ByteBits, framed, Header, three, once, k)
  <2>1. once \in Strings(ByteBits, k)
    BY <1>6 DEF IsWhitened
  <2> QED
    BY <1>4, <2>1, JoinedStrings
<1> HIDE DEF framed
<1>9. IsWhitened(twice, framed, Pass2, offset, total)
  <2>1. framed \in Strings(ByteBits, total)
    BY <1>5, <1>8 DEF IsJoined
  <2> QED
    BY <1>4, <1>5, <2>1, WhitenedString
<1> HIDE DEF twice
<1>10. ASSUME NEW i \in 1 .. 3, NEW b \in 1 .. 8
       PROVE  twice[i][b] = (Header[i][b] + Pass2[15 + i][b]) % 2
  <2>1. i \in 1 .. total /\ i \in 1 .. three
    BY <1>1
  <2>2. twice[i][b] = (framed[i][b] + Pass2[offset + i][b]) % 2 /\ framed[i] = Header[i]
    BY <1>8, <1>9, <2>1 DEF IsJoined, IsWhitened
  <2> QED
    BY <1>2, <2>2
<1>11. ASSUME NEW i \in 1 .. n + 7, NEW b \in 1 .. 8
       PROVE  twice[3 + i][b] = (((body[i][b] + Pass1[i][b]) % 2) + Pass2[18 + i][b]) % 2
  <2>1. PICK j \in 1 .. total : j = three + i /\ j = 3 + i /\ offset + j = 18 + i
    BY <1>1, <1>2
  <2>2. i \in 1 .. k /\ zero + i = i
    BY <1>1, <1>2
  <2>3. twice[j][b] = (framed[j][b] + Pass2[offset + j][b]) % 2
    BY <1>9 DEF IsWhitened
  <2>4. framed[j] = once[i]
    BY <1>8, <2>1, <2>2 DEF IsJoined
  <2>5. once[i][b] = (body[i][b] + Pass1[i][b]) % 2
    BY <1>6, <2>2 DEF IsWhitened
  <2>6. twice[j][b] = (((body[i][b] + Pass1[i][b]) % 2) + Pass2[offset + j][b]) % 2
    BY <2>3, <2>4, <2>5
  <2> QED
    BY <2>1, <2>6
<1>12. twice \in [1 .. n + 10 -> ByteBits]
  BY <1>1, <1>9 DEF IsWhitened, Strings
<1> QED
  BY <1>7, <1>10, <1>11, <1>12 DEF body

-----------------------------------------------------------------------------
\* The telegrams and the advertisement

LEMMA BytesOf ==
    ASSUME NEW n \in Nat, NEW telegram \in [1 .. n -> Byte]
    PROVE  /\ Bytes(telegram) \in Strings(ByteBits, n)
           /\ \A i \in 1 .. n : Bytes(telegram)[i] = Bits(telegram[i], 8)
<1>1. Len(telegram) = n
  OBVIOUS
<1>2. \A i \in 1 .. n : telegram[i] \in Nat
  <2>1. \A v \in Byte : v \in Nat
    BY DEF Byte
  <2>2. \A i \in 1 .. n : telegram[i] \in Byte
    OBVIOUS
  <2> QED
    BY <2>1, <2>2
<1>3. ASSUME NEW v \in Nat PROVE Bits(v, 8) \in ByteBits
  BY BitsType DEF ByteBits
<1> QED
  BY <1>1, <1>2, <1>3 DEF Bytes, Strings

LEMMA ConnectTelegram == kTelegramConnect \in [1 .. 8 -> Byte] /\ Connect = kTelegramConnect
BY DEF kTelegramConnect, Connect, Byte

\* A value and its power: mkh_set_channel and mkh_protocol_set_channel undo each other.
LEMMA ChannelByteOf ==
    ASSUME NEW v \in Byte
    PROVE  ChannelByte(v - 128) = v
BY DEF ChannelByte, Smaller, Byte

LEMMA ControlTelegram ==
    ASSUME NEW o \in [device : 0 .. 2, values : [1 .. 6 -> Byte]]
    PROVE  Control(o) \in [1 .. 10 -> Byte] /\ Control(o) = Ordered(o)
<1> DEFINE front == <<\h61 + o.device, \h7B, \hA7>>
           back == <<\h9E - o.device>>
           both == front \o o.values
<1>1. PICK d \in 0 .. 2, values \in [1 .. 6 -> Byte] : d = o.device /\ values = o.values
  OBVIOUS
<1>2. PICK three \in Nat, six \in Nat, nine \in Nat, one \in Nat :
         three = 3 /\ six = 6 /\ nine = 9 /\ one = 1
  OBVIOUS
<1>3. /\ front \in Strings(Byte, three)
      /\ front[1] = \h61 + d /\ front[2] = \h7B /\ front[3] = \hA7
  BY <1>1, <1>2 DEF Byte, Strings
<1>4. back \in Strings(Byte, one) /\ back[1] = \h9E - d
  BY <1>1, <1>2 DEF Byte, Strings
<1>5. values \in Strings(Byte, six)
  BY <1>2 DEF Strings
<1>6. Ordered(o) = (front \o values) \o back
  BY <1>1 DEF Ordered
<1> HIDE DEF front, back
<1>7. IsJoined(Byte, front \o values, front, three, values, six)
  BY <1>3, <1>5, JoinedStrings
<1>8. front \o values \in Strings(Byte, nine)
  <2>1. three + six = nine
    BY <1>2
  <2> QED
    BY <1>7, <2>1 DEF IsJoined
<1>9. IsJoined(Byte, (front \o values) \o back, front \o values, nine, back, one)
  BY <1>4, <1>8, JoinedStrings
<1> DEFINE t == Ordered(o)
<1>10. /\ t \in [1 .. 10 -> Byte]
       /\ t[1] = \h61 + d /\ t[2] = \h7B /\ t[3] = \hA7 /\ t[10] = \h9E - d
       /\ \A c \in 1 .. 6 : t[3 + c] = values[c]
  <2>1. t \in Strings(Byte, nine + one) /\ t[nine + 1] = back[1]
        /\ \A i \in 1 .. nine : t[i] = (front \o values)[i]
    <3>1. IsJoined(Byte, t, front \o values, nine, back, one)
      BY <1>6, <1>9
    <3>2. 1 \in 1 .. one
      BY <1>2
    <3> HIDE DEF t
    <3> QED
      BY <3>1, <3>2 DEF IsJoined
  <2>2. /\ \A i \in 1 .. three : (front \o values)[i] = front[i]
        /\ \A c \in 1 .. six : (front \o values)[three + c] = values[c]
    BY <1>7 DEF IsJoined
  <2>3. nine + one = 10 /\ nine + 1 = 10
    BY <1>2
  <2> HIDE DEF t
  <2>4. t \in [1 .. 10 -> Byte]
    BY <2>1, <2>3 DEF Strings
  <2>5. \A i \in 1 .. 3 : i \in 1 .. nine /\ i \in 1 .. three
    BY <1>2
  <2>6. \A c \in 1 .. 6 : 3 + c \in 1 .. nine /\ c \in 1 .. six /\ three + c = 3 + c
    BY <1>2
  <2>7. t[1] = front[1] /\ t[2] = front[2] /\ t[3] = front[3]
    <3>1. ASSUME NEW i \in 1 .. 3 PROVE t[i] = front[i]
      BY <2>1, <2>2, <2>5
    <3>2. 1 \in 1 .. 3 /\ 2 \in 1 .. 3 /\ 3 \in 1 .. 3
      OBVIOUS
    <3> QED
      BY <3>1, <3>2
  <2>8. \A c \in 1 .. 6 : t[3 + c] = values[c]
    BY <2>1, <2>2, <2>6
  <2> QED
    BY <1>3, <1>4, <2>1, <2>3, <2>4, <2>7, <2>8
<1> HIDE DEF t
<1>11. ASSUME NEW i \in 1 .. 10
       PROVE  t[i] = IF i - 3 \in 1 .. 6 THEN ChannelByte(values[i - 3] - 128) ELSE kTelegramBase(d)[i]
  <2>1. CASE i - 3 \in 1 .. 6
    <3>1. PICK c \in 1 .. 6 : c = i - 3 /\ i = 3 + c
      BY <2>1
    <3>2. ChannelByte(values[c] - 128) = values[c]
      BY ChannelByteOf
    <3> QED
      BY <1>10, <2>1, <3>1, <3>2
  <2>2. CASE i - 3 \notin 1 .. 6
    <3>1. i \in {1, 2, 3, 10}
      BY <2>2
    <3> QED
      BY <1>10, <2>2, <3>1 DEF kTelegramBase
  <2> QED
    BY <2>1, <2>2
<1>12. Control(o) =
         [i \in 1 .. 10 |-> IF i - 3 \in 1 .. 6 THEN ChannelByte(values[i - 3] - 128) ELSE kTelegramBase(d)[i]]
  BY <1>1 DEF Control, kControlChannelStartOffset
<1>13. t = [i \in 1 .. 10 |-> t[i]]
  BY <1>10
<1>14. Control(o) = t
  BY <1>11, <1>12, <1>13
<1> QED
  BY <1>10, <1>14 DEF t

LEMMA AdvDataBytes ==
    ASSUME NEW n \in 0 .. 10, NEW payload \in Strings(ByteBits, n + 10)
    PROVE  /\ AdvData(payload) \in Strings(ByteBits, n + 17)
           /\ \A i \in 1 .. n + 10 : AdvData(payload)[7 + i] = payload[i]
<1> DEFINE numbers == <<2, BLUETOOTH_DATA_TYPE_FLAGS, 6, 1 + 2 + Len(payload),
                        BLUETOOTH_DATA_TYPE_MANUFACTURER_SPECIFIC_DATA, \hF0, \hFF>>
           front == Bytes(numbers)
<1>1. PICK seven \in Nat, k \in Nat : seven = 7 /\ k = n + 10
  OBVIOUS
<1>2. payload \in Strings(ByteBits, k) /\ Len(payload) = k
  BY <1>1 DEF Strings
<1>3. numbers \in [1 .. seven -> Byte]
  <2>1. PICK len \in Byte : len = 1 + 2 + Len(payload)
    <3>1. 1 + 2 + k \in Byte
      BY <1>1 DEF Byte
    <3> QED
      BY <1>2, <3>1
  <2>2. numbers = <<2, 1, 6, len, 255, 240, 255>>
    BY <2>1 DEF BLUETOOTH_DATA_TYPE_FLAGS, BLUETOOTH_DATA_TYPE_MANUFACTURER_SPECIFIC_DATA
  <2>3. <<2, 1, 6, len, 255, 240, 255>> \in [1 .. 7 -> Byte]
    BY DEF Byte
  <2> QED
    BY <1>1, <2>2, <2>3
<1>4. AdvData(payload) = front \o payload
  BY DEF AdvData
<1> HIDE DEF numbers
<1>5. front \in Strings(ByteBits, seven)
  BY <1>3, BytesOf
<1> HIDE DEF front
<1>6. IsJoined(ByteBits, front \o payload, front, seven, payload, k)
  BY <1>2, <1>5, JoinedStrings
<1>7. seven + k = n + 17
  BY <1>1
<1> QED
  BY <1>1, <1>4, <1>6, <1>7 DEF IsJoined

LEMMA OverBytes ==
    ASSUME NEW m \in Nat, NEW n \in Nat, m <= n,
           NEW new \in Strings(ByteBits, m), NEW old \in Strings(ByteBits, n)
    PROVE  /\ Over(new, old) \in Strings(ByteBits, n)
           /\ \A i \in 1 .. m : Over(new, old)[i] = new[i]
<1>1. Len(new) = m /\ Len(old) = n
  BY DEF Strings
<1>2. PICK k \in Nat, a \in Nat : m + k = n /\ a = m + 1
  OBVIOUS
<1>3. n = m + k /\ m + k <= n
  BY <1>2
<1>4. IsPart(ByteBits, SubSeq(old, a, n), old, m, k)
  BY <1>2, <1>3, PartOfString
<1>5. SubSeq(old, a, n) \in Strings(ByteBits, k)
  BY <1>4 DEF IsPart
<1>6. IsJoined(ByteBits, new \o SubSeq(old, a, n), new, m, SubSeq(old, a, n), k)
  BY <1>5, JoinedStrings
<1>7. Over(new, old) = new \o SubSeq(old, a, n)
  BY <1>1, <1>2 DEF Over
<1> QED
  BY <1>2, <1>6, <1>7 DEF IsJoined

\* The payloads and what of them stands in the buffer.
LEMMA PayloadOf ==
    ASSUME NEW n \in 0 .. 10, NEW telegram \in [1 .. n -> Byte]
    PROVE  /\ Encrypt(Bytes(telegram)) \in Strings(ByteBits, n + 10)
           /\ AdvData(Encrypt(Bytes(telegram))) \in Strings(ByteBits, n + 17)
           /\ \A i \in 1 .. n + 10 :
                 AdvData(Encrypt(Bytes(telegram)))[7 + i] = Encrypt(Bytes(telegram))[i]
<1> DEFINE data == Bytes(telegram)
           payload == Encrypt(data)
<1>1. n \in Nat
  OBVIOUS
<1>2. data \in Strings(ByteBits, n)
  BY <1>1, BytesOf
<1> HIDE DEF data
<1>3. payload \in Strings(ByteBits, n + 10)
  BY <1>2, PayloadBytes DEF Strings
<1> HIDE DEF payload
<1>4. /\ AdvData(payload) \in Strings(ByteBits, n + 17)
      /\ \A i \in 1 .. n + 10 : AdvData(payload)[7 + i] = payload[i]
  BY <1>3, AdvDataBytes
<1> QED
  BY <1>3, <1>4 DEF payload, data

-----------------------------------------------------------------------------
\* What is on the air

LEMMA SameBits ==
    ASSUME NEW n \in Nat, NEW s \in Strings(Bit, 8 * n), NEW t \in Strings(Bit, 8 * n),
           \A i \in 1 .. n, b \in 1 .. 8 : s[8 * (i - 1) + b] = t[8 * (i - 1) + b]
    PROVE  s = t
<1>1. ASSUME NEW k \in 1 .. 8 * n PROVE s[k] = t[k]
  <2>1. PICK i \in 1 .. n, b \in 1 .. 8 : k = 8 * (i - 1) + b
    BY PlaceOf
  <2> QED
    BY <2>1
<1> QED
  BY <1>1 DEF Strings

LEMMA MsbFirstBits ==
    ASSUME NEW n \in Nat, NEW bytes \in [1 .. n -> Byte]
    PROVE  /\ MsbFirst(bytes) \in Strings(Bit, 8 * n)
           /\ \A i \in 1 .. n, b \in 1 .. 8 :
                 MsbFirst(bytes)[8 * (i - 1) + b] = Bits(bytes[i], 8)[9 - b]
<1>1. Len(bytes) = n
  OBVIOUS
<1>2. MsbFirst(bytes) =
         [k \in 1 .. 8 * n |-> Bits(bytes[1 + ((k - 1) \div 8)], 8)[8 - ((k - 1) % 8)]]
  BY <1>1 DEF MsbFirst
<1>3. ASSUME NEW i \in 1 .. n, NEW b \in 1 .. 8
      PROVE  /\ MsbFirst(bytes)[8 * (i - 1) + b] = Bits(bytes[i], 8)[9 - b]
             /\ Bits(bytes[i], 8)[9 - b] \in Bit
  <2>1. PICK k \in 1 .. 8 * n : k = 8 * (i - 1) + b
    BY PlaceParts
  <2>2. 1 + ((k - 1) \div 8) = i /\ 8 - ((k - 1) % 8) = 9 - b
    BY <2>1, PlaceParts
  <2>3. MsbFirst(bytes)[k] = Bits(bytes[i], 8)[9 - b]
    BY <1>2, <2>2
  <2>4. bytes[i] \in Nat /\ 9 - b \in 1 .. 8
    <3>1. bytes[i] \in Byte /\ 9 - b \in 1 .. 8
      OBVIOUS
    <3>2. \A v \in Byte : v \in Nat
      BY DEF Byte
    <3> QED
      BY <3>1, <3>2
  <2>5. Bits(bytes[i], 8) \in [1 .. 8 -> Bit]
    BY <2>4, BitsType
  <2> QED
    BY <2>1, <2>3, <2>4, <2>5
<1>4. ASSUME NEW k \in 1 .. 8 * n PROVE MsbFirst(bytes)[k] \in Bit
  <2>1. PICK i \in 1 .. n, b \in 1 .. 8 : k = 8 * (i - 1) + b
    BY PlaceOf
  <2> QED
    BY <1>3, <2>1
<1>5. MsbFirst(bytes) = [k \in 1 .. 8 * n |-> MsbFirst(bytes)[k]]
  BY <1>2
<1> QED
  BY <1>3, <1>4, <1>5 DEF Strings

\* The bits that stand for an encrypted telegram on the air: the hub's header as it is,
\* and the body under the one whitening that is left, which is the hub's.
IsSent(air, data, n) ==
    /\ air \in Strings(Bit, 8 * (n + 10))
    /\ \A i \in 1 .. 3, b \in 1 .. 8 : air[8 * (i - 1) + b] = Header[i][b]
    /\ \A i \in 1 .. n + 7, b \in 1 .. 8 :
          air[24 + (8 * (i - 1) + b)] = (Body(data)[i][b] + HubSequence[8 * (i - 1) + b]) % 2

LEMMA PayloadOnAir ==
    ASSUME NEW n \in 0 .. 10, NEW data \in Strings(ByteBits, n), dataLen = n + 17,
           \A i \in 1 .. n + 10 : buffer[7 + i] = Encrypt(data)[i]
    PROVE  IsSent(OnAir, data, n)
<1> DEFINE air == OnAir
           sent == Encrypt(data)
<1>1. PICK k \in Nat, m \in Nat : k = n + 10 /\ m = n + 7
  OBVIOUS
<1>2. n \in Nat /\ data \in [1 .. n -> ByteBits]
  BY DEF Strings
<1>3. /\ sent \in [1 .. k -> ByteBits]
      /\ \A i \in 1 .. 3, b \in 1 .. 8 : sent[i][b] = (Header[i][b] + Pass2[15 + i][b]) % 2
      /\ \A i \in 1 .. m, b \in 1 .. 8 :
            sent[3 + i][b] = (((Body(data)[i][b] + Pass1[i][b]) % 2) + Pass2[18 + i][b]) % 2
  BY <1>1, <1>2, PayloadBytes
<1>4. /\ \A i \in 1 .. m : Body(data)[i] \in ByteBits
      /\ \A i \in 1 .. 3 : Header[i] \in ByteBits
      /\ \A i \in 1 .. 17 : Pass1[i] \in ByteBits
      /\ \A i \in 1 .. 35 : Pass2[i] \in ByteBits
  <2>1. Body(data) \in [1 .. n + 7 -> ByteBits]
    BY <1>2, BodyBytes
  <2>2. \A i \in 1 .. m : i \in 1 .. n + 7
    BY <1>1
  <2> QED
    BY <2>1, <2>2, FixedBytes, PassFacts
<1>5. \A byte \in ByteBits, b \in 1 .. 8 : byte[b] \in Bit
  BY DEF ByteBits
<1> HIDE DEF sent
<1>6. air = [j \in 1 .. 8 * k |->
                (buffer[8 + ((j - 1) \div 8)][1 + ((j - 1) % 8)] + Channel37[8 * 15 + j]) % 2]
  <2>1. dataLen - 7 = k
    BY <1>1
  <2> QED
    BY <2>1 DEF OnAir
<1> HIDE DEF air
<1>7. ASSUME NEW i \in 1 .. k, NEW b \in 1 .. 8
      PROVE  /\ air[8 * (i - 1) + b] = (sent[i][b] + Pass2[15 + i][b]) % 2
             /\ sent[i][b] \in Bit /\ Pass2[15 + i][b] \in Bit
  <2>1. PICK j \in 1 .. 8 * k : j = 8 * (i - 1) + b
    BY PlaceParts
  <2>2. 8 + ((j - 1) \div 8) = 7 + i /\ 1 + ((j - 1) % 8) = b
    BY <2>1, PlaceParts
  <2>3. buffer[7 + i] = sent[i]
    BY <1>1 DEF sent
  <2>4. PICK p \in 1 .. 35 : p = 15 + i
    BY <1>1
  <2>5. 8 * (p - 1) + b = 8 * 15 + j
    BY <2>1, <2>4
  <2>6. Pass2[p][b] = Channel37[8 * 15 + j]
    <3>1. Pass2[p][b] = Channel37[8 * (p - 1) + b]
      BY PassFacts, Zenon
    <3> QED
      BY <2>5, <3>1, Zenon
  <2>7. air[j] = (sent[i][b] + Pass2[p][b]) % 2
    BY <1>6, <2>2, <2>3, <2>6
  <2> QED
    BY <1>3, <1>4, <1>5, <2>1, <2>4, <2>7
<1>8. ASSUME NEW i \in 1 .. 3, NEW b \in 1 .. 8 PROVE air[8 * (i - 1) + b] = Header[i][b]
  <2>1. i \in 1 .. k /\ 15 + i \in 1 .. 35
    BY <1>1
  <2>2. Header[i][b] \in Bit /\ Pass2[15 + i][b] \in Bit
    BY <1>4, <1>5, <2>1
  <2>3. air[8 * (i - 1) + b] = (((Header[i][b] + Pass2[15 + i][b]) % 2) + Pass2[15 + i][b]) % 2
    BY <1>3, <1>7, <2>1, ZenonT(40)
  <2> QED
    BY <2>2, <2>3, BitFacts
<1>9. ASSUME NEW i \in 1 .. n + 7, NEW b \in 1 .. 8
      PROVE  air[24 + (8 * (i - 1) + b)] = (Body(data)[i][b] + HubSequence[8 * (i - 1) + b]) % 2
  <2>1. PICK j \in 1 .. k : j = 3 + i /\ 15 + j = 18 + i /\ 18 + i \in 1 .. 35
    BY <1>1
  <2>2. i \in 1 .. m /\ i \in 1 .. 17
    BY <1>1
  <2>3. Body(data)[i][b] \in Bit /\ Pass1[i][b] \in Bit /\ Pass2[18 + i][b] \in Bit
    BY <1>4, <1>5, <2>1, <2>2
  <2> DEFINE x == (Body(data)[i][b] + Pass1[i][b]) % 2
  <2>4. x \in Bit
    BY <2>3, BitFacts
  <2>5. sent[j][b] = (x + Pass2[18 + i][b]) % 2
    BY <1>3, <2>1, <2>2
  <2> HIDE DEF x
  <2>6. air[8 * (j - 1) + b] = (((x + Pass2[18 + i][b]) % 2) + Pass2[18 + i][b]) % 2
    BY <1>7, <2>1, <2>5
  <2>7. air[8 * (j - 1) + b] = x
    BY <2>3, <2>4, <2>6, BitFacts
  <2>8. 8 * (j - 1) + b = 24 + (8 * (i - 1) + b)
    BY <2>1
  <2>9. Pass1[i][b] = HubSequence[8 * (i - 1) + b]
    BY <2>2, PassFacts
  <2> QED
    BY <2>7, <2>8, <2>9 DEF x
<1>10. air \in Strings(Bit, 8 * k)
  <2>1. ASSUME NEW j \in 1 .. 8 * k PROVE air[j] \in Bit
    <3>1. PICK i \in 1 .. k, b \in 1 .. 8 : j = 8 * (i - 1) + b
      BY PlaceOf
    <3>2. /\ air[j] = (sent[i][b] + Pass2[15 + i][b]) % 2
          /\ sent[i][b] \in Bit /\ Pass2[15 + i][b] \in Bit
      BY <1>7, <3>1
    <3> QED
      BY <3>2, BitFacts
  <2>2. air = [j \in 1 .. 8 * k |-> air[j]]
    BY <1>6
  <2> QED
    BY <2>1, <2>2 DEF Strings
<1> QED
  BY <1>1, <1>8, <1>9, <1>10 DEF IsSent, air

-----------------------------------------------------------------------------
\* What a hub makes of it

\* What would be the checksum of a telegram of m bytes, in a body.
ChecksumAt(data, m) ==
    \A b \in 1 .. 8 : /\ Body(data)[m + 6][b] = crc16(SubSeq(data, 1, m))[b]
                      /\ Body(data)[m + 7][b] = crc16(SubSeq(data, 1, m))[8 + b]

\* The bits that a hub descrambles when it looks for m bytes.
Plain(air, m) == [k \in 1 .. 8 * (m + 7) |-> (air[24 + k] + HubSequence[k]) % 2]

IsPlain(plain, data, m) ==
    /\ plain \in Strings(Bit, 8 * (m + 7))
    /\ \A i \in 1 .. m + 7, b \in 1 .. 8 : plain[8 * (i - 1) + b] = Body(data)[i][b]

LEMMA PlainBits ==
    ASSUME NEW n \in 0 .. 10, NEW data \in Strings(ByteBits, n), NEW air, IsSent(air, data, n),
           NEW m \in 0 .. n
    PROVE  IsPlain(Plain(air, m), data, m)
<1> DEFINE plain == Plain(air, m)
           body == Body(data)
<1>1. PICK l \in Nat : l = m + 7
  OBVIOUS
<1>2. \A i \in 1 .. l : i \in 1 .. n + 7 /\ i \in 1 .. 17
  BY <1>1
<1>3. body \in [1 .. n + 7 -> ByteBits]
  BY BodyBytes DEF Strings
<1>4. \A i \in 1 .. n + 7, b \in 1 .. 8 :
         air[24 + (8 * (i - 1) + b)] = (body[i][b] + HubSequence[8 * (i - 1) + b]) % 2
  BY DEF IsSent
<1>5. plain = [k \in 1 .. 8 * l |-> (air[24 + k] + HubSequence[k]) % 2]
  BY <1>1 DEF Plain
<1> HIDE DEF plain, body
<1>6. ASSUME NEW i \in 1 .. l, NEW b \in 1 .. 8
      PROVE  plain[8 * (i - 1) + b] = body[i][b] /\ body[i][b] \in Bit
  <2>1. PICK k \in 1 .. 8 * l : k = 8 * (i - 1) + b
    BY PlaceParts
  <2>2. body[i] \in ByteBits /\ Pass1[i] \in ByteBits /\ Pass1[i][b] = HubSequence[k]
    BY <1>2, <1>3, <2>1, PassFacts
  <2>3. body[i][b] \in Bit /\ HubSequence[k] \in Bit
    BY <2>2 DEF ByteBits
  <2>4. air[24 + k] = (body[i][b] + HubSequence[k]) % 2
    BY <1>2, <1>4, <2>1
  <2>5. plain[k] = (((body[i][b] + HubSequence[k]) % 2) + HubSequence[k]) % 2
    BY <1>5, <2>4
  <2>6. plain[k] = body[i][b]
    BY <2>3, <2>5, BitFacts
  <2> QED
    BY <2>1, <2>3, <2>6
<1>7. plain \in Strings(Bit, 8 * l)
  <2>1. ASSUME NEW k \in 1 .. 8 * l PROVE plain[k] \in Bit
    <3>1. PICK i \in 1 .. l, b \in 1 .. 8 : k = 8 * (i - 1) + b
      BY PlaceOf
    <3> QED
      BY <1>6, <3>1
  <2>2. plain = [k \in 1 .. 8 * l |-> plain[k]]
    BY <1>5
  <2> QED
    BY <2>1, <2>2 DEF Strings
<1> QED
  BY <1>1, <1>6, <1>7 DEF plain, body, IsPlain

\* The header and the address are those a hub looks for.
LEMMA FixedBits ==
    ASSUME NEW n \in 0 .. 10, NEW data \in Strings(ByteBits, n), NEW air, IsSent(air, data, n),
           NEW m \in 0 .. n
    PROVE  /\ SubSeq(air, 1, 24) = MsbFirst(<<\h71, \h0F, \h55>>)
           /\ SubSeq(Plain(air, m), 1, 40) = MsbFirst(<<\hC5, \hC4, \hC3, \hC2, \hC1>>)
<1>1. PICK zero \in Nat, three \in Nat, five \in Nat, len \in Nat, l \in Nat, h \in Nat, a \in Nat :
         /\ zero = 0 /\ three = 3 /\ five = 5 /\ len = 8 * (n + 10) /\ l = 8 * (m + 7)
         /\ h = 24 /\ a = 40
  OBVIOUS
<1>2. /\ 1 = zero + 1 /\ 24 = zero + h /\ 40 = zero + a /\ zero + h <= len /\ zero + a <= l
      /\ h = 8 * three /\ a = 8 * five
  BY <1>1
<1> DEFINE plain == Plain(air, m)
           header == <<\h71, \h0F, \h55>>
           address == <<\hC5, \hC4, \hC3, \hC2, \hC1>>
<1>3. /\ header \in [1 .. three -> Byte] /\ \A i \in 1 .. 3 : header[i] = kHeader[i]
      /\ address \in [1 .. five -> Byte] /\ \A i \in 1 .. 5 : address[i] = kSeed[6 - i]
  <2>1. header \in [1 .. three -> Byte] /\ address \in [1 .. five -> Byte]
    BY <1>1 DEF Byte
  <2>2. \A i \in 1 .. 3 : header[i] = kHeader[i]
    BY DEF kHeader
  <2>3. \A i \in 1 .. 5 : address[i] = kSeed[6 - i]
    BY DEF kSeed
  <2> QED
    BY <2>1, <2>2, <2>3
<1>4. air \in Strings(Bit, len) /\ plain \in Strings(Bit, l)
  <2>1. IsPlain(plain, data, m)
    BY PlainBits
  <2> QED
    BY <1>1, <2>1 DEF IsSent, IsPlain
<1>5. \A i \in 1 .. three, b \in 1 .. 8 : air[8 * (i - 1) + b] = Header[i][b]
  BY <1>1 DEF IsSent
<1>6. \A i \in 1 .. five, b \in 1 .. 8 : plain[8 * (i - 1) + b] = Address[i][b]
  <2>1. \A i \in 1 .. m + 7, b \in 1 .. 8 : plain[8 * (i - 1) + b] = Body(data)[i][b]
    <3>1. IsPlain(plain, data, m)
      BY PlainBits
    <3> QED
      BY <3>1 DEF IsPlain
  <2>2. \A i \in 1 .. 5 : Body(data)[i] = Address[i]
    <3>1. n \in Nat
      OBVIOUS
    <3>2. data \in [1 .. n -> ByteBits]
      BY <3>1 DEF Strings
    <3> QED
      BY <3>1, <3>2, BodyBytes
  <2>3. ASSUME NEW i \in 1 .. five, NEW b \in 1 .. 8 PROVE plain[8 * (i - 1) + b] = Address[i][b]
    <3>1. i \in 1 .. m + 7 /\ i \in 1 .. 5
      BY <1>1
    <3>2. plain[8 * (i - 1) + b] = Body(data)[i][b]
      BY <2>1, <3>1
    <3>3. Body(data)[i] = Address[i]
      BY <2>2, <3>1
    <3> QED
      BY <3>2, <3>3
  <2> QED
    BY <2>3
<1> HIDE DEF plain, header, address
<1>7. IsPart(Bit, SubSeq(air, 1, 24), air, zero, h) /\ IsPart(Bit, SubSeq(plain, 1, 40), plain, zero, a)
  BY <1>2, <1>4, PartOfString
<1>8. SubSeq(air, 1, 24) = MsbFirst(header)
  <2>1. /\ MsbFirst(header) \in Strings(Bit, 8 * three)
        /\ \A i \in 1 .. three, b \in 1 .. 8 :
              MsbFirst(header)[8 * (i - 1) + b] = Bits(header[i], 8)[9 - b]
    BY <1>3, MsbFirstBits
  <2>2. ASSUME NEW i \in 1 .. three, NEW b \in 1 .. 8
        PROVE  SubSeq(air, 1, 24)[8 * (i - 1) + b] = MsbFirst(header)[8 * (i - 1) + b]
    <3>1. PICK k \in 1 .. h : k = 8 * (i - 1) + b
      BY <1>2, PlaceParts
    <3>2. SubSeq(air, 1, 24)[k] = air[zero + k] /\ zero + k = k
      BY <1>1, <1>7 DEF IsPart
    <3>3. air[k] = Bits(kHeader[i], 8)[9 - b]
      BY <1>1, <1>5, <3>1, FixedBytes
    <3>4. header[i] = kHeader[i]
      BY <1>1, <1>3
    <3> QED
      BY <2>1, <3>1, <3>2, <3>3, <3>4
  <2>3. SubSeq(air, 1, 24) \in Strings(Bit, 8 * three)
    BY <1>2, <1>7 DEF IsPart
  <2> QED
    BY <2>1, <2>2, <2>3, SameBits
<1>9. SubSeq(plain, 1, 40) = MsbFirst(address)
  <2>1. /\ MsbFirst(address) \in Strings(Bit, 8 * five)
        /\ \A i \in 1 .. five, b \in 1 .. 8 :
              MsbFirst(address)[8 * (i - 1) + b] = Bits(address[i], 8)[9 - b]
    BY <1>3, MsbFirstBits
  <2>2. ASSUME NEW i \in 1 .. five, NEW b \in 1 .. 8
        PROVE  SubSeq(plain, 1, 40)[8 * (i - 1) + b] = MsbFirst(address)[8 * (i - 1) + b]
    <3>1. PICK k \in 1 .. a : k = 8 * (i - 1) + b
      BY <1>2, PlaceParts
    <3>2. SubSeq(plain, 1, 40)[k] = plain[zero + k] /\ zero + k = k
      BY <1>1, <1>7 DEF IsPart
    <3>3. plain[k] = Bits(kSeed[6 - i], 8)[9 - b]
      BY <1>1, <1>6, <3>1, FixedBytes
    <3>4. address[i] = kSeed[6 - i]
      BY <1>1, <1>3
    <3> QED
      BY <2>1, <3>1, <3>2, <3>3, <3>4
  <2>3. SubSeq(plain, 1, 40) \in Strings(Bit, 8 * five)
    BY <1>2, <1>7 DEF IsPart
  <2> QED
    BY <2>1, <2>2, <2>3, SameBits
<1> QED
  BY <1>8, <1>9 DEF plain, header, address

\* The first bytes of a telegram.
LEMMA FirstBytes ==
    ASSUME NEW n \in Nat, NEW data \in Strings(ByteBits, n), NEW m \in 0 .. n
    PROVE  IsPart(ByteBits, SubSeq(data, 1, m), data, 0, m)
<1>1. PICK zero \in Nat, k \in Nat : zero = 0 /\ k = m
  OBVIOUS
<1>2. zero + k <= n /\ 1 = zero + 1 /\ k = zero + k
  BY <1>1
<1>3. IsPart(ByteBits, SubSeq(data, 1, k), data, zero, k)
  BY <1>2, PartOfString
<1> QED
  BY <1>1, <1>3

\* A checksum crc16 has inverted.
Inverted(crc) == [i \in 1 .. 16 |-> 1 - crc[i]]
IsSum(crc, data, m) == \A j \in 1 .. 16 : crc16(SubSeq(data, 1, m))[j] = 1 - crc[j]

\* The checksum a hub computes over what it heard, and the one crc16 gives.
LEMMA SumHeard ==
    ASSUME NEW n \in 0 .. 10, NEW data \in Strings(ByteBits, n), NEW m \in 0 .. n,
           NEW plain, IsPlain(plain, data, m)
    PROVE  IsSum(BitCrc(SubSeq(plain, 1, 8 * (m + 5))), data, m)
<1> DEFINE first == SubSeq(data, 1, m)
           s == SubSeq(plain, 1, 8 * (m + 5))
           body == Body(data)
<1>1. PICK k \in Nat, zero \in Nat, l \in Nat, h \in Nat :
         k = m /\ zero = 0 /\ l = 8 * (m + 7) /\ h = 8 * (m + 5)
  OBVIOUS
<1>2. first \in [1 .. k -> ByteBits] /\ \A i \in 1 .. m : first[i] = data[i]
  <2>1. IsPart(ByteBits, first, data, 0, m)
    BY FirstBytes
  <2> HIDE DEF first
  <2>2. \A i \in 1 .. m : 0 + i = i
    OBVIOUS
  <2> QED
    BY <1>1, <2>1, <2>2 DEF IsPart, Strings
<1>3. plain \in Strings(Bit, l) /\ zero + h <= l /\ 1 = zero + 1 /\ h = zero + h
  BY <1>1 DEF IsPlain
<1>4. IsPart(Bit, SubSeq(plain, 1, h), plain, zero, h)
  BY <1>3, PartOfString
<1>5. s \in [1 .. 8 * (k + 5) -> Bit] /\ \A j \in 1 .. h : s[j] = plain[j]
  <2>1. s = SubSeq(plain, 1, h)
    BY <1>1
  <2>2. h = 8 * (k + 5) /\ \A j \in 1 .. h : zero + j = j
    BY <1>1
  <2> HIDE DEF s
  <2> QED
    BY <1>4, <2>1, <2>2 DEF IsPart, Strings
<1>6. /\ \A i \in 1 .. 5 : body[i] = Address[i]
      /\ \A i \in 1 .. n : body[5 + i] = data[i]
  <2>1. n \in Nat
    OBVIOUS
  <2>2. IsBody(body, data, n)
    BY <2>1, BodyParts
  <2> QED
    BY <2>2 DEF IsBody
<1> HIDE DEF first, s, body
<1>7. \A i \in 1 .. m + 7, b \in 1 .. 8 : plain[8 * (i - 1) + b] = body[i][b]
  BY DEF IsPlain, body
<1>8. ASSUME NEW i \in 1 .. 5, NEW b \in 1 .. 8 PROVE s[8 * (i - 1) + b] = Address[i][b]
  <2>1. PICK j \in 1 .. h : j = 8 * (i - 1) + b
    BY <1>1
  <2>2. i \in 1 .. m + 7
    OBVIOUS
  <2> QED
    BY <1>5, <1>6, <1>7, <2>1, <2>2
<1>9. ASSUME NEW i \in 1 .. k, NEW b \in 1 .. 8 PROVE s[8 * (i + 4) + b] = first[i][b]
  <2>1. PICK j \in 1 .. h, p \in 1 .. m + 7 : j = 8 * (i + 4) + b /\ p = 5 + i /\ j = 8 * (p - 1) + b
    <3>1. /\ 8 * (i + 4) + b \in 1 .. h /\ 5 + i \in 1 .. m + 7
          /\ 8 * (i + 4) + b = 8 * ((5 + i) - 1) + b
      BY <1>1
    <3> QED
      BY <3>1
  <2>2. i \in 1 .. m /\ i \in 1 .. n
    BY <1>1
  <2>3. plain[j] = body[p][b] /\ body[p] = data[i]
    BY <1>6, <1>7, <2>1, <2>2
  <2> QED
    BY <1>2, <1>5, <2>1, <2>2, <2>3
<1>10. \A j \in 1 .. 16 : crc16(first)[j] = 1 - BitCrc(s)[j]
  BY <1>2, <1>5, <1>8, <1>9, ChecksumHeard
<1> QED
  BY <1>10 DEF first, s, IsSum

LEMMA SumFits ==
    ASSUME NEW n \in 0 .. 10, NEW data \in Strings(ByteBits, n), NEW m \in 0 .. n,
           NEW plain, IsPlain(plain, data, m), NEW crc, IsSum(crc, data, m)
    PROVE  SubSeq(plain, 8 * (m + 5) + 1, 8 * (m + 7)) = Inverted(crc)
              <=> ChecksumAt(data, m)
<1> DEFINE sum == crc16(SubSeq(data, 1, m))
           tail == SubSeq(plain, 8 * (m + 5) + 1, 8 * (m + 7))
           body == Body(data)
<1>1. PICK l \in Nat, from \in Nat, w \in Nat : l = 8 * (m + 7) /\ from = 8 * (m + 5) /\ w = 16
  OBVIOUS
<1>2. plain \in Strings(Bit, l) /\ from + w <= l /\ l = from + w
  BY <1>1 DEF IsPlain
<1>3. PICK a \in Nat : a = from + 1
  OBVIOUS
<1>4. IsPart(Bit, SubSeq(plain, a, l), plain, from, w)
  BY <1>2, <1>3, PartOfString
<1>5. tail = SubSeq(plain, a, l)
  BY <1>1, <1>3
<1> HIDE DEF tail, sum, body
<1>6. tail = [i \in 1 .. 16 |-> tail[i]] /\ \A i \in 1 .. 16 : tail[i] = plain[from + i]
  BY <1>1, <1>4, <1>5 DEF IsPart, Strings
<1>7. \A b \in 1 .. 8 : plain[from + b] = body[m + 6][b] /\ plain[from + (8 + b)] = body[m + 7][b]
  <2>1. \A i \in 1 .. m + 7, b \in 1 .. 8 : plain[8 * (i - 1) + b] = body[i][b]
    BY DEF IsPlain, body
  <2>2. ASSUME NEW b \in 1 .. 8
        PROVE  plain[from + b] = body[m + 6][b] /\ plain[from + (8 + b)] = body[m + 7][b]
    <3>1. PICK i \in 1 .. m + 7, j \in 1 .. m + 7 : i = m + 6 /\ j = m + 7
      OBVIOUS
    <3>2. from + b = 8 * (i - 1) + b /\ from + (8 + b) = 8 * (j - 1) + b
      BY <1>1, <3>1
    <3> QED
      BY <2>1, <3>1, <3>2
  <2> QED
    BY <2>2
<1>8. \A i \in 1 .. 16 : sum[i] = 1 - crc[i]
  BY DEF sum, IsSum
<1>9. tail = [i \in 1 .. 16 |-> 1 - crc[i]] <=> \A i \in 1 .. 16 : tail[i] = sum[i]
  <2>1. ASSUME tail = [i \in 1 .. 16 |-> 1 - crc[i]] PROVE \A i \in 1 .. 16 : tail[i] = sum[i]
    <3>1. \A i \in 1 .. 16 : tail[i] = 1 - crc[i]
      BY <2>1
    <3> QED
      BY <1>8, <3>1
  <2>2. ASSUME \A i \in 1 .. 16 : tail[i] = sum[i] PROVE tail = [i \in 1 .. 16 |-> 1 - crc[i]]
    BY <1>6, <1>8, <2>2
  <2> QED
    BY <2>1, <2>2
<1>10. (\A i \in 1 .. 16 : tail[i] = sum[i])
          <=> \A b \in 1 .. 8 : body[m + 6][b] = sum[b] /\ body[m + 7][b] = sum[8 + b]
  <2>1. \A b \in 1 .. 8 : /\ b \in 1 .. 16 /\ 8 + b \in 1 .. 16
                          /\ tail[b] = body[m + 6][b] /\ tail[8 + b] = body[m + 7][b]
    BY <1>6, <1>7
  <2>2. \A i \in 1 .. 16 : \E b \in 1 .. 8 : i = b \/ i = 8 + b
    <3>1. ASSUME NEW i \in 1 .. 16 PROVE \E b \in 1 .. 8 : i = b \/ i = 8 + b
      <4>1. i \in 1 .. 8 \/ (i - 8 \in 1 .. 8 /\ i = 8 + (i - 8))
        OBVIOUS
      <4> QED
        BY <4>1
    <3> QED
      BY <3>1
  <2> QED
    BY <2>1, <2>2
<1> QED
  BY <1>9, <1>10 DEF ChecksumAt, Inverted, sum, tail, body

LEMMA TelegramBytes ==
    ASSUME NEW n \in 0 .. 10, NEW data \in Strings(ByteBits, n), NEW m \in 0 .. n,
           NEW plain, IsPlain(plain, data, m), NEW i \in 1 .. m
    PROVE  SubSeq(plain, 8 * (i + 4) + 1, 8 * (i + 5)) = data[i]
<1>1. PICK l \in Nat, from \in Nat, w \in Nat, a \in Nat, e \in Nat :
         l = 8 * (m + 7) /\ from = 8 * (i + 4) /\ w = 8 /\ a = from + 1 /\ e = from + w
  OBVIOUS
<1>2. plain \in Strings(Bit, l) /\ from + w <= l
  BY <1>1 DEF IsPlain
<1>3. IsPart(Bit, SubSeq(plain, a, e), plain, from, w)
  BY <1>1, <1>2, PartOfString
<1> DEFINE byte == SubSeq(plain, a, e)
<1>4. SubSeq(plain, 8 * (i + 4) + 1, 8 * (i + 5)) = byte
  <2>1. 8 * (i + 4) + 1 = a /\ 8 * (i + 5) = e
    BY <1>1
  <2> QED
    BY <2>1
<1> HIDE DEF byte
<1>5. byte = [b \in 1 .. 8 |-> byte[b]] /\ \A b \in 1 .. 8 : byte[b] = plain[from + b]
  BY <1>1, <1>3 DEF IsPart, Strings, byte
<1>6. i \in 1 .. n /\ \A k \in 1 .. n : Body(data)[5 + k] = data[k]
  <2>1. n \in Nat /\ i \in 1 .. n
    OBVIOUS
  <2>2. IsBody(Body(data), data, n)
    BY <2>1, BodyParts
  <2> QED
    BY <2>1, <2>2 DEF IsBody
<1>7. data[i] \in ByteBits
  BY <1>6 DEF Strings
<1>8. ASSUME NEW b \in 1 .. 8 PROVE byte[b] = data[i][b]
  <2>1. PICK j \in 1 .. m + 7 : j = 5 + i
    OBVIOUS
  <2>2. from + b = 8 * (j - 1) + b
    BY <1>1, <2>1
  <2>3. plain[8 * (j - 1) + b] = Body(data)[j][b]
    BY DEF IsPlain
  <2> QED
    BY <1>5, <1>6, <2>1, <2>2, <2>3
<1>9. data[i] = [b \in 1 .. 8 |-> data[i][b]]
  BY <1>7 DEF ByteBits
<1> QED
  BY <1>4, <1>5, <1>8, <1>9

\* A hub that looks for m bytes: it finds the first m of the telegram, if what follows them
\* is their checksum, or nothing.
LEMMA FrameOf ==
    ASSUME NEW n \in 0 .. 10, NEW data \in Strings(ByteBits, n), NEW air, IsSent(air, data, n),
           NEW m \in 0 .. n
    PROVE  Frame(air, m) = IF ChecksumAt(data, m) THEN [i \in 1 .. m |-> Number(data[i])] ELSE None
<1> DEFINE plain == Plain(air, m)
           crc == BitCrc(SubSeq(plain, 1, 8 * (m + 5)))
           tail == SubSeq(plain, 8 * (m + 5) + 1, 8 * (m + 7))
           telegram == [i \in 1 .. m |-> Number(SubSeq(plain, 8 * (i + 4) + 1, 8 * (i + 5)))]
<1>1. IsPlain(plain, data, m)
  BY PlainBits
<1>2. /\ SubSeq(air, 1, 24) = MsbFirst(<<\h71, \h0F, \h55>>)
      /\ SubSeq(plain, 1, 40) = MsbFirst(<<\hC5, \hC4, \hC3, \hC2, \hC1>>)
  BY FixedBits, ZenonT(40)
<1>3. Frame(air, m) =
         IF /\ SubSeq(air, 1, 24) = MsbFirst(<<\h71, \h0F, \h55>>)
            /\ SubSeq(plain, 1, 40) = MsbFirst(<<\hC5, \hC4, \hC3, \hC2, \hC1>>)
            /\ tail = Inverted(crc)
         THEN telegram ELSE None
  BY DEF Frame, Plain, Inverted
<1> HIDE DEF plain
<1>4. IsSum(crc, data, m)
  BY <1>1, SumHeard
<1> HIDE DEF crc
<1>5. tail = Inverted(crc) <=> ChecksumAt(data, m)
  BY <1>1, <1>4, SumFits
<1>6. telegram = [i \in 1 .. m |-> Number(data[i])]
  BY <1>1, TelegramBytes
<1> HIDE DEF tail, telegram
<1> QED
  BY <1>2, <1>3, <1>5, <1>6

\* A telegram found whole, for what follows it is its own checksum.
LEMMA OwnChecksum ==
    ASSUME NEW n \in 0 .. 10, NEW data \in Strings(ByteBits, n)
    PROVE  ChecksumAt(data, n)
<1>1. n \in Nat /\ n \in 0 .. n /\ data \in [1 .. n -> ByteBits]
  BY DEF Strings
<1>2. SubSeq(data, 1, n) = data
  <2> DEFINE first == SubSeq(data, 1, n)
  <2>1. IsPart(ByteBits, first, data, 0, n)
    BY <1>1, FirstBytes
  <2> HIDE DEF first
  <2>2. \A i \in 1 .. n : 0 + i = i
    OBVIOUS
  <2>3. first = [i \in 1 .. n |-> data[i]]
    BY <2>1, <2>2 DEF IsPart, Strings
  <2>4. data = [i \in 1 .. n |-> data[i]]
    BY <1>1
  <2> QED
    BY <2>3, <2>4 DEF first
<1>3. \A b \in 1 .. 8 : /\ Body(data)[n + 6][b] = crc16(data)[b]
                        /\ Body(data)[n + 7][b] = crc16(data)[8 + b]
  BY <1>1, BodyBytes
<1> QED
  BY <1>2, <1>3 DEF ChecksumAt

LEMMA WordOfHalves ==
    ASSUME NEW w \in WordBits, NEW low \in ByteBits, NEW high \in ByteBits
    PROVE  w = low \o high <=> \A b \in 1 .. 8 : low[b] = w[b] /\ high[b] = w[8 + b]
<1>1. PICK k \in Nat : k = 8
  OBVIOUS
<1>2. low \in Strings(Bit, k) /\ high \in Strings(Bit, k)
  BY <1>1 DEF ByteBits, Strings
<1> DEFINE v == low \o high
<1>3. IsJoined(Bit, v, low, k, high, k)
  BY <1>2, JoinedStrings
<1> HIDE DEF v
<1>4. /\ v = [i \in 1 .. 16 |-> v[i]]
      /\ \A b \in 1 .. 8 : v[b] = low[b] /\ v[8 + b] = high[b]
  <2>1. k + k = 16
    BY <1>1
  <2> QED
    BY <1>1, <1>3, <2>1 DEF IsJoined, Strings
<1>5. w = [i \in 1 .. 16 |-> w[i]]
  BY DEF WordBits
<1>6. \A i \in 1 .. 16 : \E b \in 1 .. 8 : i = b \/ i = 8 + b
  <2>1. ASSUME NEW i \in 1 .. 16 PROVE \E b \in 1 .. 8 : i = b \/ i = 8 + b
    <3>1. i \in 1 .. 8 \/ (i - 8 \in 1 .. 8 /\ i = 8 + (i - 8))
      OBVIOUS
    <3> QED
      BY <3>1
  <2> QED
    BY <2>1
<1>7. ASSUME \A b \in 1 .. 8 : low[b] = w[b] /\ high[b] = w[8 + b] PROVE w = v
  <2>1. \A i \in 1 .. 16 : v[i] = w[i]
    BY <1>4, <1>6, <1>7
  <2> QED
    BY <1>4, <1>5, <2>1
<1> QED
  BY <1>4, <1>7 DEF v

\* A longer telegram that a receiver of shorter ones accepts, too.
LEMMA ShorterFits ==
    ASSUME NEW telegram \in [1 .. 10 -> Byte]
    PROVE  /\ ChecksumAt(Bytes(telegram), 8) <=> ChecksumFits(telegram)
           /\ SubSeq(telegram, 1, 8) = [i \in 1 .. 8 |-> telegram[i]]
<1>1. PICK n \in 0 .. 10, m \in 0 .. 10, zero \in Nat :
         n = 10 /\ m = 8 /\ zero = 0 /\ n \in Nat /\ m \in 0 .. n /\ m \in Nat
  OBVIOUS
<1> DEFINE data == Bytes(telegram)
           first == SubSeq(data, 1, m)
           short == SubSeq(telegram, 1, m)
           body == Body(data)
<1>2. data \in Strings(ByteBits, n) /\ \A i \in 1 .. n : data[i] = Bits(telegram[i], 8)
  BY <1>1, BytesOf
<1>3. short \in [1 .. 8 -> Byte] /\ \A i \in 1 .. 8 : short[i] = telegram[i]
  <2>1. telegram \in Strings(Byte, n) /\ zero + m <= n /\ 1 = zero + 1 /\ m = zero + m
    BY <1>1 DEF Strings
  <2>2. IsPart(Byte, short, telegram, zero, m)
    BY <1>1, <2>1, PartOfString
  <2>3. \A i \in 1 .. 8 : zero + i = i
    BY <1>1
  <2> HIDE DEF short
  <2> QED
    BY <1>1, <2>2, <2>3 DEF IsPart, Strings
<1> HIDE DEF data, short
<1>4. IsPart(ByteBits, first, data, 0, m)
  BY <1>1, <1>2, FirstBytes
<1> HIDE DEF first
<1>5. /\ first = [i \in 1 .. 8 |-> first[i]] /\ first \in [1 .. 8 -> ByteBits]
      /\ \A i \in 1 .. 8 : first[i] = data[i]
  <2>1. \A i \in 1 .. 8 : 0 + i = i
    OBVIOUS
  <2> QED
    BY <1>1, <1>4, <2>1 DEF IsPart, Strings
<1>6. first = Bytes(short)
  <2>1. short \in [1 .. m -> Byte]
    BY <1>1, <1>3
  <2>2. Bytes(short) \in Strings(ByteBits, m) /\ \A i \in 1 .. m : Bytes(short)[i] = Bits(short[i], 8)
    BY <1>1, <2>1, BytesOf
  <2>3. Bytes(short) = [i \in 1 .. 8 |-> Bytes(short)[i]]
    BY <1>1, <2>2 DEF Strings
  <2>4. \A i \in 1 .. 8 : first[i] = Bytes(short)[i]
    BY <1>1, <1>2, <1>3, <1>5, <2>2
  <2> QED
    BY <1>5, <2>3, <2>4
<1>7. crc16(first) \in WordBits
  BY <1>1, <1>5, ChecksumType
<1>8. IsBody(body, data, n)
  BY <1>1, <1>2, BodyParts
<1> HIDE DEF body
<1>9. /\ body[m + 6] = Bits(telegram[9], 8) /\ Bits(telegram[9], 8) \in ByteBits
      /\ body[m + 7] = Bits(telegram[10], 8) /\ Bits(telegram[10], 8) \in ByteBits
  <2>1. 9 \in 1 .. n /\ 10 \in 1 .. n /\ 5 + 9 = m + 6 /\ 5 + 10 = m + 7
    BY <1>1
  <2>2. body[m + 6] = data[9] /\ body[m + 7] = data[10]
    BY <1>8, <2>1 DEF IsBody
  <2> QED
    BY <1>2, <2>1, <2>2 DEF Strings
<1>10. ChecksumAt(data, m) <=>
          \A b \in 1 .. 8 : /\ Bits(telegram[9], 8)[b] = crc16(first)[b]
                            /\ Bits(telegram[10], 8)[b] = crc16(first)[8 + b]
  BY <1>9 DEF ChecksumAt, first, body
<1>11. ChecksumFits(telegram) <=> crc16(first) = Bits(telegram[9], 8) \o Bits(telegram[10], 8)
  BY <1>1, <1>6 DEF ChecksumFits, short
<1>12. ChecksumAt(data, m) <=> ChecksumFits(telegram)
  <2>1. crc16(first) = Bits(telegram[9], 8) \o Bits(telegram[10], 8) <=>
           \A b \in 1 .. 8 : /\ Bits(telegram[9], 8)[b] = crc16(first)[b]
                             /\ Bits(telegram[10], 8)[b] = crc16(first)[8 + b]
    BY <1>7, <1>9, WordOfHalves, Zenon
  <2> QED
    BY <1>10, <1>11, <2>1, Zenon
<1>13. short = [i \in 1 .. 8 |-> telegram[i]]
  <2>1. short = [i \in 1 .. 8 |-> short[i]]
    BY <1>3
  <2> QED
    BY <1>3, <2>1
<1> QED
  BY <1>1, <1>12, <1>13 DEF data, short

LEMMA EightTimes ==
    ASSUME NEW n \in Nat
    PROVE  \E len \in Nat : len = 8 * (n + 10)
OBVIOUS

\* What a hub makes of a telegram is the telegram.
LEMMA HeardOf ==
    ASSUME NEW n \in {8, 10}, NEW telegram \in [1 .. n -> Byte], dataLen = n + 17,
           \A i \in 1 .. n + 10 : buffer[7 + i] = Encrypt(Bytes(telegram))[i]
    PROVE  Heard = {telegram}
              \cup (IF n = 10 /\ ChecksumFits(telegram) THEN {SubSeq(telegram, 1, 8)} ELSE {})
<1> DEFINE data == Bytes(telegram)
           air == OnAir
<1>1. n \in 0 .. 10 /\ n \in Nat
  OBVIOUS
<1>2. data \in Strings(ByteBits, n) /\ \A i \in 1 .. n : data[i] = Bits(telegram[i], 8)
  BY <1>1, BytesOf
<1>3. \A i \in 1 .. n + 10 : buffer[7 + i] = Encrypt(data)[i]
  OBVIOUS
<1> HIDE DEF data
<1>4. IsSent(air, data, n)
  BY <1>1, <1>2, <1>3, PayloadOnAir
<1> HIDE DEF air
<1>5. Len(air) = 8 * (n + 10)
  <2>1. air \in Strings(Bit, 8 * (n + 10))
    BY <1>4, Zenon DEF IsSent
  <2>2. PICK len \in Nat : len = 8 * (n + 10)
    <3>1. n \in Nat
      BY <1>1, Zenon
    <3> QED
      BY <3>1, EightTimes, Zenon
  <2>3. air \in [1 .. len -> Bit]
    BY <2>1, <2>2, Zenon DEF Strings
  <2>4. Len(air) = len
    BY <2>3, SequenceOf
  <2> QED
    BY <2>2, <2>4, Zenon
<1>6. \A i \in 1 .. n : Number(data[i]) = telegram[i]
  BY <1>2, NumberOfBits
<1>7. ASSUME NEW m \in 0 .. n
      PROVE  Frame(air, m) = IF ChecksumAt(data, m) THEN [i \in 1 .. m |-> telegram[i]] ELSE None
  <2>1. Frame(air, m) = IF ChecksumAt(data, m) THEN [i \in 1 .. m |-> Number(data[i])] ELSE None
    BY <1>1, <1>2, <1>4, FrameOf
  <2>2. [i \in 1 .. m |-> Number(data[i])] = [i \in 1 .. m |-> telegram[i]]
    BY <1>6
  <2> QED
    BY <2>1, <2>2
<1>8. Frame(air, n) = telegram
  <2>1. n \in 0 .. n /\ ChecksumAt(data, n)
    BY <1>1, <1>2, OwnChecksum
  <2>2. telegram = [i \in 1 .. n |-> telegram[i]]
    OBVIOUS
  <2> QED
    BY <1>7, <2>1, <2>2
<1>9. telegram # None
  <2>1. telegram \in Seq(Byte)
    OBVIOUS
  <2> QED
    BY <2>1, NoneAssumption
<1>10. Heard = {Frame(air, m) : m \in {k \in {8, 10} : 8 * (k + 10) <= Len(air)}} \ {None}
  BY DEF Heard, air
<1>11. CASE n = 8
  <2>1. {k \in {8, 10} : 8 * (k + 10) <= Len(air)} = {8}
    BY <1>5, <1>11
  <2>2. Frame(air, 8) = telegram
    BY <1>8, <1>11
  <2>3. {Frame(air, m) : m \in {8}} = {Frame(air, 8)}
    OBVIOUS
  <2>4. Heard = {Frame(air, m) : m \in {8}} \ {None}
    BY <1>10, <2>1, Zenon
  <2>5. Heard = {telegram}
    BY <1>9, <2>2, <2>3, <2>4
  <2> QED
    BY <1>11, <2>5
<1>12. CASE n = 10
  <2>1. {k \in {8, 10} : 8 * (k + 10) <= Len(air)} = {8, 10}
    BY <1>5, <1>12
  <2>2. Heard = {Frame(air, 8), telegram} \ {None}
    <3>1. Frame(air, 10) = telegram
      BY <1>8, <1>12
    <3>2. {Frame(air, m) : m \in {8, 10}} = {Frame(air, 8), Frame(air, 10)}
      OBVIOUS
    <3>3. Heard = {Frame(air, m) : m \in {8, 10}} \ {None}
      BY <1>10, <2>1, Zenon
    <3> QED
      BY <3>1, <3>2, <3>3
  <2>3. telegram \in [1 .. 10 -> Byte] /\ 8 \in 0 .. n
    BY <1>12
  <2>4. /\ ChecksumAt(data, 8) <=> ChecksumFits(telegram)
        /\ SubSeq(telegram, 1, 8) = [i \in 1 .. 8 |-> telegram[i]]
    BY <2>3, ShorterFits DEF data
  <2>5. Frame(air, 8) = IF ChecksumFits(telegram) THEN SubSeq(telegram, 1, 8) ELSE None
    BY <1>7, <2>3, <2>4
  <2>6. SubSeq(telegram, 1, 8) # None
    <3>1. [i \in 1 .. 8 |-> telegram[i]] \in Seq(Byte)
      BY <2>3
    <3> QED
      BY <2>4, <3>1, NoneAssumption
  <2> QED
    BY <1>9, <1>12, <2>2, <2>5, <2>6
<1> QED
  BY <1>11, <1>12

-----------------------------------------------------------------------------
\* What a hub makes of a mixture

\* One byte of the buffer is a telegram's: the air carries it where the telegram would.
LEMMA ByteOnAir ==
    ASSUME NEW n \in 0 .. 10, NEW data \in Strings(ByteBits, n), NEW k \in 0 .. 20, dataLen = k + 7,
           NEW i \in 1 .. n + 7, 3 + i <= k, buffer[10 + i] = Encrypt(data)[3 + i]
    PROVE  \A b \in 1 .. 8 :
              OnAir[24 + (8 * (i - 1) + b)] = (Body(data)[i][b] + HubSequence[8 * (i - 1) + b]) % 2
<1> DEFINE air == OnAir
           sent == Encrypt(data)
<1>1. n \in Nat /\ data \in [1 .. n -> ByteBits]
  BY DEF Strings
<1>2. \A b \in 1 .. 8 : sent[3 + i][b] = (((Body(data)[i][b] + Pass1[i][b]) % 2) + Pass2[18 + i][b]) % 2
  BY <1>1, PayloadBytes
<1>3. Body(data)[i] \in ByteBits /\ Pass1[i] \in ByteBits /\ Pass2[18 + i] \in ByteBits
  <2>1. Body(data) \in [1 .. n + 7 -> ByteBits]
    BY <1>1, BodyBytes
  <2>2. i \in 1 .. 17 /\ 18 + i \in 1 .. 35
    OBVIOUS
  <2> QED
    BY <2>1, <2>2, PassFacts
<1>4. air = [j \in 1 .. 8 * k |->
                (buffer[8 + ((j - 1) \div 8)][1 + ((j - 1) % 8)] + Channel37[8 * 15 + j]) % 2]
  <2>1. dataLen - 7 = k
    OBVIOUS
  <2> QED
    BY <2>1 DEF OnAir
<1> HIDE DEF air, sent
<1>5. ASSUME NEW b \in 1 .. 8
      PROVE  air[24 + (8 * (i - 1) + b)] = (Body(data)[i][b] + HubSequence[8 * (i - 1) + b]) % 2
  <2>1. PICK p \in 1 .. k, q \in 1 .. 35, l \in 1 .. 17 :
           p = 3 + i /\ q = 18 + i /\ l = i
    OBVIOUS
  <2>2. PICK j \in 1 .. 8 * k : j = 8 * (p - 1) + b
    BY PlaceParts
  <2>3. 8 + ((j - 1) \div 8) = 7 + p /\ 1 + ((j - 1) % 8) = b
    BY <2>2, PlaceParts
  <2>4. buffer[7 + p] = sent[p]
    <3>1. 7 + p = 10 + i
      BY <2>1
    <3> QED
      BY <2>1, <3>1 DEF sent
  <2>5. Pass2[q][b] = Channel37[8 * 15 + j]
    <3>1. Pass2[q][b] = Channel37[8 * (q - 1) + b]
      BY PassFacts, Zenon
    <3>2. 8 * (q - 1) + b = 8 * 15 + j
      BY <2>1, <2>2
    <3> QED
      BY <3>1, <3>2, Zenon
  <2>6. air[j] = (sent[p][b] + Pass2[q][b]) % 2
    BY <1>4, <2>3, <2>4, <2>5
  <2> DEFINE x == (Body(data)[i][b] + Pass1[i][b]) % 2
             y == Pass2[q][b]
  <2>7. x \in Bit /\ y \in Bit
    <3>1. Body(data)[i][b] \in Bit /\ Pass1[i][b] \in Bit /\ Pass2[q][b] \in Bit
      BY <1>3, <2>1 DEF ByteBits
    <3> QED
      BY <3>1, BitFacts
  <2>8. sent[p][b] = (x + y) % 2
    BY <1>2, <2>1
  <2>9. Pass1[i][b] = HubSequence[8 * (i - 1) + b]
    <3>1. Pass1[l][b] = HubSequence[8 * (l - 1) + b]
      BY PassFacts, Zenon
    <3> QED
      BY <2>1, <3>1
  <2> HIDE DEF x, y
  <2>10. air[j] = x
    BY <2>6, <2>7, <2>8, BitFacts DEF y
  <2>11. j = 24 + (8 * (i - 1) + b)
    BY <2>1, <2>2
  <2> QED
    BY <2>9, <2>10, <2>11 DEF x
<1> QED
  BY <1>5 DEF air

\* And the hub descrambles it, in a frame of any length that reaches so far.
LEMMA ByteHeard ==
    ASSUME NEW n \in 0 .. 10, NEW data \in Strings(ByteBits, n), NEW k \in 0 .. 20, dataLen = k + 7,
           NEW m \in 0 .. 10, m + 10 <= k, NEW i \in 1 .. m, i <= n + 2,
           buffer[15 + i] = Encrypt(data)[8 + i]
    PROVE  SubSeq(Plain(OnAir, m), 8 * (i + 4) + 1, 8 * (i + 5)) = Body(data)[5 + i]
<1> DEFINE plain == Plain(OnAir, m)
           Some == {plain[j] : j \in 1 .. 8 * (m + 7)}
<1>1. PICK l \in Nat, from \in Nat, w \in Nat, a \in Nat, e \in Nat :
         l = 8 * (m + 7) /\ from = 8 * (i + 4) /\ w = 8 /\ a = from + 1 /\ e = from + w
  OBVIOUS
<1>2. plain = [j \in 1 .. l |-> (OnAir[24 + j] + HubSequence[j]) % 2] /\ from + w <= l
  BY <1>1 DEF Plain
<1>3. plain \in Strings(Some, l)
  <2>1. plain = [j \in 1 .. l |-> plain[j]]
    BY <1>2
  <2>2. \A j \in 1 .. l : plain[j] \in Some
    BY <1>1
  <2> HIDE DEF plain, Some
  <2> QED
    BY <2>1, <2>2 DEF Strings
<1> DEFINE byte == SubSeq(plain, a, e)
<1> HIDE DEF plain, Some
<1>4. IsPart(Some, byte, plain, from, w)
  BY <1>1, <1>2, <1>3, PartOfString
<1>5. SubSeq(plain, 8 * (i + 4) + 1, 8 * (i + 5)) = byte
  <2>1. 8 * (i + 4) + 1 = a /\ 8 * (i + 5) = e
    BY <1>1
  <2> QED
    BY <2>1
<1> HIDE DEF byte
<1>6. byte = [b \in 1 .. 8 |-> byte[b]] /\ \A b \in 1 .. 8 : byte[b] = plain[from + b]
  BY <1>1, <1>4 DEF IsPart, Strings
<1>7. PICK j \in 1 .. n + 7 : j = 5 + i /\ j \in 1 .. m + 7 /\ j \in 1 .. 17
  OBVIOUS
<1>8. \A b \in 1 .. 8 :
         OnAir[24 + (8 * (j - 1) + b)] = (Body(data)[j][b] + HubSequence[8 * (j - 1) + b]) % 2
  <2>1. 3 + j <= k /\ 10 + j = 15 + i /\ 3 + j = 8 + i
    BY <1>7
  <2>2. buffer[10 + j] = Encrypt(data)[3 + j]
    BY <2>1
  <2> QED
    BY <2>1, <2>2, ByteOnAir
<1>9. Body(data)[j] \in ByteBits
  <2>1. data \in [1 .. n -> ByteBits] /\ n \in Nat
    BY DEF Strings
  <2>2. Body(data) \in [1 .. n + 7 -> ByteBits]
    BY <2>1, BodyBytes
  <2> QED
    BY <2>2
<1>10. ASSUME NEW b \in 1 .. 8 PROVE byte[b] = Body(data)[j][b]
  <2>1. PICK q \in 1 .. l : q = 8 * (j - 1) + b /\ q = from + b
    BY <1>1, <1>7
  <2>2. Pass1[j] \in ByteBits /\ Pass1[j][b] = HubSequence[q]
    BY <1>7, <2>1, PassFacts
  <2>3. Body(data)[j][b] \in Bit /\ HubSequence[q] \in Bit
    BY <1>9, <2>2 DEF ByteBits
  <2>4. OnAir[24 + q] = (Body(data)[j][b] + HubSequence[q]) % 2
    BY <1>8, <2>1
  <2>5. plain[q] = (((Body(data)[j][b] + HubSequence[q]) % 2) + HubSequence[q]) % 2
    BY <1>2, <2>4
  <2>6. plain[q] = Body(data)[j][b]
    BY <2>3, <2>5, BitFacts
  <2> QED
    BY <1>6, <2>1, <2>6
<1>11. Body(data)[j] = [b \in 1 .. 8 |-> Body(data)[j][b]]
  BY <1>9 DEF ByteBits
<1> QED
  BY <1>5, <1>6, <1>7, <1>10, <1>11 DEF plain

\* The bytes of a telegram's payload between address and end, as numbers.
LEMMA WithChecksumBytes ==
    ASSUME NEW n \in 0 .. 10, NEW telegram \in [1 .. n -> Byte], NEW i \in 1 .. n + 2
    PROVE  /\ Number(Body(Bytes(telegram))[5 + i]) = WithChecksum(telegram)[i]
           /\ i <= n => Number(Body(Bytes(telegram))[5 + i]) = telegram[i]
<1> DEFINE data == Bytes(telegram)
           crc == crc16(data)
           low == SubSeq(crc, 1, 8)
           high == SubSeq(crc, 9, 16)
           sum == <<Number(low), Number(high)>>
<1>1. n \in Nat /\ data \in Strings(ByteBits, n) /\ \A j \in 1 .. n : data[j] = Bits(telegram[j], 8)
  BY BytesOf
<1>2. WithChecksum(telegram) = telegram \o sum
  BY DEF WithChecksum
<1> HIDE DEF data
<1>3. data \in [1 .. n -> ByteBits]
  BY <1>1 DEF Strings
<1>4. /\ Body(data) \in [1 .. n + 7 -> ByteBits]
      /\ \A j \in 1 .. n : Body(data)[5 + j] = data[j]
      /\ \A b \in 1 .. 8 : /\ Body(data)[n + 6][b] = crc[b]
                           /\ Body(data)[n + 7][b] = crc[8 + b]
  BY <1>1, <1>3, BodyBytes
<1>5. crc \in WordBits
  BY <1>1, <1>3, ChecksumType
<1> HIDE DEF crc
<1>6. /\ low \in ByteBits /\ high \in ByteBits
      /\ \A b \in 1 .. 8 : low[b] = crc[b] /\ high[b] = crc[8 + b]
  BY <1>5, WordHalves
<1> HIDE DEF low, high
<1>7. ASSUME NEW x \in ByteBits, NEW y \in ByteBits, \A b \in 1 .. 8 : x[b] = y[b]
      PROVE  x = y
  BY <1>7 DEF ByteBits
<1>8. Body(data)[n + 6] = low /\ Body(data)[n + 7] = high
  <2>1. n + 6 \in 1 .. n + 7 /\ n + 7 \in 1 .. n + 7
    OBVIOUS
  <2>2. Body(data)[n + 6] \in ByteBits /\ Body(data)[n + 7] \in ByteBits
    BY <1>4, <2>1
  <2> QED
    BY <1>4, <1>6, <1>7, <2>2
<1>9. sum \in [1 .. 2 -> Byte] /\ sum[1] = Number(low) /\ sum[2] = Number(high)
  <2>1. Number(low) \in Byte /\ Number(high) \in Byte
    BY <1>6, NumberType
  <2> QED
    BY <2>1
<1> HIDE DEF sum
<1>10. PICK two \in Nat : two = 2
  OBVIOUS
<1>11. IsJoined(Byte, telegram \o sum, telegram, n, sum, two)
  <2>1. telegram \in Strings(Byte, n) /\ sum \in Strings(Byte, two)
    BY <1>9, <1>10 DEF Strings
  <2> QED
    BY <1>1, <2>1, JoinedStrings
<1>12. CASE i <= n
  <2>1. i \in 1 .. n
    BY <1>12
  <2>2. Body(data)[5 + i] = Bits(telegram[i], 8) /\ telegram[i] \in Byte
    BY <1>1, <1>4, <2>1
  <2>3. (telegram \o sum)[i] = telegram[i]
    BY <1>11, <2>1 DEF IsJoined
  <2> QED
    BY <1>2, <2>2, <2>3, NumberOfBits DEF data
<1>13. CASE ~(i <= n)
  <2>1. i = n + 1 \/ i = n + 2
    BY <1>13
  <2>2. (telegram \o sum)[n + 1] = Number(low) /\ (telegram \o sum)[n + 2] = Number(high)
    <3>1. 1 \in 1 .. two /\ 2 \in 1 .. two
      BY <1>10
    <3> QED
      BY <1>9, <1>11, <3>1 DEF IsJoined
  <2>3. 5 + (n + 1) = n + 6 /\ 5 + (n + 2) = n + 7
    OBVIOUS
  <2> QED
    BY <1>2, <1>8, <1>13, <2>1, <2>2, <2>3 DEF data
<1> QED
  BY <1>12, <1>13

-----------------------------------------------------------------------------
\* What is staged

\* The buffer and the length are those of one telegram.
Carries(telegram, n) ==
    dataLen = n + 17 /\ \A i \in 1 .. n + 10 : buffer[7 + i] = Encrypt(Bytes(telegram))[i]

\* Each payload byte of the buffer is the CONNECT's or the order's, in its place.
Blends(o) ==
    /\ dataLen \in {25, 27}
    /\ \A i \in 1 .. 20 : \/ buffer[7 + i] = Encrypt(Bytes(Control(o)))[i]
                          \/ i <= 18 /\ buffer[7 + i] = Encrypt(Bytes(Connect))[i]

\* What the properties rest on: a buffer that is not a mixture is the payload of the
\* telegram staged last, with its own length, and a mixture is one byte by byte.
IInv ==
    /\ TypeOK
    /\ staged = "connect" => Carries(Connect, 8)
    /\ staged = "control" => order \in Orders /\ Carries(Control(order), 10)
    /\ staged = "mixed" => order \in Orders /\ Blends(order)

\* The advertisement of a telegram.
IsAdvertisement(data, telegram, n) ==
    /\ data \in Strings(ByteBits, n + 17) /\ Len(data) = n + 17
    /\ \A i \in 1 .. n + 10 : data[7 + i] = Encrypt(Bytes(telegram))[i]

LEMMA AdvertisementOf ==
    ASSUME NEW n \in 0 .. 10, NEW telegram \in [1 .. n -> Byte]
    PROVE  IsAdvertisement(AdvData(Encrypt(Bytes(telegram))), telegram, n)
<1> DEFINE data == AdvData(Encrypt(Bytes(telegram)))
<1>1. /\ data \in Strings(ByteBits, n + 17)
      /\ \A i \in 1 .. n + 10 : data[7 + i] = Encrypt(Bytes(telegram))[i]
  BY PayloadOf
<1> HIDE DEF data
<1>2. Len(data) = n + 17
  BY <1>1 DEF Strings
<1> QED
  BY <1>1, <1>2 DEF IsAdvertisement, data

LEMMA ConnectAdvertisement ==
    /\ IsAdvertisement(AdvData(ConnectPayload), Connect, 8)
    /\ ConnectPayload \in Strings(ByteBits, 18)
<1>1. PICK n \in 0 .. 10 : n = 8
  OBVIOUS
<1>2. kTelegramConnect \in [1 .. n -> Byte] /\ Connect = kTelegramConnect
  BY <1>1, ConnectTelegram
<1>3. ConnectPayload = Encrypt(Bytes(kTelegramConnect))
  BY DEF ConnectPayload
<1>4. IsAdvertisement(AdvData(Encrypt(Bytes(kTelegramConnect))), kTelegramConnect, n)
  BY <1>2, AdvertisementOf
<1>5. Encrypt(Bytes(kTelegramConnect)) \in Strings(ByteBits, n + 10)
  BY <1>2, PayloadOf
<1>6. n + 10 = 18
  BY <1>1
<1> QED
  BY <1>1, <1>2, <1>3, <1>4, <1>5, <1>6

LEMMA ControlAdvertisement ==
    ASSUME NEW o \in Orders
    PROVE  /\ IsAdvertisement(AdvData(Encrypt(Bytes(Control(o)))), Control(o), 10)
           /\ Control(o) \in [1 .. 10 -> Byte] /\ Control(o) = Ordered(o)
<1>1. PICK n \in 0 .. 10 : n = 10
  OBVIOUS
<1>2. o \in [device : 0 .. 2, values : [1 .. 6 -> Byte]]
  BY OrdersAssumption
<1>3. Control(o) \in [1 .. 10 -> Byte] /\ Control(o) = Ordered(o)
  BY <1>2, ControlTelegram
<1>4. IsAdvertisement(AdvData(Encrypt(Bytes(Control(o)))), Control(o), n)
  BY <1>1, <1>3, AdvertisementOf
<1> QED
  BY <1>1, <1>3, <1>4

\* A CONNECT over whatever the buffer held.
LEMMA ConnectOver ==
    ASSUME NEW old \in [1 .. MKH_ADV_BUF_LEN -> ByteBits]
    PROVE  /\ Over(AdvData(ConnectPayload), old) \in [1 .. MKH_ADV_BUF_LEN -> ByteBits]
           /\ \A i \in 1 .. 18 : Over(AdvData(ConnectPayload), old)[7 + i] = Encrypt(Bytes(Connect))[i]
           /\ Len(AdvData(ConnectPayload)) = 25
<1> DEFINE new == AdvData(ConnectPayload)
<1>1. PICK m \in Nat, n \in Nat : m = 25 /\ n = 27 /\ n = MKH_ADV_BUF_LEN /\ m <= n
  BY DEF MKH_ADV_BUF_LEN
<1>2. IsAdvertisement(new, Connect, 8)
  BY ConnectAdvertisement
<1> HIDE DEF new
<1>3. /\ new \in Strings(ByteBits, m) /\ Len(new) = 25
      /\ \A i \in 1 .. 18 : new[7 + i] = Encrypt(Bytes(Connect))[i]
  BY <1>1, <1>2 DEF IsAdvertisement
<1>4. old \in Strings(ByteBits, n)
  BY <1>1 DEF Strings
<1>5. Over(new, old) \in Strings(ByteBits, n) /\ \A i \in 1 .. m : Over(new, old)[i] = new[i]
  BY <1>1, <1>3, <1>4, OverBytes, ZenonT(40)
<1>6. \A i \in 1 .. 18 : 7 + i \in 1 .. m
  BY <1>1
<1> QED
  BY <1>1, <1>3, <1>5, <1>6 DEF Strings, new

LEMMA InitStaged == Init => IInv
<1> SUFFICES ASSUME Init PROVE IInv
  OBVIOUS
<1> DEFINE zeros == [i \in 1 .. MKH_ADV_BUF_LEN |-> Bits(0, 8)]
<1>1. zeros \in [1 .. MKH_ADV_BUF_LEN -> ByteBits]
  <2>1. Bits(0, 8) \in ByteBits
    BY BitsType DEF ByteBits
  <2> QED
    BY <2>1
<1>2. staged = "connect" /\ order = None
  BY DEF Init
<1>3. buffer = Over(AdvData(ConnectPayload), zeros) /\ dataLen = Len(AdvData(ConnectPayload))
  BY DEF Init
<1> HIDE DEF zeros
<1>4. /\ buffer \in [1 .. MKH_ADV_BUF_LEN -> ByteBits] /\ dataLen = 25
      /\ \A i \in 1 .. 18 : buffer[7 + i] = Encrypt(Bytes(Connect))[i]
  BY <1>1, <1>3, ConnectOver
<1>5. 25 \in 1 .. MKH_ADV_BUF_LEN /\ 8 + 17 = 25 /\ 8 + 10 = 18
  BY DEF MKH_ADV_BUF_LEN
<1> QED
  BY <1>2, <1>4, <1>5 DEF IInv, TypeOK, Carries

LEMMA StepStaged == IInv /\ [Next]_vars => IInv'
<1> SUFFICES ASSUME IInv, [Next]_vars PROVE IInv'
  OBVIOUS
<1>0. TypeOK
  BY DEF IInv
<1>1. ASSUME NEW o \in Orders, SendControl(o) PROVE IInv'
  <2> DEFINE data == AdvData(Encrypt(Bytes(Control(o))))
  <2>1. staged' = "control" /\ order' = o /\ buffer' = data /\ dataLen' = Len(buffer')
    BY <1>1 DEF SendControl
  <2>2. IsAdvertisement(data, Control(o), 10)
    BY ControlAdvertisement
  <2> HIDE DEF data
  <2>3. /\ data \in [1 .. MKH_ADV_BUF_LEN -> ByteBits] /\ Len(data) = 27
        /\ \A i \in 1 .. 20 : data[7 + i] = Encrypt(Bytes(Control(o)))[i]
    BY <2>2 DEF IsAdvertisement, Strings, MKH_ADV_BUF_LEN
  <2>4. 27 \in 1 .. MKH_ADV_BUF_LEN /\ 10 + 17 = 27 /\ 10 + 10 = 20
    BY DEF MKH_ADV_BUF_LEN
  <2>5. TypeOK'
    BY <2>1, <2>3, <2>4 DEF TypeOK
  <2>6. Carries(Control(order), 10)'
    BY <2>1, <2>3, <2>4 DEF Carries
  <2> QED
    BY <2>1, <2>5, <2>6 DEF IInv
<1>2. CASE ReplayConnect
  <2>1. /\ staged' = "connect" /\ order' = order
        /\ buffer' = Over(AdvData(ConnectPayload), buffer) /\ dataLen' = Len(AdvData(ConnectPayload))
    BY <1>2 DEF ReplayConnect
  <2>2. buffer \in [1 .. MKH_ADV_BUF_LEN -> ByteBits]
    BY <1>0 DEF TypeOK
  <2>3. /\ buffer' \in [1 .. MKH_ADV_BUF_LEN -> ByteBits] /\ dataLen' = 25
        /\ \A i \in 1 .. 18 : buffer'[7 + i] = Encrypt(Bytes(Connect))[i]
    BY <2>1, <2>2, ConnectOver
  <2>4. 25 \in 1 .. MKH_ADV_BUF_LEN /\ 8 + 17 = 25 /\ 8 + 10 = 18
    BY DEF MKH_ADV_BUF_LEN
  <2>5. TypeOK'
    BY <1>0, <2>1, <2>3, <2>4 DEF TypeOK
  <2>6. Carries(Connect, 8)'
    BY <2>3, <2>4 DEF Carries
  <2> QED
    BY <2>1, <2>5, <2>6 DEF IInv
<1>3. CASE Collide
  <2>1. PICK fromConnect \in SUBSET Differing(order) : buffer' = Mixture(order, fromConnect)
    BY <1>3 DEF Collide
  <2>2. /\ order \in Orders /\ staged' = "mixed" /\ order' = order
        /\ dataLen' \in {Len(AdvData(ConnectPayload)), MKH_ADV_BUF_LEN}
    BY <1>3, OrdersAssumption DEF Collide
  <2> DEFINE connect == AdvData(ConnectPayload)
             control == AdvData(Encrypt(Bytes(Control(order))))
  <2>3. IsAdvertisement(control, Control(order), 10) /\ IsAdvertisement(connect, Connect, 8)
    BY <2>2, ControlAdvertisement, ConnectAdvertisement
  <2>4. /\ buffer' = [i \in DOMAIN control |-> IF i \in fromConnect THEN connect[i] ELSE control[i]]
        /\ fromConnect \subseteq DOMAIN connect
    BY <2>1 DEF Mixture, Differing
  <2>5. dataLen' \in {25, 27} /\ MKH_ADV_BUF_LEN = 27
    BY <2>2, <2>3 DEF IsAdvertisement, MKH_ADV_BUF_LEN
  <2> HIDE DEF connect, control
  <2>6. /\ control \in [1 .. 27 -> ByteBits] /\ connect \in [1 .. 25 -> ByteBits]
        /\ \A i \in 1 .. 20 : control[7 + i] = Encrypt(Bytes(Control(order)))[i]
        /\ \A i \in 1 .. 18 : connect[7 + i] = Encrypt(Bytes(Connect))[i]
    BY <2>3 DEF IsAdvertisement, Strings
  <2>7. fromConnect \subseteq 1 .. 25
    BY <2>4, <2>6
  <2>8. buffer' = [i \in 1 .. 27 |-> IF i \in fromConnect THEN connect[i] ELSE control[i]]
    BY <2>4, <2>6
  <2>9. buffer' \in [1 .. MKH_ADV_BUF_LEN -> ByteBits]
    <3>1. ASSUME NEW i \in 1 .. 27
          PROVE  (IF i \in fromConnect THEN connect[i] ELSE control[i]) \in ByteBits
      BY <2>6, <2>7
    <3> QED
      BY <2>5, <2>8, <3>1
  <2>10. TypeOK'
    BY <1>0, <2>2, <2>5, <2>9 DEF TypeOK
  <2>11. ASSUME NEW i \in 1 .. 20
         PROVE  \/ buffer'[7 + i] = Encrypt(Bytes(Control(order)))[i]
                \/ i <= 18 /\ buffer'[7 + i] = Encrypt(Bytes(Connect))[i]
    <3>1. PICK j \in 1 .. 27 : j = 7 + i
      OBVIOUS
    <3>2. CASE j \in fromConnect
      <4>1. i \in 1 .. 18
        BY <2>7, <3>1, <3>2
      <4> QED
        BY <2>6, <2>8, <3>1, <3>2, <4>1
    <3>3. CASE j \notin fromConnect
      BY <2>6, <2>8, <3>1, <3>3
    <3> QED
      BY <3>2, <3>3
  <2>12. Blends(order)'
    BY <2>2, <2>5, <2>11 DEF Blends
  <2> QED
    BY <2>2, <2>10, <2>12 DEF IInv
<1>4. CASE UNCHANGED vars
  BY <1>4 DEF IInv, TypeOK, Carries, Blends, vars
<1> QED
  BY <1>1, <1>2, <1>3, <1>4 DEF Next

\* mkh_broadcast.c:188: unless both tasks are in mkh_set_adv_payload at once, the buffer and
\* the length handed to the stack are those of one telegram, whatever stood there before.
THEOREM Staged == Spec => []IInv
<1> QED
  BY InitStaged, StepStaged, PTL DEF Spec

\* mkh_protocol.c:157 and mkh_broadcast.c:188: for all orders, whichever is staged after
\* whichever and however the two tasks' copies overtake each other, what is advertised are
\* whole bytes within the one buffer of mkh_set_adv_payload.
THEOREM TypeCorrect == Spec => []TypeOK
<1>1. IInv => TypeOK
  BY DEF IInv
<1> QED
  BY <1>1, Staged, PTL

LEMMA StagedIsHeard == IInv => OrderIsHeard
<1> SUFFICES ASSUME IInv PROVE OrderIsHeard
  OBVIOUS
<1>1. ASSUME staged = "connect" PROVE Heard = {Connect}
  <2>1. PICK n \in {8, 10} : n = 8
    OBVIOUS
  <2>2. Connect \in [1 .. n -> Byte]
    BY <2>1, ConnectTelegram
  <2>3. dataLen = n + 17 /\ \A i \in 1 .. n + 10 : buffer[7 + i] = Encrypt(Bytes(Connect))[i]
    BY <1>1, <2>1 DEF IInv, Carries
  <2>4. Heard = {Connect}
           \cup (IF n = 10 /\ ChecksumFits(Connect) THEN {SubSeq(Connect, 1, 8)} ELSE {})
    BY <2>2, <2>3, HeardOf
  <2> QED
    BY <2>1, <2>4
<1>2. ASSUME staged = "control"
      PROVE  Heard = {Ordered(order)}
                \cup (IF ChecksumFits(Ordered(order)) THEN {SubSeq(Ordered(order), 1, 8)} ELSE {})
  <2> DEFINE t == Ordered(order)
  <2>1. PICK n \in {8, 10} : n = 10
    OBVIOUS
  <2>2. order \in Orders
    BY <1>2 DEF IInv
  <2>3. Control(order) = t /\ t \in [1 .. n -> Byte]
    BY <2>1, <2>2, ControlAdvertisement
  <2> HIDE DEF t
  <2>4. dataLen = n + 17 /\ \A i \in 1 .. n + 10 : buffer[7 + i] = Encrypt(Bytes(t))[i]
    BY <1>2, <2>1, <2>3 DEF IInv, Carries
  <2>5. Heard = {t} \cup (IF n = 10 /\ ChecksumFits(t) THEN {SubSeq(t, 1, 8)} ELSE {})
    BY <2>3, <2>4, HeardOf
  <2> QED
    BY <2>1, <2>5 DEF t
<1> QED
  BY <1>1, <1>2 DEF OrderIsHeard

\* mkh_protocol_set_channel, crc16 and both whitenings: for every device, all six values
\* and every order of steps, what a hub makes of the advertisement is the order, and
\* nothing else unless eight bytes of it happen to carry their own checksum.
THEOREM OrderHeard == Spec => []OrderIsHeard
<1> QED
  BY Staged, StagedIsHeard, PTL

LEMMA BlendIsInPlace == IInv => MixtureStaysInPlace
<1> SUFFICES ASSUME IInv, staged = "mixed", NEW telegram \in Heard, NEW i \in DOMAIN telegram
             PROVE  telegram[i] \in {Ordered(order)[i], WithChecksum(Connect)[i]}
  BY DEF MixtureStaysInPlace
<1>1. order \in Orders /\ Blends(order)
  BY DEF IInv
<1>2. PICK k \in 0 .. 20 : dataLen = k + 7
  <2>1. 25 = 18 + 7 /\ 27 = 20 + 7 /\ 18 \in 0 .. 20 /\ 20 \in 0 .. 20
    OBVIOUS
  <2> QED
    BY <1>1, <2>1 DEF Blends
<1> DEFINE air == OnAir
<1>3. PICK m \in {8, 10} : telegram = Frame(air, m) /\ telegram # None /\ 8 * (m + 10) <= Len(air)
  BY DEF Heard
<1>4. m \in 0 .. 10 /\ m + 10 <= k
  <2>1. Len(air) = 8 * k
    <3>1. PICK len \in Nat : len = 8 * k
      OBVIOUS
    <3>2. dataLen - 7 = k
      BY <1>2
    <3>3. air = [j \in 1 .. len |->
                    (buffer[8 + ((j - 1) \div 8)][1 + ((j - 1) % 8)] + Channel37[8 * 15 + j]) % 2]
      BY <3>1, <3>2 DEF OnAir
    <3> HIDE DEF air
    <3> QED
      BY <3>1, <3>3
  <2> HIDE DEF air
  <2>2. 8 * (m + 10) <= 8 * k
    BY <1>3, <2>1
  <2> QED
    BY <2>2
<1>5. telegram = [j \in 1 .. m |-> Number(SubSeq(Plain(air, m), 8 * (j + 4) + 1, 8 * (j + 5)))]
  BY <1>3 DEF Frame, Plain
<1>6. i \in 1 .. m /\ telegram[i] = Number(SubSeq(Plain(OnAir, m), 8 * (i + 4) + 1, 8 * (i + 5)))
  BY <1>5
<1> HIDE DEF air
<1>7. i \in 1 .. 10 /\ 8 + i \in 1 .. 20 /\ 7 + (8 + i) = 15 + i
  BY <1>4, <1>6
<1>8. CASE buffer[15 + i] = Encrypt(Bytes(Control(order)))[8 + i]
  <2>1. PICK n \in 0 .. 10 : n = 10
    OBVIOUS
  <2>2. Control(order) \in [1 .. n -> Byte] /\ Control(order) = Ordered(order)
    BY <1>1, <2>1, ControlAdvertisement
  <2>3. Bytes(Control(order)) \in Strings(ByteBits, n)
    BY <2>1, <2>2, BytesOf
  <2>4. i <= n + 2 /\ i \in 1 .. n + 2 /\ i <= n
    BY <1>7, <2>1
  <2>5. SubSeq(Plain(OnAir, m), 8 * (i + 4) + 1, 8 * (i + 5)) = Body(Bytes(Control(order)))[5 + i]
    BY <1>2, <1>4, <1>6, <1>8, <2>3, <2>4, ByteHeard
  <2>6. Number(Body(Bytes(Control(order)))[5 + i]) = Control(order)[i]
    BY <2>2, <2>4, WithChecksumBytes
  <2> QED
    BY <1>6, <2>2, <2>5, <2>6
<1>9. CASE buffer[15 + i] = Encrypt(Bytes(Connect))[8 + i]
  <2>1. PICK n \in 0 .. 10 : n = 8
    OBVIOUS
  <2>2. Connect \in [1 .. n -> Byte]
    BY <2>1, ConnectTelegram
  <2>3. Bytes(Connect) \in Strings(ByteBits, n)
    BY <2>1, <2>2, BytesOf
  <2>4. i <= n + 2 /\ i \in 1 .. n + 2
    BY <1>7, <2>1
  <2>5. SubSeq(Plain(OnAir, m), 8 * (i + 4) + 1, 8 * (i + 5)) = Body(Bytes(Connect))[5 + i]
    BY <1>2, <1>4, <1>6, <1>9, <2>3, <2>4, ByteHeard
  <2>6. Number(Body(Bytes(Connect))[5 + i]) = WithChecksum(Connect)[i]
    BY <2>2, <2>4, WithChecksumBytes
  <2> QED
    BY <1>6, <2>5, <2>6
<1>10. \/ buffer[15 + i] = Encrypt(Bytes(Control(order)))[8 + i]
       \/ buffer[15 + i] = Encrypt(Bytes(Connect))[8 + i]
  BY <1>1, <1>7 DEF Blends
<1> QED
  BY <1>8, <1>9, <1>10

\* mkh_broadcast.c:188: for every order that is staged while a CONNECT is, and whatever bytes
\* of the two the buffer then holds, a hub that accepts the mixture takes each byte of it from
\* the order or from the CONNECT, at the place it had there.
THEOREM MixtureInPlace == Spec => []MixtureStaysInPlace
<1> QED
  BY Staged, BlendIsInPlace, PTL
=============================================================================
