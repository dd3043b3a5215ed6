----------------------------- MODULE MkhProtocol -----------------------------
(***************************************************************************)
(* mkh_protocol.c: how a telegram becomes the payload of an advertisement,  *)
(* with mkh_set_adv_payload of mkh_broadcast.c, which both tasks may be in  *)
(* at once, and the other side of it: the Bluetooth controller, which       *)
(* scrambles what it sends once more, and a hub that knows nothing of       *)
(* Bluetooth and looks for its own frame in what is on the air.             *)
(*                                                                         *)
(* A byte is a number below 256.  The power of a channel, a float, is       *)
(* counted in steps of 1/128: the callers make it of a byte, exactly.       *)
(***************************************************************************)
EXTENDS Integers, SequencesExt

CONSTANTS
    Orders,         \* the CONTROL orders sent: [device |-> slot, values |-> six bytes]
    Stressed,       \* those that are also staged while CONNECT is
    None            \* what a hub makes of a frame it does not accept

Byte == 0 .. 255
ASSUME OrdersAssumption ==
    Stressed \subseteq Orders /\ Orders \subseteq [device : 0 .. 2, values : [1 .. 6 -> Byte]]
ASSUME NoneAssumption == None \notin Seq(Byte)

VARIABLES
    staged,         \* "connect", "control", or both at once: "mixed"
    order,          \* the CONTROL order staged last
    buffer,         \* mkh_adv_buf
    dataLen         \* how much of it is advertised

vars == <<staged, order, buffer, dataLen>>

-----------------------------------------------------------------------------
\* Telegrams

kSeed == <<\hC1, \hC2, \hC3, \hC4, \hC5>>
kHeader == <<\h71, \h0F, \h55>>
kCtxValue1 == \h3F
kCtxValue2 == \h25
kTelegramConnect == <<\h6D, \h7B, \hA7, \h80, \h80, \h80, \h80, \h92>>
\* Seeded bug: the slots are numbered from 1.
kTelegramBaseFromOne(device) ==
    <<\h62 + device, \h7B, \hA7, \h80, \h80, \h80, \h80, \h80, \h80, \h9D - device>>
kTelegramBase(device) ==
    <<\h61 + device, \h7B, \hA7, \h80, \h80, \h80, \h80, \h80, \h80, \h9E - device>>
kControlChannelStartOffset == 3

Smaller(a, b) == IF a < b THEN a ELSE b

\* mkh_protocol_set_channel: the byte of a power.
ChannelByte(power) ==
    IF power > 0 THEN Smaller(\h80 + Smaller(power, \h80), \hFF)
    ELSE \h80 - Smaller(-power, \h80)

\* The CONTROL telegram of an order: every value becomes a power and a byte again.
Control(o) ==
    [i \in 1 .. 10 |->
        IF i - kControlChannelStartOffset \in 1 .. 6
          THEN ChannelByte(o.values[i - kControlChannelStartOffset] - 128)
          ELSE kTelegramBase(o.device)[i]]

-----------------------------------------------------------------------------
\* Bits

Bit == {0, 1}

\* The bits of a number and the number of eight bits, the least significant one first.
Bits(n, width) == [i \in 1 .. width |-> (n \div 2^(i - 1)) % 2]
Number(bits) ==
    bits[1] + 2 * bits[2] + 4 * bits[3] + 8 * bits[4]
        + 16 * bits[5] + 32 * bits[6] + 64 * bits[7] + 128 * bits[8]

ByteBits == [1 .. 8 -> Bit]
WordBits == [1 .. 16 -> Bit]
Context == [1 .. 7 -> Bit]

Xor(a, b) == [i \in DOMAIN a |-> (a[i] + b[i]) % 2]
reverse_bits(bits) == Reverse(bits)

-----------------------------------------------------------------------------
\* Checksum and whitening

Polynomial == Bits(\h1021, 16)
AllOnes == Bits(\hFFFF, 16)

\* The CRC register after one shift, top bit first.
CrcShift[result \in WordBits] ==
    LET left == <<0, result[1], result[2], result[3], result[4], result[5], result[6], result[7],
                  result[8], result[9], result[10], result[11], result[12], result[13], result[14],
                  result[15]>>
    IN IF result[16] = 1 THEN Xor(left, Polynomial) ELSE left

\* result ^ byte << 8
XorHigh(result, byte) ==
    [i \in 1 .. 16 |-> IF i <= 8 THEN result[i] ELSE (result[i] + byte[i - 8]) % 2]

\* The eight shifts of a byte.
CrcShifts(result) ==
    CrcShift[CrcShift[CrcShift[CrcShift[CrcShift[CrcShift[CrcShift[CrcShift[result]]]]]]]]

\* The register after each byte, which is added to the top before its shifts.
CrcRegister(bytes) ==
    LET result[n \in 0 .. Len(bytes)] ==
            IF n = 0 THEN AllOnes ELSE CrcShifts(XorHigh(result[n - 1], bytes[n]))
    IN result

\* crc16: the seed backwards, the data with each byte mirrored, the result mirrored
\* and inverted.
CrcInput(data) ==
    [i \in 1 .. 5 |-> Bits(kSeed[6 - i], 8)] \o [i \in 1 .. Len(data) |-> reverse_bits(data[i])]
crc16(data) ==
    LET bytes == CrcInput(data)
    IN Xor(reverse_bits(CrcRegister(bytes)[Len(bytes)]), AllOnes)

whitening_init(key) ==
    LET bits == Bits(key, 6) IN <<1, bits[6], bits[5], bits[4], bits[3], bits[2], bits[1]>>

whitening_step[ctx \in Context] ==
    <<ctx[7], ctx[1], ctx[2], ctx[3], (ctx[4] + ctx[7]) % 2, ctx[5], ctx[6]>>

\* The register after each step.
Whitening(key) ==
    LET ctx[t \in Nat] == IF t = 0 THEN whitening_init(key) ELSE whitening_step[ctx[t - 1]]
    IN ctx

\* What eight steps make of a byte of zeros: the first is the least significant bit.
KeyBytes(key, n) == [i \in 1 .. n |-> [b \in 1 .. 8 |-> Whitening(key)[8 * (i - 1) + b][1]]]

\* The two passes, long enough for the longest buffer.
Pass1 == KeyBytes(kCtxValue1, 17)
Pass2 == KeyBytes(kCtxValue2, 35)

\* whitening_encode, from the given place of a pass on.
Whitened(bytes, pass, from) == [i \in DOMAIN bytes |-> Xor(bytes[i], pass[from + i])]

\* mkh_protocol_encrypt.  The 15 bytes before the header are whitened like the rest and
\* thrown away; what they leave behind is the place in the second pass.
Offset == 15

\* The header and the seed backwards, every byte mirrored; the bytes of the first pass.
Header == [i \in 1 .. 3 |-> reverse_bits(Bits(kHeader[i], 8))]
Address == [i \in 1 .. 5 |-> reverse_bits(Bits(kSeed[6 - i], 8))]
Body(data) == LET crc == crc16(data) IN Address \o data \o <<SubSeq(crc, 1, 8), SubSeq(crc, 9, 16)>>

\* Seeded bug: the second pass starts at the header.
EncryptFromHeader(data) == Whitened(Header \o Whitened(Body(data), Pass1, 0), Pass2, 0)

Encrypt(data) == Whitened(Header \o Whitened(Body(data), Pass1, 0), Pass2, Offset)

\* The bytes of a telegram.
Bytes(telegram) == [i \in 1 .. Len(telegram) |-> Bits(telegram[i], 8)]

ConnectPayload == Encrypt(Bytes(kTelegramConnect))

-----------------------------------------------------------------------------
\* mkh_set_adv_payload

BLUETOOTH_DATA_TYPE_FLAGS == 1
BLUETOOTH_DATA_TYPE_MANUFACTURER_SPECIFIC_DATA == \hFF
MKH_ADV_BUF_LEN == 3 + 4 + 20

\* The two structures of the advertisement, for a payload of either length.
AdvData(payload) ==
    Bytes(<<2, BLUETOOTH_DATA_TYPE_FLAGS, 6,
            1 + 2 + Len(payload), BLUETOOTH_DATA_TYPE_MANUFACTURER_SPECIFIC_DATA, \hF0, \hFF>>)
        \o payload

\* A shorter one leaves what the buffer held behind it.
Over(new, old) == new \o SubSeq(old, Len(new) + 1, Len(old))

TypeOK ==
    /\ staged \in {"connect", "control", "mixed"}
    /\ order \in Orders \cup {None}
    /\ buffer \in [1 .. MKH_ADV_BUF_LEN -> ByteBits]
    /\ dataLen \in 1 .. MKH_ADV_BUF_LEN

\* mkh_broadcast_connect, from mkh_start.
Init ==
    /\ staged = "connect"
    /\ order = None
    /\ buffer = Over(AdvData(ConnectPayload), [i \in 1 .. MKH_ADV_BUF_LEN |-> Bits(0, 8)])
    /\ dataLen = Len(AdvData(ConnectPayload))

\* mkh_stage_and_send_values, and the same of mkh_broadcast_control: the first order
\* after a CONNECT (which order went before makes no difference to a telegram).
SendControl(o) ==
    /\ staged = "connect" /\ order = None
    /\ staged' = "control" /\ order' = o
    /\ buffer' = AdvData(Encrypt(Bytes(Control(o))))
    /\ dataLen' = Len(buffer')

\* toggle_on replays CONNECT, alone in mkh_set_adv_payload.
ReplayConnect ==
    /\ staged' = "connect"
    /\ buffer' = Over(AdvData(ConnectPayload), buffer)
    /\ dataLen' = Len(AdvData(ConnectPayload))
    /\ UNCHANGED order

\* Seeded bug: the two tasks share the buffer a telegram is built in, not the one its
\* payload is copied to.
MixtureOfTelegrams(o, fromConnect) ==
    AdvData(Encrypt(Bytes([i \in 1 .. 10 |->
        IF 15 + i \in fromConnect /\ i <= 8 THEN kTelegramConnect[i] ELSE Control(o)[i]])))

\* Both tasks write the buffer: each byte, the length of the AD structure included, is
\* the CONNECT's or the CONTROL's, for the two copies overtake each other anywhere.
Mixture(o, fromConnect) ==
    LET connect == AdvData(ConnectPayload)
        control == AdvData(Encrypt(Bytes(Control(o))))
    IN [i \in DOMAIN control |-> IF i \in fromConnect THEN connect[i] ELSE control[i]]

Differing(o) ==
    LET connect == AdvData(ConnectPayload)
        control == AdvData(Encrypt(Bytes(Control(o))))
    IN {i \in DOMAIN connect : connect[i] # control[i]}

\* toggle_on replays CONNECT while the other task stages the order again; the length
\* is that of the one whose call to the stack came last.  (The stack is given a pointer
\* to the buffer, so that even copies that do not overlap can be mixed when it reads.)
Collide ==
    /\ staged = "control" /\ order \in Stressed
    /\ staged' = "mixed"
    /\ \E fromConnect \in SUBSET Differing(order) : buffer' = Mixture(order, fromConnect)
    /\ dataLen' \in {Len(AdvData(ConnectPayload)), MKH_ADV_BUF_LEN}
    /\ UNCHANGED order

-----------------------------------------------------------------------------
\* The other side: the Bluetooth controller and the hub

\* Bluetooth's own definition of the sequence that whitens a channel, and the one a hub
\* descrambles with: each bit is the sum of those three and seven places before it.
Start(channel) ==
    LET bits == Bits(channel, 6) IN <<bits[4], bits[5], bits[6], 1, bits[1], bits[2], bits[3]>>
Slide[window \in Context] ==
    <<window[2], window[3], window[4], window[5], window[6], window[7],
      (window[5] + window[1]) % 2>>
Windows(channel) ==
    LET window[t \in Nat] == IF t = 0 THEN Start(channel) ELSE Slide[window[t - 1]]
    IN window
Sequence(channel, n) == [k \in 1 .. n |-> Windows(channel)[k - 1][5]]

Channel37 == Sequence(37, 8 * 35)
HubSequence == Sequence(63, 8 * 17)

\* What is on the air of channel 37 where the payload is: least significant bits first,
\* after a header of 2 bytes, an address of 6 and the 7 before the payload.
OnAir ==
    [k \in 1 .. 8 * (dataLen - 7) |->
        (buffer[8 + ((k - 1) \div 8)][1 + ((k - 1) % 8)] + Channel37[8 * 15 + k]) % 2]

\* Bytes with their most significant bit first.
MsbFirst(bytes) == [k \in 1 .. 8 * Len(bytes) |-> Bits(bytes[1 + ((k - 1) \div 8)], 8)[8 - ((k - 1) % 8)]]

\* The same polynomial as a shift register over bits, x^16 + x^12 + x^5 + 1.
BitCrcStep[r \in WordBits] == [bit \in Bit |->
    LET carry == (r[1] + bit) % 2
    IN <<r[2], r[3], r[4], (r[5] + carry) % 2, r[6], r[7], r[8], r[9], r[10], r[11],
         (r[12] + carry) % 2, r[13], r[14], r[15], r[16], carry>>]
BitCrcRegister(bits) ==
    LET r[t \in 0 .. Len(bits)] ==
            IF t = 0 THEN [i \in 1 .. 16 |-> 1] ELSE BitCrcStep[r[t - 1]][bits[t]]
    IN r
BitCrc(bits) == BitCrcRegister(bits)[Len(bits)]

\* A frame of n telegram bytes: preamble, and scrambled the address (last byte first),
\* the telegram and the inverted checksum.
Frame(air, n) ==
    LET plain == [k \in 1 .. 8 * (n + 7) |-> (air[24 + k] + HubSequence[k]) % 2]
        crc == BitCrc(SubSeq(plain, 1, 8 * (n + 5)))
    IN IF /\ SubSeq(air, 1, 24) = MsbFirst(<<\h71, \h0F, \h55>>)
          /\ SubSeq(plain, 1, 40) = MsbFirst(<<\hC5, \hC4, \hC3, \hC2, \hC1>>)
          /\ SubSeq(plain, 8 * (n + 5) + 1, 8 * (n + 7)) = [i \in 1 .. 16 |-> 1 - crc[i]]
       THEN [i \in 1 .. n |-> Number(SubSeq(plain, 8 * (i + 4) + 1, 8 * (i + 5)))]
       ELSE None

\* What a hub makes of the advertisement: a telegram of either length, or nothing.
Heard ==
    LET air == OnAir
    IN {Frame(air, n) : n \in {m \in {8, 10} : 8 * (m + 10) <= Len(air)}} \ {None}

Next == (\E o \in Orders : SendControl(o)) \/ ReplayConnect \/ Collide

Spec == Init /\ [][Next]_vars

-----------------------------------------------------------------------------
(***************************************************************************)
(* Properties.                                                             *)
(***************************************************************************)

Connect == <<\h6D, \h7B, \hA7, \h80, \h80, \h80, \h80, \h92>>

\* The last channel and the trailer happen to be the checksum of the eight bytes before
\* them: an order in 65536 also has the form of a telegram of eight bytes.
ChecksumFits(telegram) ==
    crc16(Bytes(SubSeq(telegram, 1, 8))) = Bits(telegram[9], 8) \o Bits(telegram[10], 8)

\* What an order says.
Ordered(o) == <<\h61 + o.device, \h7B, \hA7>> \o o.values \o <<\h9E - o.device>>

\* A telegram with the checksum that follows it in its payload.
WithChecksum(telegram) ==
    LET crc == crc16(Bytes(telegram))
    IN telegram \o <<Number(SubSeq(crc, 1, 8)), Number(SubSeq(crc, 9, 16))>>

\* What mkh_set_channel was given is what the hubs are told: every byte of all six
\* channels comes through the power, the telegram, the checksum and both whitenings
\* unchanged, under the address of its slot, and the second whitening is the one
\* Bluetooth undoes where the payload lies in the packet.  A receiver of shorter
\* telegrams hears something only where the checksum of one fits by chance.
OrderIsHeard ==
    /\ staged = "connect" => Heard = {Connect}
    /\ staged = "control" =>
        LET telegram == Ordered(order)
        IN Heard = {telegram}
                \cup (IF ChecksumFits(telegram) THEN {SubSeq(telegram, 1, 8)} ELSE {})

\* mkh_broadcast.c:188, mkh_set_adv_payload: the one buffer both tasks write.  A mixture
\* of a CONNECT and a CONTROL can carry a valid checksum and be heard as a third telegram.
\* Whichever it is, both whitenings scramble both payloads alike, so each byte heard is
\* the one that stands there in the order or in the CONNECT: no hub but the order's is
\* addressed, and ports 1 to 4 get what was ordered or neutral.  Ports 5 and 6, where the
\* CONNECT has its last byte and its checksum, may get those.
MixtureStaysInPlace ==
    staged = "mixed" => \A telegram \in Heard : \A i \in DOMAIN telegram :
        telegram[i] \in {Ordered(order)[i], WithChecksum(Connect)[i]}

\* The same buffer when the order is neutral, as that of a hub about to be dropped is:
\* no mixture of it with a CONNECT is heard as a third telegram, so a collision sets no
\* resting port going.
NeutralMixtureIsHarmless ==
    staged = "mixed" /\ order.values = [c \in 1 .. 6 |-> 128] =>
        Heard \subseteq {Connect, Ordered(order)}
==============================================================================
