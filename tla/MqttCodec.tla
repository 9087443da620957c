----------------------------- MODULE MqttCodec -----------------------------
(***************************************************************************)
(* The encodings of src/src/MQTT.cpp.  A byte has 2 * Base values, of      *)
(* which the upper half has the high bit set; Base is 128 in the code.     *)
(* The first byte of a packet keeps the code's values.                     *)
(***************************************************************************)
EXTENDS Integers, Sequences

CONSTANT Base

ASSUME CodecAssumption == Base \in Nat /\ Base >= 2

\* append_u16(); the cast of a longer length to 16 bits is the % here.
U16 == (2 * Base) * (2 * Base)
EncodeU16(n) == <<(n % U16) \div (2 * Base), n % (2 * Base)>>
DecodeU16(bytes) == bytes[1] * 2 * Base + bytes[2]

AppendString(string) == EncodeU16(Len(string)) \o string

\* encode_remaining_length(): no bound on the number of digits.
RemainingLength[n \in Nat] ==
  IF n < Base THEN <<n>>
  ELSE <<(n % Base) + Base>> \o RemainingLength[n \div Base]


\* The digits recv_packet() reads and decode_remaining_length() accepts.
MaxDigits == 4

\* decode_remaining_length(), of digits the first of which without the high
\* bit, if any, is the last; it fails unless there is one.  There are at most
\* MaxDigits of them: the loop is written out.
IsLastDigit(digit) == digit < Base
Digit(digits, i) == IF i <= Len(digits) THEN digits[i] % Base ELSE 0
DecodeLength(digits) ==
  Digit(digits, 1) + Base * (Digit(digits, 2) + Base * (Digit(digits, 3) + Base * Digit(digits, 4)))

\* write()'s packet, and what receiver_loop() takes a packet's type to be.
PublishPacket(topic, payload) ==
  LET header == AppendString(topic)
  IN  <<48>> \o RemainingLength[Len(header) + Len(payload)] \o header \o payload
PacketType(first) == first \div 16
============================================================================
