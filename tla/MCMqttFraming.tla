--------------------------- MODULE MCMqttFraming ---------------------------
\* Instance of MqttFraming for TLC, with bytes of four values.
EXTENDS MqttFraming

\* The code's own base, at the lengths where a digit is added and at the
\* largest that four digits can hold: what is encoded is decoded again, in as
\* many digits as MQTT says, and one more byte takes a fifth.
Code == INSTANCE MqttCodec WITH Base <- 128
Largest == <<127, 16383, 2097151, 268435455>>
ASSUME LengthsRoundTrip ==
  \A d \in 1..4 :
    /\ \A n \in {Largest[d], Largest[d] \div 2, Largest[d] - 127} :
         Code!DecodeLength(Code!RemainingLength[n]) = n
    /\ Len(Code!RemainingLength[Largest[d]]) = d
    /\ Len(Code!RemainingLength[Largest[d] + 1]) = d + 1
    /\ Code!DecodeU16(Code!EncodeU16(65535)) = 65535
============================================================================
