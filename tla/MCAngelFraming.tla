--------------------------- MODULE MCAngelFraming ---------------------------
EXTENDS AngelFraming

(* Any function will do; this one's values have bytes that are escaped.    *)
CRCByte == {27, 28, 65}
SmallCRC == [0 .. 3 -> CRCByte]
StartCRC == [k \in 0 .. 3 |-> 65]
SumCRC(c, b) == [k \in 0 .. 3 |-> LET n == (c[k] + c[(k + 1) % 4] + b + k) % 3
                                  IN  IF n = 0 THEN 65 ELSE 26 + n]

DataPacket(n, data) == [type |-> 0, len |-> n, data |-> data]

(* One with a character that is escaped, one that looks like a frame.      *)
Packets == {DataPacket(1, [i \in 0 .. 0 |-> 27]),
            DataPacket(2, [i \in 0 .. 1 |-> 28 + i]),
            DataPacket(3, [i \in 0 .. 2 |-> 91 - i])}

(* The characters of the frame, a length, and one with bit 6.              *)
LineChars == {27, 28, 29, 0, 2, 91}
=============================================================================
