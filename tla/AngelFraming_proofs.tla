------------------------ MODULE AngelFraming_proofs ------------------------
(***************************************************************************)
(* Proofs about AngelFraming for every set of packets, every crc and every *)
(* number of faults.  RxInv is what the receive engine keeps whatever it   *)
(* is given, Sync how it follows the transmit engine of a frame that comes *)
(* through, EscInv why the second of two such frames is always seen.       *)
(***************************************************************************)
EXTENDS AngelFraming, TLAPS

Word == [0 .. 3 -> Byte]
Data == {NULL} \cup UNION {[0 .. n - 1 -> Byte] : n \in 1 .. MaxLen}

TxState == [phase : {"STX", "HEAD", "DATA", "CRC", "ETX", "IDLE"}, esc : BOOLEAN,
            field_c : 0 .. MaxLen, crc : CRC]
TxInv(p, t) ==
  /\ t \in TxState
  /\ t.phase = "HEAD" => t.field_c \in 1 .. 3
  /\ t.phase = "DATA" => t.field_c \in 1 .. p.len
  /\ t.phase = "CRC" => t.field_c \in 1 .. 4
  /\ t.esc => InBody(t) /\ Field(p, t) \in esc_set

RxState == [state : {"STX", "TYP", "LEN", "DAT", "CRC", "ETX"}, esc : BOOLEAN,
            field_c : 0 .. 3, index : 0 .. MaxLen, crc : Word, type : Byte,
            len : 0 .. MaxLen, data : Data, pcrc : Word]
RxInv(r) ==
  /\ r \in RxState
  /\ r.state # "STX" => r.crc \in CRC
  /\ r.state \in {"STX", "TYP", "LEN"} => r.data = NULL
  /\ r.state \in {"TYP", "LEN"} => r.index = 0
  /\ r.state = "LEN" => r.field_c \in 0 .. 1 /\ (r.field_c = 1 => r.len <= 65280)
  /\ r.state = "DAT" => r.index < r.len /\ r.data \in [0 .. r.len - 1 -> Byte]

(* The engine's state when Received has looked at its status.              *)
Goes(o) == o.status \in {"RS_WAIT_PKT", "RS_IN_PKT"}
After(o) == IF Goes(o) THEN o.rx
            ELSE [o.rx EXCEPT !.data = NULL, !.type = DC_NUM_CHANNELS]

(* The receiver is where the transmitter is, one character behind.         *)
Sync(p, t, r) ==
  /\ t.phase \in {"HEAD", "DATA", "CRC", "ETX"} => (r.esc <=> t.esc) /\ r.crc = t.crc
  /\ t.phase = "HEAD" =>
       \/ t.field_c = 3 /\ r.state = "TYP"
       \/ t.field_c = 2 /\ r.state = "LEN" /\ r.field_c = 0 /\ r.type = p.type
       \/ /\ t.field_c = 1 /\ r.state = "LEN" /\ r.field_c = 1 /\ r.type = p.type
          /\ r.len = (p.len \div 256) * 256
  /\ t.phase \in {"DATA", "CRC", "ETX"} =>
       r.type = p.type /\ r.len = p.len /\ r.data \in [0 .. p.len - 1 -> Byte]
  /\ t.phase = "DATA" => /\ r.state = "DAT" /\ r.field_c = 0
                         /\ r.index = p.len - t.field_c
                         /\ \A i \in 0 .. r.index - 1 : r.data[i] = p.data[i]
  /\ t.phase \in {"CRC", "ETX"} => r.data = p.data
  /\ t.phase = "CRC" => /\ r.state = "CRC" /\ r.field_c = 4 - t.field_c
                        /\ \A k \in t.field_c .. 3 : r.pcrc[k] = t.crc[k]
  /\ t.phase = "ETX" => r.state = "ETX" /\ r.pcrc = t.crc

EscInv ==
  /\ intact => (rx.esc <=> tx.esc)
  /\ run \in 0 .. 2 /\ faults \in 0 .. Faults
  /\ run # 0 => intact
  /\ run # 0 /\ tx.phase \notin {"STX", "IDLE"} => seen
  /\ run = 2 /\ tx.phase = "IDLE" => seen

IInv ==
  /\ packet \in Packet
  /\ TxInv(packet, tx)
  /\ RxInv(rx)
  /\ seen \in BOOLEAN /\ intact \in BOOLEAN
  /\ seen => Sync(packet, tx, rx)
  /\ EscInv
  /\ FrameDelivered

-----------------------------------------------------------------------------
LEMMA MaxLenNat == MaxLen \in Nat
BY DEF MaxLen

LEMMA MaxLenIs == MaxLen >= 4 /\ MaxLen - 255 = 65280
BY DEF MaxLen

LEMMA HighByte ==
  ASSUME NEW q \in 0 .. 255
  PROVE  q * 256 \in Int /\ 0 <= q * 256 /\ q * 256 <= 65280
OBVIOUS

LEMMA TwoBytes ==
  ASSUME NEW n \in Nat, n <= MaxLen
  PROVE  /\ n \div 256 \in Byte /\ n % 256 \in Byte
         /\ (n \div 256) * 256 + (n % 256) = n
         /\ (n \div 256) * 256 \in 0 .. MaxLen - 255
<1>1. MaxLen = 255 * 256 + 255
  BY DEF MaxLen
<1>2. n \div 256 \in Nat /\ n % 256 \in 0 .. 255 /\ n = 256 * (n \div 256) + (n % 256)
  OBVIOUS
<1>3. n \div 256 <= 255
  BY <1>1, <1>2
<1> DEFINE q == n \div 256  r == n % 256
<1>4. q \in 0 .. 255 /\ r \in 0 .. 255 /\ n = 256 * q + r
  BY <1>2, <1>3
<1> HIDE DEF q, r
<1>5. q * 256 + r = n
  BY <1>4
<1>6. q * 256 \in 0 .. MaxLen - 255
  <2> DEFINE k == q * 256
  <2>1. k \in Int /\ 0 <= k /\ k <= 65280
    BY <1>4, HighByte
  <2> HIDE DEF k
  <2>2. k \in 0 .. MaxLen - 255
    BY <2>1, MaxLenIs
  <2> QED BY <2>2 DEF k
<1> QED BY <1>4, <1>5, <1>6 DEF Byte, q, r

LEMMA SameFunction ==
  ASSUME NEW S, NEW T, NEW f \in [S -> T], NEW g \in [S -> T], \A i \in S : f[i] = g[i]
  PROVE  f = g
OBVIOUS

LEMMA PacketFacts ==
  ASSUME NEW p \in Packet
  PROVE  /\ p.type \in 0 .. 1 /\ p.len \in 1 .. MaxData /\ p.len \in 1 .. MaxLen
         /\ p.data \in [0 .. p.len - 1 -> Byte]
<1>1. MaxData \in 1 .. MaxLen /\ MaxLen \in Nat
  BY MaxLenNat, PacketAssumption
<1>2. p.type \in 0 .. 1 /\ p.len \in 1 .. MaxData /\ p.data \in [0 .. p.len - 1 -> Byte]
  BY PacketAssumption DEF DC_NUM_CHANNELS
<1>3. p.len \in 1 .. MaxLen
  BY <1>1, <1>2
<1> QED BY <1>2, <1>3

LEMMA DataFacts ==
  /\ NULL \in Data
  /\ \A n \in 1 .. MaxLen : [0 .. n - 1 -> Byte] \subseteq Data
  /\ \A d \in Data : \A i \in DOMAIN d : d[i] \in Byte
<1>1. NULL \in Data
  BY DEF Data
<1>2. \A n \in 1 .. MaxLen : [0 .. n - 1 -> Byte] \subseteq Data
  BY DEF Data
<1>3. ASSUME NEW d \in Data PROVE \A i \in DOMAIN d : d[i] \in Byte
  <2>1. CASE d = NULL
    BY <2>1 DEF NULL
  <2>2. CASE d # NULL
    BY <2>2, <1>3 DEF Data
  <2> QED BY <2>1, <2>2
<1> QED BY <1>1, <1>2, <1>3

LEMMA CharFacts ==
  /\ STX \in 0 .. 31 /\ ETX \in 0 .. 31 /\ ESC \in 0 .. 31
  /\ STX \in Byte /\ ETX \in Byte /\ ESC \in Byte
  /\ \A c \in esc_set : c \in 0 .. 31 /\ c \in Byte
<1>1. \A c \in esc_set : c \in 0 .. 31
  BY CharAssumption
<1>2. STX \in esc_set /\ ETX \in esc_set /\ ESC \in esc_set
  BY CharAssumption
<1>3. \A c \in 0 .. 31 : c \in Byte
  BY DEF Byte
<1> QED BY <1>1, <1>2, <1>3

(* What is sent: a byte of the field, ESC, or the byte with bit 6.         *)
LEMMA FieldByte ==
  ASSUME NEW p \in Packet, NEW t, TxInv(p, t), InBody(t)
  PROVE  Field(p, t) \in Byte
<1> USE PacketFacts
<1>1. CASE t.phase = "HEAD"
  <2>1. p.type \in Byte /\ p.len \in Nat /\ p.len <= MaxLen
    BY MaxLenNat DEF Byte
  <2>2. p.len \div 256 \in Byte /\ p.len % 256 \in Byte
    BY <2>1, TwoBytes
  <2> QED BY <2>1, <2>2, <1>1 DEF Field
<1>2. CASE t.phase = "DATA"
  <2>1. p.len - t.field_c \in 0 .. p.len - 1
    BY <1>2 DEF TxInv, TxState
  <2> QED BY <2>1, <1>2 DEF Field, TxInv
<1>3. CASE t.phase = "CRC"
  <2>1. t.field_c - 1 \in 0 .. 3 /\ t.crc \in [0 .. 3 -> Byte]
    BY <1>3, CRCAssumption DEF TxInv, TxState
  <2> QED BY <2>1, <1>3 DEF Field
<1> QED BY <1>1, <1>2, <1>3 DEF InBody

LEMMA TxByte ==
  ASSUME NEW p \in Packet, NEW t, TxInv(p, t), t.phase # "IDLE"
  PROVE  TxChar(p, t) \in Byte
<1>1. CASE InBody(t)
  <2>1. Field(p, t) \in Byte
    BY FieldByte, <1>1
  <2>2. TxChar(p, t) = IF MustEscape(p, t) THEN ESC
                       ELSE IF t.esc THEN Field(p, t) + ESCAPE ELSE Field(p, t)
    BY <1>1 DEF TxChar, InBody
  <2>3. t.esc => Field(p, t) \in 0 .. 31
    BY CharAssumption DEF TxInv, TxState
  <2>4. ESC \in 0 .. 31 /\ t.esc \in BOOLEAN
    BY CharAssumption DEF TxInv, TxState
  <2> HIDE DEF Field, MustEscape, TxChar
  <2> QED BY <2>1, <2>2, <2>3, <2>4 DEF Byte, ESCAPE
<1>2. CASE t.phase \in {"STX", "ETX"}
  <2>1. STX \in Byte /\ ETX \in Byte
    BY CharFacts
  <2> QED BY <2>1, <1>2 DEF TxChar, InBody
<1> QED BY <1>1, <1>2 DEF TxInv, TxState, InBody

LEMMA CRCFacts ==
  /\ startCRC32 \in CRC /\ \A c \in CRC, b \in Byte : crc32(c, b) \in CRC
  /\ \A c \in CRC : c \in Word
BY CRCAssumption DEF Word

(* The transmitter keeps TxInv.                                            *)
LEMMA TxPlain ==
  ASSUME NEW p, NEW ph \in {"STX", "HEAD", "DATA", "CRC", "ETX", "IDLE"},
         NEW n \in 0 .. MaxLen, NEW c \in CRC,
         NEW t, t = [phase |-> ph, esc |-> FALSE, field_c |-> n, crc |-> c],
         ph = "HEAD" => n \in 1 .. 3, ph = "DATA" => n \in 1 .. p.len,
         ph = "CRC" => n \in 1 .. 4
  PROVE  TxInv(p, t)
BY DEF TxInv, TxState

LEMMA TxAdvanced ==
  ASSUME NEW p \in Packet, NEW ph \in {"HEAD", "DATA", "CRC"}, NEW n \in 0 .. MaxLen,
         NEW c \in CRC,
         NEW t, t = [phase |-> ph, esc |-> FALSE, field_c |-> n, crc |-> c],
         ph = "HEAD" => n \in 0 .. 3, ph = "DATA" => n \in 0 .. p.len,
         ph = "CRC" => n \in 0 .. 4
  PROVE  TxInv(p, Advanced(p, t))
<1>1. MaxLen \in Nat /\ 4 \in 0 .. MaxLen /\ p.len \in 1 .. p.len /\ p.len \in 0 .. MaxLen
  <2>1. MaxLen >= 4 /\ MaxLen \in Nat
    BY MaxLenNat, MaxLenIs
  <2> QED BY <2>1, PacketFacts
<1>2. CASE n # 0
  <2>1. Advanced(p, t) = t
    BY <1>2 DEF Advanced
  <2> QED BY <2>1, <1>1, <1>2, TxPlain
<1>3. CASE n = 0 /\ ph = "HEAD"
  <2>1. Advanced(p, t) = [phase |-> "DATA", esc |-> FALSE, field_c |-> p.len, crc |-> c]
    BY <1>3 DEF Advanced
  <2> QED BY <2>1, <1>1, TxPlain
<1>4. CASE n = 0 /\ ph = "DATA"
  <2>1. Advanced(p, t) = [phase |-> "CRC", esc |-> FALSE, field_c |-> 4, crc |-> c]
    BY <1>4 DEF Advanced
  <2> QED BY <2>1, <1>1, TxPlain
<1>5. CASE n = 0 /\ ph = "CRC"
  <2>1. Advanced(p, t) = [phase |-> "ETX", esc |-> FALSE, field_c |-> n, crc |-> c]
    BY <1>5 DEF Advanced
  <2> QED BY <2>1, TxPlain
<1> QED BY <1>2, <1>3, <1>4, <1>5

(* What sending a character of the frame does, for each kind of it.        *)
LEMMA TxSteps ==
  ASSUME NEW p, NEW t
  PROVE  /\ t.phase = "STX" =>
              /\ TxChar(p, t) = STX
              /\ TxNext(p, t) = [t EXCEPT !.phase = "HEAD", !.field_c = 3, !.crc = startCRC32]
         /\ t.phase = "ETX" => TxChar(p, t) = ETX /\ TxNext(p, t) = [t EXCEPT !.phase = "IDLE"]
         /\ InBody(t) /\ MustEscape(p, t) =>
              TxChar(p, t) = ESC /\ TxNext(p, t) = [t EXCEPT !.esc = TRUE]
         /\ InBody(t) /\ ~ MustEscape(p, t) =>
              /\ TxChar(p, t) = IF t.esc THEN Field(p, t) + ESCAPE ELSE Field(p, t)
              /\ TxNext(p, t) = Advanced(p, Counted(t, Field(p, t)))
BY DEF TxChar, TxNext, InBody

LEMMA TxStep ==
  ASSUME NEW p \in Packet, NEW t, TxInv(p, t), t.phase # "IDLE"
  PROVE  TxInv(p, TxNext(p, t))
<1>a. t \in TxState
  BY DEF TxInv
<1>1. CASE t.phase = "STX"
  <2>1. ~ t.esc /\ 3 \in 0 .. MaxLen
    BY <1>1, MaxLenNat DEF TxInv, InBody, MaxLen
  <2>2. TxNext(p, t) = [phase |-> "HEAD", esc |-> FALSE, field_c |-> 3, crc |-> startCRC32]
    <3>1. TxNext(p, t) = [t EXCEPT !.phase = "HEAD", !.field_c = 3, !.crc = startCRC32]
      BY <1>1, TxSteps
    <3> QED BY <3>1, <1>a, <2>1 DEF TxState
  <2> QED BY <2>1, <2>2, TxPlain, CRCFacts
<1>2. CASE t.phase = "ETX"
  <2>1. ~ t.esc
    BY <1>2 DEF TxInv, InBody
  <2>2. TxNext(p, t) = [phase |-> "IDLE", esc |-> FALSE, field_c |-> t.field_c, crc |-> t.crc]
    <3>1. TxNext(p, t) = [t EXCEPT !.phase = "IDLE"]
      BY <1>2, TxSteps
    <3> QED BY <3>1, <1>a, <2>1 DEF TxState
  <2> QED BY <2>2, <1>a, TxPlain DEF TxState
<1>3. CASE InBody(t) /\ MustEscape(p, t)
  <2>1. TxNext(p, t) = [t EXCEPT !.esc = TRUE]
    BY <1>3, TxSteps
  <2>2. Field(p, t) \in esc_set
    BY <1>3 DEF MustEscape
  <2>3. InBody(TxNext(p, t)) /\ Field(p, TxNext(p, t)) = Field(p, t)
    BY <2>1, <1>3 DEF InBody, Field, TxInv, TxState
  <2> QED BY <2>1, <2>2, <2>3 DEF TxInv, TxState
<1>4. CASE InBody(t) /\ ~ MustEscape(p, t)
  <2> DEFINE b == Field(p, t)
             c == IF t.phase = "CRC" THEN t.crc ELSE crc32(t.crc, b)
  <2>1. TxNext(p, t) = Advanced(p, Counted(t, b))
    BY <1>4, TxSteps
  <2>2. b \in Byte
    BY <1>4, FieldByte
  <2>3. c \in CRC
    BY <2>2, CRCFacts DEF TxInv, TxState
  <2>4. Counted(t, b) = [phase |-> t.phase, esc |-> FALSE, field_c |-> t.field_c - 1, crc |-> c]
    <3> HIDE DEF b
    <3>1. Counted(t, b) = [t EXCEPT !.field_c = t.field_c - 1, !.esc = FALSE, !.crc = c]
      <4>1. CASE t.phase = "CRC"
        BY <4>1 DEF Counted
      <4>2. CASE t.phase # "CRC"
        BY <4>2 DEF Counted
      <4> QED BY <4>1, <4>2
    <3> HIDE DEF c
    <3> QED BY <3>1, <1>a DEF TxState
  <2> HIDE DEF b, c
  <2>5. /\ t.phase \in {"HEAD", "DATA", "CRC"} /\ t.field_c - 1 \in 0 .. MaxLen
        /\ t.phase = "HEAD" => t.field_c - 1 \in 0 .. 3
        /\ t.phase = "DATA" => t.field_c - 1 \in 0 .. p.len
        /\ t.phase = "CRC" => t.field_c - 1 \in 0 .. 4
    BY <1>4, PacketFacts, MaxLenNat DEF TxInv, TxState, InBody
  <2>6. TxInv(p, Advanced(p, Counted(t, b)))
    BY <2>3, <2>4, <2>5, TxAdvanced
  <2> QED BY <2>1, <2>6
<1> QED BY <1>1, <1>2, <1>3, <1>4 DEF TxInv, TxState, InBody

-----------------------------------------------------------------------------
(* What the engine does with a packet that has ended.                      *)
LEMMA RxEnds ==
  ASSUME NEW o, o.rx \in RxState, o.rx.state = "STX", ~ Goes(o)
  PROVE  RxInv(After(o))
<1> DEFINE s == [o.rx EXCEPT !.data = NULL, !.type = DC_NUM_CHANNELS]
<1>1. NULL \in Data /\ DC_NUM_CHANNELS \in Byte
  BY DataFacts DEF DC_NUM_CHANNELS, Byte
<1>2. After(o) = s
  BY DEF After
<1>3. s \in RxState /\ s.state = "STX" /\ s.data = NULL
  BY <1>1 DEF RxState
<1> HIDE DEF s
<1> QED BY <1>2, <1>3 DEF RxInv

LEMMA RxOn ==
  ASSUME NEW r, RxInv(r), NEW o, Goes(o), o.rx = r
  PROVE  RxInv(After(o))
BY DEF After

LEMMA RxUnexpected ==
  ASSUME NEW r, r \in RxState
  PROVE  /\ RxInv(After(unexp_stx(r))) /\ RxInv(After(unexp_etx(r)))
         /\ RxInv(After(RxOverrun(r)))
<1> DEFINE s == [r EXCEPT !.crc = startCRC32, !.index = 0, !.state = "TYP", !.field_c = 0,
                          !.data = NULL, !.type = DC_NUM_CHANNELS]
           z == [k \in 0 .. 3 |-> 0]
<1>1. NULL \in Data /\ DC_NUM_CHANNELS \in Byte /\ z \in Word
  BY DataFacts DEF DC_NUM_CHANNELS, Byte, Word
<1>2. 0 \in 0 .. MaxLen /\ 0 \in 0 .. 3 /\ startCRC32 \in Word /\ startCRC32 \in CRC
  BY MaxLenNat, CRCFacts
<1>3. RxInv(After(unexp_stx(r)))
  <2>1. After(unexp_stx(r)) = s
    BY DEF After, unexp_stx, Result, Goes, RxState
  <2>2. s \in RxState /\ s.state = "TYP" /\ s.data = NULL /\ s.index = 0 /\ s.crc \in CRC
    BY <1>1, <1>2 DEF RxState
  <2> HIDE DEF s
  <2> QED BY <2>1, <2>2 DEF RxInv
<1>4. RxInv(After(unexp_etx(r)))
  <2> DEFINE e == [r EXCEPT !.crc = z, !.index = 0, !.state = "STX", !.field_c = 0]
  <2>1. unexp_etx(r) = Result(e, "RS_BAD_PKT")
    BY DEF unexp_etx
  <2> HIDE DEF z
  <2>a. e \in RxState /\ e.state = "STX"
    BY <1>1, <1>2 DEF RxState
  <2> HIDE DEF e
  <2>2. unexp_etx(r).rx \in RxState /\ unexp_etx(r).rx.state = "STX"
    BY <2>a, <2>1 DEF Result
  <2> QED BY <2>1, <2>2, RxEnds DEF Goes, Result
<1>5. RxInv(After(RxOverrun(r)))
  <2>1. RxOverrun(r).rx \in RxState /\ RxOverrun(r).rx.state = "STX"
    BY <1>2 DEF RxOverrun, Result, RxState
  <2> QED BY <2>1, RxEnds DEF RxOverrun, Goes, Result
<1> QED BY <1>3, <1>4, <1>5

LEMMA RxLengthInv ==
  ASSUME NEW r, r \in RxState, r.data = NULL, r.index = 0, r.crc \in CRC, NEW free \in 0 .. MaxData
  PROVE  RxInv(After(RxLength(r, free)))
<1> DEFINE o == RxLength(r, free)
<1>0. r.esc \in BOOLEAN /\ r.field_c \in 0 .. 3 /\ r.index \in 0 .. MaxLen /\ r.crc \in Word
  BY DEF RxState
<1>a. 0 \in 0 .. 3
  OBVIOUS
<1>1. CASE r.len = 0
  <2> DEFINE s == [r EXCEPT !.field_c = 0, !.state = "CRC"]
  <2>1. o = Result(s, "RS_IN_PKT")
    BY <1>1 DEF RxLength
  <2>2. s \in RxState /\ s.state = "CRC" /\ s.crc \in CRC
    BY <1>0, <1>a DEF RxState
  <2> HIDE DEF s
  <2>3. RxInv(s)
    BY <2>2 DEF RxInv
  <2> QED BY <2>1, <2>3, RxOn DEF Result, Goes
<1>2. CASE r.len # 0 /\ ~(r.len <= free /\ r.type < DC_NUM_CHANNELS)
  <2>1. o = Result([r EXCEPT !.state = "STX"], "RS_NO_BUF")
    BY <1>2 DEF RxLength
  <2>2. o.rx \in RxState /\ o.rx.state = "STX" /\ ~ Goes(o)
    BY <2>1 DEF Result, Goes, RxState
  <2> HIDE DEF o
  <2>3. RxInv(After(o))
    BY <2>2, RxEnds
  <2> QED BY <2>3 DEF o
<1>3. CASE r.len # 0 /\ (r.len <= free /\ r.type < DC_NUM_CHANNELS)
  <2> DEFINE d == [i \in 0 .. r.len - 1 |-> 0]
             s == [r EXCEPT !.field_c = 0, !.state = "DAT", !.data = d]
  <2>1. o = Result(s, "RS_IN_PKT")
    BY <1>3 DEF RxLength
  <2>2. r.len \in 1 .. MaxLen
    BY <1>3, MaxLenNat DEF RxState
  <2>3. d \in [0 .. r.len - 1 -> Byte]
    BY DEF Byte
  <2>4. d \in Data
    BY <2>2, <2>3, DataFacts
  <2> HIDE DEF d
  <2>5. /\ s \in RxState /\ s.state = "DAT" /\ s.crc \in CRC /\ s.index = 0
        /\ s.len = r.len /\ s.data = d
    BY <1>0, <1>a, <2>4 DEF RxState
  <2> HIDE DEF s
  <2>6. RxInv(s)
    BY <2>2, <2>3, <2>5, MaxLenNat DEF RxInv
  <2> QED BY <2>1, <2>6, RxOn DEF Result, Goes
<1> QED BY <1>1, <1>2, <1>3

LEMMA RxDecodedInv ==
  ASSUME NEW r, RxInv(r), NEW c \in Byte, NEW free \in 0 .. MaxData
  PROVE  RxInv(After(RxDecoded(r, c, free)))
<1> DEFINE o == RxDecoded(r, c, free)
<1>0. r \in RxState /\ r.crc \in Word /\ r.field_c \in 0 .. 3 /\ r.index \in 0 .. MaxLen
  BY DEF RxInv, RxState
<1>a. 0 \in 0 .. 3 /\ 0 \in 0 .. MaxLen /\ MaxLen \in Nat /\ startCRC32 \in CRC
      /\ startCRC32 \in Word
  BY MaxLenNat, CRCFacts
<1>b. r.state # "STX" => crc32(r.crc, c) \in CRC /\ crc32(r.crc, c) \in Word
  BY CRCFacts DEF RxInv
<1>1. CASE r.state = "STX"
  <2>1. CASE c = STX
    <3>1. o = Result(Started(r), "RS_IN_PKT")
      BY <1>1, <2>1 DEF RxDecoded
    <3>2. /\ Started(r) \in RxState /\ Started(r).state = "TYP" /\ Started(r).index = 0
          /\ Started(r).crc \in CRC /\ Started(r).data = r.data
      BY <1>0, <1>a DEF Started, RxState
    <3>3. RxInv(Started(r))
      BY <3>2, <1>1 DEF RxInv
    <3> QED BY <3>1, <3>3, RxOn DEF Result, Goes
  <2>2. CASE c # STX
    BY <1>1, <2>2, RxOn DEF RxDecoded, Result, Goes
  <2> QED BY <2>1, <2>2
<1>2. CASE r.state = "TYP"
  <2> DEFINE s == [r EXCEPT !.type = c, !.state = "LEN", !.field_c = 0,
                            !.crc = crc32(r.crc, c)]
  <2>1. o = Result(s, "RS_IN_PKT")
    BY <1>2 DEF RxDecoded
  <2>2. /\ s \in RxState /\ s.state = "LEN" /\ s.index = r.index /\ s.field_c = 0
        /\ s.crc \in CRC /\ s.data = r.data
    BY <1>0, <1>a, <1>b, <1>2 DEF RxState
  <2> HIDE DEF s
  <2>3. RxInv(s)
    BY <2>2, <1>2 DEF RxInv
  <2> QED BY <2>1, <2>3, RxOn DEF Result, Goes
<1>3. CASE r.state = "LEN"
  <2> DEFINE n == IF r.field_c = 0 THEN c * 256 ELSE r.len + c
             s == [r EXCEPT !.crc = crc32(r.crc, c), !.field_c = r.field_c + 1, !.len = n]
  <2>1. o = IF r.field_c = 0 THEN Result(s, "RS_IN_PKT") ELSE RxLength(s, free)
    <3>1. CASE r.field_c = 0
      BY <3>1, <1>3 DEF RxDecoded
    <3>2. CASE r.field_c # 0
      BY <3>2, <1>3 DEF RxDecoded
    <3> QED BY <3>1, <3>2
  <2>2. r.field_c \in {0, 1} /\ (r.field_c = 1 => r.len \in 0 .. MaxLen - 255)
    <3>1. MaxLen - 255 = 65280
      BY DEF MaxLen
    <3> QED BY <3>1, <1>3, <1>a DEF RxInv, RxState
  <2>3. n \in 0 .. MaxLen /\ (r.field_c = 0 => n \in 0 .. MaxLen - 255)
    <3>1. MaxLen - 255 = 255 * 256
      BY DEF MaxLen
    <3> QED BY <3>1, <2>2, <1>a DEF Byte
  <2> HIDE DEF n
  <2>4. s \in RxState
    <3>1. r.field_c + 1 \in 0 .. 3
      BY <2>2
    <3> DEFINE g == r.field_c + 1
    <3> HIDE DEF g
    <3>2. s = [r EXCEPT !.crc = crc32(r.crc, c), !.field_c = g, !.len = n] /\ g \in 0 .. 3
      BY <3>1 DEF g
    <3> QED BY <1>0, <1>b, <1>3, <2>3, <3>2 DEF RxState
  <2>5. /\ s.state = "LEN" /\ s.index = r.index /\ s.field_c = r.field_c + 1
        /\ s.crc \in CRC /\ s.data = r.data /\ s.len = n
    BY <1>0, <1>b, <1>3 DEF RxState
  <2>6. r.index = 0 /\ r.data = NULL
    BY <1>3 DEF RxInv
  <2> HIDE DEF s
  <2>7. CASE r.field_c = 0
    <3>1. s.len <= 65280
      <4>1. MaxLen - 255 = 65280
        BY DEF MaxLen
      <4> QED BY <4>1, <2>3, <2>5, <2>7, <1>a
    <3>2. RxInv(s)
      BY <2>4, <2>5, <2>6, <2>7, <3>1 DEF RxInv
    <3> QED BY <2>1, <2>7, <3>2, RxOn DEF Result, Goes
  <2>8. CASE r.field_c = 1
    BY <2>1, <2>4, <2>5, <2>6, <2>8, RxLengthInv
  <2> QED BY <2>2, <2>7, <2>8
<1>4. CASE r.state = "DAT"
  <2> DEFINE d == [r.data EXCEPT ![r.index] = c]
             w == IF r.index + 1 = r.len THEN "CRC" ELSE "DAT"
             i == r.index + 1
             s == [r EXCEPT !.crc = crc32(r.crc, c), !.data = d, !.index = i, !.state = w]
  <2>1. o = Result(s, "RS_IN_PKT")
    <3>1. CASE r.index + 1 = r.len
      BY <3>1, <1>4 DEF RxDecoded
    <3>2. CASE r.index + 1 # r.len
      BY <3>2, <1>4 DEF RxDecoded
    <3> QED BY <3>1, <3>2
  <2>2. /\ r.index \in 0 .. r.len - 1 /\ r.data \in [0 .. r.len - 1 -> Byte]
        /\ r.len \in 1 .. MaxLen
    BY <1>4, <1>a DEF RxInv, RxState
  <2>3. d \in [0 .. r.len - 1 -> Byte] /\ d \in Data
    BY <2>2, DataFacts
  <2>4. i \in 0 .. MaxLen /\ (w = "DAT" => i < r.len) /\ w \in {"DAT", "CRC"}
    BY <2>2, <1>a
  <2> HIDE DEF d, i, w
  <2>5. s \in RxState
    BY <1>0, <1>b, <1>4, <2>3, <2>4 DEF RxState
  <2>6. /\ s.state = w /\ s.index = i /\ s.len = r.len /\ s.data = d
        /\ s.crc = crc32(r.crc, c)
    BY <1>0 DEF RxState
  <2> HIDE DEF s
  <2>7. RxInv(s)
    BY <1>b, <1>4, <2>3, <2>4, <2>5, <2>6 DEF RxInv
  <2> QED BY <2>1, <2>7, RxOn DEF Result, Goes
<1>5. CASE r.state = "CRC"
  <2> DEFINE d == [r.pcrc EXCEPT ![3 - r.field_c] = c]
             g == IF r.field_c = 3 THEN 0 ELSE r.field_c + 1
             w == IF r.field_c = 3 THEN "ETX" ELSE "CRC"
             s == [r EXCEPT !.pcrc = d, !.field_c = g, !.state = w]
  <2>1. o = Result(s, "RS_IN_PKT")
    <3>1. CASE r.field_c = 3
      BY <3>1, <1>5 DEF RxDecoded
    <3>2. CASE r.field_c # 3
      BY <3>2, <1>5 DEF RxDecoded
    <3> QED BY <3>1, <3>2
  <2>2. g \in 0 .. 3 /\ w \in {"CRC", "ETX"} /\ 3 - r.field_c \in 0 .. 3
    BY <1>0
  <2>3. d \in Word
    BY <2>2, <1>0 DEF Word, RxState
  <2> HIDE DEF d, g, w
  <2>5. s \in RxState
    BY <1>0, <2>2, <2>3 DEF RxState
  <2>6. s.state = w /\ s.crc = r.crc
    BY <1>0 DEF RxState
  <2> HIDE DEF s
  <2>7. RxInv(s)
    BY <1>5, <2>2, <2>5, <2>6 DEF RxInv
  <2> QED BY <2>1, <2>7, RxOn DEF Result, Goes
<1>6. CASE r.state = "ETX"
  <2>1. CASE c = STX
    <3>1. o = unexp_stx(r)
      BY <1>6, <2>1 DEF RxDecoded
    <3> QED BY <3>1, <1>0, RxUnexpected
  <2>2. CASE c # STX
    <3>1. o = Result([r EXCEPT !.state = "STX"],
                     IF c = ETX /\ r.crc = r.pcrc THEN "RS_GOOD_PKT" ELSE "RS_BAD_PKT")
      BY <1>6, <2>2 DEF RxDecoded
    <3>2. o.rx = [r EXCEPT !.state = "STX"] /\ ~ Goes(o)
      BY <3>1 DEF Result, Goes
    <3>3. o.rx \in RxState /\ o.rx.state = "STX"
      BY <3>2, <1>0 DEF RxState
    <3> QED BY <3>2, <3>3, RxEnds
  <2> QED BY <2>1, <2>2
<1> QED BY <1>0, <1>1, <1>2, <1>3, <1>4, <1>5, <1>6 DEF RxState

LEMMA UnescapedByte ==
  ASSUME NEW c \in Byte
  PROVE  Unescaped(c) \in Byte
<1>1. (c \div 64) % 2 = 1 => c >= 64
  BY DEF Byte
<1> QED BY <1>1 DEF Unescaped, ESCAPE, Byte

(* Whatever character comes, the receiver keeps RxInv.                     *)
LEMMA RxEngineInv ==
  ASSUME NEW r, RxInv(r), NEW c \in Byte, NEW free \in 0 .. MaxData
  PROVE  RxInv(After(Angel_RxEngine(r, c, free)))
<1>0. r \in RxState
  BY DEF RxInv
<1>1. \A e \in BOOLEAN : RxInv([r EXCEPT !.esc = e])
  <2> TAKE e \in BOOLEAN
  <2> DEFINE s == [r EXCEPT !.esc = e]
  <2>1. /\ s \in RxState /\ s.state = r.state /\ s.crc = r.crc /\ s.data = r.data
        /\ s.index = r.index /\ s.field_c = r.field_c /\ s.len = r.len
    BY <1>0 DEF RxState
  <2> HIDE DEF s
  <2>2. RxInv(s)
    BY <2>1 DEF RxInv
  <2> QED BY <2>2 DEF s
<1>2. CASE r.esc
  BY <1>1, <1>2, UnescapedByte, RxDecodedInv DEF Angel_RxEngine
<1>3. CASE ~ r.esc /\ c = ESC
  <2> DEFINE s == [r EXCEPT !.esc = TRUE]
  <2>1. Angel_RxEngine(r, c, free) = Result(s, "RS_IN_PKT")
    BY <1>3 DEF Angel_RxEngine
  <2>2. RxInv(s)
    BY <1>1
  <2> HIDE DEF s
  <2> QED BY <2>1, <2>2, RxOn DEF Result, Goes
<1>4. CASE ~ r.esc /\ c # ESC
  BY <1>4, <1>0, RxUnexpected, RxDecodedInv DEF Angel_RxEngine
<1> QED BY <1>2, <1>3, <1>4

-----------------------------------------------------------------------------
(* A byte of a field is received: the receiver's state is again the one    *)
(* that goes with the transmitter's.                                       *)
IsAdvanced(p, t, f, n) ==
  /\ ~ n.esc
  /\ t.phase = "CRC" => n.crc = t.crc
  /\ t.phase # "CRC" => n.crc = crc32(t.crc, f)
  /\ t.field_c # 1 => n.phase = t.phase /\ n.field_c = t.field_c - 1
  /\ t.field_c = 1 /\ t.phase = "HEAD" => n.phase = "DATA" /\ n.field_c = p.len
  /\ t.field_c = 1 /\ t.phase = "DATA" => n.phase = "CRC" /\ n.field_c = 4
  /\ t.field_c = 1 /\ t.phase = "CRC" => n.phase = "ETX"

LEMMA AdvancedIs ==
  ASSUME NEW p, NEW t \in TxState, NEW f, NEW n, InBody(t), n = Advanced(p, Counted(t, f))
  PROVE  IsAdvanced(p, t, f, n)
<1> DEFINE k == t.field_c - 1
           c == IF t.phase = "CRC" THEN t.crc ELSE crc32(t.crc, f)
           v == [phase |-> t.phase, esc |-> FALSE, field_c |-> k, crc |-> c]
<1>1. Counted(t, f) = [t EXCEPT !.field_c = k, !.esc = FALSE, !.crc = c]
  <2>1. CASE t.phase = "CRC"
    BY <2>1 DEF Counted
  <2>2. CASE t.phase # "CRC"
    BY <2>2 DEF Counted
  <2> QED BY <2>1, <2>2
<1>2. (k = 0) = (t.field_c = 1)
  BY DEF TxState
<1> HIDE DEF k, c, IsAdvanced
<1>3. Counted(t, f) = v
  BY <1>1 DEF TxState
<1>4. CASE k # 0
  <2>1. n = v
    BY <1>3, <1>4 DEF Advanced
  <2> QED BY <2>1, <1>2, <1>4 DEF k, c, IsAdvanced
<1>5. CASE k = 0 /\ t.phase = "HEAD"
  <2>1. n = [v EXCEPT !.phase = "DATA", !.field_c = p.len]
    BY <1>3, <1>5 DEF Advanced
  <2> QED BY <2>1, <1>2, <1>5 DEF c, IsAdvanced
<1>6. CASE k = 0 /\ t.phase = "DATA"
  <2>1. n = [v EXCEPT !.phase = "CRC", !.field_c = 4]
    BY <1>3, <1>6 DEF Advanced
  <2> QED BY <2>1, <1>2, <1>6 DEF c, IsAdvanced
<1>7. CASE k = 0 /\ t.phase = "CRC"
  <2>1. n = [v EXCEPT !.phase = "ETX"]
    BY <1>3, <1>7 DEF Advanced
  <2> QED BY <2>1, <1>2, <1>7 DEF c, IsAdvanced
<1> QED BY <1>4, <1>5, <1>6, <1>7 DEF InBody

LEMMA SyncHead ==
  ASSUME NEW p \in Packet, NEW t \in TxState, t.phase = "HEAD", t.field_c \in 1 .. 3,
         NEW r, RxInv(r), Sync(p, t, r), ~ r.esc, NEW f, f = Field(p, t), f \in Byte,
         NEW o, o = RxDecoded(r, f, MaxData), NEW n, n = Advanced(p, Counted(t, f))
  PROVE  Goes(o) /\ Sync(p, n, o.rx)
<1> DEFINE c == crc32(t.crc, f)
<1>0. r \in RxState /\ r.crc = t.crc
  BY DEF RxInv, Sync
<1>c. /\ ~ n.esc /\ n.crc = c
      /\ t.field_c # 1 => n.phase = "HEAD" /\ n.field_c = t.field_c - 1
      /\ t.field_c = 1 => n.phase = "DATA" /\ n.field_c = p.len
  <2>1. InBody(t)
    BY DEF InBody
  <2>2. IsAdvanced(p, t, f, n)
    BY <2>1, AdvancedIs
  <2> QED BY <2>2 DEF IsAdvanced
<1>1. CASE t.field_c = 3
  <2> DEFINE s == [r EXCEPT !.type = f, !.state = "LEN", !.field_c = 0, !.crc = c]
  <2>1. n.phase = "HEAD" /\ ~ n.esc /\ n.field_c = 2 /\ n.crc = c
    BY <1>1, <1>c
  <2>2. r.state = "TYP" /\ f = p.type
    BY <1>1 DEF Sync, Field
  <2>3. o = Result(s, "RS_IN_PKT")
    BY <1>0, <2>2 DEF RxDecoded
  <2>4. /\ s.type = p.type /\ s.state = "LEN" /\ s.field_c = 0
        /\ s.crc = c /\ ~ s.esc
    BY <1>0, <2>2 DEF RxState
  <2> HIDE DEF s, c
  <2>5. Sync(p, n, s)
    BY <2>1, <2>4 DEF Sync
  <2> QED BY <2>3, <2>5 DEF Goes, Result
<1>2. CASE t.field_c = 2
  <2> DEFINE s == [r EXCEPT !.crc = c, !.field_c = 1, !.len = f * 256]
  <2>1. n.phase = "HEAD" /\ ~ n.esc /\ n.field_c = 1 /\ n.crc = c
    BY <1>2, <1>c
  <2>2. r.state = "LEN" /\ r.field_c = 0 /\ r.type = p.type /\ f = p.len \div 256
    BY <1>2 DEF Sync, Field
  <2>3. o = Result(s, "RS_IN_PKT")
    <3>1. r.field_c + 1 = 1
      BY <2>2
    <3> QED BY <1>0, <2>2, <3>1 DEF RxDecoded
  <2>4. /\ s.type = p.type /\ s.state = "LEN" /\ s.field_c = 1
        /\ s.crc = c /\ s.len = (p.len \div 256) * 256 /\ ~ s.esc
    BY <1>0, <2>2 DEF RxState
  <2> HIDE DEF s, c
  <2>5. Sync(p, n, s)
    BY <2>1, <2>4 DEF Sync
  <2> QED BY <2>3, <2>5 DEF Goes, Result
<1>3. CASE t.field_c = 1
  <2> DEFINE q == [r EXCEPT !.crc = c, !.field_c = 2, !.len = p.len]
             d == [i \in 0 .. p.len - 1 |-> 0]
             s == [q EXCEPT !.field_c = 0, !.state = "DAT", !.data = d]
  <2>0. p.len \in Nat /\ p.len <= MaxLen /\ p.len # 0 /\ p.len <= MaxData
        /\ p.type < DC_NUM_CHANNELS
    BY PacketFacts, MaxLenNat DEF DC_NUM_CHANNELS
  <2>1. n.phase = "DATA" /\ ~ n.esc /\ n.field_c = p.len /\ n.crc = c
    BY <1>3, <1>c
  <2>2. /\ r.state = "LEN" /\ r.field_c = 1 /\ r.type = p.type /\ f = p.len % 256
        /\ r.len = (p.len \div 256) * 256 /\ r.data = NULL /\ r.index = 0
    BY <1>3 DEF Sync, Field, RxInv
  <2>3. r.len + f = p.len /\ r.field_c + 1 = 2
    BY <2>2, <2>0, TwoBytes
  <2>4. o = RxLength(q, MaxData)
    <3>1. o = RxLength([r EXCEPT !.crc = crc32(@, f), !.field_c = @ + 1, !.len = @ + f], MaxData)
      BY <2>2 DEF RxDecoded
    <3>2. [r EXCEPT !.crc = crc32(@, f), !.field_c = @ + 1, !.len = @ + f] = q
      BY <1>0, <2>3
    <3> QED BY <3>1, <3>2
  <2>5. /\ q.len = p.len /\ q.data = NULL /\ q.type = p.type
    BY <1>0, <2>2 DEF RxState
  <2>6. o = Result(s, "RS_IN_PKT")
    <3> HIDE DEF q
    <3> QED BY <2>0, <2>4, <2>5 DEF RxLength
  <2>7. /\ s.type = p.type /\ s.len = p.len /\ s.state = "DAT" /\ s.field_c = 0
        /\ s.index = 0 /\ s.data = d /\ s.crc = c /\ ~ s.esc
    <3> HIDE DEF d
    <3> QED BY <1>0, <2>2 DEF RxState
  <2>8. d \in [0 .. p.len - 1 -> Byte] /\ 0 = p.len - p.len
    BY <2>0 DEF Byte
  <2> HIDE DEF s, q, c, d
  <2>9. Sync(p, n, s)
    <3>1. s.index = p.len - n.field_c
      BY <2>1, <2>7, <2>8
    <3>2. \A i \in 0 .. s.index - 1 : s.data[i] = p.data[i]
      BY <2>7
    <3> QED BY <2>1, <2>7, <2>8, <3>1, <3>2 DEF Sync
  <2> QED BY <2>6, <2>9 DEF Goes, Result
<1> QED BY <1>1, <1>2, <1>3

LEMMA SyncData ==
  ASSUME NEW p \in Packet, NEW t \in TxState, t.phase = "DATA", t.field_c \in 1 .. p.len,
         NEW r, RxInv(r), Sync(p, t, r), ~ r.esc, NEW f, f = Field(p, t), f \in Byte,
         NEW o, o = RxDecoded(r, f, MaxData), NEW n, n = Advanced(p, Counted(t, f))
  PROVE  Goes(o) /\ Sync(p, n, o.rx)
<1> DEFINE c == crc32(t.crc, f)
           x == p.len - t.field_c
           d == [r.data EXCEPT ![x] = f]
           w == IF x + 1 = p.len THEN "CRC" ELSE "DAT"
           s == [r EXCEPT !.crc = c, !.data = d, !.index = x + 1, !.state = w]
<1>0. r \in RxState /\ p.len \in Nat /\ p.data \in [0 .. p.len - 1 -> Byte]
  BY PacketFacts DEF RxInv
<1>1. /\ ~ n.esc /\ n.crc = c
      /\ t.field_c # 1 => n.phase = "DATA" /\ n.field_c = t.field_c - 1
      /\ t.field_c = 1 => n.phase = "CRC" /\ n.field_c = 4
  <2>1. InBody(t)
    BY DEF InBody
  <2>2. IsAdvanced(p, t, f, n)
    BY <2>1, AdvancedIs
  <2> QED BY <2>2 DEF IsAdvanced
<1>2. /\ r.state = "DAT" /\ r.field_c = 0 /\ r.index = x /\ r.type = p.type
      /\ r.len = p.len /\ r.data \in [0 .. p.len - 1 -> Byte] /\ r.crc = t.crc
      /\ \A i \in 0 .. x - 1 : r.data[i] = p.data[i]
  BY DEF Sync
<1>3. f = p.data[x] /\ x \in 0 .. p.len - 1
  BY <1>0 DEF Field
<1>4. o = Result(s, "RS_IN_PKT")
  <2>1. CASE x + 1 = p.len
    BY <2>1, <1>0, <1>2 DEF RxDecoded
  <2>2. CASE x + 1 # p.len
    BY <2>2, <1>0, <1>2 DEF RxDecoded
  <2> QED BY <2>1, <2>2
<1>5. d \in [0 .. p.len - 1 -> Byte] /\ \A i \in 0 .. x : d[i] = p.data[i]
  <2>1. x \in Nat /\ \A i \in 0 .. x : i \in 0 .. p.len - 1 /\ (i = x \/ i \in 0 .. x - 1)
    BY <1>0, <1>3
  <2> HIDE DEF x
  <2>2. d \in [0 .. p.len - 1 -> Byte]
    BY <1>2
  <2>3. \A i \in 0 .. x : d[i] = p.data[i]
    BY <2>1, <1>2, <1>3
  <2> QED BY <2>2, <2>3
<1>6. (w = "DAT" <=> t.field_c # 1) /\ w \in {"DAT", "CRC"}
  BY <1>0, <1>3
<1> HIDE DEF c, d, w
<1>7. /\ s.state = w /\ s.field_c = 0 /\ s.index = x + 1 /\ s.type = p.type
      /\ s.len = p.len /\ s.data = d /\ s.crc = c /\ ~ s.esc
  <2> HIDE DEF x
  <2> QED BY <1>0, <1>2 DEF RxState
<1> HIDE DEF s
<1>8. Sync(p, n, s)
  <2>1. CASE t.field_c # 1
    <3>1. n.phase = "DATA" /\ s.index = p.len - n.field_c /\ s.state = "DAT"
      BY <2>1, <1>0, <1>1, <1>6, <1>7
    <3>2. \A i \in 0 .. s.index - 1 : s.data[i] = p.data[i]
      BY <1>3, <1>5, <1>7
    <3> HIDE DEF x
    <3> QED BY <1>1, <1>5, <1>7, <3>1, <3>2 DEF Sync
  <2>2. CASE t.field_c = 1
    <3>1. n.phase = "CRC" /\ s.state = "CRC" /\ n.field_c = 4
      BY <2>2, <1>1, <1>6, <1>7
    <3>2. \A i \in 0 .. p.len - 1 : d[i] = p.data[i]
      <4>1. x = p.len - 1
        BY <2>2, <1>0
      <4> QED BY <4>1, <1>5
    <3>3. d = p.data
      <4> HIDE DEF x
      <4> DEFINE S == 0 .. p.len - 1
      <4>1. d \in [S -> Byte] /\ p.data \in [S -> Byte]
        BY <1>0, <1>5
      <4>2. \A i \in S : d[i] = p.data[i]
        BY <3>2
      <4> HIDE DEF S
      <4> QED BY <4>1, <4>2, SameFunction
    <3>4. s.field_c = 4 - n.field_c /\ n.field_c .. 3 = {}
      BY <3>1, <1>7
    <3> QED BY <1>1, <1>5, <1>7, <3>1, <3>3, <3>4 DEF Sync
  <2> QED BY <2>1, <2>2
<1> QED BY <1>4, <1>8 DEF Goes, Result

LEMMA SyncCRC ==
  ASSUME NEW p \in Packet, NEW t \in TxState, t.phase = "CRC", t.field_c \in 1 .. 4,
         NEW r, RxInv(r), Sync(p, t, r), ~ r.esc, NEW f, f = Field(p, t), f \in Byte,
         NEW o, o = RxDecoded(r, f, MaxData), NEW n, n = Advanced(p, Counted(t, f))
  PROVE  Goes(o) /\ Sync(p, n, o.rx)
<1> DEFINE x == t.field_c - 1
           d == [r.pcrc EXCEPT ![x] = f]
           g == IF x = 0 THEN 0 ELSE r.field_c + 1
           w == IF x = 0 THEN "ETX" ELSE "CRC"
           s == [r EXCEPT !.pcrc = d, !.field_c = g, !.state = w]
<1>0. r \in RxState /\ r.pcrc \in Word /\ t.crc \in Word
  BY CRCFacts DEF RxInv, RxState, TxState
<1>1. /\ ~ n.esc /\ n.crc = t.crc
      /\ t.field_c # 1 => n.phase = "CRC" /\ n.field_c = x
      /\ t.field_c = 1 => n.phase = "ETX"
  <2>1. InBody(t)
    BY DEF InBody
  <2>2. IsAdvanced(p, t, f, n)
    BY <2>1, AdvancedIs
  <2> QED BY <2>2 DEF IsAdvanced
<1>2. /\ r.state = "CRC" /\ r.field_c = 4 - t.field_c /\ r.type = p.type
      /\ r.len = p.len /\ r.data = p.data /\ r.data \in [0 .. p.len - 1 -> Byte]
      /\ r.crc = t.crc /\ \A k \in t.field_c .. 3 : r.pcrc[k] = t.crc[k]
  BY DEF Sync
<1>3. f = t.crc[x] /\ x \in 0 .. 3 /\ 3 - r.field_c = x /\ (r.field_c = 3 <=> x = 0)
  BY <1>2 DEF Field
<1>4. o = Result(s, "RS_IN_PKT")
  <2>1. CASE x = 0
    BY <2>1, <1>0, <1>2, <1>3 DEF RxDecoded
  <2>2. CASE x # 0
    BY <2>2, <1>0, <1>2, <1>3 DEF RxDecoded
  <2> QED BY <2>1, <2>2
<1>5. d \in Word /\ \A k \in x .. 3 : d[k] = t.crc[k]
  BY <1>0, <1>2, <1>3 DEF Word
<1>6. x # 0 => g = 4 - x /\ w = "CRC"
  BY <1>2
<1> HIDE DEF d, g, w
<1>7. /\ s.state = w /\ s.field_c = g /\ s.type = p.type /\ s.len = p.len
      /\ s.data = p.data /\ s.data \in [0 .. p.len - 1 -> Byte]
      /\ s.crc = t.crc /\ s.pcrc = d /\ ~ s.esc
  BY <1>0, <1>2 DEF RxState
<1> HIDE DEF s
<1>8. Sync(p, n, s)
  <2>1. CASE x # 0
    <3>1. n.phase = "CRC" /\ s.field_c = 4 - n.field_c /\ s.state = "CRC" /\ n.field_c = x
      BY <2>1, <1>1, <1>6, <1>7
    <3>2. \A k \in n.field_c .. 3 : s.pcrc[k] = n.crc[k]
      BY <3>1, <1>1, <1>5, <1>7
    <3> HIDE DEF x
    <3> QED BY <1>1, <1>7, <3>1, <3>2 DEF Sync
  <2>2. CASE x = 0
    <3>1. n.phase = "ETX" /\ s.state = "ETX"
      BY <2>2, <1>1, <1>7 DEF w
    <3>2. d = t.crc
      BY <2>2, <1>0, <1>5 DEF Word
    <3> HIDE DEF x
    <3> QED BY <1>1, <1>7, <3>1, <3>2 DEF Sync
  <2> QED BY <2>1, <2>2
<1> QED BY <1>4, <1>8 DEF Goes, Result

(* A character of a frame is received: the two engines stay in step.       *)
LEMMA SyncStep ==
  ASSUME NEW p \in Packet, NEW t, TxInv(p, t), InBody(t),
         NEW r, RxInv(r), Sync(p, t, r), NEW ch, ch = TxChar(p, t),
         NEW o, o = Angel_RxEngine(r, ch, MaxData), NEW n, n = TxNext(p, t)
  PROVE  Goes(o) /\ Sync(p, n, o.rx)
<1> DEFINE f == Field(p, t)
<1>0. /\ t \in TxState /\ t.phase \in {"HEAD", "DATA", "CRC"} /\ r \in RxState
      /\ (r.esc <=> t.esc) /\ f \in Byte /\ t.esc \in BOOLEAN /\ r.esc \in BOOLEAN
  BY FieldByte DEF TxInv, RxInv, InBody, Sync, TxState, RxState
<1>1. CASE MustEscape(p, t)
  <2> DEFINE s == [r EXCEPT !.esc = TRUE]
  <2>1. ~ t.esc /\ ~ r.esc /\ ch = ESC /\ n = [t EXCEPT !.esc = TRUE]
    BY <1>0, <1>1, TxSteps DEF MustEscape
  <2>2. o = Result(s, "RS_IN_PKT")
    BY <2>1 DEF Angel_RxEngine
  <2>3. /\ s.esc /\ s.state = r.state /\ s.field_c = r.field_c /\ s.index = r.index
        /\ s.type = r.type /\ s.len = r.len /\ s.data = r.data /\ s.crc = r.crc
        /\ s.pcrc = r.pcrc
    BY <1>0 DEF RxState
  <2>4. n.esc /\ n.phase = t.phase /\ n.field_c = t.field_c /\ n.crc = t.crc
    BY <1>0, <2>1 DEF TxState
  <2> HIDE DEF s
  <2>5. Sync(p, n, s)
    BY <1>0, <2>3, <2>4 DEF Sync
  <2> QED BY <2>2, <2>5 DEF Goes, Result
<1>2. CASE ~ MustEscape(p, t)
  <2> DEFINE s == [r EXCEPT !.esc = FALSE]
             u == [t EXCEPT !.esc = FALSE]
  <2>1. /\ s \in RxState /\ ~ s.esc /\ s.state = r.state /\ s.field_c = r.field_c
        /\ s.index = r.index /\ s.type = r.type /\ s.len = r.len /\ s.data = r.data
        /\ s.crc = r.crc /\ s.pcrc = r.pcrc
    BY <1>0 DEF RxState
  <2>2. /\ u \in TxState /\ ~ u.esc /\ u.phase = t.phase /\ u.field_c = t.field_c
        /\ u.crc = t.crc
    BY <1>0 DEF TxState
  <2>3. o = RxDecoded(s, f, MaxData)
    <3>1. CASE t.esc
      <4>1. f \in 0 .. 31 /\ ch = f + 64 /\ r.esc
        BY <3>1, <1>0, <1>2, TxSteps, CharFacts DEF TxInv, ESCAPE
      <4>2. Unescaped(ch) = f
        <5> HIDE DEF f
        <5>1. (f + 64) \div 64 = 1
          BY <4>1
        <5> QED BY <4>1, <5>1 DEF Unescaped, ESCAPE
      <4> QED BY <4>1, <4>2 DEF Angel_RxEngine
    <3>2. CASE ~ t.esc
      <4>1. f \notin esc_set /\ ch = f /\ ~ r.esc
        BY <3>2, <1>0, <1>2, TxSteps DEF MustEscape
      <4>2. f # ESC /\ f # STX /\ f # ETX
        BY <4>1, CharAssumption
      <4>3. s = r
        BY <4>1, <1>0 DEF RxState
      <4> HIDE DEF s, f
      <4> QED BY <4>1, <4>2, <4>3 DEF Angel_RxEngine
    <3> QED BY <3>1, <3>2
  <2>4. n = Advanced(p, Counted(u, f)) /\ Field(p, u) = f
    <3>1. Counted(u, f) = Counted(t, f)
      <4> HIDE DEF f
      <4> QED BY <1>0 DEF Counted, TxState
    <3>2. Field(p, u) = f
      <4> HIDE DEF u
      <4> QED BY <2>2, <1>0 DEF Field
    <3>3. n = Advanced(p, Counted(t, f))
      BY <1>2, TxSteps
    <3> HIDE DEF u, f
    <3> QED BY <3>1, <3>2, <3>3
  <2> HIDE DEF s, u
  <2>5. RxInv(s) /\ Sync(p, u, s)
    <3>1. RxInv(s)
      BY <2>1 DEF RxInv
    <3>2. Sync(p, u, s)
      BY <2>1, <2>2 DEF Sync
    <3> QED BY <3>1, <3>2
  <2>6. /\ u.phase = "HEAD" => u.field_c \in 1 .. 3
        /\ u.phase = "DATA" => u.field_c \in 1 .. p.len
        /\ u.phase = "CRC" => u.field_c \in 1 .. 4
    BY <2>2 DEF TxInv
  <2> HIDE DEF f
  <2>7. CASE t.phase = "HEAD"
    BY <2>7, <1>0, <2>1, <2>2, <2>3, <2>4, <2>5, <2>6, SyncHead
  <2>8. CASE t.phase = "DATA"
    BY <2>8, <1>0, <2>1, <2>2, <2>3, <2>4, <2>5, <2>6, SyncData
  <2>9. CASE t.phase = "CRC"
    BY <2>9, <1>0, <2>1, <2>2, <2>3, <2>4, <2>5, <2>6, SyncCRC
  <2> QED BY <1>0, <2>7, <2>8, <2>9
<1> QED BY <1>1, <1>2

(* The ETX that ends it completes the packet.                              *)
LEMMA SyncEnds ==
  ASSUME NEW p \in Packet, NEW t, TxInv(p, t), t.phase = "ETX",
         NEW r, RxInv(r), Sync(p, t, r),
         NEW o, o = Angel_RxEngine(r, ETX, MaxData)
  PROVE  o.status = "RS_GOOD_PKT" /\ o.rx.type = p.type /\ o.rx.data = p.data /\ ~ o.rx.esc
<1> DEFINE s == [r EXCEPT !.state = "STX"]
<1>1. /\ r \in RxState /\ r.state = "ETX" /\ r.type = p.type /\ r.data = p.data
      /\ r.crc = r.pcrc /\ ~ r.esc
  BY DEF RxInv, Sync, TxInv, InBody
<1>2. ETX # ESC /\ ETX # STX
  BY CharAssumption
<1>3. o = Result(s, "RS_GOOD_PKT")
  BY <1>1, <1>2 DEF Angel_RxEngine, RxDecoded
<1>4. s.type = p.type /\ s.data = p.data /\ ~ s.esc
  BY <1>1 DEF RxState
<1> HIDE DEF s
<1> QED BY <1>3, <1>4 DEF Result

(* Only ESC leaves an ESC behind.                                          *)
LEMMA DecodedEsc ==
  ASSUME NEW r, r \in RxState, NEW c, NEW free
  PROVE  (RxDecoded(r, c, free).rx.esc <=> r.esc) /\ "esc" \in DOMAIN RxDecoded(r, c, free).rx
<1> DEFINE o == RxDecoded(r, c, free)
<1>1. CASE r.state = "STX"
  BY <1>1 DEF RxDecoded, Result, Started, RxState
<1>2. CASE r.state = "TYP"
  BY <1>2 DEF RxDecoded, Result, RxState
<1>3. CASE r.state = "LEN"
  <2> DEFINE x == crc32(r.crc, c)
             k == r.field_c + 1
             n == IF r.field_c = 0 THEN c * 256 ELSE r.len + c
             s == [r EXCEPT !.crc = x, !.field_c = k, !.len = n]
  <2>1. o = IF r.field_c = 0 THEN Result(s, "RS_IN_PKT") ELSE RxLength(s, free)
    <3>1. CASE r.field_c = 0
      BY <3>1, <1>3 DEF RxDecoded
    <3>2. CASE r.field_c # 0
      BY <3>2, <1>3 DEF RxDecoded
    <3> QED BY <3>1, <3>2
  <2> HIDE DEF x, k, n
  <2>2. DOMAIN s = DOMAIN r /\ "esc" \in DOMAIN s /\ "data" \in DOMAIN s /\ (s.esc <=> r.esc)
    BY DEF RxState
  <2> HIDE DEF s
  <2>3. (RxLength(s, free).rx.esc <=> s.esc) /\ "esc" \in DOMAIN RxLength(s, free).rx
    BY <2>2 DEF RxLength, Result
  <2> QED BY <2>1, <2>2, <2>3 DEF Result
<1>4. CASE r.state = "DAT"
  BY <1>4 DEF RxDecoded, Result, RxState
<1>5. CASE r.state = "CRC"
  BY <1>5 DEF RxDecoded, Result, RxState
<1>6. CASE r.state = "ETX"
  BY <1>6 DEF RxDecoded, Result, unexp_stx, RxState
<1> QED BY <1>1, <1>2, <1>3, <1>4, <1>5, <1>6 DEF RxState

LEMMA EngineEsc ==
  ASSUME NEW r, RxInv(r), NEW c, NEW free
  PROVE  After(Angel_RxEngine(r, c, free)).esc <=> (~ r.esc /\ c = ESC)
<1> DEFINE o == Angel_RxEngine(r, c, free)
<1>0. r \in RxState /\ r.esc \in BOOLEAN
  BY DEF RxInv, RxState
<1>1. (o.rx.esc <=> (~ r.esc /\ c = ESC)) /\ "esc" \in DOMAIN o.rx
  <2>1. CASE r.esc
    <3> DEFINE s == [r EXCEPT !.esc = FALSE]
               u == Unescaped(c)
    <3>1. s \in RxState /\ ~ s.esc
      BY <1>0 DEF RxState
    <3>2. o = RxDecoded(s, u, free)
      BY <2>1 DEF Angel_RxEngine
    <3> HIDE DEF s, u, o
    <3> QED BY <2>1, <3>1, <3>2, DecodedEsc
  <2>2. CASE ~ r.esc /\ c = ESC
    <3>1. o = Result([r EXCEPT !.esc = TRUE], "RS_IN_PKT")
      BY <2>2 DEF Angel_RxEngine
    <3> QED BY <2>2, <3>1, <1>0 DEF Result, RxState
  <2>3. CASE ~ r.esc /\ c # ESC
    <3>1. o \in {unexp_stx(r), unexp_etx(r), RxDecoded(r, c, free)}
      BY <2>3 DEF Angel_RxEngine
    <3>2. /\ (unexp_stx(r).rx.esc <=> r.esc) /\ "esc" \in DOMAIN unexp_stx(r).rx
          /\ (unexp_etx(r).rx.esc <=> r.esc) /\ "esc" \in DOMAIN unexp_etx(r).rx
      BY <1>0 DEF unexp_stx, unexp_etx, Result, RxState
    <3> HIDE DEF o
    <3> QED BY <2>3, <3>1, <3>2, <1>0, DecodedEsc
  <2> QED BY <2>1, <2>2, <2>3
<1> HIDE DEF o
<1>2. After(o).esc <=> o.rx.esc
  BY <1>1 DEF After
<1> QED BY <1>1, <1>2 DEF o

(* The STX that begins it puts them in step.                               *)
LEMMA SyncStarts ==
  ASSUME NEW p \in Packet, NEW t, TxInv(p, t), t.phase = "STX",
         NEW r, RxInv(r), NEW o, o = Angel_RxEngine(r, STX, MaxData),
         NEW n, n = TxNext(p, t), ~ r.esc
  PROVE  Sync(p, n, After(o))
<1>0. r \in RxState /\ t \in TxState /\ ~ t.esc /\ STX # ESC /\ STX # ETX
  BY CharAssumption DEF RxInv, TxInv, InBody
<1>1. n = [t EXCEPT !.phase = "HEAD", !.field_c = 3, !.crc = startCRC32]
  BY TxSteps
<1>2. n.phase = "HEAD" /\ n.field_c = 3 /\ n.crc = startCRC32 /\ ~ n.esc
  BY <1>0, <1>1 DEF TxState
<1>3. After(o).state = "TYP" /\ After(o).crc = startCRC32 /\ ~ After(o).esc
  <2>1. CASE r.state = "STX"
    <3>1. o = Result(Started(r), "RS_IN_PKT")
      BY <2>1, <1>0 DEF Angel_RxEngine, RxDecoded
    <3>2. /\ Started(r).state = "TYP" /\ Started(r).crc = startCRC32
          /\ (Started(r).esc <=> r.esc)
      BY <1>0 DEF Started, RxState
    <3>3. After(o) = Started(r)
      BY <3>1 DEF After, Goes, Result
    <3> QED BY <3>2, <3>3
  <2>2. CASE r.state # "STX"
    <3>1. o = unexp_stx(r)
      BY <2>2, <1>0 DEF Angel_RxEngine
    <3> DEFINE s == [r EXCEPT !.crc = startCRC32, !.index = 0, !.state = "TYP", !.field_c = 0]
    <3>2. s.state = "TYP" /\ s.crc = startCRC32 /\ ~ s.esc /\ DOMAIN s = DOMAIN r
      BY <1>0 DEF RxState
    <3>3. o = Result(s, "RS_BAD_PKT")
      BY <3>1 DEF unexp_stx
    <3> HIDE DEF s
    <3>4. After(o) = [s EXCEPT !.data = NULL, !.type = DC_NUM_CHANNELS]
      BY <3>3 DEF After, Goes, Result
    <3>5. {"state", "crc", "esc"} \subseteq DOMAIN s
      BY <3>2, <1>0 DEF RxState
    <3> QED BY <3>2, <3>4, <3>5
  <2> QED BY <2>1, <2>2
<1> QED BY <1>2, <1>3 DEF Sync

-----------------------------------------------------------------------------
LEMMA TxEsc ==
  ASSUME NEW p \in Packet, NEW t, TxInv(p, t), t.phase # "IDLE"
  PROVE  /\ TxNext(p, t).esc <=> TxChar(p, t) = ESC
         /\ TxChar(p, t) = ESC => ~ t.esc
         /\ InBody(t) => TxNext(p, t).phase \notin {"STX", "IDLE"}
<1> DEFINE f == Field(p, t)
<1>0. t \in TxState /\ STX # ESC /\ ETX # ESC /\ ESC \in esc_set /\ ESC \in 0 .. 31
  BY CharAssumption DEF TxInv
<1>1. CASE t.phase \in {"STX", "ETX"}
  <2>1. ~ t.esc /\ ~ InBody(t)
    BY <1>1 DEF TxInv, InBody
  <2>2. TxChar(p, t) # ESC
    BY <1>0, <1>1, TxSteps
  <2>3. ~ TxNext(p, t).esc
    <3>1. CASE t.phase = "STX"
      <4>1. TxNext(p, t) = [t EXCEPT !.phase = "HEAD", !.field_c = 3, !.crc = startCRC32]
        BY <3>1, TxSteps
      <4> QED BY <4>1, <1>0, <2>1 DEF TxState
    <3>2. CASE t.phase = "ETX"
      <4>1. TxNext(p, t) = [t EXCEPT !.phase = "IDLE"]
        BY <3>2, TxSteps
      <4> QED BY <4>1, <1>0, <2>1 DEF TxState
    <3> QED BY <1>1, <3>1, <3>2
  <2> QED BY <2>1, <2>2, <2>3
<1>2. CASE InBody(t) /\ MustEscape(p, t)
  <2>1. TxChar(p, t) = ESC /\ TxNext(p, t) = [t EXCEPT !.esc = TRUE] /\ ~ t.esc
    BY <1>2, TxSteps DEF MustEscape
  <2>2. TxNext(p, t).esc /\ TxNext(p, t).phase = t.phase
    BY <2>1, <1>0 DEF TxState
  <2> QED BY <1>2, <2>1, <2>2 DEF InBody
<1>3. CASE InBody(t) /\ ~ MustEscape(p, t)
  <2>1. TxChar(p, t) = IF t.esc THEN f + ESCAPE ELSE f
    BY <1>3, TxSteps
  <2>2. TxNext(p, t) = Advanced(p, Counted(t, f))
    BY <1>3, TxSteps
  <2>3. f \in Byte /\ (~ t.esc => f \notin esc_set)
    BY <1>3, FieldByte DEF MustEscape
  <2> HIDE DEF f
  <2>4. TxChar(p, t) # ESC
    BY <1>0, <2>1, <2>3 DEF Byte, ESCAPE
  <2>5. IsAdvanced(p, t, f, TxNext(p, t))
    BY <1>0, <1>3, <2>2, AdvancedIs
  <2>6. ~ TxNext(p, t).esc /\ TxNext(p, t).phase \notin {"STX", "IDLE"}
    BY <1>3, <2>5 DEF IsAdvanced, InBody
  <2> QED BY <2>4, <2>6
<1> QED BY <1>0, <1>1, <1>2, <1>3 DEF TxState, InBody

LEMMA InitIInv == Init => IInv
<1> SUFFICES ASSUME Init PROVE IInv
  OBVIOUS
<1>0. /\ MaxLen \in Nat /\ startCRC32 \in CRC /\ startCRC32 \in Word /\ NULL \in Data
      /\ DC_NUM_CHANNELS \in Byte
  BY MaxLenNat, CRCFacts, DataFacts DEF DC_NUM_CHANNELS, Byte
<1>1. TxInv(packet, tx)
  BY <1>0 DEF Init, TxInv, TxState
<1>2. RxInv(rx)
  BY <1>0 DEF Init, RxInv, RxState
<1>3. EscInv
  BY CharAssumption DEF Init, EscInv
<1> QED BY <1>1, <1>2, <1>3 DEF Init, IInv, FrameDelivered

(* Of the tx engine the actions see the character and the next state, of   *)
(* the rx engine what Received makes of the result.                        *)
LEMMA ReceivedIs ==
  ASSUME NEW o, Received(o)
  PROVE  rx' = After(o)
BY DEF Received, After, Goes

LEMMA FaultIInv ==
  ASSUME IInv, Fault, packet' \in Packet, TxInv(packet', tx'), RxInv(rx')
  PROVE  IInv'
<1>1. EscInv'
  BY CharAssumption DEF IInv, EscInv, Fault
<1> QED BY <1>1 DEF IInv, Fault, FrameDelivered

LEMMA PassIInv ==
  ASSUME IInv, Pass
  PROVE  IInv'
<1> DEFINE ch == TxChar(packet, tx)
           n == TxNext(packet, tx)
           o == Angel_RxEngine(rx, ch, MaxData)
<1>0. packet \in Packet /\ TxInv(packet, tx) /\ RxInv(rx) /\ tx.phase # "IDLE" /\ EscInv
      /\ seen \in BOOLEAN /\ intact \in BOOLEAN /\ tx' = n /\ packet' = packet
      /\ Received(o) /\ faults' = faults
  BY DEF IInv, Pass, Sends
<1>1. rx' = After(o)
  BY <1>0, ReceivedIs
<1>2. TxInv(packet', tx') /\ RxInv(rx')
  <2>1. ch \in Byte /\ MaxData \in 0 .. MaxData
    BY <1>0, TxByte, PacketAssumption
  <2>2. RxInv(After(o))
    BY <1>0, <2>1, RxEngineInv
  <2> QED BY <1>0, <1>1, <2>2, TxStep
<1>3. rx'.esc <=> (~ rx.esc /\ ch = ESC)
  BY <1>0, <1>1, EngineEsc
<1>4. (tx'.esc <=> ch = ESC) /\ (ch = ESC => ~ tx.esc)
  BY <1>0, TxEsc
<1> HIDE DEF ch, n, o
<1>5. CASE tx.phase = "STX"
  <2>1. /\ seen' = ~ rx.esc /\ intact' = TRUE /\ run' = run
        /\ tx'.phase = "HEAD" /\ ch = STX /\ STX # ESC /\ ~ tx.esc
    <3>1. tx' = [tx EXCEPT !.phase = "HEAD", !.field_c = 3, !.crc = startCRC32] /\ ch = STX
      BY <1>0, <1>5, TxSteps DEF n, ch
    <3>2. tx'.phase = "HEAD" /\ ~ tx.esc
      BY <1>0, <1>5, <3>1 DEF TxInv, TxState, InBody
    <3>3. seen' = ~ rx.esc /\ intact' = TRUE /\ run' = run
      BY <1>5, <1>0 DEF Pass
    <3> QED BY <3>1, <3>2, <3>3, CharAssumption
  <2>2. EscInv'
    BY <1>0, <1>3, <1>4, <2>1 DEF EscInv
  <2>3. seen' => Sync(packet', tx', rx')
    BY <1>0, <1>1, <1>5, <2>1, SyncStarts DEF o, n
  <2>4. seen' \in BOOLEAN /\ FrameDelivered'
    BY <2>1 DEF FrameDelivered
  <2> QED BY <1>0, <1>2, <2>1, <2>2, <2>3, <2>4 DEF IInv
<1>6. CASE InBody(tx)
  <2>1. seen' = seen /\ intact' = intact /\ run' = run
    BY <1>0, <1>6 DEF Pass, InBody
  <2>2. tx'.phase \notin {"STX", "IDLE"}
    BY <1>0, <1>6, TxEsc DEF n
  <2>3. EscInv'
    BY <1>0, <1>3, <1>4, <1>6, <2>1, <2>2 DEF EscInv, InBody
  <2>4. seen' => Sync(packet', tx', rx')
    <3>1. seen => Goes(o) /\ Sync(packet, n, o.rx)
      BY <1>0, <1>6, SyncStep DEF IInv, o, n, ch
    <3> QED BY <1>0, <1>1, <2>1, <3>1 DEF After
  <2>5. FrameDelivered'
    BY <2>2 DEF FrameDelivered
  <2> QED BY <1>0, <1>2, <2>1, <2>3, <2>4, <2>5 DEF IInv
<1>7. CASE tx.phase = "ETX"
  <2>1. /\ seen' = seen /\ intact' = intact /\ tx'.phase = "IDLE" /\ ch = ETX
        /\ run' = IF intact THEN (IF run = 0 THEN 1 ELSE 2) ELSE 0
    <3>1. tx' = [tx EXCEPT !.phase = "IDLE"] /\ ch = ETX
      BY <1>0, <1>7, TxSteps DEF n, ch
    <3>2. tx'.phase = "IDLE"
      BY <1>0, <3>1 DEF TxInv, TxState
    <3>3. seen' = seen /\ intact' = intact
      BY <1>0, <1>7 DEF Pass
    <3>4. run' = IF intact THEN (IF run = 0 THEN 1 ELSE 2) ELSE 0
      BY <1>0, <1>7 DEF Pass
    <3> QED BY <3>1, <3>2, <3>3, <3>4
  <2>2. EscInv'
    BY <1>0, <1>3, <1>4, <1>7, <2>1 DEF EscInv
  <2>3. Sync(packet', tx', rx')
    BY <2>1 DEF Sync
  <2>4. ASSUME seen PROVE AsSent'
    <3>1. Sync(packet, tx, rx)
      BY <2>4 DEF IInv
    <3>2. o = Angel_RxEngine(rx, ETX, MaxData)
      BY <2>1 DEF o
    <3>3. o.status = "RS_GOOD_PKT" /\ o.rx.type = packet.type /\ o.rx.data = packet.data
      BY <1>0, <1>7, <3>1, <3>2, SyncEnds
    <3> QED BY <1>0, <3>3 DEF Received, Given, AsSent
  <2> QED BY <1>0, <1>2, <2>1, <2>2, <2>3, <2>4 DEF IInv, FrameDelivered
<1> QED BY <1>0, <1>5, <1>6, <1>7 DEF TxInv, TxState, InBody

LEMMA NextIInv == IInv /\ [Next]_vars => IInv'
<1> SUFFICES ASSUME IInv, [Next]_vars PROVE IInv'
  OBVIOUS
<1>0. packet \in Packet /\ TxInv(packet, tx) /\ RxInv(rx)
  BY DEF IInv
<1>a. Sends => packet' \in Packet /\ TxInv(packet', tx') /\ TxChar(packet, tx) \in Byte
  BY <1>0, TxStep, TxByte DEF Sends
<1>b. \A c \in Char : c \in Byte
  BY CharAssumption
<1>c. MaxData \in 0 .. MaxData /\ 0 \in 0 .. MaxData
  BY PacketAssumption
<1>1. CASE AsyncWrite
  <2>1. TxInv(packet', tx')
    <3>1. tx' = [phase |-> "STX", esc |-> FALSE, field_c |-> 0, crc |-> tx.crc]
      BY <1>1, <1>0 DEF AsyncWrite, TxInv, TxState
    <3>2. 0 \in 0 .. MaxLen /\ tx.crc \in CRC
      BY <1>0, MaxLenNat DEF TxInv, TxState
    <3> QED BY <3>1, <3>2, TxPlain
  <2>2. EscInv'
    BY <1>1, <1>0 DEF AsyncWrite, IInv, EscInv, TxInv, InBody, TxState, line
  <2>3. tx'.phase = "STX"
    BY <1>1, <1>0 DEF AsyncWrite, TxInv, TxState
  <2>4. Sync(packet', tx', rx')
    BY <2>3 DEF Sync
  <2> QED BY <1>1, <2>1, <2>2, <2>3, <2>4 DEF AsyncWrite, IInv, FrameDelivered, line
<1>2. CASE Pass
  BY <1>2, PassIInv
<1>3. CASE Lost
  BY <1>3, <1>0, <1>a, FaultIInv DEF Lost
<1>4. CASE Damaged
  <2>1. RxInv(rx')
    BY <1>4, <1>0, <1>b, <1>c, RxEngineInv, ReceivedIs DEF Damaged
  <2> QED BY <1>4, <1>a, <2>1, FaultIInv DEF Damaged
<1>5. CASE Noise
  <2>1. RxInv(rx')
    BY <1>5, <1>0, <1>b, <1>c, RxEngineInv, ReceivedIs DEF Noise
  <2> QED BY <1>5, <1>0, <2>1, FaultIInv DEF Noise
<1>6. CASE Overrun
  <2>1. RxInv(rx')
    BY <1>6, <1>0, RxUnexpected, ReceivedIs DEF Overrun, RxInv
  <2> QED BY <1>6, <1>a, <2>1, FaultIInv DEF Overrun
<1>7. CASE NoBuffer
  <2>1. RxInv(rx')
    BY <1>7, <1>0, <1>a, <1>c, RxEngineInv, ReceivedIs DEF NoBuffer
  <2> QED BY <1>7, <1>a, <2>1, FaultIInv DEF NoBuffer
<1>8. CASE UNCHANGED vars
  BY <1>8 DEF vars, line, IInv, EscInv, FrameDelivered, AsSent
<1> QED BY <1>1, <1>2, <1>3, <1>4, <1>5, <1>6, <1>7, <1>8 DEF Next

LEMMA IInvImplies == IInv => TypeOK /\ BufferFits /\ FrameDelivered /\ SecondDelivered
<1> SUFFICES ASSUME IInv PROVE TypeOK /\ BufferFits /\ FrameDelivered /\ SecondDelivered
  OBVIOUS
<1>0. packet \in Packet /\ tx \in TxState /\ rx \in RxState /\ EscInv /\ FrameDelivered
  BY DEF IInv, TxInv, RxInv
<1>1. TypeOK
  <2>1. \A i \in DOMAIN rx.data : rx.data[i] \in Byte
    BY <1>0, DataFacts DEF RxState
  <2> QED BY <1>0, <2>1 DEF TypeOK, TxState, RxState, Word, EscInv
<1>2. BufferFits
  BY DEF IInv, RxInv, BufferFits
<1>3. SecondDelivered
  BY <1>0 DEF EscInv, FrameDelivered, SecondDelivered
<1> QED BY <1>0, <1>1, <1>2, <1>3

(* Spec => []IInv.                                                         *)
THEOREM Invariant == Spec => []IInv
BY InitIInv, NextIInv, PTL DEF Spec

(* The engines' states and the line's stay in their types.                 *)
THEOREM TypeCorrect == Spec => []TypeOK
BY Invariant, IInvImplies, PTL

(* Whatever the line does, the receiver writes inside the one buffer it    *)
(* holds, for every size of packet and buffer.                             *)
THEOREM BuffersFit == Spec => []BufferFits
BY Invariant, IInvImplies, PTL

(* A frame that comes through, and was seen to begin, gives its packet,    *)
(* for every packet, every escaped set and every crc.                      *)
THEOREM FramesDelivered == Spec => []FrameDelivered
BY Invariant, IInvImplies, PTL

(* The second of two frames that come through always gives its packet.     *)
THEOREM SecondsDelivered == Spec => []SecondDelivered
BY Invariant, IInvImplies, PTL
=============================================================================
