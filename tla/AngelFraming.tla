---------------------------- MODULE AngelFraming ----------------------------
(***************************************************************************)
(* Packets as characters on the serial line of the Angel monitor: the      *)
(* transmit engine tx.c, the receive engine rx.c, and what serpkt.c does   *)
(* with the packets of the latter.                                         *)
(*                                                                         *)
(*   STX  type  length (2)  data (length)  crc (4)  ETX                    *)
(*                                                                         *)
(* Between STX and ETX the characters of esc_set are sent as ESC and the   *)
(* character with bit 6 set.  Both ends of a line run the same two         *)
(* engines; the line passes characters one by one and may lose, damage or  *)
(* invent some.  The ring buffers only delay them.  A word is the function *)
(* of its bytes: crc[3] is sent first.                                     *)
(***************************************************************************)
EXTENDS Integers

CONSTANTS
  STX, ETX, ESC,  \* serial_STX, serial_ETX, serial_ESC
  esc_set,        \* the characters that are escaped
  CRC,            \* the values of a crc, functions of their four bytes
  startCRC32,     \* the crc of nothing
  crc32(_, _),    \* the crc of what has the crc of the first, and one more byte
  MaxData,        \* BUFFERLONGSIZE without the header of a buffer
  Packet,         \* the packets that are sent
  Char,           \* the characters a disturbed line may produce
  Faults          \* bound: faults of the line

Byte == 0 .. 255
MaxLen == 256 * 256 - 1  \* of two bytes
DC_NUM_CHANNELS == 2
NULL == <<>>       \* no buffer
ESCAPE == 64       \* serial_ESCAPE

ASSUME CharAssumption ==
  /\ esc_set \subseteq 0 .. 31 /\ {STX, ETX, ESC} \subseteq esc_set
  /\ STX # ETX /\ ETX # ESC /\ ESC # STX
  /\ Char \subseteq Byte /\ Faults \in Nat
ASSUME CRCAssumption ==
  /\ \A c \in CRC : c \in [0 .. 3 -> Byte]
  /\ startCRC32 \in CRC /\ \A c \in CRC, b \in Byte : crc32(c, b) \in CRC
ASSUME PacketAssumption ==
  /\ MaxData \in 1 .. MaxLen
  /\ \A p \in Packet : /\ p.type \in 0 .. DC_NUM_CHANNELS - 1
                       /\ p.len \in 1 .. MaxData
                       /\ p.data \in [0 .. p.len - 1 -> Byte]

VARIABLES
  packet,  \* the packet that is sent, or was last
  tx,      \* te_state: phase (tx_state's N_ and F_ part), esc (E_ESC), field_c, crc
  rx,      \* re_state and the packet it fills; pcrc is the packet's crc
  given,   \* what rx_processing gave away last
  seen,    \* the frame's STX was no escaped character, and no fault since
  intact,  \* no fault since the frame's STX was sent
  run,     \* how many frames in a row were intact: 0, 1 or more
  faults

line == <<seen, intact, run, faults>>
vars == <<packet, tx, rx, given, line>>

-----------------------------------------------------------------------------
(* The transmit engine.                                                    *)

(* The byte that is to be sent next.                                       *)
Field(p, t) ==
  CASE t.phase = "HEAD" -> IF t.field_c = 3 THEN p.type
                           ELSE IF t.field_c = 2 THEN p.len \div 256 ELSE p.len % 256
    [] t.phase = "DATA" -> p.data[p.len - t.field_c]
    [] t.phase = "CRC"  -> t.crc[t.field_c - 1]

(* Mutant: the crc leaves escaped characters out. *)
Counted_PlainOnly(t, b) ==
  [t EXCEPT !.field_c = @ - 1, !.esc = FALSE,
            !.crc = IF t.phase = "CRC" \/ t.esc THEN @ ELSE crc32(@, b)]

(* escape, when it sends the byte itself.                                  *)
Counted(t, b) ==
  [t EXCEPT !.field_c = @ - 1, !.esc = FALSE,
            !.crc = IF t.phase = "CRC" THEN @ ELSE crc32(@, b)]

(* The next field when one has been sent.                                  *)
Advanced(p, t) ==
  IF t.field_c # 0 THEN t
  ELSE CASE t.phase = "HEAD" -> [t EXCEPT !.phase = "DATA", !.field_c = p.len]
         [] t.phase = "DATA" -> [t EXCEPT !.phase = "CRC", !.field_c = 4]
         [] t.phase = "CRC"  -> [t EXCEPT !.phase = "ETX"]

InBody(t)      == t.phase \in {"HEAD", "DATA", "CRC"}
MustEscape(p, t) == ~t.esc /\ Field(p, t) \in esc_set

(* Angel_TxEngine: the character it gives, and its next state.             *)
TxChar(p, t) ==
  CASE t.phase = "STX" -> STX
    [] t.phase = "ETX" -> ETX
    [] InBody(t) -> IF MustEscape(p, t) THEN ESC
                    ELSE IF t.esc THEN Field(p, t) + ESCAPE ELSE Field(p, t)
TxNext(p, t) ==
  CASE t.phase = "STX" -> [t EXCEPT !.phase = "HEAD", !.field_c = 3, !.crc = startCRC32]
    [] t.phase = "ETX" -> [t EXCEPT !.phase = "IDLE"]
    [] InBody(t) -> IF MustEscape(p, t) THEN [t EXCEPT !.esc = TRUE]
                    ELSE Advanced(p, Counted(t, Field(p, t)))

-----------------------------------------------------------------------------
(* The receive engine: its state and its status after a character.         *)

Result(r, status) == [rx |-> r, status |-> status]

(* Mutant: the rest of a frame is taken for the data of the next one. *)
unexp_stx_KeepsIndex(r) ==
  Result([r EXCEPT !.crc = startCRC32, !.state = "TYP", !.field_c = 0], "RS_BAD_PKT")

unexp_stx(r) ==
  Result([r EXCEPT !.crc = startCRC32, !.index = 0, !.state = "TYP", !.field_c = 0],
         "RS_BAD_PKT")
unexp_etx(r) ==
  Result([r EXCEPT !.crc = [k \in 0 .. 3 |-> 0], !.index = 0, !.state = "STX",
                   !.field_c = 0], "RS_BAD_PKT")

(* Mutant: the index is where the last packet left it. *)
Started_KeepsIndex(r) == [r EXCEPT !.state = "TYP", !.crc = startCRC32]

(* The STX that was waited for.                                            *)
Started(r) == [r EXCEPT !.state = "TYP", !.crc = startCRC32, !.index = 0]

(* Mutant: bit 6 is taken away although it is not set. *)
Unescaped_Always(c) == c - ESCAPE

Unescaped(c) == IF (c \div ESCAPE) % 2 = 1 THEN c - ESCAPE ELSE c

(* The length is known: a buffer is asked for unless there is one.  free   *)
(* is the length of the longest one that is free.                          *)
RxLength(r, free) ==
  IF r.len = 0 THEN Result([r EXCEPT !.field_c = 0, !.state = "CRC"], "RS_IN_PKT")
  ELSE IF r.data = NULL /\ ~(r.len <= free /\ r.type < DC_NUM_CHANNELS)
  THEN Result([r EXCEPT !.state = "STX"], "RS_NO_BUF")
  ELSE IF r.data # NULL /\ r.len - 1 \notin DOMAIN r.data
  THEN Result([r EXCEPT !.field_c = 0, !.state = "STX"], "RS_BAD_PKT")
  ELSE Result([r EXCEPT !.field_c = 0, !.state = "DAT",
                        !.data = IF @ = NULL THEN [i \in 0 .. r.len - 1 |-> 0] ELSE @],
              "RS_IN_PKT")

RxDecoded(r, c, free) ==
  CASE r.state = "STX" ->
         IF c = STX THEN Result(Started(r), "RS_IN_PKT") ELSE Result(r, "RS_WAIT_PKT")
    [] r.state = "TYP" ->
         Result([r EXCEPT !.type = c, !.state = "LEN", !.field_c = 0,
                          !.crc = crc32(@, c)], "RS_IN_PKT")
    [] r.state = "LEN" ->
         LET s == [r EXCEPT !.crc = crc32(@, c), !.field_c = @ + 1,
                            !.len = IF r.field_c = 0 THEN c * 256 ELSE @ + c] IN
         IF r.field_c = 0 THEN Result(s, "RS_IN_PKT") ELSE RxLength(s, free)
    [] r.state = "DAT" ->
         Result([r EXCEPT !.crc = crc32(@, c), !.data[r.index] = c, !.index = @ + 1,
                          !.state = IF r.index + 1 = r.len THEN "CRC" ELSE @], "RS_IN_PKT")
    [] r.state = "CRC" ->
         Result([r EXCEPT !.pcrc[3 - r.field_c] = c,
                          !.field_c = IF @ = 3 THEN 0 ELSE @ + 1,
                          !.state = IF r.field_c = 3 THEN "ETX" ELSE @], "RS_IN_PKT")
    [] r.state = "ETX" ->
         IF c = STX THEN unexp_stx(r)
         ELSE Result([r EXCEPT !.state = "STX"],
                     IF c = ETX /\ r.crc = r.pcrc THEN "RS_GOOD_PKT" ELSE "RS_BAD_PKT")

(* Angel_RxEngine; ESC, STX and ETX are themselves unless escaped.         *)
Angel_RxEngine(r, c, free) ==
  IF r.esc THEN RxDecoded([r EXCEPT !.esc = FALSE], Unescaped(c), free)
  ELSE IF c = ESC THEN Result([r EXCEPT !.esc = TRUE], "RS_IN_PKT")
  ELSE IF c = STX /\ r.state # "STX" THEN unexp_stx(r)
  ELSE IF c = ETX /\ r.state # "ETX" THEN unexp_etx(r)
  ELSE RxDecoded(r, c, free)

(* A character was lost in front of this one: this one is lost, too.       *)
RxOverrun(r) ==
  Result([r EXCEPT !.field_c = 0, !.state = "STX", !.esc = FALSE], "RS_BAD_PKT")
-----------------------------------------------------------------------------
Given(status, r) == [status |-> status, type |-> r.type, data |-> r.data]

(* serpkt_int_rx_processing: a good packet, and a bad one of a valid type, *)
(* goes to read_callback with its buffer, which releases it; the buffer of *)
(* any other bad packet is released here.                                  *)
Received(o) ==
  IF o.status \in {"RS_WAIT_PKT", "RS_IN_PKT"}
  THEN rx' = o.rx /\ UNCHANGED given
  ELSE /\ rx' = [o.rx EXCEPT !.data = NULL, !.type = DC_NUM_CHANNELS]
       /\ given' = Given(CASE o.status = "RS_GOOD_PKT" -> "DS_DONE"
                           [] o.status = "RS_BAD_PKT" /\ o.rx.type < DC_NUM_CHANNELS
                              -> "DS_BAD_PACKET"
                           [] OTHER -> "dropped", o.rx)

Init ==
  /\ packet \in Packet
  /\ tx = [phase |-> "IDLE", esc |-> FALSE, field_c |-> 0, crc |-> startCRC32]
  /\ rx = [state |-> "STX", esc |-> FALSE, field_c |-> 0, index |-> 0,
           crc |-> startCRC32, type |-> DC_NUM_CHANNELS, len |-> 0, data |-> NULL,
           pcrc |-> startCRC32]
  /\ given = [status |-> "none", type |-> DC_NUM_CHANNELS, data |-> NULL]
  /\ seen = FALSE /\ intact = FALSE /\ run = 0 /\ faults = 0

(* serpkt_AsyncWrite.                                                      *)
AsyncWrite ==
  /\ tx.phase = "IDLE"
  /\ packet' \in Packet
  /\ tx' = [tx EXCEPT !.phase = "STX", !.esc = FALSE, !.field_c = 0]
  /\ UNCHANGED <<rx, given, line>>

Sends == tx.phase # "IDLE" /\ tx' = TxNext(packet, tx) /\ UNCHANGED packet

(* The line passes a character.                                            *)
Pass ==
  /\ Sends
  /\ Received(Angel_RxEngine(rx, TxChar(packet, tx), MaxData))
  /\ seen' = IF tx.phase = "STX" THEN ~rx.esc ELSE seen
  /\ intact' = (intact \/ tx.phase = "STX")
  /\ run' = CASE tx.phase # "ETX" -> run
              [] tx.phase = "ETX" /\ intact -> IF run = 0 THEN 1 ELSE 2
              [] OTHER -> 0
  /\ UNCHANGED faults

(* The line fails: a character is lost, comes out as another one, comes    *)
(* from nowhere, or overruns the receiver; or there is no buffer.          *)
Fault ==
  /\ faults < Faults /\ faults' = faults + 1
  /\ seen' = FALSE /\ intact' = FALSE /\ run' = 0
Lost    == Sends /\ Fault /\ UNCHANGED <<rx, given>>
Damaged == Sends /\ Fault /\ \E c \in Char : Received(Angel_RxEngine(rx, c, MaxData))
Noise   == /\ Fault /\ \E c \in Char : Received(Angel_RxEngine(rx, c, MaxData))
           /\ UNCHANGED <<packet, tx>>
Overrun == Sends /\ Fault /\ Received(RxOverrun(rx))
NoBuffer == /\ rx.state = "LEN" /\ rx.field_c = 1
            /\ Sends /\ Fault
            /\ Received(Angel_RxEngine(rx, TxChar(packet, tx), 0))

Next == AsyncWrite \/ Pass \/ Lost \/ Damaged \/ Noise \/ Overrun \/ NoBuffer

Spec == Init /\ [][Next]_vars

-----------------------------------------------------------------------------
TypeOK ==
  /\ packet \in Packet
  /\ tx.phase \in {"STX", "HEAD", "DATA", "CRC", "ETX", "IDLE"} /\ tx.esc \in BOOLEAN
  /\ tx.field_c \in 0 .. MaxLen /\ tx.crc \in CRC
  /\ rx.state \in {"STX", "TYP", "LEN", "DAT", "CRC", "ETX"} /\ rx.esc \in BOOLEAN
  /\ rx.field_c \in 0 .. 3 /\ rx.index \in 0 .. MaxLen /\ rx.len \in 0 .. MaxLen
  /\ rx.type \in Byte /\ rx.crc \in [0 .. 3 -> Byte]
  /\ rx.pcrc \in [0 .. 3 -> Byte]
  /\ \A i \in DOMAIN rx.data : rx.data[i] \in Byte
  /\ run \in 0 .. 2 /\ faults \in 0 .. Faults

(* The engine writes into a buffer of its own and inside it, whatever the  *)
(* line does: it holds one from the length to the end of a packet and none *)
(* outside, so none is used after it was given away and none is forgotten. *)
BufferFits ==
  /\ rx.state \in {"STX", "TYP", "LEN"} => rx.data = NULL
  /\ rx.state = "DAT" => rx.index < rx.len /\ DOMAIN rx.data = 0 .. rx.len - 1

(* A packet whose frame comes through, and does not begin just after an    *)
(* ESC that was left alone, is given to read_callback as it was sent,      *)
(* whatever came before it.                                                *)
AsSent == given = [status |-> "DS_DONE", type |-> packet.type, data |-> packet.data]
FrameDelivered == tx.phase = "IDLE" /\ seen => AsSent

(* Of two frames that come through one after the other the second is       *)
(* delivered, whatever state the line has left the receiver in.            *)
SecondDelivered == tx.phase = "IDLE" /\ intact /\ run = 2 => AsSent
=============================================================================
