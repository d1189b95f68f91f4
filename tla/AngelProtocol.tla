---------------------------- MODULE AngelProtocol ----------------------------
(***************************************************************************)
(* The reliable channels of the Angel monitor: channels.c, one device.     *)
(*                                                                         *)
(* Every reliable packet has a number; a packet carries the number of the  *)
(* last one its sender has accepted.  There are no time-outs: what is lost *)
(* is noticed when a later packet, or a heartbeat of the host, arrives.    *)
(* Two kinds of channels are used for calls: the debugger asks on CI_HADP, *)
(* the application's C library on CI_CLIB.                                 *)
(*                                                                         *)
(* A send is three steps: the frame is counted and the channel taken, the  *)
(* packet is numbered, it is kept for a resend and handed to the device.   *)
(* Between them callbacks run.  The debugger's channel stays taken until   *)
(* the completion of a reply has been handled; the next reply is thrown    *)
(* away when it comes before that.  When a reply is counted between the    *)
(* steps of the application's send, packets and list may get one number    *)
(* twice: the model stops there, and its properties say until when they    *)
(* hold.                                                                   *)
(* How a send waits for the device is the subject of AngelChannels.  The   *)
(* host's side is not in the repository: it does what the target's side    *)
(* relies on.                                                              *)
(*                                                                         *)
(* Two reductions.  The host takes what is sent to it before anything else *)
(* happens: delays are those of the other direction.  And the host sends   *)
(* nothing new while callbacks wait: such a packet could as well have been *)
(* on its way before.                                                      *)
(***************************************************************************)
EXTENDS Integers, Sequences, FiniteSets, SequencesExt

CONSTANTS
  MAX_SEQ,   \* the highest sequence number; 255 in chandefs.h
  Body,      \* what tells one call's packets from the next one's
  Buffers,   \* bound: received packets whose callbacks have not run
  Wire,      \* bound: packets on their way before the host sends a new one
  Losses     \* bound: packets lost

ASSUME SeqAssumption == MAX_SEQ \in Nat /\ MAX_SEQ >= 3
ASSUME BodyAssumption == Body # {}
(* There are more numbers than a packet can be overtaken by.               *)
ASSUME BoundAssumption == /\ Losses \in Nat
                          /\ Wire \in Nat \ {0} /\ Wire + 2 <= MAX_SEQ

SequenceNR == 0 .. MAX_SEQ
Channel == {"CI_HADP", "CI_CLIB"}

(* Mutant: the list has one element too few. *)
MAX_UNACKED_OneShort == Cardinality(Channel) - 1

MAX_UNACKED == Cardinality(Channel)

VARIABLES
  currentFrame, ackExpected, frameExpected, lastReceived,
  unacked,   \* the used part of unackedBufs, in the order of the list
  pending,   \* received packets whose read_callback has not run
  host,      \* the host's counters and list, as far as the target sees them
  toTarget, toHost,
  caller,    \* per channel: does its caller wait, for what, and the last answer
  callee,    \* per channel: is a request being served, and which was the last
  sending,   \* angel_ChannelSendAsync between its steps
  writer,    \* chan_state[CI_HADP] has a writer
  refused,   \* a reply to the debugger has been thrown away
  overlapped, \* a frame has been counted between the steps of another send
  lost

target == <<currentFrame, ackExpected, frameExpected, lastReceived, unacked>>
calls  == <<caller, callee>>
sends  == <<sending, writer, refused, overlapped>>
vars   == <<target, pending, host, toTarget, toHost, calls, sends, lost>>

-----------------------------------------------------------------------------
(* Mutant: the circle is left at its highest number. *)
nextSEQ_OffByOne(k) == IF k <= MAX_SEQ THEN k + 1 ELSE 0

nextSEQ(k) == IF k < MAX_SEQ THEN k + 1 ELSE 0
lastSEQ(k) == IF k > 0 THEN k - 1 ELSE MAX_SEQ

(* a <= b < c on the circle of numbers.                                    *)
adp_between(a, b, c) == \/ a <= b /\ b < c
                        \/ c < a /\ a <= b
                        \/ b < c /\ c < a

(* A number in the half circle before the expected one has been handled.   *)
SeqLow(seq, expected) ==
  LET low == expected - MAX_SEQ \div 2 IN
  adp_between(IF low < 0 THEN low + MAX_SEQ ELSE low, seq, expected)

Packet(flags, seq, ack, chan, body) ==
  [flags |-> flags, seq |-> seq, ack |-> ack, chan |-> chan, body |-> body]
Private(flags, seq, ack) == Packet(flags, seq, ack, "CI_PRIVATE", 0)
Stored(seq, chan, body) == [seq |-> seq, chan |-> chan, body |-> body]

(* The moments at which the target does something, and those at which the  *)
(* host sends something new.                                               *)
Ready == toHost = <<>> /\ ~overlapped
Quiet == pending = <<>> /\ Ready

NotSending == [pc |-> "none", chan |-> "CI_CLIB", seq |-> 0, ack |-> 0]
Sending(c) == sending.pc # "none" /\ sending.chan = c

(* adp_remove_pkt: all numbers from ackExpected to the acknowledged one.   *)
Acked(ackExp, ack, current) ==
  IF adp_between(ackExp, ack, nextSEQ(current))
  THEN {n \in SequenceNR : adp_between(ackExp, n, nextSEQ(ack))} ELSE {}
AckedTo(ackExp, ack, current) ==
  IF adp_between(ackExp, ack, nextSEQ(current)) THEN nextSEQ(ack) ELSE ackExp
Kept(list, acked) ==
  LET kept[k \in 0 .. Len(list)] ==
        IF k = 0 THEN <<>>
        ELSE IF list[k].seq \in acked THEN kept[k - 1]
        ELSE Append(kept[k - 1], list[k])
  IN  kept[Len(list)]

(* resend_packet_from: the packets from number start to the current frame, *)
(* up to the first that is not in the list; each with a new                *)
(* acknowledgement.                                                        *)
Resent(list, start, current, expected) ==
  LET Available(n) == /\ adp_between(start, n, nextSEQ(current))
                      /\ \E e \in ToSet(list) : e.seq = n
      nth(k) == (start + k) % (MAX_SEQ + 1)
      n == Min({k \in 0 .. Len(list) : ~Available(nth(k))})
  IN  [k \in 1 .. n |->
         LET e == CHOOSE e \in ToSet(list) : e.seq = nth(k - 1) IN
         Packet("CF_RELIABLE", e.seq, lastSEQ(expected), e.chan, e.body)]

(* A request is served whenever it comes: the debugger's channel has a     *)
(* reader all the time.  An answer has a reader only while its caller      *)
(* waits; otherwise there is NO READER and it is dropped.                  *)
Serve(c, body) ==
  /\ callee' = [callee EXCEPT ![c] = [serving |-> TRUE, body |-> body]]
  /\ UNCHANGED caller
Answer(c, body) ==
  /\ caller' = IF caller[c].waiting
               THEN [caller EXCEPT ![c].waiting = FALSE, ![c].answer = body]
               ELSE caller
  /\ UNCHANGED callee

Asking(c) == /\ ~caller[c].waiting
             /\ \E b \in Body \ {caller[c].body} :
                  caller' = [caller EXCEPT ![c].waiting = TRUE, ![c].body = b]
             /\ UNCHANGED callee
Replying(c) == /\ callee[c].serving
               /\ callee' = [callee EXCEPT ![c].serving = FALSE]
               /\ UNCHANGED caller

-----------------------------------------------------------------------------
Init ==
  /\ currentFrame = 0 /\ ackExpected = 0 /\ frameExpected = 1 /\ lastReceived = 0
  /\ unacked = <<>> /\ pending = <<>>
  /\ host = [current |-> 0, ackExpected |-> 0, expected |-> 1, unacked |-> <<>>]
  /\ toTarget = <<>> /\ toHost = <<>>
  /\ LET b == CHOOSE b \in Body : TRUE IN
     /\ caller = [c \in Channel |-> [waiting |-> FALSE, body |-> b, answer |-> b]]
     /\ callee = [c \in Channel |-> [serving |-> FALSE, body |-> b]]
  /\ sending = NotSending /\ writer = FALSE /\ refused = FALSE /\ overlapped = FALSE
  /\ lost = 0

(* angel_ChannelSendAsync's critical section.                              *)
Count(c) ==
  /\ currentFrame' = nextSEQ(currentFrame)
  /\ IF sending.pc = "none"
     THEN /\ sending' = [NotSending EXCEPT !.pc = "number", !.chan = c]
          /\ UNCHANGED overlapped
     ELSE overlapped' = TRUE /\ UNCHANGED sending
  /\ UNCHANGED <<ackExpected, frameExpected, lastReceived, unacked>>

(* The application begins to call the host.  It runs when no callback is   *)
(* in the middle of a send; its own channel is free by then                *)
(* (AngelChannels, FreeWhenIdle).                                          *)
TargetAsks ==
  /\ Ready /\ sending.pc = "none" /\ ~caller["CI_CLIB"].waiting
  /\ Count("CI_CLIB")
  /\ UNCHANGED <<pending, host, toTarget, toHost, calls, writer, refused, lost>>

(* The debug agent begins to answer the host, or its reply is thrown away: *)
(* angel_ChannelSend has found the channel busy.                           *)
TargetReplies ==
  /\ Ready /\ callee["CI_HADP"].serving /\ ~Sending("CI_HADP") /\ ~refused
  /\ \/ writer /\ refused' = TRUE /\ UNCHANGED <<target, sending, overlapped>>
     \/ ~writer /\ Count("CI_HADP") /\ UNCHANGED refused
  /\ writer' = TRUE
  /\ UNCHANGED <<pending, host, toTarget, toHost, calls, lost>>

(* The frame and the acknowledgement are read for the packet.              *)
Number ==
  /\ Ready /\ sending.pc = "number"
  /\ sending' = [sending EXCEPT !.pc = "store", !.seq = currentFrame,
                                !.ack = lastSEQ(frameExpected)]
  /\ UNCHANGED <<target, pending, host, toTarget, toHost, calls,
                 writer, refused, overlapped, lost>>

(* adp_add_pkt reads the frame again; then the packet is sent.  From here  *)
(* on its caller waits, or has its request served.                         *)
Store ==
  LET c    == sending.chan
      body == IF c = "CI_CLIB" THEN caller'[c].body ELSE callee[c].body
  IN
  /\ Ready /\ sending.pc = "store"
  /\ IF c = "CI_CLIB" THEN Asking(c) ELSE Replying(c)
  /\ unacked' = IF Len(unacked) < MAX_UNACKED
                THEN Append(unacked, Stored(currentFrame, c, body)) ELSE unacked
  /\ toHost' = Append(toHost, Packet("CF_RELIABLE", sending.seq, sending.ack, c, body))
  /\ sending' = NotSending
  /\ UNCHANGED <<currentFrame, ackExpected, frameExpected, lastReceived,
                 pending, host, toTarget, writer, refused, overlapped, lost>>

(* The completion of a reply's packet is handled: the channel is free.     *)
write_callback ==
  /\ Ready /\ writer /\ ~Sending("CI_HADP")
  /\ writer' = FALSE
  /\ UNCHANGED <<target, pending, host, toTarget, toHost, calls,
                 sending, refused, overlapped, lost>>

(* A packet has come in: its callback goes in front of those that wait.    *)
angel_DD_GotPacket ==
  /\ Ready
  /\ toTarget # <<>> /\ Len(pending) < Buffers
  /\ pending' = <<Head(toTarget)>> \o pending
  /\ toTarget' = Tail(toTarget)
  /\ UNCHANGED <<target, host, toHost, calls, sends, lost>>

send_resend_msg(lastGood) ==
  toHost' = Append(toHost, Private("CF_RESEND", currentFrame, lastGood))
send_heartbeat_ack_msg ==
  toHost' = Append(toHost, Private("CF_HEARTBEAT", currentFrame,
                                   lastSEQ(frameExpected)))


ReadResend(p) ==
  LET again == Resent(unacked, nextSEQ(p.ack), currentFrame, frameExpected) IN
  /\ p.flags = "CF_RESEND"
  /\ toHost' = toHost \o again
  /\ UNCHANGED <<target, calls>>

(* Mutant: a number that is expected next is acknowledged. *)
ReadHeartbeat_AckExpected(p) ==
  /\ p.flags = "CF_HEARTBEAT"
  /\ IF p.seq = frameExpected \/ SeqLow(p.seq, frameExpected)
     THEN send_heartbeat_ack_msg
     ELSE send_resend_msg(lastSEQ(frameExpected))
  /\ UNCHANGED <<target, calls>>

(* The expected number is not acknowledged: the packet itself is missing.  *)
ReadHeartbeat(p) ==
  /\ p.flags = "CF_HEARTBEAT"
  /\ IF IF p.seq = frameExpected THEN p.seq = lastReceived
                                 ELSE SeqLow(p.seq, frameExpected)
     THEN send_heartbeat_ack_msg
     ELSE send_resend_msg(lastSEQ(frameExpected))
  /\ UNCHANGED <<target, calls>>

(* Mutant: a packet with a low number is delivered again. *)
ReadReliable_LowAccepted(p) ==
  /\ p.flags = "CF_RELIABLE"
  /\ lastReceived' = p.seq
  /\ \/ /\ p.seq = frameExpected \/ SeqLow(p.seq, frameExpected)
        /\ frameExpected' = nextSEQ(p.seq)
        /\ unacked' = Kept(unacked, Acked(ackExpected, p.ack, currentFrame))
        /\ ackExpected' = AckedTo(ackExpected, p.ack, currentFrame)
        /\ IF p.chan = "CI_CLIB" THEN Answer(p.chan, p.body) ELSE Serve(p.chan, p.body)
        /\ UNCHANGED toHost
     \/ /\ p.seq # frameExpected /\ ~SeqLow(p.seq, frameExpected)
        /\ send_resend_msg(lastSEQ(frameExpected))
        /\ UNCHANGED <<frameExpected, unacked, ackExpected, calls>>
  /\ UNCHANGED currentFrame

(* The number of the last packet is recorded before it is looked at.  The  *)
(* acknowledgement counts only if the packet is accepted.                  *)
ReadReliable(p) ==
  /\ p.flags = "CF_RELIABLE"
  /\ lastReceived' = p.seq
  /\ \/ /\ p.seq = frameExpected
        /\ frameExpected' = nextSEQ(frameExpected)
        /\ unacked' = Kept(unacked, Acked(ackExpected, p.ack, currentFrame))
        /\ ackExpected' = AckedTo(ackExpected, p.ack, currentFrame)
        /\ IF p.chan = "CI_CLIB" THEN Answer(p.chan, p.body) ELSE Serve(p.chan, p.body)
        /\ UNCHANGED toHost
     \/ /\ p.seq # frameExpected /\ SeqLow(p.seq, frameExpected)
        /\ UNCHANGED <<frameExpected, unacked, ackExpected, toHost, calls>>
     \/ /\ p.seq # frameExpected /\ ~SeqLow(p.seq, frameExpected)
        /\ send_resend_msg(lastSEQ(frameExpected))
        /\ UNCHANGED <<frameExpected, unacked, ackExpected, calls>>
  /\ UNCHANGED currentFrame

(* The callbacks run, the newest first; that of a packet damaged on the    *)
(* way only releases its buffer, which is a loss here.                     *)
read_callback ==
  /\ Ready /\ pending # <<>>
  /\ LET p == Head(pending) IN ReadResend(p) \/ ReadHeartbeat(p) \/ ReadReliable(p)
  /\ pending' = Tail(pending)
  /\ UNCHANGED <<host, toTarget, sends, lost>>

-----------------------------------------------------------------------------
(* The host and the link (external).                                       *)
HostSends(chan, body) ==
  LET n == nextSEQ(host.current) IN
  /\ Quiet /\ Len(toTarget) < Wire
  /\ host' = [host EXCEPT !.current = n,
                          !.unacked = Append(@, Stored(n, chan, body))]
  /\ toTarget' = Append(toTarget, Packet("CF_RELIABLE", n, lastSEQ(host.expected),
                                         chan, body))
HostAsks ==
  /\ Asking("CI_HADP") /\ HostSends("CI_HADP", caller'["CI_HADP"].body)
  /\ UNCHANGED <<target, pending, toHost, sends, lost>>
HostReplies ==
  /\ Replying("CI_CLIB") /\ HostSends("CI_CLIB", callee["CI_CLIB"].body)
  /\ UNCHANGED <<target, pending, toHost, sends, lost>>

(* The host asks from time to time how far the target is, once it has the  *)
(* answer to the last time.                                                *)
HostBeats ==
  /\ Quiet /\ Len(toTarget) < Wire
  /\ \A p \in ToSet(toTarget) : p.flags # "CF_HEARTBEAT"
  /\ toTarget' = Append(toTarget, Private("CF_HEARTBEAT", host.current,
                                          lastSEQ(host.expected)))
  /\ UNCHANGED <<target, pending, host, toHost, calls, sends, lost>>

HostAsksAgain ==
  /\ toTarget' = Append(toTarget, Private("CF_RESEND", host.current,
                                          lastSEQ(host.expected)))
  /\ UNCHANGED <<host, calls>>

HostReceives ==
  /\ toHost # <<>> /\ ~overlapped
  /\ toHost' = Tail(toHost)
  /\ LET p == Head(toHost)
         again == Resent(host.unacked, nextSEQ(p.ack), host.current, host.expected)
         OutOfTurn == \/ p.flags = "CF_HEARTBEAT"
                      \/ p.flags = "CF_RELIABLE" /\ p.seq # host.expected
     IN
     \/ /\ p.flags = "CF_RESEND"
        /\ toTarget' = toTarget \o again
        /\ UNCHANGED <<host, calls>>
     \/ /\ p.flags = "CF_RELIABLE" /\ p.seq = host.expected
        /\ host' = [host EXCEPT
             !.expected = nextSEQ(@),
             !.unacked = Kept(@, Acked(host.ackExpected, p.ack, host.current)),
             !.ackExpected = AckedTo(@, p.ack, host.current)]
        /\ IF p.chan = "CI_HADP" THEN Answer(p.chan, p.body) ELSE Serve(p.chan, p.body)
        /\ UNCHANGED toTarget
     \/ /\ OutOfTurn /\ SeqLow(p.seq, host.expected)
        /\ UNCHANGED <<host, toTarget, calls>>
     \/ OutOfTurn /\ ~SeqLow(p.seq, host.expected) /\ HostAsksAgain
  /\ UNCHANGED <<target, pending, sends, lost>>

Lose == /\ ~overlapped
        /\ lost < Losses /\ lost' = lost + 1
        /\ \/ toTarget # <<>> /\ toTarget' = Tail(toTarget) /\ UNCHANGED toHost
           \/ toHost # <<>> /\ toHost' = Tail(toHost) /\ UNCHANGED toTarget
        /\ UNCHANGED <<target, pending, host, calls, sends>>

-----------------------------------------------------------------------------
(* What two packets of one number lead to is not modelled.                 *)
Overlapped == overlapped /\ UNCHANGED vars

Next == \/ TargetAsks \/ TargetReplies \/ Number \/ Store
        \/ write_callback \/ angel_DD_GotPacket \/ read_callback
        \/ HostAsks \/ HostReplies \/ HostBeats \/ HostReceives \/ Lose
        \/ Overlapped

(* Callbacks and interrupts are not put off for ever, nor is the host; a   *)
(* send that is ready to go on again and again does so, and a side that is *)
(* ready to reply again and again tries to.                                *)
Fairness == /\ SF_vars(TargetReplies) /\ SF_vars(Number \/ Store)
            /\ WF_vars(angel_DD_GotPacket) /\ WF_vars(read_callback)
            /\ SF_vars(HostReplies) /\ WF_vars(HostReceives) /\ WF_vars(HostBeats)

Spec == Init /\ [][Next]_vars /\ Fairness

-----------------------------------------------------------------------------
TypeOK ==
  /\ {currentFrame, ackExpected, frameExpected, lastReceived} \subseteq SequenceNR
  /\ unacked \in Seq([seq : SequenceNR, chan : Channel, body : Body])
  /\ sending \in [pc : {"none", "number", "store"}, chan : Channel,
                  seq : SequenceNR, ack : SequenceNR]
  /\ {writer, refused, overlapped} \subseteq BOOLEAN
  /\ lost \in 0 .. Losses

(* The calls as their two ends see them.  Stray: served without having     *)
(* been asked, or once more.                                               *)
Calls == INSTANCE AngelCalls WITH
  call <- [c \in Channel |->
             IF caller[c].waiting /\ caller[c].body = callee[c].body
             THEN IF callee[c].serving THEN "serving" ELSE "replied"
             ELSE IF callee[c].serving THEN "stray"
             ELSE IF caller[c].waiting THEN "asked" ELSE "idle"],
  request <- [c \in Channel |-> caller[c].body],
  answer <- [c \in Channel |-> caller[c].answer]

(* However packets are lost, sent again and handled in the wrong order     *)
(* (read_callback, 876-963), every request is served once, and answered    *)
(* once after it has been served, with its own answer.                     *)
ImplementsCalls == Calls!Spec

(* Until sends overlap, every packet the host has not accepted is still in *)
(* the resend list (adp_add_pkt, 367-411, silently leaves out what does    *)
(* not fit, and adp_remove_pkt frees on the word of numbers on a circle),  *)
(* or about to be put there by the send that has counted it.               *)
ResendPossible ==
  ~overlapped => \A n \in SequenceNR :
    adp_between(host.expected, n, nextSEQ(currentFrame))
      => \/ \E e \in ToSet(unacked) : e.seq = n
         \/ sending.pc # "none" /\ n = currentFrame

(* A heartbeat is acknowledged only if every packet the host has sent up   *)
(* to it has been accepted (833-873): the host would not send it again.    *)
HeartbeatAckHonest ==
  [][pending # <<>> /\ pending' = Tail(pending) /\ toHost' # toHost
       /\ Head(pending).flags = "CF_HEARTBEAT" /\ Last(toHost').flags = "CF_HEARTBEAT"
     => ~adp_between(frameExpected, Head(pending).seq, nextSEQ(host.current))]_vars

=============================================================================
