---------------------------- MODULE AngelChannels ----------------------------
(***************************************************************************)
(* How packets are sent on the Angel monitor's channels: channels.c,       *)
(* devclnt.c and the write side of serpkt.c, step by step.                 *)
(*                                                                         *)
(* Three tasks share one device: the application asks the host on CI_CLIB  *)
(* and waits for the answer, a callback answers the debugger on CI_HADP, a *)
(* callback acknowledges the host's heartbeats on CI_PRIVATE.  Interrupts  *)
(* are taken between any two steps and put the callbacks they queue in     *)
(* front of the task they interrupt, which is how AngelTasks places them;  *)
(* the critical sections of the code are single steps.  Resends are not    *)
(* modelled here, and a call is not made while the channel is in use,      *)
(* where the code would refuse it at once.                                 *)
(***************************************************************************)
EXTENDS Integers, Sequences, SequencesExt

CONSTANTS
  MAX_SEQ,  \* the highest sequence number; 255 in chandefs.h
  Tasks     \* bound: no packet arrives while there are so many callbacks

ASSUME ChannelsAssumption == MAX_SEQ \in Nat \ {0} /\ Tasks \in Nat \ {0}

Channel == {"CI_CLIB", "CI_HADP", "CI_PRIVATE"}
Signals == {"READCB", "WRITECB"}
None    == "none"
NULL    == -1

(* The application's task and those made for callbacks.  A completion is   *)
(* queued whatever the number of callbacks; the places are enough for that *)
(* with the bounds of the runs, and a full pool is AngelTasks' subject.    *)
Task == 0 .. Tasks + 1
Appl == 0

VARIABLES
  queue,         \* the live tasks, the first to be run in front
  task,          \* task queue items: what each does, where it is, its signals
  writer,        \* per channel, chan_state: write_task, NULL if writer is
  write_blocking,
  reader,        \* chan_state[CI_CLIB]: reader and read_blocking, set together
  busy,          \* DEV_WRITE_BUSY
  dev_cb,        \* the channel given as callback data to the device
  device,        \* the channel whose packet the device is sending, or None
  sent,          \* per channel: the packet last counted has left the device
  due,           \* the channels on which the host may send its next packet
  currentFrame, number, packno,
  sigs           \* SendThenRead's variable of that name

vars == <<queue, task, writer, write_blocking, reader, busy, dev_cb, device,
          sent, due, currentFrame, number, packno, sigs>>

channels == <<writer, write_blocking, reader>>
frames   == <<currentFrame, number, packno>>

-----------------------------------------------------------------------------
nextSEQ(k) == IF k < MAX_SEQ THEN k + 1 ELSE 0

Item(kind, chan, pc) == [kind |-> kind, chan |-> chan, pc |-> pc,
                         waiting |-> {}, received |-> {}]
Live == ToSet(queue)

(* Mutant: the place of the task in front is given away. *)
Free_FrontToo == Task \ ToSet(Tail(queue))

Free == Task \ Live
Blocked(i) == task[i].waiting # {}

(* SelectNextTask: the first that is not blocked.                          *)
Running(i) == \E k \in DOMAIN queue :
  queue[k] = i /\ ~Blocked(i) /\ \A j \in 1 .. k - 1 : Blocked(queue[j])

(* Angel_QueueCallback: in front of the tasks of its priority.             *)
Angel_QueueCallback(kind, chan) ==
  \E i \in Free :
    /\ \A j \in Free : i <= j
    /\ queue' = <<i>> \o queue
    /\ task' = [task EXCEPT ![i] = Item(kind, chan, "begin")]

Goto(i, pc) == task' = [task EXCEPT ![i].pc = pc] /\ UNCHANGED queue

(* SetPriority: angel_EnterSWI puts the application in front of the tasks  *)
(* that are asleep, angel_ExitSWI behind all.                              *)
Raised  == <<Appl>> \o RemoveFirst(queue, Appl)
Lowered == Append(RemoveFirst(queue, Appl), Appl)

(* A callback returns; the application goes on with its own work.          *)
Ends(i) == IF i = Appl
           THEN task' = [task EXCEPT ![i].pc = "idle"] /\ queue' = Lowered
           ELSE /\ queue' = RemoveFirst(queue, i)
                /\ task' = [task EXCEPT ![i] = Item(None, None, None)]

(* Angel_Signal: a task asleep is woken when nothing is left to wait for.  *)
Signalled(item, s) ==
  IF item.waiting # {} THEN [item EXCEPT !.waiting = @ \ {s}]
                       ELSE [item EXCEPT !.received = @ \union {s}]

(* What a task that sends on a channel waits for.                          *)
WaitsFor(i) == IF i = Appl THEN Signals ELSE {"WRITECB"}

-----------------------------------------------------------------------------
Init ==
  /\ queue = <<Appl>>
  /\ task = [i \in Task |-> IF i = Appl THEN Item("appl", "CI_CLIB", "idle")
                                        ELSE Item(None, None, None)]
  /\ writer = [c \in Channel |-> NULL]
  /\ write_blocking = [c \in Channel |-> FALSE]
  /\ reader = FALSE
  /\ busy = FALSE /\ dev_cb = None /\ device = None
  /\ sent = [c \in Channel |-> TRUE]
  /\ due = {"CI_HADP", "CI_PRIVATE"}
  /\ currentFrame = 0
  /\ number = [c \in Channel |-> 0] /\ packno = [c \in Channel |-> 0]
  /\ sigs = {}

At(i, pc) == Running(i) /\ task[i].pc = pc
Chan(i)   == task[i].chan

(* angel_ChannelSendThenRead of the application, until the request is to   *)
(* be sent; its two critical sections follow each other directly.          *)
SendThenRead ==
  /\ At(Appl, "idle")
  /\ ~reader /\ ~write_blocking["CI_CLIB"]
  /\ reader' = TRUE
  /\ write_blocking' = [write_blocking EXCEPT !["CI_CLIB"] = TRUE]
  /\ sigs' = {}
  /\ task' = [task EXCEPT ![Appl].pc = "count"]
  /\ queue' = Raised
  /\ UNCHANGED <<writer, busy, dev_cb, device, sent, due, frames>>

(* angel_ChannelSend of the debug agent: busy, its reply is thrown away.   *)
Send(i) ==
  /\ At(i, "begin") /\ task[i].kind = "read" /\ Chan(i) = "CI_HADP"
  /\ IF write_blocking["CI_HADP"]
     THEN Ends(i) /\ UNCHANGED write_blocking
     ELSE /\ write_blocking' = [write_blocking EXCEPT !["CI_HADP"] = TRUE]
          /\ Goto(i, "count")
  /\ UNCHANGED <<writer, reader, busy, dev_cb, device, sent, due, frames, sigs>>

(* angel_ChannelSendAsync's critical section.  When the channel has a      *)
(* writer the callers take back what they have set.                        *)
Count(i) ==
  LET c == Chan(i) IN
  /\ At(i, "count")
  /\ IF writer[c] # NULL
     THEN /\ write_blocking' = [write_blocking EXCEPT ![c] = FALSE]
          /\ reader' = IF i = Appl THEN FALSE ELSE reader
          /\ Ends(i)
          /\ UNCHANGED <<writer, currentFrame, sent>>
     ELSE /\ writer' = [writer EXCEPT ![c] = i]
          /\ currentFrame' = nextSEQ(currentFrame)
          /\ sent' = [sent EXCEPT ![c] = FALSE]
          /\ Goto(i, "number")
          /\ UNCHANGED <<write_blocking, reader>>
  /\ UNCHANGED <<busy, dev_cb, device, due, number, packno, sigs>>

(* The number is read again for the packet, and again for adp_add_pkt.     *)
Number(i) ==
  /\ At(i, "number")
  /\ number' = [number EXCEPT ![Chan(i)] = currentFrame]
  /\ Goto(i, "store")
  /\ UNCHANGED <<channels, busy, dev_cb, device, sent, due, currentFrame, packno, sigs>>

Store(i) ==
  /\ At(i, "store")
  /\ packno' = [packno EXCEPT ![Chan(i)] = currentFrame]
  /\ Goto(i, "claim")
  /\ UNCHANGED <<channels, busy, dev_cb, device, sent, due, currentFrame, number, sigs>>

(* send_heartbeat_ack_msg goes straight to the device.                     *)
SendHeartbeatAck(i) ==
  /\ At(i, "begin") /\ task[i].kind = "read" /\ Chan(i) = "CI_PRIVATE"
  /\ sent' = [sent EXCEPT !["CI_PRIVATE"] = FALSE]
  /\ Goto(i, "claim")
  /\ UNCHANGED <<channels, busy, dev_cb, device, due, frames, sigs>>

(* Mutant: the device is taken although it is busy. *)
Claim_NoTest(i) ==
  /\ At(i, "claim")
  /\ busy' = TRUE
  /\ Goto(i, "fill")
  /\ UNCHANGED <<channels, dev_cb, device, sent, due, frames, sigs>>

(* angel_DeviceWrite takes the device.  DE_BUSY makes the caller yield and *)
(* try again; as it is in front of all others, it only goes round.         *)
Claim(i) ==
  /\ At(i, "claim")
  /\ ~busy
  /\ busy' = TRUE
  /\ Goto(i, "fill")
  /\ UNCHANGED <<channels, dev_cb, device, sent, due, frames, sigs>>

(* The rest of angel_DeviceWrite, and AsyncWrite.  A heartbeat's callback  *)
(* does not wait for its packet to be sent.                                *)
Fill(i) ==
  /\ At(i, "fill")
  /\ dev_cb' = Chan(i)
  /\ device' = Chan(i)
  /\ IF Chan(i) = "CI_PRIVATE" THEN Ends(i) ELSE Goto(i, "wait")
  /\ UNCHANGED <<channels, busy, sent, due, frames, sigs>>

(* What a return of Wait with the events s does in the three senders.      *)
Returned(i, s) ==
  LET all == IF i = Appl THEN sigs \union s ELSE s IN
  /\ sigs' = IF i = Appl THEN all ELSE sigs
  /\ IF all = WaitsFor(i)
     THEN IF i = Appl
          THEN task' = [task EXCEPT ![i].pc = "idle", ![i].received = @ \ s]
               /\ queue' = Lowered
          ELSE Ends(i)
     ELSE task' = [task EXCEPT ![i].pc = "wait", ![i].received = @ \ s]
          /\ UNCHANGED queue

(* Angel_Wait: events that have come are taken, else the task sleeps until *)
(* all it asks for have come.                                              *)
Wait(i) ==
  LET come == WaitsFor(i) \intersect task[i].received IN
  /\ At(i, "wait")
  /\ IF come # {}
     THEN Returned(i, come)
     ELSE /\ task' = [task EXCEPT ![i].pc = "asleep", ![i].waiting = WaitsFor(i)]
          /\ UNCHANGED <<queue, sigs>>
  /\ UNCHANGED <<channels, busy, dev_cb, device, sent, due, frames>>

Wake(i) ==
  /\ At(i, "asleep")
  /\ Returned(i, WaitsFor(i))
  /\ UNCHANGED <<channels, busy, dev_cb, device, sent, due, frames>>

(* Mutant: the channel is left blocked for the next writer. *)
write_callback_StaysBlocking(i) ==
  LET c == Chan(i) IN
  /\ At(i, "begin") /\ task[i].kind = "write"
  /\ IF c = "CI_PRIVATE" \/ writer[c] = NULL
     THEN Ends(i)
     ELSE /\ task' = [task EXCEPT ![writer[c]] = Signalled(@, "WRITECB"),
                                  ![i].pc = "clear"]
          /\ UNCHANGED queue
  /\ UNCHANGED <<channels, busy, dev_cb, device, sent, due, frames, sigs>>

(* write_callback: the writer is told, then the channel is freed; another  *)
(* callback may come in between.  release_callback frees a buffer only.    *)
write_callback(i) ==
  LET c == Chan(i) IN
  /\ At(i, "begin") /\ task[i].kind = "write"
  /\ IF c = "CI_PRIVATE" \/ writer[c] = NULL
     THEN Ends(i) /\ UNCHANGED write_blocking
     ELSE /\ write_blocking' = [write_blocking EXCEPT ![c] = FALSE]
          /\ task' = [task EXCEPT ![writer[c]] = Signalled(@, "WRITECB"),
                                  ![i].pc = "clear"]
          /\ UNCHANGED queue
  /\ UNCHANGED <<writer, reader, busy, dev_cb, device, sent, due, frames, sigs>>

(* Mutant: the channel keeps its writer. *)
Cleanup_Missing(i) ==
  /\ At(i, "clear")
  /\ Ends(i)
  /\ UNCHANGED <<channels, busy, dev_cb, device, sent, due, frames, sigs>>

Cleanup(i) ==
  /\ At(i, "clear")
  /\ writer' = [writer EXCEPT ![Chan(i)] = NULL]
  /\ Ends(i)
  /\ UNCHANGED <<write_blocking, reader, busy, dev_cb, device, sent, due, frames, sigs>>

(* Mutant: the reader stays registered. *)
read_unblock_callback_Registered(i) ==
  /\ At(i, "begin") /\ task[i].kind = "read" /\ Chan(i) = "CI_CLIB"
  /\ task' = [task EXCEPT ![Appl] = Signalled(@, "READCB"),
                          ![i] = Item(None, None, None)]
  /\ queue' = RemoveFirst(queue, i)
  /\ UNCHANGED <<channels, busy, dev_cb, device, sent, due, frames, sigs>>

(* read_callback of the answer: read_unblock_callback.                     *)
read_unblock_callback(i) ==
  /\ At(i, "begin") /\ task[i].kind = "read" /\ Chan(i) = "CI_CLIB"
  /\ reader' = FALSE
  /\ task' = [task EXCEPT ![Appl] = Signalled(@, "READCB"),
                          ![i] = Item(None, None, None)]
  /\ queue' = RemoveFirst(queue, i)
  /\ UNCHANGED <<writer, write_blocking, busy, dev_cb, device, sent, due, frames, sigs>>

Step(i) ==
  \/ Send(i) \/ Count(i) \/ Number(i) \/ Store(i)
  \/ SendHeartbeatAck(i) \/ Claim(i) \/ Fill(i)
  \/ Wait(i) \/ Wake(i)
  \/ write_callback(i) \/ Cleanup(i) \/ read_unblock_callback(i)

-----------------------------------------------------------------------------
(* Mutant: the device stays taken. *)
angel_DD_SentPacket_StaysBusy ==
  /\ device # None
  /\ sent' = [sent EXCEPT ![device] = TRUE]
  /\ due' = due \union {device}
  /\ device' = None
  /\ Angel_QueueCallback("write", dev_cb)
  /\ UNCHANGED <<channels, busy, dev_cb, frames, sigs>>

(* The last byte has left: int_tx_processing, angel_DD_SentPacket.         *)
angel_DD_SentPacket ==
  /\ device # None
  /\ sent' = [sent EXCEPT ![device] = TRUE]
  /\ due' = due \union {device}
  /\ device' = None
  /\ busy' = FALSE
  /\ Angel_QueueCallback("write", dev_cb)
  /\ UNCHANGED <<channels, dev_cb, frames, sigs>>

(* angel_DD_GotPacket.  The host answers the call that has reached it,     *)
(* asks again when it has the last reply, and sends a heartbeat when it    *)
(* has the last acknowledgement.                                           *)
angel_DD_GotPacket(c) ==
  /\ Len(queue) < Tasks
  /\ c \in due
  /\ due' = due \ {c}
  /\ Angel_QueueCallback("read", c)
  /\ UNCHANGED <<channels, busy, dev_cb, device, sent, frames, sigs>>

Next ==
  \/ SendThenRead
  \/ \E i \in Task : Step(i)
  \/ angel_DD_SentPacket
  \/ \E c \in Channel : angel_DD_GotPacket(c)

Spec == Init /\ [][Next]_vars

(* A task in front gets on, the device sends what it is given, the host    *)
(* answers.                                                                *)
Fairness == /\ \A i \in Task : WF_vars(Step(i))
            /\ WF_vars(angel_DD_SentPacket)
            /\ WF_vars(angel_DD_GotPacket("CI_CLIB"))
FairSpec == Spec /\ Fairness

-----------------------------------------------------------------------------
pcs == {"idle", "begin", "count", "number", "store", "claim", "fill", "wait",
        "asleep", "clear", None}

(* The queue holds each live task once, the application among them;        *)
(* no task waits for anything but the completion of its own call.          *)
TypeOK ==
  /\ queue \in Seq(Task) /\ Appl \in Live
  /\ \A j, k \in DOMAIN queue : queue[j] = queue[k] => j = k
  /\ task \in [Task -> [kind : {"appl", "read", "write", None},
                        chan : Channel \union {None}, pc : pcs,
                        waiting : SUBSET Signals, received : SUBSET Signals]]
  /\ \A i \in Task : i \in Live <=> task[i].kind # None
  /\ writer \in [Channel -> Task \union {NULL}]
  /\ write_blocking \in [Channel -> BOOLEAN] /\ sent \in [Channel -> BOOLEAN]
  /\ due \subseteq Channel
  /\ reader \in BOOLEAN /\ busy \in BOOLEAN
  /\ dev_cb \in Channel \union {None} /\ device \in Channel \union {None}
  /\ currentFrame \in 0 .. MAX_SEQ
  /\ number \in [Channel -> 0 .. MAX_SEQ] /\ packno \in [Channel -> 0 .. MAX_SEQ]
  /\ sigs \subseteq Signals

(* A sender that waits has its packet in the device, or it has left; it is *)
(* told of the end only when it has: no packet is overwritten by another   *)
(* task's, and no completion goes to the wrong one.                        *)
SentWhenTold ==
  \A c \in Channel : writer[c] # NULL =>
    LET item == task[writer[c]] IN
    /\ item.pc \in {"wait", "asleep"} => device = c \/ sent[c]
    /\ \/ "WRITECB" \in item.received
       \/ item.pc = "asleep" /\ "WRITECB" \notin item.waiting
       => sent[c]

(* The writer a channel remembers is the live task that asked, until it    *)
(* has been signalled: its place in the pool has not gone to another task. *)
WriterAlive ==
  \A c \in Channel :
    \/ writer[c] = NULL
    \/ \E i \in Live : task[i].pc = "clear" /\ Chan(i) = c
    \/ /\ writer[c] \in Live
       /\ Chan(writer[c]) = c
       /\ task[writer[c]].pc \in {"number", "store", "claim", "fill", "wait", "asleep"}

(* When the application has its answer the channel is free for the next    *)
(* call: no call is refused because of one before it.                      *)
FreeWhenIdle ==
  task[Appl].pc = "idle" => /\ ~reader
                            /\ ~write_blocking["CI_CLIB"]
                            /\ writer["CI_CLIB"] = NULL

(* A reply to the debugger is thrown away only while the one before it has *)
(* not been reported as sent, or is just being reported.                   *)
DroppedOnlyWhenBusy ==
  [][\A i \in Task :
       i \in Live /\ Chan(i) = "CI_HADP" /\ task[i].pc \in {"begin", "count"}
         /\ task[i].kind = "read" /\ task'[i].kind = None
       => \E j \in Live : j # i /\ Chan(j) = "CI_HADP"]_vars

(* The spin of a sender on a device that another task has taken but not    *)
(* filled: that task is behind it.                                         *)
Deadlocked == \E i \in Task, j \in Live :
  /\ At(i, "claim") /\ busy
  /\ task[j].pc = "fill" /\ j # i

(* One of the two events was taken alone by the first Wait.                *)
HalfTaken == sigs # {} /\ sigs # Signals

Calling == task[Appl].pc # "idle"

(* The host leaves the target alone: no more requests and heartbeats.      *)
Unasked == \E c \in {"CI_HADP", "CI_PRIVATE"} : angel_DD_GotPacket(c)
LeftAlone == <>[][~Unasked]_vars

(* A call of the application returns when the host leaves the target alone *)
(* at last, unless one of its two events was taken alone, or a sender      *)
(* spins on a device that waits for a task behind it: the only ways to     *)
(* hang.                                                                   *)
CallReturnsUnless == LeftAlone => []<>(~Calling \/ HalfTaken \/ Deadlocked)

(* channels.c:1880: the application's call will "wait for both to          *)
(* complete", and return.                                                  *)
CallReturns == LeftAlone => []<>~Calling

(* channels.c:93: packno is the "packet sequence number for this packet".  *)
NumbersDistinct ==
  \A c, d \in {"CI_CLIB", "CI_HADP"} :
    c # d /\ writer[c] # NULL /\ writer[d] # NULL
      /\ task[writer[c]].pc \in {"claim", "fill", "wait", "asleep"}
      /\ task[writer[d]].pc \in {"claim", "fill", "wait", "asleep"}
    => packno[c] # packno[d]
=============================================================================
