------------------------- MODULE AngelChannels_proofs -------------------------
(***************************************************************************)
(* The senders' invariants, for every number of callbacks and every highest *)
(* sequence number.                                                        *)
(***************************************************************************)
EXTENDS AngelChannels, TLAPS, SequenceTheorems

-----------------------------------------------------------------------------
(* The inductive invariant.  Everything but the list itself speaks of the   *)
(* items only, by what each stands for on a channel.                        *)
Waits(x) == x.pc \in {"wait", "asleep"}

(* The task at i has been told of e: by Signal, or by a Wait before.        *)
Told(i, x, e, s) == /\ Waits(x)
                    /\ \/ e \in x.received
                       \/ x.pc = "asleep" /\ e \notin x.waiting
                       \/ i = Appl /\ e \in s

Sender(x)  == x.kind = "appl" \/ x.kind = "read"
Sending(x) == x.pc \in {"number", "store", "claim", "fill", "wait", "asleep"}

(* What an item is to channel c: a sender that is not told yet, one that    *)
(* waits with its packet in the device, one about to count, a completion    *)
(* not yet reported, one that has been reported and clears the channel.     *)
Pending(i, x, s, c) == /\ x.chan = c /\ Sender(x) /\ Sending(x)
                       /\ ~Told(i, x, "WRITECB", s)
Given(i, x, s, c)   == Pending(i, x, s, c) /\ Waits(x)
Counting(x, c)      == x.chan = c /\ Sender(x) /\ x.pc = "count"
Reporting(x, c)     == x.chan = c /\ x.kind = "write" /\ x.pc = "begin"
Clearing(x, c)      == x.chan = c /\ x.kind = "write" /\ x.pc = "clear"
Answering(x)        == x.kind = "read" /\ x.chan = "CI_CLIB"

ItemType == [kind : {"appl", "read", "write", None},
             chan : Channel \union {None}, pc : pcs,
             waiting : SUBSET Signals, received : SUBSET Signals]

Shape(i, x) ==
  /\ x.pc # "asleep" => x.waiting = {}
  /\ ~Waits(x) => x.received = {}
  /\ i = Appl <=> x.kind = "appl"
  /\ x.kind = "appl" => /\ x.chan = "CI_CLIB"
                        /\ x.pc = "idle" \/ x.pc = "count" \/ Sending(x)
  /\ x.kind # "appl" => "READCB" \notin x.waiting /\ "READCB" \notin x.received
  /\ x.kind = None => x.chan = None /\ x.pc = None
  /\ x.kind = "read" =>
       \/ x.chan = "CI_CLIB" /\ x.pc = "begin"
       \/ x.chan = "CI_PRIVATE" /\ x.pc \in {"begin", "claim", "fill"}
       \/ x.chan = "CI_HADP" /\ (x.pc = "begin" \/ x.pc = "count" \/ Sending(x))
  /\ x.kind = "write" =>
       \/ x.chan \in Channel /\ x.pc = "begin"
       \/ x.chan \in {"CI_CLIB", "CI_HADP"} /\ x.pc = "clear"

ShapeInv == task \in [Task -> ItemType] /\ \A i \in Task : Shape(i, task[i])

In(q, a)        == \E k \in 1 .. Len(q) : q[k] = a
Before(q, a, b) == \E j, k \in 1 .. Len(q) : j < k /\ q[j] = a /\ q[k] = b
Once(q)         == /\ q \in Seq(Task)
                   /\ \A j, k \in 1 .. Len(q) : q[j] = q[k] => j = k

(* The list holds the live tasks, each once.  Behind the application there  *)
(* are only senders it has been put in front of; a completion is never.     *)
ListInv ==
  /\ Once(queue)
  /\ \A i \in Task : In(queue, i) <=> task[i].kind # None
  /\ \A i \in Task : Before(queue, Appl, i) => task[i].kind = "read"

ScalarInv ==
  /\ writer \in [Channel -> Task \union {NULL}]
  /\ write_blocking \in [Channel -> BOOLEAN] /\ sent \in [Channel -> BOOLEAN]
  /\ due \subseteq Channel
  /\ reader \in BOOLEAN /\ busy \in BOOLEAN
  /\ dev_cb \in Channel \union {None} /\ device \in Channel \union {None}
  /\ currentFrame \in 0 .. MAX_SEQ
  /\ number \in [Channel -> 0 .. MAX_SEQ] /\ packno \in [Channel -> 0 .. MAX_SEQ]
  /\ sigs \subseteq Signals

DevInv ==
  /\ device # None => busy /\ dev_cb = device
  /\ \A i \in Task : task[i].pc = "fill" => busy /\ device = None
  /\ \A i, j \in Task : task[i].pc = "fill" /\ task[j].pc = "fill" => i = j

(* The writer a channel remembers is the sender that is not told, or there  *)
(* is none and one completion is about to clear the channel.                *)
ChanInv(c) ==
  /\ \A i \in Task : Pending(i, task[i], sigs, c) => writer[c] = i
  /\ writer[c] # NULL => \/ Pending(writer[c], task[writer[c]], sigs, c)
                         \/ \E j \in Task : Clearing(task[j], c)
  /\ \A i, j \in Task : Reporting(task[i], c) /\ Reporting(task[j], c) => i = j
  /\ \A i, j \in Task : Clearing(task[i], c) /\ Clearing(task[j], c) => i = j
  /\ \A i, j \in Task : ~(Reporting(task[i], c) /\ Clearing(task[j], c))
  /\ \A i \in Task : Reporting(task[i], c) =>
       /\ sent[c] /\ device # c /\ writer[c] # NULL
       /\ Given(writer[c], task[writer[c]], sigs, c)
  /\ \A i \in Task : Clearing(task[i], c) =>
       /\ sent[c] /\ device # c /\ writer[c] # NULL
       /\ \A j \in Task : ~Pending(j, task[j], sigs, c)
  /\ device = c => writer[c] # NULL /\ Given(writer[c], task[writer[c]], sigs, c)
  /\ \A i \in Task : Given(i, task[i], sigs, c) => device = c \/ sent[c]
  /\ write_blocking[c] =>
       \E i \in Task : Counting(task[i], c) \/ Pending(i, task[i], sigs, c)

ChansInv == ChanInv("CI_CLIB") /\ ChanInv("CI_HADP")

(* The application waits and has not been told of the answer.               *)
Open == Waits(task[Appl]) /\ ~Told(Appl, task[Appl], "READCB", sigs)

(* The one answer to a call is owed by the device, the host or a callback.  *)
ApplInv ==
  /\ writer["CI_PRIVATE"] = NULL
  /\ task[Appl].pc \in {"idle", "count"} => writer["CI_CLIB"] = NULL
  /\ task[Appl].pc = "idle" => ~reader /\ ~write_blocking["CI_CLIB"]
  /\ Told(Appl, task[Appl], "READCB", sigs) => ~reader
  /\ task[Appl].pc # "idle" /\ ~Waits(task[Appl]) => sigs = {}
  /\ "CI_CLIB" \in due => Open
  /\ device = "CI_CLIB" => Open /\ "CI_CLIB" \notin due
  /\ \A i \in Task : Answering(task[i]) =>
       Open /\ "CI_CLIB" \notin due /\ device # "CI_CLIB"
  /\ \A i, j \in Task : Answering(task[i]) /\ Answering(task[j]) => i = j

Inv == ListInv /\ ShapeInv /\ ScalarInv /\ DevInv /\ ChansInv /\ ApplInv

-----------------------------------------------------------------------------
(* The list.                                                                *)

LEMMA Places == /\ Appl \in Task /\ NULL \notin Task /\ Tasks \in Nat
                /\ Task \subseteq Int
PROOF BY ChannelsAssumption DEF Task, Appl, NULL

(* A list with one more in front.                                           *)
LEMMA Prepended ==
  ASSUME NEW q, Once(q), NEW i \in Task, ~In(q, i), NEW r, r = <<i>> \o q
  PROVE  /\ Once(r)
         /\ \A a : In(r, a) <=> a = i \/ In(q, a)
         /\ \A a, b : Before(r, a, b) => Before(q, a, b) \/ (a = i /\ In(q, b))
PROOF
<1>1. /\ q \in Seq(Task) /\ Len(q) \in Nat /\ \A j, k \in 1 .. Len(q) : q[j] = q[k] => j = k
      /\ <<i>> \in Seq(Task) /\ Len(<<i>>) = 1 /\ <<i>>[1] = i
  BY DEF Once
<1>2. /\ r \in Seq(Task)
      /\ Len(r) = 1 + Len(q)
      /\ \A k \in 1 .. 1 + Len(q) : r[k] = IF k <= 1 THEN <<i>>[k] ELSE q[k - 1]
  BY <1>1, ConcatProperties
<1>3. 1 \in 1 .. Len(r) /\ r[1] = i
  BY <1>1, <1>2
<1>4. ASSUME NEW k \in 1 .. Len(r), k # 1
      PROVE  k - 1 \in 1 .. Len(q) /\ r[k] = q[k - 1] /\ r[k] # i
  <2>1. k - 1 \in 1 .. Len(q) /\ r[k] = q[k - 1]
    BY <1>1, <1>2, <1>4
  <2>. QED BY <2>1 DEF In
<1>5. ASSUME NEW k \in 1 .. Len(q)
      PROVE  k + 1 \in 1 .. Len(r) /\ r[k + 1] = q[k]
  <2>1. k + 1 \in 1 .. Len(r) /\ k + 1 # 1 /\ (k + 1) - 1 = k
    BY <1>1, <1>2
  <2>2. r[k + 1] = q[(k + 1) - 1]
    BY <1>4, <2>1
  <2>. QED BY <2>1, <2>2
<1>6. ASSUME NEW j \in 1 .. Len(r), NEW k \in 1 .. Len(r), r[j] = r[k]
      PROVE  j = k
  <2>1. CASE j = 1 \/ k = 1
    BY <1>3, <1>4, <1>6, <2>1
  <2>2. CASE j # 1 /\ k # 1
    <3>1. j - 1 = k - 1
      BY <1>1, <1>4, <1>6, <2>2
    <3>. QED BY <1>1, <1>2, <3>1
  <2>. QED BY <2>1, <2>2
<1>7. ASSUME NEW a PROVE In(r, a) <=> a = i \/ In(q, a)
  <2>1. ASSUME In(r, a), a # i PROVE In(q, a)
    <3>1. PICK k \in 1 .. Len(r) : r[k] = a
      BY <2>1 DEF In
    <3>. QED BY <1>3, <1>4, <2>1, <3>1 DEF In
  <2>2. ASSUME In(q, a) PROVE In(r, a)
    BY <1>5, <2>2 DEF In
  <2>3. In(r, i)
    BY <1>3 DEF In
  <2>. QED BY <2>1, <2>2, <2>3
<1>8. ASSUME NEW a, NEW b, Before(r, a, b)
      PROVE  Before(q, a, b) \/ (a = i /\ In(q, b))
  <2>1. PICK j, k \in 1 .. Len(r) : j < k /\ r[j] = a /\ r[k] = b
    BY <1>8 DEF Before
  <2>2. k # 1
    BY <1>1, <1>2, <2>1
  <2>3. CASE j = 1
    BY <1>3, <1>4, <2>1, <2>2, <2>3 DEF In
  <2>4. CASE j # 1
    <3>1. j - 1 < k - 1
      BY <1>1, <1>2, <2>1
    <3>. QED BY <1>4, <2>1, <2>2, <2>4, <3>1 DEF Before
  <2>. QED BY <2>3, <2>4
<1>. QED BY <1>2, <1>6, <1>7, <1>8 DEF Once

(* A list with one more behind.                                             *)
LEMMA Appended ==
  ASSUME NEW q, Once(q), NEW i \in Task, ~In(q, i), NEW r, r = Append(q, i)
  PROVE  /\ Once(r)
         /\ \A a : In(r, a) <=> a = i \/ In(q, a)
         /\ \A b : ~Before(r, i, b)
PROOF
<1>1. q \in Seq(Task) /\ Len(q) \in Nat /\ \A j, k \in 1 .. Len(q) : q[j] = q[k] => j = k
  BY DEF Once
<1>. DEFINE n == Len(q) + 1
<1>2. /\ r \in Seq(Task) /\ Len(r) = n /\ r[n] = i
      /\ \A k \in 1 .. Len(q) : r[k] = q[k]
  BY <1>1, AppendProperties
<1>3. n \in 1 .. Len(r) /\ \A k \in 1 .. Len(r) : k # n => k \in 1 .. Len(q)
  BY <1>1, <1>2
<1>4. \A k \in 1 .. Len(q) : k \in 1 .. Len(r) /\ k < n /\ r[k] # i
  <2>1. \A k \in 1 .. Len(q) : q[k] # i
    BY DEF In
  <2>. QED BY <1>1, <1>2, <2>1
<1>5. \A k \in 1 .. Len(r) : r[k] = i => k = n
  BY <1>3, <1>4
<1>. HIDE DEF n
<1>6. \A j, k \in 1 .. Len(r) : r[j] = r[k] => j = k
  BY <1>1, <1>2, <1>3, <1>4
<1>7. \A a : In(r, a) <=> a = i \/ In(q, a)
  BY <1>2, <1>3, <1>4 DEF In
<1>8. ASSUME NEW b, Before(r, i, b) PROVE FALSE
  <2>1. PICK j, k \in 1 .. Len(r) : j < k /\ r[j] = i
    BY <1>8 DEF Before
  <2>2. j = n
    BY <1>5, <2>1
  <2>3. k \in Int /\ k <= n
    BY <1>1, <1>2, n \in Int DEF n
  <2>. QED BY <2>1, <2>2, <2>3
<1>. QED BY <1>2, <1>6, <1>7, <1>8 DEF Once

(* A list without one of its members.                                       *)
LEMMA Removed ==
  ASSUME NEW q, Once(q), NEW i, In(q, i), NEW r, r = RemoveFirst(q, i)
  PROVE  /\ Once(r)
         /\ \A x : In(r, x) <=> x # i /\ In(q, x)
         /\ \A x, y : Before(r, x, y) => Before(q, x, y)
PROOF
<1>. DEFINE n == Len(q)
<1>1. q \in Seq(Task) /\ n \in Nat /\ \A j, k \in 1 .. n : q[j] = q[k] => j = k
  BY DEF Once
<1>2. PICK m \in 1 .. n : q[m] = i
  BY DEF In
<1>3. SelectInSeq(q, LAMBDA v : v = i) = m
  <2>. DEFINE I == {k \in 1 .. Len(q) : q[k] = i}
  <2>1. I = {m}
    BY <1>1, <1>2
  <2>2. m \in Int
    BY <1>2
  <2>3. (CHOOSE x \in {m} : \A y \in {m} : x <= y) = m
    BY <2>2
  <2>. QED BY <2>1, <2>3 DEF SelectInSeq, Min
<1>4. r = RemoveAt(q, m)
  BY <1>2, <1>3 DEF RemoveFirst
<1>. DEFINE a == SubSeq(q, 1, m - 1)
            b == SubSeq(q, m + 1, Len(q))
<1>5. /\ a \in Seq(Task)
      /\ Len(a) = m - 1
      /\ \A k \in 1 .. m - 1 : a[k] = q[k]
  BY <1>1, SubSeqProperties
<1>6. /\ b \in Seq(Task)
      /\ Len(b) = n - m
      /\ \A k \in 1 .. n - m : b[k] = q[m + k]
  BY <1>1, SubSeqProperties
<1>7. r = a \o b
  BY <1>4 DEF RemoveAt
<1>. HIDE DEF a, b
<1>8. /\ r \in Seq(Task)
      /\ Len(r) = n - 1
      /\ \A k \in 1 .. n - 1 : r[k] = IF k < m THEN q[k] ELSE q[k + 1]
  <2>1. /\ a \o b \in Seq(Task)
        /\ Len(a \o b) = Len(a) + Len(b)
        /\ \A k \in 1 .. Len(a) + Len(b) :
             (a \o b)[k] = IF k <= Len(a) THEN a[k] ELSE b[k - Len(a)]
    BY <1>5, <1>6, ConcatProperties
  <2>2. Len(a) + Len(b) = n - 1
    BY <1>1, <1>5, <1>6
  <2>3. ASSUME NEW k \in 1 .. n - 1
        PROVE  r[k] = IF k < m THEN q[k] ELSE q[k + 1]
    <3>1. CASE k < m
      BY <1>1, <1>5, <1>7, <2>1, <2>2, <3>1
    <3>2. CASE ~(k < m)
      <4>1. k - (m - 1) \in 1 .. n - m /\ m + (k - (m - 1)) = k + 1
        BY <1>1, <3>2
      <4>2. r[k] = b[k - (m - 1)]
        BY <1>1, <1>5, <1>7, <2>1, <2>2, <3>2
      <4>3. b[k - (m - 1)] = q[m + (k - (m - 1))]
        BY <1>6, <4>1
      <4>. QED BY <3>2, <4>1, <4>2, <4>3
    <3>. QED BY <3>1, <3>2
  <2>. QED BY <1>7, <2>1, <2>2, <2>3
<1>. HIDE DEF n
<1>9. m \in Int /\ 1 <= m /\ m <= n
  BY <1>1, <1>2
<1>. DEFINE p(k) == IF k < m THEN k ELSE k + 1
<1>10. ASSUME NEW k \in 1 .. n - 1
       PROVE  p(k) \in 1 .. n /\ p(k) # m /\ r[k] = q[p(k)]
  BY <1>1, <1>8, <1>9
<1>11. \A j, k \in 1 .. n - 1 : j < k => p(j) < p(k)
  BY <1>1, <1>9
<1>12. ASSUME NEW x \in 1 .. n, x # m
       PROVE  \E k \in 1 .. n - 1 : r[k] = q[x]
  <2>. DEFINE k == IF x < m THEN x ELSE x - 1
  <2>1. k \in 1 .. n - 1 /\ p(k) = x
    BY <1>1, <1>9, <1>12
  <2>. HIDE DEF k, p
  <2>. QED BY <1>10, <2>1
<1>. HIDE DEF p
<1>13. ASSUME NEW j \in 1 .. n - 1, NEW k \in 1 .. n - 1, r[j] = r[k], j < k
       PROVE  FALSE
  <2>1. p(j) = p(k)
    BY <1>1, <1>10, <1>13
  <2>2. p(j) \in Int /\ p(j) < p(k)
    BY <1>1, <1>10, <1>11, <1>13
  <2>. QED BY <2>1, <2>2
<1>14. \A j, k \in 1 .. n - 1 : r[j] = r[k] => j = k
  BY <1>1, <1>13
<1>15. ASSUME NEW x PROVE In(r, x) <=> x # i /\ In(q, x)
  <2>1. ASSUME In(r, x) PROVE x # i /\ In(q, x)
    <3>1. PICK k \in 1 .. n - 1 : r[k] = x
      BY <1>8, <2>1 DEF In
    <3>. QED BY <1>1, <1>2, <1>10, <3>1 DEF In, n
  <2>2. ASSUME In(q, x), x # i PROVE In(r, x)
    <3>1. PICK k \in 1 .. n : q[k] = x
      BY <2>2 DEF In, n
    <3>. QED BY <1>2, <1>8, <1>12, <2>2, <3>1 DEF In
  <2>. QED BY <2>1, <2>2
<1>16. ASSUME NEW x, NEW y, Before(r, x, y) PROVE Before(q, x, y)
  <2>1. PICK j, k \in 1 .. n - 1 : j < k /\ r[j] = x /\ r[k] = y
    BY <1>8, <1>16 DEF Before
  <2>. QED BY <1>10, <1>11, <2>1 DEF Before, n
<1>. QED BY <1>8, <1>14, <1>15, <1>16 DEF Once

LEMMA RunningTask ==
  ASSUME ListInv, NEW i, Running(i)
  PROVE  /\ i \in Task /\ task[i].kind # None /\ ~Blocked(i)
         /\ i = Appl => \A j \in Task : j # Appl /\ task[j].kind # None =>
                          Blocked(j) \/ task[j].kind = "read"
PROOF
<1>1. PICK k \in 1 .. Len(queue) : /\ queue[k] = i /\ ~Blocked(i)
                                   /\ \A j \in 1 .. k - 1 : Blocked(queue[j])
  BY DEF ListInv, Once, Running
<1>2. i \in Task /\ task[i].kind # None
  BY <1>1 DEF ListInv, Once, In
<1>3. ASSUME i = Appl, NEW j \in Task, j # Appl, task[j].kind # None
      PROVE  Blocked(j) \/ task[j].kind = "read"
  <2>1. PICK m \in 1 .. Len(queue) : queue[m] = j
    BY <1>3 DEF ListInv, In
  <2>2. CASE m < k
    <3>1. m \in 1 .. k - 1
      BY <2>2
    <3>. QED BY <1>1, <2>1, <3>1
  <2>3. CASE ~(m < k)
    <3>1. m # k
      BY <1>1, <1>3, <2>1
    <3>2. k < m
      BY <2>3, <3>1
    <3>. QED BY <1>1, <1>3, <2>1, <3>2 DEF ListInv, Before
  <2>. QED BY <2>2, <2>3
<1>. QED BY <1>1, <1>2, <1>3

(* The kinds of the tasks have not changed.                                 *)
LEMMA SameList ==
  ASSUME ListInv, queue' = queue, \A j \in Task : task'[j].kind = task[j].kind
  PROVE  ListInv'
PROOF BY DEF ListInv, Once, In, Before

(* The list after a step.                                                   *)
LEMMA ListPrime ==
  ASSUME NEW r, r = queue', Once(r),
         \A i \in Task : In(r, i) <=> task'[i].kind # None,
         \A i \in Task : Before(r, Appl, i) => task'[i].kind = "read"
  PROVE  ListInv'
PROOF BY DEF ListInv, Once, In, Before

LEMMA FreePlace ==
  ASSUME ListInv, NEW i \in Free
  PROVE  i \in Task /\ task[i].kind = None
PROOF BY DEF ListInv, Once, In, Free, Live, ToSet

(* A new task in front.                                                     *)
LEMMA LongerList ==
  ASSUME ListInv, NEW i \in Task, i # Appl, task[i].kind = None, queue' = <<i>> \o queue,
         \A j \in Task : j # i => task'[j].kind = task[j].kind, task'[i].kind # None
  PROVE  ListInv'
PROOF
<1>. DEFINE r == queue'
<1>1. /\ Once(r) /\ \A a : In(r, a) <=> a = i \/ In(queue, a)
      /\ \A a, b : Before(r, a, b) => Before(queue, a, b) \/ (a = i /\ In(queue, b))
  BY Prepended DEF ListInv
<1>2. \A j \in Task : Before(r, Appl, j) => task[j].kind = "read"
  BY <1>1 DEF ListInv
<1>3. \A j \in Task : In(r, j) <=> task'[j].kind # None
  BY <1>1 DEF ListInv
<1>. HIDE DEF r
<1>4. \A j \in Task : Before(r, Appl, j) => task'[j].kind = "read"
  BY <1>2 DEF None
<1>. QED BY <1>1, <1>3, <1>4, ListPrime DEF r

(* A task that is not the application's is taken out.                       *)
LEMMA ShorterList ==
  ASSUME ListInv, NEW i \in Task, i # Appl, task[i].kind # None,
         queue' = RemoveFirst(queue, i),
         \A j \in Task : j # i => task'[j].kind = task[j].kind, task'[i].kind = None
  PROVE  ListInv'
PROOF
<1>. DEFINE r == queue'
<1>1. In(queue, i) /\ Once(queue)
  BY DEF ListInv
<1>2. /\ Once(r) /\ \A a : In(r, a) <=> a # i /\ In(queue, a)
      /\ \A a, b : Before(r, a, b) => Before(queue, a, b)
  BY <1>1, Removed
<1>3. \A j \in Task : In(r, j) <=> task'[j].kind # None
  BY <1>2 DEF ListInv
<1>4. \A j \in Task : Before(r, Appl, j) => task'[j].kind = "read"
  <2>1. \A a, b : Before(r, a, b) => In(r, b)
    BY DEF Before, In
  <2>. HIDE DEF r
  <2>. QED BY <1>2, <2>1 DEF ListInv
<1>. HIDE DEF r
<1>. QED BY <1>2, <1>3, <1>4, ListPrime DEF r

(* The application is put in front, of callbacks' tasks that wait.          *)
LEMMA RaisedList ==
  ASSUME ListInv, task[Appl].kind = "appl", queue' = Raised,
         \A j \in Task : task'[j].kind = task[j].kind,
         \A j \in Task : j # Appl /\ task[j].kind # None => task[j].kind = "read"
  PROVE  ListInv'
PROOF
<1>. DEFINE q == RemoveFirst(queue, Appl)
            r == queue'
<1>1. In(queue, Appl) /\ Once(queue) /\ Appl \in Task
  BY Places DEF ListInv, None
<1>2. Once(q) /\ \A a : In(q, a) <=> a # Appl /\ In(queue, a)
  BY <1>1, Removed
<1>3. r = <<Appl>> \o q
  BY DEF Raised
<1>. HIDE DEF q, r
<1>4. Once(r) /\ \A a : In(r, a) <=> a = Appl \/ In(q, a)
  BY <1>1, <1>2, <1>3, Prepended
<1>5. \A a, b : Before(r, a, b) => Before(q, a, b) \/ (a = Appl /\ In(q, b))
  BY <1>1, <1>2, <1>3, Prepended
<1>6. \A j \in Task : In(r, j) <=> task'[j].kind # None
  BY <1>1, <1>2, <1>4 DEF ListInv
<1>7. ASSUME NEW j \in Task, Before(r, Appl, j) PROVE task'[j].kind = "read"
  <2>1. In(q, j)
    <3>1. Before(q, Appl, j) \/ In(q, j)
      BY <1>5, <1>7
    <3>. QED BY <3>1 DEF Before, In
  <2>. QED BY <1>2, <2>1 DEF ListInv
<1>. QED BY <1>4, <1>6, <1>7, ListPrime DEF r

(* The application is put behind all.                                       *)
LEMMA LoweredList ==
  ASSUME ListInv, task[Appl].kind = "appl", queue' = Lowered,
         \A j \in Task : task'[j].kind = task[j].kind
  PROVE  ListInv'
PROOF
<1>. DEFINE q == RemoveFirst(queue, Appl)
            r == queue'
<1>1. In(queue, Appl) /\ Once(queue) /\ Appl \in Task
  BY Places DEF ListInv, None
<1>2. Once(q) /\ \A a : In(q, a) <=> a # Appl /\ In(queue, a)
  BY <1>1, Removed
<1>3. r = Append(q, Appl)
  BY DEF Lowered
<1>. HIDE DEF q, r
<1>4. Once(r) /\ \A a : In(r, a) <=> a = Appl \/ In(q, a)
  BY <1>1, <1>2, <1>3, Appended
<1>5. \A b : ~Before(r, Appl, b)
  BY <1>1, <1>2, <1>3, Appended
<1>6. \A j \in Task : In(r, j) <=> task'[j].kind # None
  BY <1>1, <1>2, <1>4 DEF ListInv
<1>. QED BY <1>4, <1>5, <1>6, ListPrime DEF r

-----------------------------------------------------------------------------
(* What the steps do to the items.                                          *)

Kept(j) == task'[j] = task[j] /\ (j = Appl => sigs' = sigs)

(* Only the item at i changes, into this one.                               *)
Became(i, kind, chan, pc, waiting, received) ==
  /\ task' \in [Task -> ItemType]
  /\ \A j \in Task : j # i => task'[j] = task[j]
  /\ task'[i].kind = kind /\ task'[i].chan = chan /\ task'[i].pc = pc
  /\ task'[i].waiting = waiting /\ task'[i].received = received

(* An item's fields, and what the invariant says of it.                     *)
LEMMA Fields ==
  ASSUME ShapeInv, NEW i \in Task
  PROVE  /\ Shape(i, task[i]) /\ task[i] \in ItemType
         /\ task[i].kind \in {"appl", "read", "write", None}
         /\ task[i].chan \in Channel \union {None} /\ task[i].pc \in pcs
         /\ task[i].waiting \subseteq Signals /\ task[i].received \subseteq Signals
PROOF
<1>1. Shape(i, task[i]) /\ task[i] \in ItemType
  BY DEF ShapeInv
<1>. QED BY <1>1 DEF ItemType

LEMMA ShapeStep ==
  ASSUME ShapeInv, NEW i \in Task, task' \in [Task -> ItemType],
         \A j \in Task : j # i => task'[j] = task[j], Shape(i, task'[i])
  PROVE  ShapeInv'
PROOF
<1>1. \A j \in Task : Shape(j, task'[j])
  BY DEF ShapeInv
<1>2. ShapeInv' <=> task' \in [Task -> ItemType] /\ \A j \in Task : Shape(j, task'[j])
  BY DEF ShapeInv, Shape, Waits, Sending
<1>. QED BY <1>1, <1>2

LEMMA Replaced ==
  ASSUME ShapeInv, NEW i \in Task, NEW x \in ItemType, task' = [task EXCEPT ![i] = x]
  PROVE  Became(i, x.kind, x.chan, x.pc, x.waiting, x.received)
PROOF BY DEF Became, ShapeInv

LEMMA Moved ==
  ASSUME ShapeInv, NEW i \in Task, NEW pc \in pcs, task' = [task EXCEPT ![i].pc = pc]
  PROVE  Became(i, task[i].kind, task[i].chan, pc, task[i].waiting, task[i].received)
PROOF
<1>. DEFINE x == [task[i] EXCEPT !.pc = pc]
<1>1. task[i] \in ItemType /\ task \in [Task -> ItemType]
  BY DEF ShapeInv
<1>2. x \in ItemType /\ x.kind = task[i].kind /\ x.chan = task[i].chan /\ x.pc = pc
      /\ x.waiting = task[i].waiting /\ x.received = task[i].received
  BY <1>1 DEF ItemType
<1>3. task' = [task EXCEPT ![i] = x]
  BY <1>1
<1>. HIDE DEF x
<1>. QED BY <1>2, <1>3, Replaced

LEMMA Goes ==
  ASSUME ShapeInv, NEW i \in Task, NEW pc \in pcs, Goto(i, pc)
  PROVE  /\ queue' = queue
         /\ Became(i, task[i].kind, task[i].chan, pc, task[i].waiting, task[i].received)
PROOF BY Moved DEF Goto

LEMMA ItemFields ==
  ASSUME NEW kind \in {"appl", "read", "write", None},
         NEW chan \in Channel \union {None}, NEW pc \in pcs
  PROVE  LET x == Item(kind, chan, pc) IN
           /\ x \in ItemType /\ x.kind = kind /\ x.chan = chan /\ x.pc = pc
           /\ x.waiting = {} /\ x.received = {}
PROOF BY DEF Item, ItemType

LEMMA Gone ==
  ASSUME ShapeInv, NEW i \in Task, i # Appl, Ends(i)
  PROVE  /\ queue' = RemoveFirst(queue, i)
         /\ Became(i, None, None, None, {}, {})
PROOF
<1>1. task' = [task EXCEPT ![i] = Item(None, None, None)] /\ queue' = RemoveFirst(queue, i)
  BY DEF Ends
<1>. DEFINE x == Item(None, None, None)
<1>2. None \in pcs
  BY DEF pcs
<1>3. /\ x \in ItemType /\ x.kind = None /\ x.chan = None /\ x.pc = None
      /\ x.waiting = {} /\ x.received = {}
  BY <1>2, ItemFields
<1>. HIDE DEF x
<1>4. Became(i, x.kind, x.chan, x.pc, x.waiting, x.received)
  BY <1>1, <1>3, Replaced DEF x
<1>. QED BY <1>1, <1>3, <1>4

LEMMA Queued ==
  ASSUME ListInv, ShapeInv, NEW kind \in {"read", "write"}, NEW chan \in Channel,
         Angel_QueueCallback(kind, chan)
  PROVE  \E i \in Task :
           /\ task[i].kind = None /\ queue' = <<i>> \o queue
           /\ Became(i, kind, chan, "begin", {}, {})
PROOF
<1>1. PICK i \in Free : /\ queue' = <<i>> \o queue
                        /\ task' = [task EXCEPT ![i] = Item(kind, chan, "begin")]
  BY DEF Angel_QueueCallback
<1>2. i \in Task /\ task[i].kind = None
  BY FreePlace
<1>. DEFINE x == Item(kind, chan, "begin")
<1>3. "begin" \in pcs
  BY DEF pcs
<1>4. /\ x \in ItemType /\ x.kind = kind /\ x.chan = chan /\ x.pc = "begin"
      /\ x.waiting = {} /\ x.received = {}
  BY <1>3, ItemFields
<1>. HIDE DEF x
<1>5. Became(i, x.kind, x.chan, x.pc, x.waiting, x.received)
  BY <1>1, <1>2, <1>4, Replaced DEF x
<1>. QED BY <1>1, <1>2, <1>4, <1>5

-----------------------------------------------------------------------------
(* What is kept when no item changes what it is to a channel.               *)
Same(j, c) ==
  /\ Pending(j, task'[j], sigs', c) <=> Pending(j, task[j], sigs, c)
  /\ Given(j, task'[j], sigs', c) <=> Given(j, task[j], sigs, c)
  /\ Counting(task'[j], c) <=> Counting(task[j], c)
  /\ Reporting(task'[j], c) <=> Reporting(task[j], c)
  /\ Clearing(task'[j], c) <=> Clearing(task[j], c)

(* The invariant of a channel after a step.                                 *)
ChanAfter(c) ==
  /\ \A i \in Task : Pending(i, task'[i], sigs', c) => writer'[c] = i
  /\ writer'[c] # NULL => \/ Pending(writer'[c], task'[writer'[c]], sigs', c)
                          \/ \E j \in Task : Clearing(task'[j], c)
  /\ \A i, j \in Task : Reporting(task'[i], c) /\ Reporting(task'[j], c) => i = j
  /\ \A i, j \in Task : Clearing(task'[i], c) /\ Clearing(task'[j], c) => i = j
  /\ \A i, j \in Task : ~(Reporting(task'[i], c) /\ Clearing(task'[j], c))
  /\ \A i \in Task : Reporting(task'[i], c) =>
       /\ sent'[c] /\ device' # c /\ writer'[c] # NULL
       /\ Given(writer'[c], task'[writer'[c]], sigs', c)
  /\ \A i \in Task : Clearing(task'[i], c) =>
       /\ sent'[c] /\ device' # c /\ writer'[c] # NULL
       /\ \A j \in Task : ~Pending(j, task'[j], sigs', c)
  /\ device' = c => writer'[c] # NULL /\ Given(writer'[c], task'[writer'[c]], sigs', c)
  /\ \A i \in Task : Given(i, task'[i], sigs', c) => device' = c \/ sent'[c]
  /\ write_blocking'[c] =>
       \E i \in Task : Counting(task'[i], c) \/ Pending(i, task'[i], sigs', c)

LEMMA ChanPrime ==
  ASSUME NEW c, ChanAfter(c)
  PROVE  ChanInv(c)'
PROOF BY DEF ChanAfter, ChanInv, Pending, Given, Counting, Reporting, Clearing, Told,
             Waits, Sender, Sending

LEMMA KeptSame ==
  ASSUME NEW j, Kept(j), NEW c
  PROVE  Same(j, c)
PROOF BY DEF Kept, Same, Pending, Given, Counting, Reporting, Clearing, Told

LEMMA ChanFrame ==
  ASSUME NEW c \in Channel, ChanInv(c), writer[c] \in Task \union {NULL},
         \A j \in Task : Same(j, c),
         writer'[c] = writer[c], sent'[c] = sent[c], device' = c <=> device = c,
         write_blocking'[c] => write_blocking[c]
  PROVE  ChanInv(c)'
PROOF
<1>1. ChanAfter(c)
  BY DEF ChanAfter, ChanInv, Same
<1>. QED BY <1>1, ChanPrime

LEMMA ApplFrame ==
  ASSUME ApplInv, Appl \in Task, task'[Appl] = task[Appl], sigs' = sigs,
         writer'["CI_PRIVATE"] = writer["CI_PRIVATE"],
         writer'["CI_CLIB"] = writer["CI_CLIB"], reader' = reader,
         write_blocking'["CI_CLIB"] => write_blocking["CI_CLIB"],
         "CI_CLIB" \in due' <=> "CI_CLIB" \in due,
         device' = "CI_CLIB" <=> device = "CI_CLIB",
         \A j \in Task : Answering(task'[j]) => Answering(task[j])
  PROVE  ApplInv'
PROOF
<1>1. Open' <=> Open
  BY DEF Open, Waits, Told
<1>. QED BY <1>1 DEF ApplInv, Answering, Told, Waits

-----------------------------------------------------------------------------
(* The steps.                                                               *)

(* The task in front, and what is said of it.                               *)
LEMMA InFront ==
  ASSUME Inv, NEW i \in Task, Running(i)
  PROVE  /\ task[i].kind # None /\ task[i].waiting = {} /\ Shape(i, task[i])
         /\ task[i].kind \in {"appl", "read", "write", None}
         /\ task[i].chan \in Channel \union {None}
         /\ task[i].received \subseteq Signals
         /\ i = Appl => \A j \in Task : j # Appl /\ task[j].kind # None =>
                          task[j].kind = "read"
PROOF
<1>1. /\ i \in Task /\ task[i].kind # None /\ ~Blocked(i)
      /\ i = Appl => \A j \in Task : j # Appl /\ task[j].kind # None =>
                       Blocked(j) \/ task[j].kind = "read"
  BY RunningTask DEF Inv
<1>2. ASSUME NEW j \in Task, j # Appl, task[j].kind # None, Blocked(j)
      PROVE  task[j].kind = "read"
  BY <1>2, Fields DEF Inv, Blocked, Shape
<1>. QED BY <1>1, <1>2, Fields DEF Inv, Blocked

(* An item that is nothing to the channels before and after.                *)
LEMMA NothingSame ==
  ASSUME NEW i \in Task, NEW c \in {"CI_CLIB", "CI_HADP"},
         \/ task[i].kind = None
         \/ task[i].kind = "read" /\ (task[i].pc = "begin" \/ task[i].chan # c)
         \/ task[i].kind = "write" /\ task[i].chan # c,
         \/ task'[i].kind = None
         \/ task'[i].kind = "read" /\ (task'[i].pc = "begin" \/ task'[i].chan # c)
         \/ task'[i].kind = "write" /\ task'[i].chan # c
  PROVE  Same(i, c)
PROOF BY DEF Same, Pending, Given, Counting, Reporting, Clearing, Sender, Sending, None

(* A sender goes on between its critical section and the device.            *)
LEMMA Moves ==
  ASSUME Inv, NEW i \in Task, task[i].kind # None, Shape(i, task[i]),
         NEW p \in {"store", "claim", "fill"}, Goto(i, p),
         \/ task[i].pc \in {"number", "store"} \/ (task[i].pc = "claim" /\ p = "fill")
         \/ task[i].pc = "begin" /\ task[i].kind = "read" /\ p = "claim"
              /\ task[i].chan = "CI_PRIVATE",
         UNCHANGED <<writer, write_blocking, reader, device, due, sigs>>,
         \A c \in {"CI_CLIB", "CI_HADP"} : sent'[c] = sent[c]
  PROVE  ListInv' /\ ShapeInv' /\ ChansInv' /\ ApplInv'
PROOF
<1>. USE DEF Inv
<1>1. /\ queue' = queue
      /\ Became(i, task[i].kind, task[i].chan, p, task[i].waiting, task[i].received)
  <2>1. p \in pcs
    BY DEF pcs
  <2>. QED BY <2>1, Goes
<1>2. /\ \A j \in Task : j # i => task'[j] = task[j]
      /\ task'[i].kind = task[i].kind /\ task'[i].chan = task[i].chan /\ task'[i].pc = p
      /\ task'[i].waiting = task[i].waiting /\ task'[i].received = task[i].received
      /\ task' \in [Task -> ItemType]
  BY <1>1 DEF Became
<1>3. ListInv'
  BY <1>1, <1>2, SameList
<1>4. ShapeInv'
  <2>1. Shape(i, task'[i])
    BY <1>2 DEF Shape, Waits, Sending, None
  <2>. QED BY <1>2, <2>1, ShapeStep
<1>5. ASSUME NEW c \in {"CI_CLIB", "CI_HADP"} PROVE ChanInv(c)'
  <2>1. Same(i, c)
    BY <1>2 DEF Shape, Same, Pending, Given, Counting, Reporting, Clearing, Told, Waits,
                Sender, Sending, None
  <2>2. \A j \in Task : Same(j, c)
    BY <1>2, <2>1, KeptSame DEF Kept
  <2>. QED BY <2>2, ChanFrame DEF ChansInv, ScalarInv, Channel
<1>6. ApplInv'
  <2>1. CASE i = Appl
    <3>1. ~Waits(task[Appl]) /\ ~Waits(task'[Appl]) /\ task[Appl].pc # "idle"
          /\ ~(task'[Appl].pc \in {"idle", "count"})
      BY <1>2, <2>1 DEF Waits, Shape, Sending
    <3>2. ~Open /\ ~Open' /\ ~Told(Appl, task'[Appl], "READCB", sigs')
      BY <3>1 DEF Open, Told, Waits
    <3>3. \A j \in Task : Answering(task'[j]) => Answering(task[j])
      BY <1>2 DEF Answering
    <3>. QED BY <3>1, <3>2, <3>3 DEF ApplInv, Answering, Told, Waits
  <2>2. CASE i # Appl
    <3>1. \A j \in Task : Answering(task'[j]) => Answering(task[j])
      BY <1>2 DEF Answering
    <3>. QED BY <1>2, <2>2, <3>1, ApplFrame, Places
  <2>. QED BY <2>1, <2>2
<1>. QED BY <1>3, <1>4, <1>5, <1>6 DEF ChansInv

LEMMA NumberStep ==
  ASSUME Inv, NEW i \in Task, Number(i)
  PROVE  Inv'
PROOF
<1>1. /\ task[i].kind # None /\ Shape(i, task[i]) /\ task[i].pc = "number"
      /\ task[i].chan \in Channel
  BY InFront DEF Number, At, Shape, Channel, None
<1>2. /\ Goto(i, "store") /\ UNCHANGED <<channels, busy, dev_cb, device, sent, due,
                                         currentFrame, packno, sigs>>
      /\ number' = [number EXCEPT ![task[i].chan] = currentFrame]
  BY DEF Number, Chan
<1>3. ListInv' /\ ShapeInv' /\ ChansInv' /\ ApplInv'
  BY <1>1, <1>2, Moves DEF channels
<1>4. ScalarInv'
  BY <1>1, <1>2 DEF Inv, ScalarInv, channels
<1>5. DevInv'
  <2>1. Became(i, task[i].kind, task[i].chan, "store", task[i].waiting, task[i].received)
    BY <1>2, Goes DEF pcs, Inv
  <2>. QED BY <1>2, <2>1 DEF Inv, DevInv, Became
<1>. QED BY <1>3, <1>4, <1>5 DEF Inv

LEMMA StoreStep ==
  ASSUME Inv, NEW i \in Task, Store(i)
  PROVE  Inv'
PROOF
<1>1. /\ task[i].kind # None /\ Shape(i, task[i]) /\ task[i].pc = "store"
      /\ task[i].chan \in Channel
  BY InFront DEF Store, At, Shape, Channel, None
<1>2. /\ Goto(i, "claim") /\ UNCHANGED <<channels, busy, dev_cb, device, sent, due,
                                         currentFrame, number, sigs>>
      /\ packno' = [packno EXCEPT ![task[i].chan] = currentFrame]
  BY DEF Store, Chan
<1>3. ListInv' /\ ShapeInv' /\ ChansInv' /\ ApplInv'
  BY <1>1, <1>2, Moves DEF channels
<1>4. ScalarInv'
  BY <1>1, <1>2 DEF Inv, ScalarInv, channels
<1>5. DevInv'
  <2>1. Became(i, task[i].kind, task[i].chan, "claim", task[i].waiting, task[i].received)
    BY <1>2, Goes DEF pcs, Inv
  <2>. QED BY <1>2, <2>1 DEF Inv, DevInv, Became
<1>. QED BY <1>3, <1>4, <1>5 DEF Inv

LEMMA SendHeartbeatAckStep ==
  ASSUME Inv, NEW i \in Task, SendHeartbeatAck(i)
  PROVE  Inv'
PROOF
<1>1. /\ task[i].kind = "read" /\ Shape(i, task[i]) /\ task[i].pc = "begin"
      /\ task[i].chan = "CI_PRIVATE" /\ task[i].kind # None
  BY InFront DEF SendHeartbeatAck, At, Chan
<1>2. /\ Goto(i, "claim") /\ UNCHANGED <<channels, busy, dev_cb, device, due, frames, sigs>>
      /\ sent' = [sent EXCEPT !["CI_PRIVATE"] = FALSE]
  BY DEF SendHeartbeatAck
<1>3. ScalarInv' /\ \A c \in {"CI_CLIB", "CI_HADP"} : sent'[c] = sent[c]
  BY <1>1, <1>2 DEF Inv, ScalarInv, channels, frames, Channel
<1>4. ListInv' /\ ShapeInv' /\ ChansInv' /\ ApplInv'
  BY <1>1, <1>2, <1>3, Moves DEF channels
<1>5. DevInv'
  <2>1. Became(i, task[i].kind, task[i].chan, "claim", task[i].waiting, task[i].received)
    BY <1>2, Goes DEF pcs, Inv
  <2>. QED BY <1>2, <2>1 DEF Inv, DevInv, Became
<1>. QED BY <1>3, <1>4, <1>5 DEF Inv

LEMMA ClaimStep ==
  ASSUME Inv, NEW i \in Task, Claim(i)
  PROVE  Inv'
PROOF
<1>1. task[i].kind # None /\ Shape(i, task[i]) /\ task[i].pc = "claim"
  BY InFront DEF Claim, At
<1>2. /\ Goto(i, "fill") /\ UNCHANGED <<channels, dev_cb, device, sent, due, frames, sigs>>
      /\ ~busy /\ busy' = TRUE
  BY DEF Claim
<1>3. ListInv' /\ ShapeInv' /\ ChansInv' /\ ApplInv'
  BY <1>1, <1>2, Moves DEF channels
<1>4. ScalarInv'
  BY <1>1, <1>2 DEF Inv, ScalarInv, channels, frames
<1>5. DevInv'
  <2>1. Became(i, task[i].kind, task[i].chan, "fill", task[i].waiting, task[i].received)
    BY <1>2, Goes DEF pcs, Inv
  <2>. QED BY <1>2, <2>1 DEF Inv, DevInv, Became
<1>. QED BY <1>3, <1>4, <1>5 DEF Inv

(* A callback's task is no more.                                            *)
LEMMA Leaves ==
  ASSUME Inv, NEW i \in Task, i # Appl, task[i].kind # None, Ends(i)
  PROVE  /\ ListInv' /\ ShapeInv'
         /\ \A j \in Task : j # i => task'[j] = task[j]
         /\ task'[i].kind = None /\ task'[i].pc = None
PROOF
<1>1. queue' = RemoveFirst(queue, i) /\ Became(i, None, None, None, {}, {})
  BY Gone DEF Inv
<1>2. /\ \A j \in Task : j # i => task'[j] = task[j]
      /\ task'[i].kind = None /\ task'[i].chan = None /\ task'[i].pc = None
      /\ task'[i].waiting = {} /\ task'[i].received = {}
      /\ task' \in [Task -> ItemType]
  BY <1>1 DEF Became
<1>3. ListInv'
  BY <1>1, <1>2, ShorterList DEF Inv
<1>4. Shape(i, task'[i])
  BY <1>2 DEF Shape, None
<1>5. ShapeInv'
  BY <1>2, <1>4, ShapeStep DEF Inv
<1>. QED BY <1>2, <1>3, <1>5

LEMMA SendThenReadStep ==
  ASSUME Inv, SendThenRead
  PROVE  Inv'
PROOF
<1>. USE DEF Inv
<1>1. /\ Appl \in Task /\ task[Appl].pc = "idle" /\ task[Appl].kind = "appl"
      /\ Shape(Appl, task[Appl]) /\ task[Appl].chan = "CI_CLIB" /\ task[Appl].waiting = {}
  BY Places, InFront DEF SendThenRead, At, Shape
<1>2. /\ task' = [task EXCEPT ![Appl].pc = "count"] /\ queue' = Raised
      /\ UNCHANGED <<writer, busy, dev_cb, device, sent, due, frames>>
      /\ ~reader /\ reader' = TRUE /\ sigs' = {} /\ ~write_blocking["CI_CLIB"]
      /\ write_blocking' = [write_blocking EXCEPT !["CI_CLIB"] = TRUE]
  BY DEF SendThenRead
<1>3. Became(Appl, "appl", "CI_CLIB", "count", {}, task[Appl].received)
  BY <1>1, <1>2, Moved DEF pcs
<1>4. /\ \A j \in Task : j # Appl => task'[j] = task[j]
      /\ task'[Appl].kind = "appl" /\ task'[Appl].chan = "CI_CLIB"
      /\ task'[Appl].pc = "count"
      /\ task'[Appl].waiting = {} /\ task'[Appl].received = {}
      /\ task' \in [Task -> ItemType]
  BY <1>1, <1>3 DEF Became, Shape, Waits
<1>5. ListInv'
  <2>1. \A j \in Task : j # Appl /\ task[j].kind # None => task[j].kind = "read"
    BY <1>1, InFront DEF SendThenRead, At
  <2>. QED BY <1>1, <1>2, <1>4, <2>1, RaisedList
<1>6. ShapeInv'
  <2>1. Shape(Appl, task'[Appl])
    BY <1>4 DEF Shape, Waits, None
  <2>. QED BY <1>1, <1>4, <2>1, ShapeStep
<1>7. ScalarInv'
  BY <1>2 DEF ScalarInv, frames, Channel, Signals
<1>8. DevInv'
  BY <1>1, <1>2, <1>4 DEF DevInv
<1>9. \A j \in Task : j # Appl => Same(j, "CI_CLIB") /\ Same(j, "CI_HADP")
  BY <1>4, KeptSame DEF Kept
<1>10. ChanInv("CI_HADP")'
  <2>1. Same(Appl, "CI_HADP")
    BY <1>1, <1>4 DEF Same, Pending, Given, Counting, Reporting, Clearing
  <2>. QED BY <1>2, <1>9, <2>1, ChanFrame DEF ChansInv, ScalarInv, Channel
<1>11. ChanInv("CI_CLIB")'
  <2>1. /\ ~Pending(Appl, task[Appl], sigs, "CI_CLIB")
        /\ ~Pending(Appl, task'[Appl], sigs', "CI_CLIB")
        /\ ~Given(Appl, task[Appl], sigs, "CI_CLIB")
        /\ ~Given(Appl, task'[Appl], sigs', "CI_CLIB")
        /\ ~Reporting(task[Appl], "CI_CLIB") /\ ~Reporting(task'[Appl], "CI_CLIB")
        /\ ~Clearing(task[Appl], "CI_CLIB") /\ ~Clearing(task'[Appl], "CI_CLIB")
        /\ Counting(task'[Appl], "CI_CLIB")
    BY <1>1, <1>4 DEF Pending, Given, Counting, Reporting, Clearing, Sending, Sender
  <2>2. writer["CI_CLIB"] = NULL /\ writer' = writer /\ sent' = sent /\ device' = device
    BY <1>1, <1>2 DEF ApplInv
  <2>3. ChanAfter("CI_CLIB")
    BY <1>1, <1>9, <2>1, <2>2 DEF ChansInv, ChanInv, ChanAfter, Same
  <2>. QED BY <2>3, ChanPrime
<1>12. ApplInv'
  <2>1. ~Open
    BY <1>1 DEF Open, Waits
  <2>2. ~Waits(task'[Appl]) /\ ~Told(Appl, task'[Appl], "READCB", sigs')
    BY <1>4 DEF Waits, Told
  <2>3. \A j \in Task : ~Answering(task'[j])
    BY <1>4, <2>1 DEF ApplInv, Answering
  <2>4. writer' = writer /\ due' = due /\ device' = device
    BY <1>2
  <2>. QED BY <1>1, <1>2, <1>4, <2>1, <2>2, <2>3, <2>4 DEF ApplInv, Answering, Waits, Told
<1>. QED BY <1>5, <1>6, <1>7, <1>8, <1>10, <1>11, <1>12 DEF ChansInv

LEMMA SendStep ==
  ASSUME Inv, NEW i \in Task, Send(i)
  PROVE  Inv'
PROOF
<1>. USE DEF Inv
<1>1. /\ task[i].pc = "begin" /\ task[i].kind = "read" /\ task[i].chan = "CI_HADP"
      /\ Shape(i, task[i]) /\ task[i].waiting = {} /\ task[i].received = {}
      /\ i # Appl /\ task[i].kind # None
  BY InFront DEF Send, At, Chan, Shape, Waits
<1>2. UNCHANGED <<writer, reader, busy, dev_cb, device, sent, due, frames, sigs>>
  BY DEF Send
<1>3. Appl \in Task
  BY Places
<1>4. CASE write_blocking["CI_HADP"]
  <2>1. Ends(i) /\ UNCHANGED write_blocking
    BY <1>4 DEF Send
  <2>2. /\ ListInv' /\ ShapeInv'
        /\ \A j \in Task : j # i => task'[j] = task[j]
        /\ task'[i].kind = None /\ task'[i].pc = None
    BY <1>1, <2>1, Leaves
  <2>3. ASSUME NEW c \in {"CI_CLIB", "CI_HADP"} PROVE ChanInv(c)'
    <3>1. Same(i, c)
      BY <1>1, <2>2, NothingSame
    <3>2. \A j \in Task : Same(j, c)
      BY <1>2, <2>2, <3>1, KeptSame DEF Kept
    <3>. QED BY <1>2, <2>1, <3>2, ChanFrame DEF ChansInv, ScalarInv, Channel
  <2>4. ScalarInv' /\ DevInv'
    BY <1>1, <1>2, <2>1, <2>2 DEF ScalarInv, frames, DevInv, None
  <2>5. \A j \in Task : Answering(task'[j]) => Answering(task[j])
    BY <2>2 DEF Answering, None
  <2>6. ApplInv'
    BY <1>1, <1>2, <1>3, <2>1, <2>2, <2>5, ApplFrame
  <2>. QED BY <2>2, <2>3, <2>4, <2>6 DEF ChansInv
<1>5. CASE ~write_blocking["CI_HADP"]
  <2>1. /\ Goto(i, "count")
        /\ write_blocking' = [write_blocking EXCEPT !["CI_HADP"] = TRUE]
    BY <1>5 DEF Send
  <2>2. queue' = queue /\ Became(i, "read", "CI_HADP", "count", {}, {})
    BY <1>1, <2>1, Goes DEF pcs
  <2>3. /\ \A j \in Task : j # i => task'[j] = task[j]
        /\ task'[i].kind = "read" /\ task'[i].chan = "CI_HADP" /\ task'[i].pc = "count"
        /\ task'[i].waiting = {} /\ task'[i].received = {}
        /\ task' \in [Task -> ItemType]
    BY <2>2 DEF Became
  <2>4. ListInv'
    BY <1>1, <2>2, <2>3, SameList
  <2>5. ShapeInv'
    <3>1. Shape(i, task'[i])
      BY <1>1, <2>3 DEF Shape, Waits, None
    <3>. QED BY <2>3, <3>1, ShapeStep
  <2>6. ScalarInv' /\ DevInv'
    BY <1>1, <1>2, <2>1, <2>3 DEF ScalarInv, frames, DevInv, None, Channel
  <2>7. \A j \in Task : j # i => Same(j, "CI_CLIB") /\ Same(j, "CI_HADP")
    BY <1>2, <2>3, KeptSame DEF Kept
  <2>8. ChanInv("CI_CLIB")'
    <3>1. Same(i, "CI_CLIB")
      BY <1>1, <2>3, NothingSame
    <3>2. write_blocking'["CI_CLIB"] = write_blocking["CI_CLIB"]
      BY <2>1 DEF ScalarInv, Channel
    <3>. QED BY <1>2, <2>7, <3>1, <3>2, ChanFrame DEF ChansInv, ScalarInv, Channel
  <2>9. ChanInv("CI_HADP")'
    <3>1. /\ ~Pending(i, task[i], sigs, "CI_HADP")
          /\ ~Pending(i, task'[i], sigs', "CI_HADP")
          /\ ~Given(i, task[i], sigs, "CI_HADP") /\ ~Given(i, task'[i], sigs', "CI_HADP")
          /\ ~Reporting(task[i], "CI_HADP") /\ ~Reporting(task'[i], "CI_HADP")
          /\ ~Clearing(task[i], "CI_HADP") /\ ~Clearing(task'[i], "CI_HADP")
          /\ Counting(task'[i], "CI_HADP")
      BY <1>1, <2>3 DEF Pending, Given, Counting, Reporting, Clearing, Sending, Sender
    <3>2. writer' = writer /\ sent' = sent /\ device' = device
      BY <1>2
    <3>3. writer["CI_HADP"] \in Task \union {NULL}
      BY DEF ScalarInv, Channel
    <3>4. ChanAfter("CI_HADP")
      BY <2>7, <3>1, <3>2, <3>3 DEF ChansInv, ChanInv, ChanAfter, Same
    <3>. QED BY <3>4, ChanPrime
  <2>10. ApplInv'
    <3>1. \A j \in Task : Answering(task'[j]) => Answering(task[j])
      BY <1>1, <2>3 DEF Answering
    <3>2. write_blocking'["CI_CLIB"] = write_blocking["CI_CLIB"]
      BY <2>1 DEF ScalarInv, Channel
    <3>. QED BY <1>1, <1>2, <1>3, <2>3, <3>1, <3>2, ApplFrame
  <2>. QED BY <2>4, <2>5, <2>6, <2>8, <2>9, <2>10 DEF ChansInv
<1>. QED BY <1>4, <1>5

LEMMA CountStep ==
  ASSUME Inv, NEW i \in Task, Count(i)
  PROVE  Inv'
PROOF
<1>. USE DEF Inv
<1>0. PICK c \in Channel : task[i].chan = c
  BY InFront DEF Count, At, Shape, Channel, None
<1>. DEFINE d == IF c = "CI_CLIB" THEN "CI_HADP" ELSE "CI_CLIB"
<1>1. /\ task[i].pc = "count" /\ task[i].chan = c /\ Shape(i, task[i]) /\ task[i].kind # None
      /\ task[i].waiting = {} /\ task[i].received = {} /\ Sender(task[i])
      /\ \/ c = "CI_CLIB" /\ i = Appl /\ task[i].kind = "appl"
         \/ c = "CI_HADP" /\ i # Appl /\ task[i].kind = "read"
  BY <1>0, InFront DEF Count, At, Shape, Waits, Sender, None
<1>2. /\ UNCHANGED <<busy, dev_cb, device, due, number, packno, sigs>>
      /\ i = Appl => sigs = {} /\ writer["CI_CLIB"] = NULL
  BY <1>1 DEF Count, ApplInv, Waits
<1>3. Appl \in Task /\ c \in Channel /\ d \in Channel /\ c # d /\ d # "CI_PRIVATE"
  BY <1>1, Places DEF Channel
<1>4. writer[c] \in Task \union {NULL} /\ writer[d] \in Task \union {NULL}
  BY <1>3 DEF ScalarInv
<1>5. ChanInv(c) /\ ChanInv(d)
  BY <1>1 DEF ChansInv
<1>6. CASE writer[c] # NULL
  <2>1. /\ i # Appl /\ c = "CI_HADP" /\ d = "CI_CLIB" /\ task[i].kind = "read"
        /\ Ends(i) /\ UNCHANGED <<writer, currentFrame, sent>> /\ reader' = reader
        /\ write_blocking' = [write_blocking EXCEPT ![c] = FALSE]
    BY <1>1, <1>2, <1>6 DEF Count, Chan
  <2>2. /\ ListInv' /\ ShapeInv'
        /\ \A j \in Task : j # i => task'[j] = task[j]
        /\ task'[i].kind = None /\ task'[i].pc = None
    BY <1>1, <2>1, Leaves
  <2>3. \A j \in Task : j # i => Same(j, c) /\ Same(j, d)
    BY <1>2, <2>2, KeptSame DEF Kept
  <2>4. ~write_blocking'[c] /\ write_blocking'[d] = write_blocking[d]
    BY <1>3, <2>1 DEF ScalarInv
  <2>. HIDE DEF d
  <2>5. ChanInv(d)'
    <3>1. Same(i, d)
      BY <1>1, <1>3, <2>1, <2>2, NothingSame
    <3>. QED BY <1>2, <1>3, <1>4, <1>5, <2>1, <2>3, <2>4, <3>1, ChanFrame
  <2>6. ChanInv(c)'
    <3>1. /\ ~Pending(i, task[i], sigs, c) /\ ~Pending(i, task'[i], sigs', c)
          /\ ~Given(i, task[i], sigs, c) /\ ~Given(i, task'[i], sigs', c)
          /\ ~Reporting(task[i], c) /\ ~Reporting(task'[i], c)
          /\ ~Clearing(task[i], c) /\ ~Clearing(task'[i], c)
      BY <1>1, <2>2 DEF Pending, Given, Counting, Reporting, Clearing, Sending, Sender, None
    <3>2. writer' = writer /\ sent' = sent /\ device' = device
      BY <1>2, <2>1
    <3>3. ChanAfter(c)
      BY <1>4, <1>5, <2>3, <2>4, <3>1, <3>2 DEF ChanInv, ChanAfter, Same
    <3>. QED BY <3>3, ChanPrime
  <2>7. ScalarInv' /\ DevInv'
    BY <1>1, <1>2, <1>3, <2>1, <2>2 DEF ScalarInv, DevInv, None
  <2>8. ApplInv'
    <3>1. \A j \in Task : Answering(task'[j]) => Answering(task[j])
      BY <2>2 DEF Answering, None
    <3>. QED BY <1>2, <1>3, <2>1, <2>2, <2>4, <3>1, ApplFrame
  <2>. QED BY <2>1, <2>2, <2>5, <2>6, <2>7, <2>8 DEF ChansInv
<1>7. CASE writer[c] = NULL
  <2>1. /\ writer' = [writer EXCEPT ![c] = i]
        /\ currentFrame' = nextSEQ(currentFrame)
        /\ sent' = [sent EXCEPT ![c] = FALSE]
        /\ Goto(i, "number") /\ UNCHANGED <<write_blocking, reader>>
    BY <1>1, <1>7 DEF Count, Chan
  <2>2. queue' = queue /\ Became(i, task[i].kind, c, "number", {}, {})
    BY <1>1, <2>1, Goes DEF pcs
  <2>3. /\ \A j \in Task : j # i => task'[j] = task[j]
        /\ task'[i].kind = task[i].kind /\ task'[i].chan = c /\ task'[i].pc = "number"
        /\ task'[i].waiting = {} /\ task'[i].received = {}
        /\ task' \in [Task -> ItemType]
    BY <2>2 DEF Became
  <2>4. ListInv'
    BY <1>1, <2>2, <2>3, SameList
  <2>5. ShapeInv'
    <3>1. Shape(i, task'[i])
      BY <1>1, <2>3 DEF Shape, Waits, Sending, None
    <3>. QED BY <2>3, <3>1, ShapeStep
  <2>6. \A j \in Task : j # i => Same(j, c) /\ Same(j, d)
    BY <1>2, <2>3, KeptSame DEF Kept
  <2>7. /\ writer'[c] = i /\ writer'[d] = writer[d]
        /\ writer'["CI_PRIVATE"] = writer["CI_PRIVATE"]
        /\ ~sent'[c] /\ sent'[d] = sent[d]
    BY <1>1, <1>3, <2>1 DEF ScalarInv, Channel
  <2>8. ScalarInv'
    <3>1. currentFrame' \in 0 .. MAX_SEQ
      BY <2>1, ChannelsAssumption DEF ScalarInv, nextSEQ
    <3>. QED BY <1>2, <1>3, <2>1, <3>1 DEF ScalarInv
  <2>9. DevInv'
    BY <1>1, <1>2, <2>3 DEF DevInv
  <2>10. ChanInv(d)'
    <3>1. Same(i, d)
      BY <1>1, <1>3, <2>3 DEF Same, Pending, Given, Counting, Reporting, Clearing
    <3>. HIDE DEF d
    <3>. QED BY <1>2, <1>3, <1>4, <1>5, <2>1, <2>6, <2>7, <3>1, ChanFrame
  <2>11. ChanInv(c)'
    <3>. HIDE DEF d
    <3>1. /\ ~Pending(i, task[i], sigs, c) /\ Pending(i, task'[i], sigs', c)
          /\ ~Given(i, task[i], sigs, c) /\ ~Given(i, task'[i], sigs', c)
          /\ ~Reporting(task[i], c) /\ ~Reporting(task'[i], c)
          /\ ~Clearing(task[i], c) /\ ~Clearing(task'[i], c)
      BY <1>1, <2>3 DEF Pending, Given, Reporting, Clearing, Sending, Sender, Told, Waits
    <3>2. device' = device /\ write_blocking' = write_blocking
      BY <1>2, <2>1
    <3>3. i # NULL /\ NULL \notin Task
      BY Places
    <3>4. /\ \A j \in Task : ~Pending(j, task[j], sigs, c) /\ ~Given(j, task[j], sigs, c)
          /\ \A j \in Task : ~Reporting(task[j], c) /\ ~Clearing(task[j], c)
          /\ device # c
      BY <1>5, <1>7, <3>3 DEF ChanInv, Given
    <3>5. ChanAfter(c)
      BY <2>6, <2>7, <3>1, <3>2, <3>3, <3>4 DEF ChanAfter, Same
    <3>. QED BY <3>5, ChanPrime
  <2>12. ApplInv'
    <3>1. \A j \in Task : Answering(task'[j]) => Answering(task[j])
      BY <1>1, <2>3 DEF Answering
    <3>2. CASE i # Appl
      <4>1. c = "CI_HADP" /\ d = "CI_CLIB"
        BY <1>1, <3>2
      <4>. QED BY <1>2, <1>3, <2>1, <2>3, <2>7, <3>1, <3>2, <4>1, ApplFrame
    <3>3. CASE i = Appl
      <4>1. /\ ~Waits(task[Appl]) /\ ~Waits(task'[Appl]) /\ task[Appl].pc # "idle"
            /\ task'[Appl].pc = "number"
        BY <1>1, <2>3, <3>3 DEF Waits
      <4>2. ~Open /\ ~Open' /\ ~Told(Appl, task'[Appl], "READCB", sigs')
        BY <4>1 DEF Open, Told, Waits
      <4>. QED BY <1>2, <2>1, <2>7, <3>1, <3>3, <4>1, <4>2
           DEF ApplInv, Answering, Waits, Told
    <3>. QED BY <3>2, <3>3
  <2>. QED BY <1>1, <2>4, <2>5, <2>8, <2>9, <2>10, <2>11, <2>12 DEF ChansInv
<1>. QED BY <1>6, <1>7

LEMMA FillStep ==
  ASSUME Inv, NEW i \in Task, Fill(i)
  PROVE  Inv'
PROOF
<1>. USE DEF Inv
<1>0. PICK c \in Channel : task[i].chan = c
  BY InFront DEF Fill, At, Shape, Channel, None
<1>1. /\ task[i].pc = "fill" /\ task[i].chan = c /\ Shape(i, task[i]) /\ task[i].kind # None
      /\ task[i].waiting = {} /\ task[i].received = {} /\ Sender(task[i])
      /\ \/ c = "CI_CLIB" /\ i = Appl /\ task[i].kind = "appl"
         \/ c = "CI_HADP" /\ i # Appl /\ task[i].kind = "read"
         \/ c = "CI_PRIVATE" /\ i # Appl /\ task[i].kind = "read"
  BY <1>0, InFront DEF Fill, At, Shape, Waits, Sender, None
<1>2. /\ UNCHANGED <<channels, busy, sent, due, frames, sigs>>
      /\ dev_cb' = c /\ device' = c
      /\ i = Appl => sigs = {}
      /\ busy /\ device = None
  BY <1>1 DEF Fill, ApplInv, Waits, Chan, DevInv
<1>3. Appl \in Task /\ c \in Channel
  BY <1>1, Places DEF Channel
<1>4. ScalarInv'
  BY <1>2, <1>3 DEF ScalarInv, channels, frames
<1>5. CASE c = "CI_PRIVATE"
  <2>1. Ends(i) /\ i # Appl /\ task[i].kind = "read"
    BY <1>1, <1>5 DEF Fill, Chan
  <2>2. /\ ListInv' /\ ShapeInv'
        /\ \A j \in Task : j # i => task'[j] = task[j]
        /\ task'[i].kind = None /\ task'[i].pc = None
    BY <1>1, <2>1, Leaves
  <2>3. ASSUME NEW e \in {"CI_CLIB", "CI_HADP"} PROVE ChanInv(e)'
    <3>1. Same(i, e)
      BY <1>1, <1>5, <2>1, <2>2, NothingSame
    <3>2. \A j \in Task : Same(j, e)
      BY <1>2, <2>2, <3>1, KeptSame DEF Kept
    <3>3. device' # e /\ device # e
      BY <1>2, <1>5 DEF None
    <3>. QED BY <1>2, <3>2, <3>3, ChanFrame DEF ChansInv, ScalarInv, Channel, channels
  <2>4. DevInv'
    BY <1>1, <1>2, <2>2 DEF DevInv, None
  <2>5. ApplInv'
    <3>1. \A j \in Task : Answering(task'[j]) => Answering(task[j])
      BY <2>2 DEF Answering, None
    <3>2. device' # "CI_CLIB" /\ device # "CI_CLIB"
      BY <1>2, <1>5 DEF None
    <3>. QED BY <1>2, <1>3, <2>1, <2>2, <3>1, <3>2, ApplFrame DEF channels
  <2>. QED BY <1>4, <2>2, <2>3, <2>4, <2>5 DEF ChansInv
<1>6. CASE c # "CI_PRIVATE"
  <2>. DEFINE d == IF c = "CI_CLIB" THEN "CI_HADP" ELSE "CI_CLIB"
  <2>1. Goto(i, "wait")
    BY <1>1, <1>6 DEF Fill, Chan
  <2>2. queue' = queue /\ Became(i, task[i].kind, c, "wait", {}, {})
    BY <1>1, <2>1, Goes DEF pcs
  <2>3. /\ \A j \in Task : j # i => task'[j] = task[j]
        /\ task'[i].kind = task[i].kind /\ task'[i].chan = c /\ task'[i].pc = "wait"
        /\ task'[i].waiting = {} /\ task'[i].received = {}
        /\ task' \in [Task -> ItemType]
    BY <2>2 DEF Became
  <2>4. ListInv'
    BY <1>1, <2>2, <2>3, SameList
  <2>5. ShapeInv'
    <3>1. Shape(i, task'[i])
      BY <1>1, <1>6, <2>3 DEF Shape, Waits, Sending, None
    <3>. QED BY <2>3, <3>1, ShapeStep
  <2>6. DevInv'
    BY <1>1, <1>2, <2>3 DEF DevInv
  <2>7. c \in {"CI_CLIB", "CI_HADP"} /\ d \in {"CI_CLIB", "CI_HADP"} /\ c # d
    BY <1>1, <1>6
  <2>8. \A j \in Task : j # i => Same(j, c) /\ Same(j, d)
    BY <1>2, <2>3, KeptSame DEF Kept
  <2>9. /\ writer[c] \in Task \union {NULL} /\ writer[d] \in Task \union {NULL}
        /\ ChanInv(c) /\ ChanInv(d)
    BY <2>7 DEF ScalarInv, Channel, ChansInv
  <2>10. /\ writer' = writer /\ write_blocking' = write_blocking /\ reader' = reader
         /\ sent' = sent
    BY <1>2 DEF channels
  <2>11. ChanInv(d)'
    <3>1. Same(i, d)
      BY <1>1, <2>3, <2>7 DEF Same, Pending, Given, Counting, Reporting, Clearing
    <3>2. device # d /\ device' # d
      BY <1>2, <2>7 DEF None
    <3>. HIDE DEF d
    <3>. QED BY <2>7, <2>8, <2>9, <2>10, <3>1, <3>2, ChanFrame DEF Channel
  <2>12. ChanInv(c)'
    <3>. HIDE DEF d
    <3>1. /\ Pending(i, task[i], sigs, c) /\ Pending(i, task'[i], sigs', c)
          /\ ~Given(i, task[i], sigs, c) /\ Given(i, task'[i], sigs', c)
          /\ ~Reporting(task[i], c) /\ ~Reporting(task'[i], c)
          /\ ~Clearing(task[i], c) /\ ~Clearing(task'[i], c)
      BY <1>1, <1>2, <2>3 DEF Pending, Given, Reporting, Clearing, Sending, Sender, Told,
                              Waits
    <3>2. writer[c] = i /\ i # NULL
      BY <2>9, <3>1, Places DEF ChanInv
    <3>3. \A j \in Task : ~Reporting(task[j], c) /\ ~Clearing(task[j], c)
      BY <2>9, <3>1, <3>2 DEF ChanInv
    <3>4. device' = c
      BY <1>2
    <3>5. ChanAfter(c)
      BY <2>8, <2>9, <2>10, <3>1, <3>2, <3>3, <3>4 DEF ChanInv, ChanAfter, Same
    <3>. QED BY <3>5, ChanPrime
  <2>13. ApplInv'
    <3>1. \A j \in Task : Answering(task'[j]) => Answering(task[j])
      BY <1>1, <2>3 DEF Answering
    <3>2. CASE i # Appl
      <4>1. device' # "CI_CLIB" /\ device # "CI_CLIB"
        BY <1>1, <1>2, <3>2 DEF None
      <4>. QED BY <1>2, <1>3, <2>3, <2>10, <3>1, <3>2, <4>1, ApplFrame
    <3>3. CASE i = Appl
      <4>1. ~Waits(task[Appl]) /\ Waits(task'[Appl]) /\ task'[Appl].pc = "wait"
        BY <1>1, <2>3, <3>3 DEF Waits
      <4>2. ~Open /\ Open' /\ ~Told(Appl, task'[Appl], "READCB", sigs')
        BY <1>2, <2>3, <3>3, <4>1 DEF Open, Told, Waits
      <4>. QED BY <1>2, <2>10, <3>1, <3>3, <4>1, <4>2
           DEF ApplInv, Answering, Waits, Told
    <3>. QED BY <3>2, <3>3
  <2>. QED BY <1>4, <2>4, <2>5, <2>6, <2>7, <2>11, <2>12, <2>13 DEF ChansInv
<1>. QED BY <1>5, <1>6

(* A callback's task that has been told that its packet is sent returns.    *)
LEMMA SenderReturns ==
  ASSUME Inv, NEW i \in Task, i # Appl, task[i].kind = "read", Waits(task[i]),
         Told(i, task[i], "WRITECB", sigs), Ends(i),
         UNCHANGED <<channels, busy, dev_cb, device, sent, due, frames, sigs>>
  PROVE  Inv'
PROOF
<1>. USE DEF Inv
<1>1. task[i].kind # None /\ Appl \in Task
  BY Places DEF None
<1>2. /\ writer' = writer /\ write_blocking' = write_blocking /\ reader' = reader
  BY DEF channels
<1>3. /\ ListInv' /\ ShapeInv'
      /\ \A j \in Task : j # i => task'[j] = task[j]
      /\ task'[i].kind = None /\ task'[i].pc = None
  BY <1>1, Leaves
<1>4. ASSUME NEW c \in {"CI_CLIB", "CI_HADP"} PROVE ChanInv(c)'
  <2>1. Same(i, c)
    BY <1>3 DEF Same, Pending, Given, Counting, Reporting, Clearing, Sender, Waits, None
  <2>2. \A j \in Task : Same(j, c)
    BY <1>3, <2>1, KeptSame DEF Kept
  <2>. QED BY <1>2, <2>2, ChanFrame DEF ChansInv, ScalarInv, Channel
<1>5. ScalarInv' /\ DevInv'
  BY <1>2, <1>3 DEF ScalarInv, DevInv, frames, None
<1>6. ApplInv'
  <2>1. \A j \in Task : Answering(task'[j]) => Answering(task[j])
    BY <1>3 DEF Answering, None
  <2>. QED BY <1>1, <1>2, <1>3, <2>1, ApplFrame
<1>. QED BY <1>3, <1>4, <1>5, <1>6 DEF ChansInv

(* So does the application's call, as the task in front: all others are     *)
(* senders, and none of them clears its channel any more.                   *)
LEMMA CallReturned ==
  ASSUME Inv, Running(Appl), Waits(task[Appl]),
         Told(Appl, task[Appl], "WRITECB", sigs), Told(Appl, task[Appl], "READCB", sigs),
         \A j \in Task : j # Appl => task'[j] = task[j],
         task'[Appl].pc = "idle", task'[Appl].kind = "appl",
         UNCHANGED <<channels, busy, dev_cb, device, sent, due, frames>>
  PROVE  ChansInv' /\ ApplInv'
PROOF
<1>. USE DEF Inv
<1>1. /\ Appl \in Task /\ task[Appl].kind = "appl"
      /\ \A j \in Task : j # Appl /\ task[j].kind # None => task[j].kind = "read"
  BY Places, InFront DEF Shape
<1>2. /\ writer' = writer /\ write_blocking' = write_blocking /\ reader' = reader
  BY DEF channels
<1>3. ASSUME NEW c \in {"CI_CLIB", "CI_HADP"} PROVE ChanInv(c)'
  <2>1. Same(Appl, c)
    BY <1>1 DEF Same, Pending, Given, Counting, Reporting, Clearing, Sending, Waits
  <2>2. \A j \in Task : Same(j, c)
    BY <2>1, KeptSame DEF Kept
  <2>. QED BY <1>2, <2>2, ChanFrame DEF ChansInv, ScalarInv, Channel
<1>4. ApplInv'
  <2>1. ~Open /\ ~Waits(task'[Appl])
    BY DEF Open, Waits
  <2>2. ~reader
    BY DEF ApplInv
  <2>3. ASSUME NEW j \in Task
        PROVE  /\ ~Clearing(task[j], "CI_CLIB") /\ ~Counting(task[j], "CI_CLIB")
               /\ ~Pending(j, task[j], sigs, "CI_CLIB")
    <3>1. CASE j = Appl
      BY <1>1, <3>1 DEF Clearing, Counting, Pending, Waits
    <3>2. CASE j # Appl
      BY <1>1, <3>2, Fields DEF Clearing, Counting, Pending, Sending, Sender, Shape, None
    <3>. QED BY <3>1, <3>2
  <2>4. writer["CI_CLIB"] = NULL /\ ~write_blocking["CI_CLIB"]
    <3>1. writer["CI_CLIB"] \in Task \union {NULL}
      BY DEF ScalarInv, Channel
    <3>. QED BY <2>3, <3>1 DEF ChansInv, ChanInv
  <2>5. \A j \in Task : ~Answering(task'[j])
    <3>1. \A j \in Task : ~Answering(task[j])
      BY <2>1 DEF ApplInv
    <3>. QED BY <3>1 DEF Answering
  <2>. QED BY <1>2, <2>1, <2>2, <2>4, <2>5 DEF ApplInv, Answering, Told, Waits
<1>. QED BY <1>3, <1>4 DEF ChansInv

(* A return of Wait is nothing to the channels: who returns has been told   *)
(* before, or goes on waiting.                                              *)
LEMMA WaitStep ==
  ASSUME Inv, NEW i \in Task, Wait(i)
  PROVE  Inv'
PROOF
<1>. USE DEF Inv
<1>1. /\ task[i].pc = "wait" /\ Shape(i, task[i]) /\ task[i].kind # None
      /\ task[i].waiting = {} /\ task[i].received \subseteq Signals
      /\ Waits(task[i]) /\ Sender(task[i])
      /\ task[i].chan \in Channel /\ task[i].kind \in {"appl", "read", "write", None}
      /\ i = Appl => task[i].kind = "appl" /\ task[i].chan = "CI_CLIB"
      /\ i # Appl => task[i].kind = "read" /\ task[i].received \subseteq {"WRITECB"}
  BY InFront DEF Wait, At, Shape, Waits, Sender, None, Signals, Channel, Sending
<1>2. UNCHANGED <<channels, busy, dev_cb, device, sent, due, frames>>
  BY DEF Wait
<1>3. /\ writer' = writer /\ write_blocking' = write_blocking /\ reader' = reader
  BY <1>2 DEF channels
<1>4. Appl \in Task
  BY Places
<1>5. CASE WaitsFor(i) \intersect task[i].received = {}
  <2>. DEFINE x == [task[i] EXCEPT !.pc = "asleep", !.waiting = WaitsFor(i)]
  <2>1. task' = [task EXCEPT ![i] = x] /\ UNCHANGED <<queue, sigs>>
    <3>1. task[i] \in ItemType /\ task \in [Task -> ItemType]
      BY DEF ShapeInv
    <3>. QED BY <1>5, <3>1 DEF Wait
  <2>2. /\ x \in ItemType /\ x.kind = task[i].kind /\ x.chan = task[i].chan
        /\ x.pc = "asleep" /\ x.waiting = WaitsFor(i) /\ x.received = task[i].received
    <3>1. task[i] \in ItemType
      BY DEF ShapeInv
    <3>2. WaitsFor(i) \in SUBSET Signals /\ "asleep" \in pcs
      BY DEF WaitsFor, Signals, pcs
    <3>. QED BY <3>1, <3>2 DEF ItemType
  <2>3. task[i].received = {}
    BY <1>1, <1>5 DEF WaitsFor
  <2>. HIDE DEF x
  <2>4. Became(i, x.kind, x.chan, x.pc, x.waiting, x.received)
    BY <2>1, <2>2, Replaced
  <2>5. /\ \A j \in Task : j # i => task'[j] = task[j]
        /\ task'[i].kind = task[i].kind /\ task'[i].chan = task[i].chan
        /\ task'[i].pc = "asleep"
        /\ task'[i].waiting = WaitsFor(i) /\ task'[i].received = {}
        /\ task' \in [Task -> ItemType]
    BY <2>2, <2>3, <2>4 DEF Became
  <2>6. ListInv'
    BY <2>1, <2>5, SameList
  <2>7. ShapeInv'
    <3>1. Shape(i, task'[i])
      BY <1>1, <2>5 DEF Shape, Waits, Sending, WaitsFor, None
    <3>. QED BY <2>5, <3>1, ShapeStep
  <2>8. ScalarInv' /\ DevInv'
    BY <1>1, <1>2, <1>3, <2>1, <2>5 DEF ScalarInv, DevInv, frames
  <2>9. ASSUME NEW c \in {"CI_CLIB", "CI_HADP"} PROVE ChanInv(c)'
    <3>1. Told(i, task'[i], "WRITECB", sigs') <=> Told(i, task[i], "WRITECB", sigs)
      BY <1>1, <2>1, <2>3, <2>5 DEF Told, Waits, WaitsFor, Signals
    <3>2. Same(i, c)
      BY <1>1, <2>5, <3>1 DEF Same, Pending, Given, Counting, Reporting, Clearing, Waits,
                              Sender, Sending
    <3>3. \A j \in Task : Same(j, c)
      BY <2>1, <2>5, <3>2, KeptSame DEF Kept
    <3>. QED BY <1>2, <1>3, <3>3, ChanFrame DEF ChansInv, ScalarInv, Channel
  <2>10. ApplInv'
    <3>1. \A j \in Task : Answering(task'[j]) => Answering(task[j])
      BY <1>1, <2>5 DEF Answering
    <3>2. CASE i # Appl
      BY <1>2, <1>3, <1>4, <2>1, <2>5, <3>1, <3>2, ApplFrame
    <3>3. CASE i = Appl
      <4>1. Told(i, task'[i], "READCB", sigs') <=> Told(i, task[i], "READCB", sigs)
        BY <1>1, <2>1, <2>3, <2>5, <3>3 DEF Told, Waits, WaitsFor, Signals
      <4>2. Waits(task'[i]) /\ task'[i].pc = "asleep"
        BY <2>5 DEF Waits
      <4>3. Open' <=> Open
        BY <1>1, <3>3, <4>1, <4>2 DEF Open, Told, Waits
      <4>. QED BY <1>1, <1>2, <1>3, <3>1, <3>3, <4>1, <4>2, <4>3
           DEF ApplInv, Answering, Waits, Told
    <3>. QED BY <3>2, <3>3
  <2>. QED BY <2>6, <2>7, <2>8, <2>9, <2>10 DEF ChansInv
<1>6. CASE WaitsFor(i) \intersect task[i].received # {} /\ i # Appl
  <2>1. "WRITECB" \in task[i].received
    BY <1>6 DEF WaitsFor
  <2>2. WaitsFor(i) \intersect task[i].received = WaitsFor(i) /\ Returned(i, WaitsFor(i))
    BY <1>6, <2>1 DEF Wait, WaitsFor
  <2>3. Ends(i) /\ sigs' = sigs
    BY <1>6, <2>2 DEF Returned
  <2>4. Told(i, task[i], "WRITECB", sigs)
    BY <1>1, <2>1 DEF Told
  <2>. QED BY <1>1, <1>2, <1>6, <2>3, <2>4, SenderReturns
<1>7. CASE WaitsFor(i) \intersect task[i].received # {} /\ i = Appl
  <2>. DEFINE come == task[Appl].received
  <2>1. WaitsFor(i) \intersect task[i].received = come /\ Returned(Appl, come)
    BY <1>1, <1>7 DEF Wait, WaitsFor, Signals
  <2>. DEFINE pc == IF sigs \union come = Signals THEN "idle" ELSE "wait"
              x == [task[Appl] EXCEPT !.pc = pc, !.received = {}]
  <2>2. /\ sigs' = sigs \union come /\ task' = [task EXCEPT ![Appl] = x]
        /\ queue' = IF pc = "idle" THEN Lowered ELSE queue
    <3>1. come \ come = {}
      OBVIOUS
    <3>2. task[Appl] \in ItemType /\ task \in [Task -> ItemType]
      BY <1>4 DEF ShapeInv
    <3>. HIDE DEF come
    <3>3. sigs' = sigs \union come
      BY <2>1 DEF Returned
    <3>4. CASE sigs \union come = Signals
      <4>1. queue' = Lowered
            /\ task' = [task EXCEPT ![Appl].pc = "idle", ![Appl].received = @ \ come]
        BY <2>1, <3>4 DEF Returned, WaitsFor
      <4>. QED BY <3>1, <3>2, <3>3, <3>4, <4>1 DEF come
    <3>5. CASE sigs \union come # Signals
      <4>1. queue' = queue
            /\ task' = [task EXCEPT ![Appl].pc = "wait", ![Appl].received = @ \ come]
        BY <2>1, <3>5 DEF Returned, WaitsFor
      <4>. QED BY <3>1, <3>2, <3>3, <3>5, <4>1 DEF come
    <3>. QED BY <3>4, <3>5
  <2>3. /\ x \in ItemType /\ x.kind = task[i].kind /\ x.chan = task[i].chan
        /\ x.pc = pc /\ x.waiting = task[i].waiting /\ x.received = {}
    <3>1. task[i] \in ItemType
      BY DEF ShapeInv
    <3>2. pc \in pcs
      BY DEF pcs
    <3>. HIDE DEF pc
    <3>. QED BY <1>7, <3>1, <3>2 DEF ItemType
  <2>. HIDE DEF x
  <2>4. Became(i, x.kind, x.chan, x.pc, x.waiting, x.received)
    BY <1>7, <2>2, <2>3, Replaced
  <2>5. /\ \A j \in Task : j # i => task'[j] = task[j]
        /\ task'[i].kind = "appl" /\ task'[i].chan = "CI_CLIB"
        /\ task'[i].pc = pc
        /\ task'[i].waiting = {} /\ task'[i].received = {}
        /\ task' \in [Task -> ItemType]
    BY <1>1, <1>7, <2>3, <2>4 DEF Became
  <2>6. ListInv'
    <3>1. task[Appl].kind = "appl" /\ \A j \in Task : task'[j].kind = task[j].kind
      BY <1>1, <1>7, <2>5
    <3>2. CASE pc = "idle"
      BY <2>2, <3>1, <3>2, LoweredList
    <3>3. CASE pc # "idle"
      BY <2>2, <3>1, <3>3, SameList
    <3>. QED BY <3>2, <3>3
  <2>7. ShapeInv'
    <3>1. Shape(i, task'[i])
      BY <1>1, <1>7, <2>5 DEF Shape, Waits, Sending, None
    <3>. QED BY <2>5, <3>1, ShapeStep
  <2>8. ScalarInv' /\ DevInv'
    <3>1. sigs' \subseteq Signals
      BY <1>1, <1>7, <2>2 DEF ScalarInv
    <3>. QED BY <1>1, <1>2, <1>3, <2>5, <3>1 DEF ScalarInv, DevInv, frames
  <2>9. /\ Told(i, task[i], "WRITECB", sigs) <=> "WRITECB" \in sigs'
        /\ Told(i, task[i], "READCB", sigs) <=> "READCB" \in sigs'
    BY <1>1, <1>7, <2>2 DEF Told
  <2>10. CASE pc = "idle"
    <3>1. sigs' = Signals
      BY <2>2, <2>10
    <3>2. Told(i, task[i], "WRITECB", sigs) /\ Told(i, task[i], "READCB", sigs)
      BY <2>9, <3>1 DEF Signals
    <3>3. Running(Appl)
      BY <1>7 DEF Wait, At
    <3>4. ChansInv' /\ ApplInv'
      BY <1>1, <1>2, <1>7, <2>5, <2>10, <3>2, <3>3, CallReturned
    <3>. QED BY <2>6, <2>7, <2>8, <3>4
  <2>11. CASE pc = "wait"
    <3>1. /\ Told(i, task[i], "WRITECB", sigs) <=> Told(i, task'[i], "WRITECB", sigs')
          /\ Told(i, task[i], "READCB", sigs) <=> Told(i, task'[i], "READCB", sigs')
          /\ Waits(task'[i])
      BY <1>7, <2>5, <2>9, <2>11 DEF Told, Waits
    <3>2. ASSUME NEW c \in {"CI_CLIB", "CI_HADP"} PROVE ChanInv(c)'
      <4>1. Same(i, c)
        BY <1>1, <1>7, <2>5, <2>11, <3>1
           DEF Same, Pending, Given, Counting, Reporting, Clearing, Sending, Sender
      <4>2. \A j \in Task : Same(j, c)
        BY <1>7, <2>5, <4>1, KeptSame DEF Kept
      <4>. QED BY <1>2, <1>3, <4>2, ChanFrame DEF ChansInv, ScalarInv, Channel
    <3>3. ApplInv'
      <4>1. \A j \in Task : Answering(task'[j]) => Answering(task[j])
        BY <1>1, <1>7, <2>5 DEF Answering
      <4>2. Open' <=> Open
        BY <1>1, <1>7, <3>1 DEF Open
      <4>. QED BY <1>1, <1>2, <1>3, <1>7, <2>5, <2>11, <3>1, <4>1, <4>2
           DEF ApplInv, Answering, Waits, Told
    <3>. QED BY <2>6, <2>7, <2>8, <3>2, <3>3 DEF ChansInv
  <2>. QED BY <2>10, <2>11
<1>. QED BY <1>5, <1>6, <1>7

LEMMA WakeStep ==
  ASSUME Inv, NEW i \in Task, Wake(i)
  PROVE  Inv'
PROOF
<1>. USE DEF Inv
<1>1. /\ task[i].pc = "asleep" /\ Shape(i, task[i]) /\ task[i].waiting = {}
      /\ task[i].received \subseteq Signals /\ Waits(task[i])
      /\ i = Appl => task[i].kind = "appl" /\ task[i].chan = "CI_CLIB"
      /\ i # Appl => task[i].kind = "read"
  BY InFront DEF Wake, At, Shape, Waits, None, Sending
<1>2. /\ UNCHANGED <<channels, busy, dev_cb, device, sent, due, frames>>
      /\ Returned(i, WaitsFor(i)) /\ Running(i)
  BY DEF Wake, At
<1>3. Told(i, task[i], "WRITECB", sigs) /\ Told(i, task[i], "READCB", sigs)
  BY <1>1 DEF Told
<1>4. CASE i # Appl
  <2>1. Ends(i) /\ sigs' = sigs
    BY <1>2, <1>4 DEF Returned
  <2>. QED BY <1>1, <1>2, <1>3, <1>4, <2>1, SenderReturns
<1>5. CASE i = Appl
  <2>1. sigs \union Signals = Signals /\ WaitsFor(i) = Signals
    BY <1>5 DEF WaitsFor, ScalarInv
  <2>. DEFINE x == [task[i] EXCEPT !.pc = "idle", !.received = {}]
  <2>2. sigs' = Signals /\ queue' = Lowered /\ task' = [task EXCEPT ![i] = x]
    <3>1. task[i] \in ItemType /\ task \in [Task -> ItemType]
      BY DEF ShapeInv
    <3>2. task[i].received \ Signals = {}
      BY <1>1
    <3>3. /\ sigs' = Signals /\ queue' = Lowered
          /\ task' = [task EXCEPT ![i].pc = "idle", ![i].received = @ \ Signals]
      BY <1>2, <1>5, <2>1 DEF Returned
    <3>. QED BY <3>1, <3>2, <3>3
  <2>3. /\ x \in ItemType /\ x.kind = task[i].kind /\ x.chan = task[i].chan
        /\ x.pc = "idle" /\ x.waiting = task[i].waiting /\ x.received = {}
    <3>1. task[i] \in ItemType /\ "idle" \in pcs
      BY DEF ShapeInv, pcs
    <3>. QED BY <3>1 DEF ItemType
  <2>. HIDE DEF x
  <2>4. Became(i, x.kind, x.chan, x.pc, x.waiting, x.received)
    BY <2>2, <2>3, Replaced
  <2>5. /\ \A j \in Task : j # i => task'[j] = task[j]
        /\ task'[i].kind = "appl" /\ task'[i].chan = "CI_CLIB"
        /\ task'[i].pc = "idle"
        /\ task'[i].waiting = {} /\ task'[i].received = {}
        /\ task' \in [Task -> ItemType]
    BY <1>1, <1>5, <2>3, <2>4 DEF Became
  <2>6. ListInv'
    BY <1>1, <1>5, <2>2, <2>5, LoweredList
  <2>7. ShapeInv'
    <3>1. Shape(i, task'[i])
      BY <1>5, <2>5 DEF Shape, Waits, Sending, None
    <3>. QED BY <2>5, <3>1, ShapeStep
  <2>8. ScalarInv' /\ DevInv'
    BY <1>1, <1>2, <2>2, <2>5 DEF ScalarInv, DevInv, frames, channels
  <2>9. ChansInv' /\ ApplInv'
    BY <1>1, <1>2, <1>3, <1>5, <2>5, CallReturned
  <2>. QED BY <2>6, <2>7, <2>8, <2>9
<1>. QED BY <1>4, <1>5

LEMMA SignalledFields ==
  ASSUME NEW x \in ItemType, NEW e \in Signals
  PROVE  LET y == Signalled(x, e) IN
           /\ y \in ItemType /\ y.kind = x.kind /\ y.chan = x.chan /\ y.pc = x.pc
           /\ y.waiting = x.waiting \ {e}
           /\ y.received = IF x.waiting # {} THEN x.received ELSE x.received \union {e}
PROOF BY DEF Signalled, ItemType

(* The writer is told; the channel keeps it until it is cleared.            *)
LEMMA write_callbackStep ==
  ASSUME Inv, NEW i \in Task, write_callback(i)
  PROVE  Inv'
PROOF
<1>. USE DEF Inv
<1>0. PICK c \in Channel : task[i].chan = c
  BY InFront DEF write_callback, At, Shape, Channel, None
<1>1. /\ task[i].pc = "begin" /\ task[i].kind = "write" /\ task[i].chan = c
      /\ Shape(i, task[i]) /\ task[i].waiting = {} /\ task[i].received = {}
      /\ i # Appl /\ task[i].kind # None
  BY <1>0, InFront DEF write_callback, At, Shape, Waits, None
<1>2. UNCHANGED <<writer, reader, busy, dev_cb, device, sent, due, frames, sigs>>
  BY DEF write_callback
<1>3. Appl \in Task
  BY Places
<1>4. CASE c = "CI_PRIVATE" \/ writer[c] = NULL
  <2>1. Ends(i) /\ UNCHANGED write_blocking
    BY <1>1, <1>4 DEF write_callback, Chan
  <2>2. c = "CI_PRIVATE"
    <3>1. Reporting(task[i], c)
      BY <1>1 DEF Reporting
    <3>2. c # "CI_PRIVATE" => writer[c] # NULL
      BY <3>1 DEF ChansInv, ChanInv, Channel
    <3>. QED BY <1>4, <3>2
  <2>3. /\ ListInv' /\ ShapeInv'
        /\ \A j \in Task : j # i => task'[j] = task[j]
        /\ task'[i].kind = None /\ task'[i].pc = None
    BY <1>1, <2>1, Leaves
  <2>4. ASSUME NEW e \in {"CI_CLIB", "CI_HADP"} PROVE ChanInv(e)'
    <3>1. Same(i, e)
      BY <1>1, <2>2, <2>3, NothingSame
    <3>2. \A j \in Task : Same(j, e)
      BY <1>2, <2>3, <3>1, KeptSame DEF Kept
    <3>. QED BY <1>2, <2>1, <3>2, ChanFrame DEF ChansInv, ScalarInv, Channel
  <2>5. ScalarInv' /\ DevInv'
    BY <1>1, <1>2, <2>1, <2>3 DEF ScalarInv, frames, DevInv, None
  <2>6. ApplInv'
    <3>1. \A j \in Task : Answering(task'[j]) => Answering(task[j])
      BY <2>3 DEF Answering, None
    <3>. QED BY <1>1, <1>2, <1>3, <2>1, <2>3, <3>1, ApplFrame
  <2>. QED BY <2>3, <2>4, <2>5, <2>6 DEF ChansInv
<1>5. CASE c # "CI_PRIVATE" /\ writer[c] # NULL
  <2>. DEFINE d == IF c = "CI_CLIB" THEN "CI_HADP" ELSE "CI_CLIB"
  <2>1. PICK w \in Task : writer[c] = w
    BY <1>5 DEF ScalarInv
  <2>2. /\ c \in {"CI_CLIB", "CI_HADP"} /\ d \in {"CI_CLIB", "CI_HADP"} /\ c # d
        /\ ChanInv(c) /\ ChanInv(d)
    BY <1>5 DEF Channel, ChansInv
  <2>3. /\ queue' = queue
        /\ write_blocking' = [write_blocking EXCEPT ![c] = FALSE]
        /\ task' = [task EXCEPT ![w] = Signalled(@, "WRITECB"), ![i].pc = "clear"]
    BY <1>1, <1>5, <2>1 DEF write_callback, Chan
  <2>. HIDE DEF d
  <2>4. Reporting(task[i], c) /\ Given(w, task[w], sigs, c)
    <3>1. Reporting(task[i], c)
      BY <1>1 DEF Reporting
    <3>. QED BY <2>1, <2>2, <3>1 DEF ChanInv
  <2>5. /\ w # i /\ task[w] \in ItemType /\ Shape(w, task[w]) /\ Waits(task[w])
        /\ task[w].chan = c /\ Sender(task[w]) /\ ~Told(w, task[w], "WRITECB", sigs)
    BY <1>1, <2>4, Fields DEF Given, Pending, Sender
  <2>. DEFINE y == Signalled(task[w], "WRITECB")
              x == [task[i] EXCEPT !.pc = "clear"]
  <2>6. /\ y \in ItemType /\ y.kind = task[w].kind /\ y.chan = c /\ y.pc = task[w].pc
        /\ y.waiting = task[w].waiting \ {"WRITECB"}
        /\ y.received = IF task[w].waiting # {} THEN task[w].received
                        ELSE task[w].received \union {"WRITECB"}
    BY <2>5, SignalledFields DEF Signals
  <2>7. /\ x \in ItemType /\ x.kind = "write" /\ x.chan = c /\ x.pc = "clear"
        /\ x.waiting = {} /\ x.received = {}
    <3>1. task[i] \in ItemType /\ "clear" \in pcs
      BY DEF ShapeInv, pcs
    <3>. QED BY <1>1, <3>1 DEF ItemType
  <2>8. /\ task' \in [Task -> ItemType] /\ task'[w] = y /\ task'[i] = x
        /\ \A j \in Task : j # i /\ j # w => task'[j] = task[j]
    <3>1. task \in [Task -> ItemType]
      BY DEF ShapeInv
    <3>2. task' = [task EXCEPT ![w] = y, ![i] = x]
      BY <2>3, <2>5, <3>1
    <3>. HIDE DEF x, y
    <3>. QED BY <2>5, <2>6, <2>7, <3>1, <3>2
  <2>. HIDE DEF x, y
  <2>9. \A j \in Task : task'[j].kind = task[j].kind
    BY <1>1, <2>6, <2>7, <2>8
  <2>10. ListInv'
    BY <2>3, <2>9, SameList
  <2>11. Told(w, y, "WRITECB", sigs)
    BY <2>5, <2>6 DEF Told, Waits, Shape
  <2>12. Shape(w, y) /\ Shape(i, x) /\ Waits(y)
    <3>1. Shape(i, x)
      BY <1>1, <2>2, <2>7 DEF Shape, Waits, None
    <3>2. Waits(y)
      BY <2>5, <2>6 DEF Waits
    <3>3. Shape(w, y)
      BY <2>5, <2>6, <3>2 DEF Shape, Waits, Sending, Sender, None
    <3>. QED BY <3>1, <3>2, <3>3
  <2>13. ShapeInv'
    <3>1. \A j \in Task : Shape(j, task'[j])
      BY <2>8, <2>12 DEF ShapeInv
    <3>2. ShapeInv' <=> task' \in [Task -> ItemType] /\ \A j \in Task : Shape(j, task'[j])
      BY DEF ShapeInv, Shape, Waits, Sending
    <3>. QED BY <2>8, <3>1, <3>2
  <2>14. ~write_blocking'[c] /\ write_blocking'[d] = write_blocking[d] /\ ScalarInv'
    BY <1>2, <2>2, <2>3 DEF ScalarInv, frames, Channel
  <2>15. DevInv'
    <3>1. \A j \in Task : task'[j].pc = "fill" => task[j].pc = "fill"
      BY <2>6, <2>7, <2>8
    <3>. QED BY <1>2, <3>1 DEF DevInv
  <2>16. \A j \in Task : j # i /\ j # w => Same(j, c) /\ Same(j, d)
    BY <1>2, <2>8, KeptSame DEF Kept
  <2>17. ChanInv(d)'
    <3>1. Same(i, d) /\ Same(w, d)
      BY <1>1, <2>2, <2>5, <2>6, <2>7, <2>8
         DEF Same, Pending, Given, Counting, Reporting, Clearing
    <3>2. \A j \in Task : Same(j, d)
      BY <2>16, <3>1
    <3>3. writer[d] \in Task \union {NULL} /\ d \in Channel
      BY <2>2 DEF ScalarInv, Channel
    <3>. QED BY <1>2, <2>2, <2>14, <3>2, <3>3, ChanFrame
  <2>18. ChanInv(c)'
    <3>1. /\ ~Pending(i, task[i], sigs, c) /\ ~Pending(i, task'[i], sigs', c)
          /\ ~Given(i, task[i], sigs, c) /\ ~Given(i, task'[i], sigs', c)
          /\ ~Reporting(task'[i], c) /\ Clearing(task'[i], c)
      BY <1>1, <2>7, <2>8 DEF Pending, Given, Reporting, Clearing, Sender
    <3>2. /\ ~Pending(w, task'[w], sigs', c) /\ ~Given(w, task'[w], sigs', c)
          /\ ~Reporting(task'[w], c) /\ ~Clearing(task'[w], c)
      BY <1>2, <2>5, <2>6, <2>8, <2>11 DEF Pending, Given, Reporting, Clearing, Sender
    <3>3. /\ \A j \in Task : j # w => ~Pending(j, task[j], sigs, c)
          /\ \A j \in Task : j # i => ~Reporting(task[j], c)
          /\ \A j \in Task : ~Clearing(task[j], c)
          /\ sent[c] /\ device # c
      BY <2>1, <2>2, <2>4 DEF ChanInv
    <3>4. /\ \A j \in Task : ~Pending(j, task'[j], sigs', c)
          /\ \A j \in Task : ~Given(j, task'[j], sigs', c)
          /\ \A j \in Task : ~Reporting(task'[j], c)
          /\ \A j \in Task : Clearing(task'[j], c) <=> j = i
      <4>1. \A j \in Task : ~Given(j, task'[j], sigs', c) \/ Pending(j, task'[j], sigs', c)
        BY DEF Given
      <4>. QED BY <2>16, <3>1, <3>2, <3>3, <4>1 DEF Same
    <3>5. writer' = writer /\ sent' = sent /\ device' = device
      BY <1>2
    <3>6. ChanAfter(c)
      BY <1>5, <2>14, <3>3, <3>4, <3>5 DEF ChanAfter
    <3>. QED BY <3>6, ChanPrime
  <2>19. ApplInv'
    <3>1. \A j \in Task : Answering(task'[j]) => Answering(task[j])
      BY <2>5, <2>6, <2>7, <2>8, <2>9 DEF Answering
    <3>2. write_blocking'["CI_CLIB"] => write_blocking["CI_CLIB"]
      BY <2>3 DEF ScalarInv, Channel
    <3>3. CASE w # Appl
      BY <1>1, <1>2, <1>3, <2>8, <3>1, <3>2, <3>3, ApplFrame
    <3>4. CASE w = Appl
      <4>1. /\ Waits(task'[Appl]) /\ task'[Appl].pc = task[Appl].pc
            /\ Told(Appl, task'[Appl], "READCB", sigs')
                 <=> Told(Appl, task[Appl], "READCB", sigs)
        BY <1>2, <2>5, <2>6, <2>8, <2>12, <3>4 DEF Told, Waits
      <4>2. Open' <=> Open
        BY <2>5, <3>4, <4>1 DEF Open
      <4>. QED BY <1>2, <2>5, <3>1, <3>2, <3>4, <4>1, <4>2
           DEF ApplInv, Answering, Told, Waits
    <3>. QED BY <3>3, <3>4
  <2>. QED BY <2>2, <2>10, <2>13, <2>14, <2>15, <2>17, <2>18, <2>19 DEF ChansInv
<1>. QED BY <1>4, <1>5

LEMMA CleanupStep ==
  ASSUME Inv, NEW i \in Task, Cleanup(i)
  PROVE  Inv'
PROOF
<1>. USE DEF Inv
<1>0. PICK c \in {"CI_CLIB", "CI_HADP"} : task[i].chan = c
  BY InFront DEF Cleanup, At, Shape, None, Sending
<1>1. /\ task[i].pc = "clear" /\ task[i].kind = "write" /\ task[i].chan = c
      /\ i # Appl /\ task[i].kind # None
  BY <1>0, InFront DEF Cleanup, At, Shape, None, Sending
<1>2. /\ UNCHANGED <<write_blocking, reader, busy, dev_cb, device, sent, due, frames, sigs>>
      /\ writer' = [writer EXCEPT ![c] = NULL] /\ Ends(i)
  BY <1>1 DEF Cleanup, Chan
<1>. DEFINE d == IF c = "CI_CLIB" THEN "CI_HADP" ELSE "CI_CLIB"
<1>3. /\ Appl \in Task /\ d \in {"CI_CLIB", "CI_HADP"} /\ c # d
      /\ ChanInv(c) /\ ChanInv(d)
  BY Places DEF ChansInv
<1>. HIDE DEF d
<1>4. /\ ListInv' /\ ShapeInv'
      /\ \A j \in Task : j # i => task'[j] = task[j]
      /\ task'[i].kind = None /\ task'[i].pc = None
  BY <1>1, <1>2, Leaves
<1>5. ScalarInv' /\ DevInv'
  BY <1>1, <1>2, <1>4 DEF ScalarInv, frames, DevInv, None, Channel
<1>6. \A j \in Task : j # i => Same(j, c) /\ Same(j, d)
  BY <1>2, <1>4, KeptSame DEF Kept
<1>7. /\ writer'[c] = NULL /\ writer'[d] = writer[d]
      /\ writer'["CI_PRIVATE"] = writer["CI_PRIVATE"]
  BY <1>2, <1>3 DEF ScalarInv, Channel
<1>8. ChanInv(d)'
  <2>1. Same(i, d)
    BY <1>1, <1>3, <1>4, NothingSame
  <2>2. \A j \in Task : Same(j, d)
    BY <1>6, <2>1
  <2>3. writer[d] \in Task \union {NULL} /\ d \in Channel
    BY <1>3 DEF ScalarInv, Channel
  <2>. QED BY <1>2, <1>3, <1>7, <2>2, <2>3, ChanFrame
<1>9. ChanInv(c)'
  <2>1. Clearing(task[i], c)
    BY <1>1 DEF Clearing
  <2>2. /\ \A j \in Task : ~Pending(j, task[j], sigs, c)
        /\ \A j \in Task : ~Reporting(task[j], c)
        /\ \A j \in Task : j # i => ~Clearing(task[j], c)
        /\ device # c
    BY <1>3, <2>1 DEF ChanInv
  <2>3. /\ ~Pending(i, task'[i], sigs', c) /\ ~Reporting(task'[i], c)
        /\ ~Clearing(task'[i], c) /\ ~Counting(task[i], c)
    BY <1>1, <1>4 DEF Pending, Reporting, Clearing, Sender, Counting, None
  <2>4. /\ \A j \in Task : ~Pending(j, task'[j], sigs', c)
        /\ \A j \in Task : ~Given(j, task'[j], sigs', c)
        /\ \A j \in Task : ~Reporting(task'[j], c) /\ ~Clearing(task'[j], c)
        /\ \A j \in Task : Counting(task[j], c) => Counting(task'[j], c)
    <3>1. \A j \in Task : ~Given(j, task'[j], sigs', c) \/ Pending(j, task'[j], sigs', c)
      BY DEF Given
    <3>. QED BY <1>6, <2>2, <2>3, <3>1 DEF Same
  <2>5. write_blocking'[c] => \E j \in Task : Counting(task[j], c)
    BY <1>2, <1>3, <2>2 DEF ChanInv
  <2>6. device' # c
    BY <1>2, <2>2
  <2>7. ChanAfter(c)
    BY <1>7, <2>4, <2>5, <2>6 DEF ChanAfter
  <2>. QED BY <2>7, ChanPrime
<1>10. ApplInv'
  <2>1. \A j \in Task : Answering(task'[j]) => Answering(task[j])
    BY <1>4 DEF Answering, None
  <2>2. task'[Appl] = task[Appl] /\ sigs' = sigs
    BY <1>1, <1>2, <1>3, <1>4
  <2>3. Open' <=> Open
    BY <2>2 DEF Open, Told, Waits
  <2>4. writer["CI_CLIB"] = NULL => writer'["CI_CLIB"] = NULL
    BY <1>3, <1>7
  <2>. QED BY <1>2, <1>7, <2>1, <2>2, <2>3, <2>4 DEF ApplInv, Answering, Told, Waits
<1>. QED BY <1>3, <1>4, <1>5, <1>8, <1>9, <1>10 DEF ChansInv

(* The answer has come, and no other is on its way.                         *)
LEMMA read_unblock_callbackStep ==
  ASSUME Inv, NEW i \in Task, read_unblock_callback(i)
  PROVE  Inv'
PROOF
<1>. USE DEF Inv
<1>1. /\ task[i].pc = "begin" /\ task[i].kind = "read" /\ task[i].chan = "CI_CLIB"
      /\ i # Appl /\ task[i].kind # None
  BY InFront DEF read_unblock_callback, At, Chan, Shape, None
<1>2. /\ UNCHANGED <<writer, write_blocking, busy, dev_cb, device, sent, due, frames, sigs>>
      /\ reader' = FALSE /\ queue' = RemoveFirst(queue, i)
      /\ task' = [task EXCEPT ![Appl] = Signalled(@, "READCB"),
                              ![i] = Item(None, None, None)]
  BY DEF read_unblock_callback
<1>3. Appl \in Task
  BY Places
<1>4. /\ Open /\ "CI_CLIB" \notin due /\ device # "CI_CLIB"
      /\ \A j \in Task : j # i => ~Answering(task[j])
  <2>1. Answering(task[i])
    BY <1>1 DEF Answering
  <2>. QED BY <2>1 DEF ApplInv
<1>5. /\ task[Appl] \in ItemType /\ Shape(Appl, task[Appl]) /\ Waits(task[Appl])
      /\ ~Told(Appl, task[Appl], "READCB", sigs)
      /\ task[Appl].kind = "appl" /\ task[Appl].chan = "CI_CLIB"
  BY <1>3, <1>4, Fields DEF Open, Shape
<1>. DEFINE y == Signalled(task[Appl], "READCB")
            x == Item(None, None, None)
<1>6. /\ y \in ItemType /\ y.kind = "appl" /\ y.chan = "CI_CLIB" /\ y.pc = task[Appl].pc
      /\ y.waiting = task[Appl].waiting \ {"READCB"}
      /\ y.received = IF task[Appl].waiting # {} THEN task[Appl].received
                      ELSE task[Appl].received \union {"READCB"}
  BY <1>5, SignalledFields DEF Signals
<1>7. /\ x \in ItemType /\ x.kind = None /\ x.chan = None /\ x.pc = None
      /\ x.waiting = {} /\ x.received = {}
  BY ItemFields DEF pcs
<1>8. /\ task' \in [Task -> ItemType] /\ task'[Appl] = y /\ task'[i] = x
      /\ \A j \in Task : j # i /\ j # Appl => task'[j] = task[j]
  <2>1. task \in [Task -> ItemType]
    BY DEF ShapeInv
  <2>2. task' = [task EXCEPT ![Appl] = y, ![i] = x]
    BY <1>2, <1>3, <2>1
  <2>. HIDE DEF x, y
  <2>. QED BY <1>1, <1>3, <1>6, <1>7, <2>1, <2>2
<1>. HIDE DEF x, y
<1>9. ListInv'
  <2>1. \A j \in Task : j # i => task'[j].kind = task[j].kind
    BY <1>5, <1>6, <1>8
  <2>2. task'[i].kind = None
    BY <1>7, <1>8
  <2>. QED BY <1>1, <1>2, <2>1, <2>2, ShorterList
<1>10. /\ Waits(y) /\ Told(Appl, y, "READCB", sigs)
       /\ Told(Appl, y, "WRITECB", sigs) <=> Told(Appl, task[Appl], "WRITECB", sigs)
  <2>1. Waits(y)
    BY <1>5, <1>6 DEF Waits
  <2>2. Told(Appl, y, "READCB", sigs)
    BY <1>5, <1>6, <2>1 DEF Told, Waits, Shape
  <2>3. Told(Appl, y, "WRITECB", sigs) <=> Told(Appl, task[Appl], "WRITECB", sigs)
    BY <1>5, <1>6, <2>1 DEF Told
  <2>. QED BY <2>1, <2>2, <2>3
<1>11. ShapeInv'
  <2>1. Shape(i, x)
    BY <1>1, <1>7 DEF Shape, None
  <2>2. Shape(Appl, y)
    BY <1>5, <1>6, <1>10 DEF Shape, Waits, Sending, None
  <2>3. \A j \in Task : Shape(j, task'[j])
    BY <1>8, <2>1, <2>2 DEF ShapeInv
  <2>4. ShapeInv' <=> task' \in [Task -> ItemType] /\ \A j \in Task : Shape(j, task'[j])
    BY DEF ShapeInv, Shape, Waits, Sending
  <2>. QED BY <1>8, <2>3, <2>4
<1>12. ScalarInv' /\ DevInv'
  <2>1. \A j \in Task : task'[j].pc = "fill" => task[j].pc = "fill"
    BY <1>6, <1>7, <1>8 DEF None
  <2>. QED BY <1>2, <2>1 DEF ScalarInv, frames, DevInv
<1>13. ASSUME NEW c \in {"CI_CLIB", "CI_HADP"} PROVE ChanInv(c)'
  <2>1. Same(i, c)
    BY <1>1, <1>7, <1>8, NothingSame
  <2>2. Sending(y) /\ Sending(task[Appl]) /\ Sender(y) /\ Sender(task[Appl])
    BY <1>5, <1>6, <1>10 DEF Sending, Sender, Waits
  <2>3. Same(Appl, c)
    BY <1>2, <1>5, <1>6, <1>8, <1>10, <2>2
       DEF Same, Pending, Given, Counting, Reporting, Clearing, Waits
  <2>4. \A j \in Task : Same(j, c)
    BY <1>2, <1>8, <2>1, <2>3, KeptSame DEF Kept
  <2>. QED BY <1>2, <2>4, ChanFrame DEF ChansInv, ScalarInv, Channel
<1>14. ApplInv'
  <2>1. \A j \in Task : ~Answering(task'[j])
    BY <1>4, <1>6, <1>7, <1>8 DEF Answering, None
  <2>2. Waits(task'[Appl])
    BY <1>8, <1>10
  <2>. QED BY <1>2, <1>4, <2>1, <2>2 DEF ApplInv, Answering, Waits
<1>. QED BY <1>9, <1>11, <1>12, <1>13, <1>14 DEF ChansInv

(* A callback is queued.                                                    *)
LEMMA Arrives ==
  ASSUME Inv, NEW kind \in {"read", "write"}, NEW chan \in Channel,
         Angel_QueueCallback(kind, chan)
  PROVE  /\ ListInv' /\ ShapeInv' /\ task'[Appl] = task[Appl]
         /\ \E i \in Task :
              /\ i # Appl /\ task[i].kind = None /\ task[i].pc = None
              /\ \A j \in Task : j # i => task'[j] = task[j]
              /\ task'[i].kind = kind /\ task'[i].chan = chan /\ task'[i].pc = "begin"
PROOF
<1>1. PICK i \in Task : /\ task[i].kind = None /\ queue' = <<i>> \o queue
                        /\ Became(i, kind, chan, "begin", {}, {})
  BY Queued DEF Inv
<1>2. /\ \A j \in Task : j # i => task'[j] = task[j]
      /\ task'[i].kind = kind /\ task'[i].chan = chan /\ task'[i].pc = "begin"
      /\ task'[i].waiting = {} /\ task'[i].received = {}
      /\ task' \in [Task -> ItemType]
  BY <1>1 DEF Became
<1>3. i # Appl /\ task[i].pc = None
  BY <1>1, Fields DEF Shape, Inv, None
<1>4. ListInv'
  BY <1>1, <1>2, <1>3, LongerList DEF Inv, None
<1>5. Shape(i, task'[i])
  BY <1>2, <1>3 DEF Shape, Waits, None, Channel
<1>6. ShapeInv'
  BY <1>2, <1>5, ShapeStep DEF Inv
<1>7. task'[Appl] = task[Appl]
  BY <1>2, <1>3, Places
<1>. QED BY <1>1, <1>2, <1>3, <1>4, <1>6, <1>7

LEMMA SentPacketStep ==
  ASSUME Inv, angel_DD_SentPacket
  PROVE  Inv'
PROOF
<1>. USE DEF Inv
<1>1. PICK c \in Channel : device = c /\ dev_cb = c
  BY DEF angel_DD_SentPacket, ScalarInv, DevInv
<1>2. /\ UNCHANGED <<channels, dev_cb, frames, sigs>>
      /\ sent' = [sent EXCEPT ![c] = TRUE] /\ due' = due \union {c}
      /\ device' = None /\ busy' = FALSE
      /\ Angel_QueueCallback("write", c)
  BY <1>1 DEF angel_DD_SentPacket
<1>3. ListInv' /\ ShapeInv' /\ task'[Appl] = task[Appl] /\ Appl \in Task
  BY <1>2, Arrives, Places
<1>4. PICK i \in Task :
        /\ i # Appl /\ task[i].kind = None /\ task[i].pc = None
        /\ \A j \in Task : j # i => task'[j] = task[j]
        /\ task'[i].kind = "write" /\ task'[i].chan = c /\ task'[i].pc = "begin"
  BY <1>2, Arrives
<1>5. /\ writer' = writer /\ write_blocking' = write_blocking /\ reader' = reader
  BY <1>2 DEF channels
<1>6. ScalarInv' /\ DevInv'
  <2>1. \A j \in Task : task'[j].pc # "fill"
    BY <1>1, <1>4 DEF DevInv, None, Channel
  <2>. QED BY <1>2, <1>5, <2>1 DEF ScalarInv, frames, DevInv
<1>7. ASSUME NEW e \in {"CI_CLIB", "CI_HADP"} PROVE ChanInv(e)'
  <2>1. /\ \A j \in Task : j # i => Same(j, e)
        /\ ChanInv(e) /\ e \in Channel /\ writer[e] \in Task \union {NULL}
    BY <1>2, <1>4, KeptSame DEF Kept, ChansInv, ScalarInv, Channel
  <2>2. CASE e # c
    <3>1. Same(i, e)
      BY <1>4, <2>2, NothingSame
    <3>2. device # e /\ device' # e /\ sent'[e] = sent[e]
      BY <1>1, <1>2, <2>1, <2>2 DEF ScalarInv, Channel, None
    <3>. QED BY <1>5, <2>1, <3>1, <3>2, ChanFrame
  <2>3. CASE e = c
    <3>1. /\ ~Pending(i, task[i], sigs, c) /\ ~Pending(i, task'[i], sigs', c)
          /\ ~Given(i, task[i], sigs, c) /\ ~Given(i, task'[i], sigs', c)
          /\ ~Clearing(task[i], c) /\ ~Clearing(task'[i], c)
          /\ Reporting(task'[i], c) /\ ~Counting(task[i], c)
      BY <1>4 DEF Pending, Given, Counting, Reporting, Clearing, Sender, None
    <3>2. /\ writer[c] # NULL /\ Given(writer[c], task[writer[c]], sigs, c)
          /\ \A j \in Task : ~Reporting(task[j], c) /\ ~Clearing(task[j], c)
      BY <1>1, <2>1, <2>3 DEF ChanInv
    <3>3. device' # c /\ sent'[c]
      BY <1>2 DEF ScalarInv, Channel, None
    <3>4. writer[c] \in Task /\ writer[c] # i
      BY <2>1, <2>3, <3>1, <3>2
    <3>5. ChanAfter(c)
      BY <1>5, <2>1, <2>3, <3>1, <3>2, <3>3, <3>4 DEF ChanInv, ChanAfter, Same
    <3>. QED BY <2>3, <3>5, ChanPrime
  <2>. QED BY <2>2, <2>3
<1>8. ApplInv'
  <2>1. Open' <=> Open
    BY <1>2, <1>3 DEF Open, Waits, Told
  <2>2. \A j \in Task : Answering(task'[j]) => Answering(task[j])
    BY <1>4 DEF Answering
  <2>3. device' # "CI_CLIB" /\ ("CI_CLIB" \in due' => "CI_CLIB" \in due \/ device = "CI_CLIB")
    BY <1>1, <1>2 DEF None
  <2>. QED BY <1>2, <1>3, <1>5, <2>1, <2>2, <2>3 DEF ApplInv, Answering, Told, Waits
<1>. QED BY <1>3, <1>6, <1>7, <1>8 DEF ChansInv

LEMMA GotPacketStep ==
  ASSUME Inv, NEW c \in Channel, angel_DD_GotPacket(c)
  PROVE  Inv'
PROOF
<1>. USE DEF Inv
<1>1. /\ UNCHANGED <<channels, busy, dev_cb, device, sent, frames, sigs>>
      /\ c \in due /\ due' = due \ {c} /\ Angel_QueueCallback("read", c)
  BY DEF angel_DD_GotPacket
<1>2. ListInv' /\ ShapeInv' /\ task'[Appl] = task[Appl] /\ Appl \in Task
  BY <1>1, Arrives, Places
<1>3. PICK i \in Task :
        /\ i # Appl /\ task[i].kind = None /\ task[i].pc = None
        /\ \A j \in Task : j # i => task'[j] = task[j]
        /\ task'[i].kind = "read" /\ task'[i].chan = c /\ task'[i].pc = "begin"
  BY <1>1, Arrives
<1>4. /\ writer' = writer /\ write_blocking' = write_blocking /\ reader' = reader
  BY <1>1 DEF channels
<1>5. ScalarInv' /\ DevInv'
  <2>1. \A j \in Task : task'[j].pc = "fill" => task[j].pc = "fill"
    BY <1>3
  <2>2. \A j, k \in Task : task'[j].pc = "fill" /\ task'[k].pc = "fill" => j = k
    BY <1>3, <2>1 DEF DevInv
  <2>. QED BY <1>1, <1>4, <2>1, <2>2 DEF ScalarInv, frames, DevInv
<1>6. ASSUME NEW e \in {"CI_CLIB", "CI_HADP"} PROVE ChanInv(e)'
  <2>1. Same(i, e)
    BY <1>3, NothingSame
  <2>2. \A j \in Task : Same(j, e)
    BY <1>1, <1>3, <2>1, KeptSame DEF Kept
  <2>. QED BY <1>1, <1>4, <2>2, ChanFrame DEF ChansInv, ScalarInv, Channel
<1>7. ApplInv'
  <2>1. Open' <=> Open
    BY <1>1, <1>2 DEF Open, Waits, Told
  <2>2. CASE c # "CI_CLIB"
    <3>1. \A j \in Task : Answering(task'[j]) => Answering(task[j])
      BY <1>3, <2>2 DEF Answering
    <3>2. "CI_CLIB" \in due' <=> "CI_CLIB" \in due
      BY <1>1, <2>2
    <3>. QED BY <1>1, <1>2, <1>4, <3>1, <3>2, ApplFrame
  <2>3. CASE c = "CI_CLIB"
    <3>1. /\ Open /\ device # "CI_CLIB" /\ "CI_CLIB" \notin due'
          /\ \A j \in Task : ~Answering(task[j])
      BY <1>1, <2>3 DEF ApplInv
    <3>2. \A j \in Task : Answering(task'[j]) => j = i
      BY <1>3, <3>1
    <3>. QED BY <1>1, <1>2, <1>4, <2>1, <3>1, <3>2 DEF ApplInv, Told, Waits, Answering
  <2>. QED BY <2>2, <2>3
<1>. QED BY <1>2, <1>5, <1>6, <1>7 DEF ChansInv

-----------------------------------------------------------------------------
LEMMA InitInv == ASSUME Init PROVE Inv
PROOF
<1>1. Appl \in Task /\ NULL \notin Task
  BY Places
<1>2. /\ \A i \in Task : /\ task[i].waiting = {} /\ task[i].received = {}
                         /\ i = Appl => task[i].kind = "appl" /\ task[i].chan = "CI_CLIB"
                                        /\ task[i].pc = "idle"
                         /\ i # Appl => task[i].kind = None /\ task[i].chan = None
                                        /\ task[i].pc = None
      /\ task \in [Task -> ItemType]
  <2>. DEFINE a == Item("appl", "CI_CLIB", "idle")
              n == Item(None, None, None)
  <2>1. /\ a \in ItemType /\ a.kind = "appl" /\ a.chan = "CI_CLIB" /\ a.pc = "idle"
        /\ a.waiting = {} /\ a.received = {}
    BY ItemFields DEF pcs, Channel
  <2>2. /\ n \in ItemType /\ n.kind = None /\ n.chan = None /\ n.pc = None
        /\ n.waiting = {} /\ n.received = {}
    BY ItemFields DEF pcs
  <2>3. task = [i \in Task |-> IF i = Appl THEN a ELSE n]
    BY DEF Init
  <2>. HIDE DEF a, n
  <2>. QED BY <2>1, <2>2, <2>3
<1>3. ListInv
  <2>1. queue = <<Appl>>
    BY DEF Init
  <2>2. /\ queue \in Seq(Task) /\ Len(queue) = 1 /\ queue[1] = Appl
    BY <1>1, <2>1
  <2>3. \A i \in Task : task[i].kind # None <=> i = Appl
    BY <1>2 DEF None
  <2>4. Once(queue) /\ \A i \in Task : In(queue, i) <=> i = Appl
    BY <2>2 DEF Once, In
  <2>5. \A i \in Task : ~Before(queue, Appl, i)
    BY <2>2 DEF Before
  <2>. QED BY <2>3, <2>4, <2>5 DEF ListInv
<1>4. ShapeInv
  BY <1>2 DEF ShapeInv, Shape, Waits, Sending, None
<1>5. ScalarInv
  <2>1. /\ writer \in [Channel -> Task \union {NULL}]
        /\ write_blocking \in [Channel -> BOOLEAN] /\ sent \in [Channel -> BOOLEAN]
    BY DEF Init
  <2>2. 0 \in 0 .. MAX_SEQ
    BY ChannelsAssumption
  <2>3. /\ currentFrame \in 0 .. MAX_SEQ
        /\ number \in [Channel -> 0 .. MAX_SEQ] /\ packno \in [Channel -> 0 .. MAX_SEQ]
    BY <2>2 DEF Init
  <2>4. /\ due \subseteq Channel /\ sigs \subseteq Signals
        /\ reader \in BOOLEAN /\ busy \in BOOLEAN
        /\ dev_cb \in Channel \union {None} /\ device \in Channel \union {None}
    BY DEF Init, Channel
  <2>. QED BY <2>1, <2>3, <2>4 DEF ScalarInv
<1>6. DevInv
  BY <1>2 DEF Init, DevInv, None
<1>7. ASSUME NEW c \in {"CI_CLIB", "CI_HADP"} PROVE ChanInv(c)
  <2>1. \A i \in Task : /\ ~Pending(i, task[i], sigs, c) /\ ~Given(i, task[i], sigs, c)
                        /\ ~Reporting(task[i], c) /\ ~Clearing(task[i], c)
    BY <1>2 DEF Pending, Given, Reporting, Clearing, Sending, None
  <2>2. writer[c] = NULL /\ ~write_blocking[c] /\ device # c
    BY DEF Init, Channel, None
  <2>. QED BY <2>1, <2>2 DEF ChanInv
<1>8. ApplInv
  <2>1. \A i \in Task : ~Answering(task[i])
    BY <1>2 DEF Answering, None
  <2>2. ~Waits(task[Appl]) /\ task[Appl].pc = "idle"
    BY <1>1, <1>2 DEF Waits
  <2>. QED BY <1>1, <2>1, <2>2 DEF Init, ApplInv, Told, Channel, None
<1>. QED BY <1>3, <1>4, <1>5, <1>6, <1>7, <1>8 DEF Inv, ChansInv

LEMMA NextInv == ASSUME Inv, [Next]_vars PROVE Inv'
PROOF
<1>1. CASE SendThenRead
  BY <1>1, SendThenReadStep
<1>2. ASSUME NEW i \in Task, Step(i) PROVE Inv'
  <2>1. CASE Send(i)
    BY <2>1, SendStep
  <2>2. CASE Count(i)
    BY <2>2, CountStep
  <2>3. CASE Number(i)
    BY <2>3, NumberStep
  <2>4. CASE Store(i)
    BY <2>4, StoreStep
  <2>5. CASE SendHeartbeatAck(i)
    BY <2>5, SendHeartbeatAckStep
  <2>6. CASE Claim(i)
    BY <2>6, ClaimStep
  <2>7. CASE Fill(i)
    BY <2>7, FillStep
  <2>8. CASE Wait(i)
    BY <2>8, WaitStep
  <2>9. CASE Wake(i)
    BY <2>9, WakeStep
  <2>10. CASE write_callback(i)
    BY <2>10, write_callbackStep
  <2>11. CASE Cleanup(i)
    BY <2>11, CleanupStep
  <2>12. CASE read_unblock_callback(i)
    BY <2>12, read_unblock_callbackStep
  <2>. QED BY <1>2, <2>1, <2>2, <2>3, <2>4, <2>5, <2>6, <2>7, <2>8, <2>9, <2>10, <2>11,
              <2>12 DEF Step
<1>3. CASE angel_DD_SentPacket
  BY <1>3, SentPacketStep
<1>4. ASSUME NEW c \in Channel, angel_DD_GotPacket(c) PROVE Inv'
  BY <1>4, GotPacketStep
<1>5. CASE UNCHANGED vars
  <2>1. ListInv' /\ ScalarInv' /\ DevInv'
    BY <1>5, SameList DEF vars, Inv, ScalarInv, DevInv
  <2>2. ShapeInv'
    BY <1>5 DEF vars, Inv, ShapeInv, Shape, Waits, Sending
  <2>3. \A j, c : Same(j, c)
    BY <1>5 DEF vars, Same
  <2>4. ASSUME NEW c \in {"CI_CLIB", "CI_HADP"} PROVE ChanInv(c)'
    BY <1>5, <2>3, ChanFrame DEF vars, Inv, ChansInv, ScalarInv, Channel
  <2>5. ApplInv'
    BY <1>5, Places, ApplFrame DEF vars, Inv
  <2>. QED BY <2>1, <2>2, <2>4, <2>5 DEF Inv, ChansInv
<1>. QED BY <1>1, <1>2, <1>3, <1>4, <1>5 DEF Next

LEMMA Invariance == Spec => []Inv
PROOF
<1>1. Init => Inv
  BY InitInv
<1>2. Inv /\ [Next]_vars => Inv'
  BY NextInv
<1>. QED BY <1>1, <1>2, PTL DEF Spec

-----------------------------------------------------------------------------
(* No variable leaves its range; the list holds the live tasks, each once.  *)
THEOREM TypeCorrect == Spec => []TypeOK
PROOF
<1>1. ASSUME Inv PROVE TypeOK
  <2>1. DOMAIN queue = 1 .. Len(queue)
    BY <1>1 DEF Inv, ListInv, Once
  <2>2. \A i \in Task : i \in Live <=> In(queue, i)
    BY <2>1 DEF Live, ToSet, In
  <2>3. Appl \in Live
    BY <1>1, <2>2, Places, Fields DEF Inv, ListInv, Shape, None
  <2>4. task \in [Task -> [kind : {"appl", "read", "write", None},
                           chan : Channel \union {None}, pc : pcs,
                           waiting : SUBSET Signals, received : SUBSET Signals]]
    BY <1>1 DEF Inv, ShapeInv, ItemType
  <2>5. queue \in Seq(Task) /\ \A j, k \in DOMAIN queue : queue[j] = queue[k] => j = k
    BY <1>1, <2>1 DEF Inv, ListInv, Once
  <2>6. \A i \in Task : i \in Live <=> task[i].kind # None
    BY <1>1, <2>2 DEF Inv, ListInv
  <2>7. ScalarInv
    BY <1>1 DEF Inv
  <2>. QED BY <2>3, <2>4, <2>5, <2>6, <2>7 DEF TypeOK, ScalarInv
<1>. QED BY <1>1, Invariance, PTL

(* A sender in Wait has its packet in the device, or it has left, and       *)
(* write_callback tells it of the end only when it has left.                *)
THEOREM SentWhenToldHolds == Spec => []SentWhenTold
PROOF
<1>1. ASSUME Inv PROVE SentWhenTold
  <2>1. SUFFICES ASSUME NEW c \in Channel, writer[c] # NULL
                 PROVE  /\ task[writer[c]].pc \in {"wait", "asleep"} => device = c \/ sent[c]
                        /\ \/ "WRITECB" \in task[writer[c]].received
                           \/ /\ task[writer[c]].pc = "asleep"
                              /\ "WRITECB" \notin task[writer[c]].waiting
                           => sent[c]
    BY DEF SentWhenTold
  <2>2. /\ c \in {"CI_CLIB", "CI_HADP"} /\ ChanInv(c) /\ writer[c] \in Task
    BY <1>1, <2>1 DEF Inv, ApplInv, ChansInv, Channel, ScalarInv
  <2>3. CASE \E j \in Task : Clearing(task[j], c)
    BY <2>2, <2>3 DEF ChanInv
  <2>4. CASE Pending(writer[c], task[writer[c]], sigs, c)
    <3>1. Shape(writer[c], task[writer[c]])
      BY <1>1, <2>2 DEF Inv, ShapeInv
    <3>2. ~Told(writer[c], task[writer[c]], "WRITECB", sigs)
      BY <2>4 DEF Pending
    <3>3. Waits(task[writer[c]]) => Given(writer[c], task[writer[c]], sigs, c)
      BY <2>4 DEF Given
    <3>. QED BY <2>2, <3>1, <3>2, <3>3 DEF ChanInv, Told, Waits, Shape
  <2>. QED BY <2>1, <2>2, <2>3, <2>4 DEF ChanInv
<1>. QED BY <1>1, Invariance, PTL

(* A live task has a kind.                                                  *)
LEMMA LiveTasks ==
  ASSUME Inv, NEW i \in Task
  PROVE  i \in Live <=> task[i].kind # None
PROOF BY DEF Inv, ListInv, Once, In, Live, ToSet

(* A channel's chan_state.writer is the live task that asked, until         *)
(* write_callback has signalled it.                                         *)
THEOREM WriterAliveHolds == Spec => []WriterAlive
PROOF
<1>1. ASSUME Inv PROVE WriterAlive
  <2>1. SUFFICES ASSUME NEW c \in Channel, writer[c] # NULL
                 PROVE  \/ \E i \in Live : task[i].pc = "clear" /\ Chan(i) = c
                        \/ /\ writer[c] \in Live
                           /\ Chan(writer[c]) = c
                           /\ task[writer[c]].pc \in {"number", "store", "claim", "fill",
                                                      "wait", "asleep"}
    BY DEF WriterAlive
  <2>2. /\ c \in {"CI_CLIB", "CI_HADP"} /\ ChanInv(c) /\ writer[c] \in Task
    BY <1>1, <2>1 DEF Inv, ApplInv, ChansInv, Channel, ScalarInv
  <2>3. CASE \E j \in Task : Clearing(task[j], c)
    <3>1. PICK j \in Task : Clearing(task[j], c)
      BY <2>3
    <3>2. j \in Live
      BY <1>1, <3>1, LiveTasks DEF Clearing, None
    <3>. QED BY <3>1, <3>2 DEF Clearing, Chan
  <2>4. CASE Pending(writer[c], task[writer[c]], sigs, c)
    <3>1. writer[c] \in Live
      BY <1>1, <2>2, <2>4, LiveTasks DEF Pending, Sender, None
    <3>. QED BY <2>4, <3>1 DEF Pending, Sending, Chan
  <2>. QED BY <2>1, <2>2, <2>3, <2>4 DEF ChanInv
<1>. QED BY <1>1, Invariance, PTL

(* When SendThenRead has returned, the application's channel is free for    *)
(* the next call: angel_ChannelSendAsync will not refuse it.                *)
THEOREM FreeWhenIdleHolds == Spec => []FreeWhenIdle
PROOF
<1>1. ASSUME Inv PROVE FreeWhenIdle
  BY <1>1 DEF Inv, ApplInv, FreeWhenIdle
<1>. QED BY <1>1, Invariance, PTL

(* Only a callback's own step ends it.                                      *)
LEMMA EndsItself ==
  ASSUME Inv, [Next]_vars, NEW i \in Task, task[i].kind = "read", task'[i].kind = None
  PROVE  Step(i)
PROOF
<1>. USE DEF Inv
<1>1. ASSUME NEW k \in Task, Step(k), k # i PROVE FALSE
  <2>1. task \in [Task -> ItemType] /\ Appl \in Task
    BY Places DEF ShapeInv
  <2>2. ASSUME NEW pc, Goto(k, pc) PROVE FALSE
    BY <1>1, <2>1, <2>2 DEF Goto, None
  <2>3. ASSUME Ends(k) PROVE FALSE
    BY <1>1, <2>1, <2>3 DEF Ends, None
  <2>4. ASSUME NEW s, Returned(k, s) PROVE FALSE
    <3>1. CASE Ends(k)
      BY <2>3, <3>1
    <3>2. CASE ~Ends(k)
      <4>1. task'[i] = task[i]
        BY <1>1, <2>1, <2>4, <3>2 DEF Returned
      <4>. QED BY <4>1 DEF None
    <3>. QED BY <3>1, <3>2
  <2>5. CASE Wait(k)
    BY <1>1, <2>1, <2>4, <2>5 DEF Wait, None
  <2>6. CASE Wake(k)
    BY <2>4, <2>6 DEF Wake
  <2>7. CASE write_callback(k)
    <3>1. CASE Ends(k)
      BY <2>3, <3>1
    <3>2. CASE ~Ends(k)
      <4>1. task' = [task EXCEPT ![writer[task[k].chan]] = Signalled(@, "WRITECB"),
                                 ![k].pc = "clear"]
        BY <2>7, <3>2 DEF write_callback, Chan
      <4>2. task[i] \in ItemType
        BY <2>1
      <4>3. Signalled(task[i], "WRITECB").kind = task[i].kind
        BY <4>2, SignalledFields DEF Signals
      <4>4. task'[i] = task[i] \/ task'[i] = Signalled(task[i], "WRITECB")
        BY <1>1, <2>1, <4>1
      <4>. QED BY <4>3, <4>4 DEF None
    <3>. QED BY <3>1, <3>2
  <2>8. CASE read_unblock_callback(k)
    <3>1. i # Appl
      BY Fields DEF Shape
    <3>2. task'[i] = task[i]
      BY <1>1, <2>1, <2>8, <3>1 DEF read_unblock_callback
    <3>. QED BY <3>2 DEF None
  <2>9. CASE Send(k) \/ Count(k) \/ Number(k) \/ Store(k) \/ SendHeartbeatAck(k) \/ Claim(k)
             \/ Fill(k) \/ Cleanup(k)
    BY <2>2, <2>3, <2>9
       DEF Send, Count, Number, Store, SendHeartbeatAck, Claim, Fill, Cleanup
  <2>. QED BY <1>1, <2>5, <2>6, <2>7, <2>8, <2>9 DEF Step
<1>2. CASE SendThenRead
  BY <1>2 DEF SendThenRead, ShapeInv, None
<1>3. ASSUME NEW kind \in {"read", "write"}, NEW c \in Channel,
             Angel_QueueCallback(kind, c)
      PROVE  FALSE
  BY <1>3, Arrives DEF None
<1>4. CASE angel_DD_SentPacket
  <2>1. dev_cb \in Channel
    BY <1>4 DEF angel_DD_SentPacket, ScalarInv, DevInv
  <2>. QED BY <1>3, <1>4, <2>1 DEF angel_DD_SentPacket
<1>5. ASSUME NEW c \in Channel, angel_DD_GotPacket(c) PROVE FALSE
  BY <1>3, <1>5 DEF angel_DD_GotPacket
<1>6. CASE UNCHANGED vars
  BY <1>6 DEF vars, None
<1>. QED BY <1>1, <1>2, <1>4, <1>5, <1>6 DEF Next

(* angel_ChannelSend throws a reply of the debug agent away only while      *)
(* another packet or completion of its channel is on its way.               *)
THEOREM DroppedOnlyWhenBusyHolds == Spec => DroppedOnlyWhenBusy
PROOF
<1>. DEFINE A == \A i \in Task :
                   i \in Live /\ Chan(i) = "CI_HADP" /\ task[i].pc \in {"begin", "count"}
                     /\ task[i].kind = "read" /\ task'[i].kind = None
                   => \E j \in Live : j # i /\ Chan(j) = "CI_HADP"
<1>1. ASSUME Inv, [Next]_vars PROVE A
  <2>1. SUFFICES ASSUME NEW i \in Task, task[i].chan = "CI_HADP", task[i].kind = "read",
                        task[i].pc \in {"begin", "count"}, task'[i].kind = None
                 PROVE  \E j \in Task : /\ j # i /\ task[j].chan = "CI_HADP"
                                        /\ task[j].kind # None
    <3>1. \A j \in Task : j \in Live <=> task[j].kind # None
      BY <1>1, LiveTasks
    <3>2. Live \subseteq Task
      BY <1>1 DEF Inv, ListInv, Once, Live, ToSet
    <3>. QED BY <3>1, <3>2 DEF Chan
  <2>2. Step(i) /\ ChanInv("CI_HADP") /\ ShapeInv
    BY <1>1, <2>1, EndsItself DEF Inv, ChansInv
  <2>3. ~Goto(i, "count") /\ ~Goto(i, "number") /\ ~Goto(i, "claim")
    BY <2>1, <2>2, Goes DEF Became, pcs, None
  <2>4. CASE Send(i)
    <3>1. write_blocking["CI_HADP"]
      BY <2>3, <2>4 DEF Send
    <3>2. PICK j \in Task : \/ Counting(task[j], "CI_HADP")
                            \/ Pending(j, task[j], sigs, "CI_HADP")
      BY <2>2, <3>1 DEF ChanInv
    <3>3. task[i].pc = "begin"
      BY <2>4 DEF Send, At
    <3>. QED BY <3>2, <3>3 DEF Counting, Pending, Sending, Sender, None
  <2>5. CASE Count(i)
    <3>1. writer["CI_HADP"] # NULL /\ task[i].pc = "count"
      BY <2>1, <2>3, <2>5 DEF Count, At, Chan
    <3>2. writer["CI_HADP"] \in Task
      BY <1>1, <3>1 DEF Inv, ScalarInv, Channel
    <3>3. CASE \E j \in Task : Clearing(task[j], "CI_HADP")
      BY <2>1, <3>3 DEF Clearing, None
    <3>4. CASE Pending(writer["CI_HADP"], task[writer["CI_HADP"]], sigs, "CI_HADP")
      BY <3>1, <3>2, <3>4 DEF Pending, Sending, Sender, None
    <3>. QED BY <2>2, <3>1, <3>3, <3>4 DEF ChanInv
  <2>6. CASE Number(i) \/ Store(i) \/ SendHeartbeatAck(i) \/ Claim(i) \/ Fill(i) \/ Wait(i)
             \/ Wake(i) \/ write_callback(i) \/ Cleanup(i) \/ read_unblock_callback(i)
    BY <2>1, <2>6 DEF Number, Store, SendHeartbeatAck, Claim, Fill, Wait, Wake,
                      write_callback, Cleanup, read_unblock_callback, At, Chan
  <2>. QED BY <2>2, <2>4, <2>5, <2>6 DEF Step
<1>2. Inv /\ [Next]_vars => [A]_vars
  BY <1>1
<1>. QED BY <1>2, Invariance, PTL DEF Spec, DroppedOnlyWhenBusy
=============================================================================
