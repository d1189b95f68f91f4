-------------------------- MODULE AngelTasks_proofs --------------------------
(***************************************************************************)
(* The invariants of the Angel scheduler, for every size of the pool, every *)
(* number of stacks and every set of events.                                *)
(***************************************************************************)
EXTENDS AngelTasks, TLAPS, SequenceTheorems, WellFoundedInduction

-----------------------------------------------------------------------------
(* Every non-empty set of numbers has a least one, so the CHOOSE in Min     *)
(* finds it.                                                                *)
LEMMA MinNat ==
  ASSUME NEW S, S \subseteq Nat, S # {}
  PROVE  Min(S) \in S /\ \A x \in S : Min(S) <= x
PROOF
<1>. DEFINE Less == {p \in Nat \X Nat : p[1] < p[2]}
<1>1. IsWellFoundedOn(Less, Nat)
  BY NatLessThanWellFounded, Zenon DEF OpToRel
<1>2. \E m \in S : \A y \in S : ~(<<y, m>> \in Less)
  <2>. HIDE DEF Less
  <2>. QED BY <1>1, WFMin
<1>3. PICK m \in S : \A y \in S : ~(<<y, m>> \in Less)
  BY <1>2
<1>4. ASSUME NEW y \in S PROVE m <= y
  <2>1. y \in Nat /\ m \in Nat
    OBVIOUS
  <2>2. CASE y < m
    <3>1. <<y, m>> \in Nat \X Nat /\ <<y, m>>[1] < <<y, m>>[2]
      BY <2>1, <2>2
    <3>2. <<y, m>> \in Less
      BY <3>1, Zenon
    <3>. QED BY <1>3, <3>2
  <2>. QED BY <2>1, <2>2
<1>. QED BY <1>4, Zenon DEF Min

(* A list of distinct tasks that are exactly those of S.                    *)
Lists(q, S) == q \in Seq(Task) /\ IsInjective(q) /\ ToSet(q) = S

(* Where the elements are after an insertion at k.                          *)
LEMMA InsertedElements ==
  ASSUME NEW S, NEW q, Lists(q, S), NEW t \in Task, t \notin S,
         NEW k \in 1 .. Len(q) + 1
  PROVE  /\ InsertAt(q, k, t) \in Seq(Task)
         /\ Len(InsertAt(q, k, t)) = Len(q) + 1
         /\ \A i \in 1 .. k - 1 : InsertAt(q, k, t)[i] = q[i]
         /\ InsertAt(q, k, t)[k] = t
         /\ \A i \in k + 1 .. Len(q) + 1 : InsertAt(q, k, t)[i] = q[i - 1]
PROOF
<1>. DEFINE a == SubSeq(q, 1, k - 1)
            b == SubSeq(q, k, Len(q))
            at == a \o <<t>>
            r == InsertAt(q, k, t)
<1>1. q \in Seq(Task) /\ Len(q) \in Nat /\ k \in Int
  BY DEF Lists
<1>2. /\ a \in Seq(Task)
      /\ Len(a) = k - 1
      /\ \A i \in 1 .. k - 1 : a[i] = q[i]
  BY <1>1, SubSeqProperties
<1>3. /\ b \in Seq(Task)
      /\ Len(b) = Len(q) - k + 1
      /\ \A i \in 1 .. Len(q) - k + 1 : b[i] = q[k + i - 1]
  BY <1>1, SubSeqProperties
<1>4. <<t>> \in Seq(Task) /\ Len(<<t>>) = 1 /\ <<t>>[1] = t
  OBVIOUS
<1>5. r = at \o b
  BY DEF InsertAt
<1>. HIDE DEF a, b
<1>6. /\ at \in Seq(Task)
      /\ Len(at) = k
      /\ \A i \in 1 .. k : at[i] = IF i <= k - 1 THEN a[i] ELSE <<t>>[i - (k - 1)]
  <2>1. Len(a) + Len(<<t>>) = k
    BY <1>1, <1>2, <1>4
  <2>. QED BY <1>2, <1>4, <2>1, ConcatProperties
<1>7. /\ \A i \in 1 .. k - 1 : at[i] = q[i]
      /\ at[k] = t
  <2>1. at[k] = <<t>>[k - (k - 1)]
    BY <1>1, <1>6
  <2>2. k - (k - 1) = 1
    BY <1>1
  <2>3. at[k] = t
    BY <2>1, <2>2, <1>4
  <2>. QED BY <1>1, <1>2, <1>6, <2>3
<1>. HIDE DEF at
<1>8. /\ r \in Seq(Task)
      /\ Len(r) = Len(q) + 1
      /\ \A i \in 1 .. Len(q) + 1 : r[i] = IF i <= k THEN at[i] ELSE b[i - k]
  <2>1. Len(at) + Len(b) = Len(q) + 1
    BY <1>1, <1>3, <1>6
  <2>2. /\ at \o b \in Seq(Task)
        /\ Len(at \o b) = Len(at) + Len(b)
        /\ \A i \in 1 .. Len(at) + Len(b) :
             (at \o b)[i] = IF i <= Len(at) THEN at[i] ELSE b[i - Len(at)]
    BY <1>3, <1>6, ConcatProperties
  <2>. QED BY <1>5, <1>6, <2>1, <2>2, Zenon
<1>. HIDE DEF r
<1>9. /\ \A i \in 1 .. k - 1 : r[i] = q[i]
      /\ r[k] = t
      /\ \A i \in k + 1 .. Len(q) + 1 : r[i] = q[i - 1]
  <2>1. ASSUME NEW i \in k + 1 .. Len(q) + 1 PROVE r[i] = q[i - 1]
    <3>1. i - k \in 1 .. Len(q) - k + 1 /\ k + (i - k) - 1 = i - 1
      BY <1>1
    <3>2. b[i - k] = q[k + (i - k) - 1]
      BY <1>3, <3>1
    <3>. QED BY <1>1, <1>8, <3>1, <3>2
  <2>2. ASSUME NEW i \in 1 .. k - 1 PROVE r[i] = q[i]
    <3>1. i \in 1 .. Len(q) + 1 /\ i <= k
      BY <1>1
    <3>. QED BY <1>7, <1>8, <3>1
  <2>3. r[k] = t
    <3>1. k \in 1 .. Len(q) + 1 /\ k <= k
      BY <1>1
    <3>. QED BY <1>7, <1>8, <3>1
  <2>. QED BY <2>1, <2>2, <2>3
<1>. QED BY <1>8, <1>9 DEF r

LEMMA Inserted ==
  ASSUME NEW S, NEW q, Lists(q, S), NEW t \in Task, t \notin S,
         NEW k \in 1 .. Len(q) + 1
  PROVE  Lists(InsertAt(q, k, t), S \cup {t})
PROOF
<1>. DEFINE r == InsertAt(q, k, t)
<1>1. q \in Seq(Task) /\ Len(q) \in Nat /\ k \in Int
  BY DEF Lists
<1>2. r \in Seq(Task) /\ Len(r) = Len(q) + 1
  BY InsertedElements
<1>3. /\ \A i \in 1 .. k - 1 : r[i] = q[i]
      /\ r[k] = t
      /\ \A i \in k + 1 .. Len(q) + 1 : r[i] = q[i - 1]
  BY InsertedElements
<1>. HIDE DEF r
<1>4. \A i \in 1 .. Len(q) : q[i] \in S
  BY <1>1 DEF Lists, ToSet
<1>5. \A i, j \in 1 .. Len(q) : q[i] = q[j] => i = j
  BY <1>1 DEF Lists, IsInjective
<1>6. IsInjective(r)
  <2>1. SUFFICES ASSUME NEW i \in 1 .. Len(q) + 1, NEW j \in 1 .. Len(q) + 1,
                        r[i] = r[j], i < j
                 PROVE  FALSE
    BY <1>1, <1>2 DEF IsInjective
  <2>2. CASE j < k
    BY <1>1, <1>3, <1>5, <2>1, <2>2
  <2>3. CASE i < k /\ j = k
    BY <1>1, <1>3, <1>4, <2>1, <2>3
  <2>4. CASE i < k /\ j > k
    <3>1. q[i] = q[j - 1] /\ i \in 1 .. Len(q) /\ j - 1 \in 1 .. Len(q)
      BY <1>1, <1>3, <2>1, <2>4
    <3>. QED BY <1>1, <1>5, <2>4, <3>1
  <2>5. CASE i = k
    <3>1. q[j - 1] = t /\ j - 1 \in 1 .. Len(q)
      BY <1>1, <1>3, <2>1, <2>5
    <3>. QED BY <1>4, <3>1
  <2>6. CASE i > k
    <3>1. q[i - 1] = q[j - 1] /\ i - 1 \in 1 .. Len(q) /\ j - 1 \in 1 .. Len(q)
      BY <1>1, <1>3, <2>1, <2>6
    <3>. QED BY <1>1, <1>5, <2>1, <3>1
  <2>. QED BY <1>1, <2>1, <2>2, <2>3, <2>4, <2>5, <2>6
<1>7. ToSet(r) = S \cup {t}
  <2>1. ASSUME NEW i \in 1 .. Len(r) PROVE r[i] \in S \cup {t}
    <3>1. CASE i < k
      BY <1>1, <1>2, <1>3, <1>4, <3>1
    <3>2. CASE i = k
      BY <1>3, <3>2
    <3>3. CASE i > k
      <4>1. r[i] = q[i - 1] /\ i - 1 \in 1 .. Len(q)
        BY <1>1, <1>2, <1>3, <3>3
      <4>. QED BY <1>4, <4>1
    <3>. QED BY <1>1, <3>1, <3>2, <3>3
  <2>2. ASSUME NEW x \in S PROVE \E i \in 1 .. Len(r) : r[i] = x
    <3>1. PICK j \in 1 .. Len(q) : q[j] = x
      BY <1>1 DEF Lists, ToSet
    <3>2. CASE j < k
      BY <1>1, <1>2, <1>3, <3>1, <3>2
    <3>3. CASE j >= k
      <4>1. j + 1 \in 1 .. Len(r) /\ j + 1 \in k + 1 .. Len(q) + 1
        BY <1>1, <1>2, <3>3
      <4>2. r[j + 1] = q[(j + 1) - 1] /\ (j + 1) - 1 = j
        BY <1>3, <4>1
      <4>. QED BY <3>1, <4>1, <4>2
    <3>. QED BY <1>1, <3>2, <3>3
  <2>3. k \in 1 .. Len(r) /\ r[k] = t
    BY <1>1, <1>2, <1>3
  <2>4. ToSet(r) = {r[i] : i \in 1 .. Len(r)}
    BY <1>2 DEF ToSet
  <2>. QED BY <2>1, <2>2, <2>3, <2>4
<1>. QED BY <1>2, <1>6, <1>7 DEF Lists, r

(* Where the elements are after t has been taken out.                      *)
LEMMA RemovedElements ==
  ASSUME NEW S, NEW q, Lists(q, S), NEW t \in S
  PROVE  \E k \in 1 .. Len(q) :
           /\ q[k] = t
           /\ RemoveFirst(q, t) \in Seq(Task)
           /\ Len(RemoveFirst(q, t)) = Len(q) - 1
           /\ \A i \in 1 .. k - 1 : RemoveFirst(q, t)[i] = q[i]
           /\ \A i \in k .. Len(q) - 1 : RemoveFirst(q, t)[i] = q[i + 1]
PROOF
<1>1. q \in Seq(Task) /\ Len(q) \in Nat
  BY DEF Lists
<1>2. PICK k \in 1 .. Len(q) : q[k] = t
  BY <1>1 DEF Lists, ToSet
<1>3. \A i, j \in 1 .. Len(q) : q[i] = q[j] => i = j
  BY <1>1 DEF Lists, IsInjective
<1>4. SelectInSeq(q, LAMBDA v : v = t) = k
  BY <1>1, <1>2, <1>3, SMT DEF SelectInSeq, Min
<1>. DEFINE a == SubSeq(q, 1, k - 1)
            b == SubSeq(q, k + 1, Len(q))
            r == RemoveAt(q, k)
<1>5. RemoveFirst(q, t) = r
  BY <1>2, <1>4 DEF RemoveFirst
<1>6. /\ a \in Seq(Task)
      /\ Len(a) = k - 1
      /\ \A i \in 1 .. k - 1 : a[i] = q[i]
  BY <1>1, SubSeqProperties
<1>7. /\ b \in Seq(Task)
      /\ Len(b) = Len(q) - k
      /\ \A i \in 1 .. Len(q) - k : b[i] = q[k + i]
  BY <1>1, SubSeqProperties
<1>8. r = a \o b
  BY DEF RemoveAt
<1>. HIDE DEF a, b, r
<1>9. /\ r \in Seq(Task)
      /\ Len(r) = Len(q) - 1
      /\ \A i \in 1 .. Len(q) - 1 : r[i] = IF i <= k - 1 THEN a[i] ELSE b[i - (k - 1)]
  <2>1. Len(a) + Len(b) = Len(q) - 1
    BY <1>1, <1>6, <1>7
  <2>2. /\ a \o b \in Seq(Task)
        /\ Len(a \o b) = Len(a) + Len(b)
        /\ \A i \in 1 .. Len(a) + Len(b) :
             (a \o b)[i] = IF i <= Len(a) THEN a[i] ELSE b[i - Len(a)]
    BY <1>6, <1>7, ConcatProperties
  <2>. QED BY <1>6, <1>8, <2>1, <2>2, Zenon
<1>10. /\ \A i \in 1 .. k - 1 : r[i] = q[i]
       /\ \A i \in k .. Len(q) - 1 : r[i] = q[i + 1]
  <2>1. ASSUME NEW i \in k .. Len(q) - 1 PROVE r[i] = q[i + 1]
    <3>1. i - (k - 1) \in 1 .. Len(q) - k /\ k + (i - (k - 1)) = i + 1
      BY <1>1
    <3>2. b[i - (k - 1)] = q[k + (i - (k - 1))]
      BY <1>7, <3>1
    <3>. QED BY <1>1, <1>9, <3>1, <3>2
  <2>. QED BY <1>1, <1>6, <1>9, <2>1
<1>. QED BY <1>2, <1>5, <1>9, <1>10

LEMMA Removed ==
  ASSUME NEW S, NEW q, Lists(q, S), NEW t \in S
  PROVE  Lists(RemoveFirst(q, t), S \ {t})
PROOF
<1>. DEFINE r == RemoveFirst(q, t)
<1>1. q \in Seq(Task) /\ Len(q) \in Nat
  BY DEF Lists
<1>2. PICK k \in 1 .. Len(q) :
        /\ q[k] = t
        /\ r \in Seq(Task) /\ Len(r) = Len(q) - 1
        /\ \A i \in 1 .. k - 1 : r[i] = q[i]
        /\ \A i \in k .. Len(q) - 1 : r[i] = q[i + 1]
  BY RemovedElements
<1>3. \A i, j \in 1 .. Len(q) : q[i] = q[j] => i = j
  BY <1>1 DEF Lists, IsInjective
<1>. HIDE DEF r
<1>4. IsInjective(r)
  <2>1. SUFFICES ASSUME NEW i \in 1 .. Len(q) - 1, NEW j \in 1 .. Len(q) - 1,
                        r[i] = r[j], i < j
                 PROVE  FALSE
    BY <1>1, <1>2 DEF IsInjective
  <2>2. CASE j < k
    BY <1>1, <1>3, <1>2, <2>1, <2>2
  <2>3. CASE i < k /\ j >= k
    <3>1. q[i] = q[j + 1] /\ i \in 1 .. Len(q) /\ j + 1 \in 1 .. Len(q)
      BY <1>1, <1>2, <2>1, <2>3
    <3>. QED BY <1>1, <1>3, <2>1, <3>1
  <2>4. CASE i >= k
    <3>1. q[i + 1] = q[j + 1] /\ i + 1 \in 1 .. Len(q) /\ j + 1 \in 1 .. Len(q)
      BY <1>1, <1>2, <2>1, <2>4
    <3>. QED BY <1>1, <1>3, <2>1, <3>1
  <2>. QED BY <1>1, <2>1, <2>2, <2>3, <2>4
<1>5. ToSet(r) = S \ {t}
  <2>0. S = {q[i] : i \in 1 .. Len(q)}
    BY <1>1 DEF Lists, ToSet
  <2>1. ASSUME NEW i \in 1 .. Len(r) PROVE r[i] \in S \ {t}
    <3>1. PICK j \in 1 .. Len(q) : j # k /\ r[i] = q[j]
      <4>1. CASE i < k
        BY <1>1, <1>2, <4>1
      <4>2. CASE i >= k
        <5>1. i + 1 \in 1 .. Len(q) /\ i + 1 # k /\ r[i] = q[i + 1]
          BY <1>1, <1>2, <4>2
        <5>. QED BY <5>1
      <4>. QED BY <1>1, <1>2, <4>1, <4>2
    <3>. QED BY <1>2, <1>3, <2>0, <3>1
  <2>2. ASSUME NEW x \in S \ {t} PROVE \E i \in 1 .. Len(r) : r[i] = x
    <3>1. PICK j \in 1 .. Len(q) : q[j] = x
      BY <2>0
    <3>2. CASE j < k
      BY <1>1, <1>2, <3>1, <3>2
    <3>3. CASE j > k
      <4>1. j - 1 \in 1 .. Len(r) /\ j - 1 \in k .. Len(q) - 1
        BY <1>1, <1>2, <3>3
      <4>2. r[j - 1] = q[(j - 1) + 1] /\ (j - 1) + 1 = j
        BY <1>2, <4>1
      <4>. QED BY <3>1, <4>1, <4>2
    <3>4. j # k
      BY <1>2, <3>1
    <3>. QED BY <1>1, <3>2, <3>3, <3>4
  <2>3. ToSet(r) = {r[i] : i \in 1 .. Len(r)}
    BY <1>2 DEF ToSet
  <2>. QED BY <2>1, <2>2, <2>3
<1>. QED BY <1>2, <1>4, <1>5 DEF Lists, r

-----------------------------------------------------------------------------
(* The inductive invariant.                                                 *)
Priorities == 0 .. TaskPriorityOf(TP_AngelWantLock)

(* The idle task and the application are never deleted; the others are      *)
(* handlers and callbacks.                                                  *)
Kinds ==
  /\ IdleTask \notin free /\ ApplicationTask \notin free
  /\ type[IdleTask] = TP_IdleLoop /\ type[ApplicationTask] = TP_Application
  /\ \A t \in Task \ free :
       t \in {IdleTask, ApplicationTask} \/ IsHandler(t) \/ IsCallback(t)

StacksKept ==
  /\ StacksExclusive
  /\ \A t \in Task \ free :
       stack[t] \in IF IsHandler(t) THEN {SVCStack} ELSE USRStack

Runner ==
  /\ \A t \in Task : state[t] = "Running" <=> t = current
  /\ state[IdleTask] # "Blocked"
  /\ begun = Begun(type, current)

(* What keeps a stopped application from running: it is blocked for an      *)
(* event nobody signals, or will be when its system call ends.              *)
StopKept ==
  stopped => \/ systemCall = "clib" /\ deferredBlock
             \/ /\ systemCall # "clib"
                /\ state[ApplicationTask] = "Blocked"
                /\ "PAUSE" \in signalWaiting[ApplicationTask]

IInv == /\ TypeOK /\ QueueIsPool /\ Kinds /\ StacksKept
        /\ Runner /\ StopKept /\ AlwaysATask

-----------------------------------------------------------------------------
(* The fixed tasks are three different members of the pool.                 *)
LEMMA FixedTasks ==
  /\ Task \subseteq Nat
  /\ IdleTask \in Task /\ ApplicationTask \in Task /\ BootTask \in Task
  /\ {1, 2, 3} \subseteq USRStack /\ USRStack \subseteq Nat /\ SVCStack \notin USRStack
PROOF
  BY PoolAssumption, StackAssumption
  DEF Task, IdleTask, ApplicationTask, BootTask, USRStack, SVCStack

(* EnqueueTask adds the task to the list, wherever it puts it.              *)
LEMMA Enqueued ==
  ASSUME NEW S, NEW q, Lists(q, S), NEW t \in Task, t \notin S, NEW pri
  PROVE  Lists(angel_EnqueueTask(q, t, pri), S \cup {t})
PROOF
<1>. DEFINE K == {k \in 1 .. Len(q) : priority[q[k]] <= pri} \cup {Len(q) + 1}
<1>1. Len(q) \in Nat
  BY DEF Lists
<1>2. K \subseteq 1 .. Len(q) + 1 /\ K # {} /\ K \subseteq Nat
  BY <1>1
<1>3. angel_EnqueueTask(q, t, pri) = InsertAt(q, Min(K), t)
  BY DEF angel_EnqueueTask
<1>. HIDE DEF K
<1>4. Min(K) \in 1 .. Len(q) + 1
  BY <1>2, MinNat
<1>. QED BY <1>3, <1>4, Inserted

LEMMA PrioritySet ==
  ASSUME TypeOK, QueueIsPool, NEW t \in Task \ free, NEW pri \in Priorities,
         angel_SetPriority(t, pri)
  PROVE  Lists(queue', Task \ free) /\ priority' \in [Task -> Priorities]
PROOF
<1>1. Lists(queue, Task \ free)
  BY DEF Lists, TypeOK, QueueIsPool
<1>2. Lists(RemoveFirst(queue, t), (Task \ free) \ {t})
  BY <1>1, Removed
<1>3. Lists(angel_EnqueueTask(RemoveFirst(queue, t), t, pri),
            ((Task \ free) \ {t}) \cup {t})
  BY <1>2, Enqueued
<1>4. ((Task \ free) \ {t}) \cup {t} = Task \ free
  OBVIOUS
<1>. QED BY <1>3, <1>4 DEF angel_SetPriority, TypeOK, Priorities

(* SelectNextTask finds a task that is neither blocked nor free.            *)
LEMMA Chosen ==
  ASSUME NEW q, NEW S \in SUBSET Task, Lists(q, S), IdleTask \in S,
         NEW st, st[IdleTask] \notin {"Blocked", "Undefined"},
         NEW kinds, NEW kept, angel_SelectNextTask(q, st, kinds, kept)
  PROVE  \E t \in S : /\ st[t] \notin {"Blocked", "Undefined"}
                      /\ current' = t
                      /\ state' = [st EXCEPT ![t] = "Running"]
                      /\ begun' = kept \cup Begun(kinds, t)
                      /\ fatal' = fatal
PROOF
<1>1. q \in Seq(Task) /\ Len(q) \in Nat
  BY DEF Lists
<1>2. PICK k \in 1 .. Len(q) : q[k] = IdleTask
  BY <1>1 DEF Lists, ToSet
<1>3. Ready(q, st) # {} /\ Ready(q, st) \subseteq Nat
  BY <1>1, <1>2 DEF Ready
<1>4. Min(Ready(q, st)) \in Ready(q, st)
  BY <1>3, MinNat
<1>5. /\ q[Min(Ready(q, st))] \in S
      /\ st[q[Min(Ready(q, st))]] \notin {"Blocked", "Undefined"}
  BY <1>1, <1>4 DEF Ready, Lists, ToSet
<1>. QED BY <1>3, <1>5 DEF angel_SelectNextTask

(* After the choice the chosen task, and no other, is running; a task is    *)
(* blocked or free when it was before.                                      *)
LEMMA Dispatched ==
  ASSUME NEW q, NEW S \in SUBSET Task, Lists(q, S), IdleTask \in S,
         NEW st \in [Task -> TaskState], st[IdleTask] # "Blocked",
         \A t \in Task : st[t] # "Running",
         \A t \in Task : t \in S <=> st[t] # "Undefined",
         NEW kinds, \A t \in S : kinds[t] = type'[t],
         NEW kept, kept = {},
         angel_SelectNextTask(q, st, kinds, kept)
  PROVE  /\ state' \in [Task -> TaskState] /\ current' \in Task
         /\ begun' \subseteq Task /\ Runner' /\ fatal' = fatal
         /\ \A t \in Task : t \in S <=> state'[t] # "Undefined"
         /\ \A t \in Task : state'[t] = "Blocked" <=> st[t] = "Blocked"
PROOF
<1>1. st[IdleTask] \notin {"Blocked", "Undefined"}
  OBVIOUS
<1>2. PICK t \in S : /\ st[t] \notin {"Blocked", "Undefined"}
                     /\ current' = t
                     /\ state' = [st EXCEPT ![t] = "Running"]
                     /\ begun' = kept \cup Begun(kinds, t)
                     /\ fatal' = fatal
  BY <1>1, Chosen
<1>3. state' \in [Task -> TaskState] /\ current' \in Task
  BY <1>2 DEF TaskState
<1>4. begun' = Begun(type', current') /\ begun' \subseteq Task
  BY <1>2 DEF Begun
<1>5. \A u \in Task : state'[u] = IF u = t THEN "Running" ELSE st[u]
  BY <1>2
<1>6. Runner'
  BY <1>2, <1>4, <1>5, FixedTasks DEF Runner
<1>. QED BY <1>2, <1>3, <1>4, <1>5, <1>6

(* NewTask takes a free entry and, for a task that runs in USR mode, a free *)
(* stack.                                                                   *)
LEMMA NewTaskMade ==
  ASSUME TypeOK, QueueIsPool, Kinds, StacksKept,
         NEW kind \in {TP_ApplCallBack, TP_AngelCallBack, TP_AngelWantLock},
         NEW yielded, free # {}, HasStack(kind), Angel_NewTask(kind, yielded)
  PROVE  /\ Min(free) \in free /\ free' = free \ {Min(free)}
         /\ Lists(queue', Task \ free')
         /\ type' = [type EXCEPT ![Min(free)] = kind]
         /\ type' \in [Task -> TaskType]
         /\ priority' \in [Task -> Priorities]
         /\ signalWaiting' = [signalWaiting EXCEPT ![Min(free)] = {}]
         /\ signalReceived' \in [Task -> SUBSET Signals]
         /\ stack' \in [Task -> {SVCStack} \cup USRStack]
         /\ stacksUsed' \subseteq USRStack
         /\ Kinds' /\ StacksKept'
PROOF
<1>. DEFINE i == Min(free)
            s == IF kind = TP_AngelWantLock THEN SVCStack
                                            ELSE Min(USRStack \ stacksUsed)
<1>1. i \in free /\ i \in Task
  BY FixedTasks, MinNat DEF TypeOK
<1>2. s \in IF kind = TP_AngelWantLock THEN {SVCStack} ELSE USRStack \ stacksUsed
  <2>1. CASE kind = TP_AngelWantLock
    BY <2>1
  <2>2. CASE kind # TP_AngelWantLock
    <3>1. USRStack \ stacksUsed # {} /\ USRStack \ stacksUsed \subseteq Nat
      BY <2>2, FixedTasks DEF HasStack, TypeOK
    <3>. QED BY <2>2, <3>1, MinNat
  <2>. QED BY <2>1, <2>2
<1>. HIDE DEF i, s
<1>3. /\ free' = free \ {i}
      /\ type' = [type EXCEPT ![i] = kind]
      /\ priority' = [priority EXCEPT ![i] = TaskPriorityOf(kind)]
      /\ signalWaiting' = [signalWaiting EXCEPT ![i] = {}]
      /\ signalReceived' = [signalReceived EXCEPT ![i] = {}]
      /\ stack' = [stack EXCEPT ![i] = s]
      /\ stacksUsed' = stacksUsed \cup ({s} \ {SVCStack})
      /\ queue' = angel_EnqueueTask(queue, i, IF yielded THEN TaskPriorityOf(kind) - 1
                                              ELSE TaskPriorityOf(kind))
  BY DEF Angel_NewTask, i, s
<1>4. Lists(queue', Task \ free')
  <2>1. Lists(queue, Task \ free)
    BY DEF Lists, TypeOK, QueueIsPool
  <2>2. Lists(queue', (Task \ free) \cup {i})
    BY <1>1, <1>3, <2>1, Enqueued
  <2>3. (Task \ free) \cup {i} = Task \ free'
    BY <1>1, <1>3
  <2>. QED BY <2>2, <2>3
<1>5. kind \in TaskType /\ TaskPriorityOf(kind) \in Priorities
  BY DEF TaskType, TaskPriorityOf, Priorities, TP_ApplCallBack, TP_AngelCallBack,
         TP_AngelWantLock
<1>6. /\ type' \in [Task -> TaskType]
      /\ priority' \in [Task -> Priorities]
      /\ signalReceived' \in [Task -> SUBSET Signals]
      /\ stack' \in [Task -> {SVCStack} \cup USRStack]
      /\ stacksUsed' \subseteq USRStack
  BY <1>1, <1>2, <1>3, <1>5 DEF TypeOK, Priorities
<1>7. \A t \in Task : /\ type'[t] = IF t = i THEN kind ELSE type[t]
                      /\ stack'[t] = IF t = i THEN s ELSE stack[t]
                      /\ t \notin free' <=> t = i \/ t \notin free
  BY <1>1, <1>3 DEF TypeOK
<1>8. Kinds'
  <2>1. IdleTask # i /\ ApplicationTask # i
    BY <1>1 DEF Kinds
  <2>2. /\ IdleTask \notin free' /\ ApplicationTask \notin free'
        /\ type'[IdleTask] = TP_IdleLoop /\ type'[ApplicationTask] = TP_Application
    BY <1>3, <1>7, <2>1, FixedTasks DEF Kinds
  <2>3. ASSUME NEW t \in Task \ free'
        PROVE  \/ t \in {IdleTask, ApplicationTask}
               \/ type'[t] = TP_AngelWantLock
               \/ type'[t] \in {TP_ApplCallBack, TP_AngelCallBack}
    BY <1>7, <2>3 DEF Kinds, IsHandler, IsCallback
  <2>. QED BY <2>2, <2>3 DEF Kinds, IsHandler, IsCallback
<1>9. \A t \in Task \ free' :
        stack'[t] \in IF type'[t] = TP_AngelWantLock THEN {SVCStack} ELSE USRStack
  BY <1>2, <1>7 DEF StacksKept, IsHandler
<1>10. StacksExclusive'
  <2>. DEFINE user(f, k) == {t \in Task \ f : k[t] # TP_AngelWantLock}
  <2>1. /\ stacksUsed = {stack[t] : t \in user(free, type)}
        /\ \A t, u \in user(free, type) : stack[t] = stack[u] => t = u
    BY DEF StacksKept, StacksExclusive, IsHandler
  <2>2. CASE kind = TP_AngelWantLock
    <3>1. stacksUsed' = stacksUsed
      BY <1>2, <1>3, <2>2
    <3>2. user(free', type') = user(free, type) /\ i \notin user(free, type)
      BY <1>1, <1>7, <2>2
    <3>3. \A t \in user(free, type) : stack'[t] = stack[t]
      BY <1>7, <3>2
    <3>. HIDE DEF user
    <3>4. /\ stacksUsed' = {stack'[t] : t \in user(free', type')}
          /\ \A t, u \in user(free', type') : stack'[t] = stack'[u] => t = u
      BY <2>1, <3>1, <3>2, <3>3
    <3>. QED BY <3>4 DEF StacksExclusive, IsHandler, user
  <2>3. CASE kind # TP_AngelWantLock
    <3>1. stacksUsed' = stacksUsed \cup {s} /\ s \notin stacksUsed
      BY <1>2, <1>3, <2>3, FixedTasks
    <3>2. user(free', type') = user(free, type) \cup {i} /\ i \notin user(free, type)
      BY <1>1, <1>7, <2>3
    <3>3. \A t \in user(free, type) : stack'[t] = stack[t]
      BY <1>7, <3>2
    <3>4. stack'[i] = s
      BY <1>1, <1>7
    <3>. HIDE DEF user
    <3>5. /\ stacksUsed' = {stack'[t] : t \in user(free', type')}
          /\ \A t, u \in user(free', type') : stack'[t] = stack'[u] => t = u
      BY <2>1, <3>1, <3>2, <3>3, <3>4
    <3>. QED BY <3>5 DEF StacksExclusive, IsHandler, user
  <2>. QED BY <2>2, <2>3
<1>11. StacksKept'
  BY <1>9, <1>10 DEF StacksKept, IsHandler
<1>. QED BY <1>1, <1>3, <1>4, <1>6, <1>8, <1>11 DEF i

-----------------------------------------------------------------------------
LEMMA InitInvariant == Init => IInv
PROOF
<1>. SUFFICES ASSUME Init PROVE IInv
  OBVIOUS
<1>1. Task \subseteq Nat /\ {0, 1, 2} \subseteq Task /\ {1, 2, 3} \subseteq USRStack
  BY FixedTasks DEF IdleTask, ApplicationTask, BootTask
<1>2. /\ queue = <<2, 1, 0>> /\ free = Task \ {0, 1, 2}
      /\ current = 2 /\ begun = {} /\ stopped = TRUE /\ fatal = "none"
      /\ systemCall = "none" /\ deferredBlock = FALSE /\ stacksUsed = {1, 2, 3}
  BY DEF Init, IdleTask, ApplicationTask, BootTask
<1>3. \A t \in Task :
        /\ type[t] = IF t = 2 THEN TP_AngelCallBack
                     ELSE IF t = 1 THEN TP_Application ELSE TP_IdleLoop
        /\ priority[t] = TaskPriorityOf(type[t])
        /\ state[t] = IF t = 2 THEN "Running" ELSE IF t = 1 THEN "Blocked"
                      ELSE IF t = 0 THEN "Runnable" ELSE "Undefined"
        /\ signalWaiting[t] = IF t = 1 THEN {"PAUSE"} ELSE {}
        /\ signalReceived[t] = {}
        /\ stack[t] = IF t = 0 THEN 1 ELSE IF t = 1 THEN 2
                      ELSE IF t = 2 THEN 3 ELSE 0
  BY DEF Init, IdleTask, ApplicationTask, BootTask, SVCStack
<1>4. TypeOK
  <2>1. type \in [Task -> TaskType]
    BY DEF Init, TaskType
  <2>2. priority \in [Task -> 0 .. TaskPriorityOf(TP_AngelWantLock)]
    <3>1. \A t \in Task : priority[t] \in 0 .. 20
      BY <1>3 DEF TaskPriorityOf, TP_AngelCallBack, TP_Application, TP_IdleLoop
    <3>2. priority = [t \in Task |-> priority[t]]
      BY DEF Init
    <3>. QED BY <3>1, <3>2 DEF TaskPriorityOf, TP_AngelWantLock
  <2>3. state \in [Task -> TaskState]
    BY DEF Init, TaskState
  <2>4. /\ signalWaiting \in [Task -> SUBSET Signals]
        /\ signalReceived \in [Task -> SUBSET Signals]
    BY DEF Init, Signals
  <2>5. stack \in [Task -> {SVCStack} \cup USRStack]
    BY <1>1 DEF Init
  <2>6. queue \in Seq(Task)
    BY <1>1, <1>2
  <2>7. free \subseteq Task /\ stacksUsed \subseteq USRStack /\ current \in Task
    BY <1>1, <1>2
  <2>. QED BY <1>2, <2>1, <2>2, <2>3, <2>4, <2>5, <2>6, <2>7 DEF TypeOK
<1>5. QueueIsPool
  <2>1. IsInjective(queue)
    BY <1>2 DEF IsInjective
  <2>2. ToSet(queue) = {0, 1, 2}
    BY <1>2 DEF ToSet
  <2>3. ToSet(queue) = Task \ free
    BY <1>1, <1>2, <2>2
  <2>. QED BY <1>2, <1>3, <2>1, <2>3 DEF QueueIsPool
<1>6. Kinds /\ StacksKept
  <2>1. Task \ free = {0, 1, 2}
    BY <1>1, <1>2
  <2>2. Kinds
    BY <1>1, <1>2, <1>3, <2>1 DEF Kinds, IdleTask, ApplicationTask, IsCallback
  <2>3. \A t \in {0, 1, 2} : ~IsHandler(t) /\ stack[t] = t + 1
    BY <1>1, <1>3 DEF IsHandler, TP_AngelWantLock, TP_AngelCallBack,
                      TP_Application, TP_IdleLoop
  <2>4. {t \in Task \ free : ~IsHandler(t)} = {0, 1, 2}
    BY <2>1, <2>3
  <2>5. StacksExclusive
    BY <1>2, <2>3, <2>4 DEF StacksExclusive
  <2>. QED BY <1>1, <2>1, <2>2, <2>3, <2>5 DEF StacksKept
<1>7. Runner
  BY <1>1, <1>2, <1>3 DEF Runner, Begun, IdleTask, TP_AngelCallBack, TP_AngelWantLock
<1>8. StopKept /\ AlwaysATask
  BY <1>1, <1>2, <1>3 DEF StopKept, AlwaysATask, ApplicationTask
<1>. QED BY <1>4, <1>5, <1>6, <1>7, <1>8 DEF IInv

(* A fatal error other than the scheduler's own leaves the rest as it is.   *)
LEMMA FatalStep ==
  ASSUME IInv, NEW what \in {"Cannot create new task",
                             "System Call Return with no Call"},
         LogFatalError(what)
  PROVE  IInv'
PROOF
<1>1. UNCHANGED <<queue, free, type, priority, signalWaiting, signalReceived,
                  stack, stacksUsed, state, current, begun, systemCall,
                  deferredBlock, stopped>>
  BY DEF LogFatalError, pool, run, appl
<1>2. fatal' = what
  BY DEF LogFatalError
<1>3. TypeOK' /\ QueueIsPool' /\ AlwaysATask'
  BY <1>1, <1>2 DEF IInv, TypeOK, QueueIsPool, AlwaysATask
<1>4. Kinds' /\ StacksKept'
  <2>1. /\ free' = free /\ type' = type
        /\ stack' = stack /\ stacksUsed' = stacksUsed
    BY <1>1
  <2>2. Kinds /\ StacksKept
    BY DEF IInv
  <2>3. Kinds'
    BY <2>1, <2>2, Zenon DEF Kinds, IsHandler, IsCallback
  <2>4. StacksKept'
    <3>1. \A t : IsHandler(t)' <=> IsHandler(t)
      BY <2>1 DEF IsHandler
    <3>2. {t \in Task \ free : ~IsHandler(t)}' = {t \in Task \ free : ~IsHandler(t)}
      BY <2>1, <3>1
    <3>3. StacksExclusive'
      BY <2>1, <2>2, <3>2 DEF StacksKept, StacksExclusive
    <3>4. \A t \in Task \ free' :
            stack'[t] \in IF IsHandler(t)' THEN {SVCStack} ELSE USRStack
      BY <2>1, <2>2, <3>1 DEF StacksKept
    <3>. QED BY <3>3, <3>4 DEF StacksKept
  <2>. QED BY <2>3, <2>4
<1>5. Runner' /\ StopKept'
  BY <1>1 DEF IInv, Runner, StopKept
<1>. QED BY <1>3, <1>4, <1>5 DEF IInv

LEMMA StutterStep ==
  ASSUME IInv, UNCHANGED vars
  PROVE  IInv'
PROOF
<1>1. UNCHANGED <<queue, free, type, priority, signalWaiting, signalReceived,
                  stack, stacksUsed, state, current, begun, systemCall,
                  deferredBlock, stopped, fatal>>
  BY DEF vars, pool, run, appl
<1>2. TypeOK' /\ QueueIsPool' /\ AlwaysATask'
  BY <1>1 DEF IInv, TypeOK, QueueIsPool, AlwaysATask
<1>3. Kinds' /\ StacksKept'
  BY <1>1 DEF IInv, Kinds, StacksKept, StacksExclusive, IsHandler, IsCallback
<1>4. Runner' /\ StopKept'
  BY <1>1 DEF IInv, Runner, StopKept
<1>. QED BY <1>2, <1>3, <1>4 DEF IInv

-----------------------------------------------------------------------------
(* The current task is allocated and of one kind only.                      *)
LEMMA CurrentTask ==
  ASSUME IInv
  PROVE  /\ current \in Task /\ current \notin free
         /\ state[current] = "Running" /\ state \in [Task -> TaskState]
         /\ IsHandler(current) \/ begun = {}
         /\ IsHandler(current) \/ IsCallback(current) => current \notin {IdleTask, ApplicationTask}
PROOF
<1>1. current \in Task /\ state[current] = "Running" /\ state \in [Task -> TaskState]
  BY DEF IInv, TypeOK, Runner
<1>2. current \notin free
  BY <1>1 DEF IInv, QueueIsPool
<1>3. IsHandler(current) \/ begun = {}
  BY DEF IInv, Runner, Begun, IsHandler
<1>4. ~IsHandler(IdleTask) /\ ~IsCallback(IdleTask)
  BY DEF IInv, Kinds, IsHandler, IsCallback, TP_IdleLoop, TP_AngelWantLock,
         TP_AngelCallBack, TP_ApplCallBack
<1>5. ~IsHandler(ApplicationTask) /\ ~IsCallback(ApplicationTask)
  BY DEF IInv, Kinds, IsHandler, IsCallback, TP_Application, TP_AngelWantLock,
         TP_AngelCallBack, TP_ApplCallBack
<1>. QED BY <1>1, <1>2, <1>3, <1>4, <1>5

(* What a new task does to the states of the tasks.                         *)
LEMMA NewTaskState ==
  ASSUME IInv, Min(free) \in free
  PROVE  /\ WithNewTask \in [Task -> TaskState]
         /\ \A t \in Task : WithNewTask[t] = IF t = Min(free) THEN "Runnable" ELSE state[t]
         /\ Min(free) \notin {IdleTask, ApplicationTask, current}
PROOF
<1>. DEFINE i == Min(free)
<1>. HIDE DEF i
<1>1. i \in Task /\ state \in [Task -> TaskState]
  BY DEF IInv, TypeOK, i
<1>2. WithNewTask = [state EXCEPT ![i] = "Runnable"]
  BY DEF WithNewTask, i
<1>3. i \notin {IdleTask, ApplicationTask, current}
  BY CurrentTask DEF IInv, Kinds, i
<1>. QED BY <1>1, <1>2, <1>3 DEF i, TaskState

LEMMA SerialiseStep ==
  ASSUME IInv, NEW yielded, angel_SerialiseTaskCore(yielded)
  PROVE  IInv'
PROOF
<1>1. CASE free = {}
  BY <1>1, FatalStep DEF angel_SerialiseTaskCore
<1>2. CASE free # {}
  <2>. DEFINE i == Min(free)
  <2>1. Angel_NewTask(TP_AngelWantLock, yielded) /\ UNCHANGED appl
    BY <1>2 DEF angel_SerialiseTaskCore
  <2>2. HasStack(TP_AngelWantLock)
    BY DEF HasStack
  <2>3. /\ i \in free /\ free' = free \ {i}
        /\ Lists(queue', Task \ free')
        /\ type' = [type EXCEPT ![i] = TP_AngelWantLock]
        /\ type' \in [Task -> TaskType]
        /\ priority' \in [Task -> Priorities]
        /\ signalWaiting' = [signalWaiting EXCEPT ![i] = {}]
        /\ signalReceived' \in [Task -> SUBSET Signals]
        /\ stack' \in [Task -> {SVCStack} \cup USRStack]
        /\ stacksUsed' \subseteq USRStack
        /\ Kinds' /\ StacksKept'
    BY <1>2, <2>1, <2>2, NewTaskMade DEF IInv
  <2>4. /\ WithNewTask \in [Task -> TaskState]
        /\ \A t \in Task : WithNewTask[t] = IF t = i THEN "Runnable" ELSE state[t]
        /\ i \notin {IdleTask, ApplicationTask, current}
    BY <2>3, NewTaskState
  <2>5. /\ IF IsHandler(current)
           THEN state' = WithNewTask /\ UNCHANGED <<current, begun, fatal>>
           ELSE angel_SelectNextTask(queue',
                     [WithNewTask EXCEPT ![current] = "Runnable"], type', begun)
        /\ UNCHANGED <<systemCall, deferredBlock, stopped>>
    BY <1>2 DEF angel_SerialiseTaskCore, appl
  <2>. HIDE DEF i
  <2>6. i \in Task /\ signalWaiting' \in [Task -> SUBSET Signals]
    BY <2>3 DEF IInv, TypeOK
  <2>7. \A t \in Task : t \in Task \ free' <=> WithNewTask[t] # "Undefined"
    BY <2>3, <2>4 DEF IInv, QueueIsPool
  <2>8. /\ state' \in [Task -> TaskState] /\ current' \in Task
        /\ begun' \subseteq Task /\ Runner' /\ fatal' = fatal
        /\ \A t \in Task : t \in Task \ free' <=> state'[t] # "Undefined"
        /\ state'[ApplicationTask] = "Blocked" <=> state[ApplicationTask] = "Blocked"
    <3>1. CASE IsHandler(current)
      <4>1. state' = WithNewTask /\ UNCHANGED <<current, begun, fatal>>
        BY <2>5, <3>1
      <4>2. type'[current] = type[current]
        BY <2>3, <2>4, <2>6, CurrentTask DEF IInv, TypeOK
      <4>3. Runner'
        BY <2>4, <4>1, <4>2, FixedTasks DEF IInv, Runner, Begun
      <4>. QED BY <2>4, <2>7, <4>1, <4>3, FixedTasks, CurrentTask DEF IInv, TypeOK
    <3>2. CASE ~IsHandler(current)
      <4>. DEFINE st == [WithNewTask EXCEPT ![current] = "Runnable"]
      <4>1. angel_SelectNextTask(queue', st, type', begun)
        BY <2>5, <3>2
      <4>2. /\ st \in [Task -> TaskState]
            /\ \A t \in Task : st[t] = IF t = current THEN "Runnable" ELSE WithNewTask[t]
        BY <2>4 DEF TaskState
      <4>3. begun = {}
        BY <3>2, CurrentTask
      <4>. HIDE DEF st
      <4>4. \A t \in Task : st[t] # "Running"
        BY <2>4, <4>2 DEF IInv, Runner
      <4>5. \A t \in Task : t \in Task \ free' <=> st[t] # "Undefined"
        BY <2>4, <2>7, <4>2, CurrentTask
      <4>6. st[IdleTask] # "Blocked"
        BY <2>4, <4>2, FixedTasks DEF IInv, Runner
      <4>7. IdleTask \in Task \ free'
        BY <2>3, FixedTasks DEF Kinds
      <4>8. /\ state' \in [Task -> TaskState] /\ current' \in Task
            /\ begun' \subseteq Task /\ Runner' /\ fatal' = fatal
            /\ \A t \in Task : t \in Task \ free' <=> state'[t] # "Undefined"
            /\ \A t \in Task : state'[t] = "Blocked" <=> st[t] = "Blocked"
        <5>1. Task \ free' \in SUBSET Task /\ Lists(queue', Task \ free')
          BY <2>3
        <5>2. st \in [Task -> TaskState]
          BY <4>2
        <5>. QED BY <4>1, <4>3, <4>4, <4>5, <4>6, <4>7, <5>1, <5>2, Dispatched, Zenon
      <4>9. st[ApplicationTask] = "Blocked" <=> state[ApplicationTask] = "Blocked"
        BY <2>4, <4>2, FixedTasks, CurrentTask
      <4>. QED BY <4>8, <4>9, FixedTasks
    <3>. QED BY <3>1, <3>2
  <2>9. TypeOK'
    BY <2>3, <2>5, <2>6, <2>8 DEF IInv, TypeOK, Lists, Priorities
  <2>10. QueueIsPool'
    BY <2>3, <2>8 DEF Lists, QueueIsPool
  <2>11. StopKept'
    <3>1. signalWaiting'[ApplicationTask] = signalWaiting[ApplicationTask]
      BY <2>3, <2>4, <2>6, FixedTasks DEF IInv, TypeOK
    <3>. QED BY <2>5, <2>8, <3>1 DEF IInv, StopKept
  <2>. QED BY <2>3, <2>8, <2>9, <2>10, <2>11 DEF IInv, AlwaysATask
<1>. QED BY <1>1, <1>2

(* Creating a callback makes a task runnable and nothing else: the one that *)
(* creates it goes on.                                                      *)
LEMMA QueueCallbackStep ==
  ASSUME IInv, NEW kind \in {TP_ApplCallBack, TP_AngelCallBack, TP_AngelWantLock},
         Angel_QueueCallback(kind)
  PROVE  IInv'
PROOF
<1>1. CASE free = {} /\ LogFatalError("Cannot create new task")
  BY <1>1, FatalStep
<1>2. CASE UNCHANGED vars
  BY <1>2, StutterStep
<1>3. CASE /\ free # {} /\ HasStack(kind)
           /\ Angel_NewTask(kind, FALSE)
           /\ state' = WithNewTask
           /\ UNCHANGED <<current, begun, appl, fatal>>
  <2>. DEFINE i == Min(free)
  <2>1. /\ i \in free /\ free' = free \ {i}
        /\ Lists(queue', Task \ free')
        /\ type' = [type EXCEPT ![i] = kind]
        /\ type' \in [Task -> TaskType]
        /\ priority' \in [Task -> Priorities]
        /\ signalWaiting' = [signalWaiting EXCEPT ![i] = {}]
        /\ signalReceived' \in [Task -> SUBSET Signals]
        /\ stack' \in [Task -> {SVCStack} \cup USRStack]
        /\ stacksUsed' \subseteq USRStack
        /\ Kinds' /\ StacksKept'
    BY <1>3, NewTaskMade DEF IInv
  <2>2. /\ state' \in [Task -> TaskState]
        /\ \A t \in Task : state'[t] = IF t = i THEN "Runnable" ELSE state[t]
        /\ i \notin {IdleTask, ApplicationTask, current}
    BY <1>3, <2>1, NewTaskState
  <2>3. UNCHANGED <<current, begun, systemCall, deferredBlock, stopped, fatal>>
    BY <1>3 DEF appl
  <2>. HIDE DEF i
  <2>4. i \in Task /\ signalWaiting' \in [Task -> SUBSET Signals]
    BY <2>1 DEF IInv, TypeOK
  <2>5. TypeOK'
    BY <2>1, <2>2, <2>3, <2>4 DEF IInv, TypeOK, Lists, Priorities
  <2>6. QueueIsPool'
    BY <2>1, <2>2, <2>4 DEF IInv, Lists, QueueIsPool
  <2>7. Runner'
    <3>1. type'[current] = type[current]
      BY <2>1, <2>2, <2>4, CurrentTask DEF IInv, TypeOK
    <3>. QED BY <2>2, <2>3, <3>1, FixedTasks DEF IInv, Runner, Begun
  <2>8. StopKept'
    <3>1. signalWaiting'[ApplicationTask] = signalWaiting[ApplicationTask]
      BY <2>1, <2>2, <2>4, FixedTasks DEF IInv, TypeOK
    <3>. QED BY <2>2, <2>3, <3>1, FixedTasks DEF IInv, StopKept
  <2>. QED BY <2>1, <2>3, <2>5, <2>6, <2>7, <2>8 DEF IInv, AlwaysATask
<1>. QED BY <1>1, <1>2, <1>3 DEF Angel_QueueCallback

(* The invariants over the pool, from what a step that creates or deletes   *)
(* no task leaves alone.                                                    *)
LEMMA PoolKept ==
  ASSUME IInv, UNCHANGED <<free, type, stack, stacksUsed>>,
         Lists(queue', Task \ free),
         state' \in [Task -> TaskState],
         \A t \in Task : state'[t] = "Undefined" <=> state[t] = "Undefined"
  PROVE  QueueIsPool' /\ Kinds' /\ StacksKept'
PROOF
<1>1. QueueIsPool'
  BY DEF IInv, Lists, QueueIsPool
<1>2. Kinds' /\ StacksKept'
  BY DEF IInv, Kinds, StacksKept, StacksExclusive, IsHandler, IsCallback
<1>. QED BY <1>1, <1>2

(* A task that waits is a callback or the application in a system call, so  *)
(* a stopped application does not wait and the idle task is never blocked.  *)
LEMMA WaitStep ==
  ASSUME IInv, NEW mask \in SUBSET Event, angel_WaitCore(mask)
  PROVE  IInv'
PROOF
<1>. DEFINE b == mask \cap signalReceived[current]
<1>1. /\ UNCHANGED <<queue, free, type, priority, stack, stacksUsed>>
      /\ UNCHANGED <<systemCall, deferredBlock, stopped>>
      /\ IsCallback(current) \/ InSystemCall
      /\ \/ /\ signalReceived' = [signalReceived EXCEPT ![current] = @ \ b]
            /\ UNCHANGED <<signalWaiting, state, current, begun, fatal>>
         \/ /\ signalWaiting' = [signalWaiting EXCEPT ![current] = mask]
            /\ angel_SelectNextTask(queue, [state EXCEPT ![current] = "Blocked"], type,
                                    begun)
            /\ UNCHANGED signalReceived
  BY DEF angel_WaitCore, appl, run
<1>2. Lists(queue, Task \ free) /\ mask \in SUBSET Signals
  BY DEF IInv, TypeOK, QueueIsPool, Lists, Signals
<1>3. CASE /\ signalReceived' = [signalReceived EXCEPT ![current] = @ \ b]
           /\ UNCHANGED <<signalWaiting, state, current, begun, fatal>>
  <2>1. signalReceived' \in [Task -> SUBSET Signals]
    <3>. HIDE DEF b
    <3>1. signalReceived[current] \ b \in SUBSET Signals
      BY DEF IInv, TypeOK
    <3>. QED BY <1>3, <3>1 DEF IInv, TypeOK
  <2>2. TypeOK' /\ AlwaysATask'
    BY <1>1, <1>3, <2>1 DEF IInv, TypeOK, AlwaysATask
  <2>3. QueueIsPool' /\ Kinds' /\ StacksKept'
    BY <1>1, <1>2, <1>3, CurrentTask, PoolKept
  <2>4. Runner' /\ StopKept'
    BY <1>1, <1>3 DEF IInv, Runner, StopKept
  <2>. QED BY <2>2, <2>3, <2>4 DEF IInv
<1>4. CASE /\ signalWaiting' = [signalWaiting EXCEPT ![current] = mask]
           /\ angel_SelectNextTask(queue, [state EXCEPT ![current] = "Blocked"], type,
                                   begun)
           /\ UNCHANGED signalReceived
  <2>. DEFINE st == [state EXCEPT ![current] = "Blocked"]
  <2>1. /\ st \in [Task -> TaskState]
        /\ \A t \in Task : st[t] = IF t = current THEN "Blocked" ELSE state[t]
    BY CurrentTask DEF TaskState
  <2>2. angel_SelectNextTask(queue, st, type, begun)
    BY <1>4
  <2>3. ~IsHandler(current) /\ current # IdleTask
    BY <1>1, CurrentTask DEF IInv, Kinds, InSystemCall, IsHandler, IsCallback,
       IdleTask, ApplicationTask, TP_AngelWantLock, TP_AngelCallBack, TP_ApplCallBack,
       TP_Application
  <2>4. begun = {}
    BY <2>3, CurrentTask
  <2>. HIDE DEF st
  <2>5. st[IdleTask] # "Blocked"
    BY <2>1, <2>3, FixedTasks DEF IInv, Runner
  <2>6. \A t \in Task : st[t] # "Running"
    BY <2>1 DEF IInv, Runner
  <2>7. \A t \in Task : t \in Task \ free <=> st[t] # "Undefined"
    BY <2>1, CurrentTask DEF IInv, QueueIsPool
  <2>8. IdleTask \in Task \ free /\ Task \ free \in SUBSET Task
    BY FixedTasks DEF IInv, Kinds
  <2>9. \A t \in Task \ free : type[t] = type'[t]
    BY <1>1
  <2>10. /\ state' \in [Task -> TaskState] /\ current' \in Task
         /\ begun' \subseteq Task /\ Runner' /\ fatal' = fatal
         /\ \A t \in Task : t \in Task \ free <=> state'[t] # "Undefined"
         /\ \A t \in Task : state'[t] = "Blocked" <=> st[t] = "Blocked"
    BY <1>2, <2>1, <2>2, <2>4, <2>5, <2>6, <2>7, <2>8, <2>9, Dispatched, Zenon
  <2>11. signalWaiting' \in [Task -> SUBSET Signals]
    BY <1>2, <1>4 DEF IInv, TypeOK
  <2>12. TypeOK' /\ AlwaysATask'
    BY <1>1, <1>4, <2>10, <2>11 DEF IInv, TypeOK, AlwaysATask
  <2>13. QueueIsPool' /\ Kinds' /\ StacksKept'
    <3>1. \A t \in Task : state'[t] = "Undefined" <=> state[t] = "Undefined"
      BY <2>10 DEF IInv, QueueIsPool
    <3>. QED BY <1>1, <1>2, <2>10, <3>1, PoolKept
  <2>14. StopKept'
    <3>1. CASE current = ApplicationTask
      <4>1. systemCall # "none" /\ state[ApplicationTask] # "Blocked"
        BY <1>1, <3>1, CurrentTask DEF InSystemCall
      <4>. QED BY <1>1, <4>1 DEF IInv, StopKept
    <3>2. CASE current # ApplicationTask
      <4>1. /\ signalWaiting'[ApplicationTask] = signalWaiting[ApplicationTask]
            /\ state'[ApplicationTask] = "Blocked" <=> state[ApplicationTask] = "Blocked"
        BY <1>4, <2>1, <2>10, <3>2, FixedTasks DEF IInv, TypeOK
      <4>. QED BY <1>1, <4>1 DEF IInv, StopKept
    <3>. QED BY <3>1, <3>2
  <2>. QED BY <2>10, <2>12, <2>13, <2>14 DEF IInv
<1>. QED BY <1>1, <1>3, <1>4

(* Signals wake tasks and never stop one, and PAUSE is none of them.        *)
LEMMA SignalStep ==
  ASSUME IInv, NEW t \in Task, NEW signals \in SUBSET Event,
         Angel_Signal(t, signals)
  PROVE  IInv'
PROOF
<1>. DEFINE left == signalWaiting[t] \ signals
<1>1. /\ UNCHANGED <<queue, free, type, priority, stack, stacksUsed, current,
                     begun, systemCall, deferredBlock, stopped, fatal>>
      /\ t # IdleTask
      /\ \/ /\ state[t] = "Blocked"
            /\ signalWaiting' = [signalWaiting EXCEPT ![t] = left]
            /\ state' = [state EXCEPT ![t] = IF left = {} THEN "Runnable" ELSE "Blocked"]
            /\ UNCHANGED signalReceived
         \/ /\ signalReceived' = [signalReceived EXCEPT ![t] = @ \cup signals]
            /\ UNCHANGED <<signalWaiting, state>>
  BY DEF Angel_Signal, appl, IdleTask
<1>2. Lists(queue, Task \ free) /\ signals \in SUBSET Signals
  BY DEF IInv, TypeOK, QueueIsPool, Lists, Signals
<1>3. CASE /\ state[t] = "Blocked"
           /\ signalWaiting' = [signalWaiting EXCEPT ![t] = left]
           /\ state' = [state EXCEPT ![t] = IF left = {} THEN "Runnable" ELSE "Blocked"]
           /\ UNCHANGED signalReceived
  <2>1. left \in SUBSET Signals /\ signalWaiting[t] \in SUBSET Signals
    BY DEF IInv, TypeOK
  <2>2. "PAUSE" \in signalWaiting[t] => "PAUSE" \in left
    BY EventAssumption
  <2>. HIDE DEF left
  <2>3. /\ signalWaiting' \in [Task -> SUBSET Signals]
        /\ \A u \in Task : signalWaiting'[u] = IF u = t THEN left ELSE signalWaiting[u]
    BY <1>3, <2>1 DEF IInv, TypeOK
  <2>4. /\ state' \in [Task -> TaskState]
        /\ \A u \in Task : state'[u] = IF u = t
                                       THEN IF left = {} THEN "Runnable" ELSE "Blocked"
                                       ELSE state[u]
    BY <1>3 DEF IInv, TypeOK, TaskState
  <2>5. TypeOK' /\ AlwaysATask'
    BY <1>1, <1>3, <2>3, <2>4 DEF IInv, TypeOK, AlwaysATask
  <2>6. QueueIsPool' /\ Kinds' /\ StacksKept'
    BY <1>1, <1>2, <1>3, <2>4, PoolKept
  <2>7. Runner'
    BY <1>1, <1>3, <2>4, FixedTasks DEF IInv, Runner
  <2>8. StopKept'
    <3>1. CASE t = ApplicationTask
      BY <1>1, <1>3, <2>2, <2>3, <2>4, <3>1 DEF IInv, StopKept
    <3>2. CASE t # ApplicationTask
      BY <1>1, <2>3, <2>4, <3>2, FixedTasks DEF IInv, StopKept
    <3>. QED BY <3>1, <3>2
  <2>. QED BY <2>5, <2>6, <2>7, <2>8 DEF IInv
<1>4. CASE /\ signalReceived' = [signalReceived EXCEPT ![t] = @ \cup signals]
           /\ UNCHANGED <<signalWaiting, state>>
  <2>1. signalReceived' \in [Task -> SUBSET Signals]
    BY <1>2, <1>4 DEF IInv, TypeOK
  <2>2. TypeOK' /\ AlwaysATask'
    BY <1>1, <1>4, <2>1 DEF IInv, TypeOK, AlwaysATask
  <2>3. QueueIsPool' /\ Kinds' /\ StacksKept'
    BY <1>1, <1>2, <1>4, CurrentTask, PoolKept
  <2>4. Runner' /\ StopKept'
    BY <1>1, <1>4 DEF IInv, Runner, StopKept
  <2>. QED BY <2>2, <2>3, <2>4 DEF IInv
<1>. QED BY <1>1, <1>3, <1>4

(* A finished task gives back its entry and its stack.                      *)
LEMMA NextTaskStep ==
  ASSUME IInv, angel_NextTask
  PROVE  IInv'
PROOF
<1>. DEFINE c == current
            st == [state EXCEPT ![c] = "Undefined"]
<1>1. /\ IsHandler(c) \/ IsCallback(c)
      /\ stacksUsed' = stacksUsed \ {stack[c]}
      /\ free'  = free \cup {c}
      /\ queue' = RemoveFirst(queue, c)
      /\ angel_SelectNextTask(queue', st, type, begun \ {c})
      /\ type' = [type EXCEPT ![c] = TP_IdleLoop]
      /\ priority' = [priority EXCEPT ![c] = 0]
      /\ signalWaiting' = [signalWaiting EXCEPT ![c] = {}]
      /\ signalReceived' = [signalReceived EXCEPT ![c] = {}]
      /\ stack' = [stack EXCEPT ![c] = SVCStack]
      /\ UNCHANGED <<systemCall, deferredBlock, stopped>>
  BY DEF angel_NextTask, appl
<1>2. /\ c \in Task /\ c \notin free /\ c \notin {IdleTask, ApplicationTask}
      /\ state[c] = "Running" /\ state \in [Task -> TaskState]
  BY <1>1, CurrentTask
<1>3. Lists(queue', Task \ free')
  <2>1. Lists(queue, Task \ free) /\ c \in Task \ free
    BY <1>2 DEF IInv, TypeOK, QueueIsPool, Lists
  <2>2. Lists(queue', (Task \ free) \ {c})
    BY <1>1, <2>1, Removed
  <2>3. (Task \ free) \ {c} = Task \ free'
    BY <1>1
  <2>. QED BY <2>2, <2>3
<1>4. /\ st \in [Task -> TaskState]
      /\ \A t \in Task : st[t] = IF t = c THEN "Undefined" ELSE state[t]
  BY <1>2 DEF TaskState
<1>5. begun \ {c} = {}
  BY <1>2 DEF IInv, Runner, Begun
<1>. HIDE DEF st
<1>6. /\ TP_IdleLoop \in TaskType /\ 0 \in Priorities
      /\ {} \in SUBSET Signals
  BY DEF TaskType, Priorities, TaskPriorityOf, TP_AngelWantLock
<1>7. /\ type' \in [Task -> TaskType] /\ priority' \in [Task -> Priorities]
      /\ signalWaiting' \in [Task -> SUBSET Signals]
      /\ signalReceived' \in [Task -> SUBSET Signals]
      /\ stack' \in [Task -> {SVCStack} \cup USRStack]
      /\ stacksUsed' \subseteq USRStack /\ free' \subseteq Task
  BY <1>1, <1>2, <1>6 DEF IInv, TypeOK, Priorities
<1>8. \A t \in Task : /\ t \notin free' <=> t \notin free /\ t # c
                      /\ t # c => /\ type'[t] = type[t] /\ stack'[t] = stack[t]
                                  /\ signalWaiting'[t] = signalWaiting[t]
  BY <1>1, <1>2 DEF IInv, TypeOK
<1>9. /\ state' \in [Task -> TaskState] /\ current' \in Task
      /\ begun' \subseteq Task /\ Runner' /\ fatal' = fatal
      /\ \A t \in Task : t \in Task \ free' <=> state'[t] # "Undefined"
      /\ \A t \in Task : state'[t] = "Blocked" <=> st[t] = "Blocked"
  <2>1. IdleTask \in Task \ free' /\ Task \ free' \in SUBSET Task
    BY <1>2, <1>8, FixedTasks DEF IInv, Kinds
  <2>2. \A t \in Task \ free' : type[t] = type'[t]
    BY <1>8
  <2>3. st[IdleTask] # "Blocked"
    BY <1>2, <1>4, FixedTasks DEF IInv, Runner
  <2>4. \A t \in Task : st[t] # "Running"
    BY <1>4 DEF IInv, Runner
  <2>5. \A t \in Task : t \in Task \ free' <=> st[t] # "Undefined"
    BY <1>4, <1>8 DEF IInv, QueueIsPool
  <2>6. angel_SelectNextTask(queue', st, type, begun \ {c})
    BY <1>1
  <2>. QED BY <1>3, <1>4, <1>5, <2>1, <2>2, <2>3, <2>4, <2>5, <2>6, Dispatched, Zenon
<1>10. TypeOK' /\ AlwaysATask'
  BY <1>1, <1>3, <1>7, <1>9 DEF IInv, TypeOK, AlwaysATask, Lists, Priorities
<1>11. QueueIsPool'
  BY <1>3, <1>9 DEF QueueIsPool, Lists
<1>12. Kinds'
  BY <1>2, <1>8, FixedTasks DEF IInv, Kinds, IsHandler, IsCallback
<1>13. StacksKept'
  <2>. DEFINE user(f, k) == {t \in Task \ f : k[t] # TP_AngelWantLock}
  <2>1. /\ stacksUsed = {stack[t] : t \in user(free, type)}
        /\ \A t, u \in user(free, type) : stack[t] = stack[u] => t = u
    BY DEF IInv, StacksKept, StacksExclusive, IsHandler
  <2>2. /\ user(free', type') = user(free, type) \ {c}
        /\ \A t \in user(free', type') : stack'[t] = stack[t]
    BY <1>8
  <2>3. c \in user(free, type) \/ stack[c] \notin stacksUsed
    BY <1>2, FixedTasks DEF IInv, TypeOK, StacksKept, IsHandler
  <2>. HIDE DEF user
  <2>4. /\ stacksUsed' = {stack'[t] : t \in user(free', type')}
        /\ \A t, u \in user(free', type') : stack'[t] = stack'[u] => t = u
    <3>1. stacksUsed \ {stack[c]} = {stack[t] : t \in user(free, type) \ {c}}
      <4>1. CASE c \in user(free, type)
        BY <2>1, <4>1
      <4>2. CASE c \notin user(free, type)
        <5>1. stack[c] \notin stacksUsed /\ user(free, type) \ {c} = user(free, type)
          BY <2>3, <4>2
        <5>. QED BY <2>1, <5>1
      <4>. QED BY <4>1, <4>2
    <3>2. {stack'[t] : t \in user(free', type')} = {stack[t] : t \in user(free, type) \ {c}}
      BY <2>2
    <3>3. stacksUsed' = {stack'[t] : t \in user(free', type')}
      BY <1>1, <3>1, <3>2, Zenon
    <3>4. ASSUME NEW t \in user(free', type'), NEW u \in user(free', type'),
                 stack'[t] = stack'[u]
          PROVE  t = u
      <4>1. t \in user(free, type) /\ u \in user(free, type) /\ stack[t] = stack[u]
        BY <2>2, <3>4
      <4>. QED BY <2>1, <4>1
    <3>. QED BY <3>3, <3>4
  <2>5. StacksExclusive'
    BY <2>4 DEF StacksExclusive, IsHandler, user
  <2>6. \A t \in Task \ free' :
          stack'[t] \in IF type'[t] = TP_AngelWantLock THEN {SVCStack} ELSE USRStack
    BY <1>8 DEF IInv, StacksKept, IsHandler
  <2>. QED BY <2>5, <2>6 DEF StacksKept, IsHandler
<1>14. StopKept'
  <2>1. /\ state'[ApplicationTask] = "Blocked" <=> state[ApplicationTask] = "Blocked"
        /\ signalWaiting'[ApplicationTask] = signalWaiting[ApplicationTask]
    BY <1>2, <1>4, <1>8, <1>9, FixedTasks
  <2>. QED BY <1>1, <2>1 DEF IInv, StopKept
<1>. QED BY <1>9, <1>10, <1>11, <1>12, <1>13, <1>14 DEF IInv

(* EnterSWI and ExitSWI move the application in the list.                   *)
LEMMA EnterStep ==
  ASSUME IInv, NEW kind \in {"clib", "device"}, EnterSystemCall(kind)
  PROVE  IInv'
PROOF
<1>1. /\ current = ApplicationTask /\ systemCall = "none" /\ systemCall' = kind
      /\ \/ angel_SetPriority(ApplicationTask, TaskPriorityOf(TP_AngelCallBack))
         \/ UNCHANGED <<queue, priority>>
      /\ UNCHANGED <<free, type, signalWaiting, signalReceived, stack, stacksUsed,
                     state, current, begun, deferredBlock, stopped, fatal>>
  BY DEF EnterSystemCall, run
<1>2. TaskPriorityOf(TP_AngelCallBack) \in Priorities /\ ApplicationTask \in Task \ free
  BY FixedTasks DEF IInv, Kinds, TaskPriorityOf, TP_AngelCallBack, TP_AngelWantLock,
                    Priorities
<1>3. Lists(queue', Task \ free) /\ priority' \in [Task -> Priorities]
  <2>1. CASE angel_SetPriority(ApplicationTask, TaskPriorityOf(TP_AngelCallBack))
    BY <1>2, <2>1, PrioritySet DEF IInv
  <2>2. CASE UNCHANGED <<queue, priority>>
    BY <2>2 DEF IInv, TypeOK, QueueIsPool, Lists, Priorities
  <2>. QED BY <1>1, <2>1, <2>2
<1>4. TypeOK' /\ AlwaysATask'
  BY <1>1, <1>3 DEF IInv, TypeOK, AlwaysATask, Lists, Priorities
<1>5. QueueIsPool' /\ Kinds' /\ StacksKept'
  BY <1>1, <1>3, CurrentTask, PoolKept
<1>6. Runner'
  BY <1>1 DEF IInv, Runner
<1>7. StopKept'
  BY <1>1, CurrentTask DEF IInv, StopKept
<1>. QED BY <1>4, <1>5, <1>6, <1>7 DEF IInv

(* The end of a system call carries out the block that was deferred.        *)
LEMMA ReturnStep ==
  ASSUME IInv, SysCallReturn
  PROVE  IInv'
PROOF
<1>1. CASE ~angel_SWIReturnToApp /\ LogFatalError("System Call Return with no Call")
  BY <1>1, FatalStep
<1>2. CASE angel_SWIReturnToApp
  <2>. DEFINE a == ApplicationTask
              st == [state EXCEPT ![a] = "Blocked"]
  <2>1. /\ current = a /\ systemCall = "clib"
        /\ angel_SetPriority(a, TaskPriorityOf(TP_Application))
        /\ systemCall' = "none" /\ deferredBlock' = FALSE
        /\ \/ /\ deferredBlock
              /\ signalWaiting' = [signalWaiting EXCEPT ![a] = {"PAUSE"}]
              /\ angel_SelectNextTask(queue', st, type, begun)
           \/ /\ ~deferredBlock
              /\ UNCHANGED <<signalWaiting, state, current, begun, fatal>>
        /\ UNCHANGED <<free, type, signalReceived, stack, stacksUsed, stopped>>
    BY <1>2 DEF SysCallReturn, InSystemCall, angel_SWIReturnToApp, run
  <2>2. TaskPriorityOf(TP_Application) \in Priorities /\ a \in Task \ free
    BY FixedTasks DEF IInv, Kinds, TaskPriorityOf, TP_Application, TP_AngelWantLock,
                      Priorities
  <2>3. Lists(queue', Task \ free) /\ priority' \in [Task -> Priorities]
    BY <2>1, <2>2, PrioritySet DEF IInv
  <2>4. CASE /\ deferredBlock
             /\ signalWaiting' = [signalWaiting EXCEPT ![a] = {"PAUSE"}]
             /\ angel_SelectNextTask(queue', st, type, begun)
    <3>1. /\ st \in [Task -> TaskState]
          /\ \A t \in Task : st[t] = IF t = a THEN "Blocked" ELSE state[t]
      BY <2>2, CurrentTask DEF TaskState
    <3>2. /\ signalWaiting' \in [Task -> SUBSET Signals]
          /\ "PAUSE" \in signalWaiting'[a]
      BY <2>2, <2>4 DEF IInv, TypeOK, Signals
    <3>3. begun = {}
      <4>1. ~IsHandler(current)
        BY <2>1 DEF IInv, Kinds, IsHandler, TP_Application, TP_AngelWantLock
      <4>. QED BY <4>1, CurrentTask
    <3>. HIDE DEF st
    <3>4. st[IdleTask] # "Blocked"
      BY <3>1, FixedTasks DEF IInv, Runner, IdleTask, ApplicationTask
    <3>5. \A t \in Task : st[t] # "Running"
      BY <2>1, <3>1 DEF IInv, Runner
    <3>6. \A t \in Task : t \in Task \ free <=> st[t] # "Undefined"
      BY <2>2, <3>1 DEF IInv, QueueIsPool
    <3>7. IdleTask \in Task \ free /\ Task \ free \in SUBSET Task
      BY FixedTasks DEF IInv, Kinds
    <3>8. \A t \in Task \ free : type[t] = type'[t]
      BY <2>1
    <3>9. /\ state' \in [Task -> TaskState] /\ current' \in Task
          /\ begun' \subseteq Task /\ Runner' /\ fatal' = fatal
          /\ \A t \in Task : t \in Task \ free <=> state'[t] # "Undefined"
          /\ \A t \in Task : state'[t] = "Blocked" <=> st[t] = "Blocked"
      BY <2>3, <2>4, <3>1, <3>3, <3>4, <3>5, <3>6, <3>7, <3>8, Dispatched, Zenon
    <3>10. TypeOK' /\ AlwaysATask'
      BY <2>1, <2>3, <3>2, <3>9 DEF IInv, TypeOK, AlwaysATask, Lists, Priorities
    <3>11. QueueIsPool' /\ Kinds' /\ StacksKept'
      <4>1. \A t \in Task : state'[t] = "Undefined" <=> state[t] = "Undefined"
        BY <3>9 DEF IInv, QueueIsPool
      <4>. QED BY <2>1, <2>3, <3>9, <4>1, PoolKept
    <3>12. StopKept'
      <4>1. state'[a] = "Blocked"
        BY <2>2, <3>1, <3>9
      <4>. QED BY <2>1, <3>2, <4>1 DEF StopKept
    <3>. QED BY <3>9, <3>10, <3>11, <3>12 DEF IInv
  <2>5. CASE /\ ~deferredBlock
             /\ UNCHANGED <<signalWaiting, state, current, begun, fatal>>
    <3>1. TypeOK' /\ AlwaysATask'
      BY <2>1, <2>3, <2>5 DEF IInv, TypeOK, AlwaysATask, Lists, Priorities
    <3>2. QueueIsPool' /\ Kinds' /\ StacksKept'
      BY <2>1, <2>3, <2>5, CurrentTask, PoolKept
    <3>3. Runner' /\ StopKept'
      BY <2>1, <2>5 DEF IInv, Runner, StopKept
    <3>. QED BY <3>1, <3>2, <3>3 DEF IInv
  <2>. QED BY <2>1, <2>4, <2>5
<1>. QED BY <1>1, <1>2 DEF SysCallReturn

(* BlockApplication is called by a task other than the application, which   *)
(* is therefore not running.                                                *)
LEMMA BlockStep ==
  ASSUME IInv, NEW value \in BOOLEAN, Angel_BlockApplication(value)
  PROVE  IInv'
PROOF
<1>. DEFINE a == ApplicationTask
<1>1. /\ IsHandler(current) \/ IsCallback(current)
      /\ stopped' = value
      /\ \/ /\ systemCall = "clib" /\ deferredBlock' = TRUE
            /\ UNCHANGED <<signalWaiting, state>>
         \/ /\ systemCall # "clib"
            /\ signalWaiting' = [signalWaiting EXCEPT ![a] =
                                   IF value THEN {"PAUSE"} ELSE {}]
            /\ state' = [state EXCEPT ![a] = IF value THEN "Blocked" ELSE "Runnable"]
            /\ UNCHANGED deferredBlock
      /\ UNCHANGED <<queue, free, type, priority, signalReceived, stack, stacksUsed,
                     current, begun, systemCall, fatal>>
  BY DEF Angel_BlockApplication, angel_SWIReturnToApp, IsCallback
<1>2. current # a /\ a \in Task /\ a # IdleTask /\ a \notin free
  BY <1>1, CurrentTask, FixedTasks DEF IInv, Kinds, IdleTask, ApplicationTask
<1>3. Lists(queue', Task \ free)
  BY <1>1 DEF IInv, TypeOK, QueueIsPool, Lists
<1>4. CASE /\ systemCall = "clib" /\ deferredBlock' = TRUE
           /\ UNCHANGED <<signalWaiting, state>>
  <2>1. TypeOK' /\ AlwaysATask'
    BY <1>1, <1>4 DEF IInv, TypeOK, AlwaysATask
  <2>2. QueueIsPool' /\ Kinds' /\ StacksKept'
    BY <1>1, <1>3, <1>4, CurrentTask, PoolKept
  <2>3. Runner' /\ StopKept'
    BY <1>1, <1>4 DEF IInv, Runner, StopKept
  <2>. QED BY <2>1, <2>2, <2>3 DEF IInv
<1>5. CASE /\ systemCall # "clib"
           /\ signalWaiting' = [signalWaiting EXCEPT ![a] =
                                  IF value THEN {"PAUSE"} ELSE {}]
           /\ state' = [state EXCEPT ![a] = IF value THEN "Blocked" ELSE "Runnable"]
           /\ UNCHANGED deferredBlock
  <2>1. /\ signalWaiting' \in [Task -> SUBSET Signals]
        /\ value => "PAUSE" \in signalWaiting'[a]
    BY <1>2, <1>5 DEF IInv, TypeOK, Signals
  <2>2. /\ state' \in [Task -> TaskState]
        /\ \A t \in Task : state'[t] = IF t = a THEN IF value THEN "Blocked" ELSE "Runnable"
                                       ELSE state[t]
    BY <1>2, <1>5 DEF IInv, TypeOK, TaskState
  <2>3. TypeOK' /\ AlwaysATask'
    BY <1>1, <1>5, <2>1, <2>2 DEF IInv, TypeOK, AlwaysATask
  <2>4. QueueIsPool' /\ Kinds' /\ StacksKept'
    <3>1. \A t \in Task : state'[t] = "Undefined" <=> state[t] = "Undefined"
      BY <1>2, <2>2 DEF IInv, QueueIsPool
    <3>. QED BY <1>1, <1>3, <2>2, <3>1, PoolKept
  <2>5. Runner'
    BY <1>1, <1>2, <2>2, FixedTasks DEF IInv, Runner
  <2>6. StopKept'
    BY <1>1, <1>2, <1>5, <2>1, <2>2 DEF StopKept
  <2>. QED BY <2>3, <2>4, <2>5, <2>6 DEF IInv
<1>. QED BY <1>1, <1>4, <1>5

-----------------------------------------------------------------------------
LEMMA NextInvariant == IInv /\ [Next]_vars => IInv'
PROOF
<1>. SUFFICES ASSUME IInv, [Next]_vars PROVE IInv'
  OBVIOUS
<1>1. CASE Interrupt
  BY <1>1, SerialiseStep DEF Interrupt
<1>2. CASE Angel_Yield
  BY <1>2, SerialiseStep DEF Angel_Yield
<1>3. CASE \E kind \in {TP_ApplCallBack, TP_AngelCallBack, TP_AngelWantLock} :
             Angel_QueueCallback(kind)
  BY <1>3, QueueCallbackStep
<1>4. CASE \E mask \in SUBSET Event \ {{}} : angel_WaitCore(mask)
  BY <1>4, WaitStep
<1>5. CASE \E t \in Task, signals \in SUBSET Event \ {{}} : Angel_Signal(t, signals)
  BY <1>5, SignalStep
<1>6. CASE angel_NextTask
  BY <1>6, NextTaskStep
<1>7. CASE \E kind \in {"clib", "device"} : EnterSystemCall(kind)
  BY <1>7, EnterStep
<1>8. CASE SysCallReturn
  BY <1>8, ReturnStep
<1>9. CASE \E value \in BOOLEAN : Angel_BlockApplication(value)
  BY <1>9, BlockStep
<1>10. CASE UNCHANGED vars
  BY <1>10, StutterStep
<1>. QED BY <1>1, <1>2, <1>3, <1>4, <1>5, <1>6, <1>7, <1>8, <1>9, <1>10 DEF Next

LEMMA Invariant == Spec => []IInv
PROOF
  BY InitInvariant, NextInvariant, PTL DEF Spec

(* The fields of the pool keep their ranges; no stack lies outside the      *)
(* area.                                                                    *)
THEOREM TypeCorrect == Spec => []TypeOK
PROOF
<1>1. IInv => TypeOK
  BY DEF IInv
<1>. QED BY <1>1, Invariant, PTL

(* The list always holds the allocated entries, each once, through every    *)
(* insertion, deletion and change of priority.                              *)
THEOREM ListIsPool == Spec => []QueueIsPool
PROOF
<1>1. IInv => QueueIsPool
  BY DEF IInv
<1>. QED BY <1>1, Invariant, PTL

(* Exactly the current task is marked as running.                           *)
THEOREM OneRunner == Spec => []RunnerIsCurrent
PROOF
<1>1. IInv => RunnerIsCurrent
  BY DEF IInv, Runner, RunnerIsCurrent
<1>. QED BY <1>1, Invariant, PTL

(* A handler that has begun runs to its end: the handlers share one stack   *)
(* and never find another's frames on it.                                   *)
THEOREM HandlersRunAlone == Spec => []SVCStackExclusive
PROOF
<1>1. IInv => SVCStackExclusive
  BY DEF IInv, Runner, SVCStackExclusive, Begun
<1>. QED BY <1>1, Invariant, PTL

(* Every task that runs in USR mode has a stack of its own, and the bit map *)
(* marks exactly those.                                                     *)
THEOREM OwnStacks == Spec => []StacksExclusive
PROOF
<1>1. IInv => StacksExclusive
  BY DEF IInv, StacksKept
<1>. QED BY <1>1, Invariant, PTL

(* SelectNextTask never falls off the end of the list.                      *)
THEOREM AlwaysATaskToRun == Spec => []AlwaysATask
PROOF
<1>1. IInv => AlwaysATask
  BY DEF IInv
<1>. QED BY <1>1, Invariant, PTL

(* The application does not run in its own code while the debugger has      *)
(* stopped it, whatever the system call, signals and interrupts in between. *)
THEOREM StopIsHonoured == Spec => []StopHonoured
PROOF
<1>1. ASSUME IInv, stopped, current = ApplicationTask, systemCall = "none"
      PROVE  FALSE
  <2>1. state[ApplicationTask] = "Blocked"
    BY <1>1 DEF IInv, StopKept
  <2>. QED BY <1>1, <2>1, CurrentTask
<1>2. IInv => StopHonoured
  BY <1>1 DEF StopHonoured
<1>. QED BY <1>2, Invariant, PTL

-----------------------------------------------------------------------------
(* The order of the list.  The priority field of the application is not     *)
(* always the one it was placed by; what stays true is that no task behind  *)
(* it has a higher priority than that field says.                           *)
Sorted(q, pr) ==
  \A i, j \in 1 .. Len(q) : i < j /\ q[j] # ApplicationTask => pr[q[j]] <= pr[q[i]]

Ranked == \A t \in Task \ free : t # ApplicationTask => priority[t] = TaskPriorityOf(type[t])

OrderKept == Ranked /\ Sorted(queue, priority)

(* EnqueueTask keeps the order if the task's field is at most one more than *)
(* the priority it is placed by (a task that yielded) and is not less, or   *)
(* is not less than any other.                                              *)
LEMMA SortedInsert ==
  ASSUME NEW S \in SUBSET Task, NEW q, Lists(q, S), NEW t \in Task, t \notin S,
         priority \in [Task -> Int], Sorted(q, priority),
         NEW pr \in [Task -> Int], \A u \in S : pr[u] = priority[u],
         NEW pri \in Int,
         t # ApplicationTask => pr[t] <= pri + 1,
         pri <= pr[t] \/ \A u \in S : priority[u] <= pr[t]
  PROVE  Sorted(angel_EnqueueTask(q, t, pri), pr)
PROOF
<1>. DEFINE K == {k \in 1 .. Len(q) : priority[q[k]] <= pri} \cup {Len(q) + 1}
            m == Min(K)
            r == InsertAt(q, m, t)
<1>1. /\ Len(q) \in Nat
      /\ \A k \in 1 .. Len(q) : q[k] \in S /\ q[k] \in Task
  BY DEF Lists, ToSet
<1>2. K \subseteq 1 .. Len(q) + 1 /\ K # {} /\ K \subseteq Nat
  BY <1>1
<1>3. angel_EnqueueTask(q, t, pri) = r
  BY DEF angel_EnqueueTask
<1>4. /\ m \in 1 .. Len(q) + 1
      /\ m \in 1 .. Len(q) => priority[q[m]] <= pri
      /\ \A k \in 1 .. m - 1 : priority[q[k]] > pri
  <2>1. m \in K /\ \A x \in K : m <= x
    <3>. HIDE DEF K
    <3>. QED BY <1>2, MinNat
  <2>2. ASSUME NEW k \in 1 .. m - 1 PROVE priority[q[k]] > pri
    <3>1. m \in 1 .. Len(q) + 1
      BY <1>2, <2>1
    <3>. HIDE DEF m
    <3>2. k \in 1 .. Len(q) /\ ~(m <= k)
      BY <1>1, <3>1
    <3>3. ~(priority[q[k]] <= pri)
      BY <2>1, <3>2
    <3>4. priority[q[k]] \in Int
      BY <1>1, <3>2
    <3>. QED BY <3>3, <3>4
  <2>. HIDE DEF m
  <2>3. m \in 1 .. Len(q) => priority[q[m]] <= pri
    BY <1>1, <2>1
  <2>. QED BY <1>2, <2>1, <2>2, <2>3
<1>. HIDE DEF K, m
<1>5. /\ Len(r) = Len(q) + 1
      /\ \A i \in 1 .. m - 1 : r[i] = q[i]
      /\ r[m] = t
      /\ \A i \in m + 1 .. Len(q) + 1 : r[i] = q[i - 1]
  BY <1>4, InsertedElements
<1>. HIDE DEF r
<1>6. ASSUME NEW i \in 1 .. Len(q) + 1, NEW j \in 1 .. Len(q) + 1,
             i < j, r[j] # ApplicationTask
      PROVE  pr[r[j]] <= pr[r[i]]
  <2>1. \A x, y \in 1 .. Len(q) :
          x < y /\ q[y] # ApplicationTask => pr[q[y]] <= pr[q[x]]
    BY <1>1 DEF Sorted
  <2>2. \A k \in 1 .. Len(q) : pr[q[k]] = priority[q[k]] /\ pr[q[k]] \in Int
    BY <1>1
  <2>3. pr[t] \in Int
    OBVIOUS
  <2>4. CASE j < m
    <3>1. i \in 1 .. m - 1 /\ j \in 1 .. m - 1 /\ i \in 1 .. Len(q) /\ j \in 1 .. Len(q)
      BY <1>1, <1>4, <1>6, <2>4
    <3>2. r[i] = q[i] /\ r[j] = q[j]
      BY <1>5, <3>1
    <3>. QED BY <1>6, <2>1, <3>1, <3>2
  <2>5. CASE j = m
    <3>1. i \in 1 .. m - 1 /\ i \in 1 .. Len(q)
      BY <1>1, <1>4, <1>6, <2>5
    <3>2. r[i] = q[i] /\ r[j] = t
      BY <1>5, <2>5, <3>1
    <3>3. priority[q[i]] > pri /\ pr[t] <= pri + 1
      BY <1>4, <1>6, <3>1, <3>2
    <3>. QED BY <2>2, <2>3, <3>1, <3>2, <3>3
  <2>6. CASE j > m
    <3>1. j - 1 \in 1 .. Len(q) /\ r[j] = q[j - 1]
      BY <1>1, <1>4, <1>5, <2>6
    <3>2. CASE i < m
      <4>1. i \in 1 .. Len(q) /\ r[i] = q[i] /\ i < j - 1
        BY <1>1, <1>4, <1>5, <2>6, <3>2
      <4>. QED BY <1>6, <2>1, <3>1, <4>1
    <3>3. CASE i = m
      <4>1. CASE pri <= pr[t]
        <5>1. m \in 1 .. Len(q) /\ priority[q[m]] <= pri
          BY <1>1, <1>4, <2>6, <3>1
        <5>2. pr[q[j - 1]] <= pr[q[m]]
          <6>1. CASE m < j - 1
            BY <1>6, <2>1, <3>1, <5>1, <6>1
          <6>2. CASE m = j - 1
            BY <2>2, <3>1, <5>1, <6>2
          <6>. QED BY <1>4, <2>6, <6>1, <6>2
        <5>. QED BY <1>5, <2>2, <2>3, <3>1, <3>3, <4>1, <5>1, <5>2
      <4>2. CASE \A u \in S : priority[u] <= pr[t]
        BY <1>1, <1>5, <2>2, <3>1, <3>3, <4>2
      <4>. QED BY <4>1, <4>2
    <3>4. CASE i > m
      <4>1. i - 1 \in 1 .. Len(q) /\ r[i] = q[i - 1] /\ i - 1 < j - 1
        BY <1>1, <1>4, <1>5, <1>6, <3>4
      <4>. QED BY <1>6, <2>1, <3>1, <4>1
    <3>. QED BY <1>4, <3>2, <3>3, <3>4
  <2>. QED BY <1>4, <2>4, <2>5, <2>6
<1>. QED BY <1>3, <1>5, <1>6 DEF Sorted

LEMMA SortedRemove ==
  ASSUME NEW S \in SUBSET Task, NEW q, Lists(q, S), NEW t \in S,
         NEW pr, Sorted(q, pr)
  PROVE  Sorted(RemoveFirst(q, t), pr)
PROOF
<1>. DEFINE r == RemoveFirst(q, t)
<1>1. Len(q) \in Nat
  BY DEF Lists
<1>2. PICK k \in 1 .. Len(q) :
        /\ Len(r) = Len(q) - 1
        /\ \A i \in 1 .. k - 1 : r[i] = q[i]
        /\ \A i \in k .. Len(q) - 1 : r[i] = q[i + 1]
  BY RemovedElements
<1>. HIDE DEF r
<1>3. ASSUME NEW i \in 1 .. Len(r), NEW j \in 1 .. Len(r), i < j,
             r[j] # ApplicationTask
      PROVE  pr[r[j]] <= pr[r[i]]
  <2>1. PICK x, y \in 1 .. Len(q) : x < y /\ r[i] = q[x] /\ r[j] = q[y]
    <3>1. CASE j < k
      BY <1>1, <1>2, <1>3, <3>1
    <3>2. CASE i < k /\ j >= k
      <4>1. i \in 1 .. Len(q) /\ j + 1 \in 1 .. Len(q) /\ i < j + 1
        BY <1>1, <1>2, <3>2
      <4>2. r[i] = q[i] /\ r[j] = q[j + 1]
        BY <1>1, <1>2, <3>2
      <4>. QED BY <4>1, <4>2
    <3>3. CASE i >= k
      <4>1. i + 1 \in 1 .. Len(q) /\ j + 1 \in 1 .. Len(q) /\ i + 1 < j + 1
        BY <1>1, <1>2, <1>3, <3>3
      <4>2. i \in k .. Len(q) - 1 /\ j \in k .. Len(q) - 1
        BY <1>1, <1>2, <1>3, <3>3
      <4>3. r[i] = q[i + 1] /\ r[j] = q[j + 1]
        BY <1>2, <4>2
      <4>. QED BY <4>1, <4>3
    <3>4. i \in Int /\ j \in Int /\ k \in Int
      BY <1>1, <1>2
    <3>. QED BY <3>1, <3>2, <3>3, <3>4
  <2>. QED BY <1>3, <2>1 DEF Sorted
<1>. QED BY <1>3 DEF Sorted, r

LEMMA PriorityIsNumber == IInv => priority \in [Task -> Int]
PROOF
<1>1. 0 .. TaskPriorityOf(TP_AngelWantLock) \subseteq Int
  BY DEF TaskPriorityOf, TP_AngelWantLock
<1>. QED BY <1>1 DEF IInv, TypeOK

(* A change of the application's priority keeps the order, although at the  *)
(* head of the list its field stays as it was.                              *)
LEMMA SortedSetPriority ==
  ASSUME IInv, OrderKept, NEW pri \in Priorities,
         angel_SetPriority(ApplicationTask, pri),
         UNCHANGED <<free, type>>
  PROVE  OrderKept'
PROOF
<1>. DEFINE a == ApplicationTask
            S == Task \ free
            q == RemoveFirst(queue, a)
<1>1. /\ Lists(queue, S) /\ a \in S /\ S \in SUBSET Task
      /\ priority \in [Task -> Int] /\ pri \in Int
  <2>1. Lists(queue, S) /\ a \in S /\ S \in SUBSET Task
    BY FixedTasks DEF IInv, Kinds, TypeOK, QueueIsPool, Lists
  <2>2. pri \in Int
    BY DEF Priorities, TaskPriorityOf, TP_AngelWantLock
  <2>. QED BY <2>1, <2>2, PriorityIsNumber
<1>2. Lists(q, S \ {a}) /\ Sorted(q, priority)
  BY <1>1, Removed, SortedRemove DEF OrderKept
<1>3. queue' = angel_EnqueueTask(q, a, pri)
  BY DEF angel_SetPriority
<1>4. /\ priority' \in [Task -> Int]
      /\ \A u \in Task : u # a => priority'[u] = priority[u]
      /\ pri <= priority'[a] \/ \A u \in S \ {a} : priority[u] <= priority'[a]
  <2>1. CASE Head(queue) = a
    <3>1. priority' = priority
      BY <2>1 DEF angel_SetPriority
    <3>2. Len(queue) \in Nat /\ 1 \in 1 .. Len(queue) /\ queue[1] = a
      <4>1. PICK k \in 1 .. Len(queue) : queue[k] = a
        BY <1>1 DEF Lists, ToSet
      <4>2. Len(queue) \in Nat
        BY <1>1 DEF Lists
      <4>. QED BY <2>1, <4>1, <4>2
    <3>3. ASSUME NEW u \in S \ {a} PROVE priority[u] <= priority[a]
      <4>1. PICK k \in 1 .. Len(queue) : queue[k] = u
        BY <1>1 DEF Lists, ToSet
      <4>2. 1 < k
        BY <3>2, <4>1
      <4>. QED BY <3>2, <4>1, <4>2 DEF OrderKept, Sorted
    <3>. QED BY <1>1, <3>1, <3>3
  <2>2. CASE Head(queue) # a
    BY <1>1, <2>2 DEF angel_SetPriority
  <2>. QED BY <2>1, <2>2
<1>. HIDE DEF q
<1>5. S \ {a} \in SUBSET Task /\ a \in Task /\ a \notin S \ {a}
  BY <1>1
<1>6. \A u \in S \ {a} : priority'[u] = priority[u]
  BY <1>1, <1>4
<1>7. Sorted(angel_EnqueueTask(q, a, pri), priority')
  BY <1>1, <1>2, <1>4, <1>5, <1>6, SortedInsert
<1>8. Ranked'
  BY <1>4 DEF OrderKept, Ranked
<1>. QED BY <1>3, <1>7, <1>8 DEF OrderKept

LEMMA SortedNewTask ==
  ASSUME IInv, OrderKept,
         NEW kind \in {TP_ApplCallBack, TP_AngelCallBack, TP_AngelWantLock},
         NEW yielded, free # {}, HasStack(kind), Angel_NewTask(kind, yielded)
  PROVE  OrderKept'
PROOF
<1>. DEFINE i == Min(free)
            S == Task \ free
            p == TaskPriorityOf(kind)
            pri == IF yielded THEN p - 1 ELSE p
<1>1. /\ i \in free /\ free' = free \ {i}
      /\ type' = [type EXCEPT ![i] = kind]
  BY NewTaskMade DEF IInv
<1>2. /\ priority' = [priority EXCEPT ![i] = p]
      /\ queue' = angel_EnqueueTask(queue, i, pri)
  BY DEF Angel_NewTask
<1>3. /\ Lists(queue, S) /\ S \in SUBSET Task /\ i \in Task /\ i \notin S
      /\ priority \in [Task -> Int] /\ i # ApplicationTask
  <2>1. Lists(queue, S) /\ S \in SUBSET Task
    BY DEF IInv, TypeOK, QueueIsPool, Lists
  <2>. HIDE DEF i
  <2>2. i \in Task /\ i \notin S /\ i # ApplicationTask
    BY <1>1 DEF IInv, Kinds, TypeOK
  <2>. QED BY <2>1, <2>2, PriorityIsNumber
<1>4. p \in Int
  BY DEF TaskPriorityOf, TP_ApplCallBack, TP_AngelCallBack, TP_AngelWantLock
<1>. HIDE DEF i, p
<1>5. /\ priority' \in [Task -> Int] /\ priority'[i] = p
      /\ \A u \in S : priority'[u] = priority[u]
  BY <1>2, <1>3, <1>4
<1>6. pri \in Int /\ priority'[i] <= pri + 1 /\ pri <= priority'[i]
  BY <1>4, <1>5
<1>. HIDE DEF pri
<1>7. Sorted(queue, priority)
  BY DEF OrderKept
<1>8. Sorted(angel_EnqueueTask(queue, i, pri), priority')
  BY <1>3, <1>5, <1>6, <1>7, SortedInsert
<1>9. Ranked'
  <2>1. \A t \in Task \ free' : t = i \/ t \in S
    BY <1>1
  <2>2. type'[i] = kind /\ \A u \in S : type'[u] = type[u]
    BY <1>1, <1>3 DEF IInv, TypeOK
  <2>. QED BY <1>5, <2>1, <2>2 DEF OrderKept, Ranked, p
<1>. QED BY <1>2, <1>8, <1>9 DEF OrderKept

LEMMA OrderNext == IInv /\ OrderKept /\ [Next]_vars => OrderKept'
PROOF
<1>. SUFFICES ASSUME IInv, OrderKept, [Next]_vars PROVE OrderKept'
  OBVIOUS
<1>1. ASSUME UNCHANGED <<queue, free, type, priority>> PROVE OrderKept'
  BY <1>1 DEF OrderKept, Ranked, Sorted
<1>2. ASSUME NEW what, LogFatalError(what) PROVE OrderKept'
  BY <1>1, <1>2 DEF LogFatalError, pool
<1>3. ASSUME NEW yielded, angel_SerialiseTaskCore(yielded) PROVE OrderKept'
  <2>1. CASE free = {}
    BY <1>2, <1>3, <2>1 DEF angel_SerialiseTaskCore
  <2>2. CASE free # {}
    <3>1. Angel_NewTask(TP_AngelWantLock, yielded) /\ HasStack(TP_AngelWantLock)
      BY <1>3, <2>2 DEF angel_SerialiseTaskCore, HasStack
    <3>. QED BY <2>2, <3>1, SortedNewTask
  <2>. QED BY <2>1, <2>2
<1>4. CASE Interrupt \/ Angel_Yield
  BY <1>3, <1>4 DEF Interrupt, Angel_Yield
<1>5. ASSUME NEW kind \in {TP_ApplCallBack, TP_AngelCallBack, TP_AngelWantLock},
             Angel_QueueCallback(kind)
      PROVE  OrderKept'
  <2>1. CASE LogFatalError("Cannot create new task")
    BY <1>2, <2>1
  <2>2. CASE UNCHANGED vars
    BY <1>1, <2>2 DEF vars, pool
  <2>3. CASE free # {} /\ HasStack(kind) /\ Angel_NewTask(kind, FALSE)
    BY <2>3, SortedNewTask
  <2>. QED BY <1>5, <2>1, <2>2, <2>3 DEF Angel_QueueCallback
<1>6. CASE \E mask \in SUBSET Event \ {{}} : angel_WaitCore(mask)
  BY <1>1, <1>6 DEF angel_WaitCore
<1>7. CASE \E t \in Task, signals \in SUBSET Event \ {{}} : Angel_Signal(t, signals)
  BY <1>1, <1>7 DEF Angel_Signal
<1>8. CASE angel_NextTask
  <2>. DEFINE c == current
  <2>1. /\ free' = free \cup {c} /\ queue' = RemoveFirst(queue, c)
        /\ type' = [type EXCEPT ![c] = TP_IdleLoop]
        /\ priority' = [priority EXCEPT ![c] = 0]
    BY <1>8 DEF angel_NextTask
  <2>2. /\ c \in Task \ free /\ c # ApplicationTask /\ Task \ free \in SUBSET Task
        /\ Lists(queue, Task \ free)
    BY <1>8, CurrentTask DEF angel_NextTask, IInv, TypeOK, QueueIsPool, Lists
  <2>3. /\ Sorted(queue', priority)
        /\ Lists(queue', (Task \ free) \ {c})
    BY <2>1, <2>2, Removed, SortedRemove DEF OrderKept
  <2>4. \A u \in Task : u # c => priority'[u] = priority[u] /\ type'[u] = type[u]
    BY <2>1 DEF IInv, TypeOK
  <2>5. \A k \in 1 .. Len(queue') : priority'[queue'[k]] = priority[queue'[k]]
    BY <2>3, <2>4 DEF Lists, ToSet
  <2>6. Sorted(queue', priority')
    BY <2>3, <2>5 DEF Sorted
  <2>7. Ranked'
    BY <2>1, <2>4 DEF OrderKept, Ranked
  <2>. QED BY <2>6, <2>7 DEF OrderKept
<1>9. CASE \E kind \in {"clib", "device"} : EnterSystemCall(kind)
  <2>1. CASE angel_SetPriority(ApplicationTask, TaskPriorityOf(TP_AngelCallBack))
    <3>1. TaskPriorityOf(TP_AngelCallBack) \in Priorities
      BY DEF TaskPriorityOf, TP_AngelCallBack, TP_AngelWantLock, Priorities
    <3>2. UNCHANGED <<free, type>>
      BY <1>9 DEF EnterSystemCall
    <3>. QED BY <2>1, <3>1, <3>2, SortedSetPriority
  <2>2. CASE UNCHANGED <<queue, priority, free, type>>
    BY <1>1, <2>2
  <2>. QED BY <1>9, <2>1, <2>2 DEF EnterSystemCall
<1>10. CASE SysCallReturn
  <2>1. CASE LogFatalError("System Call Return with no Call")
    BY <1>2, <2>1
  <2>2. CASE /\ angel_SetPriority(ApplicationTask, TaskPriorityOf(TP_Application))
             /\ UNCHANGED <<free, type>>
    <3>1. TaskPriorityOf(TP_Application) \in Priorities
      BY DEF TaskPriorityOf, TP_Application, TP_AngelWantLock, Priorities
    <3>. QED BY <2>2, <3>1, SortedSetPriority
  <2>. QED BY <1>10, <2>1, <2>2 DEF SysCallReturn
<1>11. CASE \E value \in BOOLEAN : Angel_BlockApplication(value)
  BY <1>1, <1>11 DEF Angel_BlockApplication
<1>12. CASE UNCHANGED vars
  BY <1>1, <1>12 DEF vars, pool
<1>. QED BY <1>4, <1>5, <1>6, <1>7, <1>8, <1>9, <1>10, <1>11, <1>12 DEF Next

LEMMA OrderInit == Init => OrderKept
PROOF
<1>. SUFFICES ASSUME Init PROVE OrderKept
  OBVIOUS
<1>1. Ranked
  BY DEF Init, Ranked
<1>2. queue = <<2, 1, 0>> /\ priority[2] = 16 /\ priority[1] = 8 /\ priority[0] = 0
  <2>1. 0 \in Task /\ 1 \in Task /\ 2 \in Task
    BY FixedTasks DEF IdleTask, ApplicationTask, BootTask
  <2>2. /\ type[2] = TP_AngelCallBack /\ type[1] = TP_Application
        /\ type[0] = TP_IdleLoop
        /\ \A t \in Task : priority[t] = TaskPriorityOf(type[t])
    BY <2>1 DEF Init, BootTask, ApplicationTask
  <2>. QED BY <2>1, <2>2
       DEF Init, TaskPriorityOf, TP_AngelCallBack, TP_Application, TP_IdleLoop,
           BootTask, ApplicationTask, IdleTask
<1>3. Sorted(queue, priority)
  BY <1>2 DEF Sorted
<1>. QED BY <1>1, <1>3 DEF OrderKept

(* The list is in the order of the types, with the application's moves and  *)
(* its stale field taken into account.                                      *)
THEOREM InPriorityOrder == Spec => []PriorityOrder
PROOF
<1>1. IInv /\ OrderKept => PriorityOrder
  <2>. SUFFICES ASSUME IInv, OrderKept, NEW i \in 1 .. Len(queue), NEW j \in 1 .. Len(queue),
                       i < j, queue[i] # ApplicationTask, queue[j] # ApplicationTask
                PROVE  type[queue[i]] >= type[queue[j]]
    BY DEF PriorityOrder
  <2>1. queue[i] \in Task \ free /\ queue[j] \in Task \ free
    <3>0. queue \in Seq(Task)
      BY DEF IInv, TypeOK
    <3>1. DOMAIN queue = 1 .. Len(queue) /\ ToSet(queue) = Task \ free
      BY <3>0, LenProperties DEF IInv, QueueIsPool
    <3>. QED BY <3>1 DEF ToSet
  <2>2. priority[queue[j]] <= priority[queue[i]]
    BY DEF OrderKept, Sorted
  <2>3. TaskPriorityOf(type[queue[j]]) <= TaskPriorityOf(type[queue[i]])
    BY <2>1, <2>2 DEF OrderKept, Ranked
  <2>4. type[queue[i]] \in Int /\ type[queue[j]] \in Int
    <3>1. TaskType \subseteq Int
      BY DEF TaskType, TP_IdleLoop, TP_Application, TP_ApplCallBack,
             TP_AngelCallBack, TP_AngelWantLock
    <3>2. type \in [Task -> TaskType]
      BY DEF IInv, TypeOK
    <3>. QED BY <2>1, <3>1, <3>2
  <2>. QED BY <2>3, <2>4 DEF TaskPriorityOf
<1>. QED BY <1>1, InitInvariant, NextInvariant, OrderInit, OrderNext, PTL DEF Spec
=============================================================================
