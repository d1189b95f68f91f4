----------------------------- MODULE AngelTasks -----------------------------
(***************************************************************************)
(* The scheduler ("serialiser") of the Angel debug monitor: serlock.c and  *)
(* the parts of serlasm.s and except.s that enter it.                      *)
(*                                                                         *)
(* Angel runs on one processor.  Its tasks are the entries of a pool, kept *)
(* on one list in the order in which they are to run.  Interrupts are off  *)
(* from the entry of a scheduler routine to the start of the next task, so *)
(* each action is one call of a routine by the current task, or one        *)
(* interrupt, with the choice of the next task at its end.  Contexts       *)
(* (register blocks) are not modelled: a task resumes where it was.        *)
(*                                                                         *)
(* What a task does between two calls is abstracted to the calls it may    *)
(* make.  Two parts are left out: the debugger's re-initialisation of the  *)
(* application, which takes tasks off the list outside the scheduler, and  *)
(* complex SWIs of code that is not the application's, which are fatal.    *)
(***************************************************************************)
EXTENDS Integers, Sequences, FiniteSets, SequencesExt

CONSTANTS
  POOLSIZE,  \* entries of angel_TQ_Pool
  STACKS,    \* stacks in the Angel USR stack area
  Event      \* the signal bits tasks wait for

(* InitialiseOneOff and the boot code need three tasks.                    *)
ASSUME PoolAssumption == POOLSIZE \in Nat /\ POOLSIZE >= 3
ASSUME StackAssumption == STACKS \in Nat /\ STACKS >= 3

Task == 0 .. POOLSIZE - 1

(* The three tasks that exist when the scheduler first chooses.            *)
IdleTask        == 0
ApplicationTask == 1
BootTask        == 2

TP_IdleLoop      == 0
TP_Application   == 2
TP_ApplCallBack  == 3
TP_AngelCallBack == 4
TP_AngelWantLock == 5
TaskType == {TP_IdleLoop, TP_Application, TP_ApplCallBack, TP_AngelCallBack,
             TP_AngelWantLock}
TaskPriorityOf(t) == t * 4

TaskState == {"Undefined", "Runnable", "Running", "Blocked"}

(* Signal bits; PAUSE is bit 0, which stands for "stopped by the debugger".*)
ASSUME EventAssumption == "PAUSE" \notin Event
Signals == {"PAUSE"} \cup Event

SVCStack == 0                    \* the one stack of the WantLock tasks
USRStack == 1 .. STACKS

VARIABLES
  queue,           \* the list from angel_TaskQueueHead on
  free,            \* angel_FreeBitMap
  type, priority, state, signalWaiting, signalReceived, stack,
  stacksUsed,      \* angel_stacksUsed
  current,         \* angel_CurrentTask
  systemCall,      \* complex SWI in progress: none, clib or device
  deferredBlock,   \* angel_SWIDeferredBlock
  begun,           \* history: handlers with something on the SVC stack
  stopped,         \* history: the debugger's last word on the application
  fatal            \* the fatal error that has restarted Angel, or none

pool  == <<queue, free, type, priority, signalWaiting, signalReceived, stack,
           stacksUsed>>
run   == <<state, current, begun>>
appl  == <<systemCall, deferredBlock, stopped>>
vars  == <<pool, run, appl, fatal>>

(* TakesLock: angel_SWIReturnToApp is set by EnterSWI, which only the C    *)
(* library's calls pass.                                                   *)
angel_SWIReturnToApp == systemCall = "clib"

IsCallback(t)  == type[t] \in {TP_ApplCallBack, TP_AngelCallBack}
IsHandler(t)   == type[t] = TP_AngelWantLock
InSystemCall   == current = ApplicationTask /\ systemCall # "none"
Up             == fatal = "none"

-----------------------------------------------------------------------------
(* Mutant: the loop never finds a task of lower priority. *)
angel_EnqueueTask_Last(q, t, pri) == Append(q, t)

(* A task goes in front of the first one whose priority is not higher.     *)
angel_EnqueueTask(q, t, pri) ==
  InsertAt(q, Min({k \in 1 .. Len(q) : priority[q[k]] <= pri} \cup {Len(q) + 1}),
           t)

(* The part of Angel_NewTask that makes the task: an entry, a place on the *)
(* list and, unless it runs on the SVC stack, a USR stack.                 *)
HasStack(kind) == kind = TP_AngelWantLock \/ stacksUsed # USRStack

Angel_NewTask(kind, yielded) ==
  LET i == Min(free)
      s == IF kind = TP_AngelWantLock THEN SVCStack
                                      ELSE Min(USRStack \ stacksUsed)
      p == TaskPriorityOf(kind)
  IN  /\ free'           = free \ {i}
      /\ type'           = [type EXCEPT ![i] = kind]
      /\ priority'       = [priority EXCEPT ![i] = p]
      /\ signalWaiting'  = [signalWaiting EXCEPT ![i] = {}]
      /\ signalReceived' = [signalReceived EXCEPT ![i] = {}]
      /\ stack'          = [stack EXCEPT ![i] = s]
      /\ stacksUsed'     = stacksUsed \cup ({s} \ {SVCStack})
      /\ queue' = angel_EnqueueTask(queue, i, IF yielded THEN p - 1 ELSE p)

WithNewTask == [state EXCEPT ![Min(free)] = "Runnable"]

LogFatalError(what) == fatal' = what /\ UNCHANGED <<pool, run, appl>>

(* The first task of the list q that is not blocked runs; st and kinds are *)
(* the states and types of the tasks by now.                               *)
Begun(kinds, t) == IF kinds[t] = TP_AngelWantLock THEN {t} ELSE {}
Ready(q, st) == {k \in 1 .. Len(q) : st[q[k]] \notin {"Blocked", "Undefined"}}

angel_SelectNextTask(q, st, kinds, kept) ==
  IF Ready(q, st) = {}
  THEN /\ fatal' = "No task to run"
       /\ state' = st /\ begun' = kept /\ UNCHANGED current
  ELSE LET t == q[Min(Ready(q, st))] IN
       /\ current' = t
       /\ state'   = [st EXCEPT ![t] = "Running"]
       /\ begun'   = kept \cup Begun(kinds, t)
       /\ UNCHANGED fatal

(* Mutant: the task is not taken out of the list first. *)
angel_SetPriority_NotRemoved(t, pri) ==
  /\ priority' = [priority EXCEPT ![t] = pri]
  /\ queue' = angel_EnqueueTask(queue, t, pri)

(* Mutant: the priority is added to the one the task has. *)
angel_SetPriority_Adds(t, pri) ==
  /\ priority' = [priority EXCEPT ![t] = @ + pri]
  /\ queue' = angel_EnqueueTask(RemoveFirst(queue, t), t, pri)

(* SetPriority: the priority field of a task at the head stays as it was.  *)
angel_SetPriority(t, pri) ==
  /\ priority' = IF Head(queue) = t THEN priority
                                    ELSE [priority EXCEPT ![t] = pri]
  /\ queue' = angel_EnqueueTask(RemoveFirst(queue, t), t, pri)

-----------------------------------------------------------------------------
(* The state startlib.s enters the scheduler with for the first time, and  *)
(* its choice: the boot task.                                              *)
Init ==
  /\ queue = <<BootTask, ApplicationTask, IdleTask>>
  /\ free  = Task \ {IdleTask, ApplicationTask, BootTask}
  /\ type = [t \in Task |-> IF t = BootTask THEN TP_AngelCallBack
                            ELSE IF t = ApplicationTask THEN TP_Application
                            ELSE TP_IdleLoop]
  /\ priority = [t \in Task |-> TaskPriorityOf(type[t])]
  /\ state = [t \in Task |-> IF t = BootTask THEN "Running"
                             ELSE IF t = ApplicationTask THEN "Blocked"
                             ELSE IF t = IdleTask THEN "Runnable"
                             ELSE "Undefined"]
  /\ signalWaiting = [t \in Task |-> IF t = ApplicationTask THEN {"PAUSE"} ELSE {}]
  /\ signalReceived = [t \in Task |-> {}]
  /\ stack = [t \in Task |-> IF t = IdleTask THEN 1
                             ELSE IF t = ApplicationTask THEN 2
                             ELSE IF t = BootTask THEN 3 ELSE SVCStack]
  /\ stacksUsed = {1, 2, 3}
  /\ current = BootTask
  /\ systemCall = "none"
  /\ deferredBlock = FALSE
  /\ begun = {}
  /\ stopped = TRUE
  /\ fatal = "none"

(* Mutant: QueueTask does not mark the interrupted task. *)
angel_SerialiseTaskCore_NotMarked(yielded) ==
  IF free = {} THEN LogFatalError("Cannot create new task")
  ELSE /\ Angel_NewTask(TP_AngelWantLock, yielded)
       /\ IF IsHandler(current)
          THEN state' = WithNewTask /\ UNCHANGED <<current, begun, fatal>>
          ELSE angel_SelectNextTask(queue', WithNewTask, type', begun)
       /\ UNCHANGED appl

(* Mutant: the interrupted task is blocked, as WaitCore's is. *)
angel_SerialiseTaskCore_Blocks(yielded) ==
  IF free = {} THEN LogFatalError("Cannot create new task")
  ELSE /\ Angel_NewTask(TP_AngelWantLock, yielded)
       /\ IF IsHandler(current)
          THEN state' = WithNewTask /\ UNCHANGED <<current, begun, fatal>>
          ELSE angel_SelectNextTask(queue',
                    [WithNewTask EXCEPT ![current] = "Blocked"], type', begun)
       /\ UNCHANGED appl

(* Mutant: a handler makes way for a newer one. *)
angel_SerialiseTaskCore_Preempts(yielded) ==
  IF free = {} THEN LogFatalError("Cannot create new task")
  ELSE /\ Angel_NewTask(TP_AngelWantLock, yielded)
       /\ angel_SelectNextTask(queue',
               [WithNewTask EXCEPT ![current] = "Runnable"], type', begun)
       /\ UNCHANGED appl

(* A handler that already runs goes on; any other task makes way for the   *)
(* first of the list.                                                      *)
angel_SerialiseTaskCore(yielded) ==
  IF free = {} THEN LogFatalError("Cannot create new task")
  ELSE /\ Angel_NewTask(TP_AngelWantLock, yielded)
       /\ IF IsHandler(current)
          THEN state' = WithNewTask /\ UNCHANGED <<current, begun, fatal>>
          ELSE angel_SelectNextTask(queue',
                    [WithNewTask EXCEPT ![current] = "Runnable"], type', begun)
       /\ UNCHANGED appl

(* A device or an exception interrupts whatever runs.                      *)
Interrupt == Up /\ angel_SerialiseTaskCore(FALSE)

Angel_Yield ==
  /\ Up
  /\ IsCallback(current) \/ InSystemCall
  /\ angel_SerialiseTaskCore(TRUE)

(* Angel's own code queues a task and goes on.  Without a stack for it the *)
(* task is dropped; without an entry Angel restarts.                       *)
Angel_QueueCallback(kind) ==
  /\ Up
  /\ IsHandler(current) \/ IsCallback(current) \/ InSystemCall
  /\ \/ free = {} /\ LogFatalError("Cannot create new task")
     \/ free # {} /\ ~HasStack(kind) /\ UNCHANGED vars
     \/ /\ free # {} /\ HasStack(kind)
        /\ Angel_NewTask(kind, FALSE)
        /\ state' = WithNewTask
        /\ UNCHANGED <<current, begun, appl, fatal>>

(* WaitCore: an event that has been signalled is taken at once, any of     *)
(* those asked for; otherwise the task sleeps until all of them are.       *)
angel_WaitCore(mask) ==
  /\ Up
  /\ IsCallback(current) \/ InSystemCall
  /\ LET b == mask \cap signalReceived[current] IN
     \/ /\ b # {}
        /\ signalReceived' = [signalReceived EXCEPT ![current] = @ \ b]
        /\ UNCHANGED <<signalWaiting, run, fatal>>
     \/ /\ b = {}
        /\ signalWaiting' = [signalWaiting EXCEPT ![current] = mask]
        /\ angel_SelectNextTask(queue, [state EXCEPT ![current] = "Blocked"],
                                type, begun)
        /\ UNCHANGED signalReceived
  /\ UNCHANGED <<queue, free, type, priority, stack, stacksUsed, appl>>

Angel_Signal(t, signals) ==
  /\ Up /\ IsCallback(current)
  /\ t > 0
  /\ \/ /\ state[t] = "Blocked"
        /\ LET left == signalWaiting[t] \ signals IN
           /\ signalWaiting' = [signalWaiting EXCEPT ![t] = left]
           /\ state' = [state EXCEPT ![t] = IF left = {} THEN "Runnable" ELSE "Blocked"]
        /\ UNCHANGED signalReceived
     \/ /\ state[t] \in {"Runnable", "Running"}
        /\ signalReceived' = [signalReceived EXCEPT ![t] = @ \cup signals]
        /\ UNCHANGED <<signalWaiting, state>>
  /\ UNCHANGED <<queue, free, type, priority, stack, stacksUsed, current,
                 begun, appl, fatal>>

(* Mutant: DeleteTask does not give the stack back. *)
angel_NextTask_KeepsStack ==
  /\ Up
  /\ IsHandler(current) \/ IsCallback(current)
  /\ UNCHANGED stacksUsed
  /\ free'  = free \cup {current}
  /\ queue' = RemoveFirst(queue, current)
  /\ angel_SelectNextTask(queue', [state EXCEPT ![current] = "Undefined"], type,
                          begun \ {current})
  /\ type'           = [type EXCEPT ![current] = TP_IdleLoop]
  /\ priority'       = [priority EXCEPT ![current] = 0]
  /\ signalWaiting'  = [signalWaiting EXCEPT ![current] = {}]
  /\ signalReceived' = [signalReceived EXCEPT ![current] = {}]
  /\ stack'          = [stack EXCEPT ![current] = SVCStack]
  /\ UNCHANGED appl

(* A handler or a callback returns to angel_NextTask, which deletes it.    *)
(* The fields of a free entry are dead until the next AllocateFromPool;    *)
(* they are cleared here so that they do not tell states apart.            *)
angel_NextTask ==
  /\ Up
  /\ IsHandler(current) \/ IsCallback(current)
  /\ stacksUsed' = stacksUsed \ {stack[current]}
  /\ free'  = free \cup {current}
  /\ queue' = RemoveFirst(queue, current)
  /\ angel_SelectNextTask(queue', [state EXCEPT ![current] = "Undefined"], type,
                          begun \ {current})
  /\ type'           = [type EXCEPT ![current] = TP_IdleLoop]
  /\ priority'       = [priority EXCEPT ![current] = 0]
  /\ signalWaiting'  = [signalWaiting EXCEPT ![current] = {}]
  /\ signalReceived' = [signalReceived EXCEPT ![current] = {}]
  /\ stack'          = [stack EXCEPT ![current] = SVCStack]
  /\ UNCHANGED appl

-----------------------------------------------------------------------------
(* The application's complex SWIs: the C library's pass EnterSWI, those of *)
(* devappl.c do not.                                                       *)
EnterSystemCall(kind) ==
  /\ Up
  /\ current = ApplicationTask /\ systemCall = "none"
  /\ systemCall' = kind
  /\ \/ /\ kind = "clib"
        /\ angel_SetPriority(ApplicationTask, TaskPriorityOf(TP_AngelCallBack))
     \/ kind = "device" /\ UNCHANGED <<queue, priority>>
  /\ UNCHANGED <<free, type, signalWaiting, signalReceived, stack, stacksUsed,
                 run, deferredBlock, stopped, fatal>>

(* Mutant: the deferred block is forgotten. *)
SysCallReturn_NotBlocked ==
  /\ Up
  /\ InSystemCall
  /\ \/ ~angel_SWIReturnToApp /\ LogFatalError("System Call Return with no Call")
     \/ /\ angel_SWIReturnToApp
        /\ angel_SetPriority(ApplicationTask, TaskPriorityOf(TP_Application))
        /\ systemCall' = "none"
        /\ deferredBlock' = FALSE
        /\ UNCHANGED <<signalWaiting, run, fatal, free, type, signalReceived,
                       stack, stacksUsed, stopped>>

(* Mutant: ExitSWI leaves the application at the callbacks' priority. *)
SysCallReturn_StaysRaised ==
  /\ Up
  /\ InSystemCall
  /\ \/ ~angel_SWIReturnToApp /\ LogFatalError("System Call Return with no Call")
     \/ /\ angel_SWIReturnToApp
        /\ systemCall' = "none"
        /\ deferredBlock' = FALSE
        /\ \/ /\ deferredBlock
              /\ signalWaiting' = [signalWaiting EXCEPT ![ApplicationTask] = {"PAUSE"}]
              /\ angel_SelectNextTask(queue,
                      [state EXCEPT ![ApplicationTask] = "Blocked"], type, begun)
           \/ ~deferredBlock /\ UNCHANGED <<signalWaiting, run, fatal>>
        /\ UNCHANGED <<queue, priority, free, type, signalReceived, stack,
                       stacksUsed, stopped>>

(* SysCallReturnVeneer: ExitSWI, then the block that was deferred.         *)
SysCallReturn ==
  /\ Up
  /\ InSystemCall
  /\ \/ ~angel_SWIReturnToApp /\ LogFatalError("System Call Return with no Call")
     \/ /\ angel_SWIReturnToApp
        /\ angel_SetPriority(ApplicationTask, TaskPriorityOf(TP_Application))
        /\ systemCall' = "none"
        /\ deferredBlock' = FALSE
        /\ \/ /\ deferredBlock
              /\ signalWaiting' = [signalWaiting EXCEPT ![ApplicationTask] = {"PAUSE"}]
              /\ angel_SelectNextTask(queue',
                      [state EXCEPT ![ApplicationTask] = "Blocked"], type, begun)
           \/ ~deferredBlock /\ UNCHANGED <<signalWaiting, run, fatal>>
        /\ UNCHANGED <<free, type, signalReceived, stack, stacksUsed, stopped>>

(* Stop and execute requests of the debugger and exceptions taken in the   *)
(* application: callbacks do both, a handler only stops.                   *)
Angel_BlockApplication(value) ==
  /\ Up
  /\ type[current] = TP_AngelCallBack \/ (IsHandler(current) /\ value)
  /\ stopped' = value
  /\ \/ /\ angel_SWIReturnToApp
        /\ deferredBlock' = TRUE
        /\ UNCHANGED <<signalWaiting, state>>
     \/ /\ ~angel_SWIReturnToApp
        /\ signalWaiting' = [signalWaiting EXCEPT ![ApplicationTask] =
                               IF value THEN {"PAUSE"} ELSE {}]
        /\ state' = [state EXCEPT ![ApplicationTask] =
                       IF value THEN "Blocked" ELSE "Runnable"]
        /\ UNCHANGED deferredBlock
  /\ UNCHANGED <<queue, free, type, priority, signalReceived, stack, stacksUsed,
                 current, begun, systemCall, fatal>>

Next ==
  \/ Interrupt
  \/ Angel_Yield
  \/ \E kind \in {TP_ApplCallBack, TP_AngelCallBack, TP_AngelWantLock} :
        Angel_QueueCallback(kind)
  \/ \E mask \in SUBSET Event \ {{}} : angel_WaitCore(mask)
  \/ \E t \in Task, signals \in SUBSET Event \ {{}} : Angel_Signal(t, signals)
  \/ angel_NextTask
  \/ \E kind \in {"clib", "device"} : EnterSystemCall(kind)
  \/ SysCallReturn
  \/ \E value \in BOOLEAN : Angel_BlockApplication(value)

Spec == Init /\ [][Next]_vars

-----------------------------------------------------------------------------
TypeOK ==
  /\ queue \in Seq(Task)
  /\ free \subseteq Task
  /\ type \in [Task -> TaskType]
  /\ priority \in [Task -> 0 .. TaskPriorityOf(TP_AngelWantLock)]
  /\ state \in [Task -> TaskState]
  /\ signalWaiting \in [Task -> SUBSET Signals]
  /\ signalReceived \in [Task -> SUBSET Signals]
  /\ stack \in [Task -> {SVCStack} \cup USRStack]
  /\ stacksUsed \subseteq USRStack
  /\ current \in Task
  /\ systemCall \in {"none", "clib", "device"}
  /\ deferredBlock \in BOOLEAN
  /\ begun \subseteq Task
  /\ stopped \in BOOLEAN
  /\ fatal \in {"none", "Cannot create new task", "No task to run",
                "System Call Return with no Call"}

(* The list holds every task of the pool once and nothing else, whatever   *)
(* SetPriority, deletions and failed creations have done to it.            *)
QueueIsPool ==
  /\ ToSet(queue) = Task \ free
  /\ IsInjective(queue)
  /\ \A t \in Task : t \in free <=> state[t] = "Undefined"

(* CurrentTask is the one task marked as running, so that the context      *)
(* QueueTask saves is that of the task it was taken from.                  *)
RunnerIsCurrent == Up => \A t \in Task : state[t] = "Running" <=> t = current

(* All handlers run on one stack: one that has begun is never put aside    *)
(* for another task.                                                       *)
SVCStackExclusive == \A t \in begun : t = current

(* No two callbacks share a USR stack and none is lost when a task ends or *)
(* cannot be made.                                                         *)
StacksExclusive ==
  LET user == {t \in Task \ free : ~IsHandler(t)} IN
  /\ stacksUsed = {stack[t] : t \in user}
  /\ \A t, u \in user : stack[t] = stack[u] => t = u

(* SelectNextTask always finds a task.                                     *)
AlwaysATask == fatal # "No task to run"

(* Once the debugger or an exception has stopped the application none of   *)
(* its code runs, whatever events are signalled to it and whatever system  *)
(* call it was in, until the debugger lets it go.                          *)
StopHonoured == Up /\ stopped => ~(current = ApplicationTask /\ systemCall = "none")

(* The list is in the order of the tasks' types, although the application  *)
(* changes places in it and its priority field is at times not the one it  *)
(* was placed by.                                                          *)
PriorityOrder ==
  \A i, j \in 1 .. Len(queue) :
    i < j /\ ApplicationTask \notin {queue[i], queue[j]}
      => type[queue[i]] >= type[queue[j]]

-----------------------------------------------------------------------------
(* A handler or callback that gets the processor again and again returns,  *)
(* and so does the monitor's code for a system call.                       *)
Fairness == /\ \A t \in Task : SF_vars(angel_NextTask /\ current = t)
            /\ SF_vars(SysCallReturn)
FairSpec == Spec /\ Fairness

(* If interrupts keep coming, in the application's own code or the         *)
(* callbacks', but bring no new work, every callback of Angel runs.        *)
(* Interrupts alone are not enough: ExitSWI puts the application behind a  *)
(* waiting callback but goes on with the application, so one that makes    *)
(* call after call and is interrupted in the calls only keeps callbacks    *)
(* waiting.                                                                *)
Waiting(t) == Up /\ state[t] = "Runnable" /\ type[t] = TP_AngelCallBack
NewWork    == \E kind \in TaskType : Angel_QueueCallback(kind)
Reschedule == Interrupt /\ ~InSystemCall /\ ~IsHandler(current)
CallbacksRun ==
  []<><<Reschedule>>_vars /\ <>[][~NewWork]_vars
    => \A t \in Task : Waiting(t) ~> ~Waiting(t)

=============================================================================
