------------------------------ MODULE AngelCalls ------------------------------
(***************************************************************************)
(* What the reliable channels of the debugger's link promise: a request on *)
(* a channel is served once and answered once, with its own answer.        *)
(***************************************************************************)
CONSTANTS
  Channel,   \* the channels, each used by one caller for one call at a time
  Body       \* what tells one call from the next

VARIABLES
  call,      \* how far the call of each channel is
  request,   \* what was last asked on each channel
  answer     \* what was last answered on each channel

vars == <<call, request, answer>>

Phase == {"idle", "asked", "serving", "replied"}

TypeOK == /\ call \in [Channel -> Phase]
          /\ request \in [Channel -> Body] /\ answer \in [Channel -> Body]

Init == /\ call = [c \in Channel |-> "idle"]
        /\ request \in [Channel -> Body] /\ answer = request

Step(c, from, to) == call[c] = from /\ call' = [call EXCEPT ![c] = to]

Ask(c) == /\ Step(c, "idle", "asked")
          /\ \E b \in Body : request' = [request EXCEPT ![c] = b]
          /\ UNCHANGED answer
Serve(c)  == Step(c, "asked", "serving") /\ UNCHANGED <<request, answer>>
Reply(c)  == Step(c, "serving", "replied") /\ UNCHANGED <<request, answer>>
Answer(c) == /\ Step(c, "replied", "idle") /\ UNCHANGED request
             /\ answer' = [answer EXCEPT ![c] = request[c]]

Next == \E c \in Channel : Ask(c) \/ Serve(c) \/ Reply(c) \/ Answer(c)

Spec == Init /\ [][Next]_vars
=============================================================================
