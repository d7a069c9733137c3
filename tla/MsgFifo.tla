------------------------------ MODULE MsgFifo ------------------------------
(***************************************************************************)
(* What the message queue promises: a bounded first-in first-out queue of  *)
(* calls.  A handler's add is let in while there is room and takes its     *)
(* place later.  A call that was accepted is made once, in the order of    *)
(* acceptance, with the function and the parameter it was given; the call  *)
(* at the head stays in the queue while it runs.  A system reset, asked    *)
(* for by the call that is running, empties the queue.  Only when the room *)
(* an add was let in for is gone by the time it takes its place is the     *)
(* queue overrun: until the next reset it promises nothing more.           *)
(***************************************************************************)
EXTENDS Integers, Sequences

CONSTANTS
  Capacity,   \* most calls that wait or run
  Producers,  \* the handlers that add
  Msgs        \* the calls: a function and its parameter

VARIABLES
  q,          \* accepted calls, oldest first
  running,    \* the calls being made: <<>> or <<m>>
  admitted,   \* handlers let in, that have not taken their place
  overrun     \* a place was taken that was not there

vars == <<q, running, admitted, overrun>>

Init == q = <<>> /\ running = <<>> /\ admitted = {} /\ overrun = FALSE

Admit(p) ==
  /\ Len(q) < Capacity /\ p \notin admitted
  /\ admitted' = admitted \cup {p}
  /\ UNCHANGED <<q, running, overrun>>

Add(p, m) ==
  /\ p \in admitted /\ Len(q) < Capacity
  /\ q' = Append(q, m)
  /\ admitted' = admitted \ {p}
  /\ UNCHANGED <<running, overrun>>

Overrun(p) ==
  /\ p \in admitted /\ Len(q) = Capacity
  /\ overrun' = TRUE

Call ==
  /\ q # <<>> /\ running = <<>>
  /\ running' = <<Head(q)>>
  /\ UNCHANGED <<q, admitted, overrun>>

Return ==
  /\ running # <<>>
  /\ running' = <<>>
  /\ q' = Tail(q)
  /\ UNCHANGED <<admitted, overrun>>

Reset ==
  /\ running # <<>>
  /\ q' = <<>> /\ running' = <<>> /\ admitted' = {}
  /\ overrun' = FALSE

Next ==
  \/ /\ ~overrun
     /\ \/ \E p \in Producers :
             Admit(p) \/ Overrun(p) \/ (\E m \in Msgs : Add(p, m))
        \/ Call \/ Return
  \/ Reset
  \/ overrun /\ overrun'

Spec == Init /\ [][Next]_vars
=============================================================================
