------------------------------ MODULE MsgQueue ------------------------------
(***************************************************************************)
(* The message queue (hm_msg_queue.c): interrupt handlers add calls, the   *)
(* main loop makes them.  An add is a sequence of steps that a handler of  *)
(* higher preemption priority may interrupt: the test for a free slot, the *)
(* reservation (with interrupts disabled), the low-water mark, and the two *)
(* stores that fill the slot.  The main loop runs only when no handler is  *)
(* active.                                                                 *)
(***************************************************************************)
EXTENDS Integers, Sequences, FiniteSets

CONSTANTS
  HM_MSG_MAX,   \* slots in the ring (80)
  Producers,    \* interrupt handlers that add: SysTick, Ethernet
  Prio,         \* preemption priority of each, larger is more urgent
  Sends,        \* the calls each adds: records of func and param
  RebootFunc,   \* the function that resets the board (hm_cmd_reboot_ck)
  NoFunc        \* the null function

ASSUME SizeAssumption == HM_MSG_MAX \in Nat /\ HM_MSG_MAX >= 2
ASSUME ProducerAssumption == IsFiniteSet(Producers) /\ Prio \in [Producers -> Nat]
ASSUME SendsAssumption ==
  /\ DOMAIN Sends = Producers
  /\ \A p \in Producers : \A m \in Sends[p] :
       m = [func |-> m.func, param |-> m.param]

VARIABLES
  msg_array,    \* s_msgs.msg_array
  nwrite, nread, nmin,
  led_error,    \* the error LED was switched on
  adds,         \* each producer: where its hm_msg_queue_add is, and its locals
  main,         \* the main loop: where it is, its pmsg and the call it makes
  hung,         \* the main loop is in the while(1) of msg_move_next_read
  overrun       \* history: since the last reset an add took a slot of a full ring

vars == <<msg_array, nwrite, nread, nmin, led_error, adds, main, hung, overrun>>

Slots == 0 .. HM_MSG_MAX - 1
Null == [func |-> NoFunc, param |-> NoFunc]
Msgs == UNION {Sends[p] : p \in Producers}
AllMsgs == Msgs \cup {Null}
FuncsOf == {m.func : m \in AllMsgs}
ParamsOf == {m.param : m \in AllMsgs}
AddPc == {"idle", "reserve", "account", "note", "func", "param"}

(* pmsg is a slot; nleft is the value of msg_remaining about to be stored  *)
(* in nmin.                                                                *)
AddLocals == [pc: AddPc, msg: AllMsgs, pmsg: Slots, nleft: 0 .. HM_MSG_MAX]

IdleAdd == [pc |-> "idle", msg |-> Null, pmsg |-> 0, nleft |-> 0]
IdleMain == [pc |-> "loop", pmsg |-> 0, call |-> Null]

(* hm_msg_queue_init, and the same again after a system reset.             *)
Init ==
  /\ msg_array = [i \in Slots |-> [func |-> NoFunc, param |-> NoFunc,
                                   busing |-> FALSE]]
  /\ nwrite = 0 /\ nread = 0
  /\ nmin = HM_MSG_MAX
  /\ led_error = FALSE
  /\ adds = [p \in Producers |-> IdleAdd]
  /\ main = IdleMain
  /\ hung = FALSE
  /\ overrun = FALSE

-----------------------------------------------------------------------------
ismsg_full == (nwrite + 1) % HM_MSG_MAX = nread

(* Mutated: the test forgets that the ring wraps.                          *)
ismsg_empty_nowrap == nwrite <= nread

ismsg_empty == nwrite = nread

msg_remaining ==
  IF nwrite < nread THEN nread - nwrite ELSE HM_MSG_MAX - nwrite + nread

(* Calls in the ring, as the indices tell.                                 *)
Used == (nwrite - nread) % HM_MSG_MAX

Active(p) == adds[p].pc # "idle"

(* The NVIC lets a handler run when every other one that is active has a   *)
(* lower preemption priority, and the main loop when none is active.       *)
MayRun(p) == \A o \in Producers \ {p} : Active(o) => Prio[o] < Prio[p]

(* Mutated: the main loop runs although a handler is half way.             *)
MainAlways == ~hung

MainMayRun == ~hung /\ \A p \in Producers : ~Active(p)

-----------------------------------------------------------------------------
(* hm_msg_queue_add, step by step.                                         *)

(* The tests: a null function or a full ring lights the LED and returns    *)
(* false; else the handler goes on to the reservation.                     *)
Check(p, m) ==
  /\ MayRun(p) /\ ~Active(p)
  /\ IF m.func = NoFunc \/ ismsg_full
     THEN led_error' = TRUE /\ UNCHANGED adds
     ELSE /\ adds' = [adds EXCEPT ![p] =
                        [IdleAdd EXCEPT !.pc = "reserve", !.msg = m]]
          /\ UNCHANGED led_error
  /\ UNCHANGED <<msg_array, nwrite, nread, nmin, main, hung, overrun>>

(* msg_get_move_next_write with interrupts disabled.  The ring was not     *)
(* full at the test (:131); an add that interrupted since may have taken   *)
(* the last place, and then nwrite runs into nread: the ring looks empty.  *)
Reserve(p) ==
  /\ MayRun(p) /\ adds[p].pc = "reserve"
  /\ msg_array' = [msg_array EXCEPT ![nwrite].busing = TRUE]
  /\ nwrite' = (nwrite + 1) % HM_MSG_MAX
  /\ adds' = [adds EXCEPT ![p].pc = "account", ![p].pmsg = nwrite]
  /\ overrun' = (overrun \/ nwrite' = nread)
  /\ UNCHANGED <<nread, nmin, led_error, main, hung>>

(* The low-water mark: nmin is compared with the slots left, and if larger *)
(* they are counted again and stored, a moment later.                      *)
Account(p) ==
  /\ MayRun(p) /\ adds[p].pc = "account"
  /\ adds' = [adds EXCEPT
       ![p].pc = IF nmin > msg_remaining THEN "note" ELSE "func",
       ![p].nleft = msg_remaining]
  /\ UNCHANGED <<msg_array, nwrite, nread, nmin, led_error, main, hung, overrun>>

Note(p) ==
  /\ MayRun(p) /\ adds[p].pc = "note"
  /\ nmin' = adds[p].nleft
  /\ adds' = [adds EXCEPT ![p].pc = "func"]
  /\ UNCHANGED <<msg_array, nwrite, nread, led_error, main, hung, overrun>>

StoreFunc(p) ==
  /\ MayRun(p) /\ adds[p].pc = "func"
  /\ msg_array' = [msg_array EXCEPT ![adds[p].pmsg].func = adds[p].msg.func]
  /\ adds' = [adds EXCEPT ![p].pc = "param"]
  /\ UNCHANGED <<nwrite, nread, nmin, led_error, main, hung, overrun>>

(* The last store; add returns true.                                       *)
StoreParam(p) ==
  /\ MayRun(p) /\ adds[p].pc = "param"
  /\ msg_array' = [msg_array EXCEPT ![adds[p].pmsg].param = adds[p].msg.param]
  /\ adds' = [adds EXCEPT ![p] = IdleAdd]
  /\ UNCHANGED <<nwrite, nread, nmin, led_error, main, hung, overrun>>

AddStep(p) ==
  Reserve(p) \/ Account(p) \/ Note(p) \/ StoreFunc(p) \/ StoreParam(p)

-----------------------------------------------------------------------------
(* hm_msg_queue_main.                                                      *)

(* msg_get_read finds a call.                                              *)
GetRead ==
  /\ MainMayRun /\ main.pc = "loop"
  /\ ~ismsg_empty
  /\ main' = [main EXCEPT !.pc = "call", !.pmsg = nread]
  /\ UNCHANGED <<msg_array, nwrite, nread, nmin, led_error, adds, hung, overrun>>

(* pmsg->func(pmsg->param) starts.                                         *)
CallFunc ==
  /\ MainMayRun /\ main.pc = "call"
  /\ main' = [main EXCEPT !.pc = "return",
                !.call = [func |-> msg_array[main.pmsg].func,
                          param |-> msg_array[main.pmsg].param]]
  /\ UNCHANGED <<msg_array, nwrite, nread, nmin, led_error, adds, hung, overrun>>

(* The function returned: msg_move_next_read.                              *)
MoveNextRead ==
  /\ MainMayRun /\ main.pc = "return" /\ main.call.func # RebootFunc
  /\ IF main.pmsg # nread
     THEN /\ led_error' = TRUE /\ hung' = TRUE
          /\ UNCHANGED <<msg_array, nread, main>>
     ELSE /\ msg_array' = [msg_array EXCEPT ![main.pmsg].busing = FALSE]
          /\ nread' = (nread + 1) % HM_MSG_MAX
          /\ main' = IdleMain
          /\ UNCHANGED <<led_error, hung>>
  /\ UNCHANGED <<nwrite, nmin, adds, overrun>>

(* hm_cmd_reboot_ck waits 500 ms and resets the board.                     *)
Reboot ==
  /\ MainMayRun /\ main.pc = "return" /\ main.call.func = RebootFunc
  /\ msg_array' = [i \in Slots |-> [func |-> NoFunc, param |-> NoFunc,
                                    busing |-> FALSE]]
  /\ nwrite' = 0 /\ nread' = 0
  /\ nmin' = HM_MSG_MAX
  /\ led_error' = FALSE
  /\ main' = IdleMain
  /\ overrun' = FALSE
  /\ UNCHANGED <<adds, hung>>

hm_msg_queue_main == GetRead \/ CallFunc \/ MoveNextRead \/ Reboot

Next ==
  \/ \E p \in Producers : \E m \in Sends[p] : Check(p, m)
  \/ \E p \in Producers : AddStep(p)
  \/ hm_msg_queue_main

Spec == Init /\ [][Next]_vars

(* An interrupt handler that started returns, whatever interrupts it, and  *)
(* interrupts leave time for the main loop.                                *)
FairSpec ==
  /\ Spec
  /\ \A p \in Producers : SF_vars(AddStep(p))
  /\ SF_vars(hm_msg_queue_main)

-----------------------------------------------------------------------------
(* Type correctness of the queue's state and of the handlers' locals.      *)
TypeOK ==
  /\ msg_array \in [Slots -> [func: FuncsOf, param: ParamsOf, busing: BOOLEAN]]
  /\ nwrite \in Slots /\ nread \in Slots
  /\ nmin \in 0 .. HM_MSG_MAX
  /\ led_error \in BOOLEAN /\ hung \in BOOLEAN /\ overrun \in BOOLEAN
  /\ adds \in [Producers -> AddLocals]
  /\ main \in [pc: {"loop", "call", "return"}, pmsg: Slots,
               call: [func: FuncsOf, param: ParamsOf]]

(* A reserved slot holds the call its handler is about to store.           *)
Filling(i) ==
  {p \in Producers :
     adds[p].pc \in {"account", "note", "func", "param"} /\ adds[p].pmsg = i}

Content(i) ==
  IF Filling(i) # {}
  THEN adds[CHOOSE p \in Filling(i) : TRUE].msg
  ELSE [func |-> msg_array[i].func, param |-> msg_array[i].param]

(* The calls waiting, the call being made, and the handlers whose add      *)
(* passed its test and has no slot yet.                                    *)
Waiting == [k \in 1 .. Used |-> Content((nread + k - 1) % HM_MSG_MAX)]
Running == IF main.pc = "return" THEN <<main.call>> ELSE <<>>
Reserving == {p \in Producers : adds[p].pc = "reserve"}

Fifo ==
  INSTANCE MsgFifo WITH
    Capacity <- HM_MSG_MAX - 1, q <- Waiting, running <- Running,
    admitted <- Reserving

(* The ring with its half-finished adds is a bounded FIFO of calls: no     *)
(* call is lost, doubled, reordered or made with another's parameter, none *)
(* is made before both its stores are done (hm_msg_queue.c:87), and an add *)
(* is let in only while there is room.  The one way out is an overrun, two *)
(* adds let in to the same last place (:131, :133), and a system reset     *)
(* ends that too.                                                          *)
ImplementsFifo == Fifo!Spec

(* Every accepted call is made, unless a reset comes first or the ring was *)
(* overrun (hm_msg_queue_main in the loop of main.c:114-119).              *)
InQueue(i) == (i - nread) % HM_MSG_MAX < Used

EveryMessageHandled ==
  \A i \in Slots :
    InQueue(i) ~> \/ main.pc = "return"
                     /\ (main.pmsg = i \/ main.call.func = RebootFunc)
                  \/ overrun

-----------------------------------------------------------------------------
(* The inductive invariant.                                                *)

FillPc == {"account", "note", "func", "param"}

(* An add under way carries a call of its handler.  The slot it fills is   *)
(* in the queue, no other add fills it and the main loop is not at it; its *)
(* function is stored before its parameter.                                *)
InvFill ==
  \A p \in Producers :
    /\ Active(p) => adds[p].msg \in Sends[p]
    /\ adds[p].pc \in FillPc =>
         /\ InQueue(adds[p].pmsg)
         /\ \A o \in Producers \ {p} :
              adds[o].pc \in FillPc => adds[o].pmsg # adds[p].pmsg
         /\ main.pc # "loop" => adds[p].pmsg # nread
    /\ adds[p].pc = "param" => msg_array[adds[p].pmsg].func = adds[p].msg.func

(* The call the main loop is at is the first one of the queue.             *)
InvMain ==
  /\ ~hung
  /\ main.pc # "loop" => main.pmsg = nread /\ Used > 0

IndInv == TypeOK /\ (~overrun => InvFill /\ InvMain)
=============================================================================
