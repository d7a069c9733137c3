-------------------------------- MODULE Timer --------------------------------
(***************************************************************************)
(* The software timers (hm_timer.c): a table of handlers that SysTick      *)
(* counts down once a millisecond.  Handlers are registered and removed by *)
(* the start-up code of the main program, which SysTick interrupts between *)
(* any two stores; hm_delay waits there for the tick counter.              *)
(***************************************************************************)
EXTENDS Integers, FiniteSets, FiniteSetsExt

CONSTANTS
  HM_MAX_TIMER,   \* slots in the table (10)
  CountMod,       \* a tim_count_t counts modulo this (2^32)
  Funcs,          \* handlers
  Direct,         \* those called in SysTick, not through the message queue
  NoFunc,         \* the null handler
  Periods,        \* periods they are registered with
  OnceFlags,      \* values of once they are registered with
  Delays          \* arguments of hm_delay

ASSUME TableAssumption == HM_MAX_TIMER \in Nat \ {0}
ASSUME ModAssumption == CountMod \in Nat \ {0}
ASSUME FuncAssumption == NoFunc \notin Funcs /\ Direct \subseteq Funcs
ASSUME PeriodAssumption == Periods \subseteq 0 .. CountMod - 1
ASSUME OnceAssumption == OnceFlags \subseteq BOOLEAN
ASSUME DelayAssumption == Delays \subseteq 0 .. CountMod - 1

VARIABLES
  s_tim_count,
  s_timers,
  prog,      \* the main program: where it is in a call, and its locals
  handles,   \* slots returned by hm_timer_register and not yet unregistered
  age,       \* history: ticks since a slot was armed or last called, up to
             \* its period
  used,      \* history: slots that were ever armed
  fired      \* history: slots whose handler the last step called

vars == <<s_tim_count, s_timers, prog, handles, age, used, fired>>

Idx == 0 .. HM_MAX_TIMER - 1
Count == 0 .. CountMod - 1

Timer_t ==
  [func: Funcs \cup {NoFunc}, period: Count, ms: Count, once: BOOLEAN,
   bcall_direct: BOOLEAN]

(* Stores of hm_timer_register in program order, then the two loops of     *)
(* hm_delay.                                                               *)
ProgPc ==
  {"idle", "func", "period", "ms", "once", "direct", "above", "below"}

Waiting == {"above", "below"}

(* A registration that has not got as far as the ms of its slot.           *)
Arming == {"func", "period", "ms"}

(* despire is that of hm_delay, ms the argument of either call; waited is  *)
(* history, up to CountMod: the ticks since hm_delay was called, or since  *)
(* hm_timer_register was called until its slot is armed.                   *)
Prog ==
  [pc: ProgPc, slot: Idx, func: Funcs \cup {NoFunc}, ms: Count,
   once: BOOLEAN, direct: BOOLEAN, despire: Count, waited: 0 .. CountMod]

IdleProg ==
  [pc |-> "idle", slot |-> 0, func |-> NoFunc, ms |-> 0, once |-> FALSE,
   direct |-> FALSE, despire |-> 0, waited |-> 0]

(* hm_timer_init on zeroed static data.                                    *)
Init ==
  /\ s_tim_count = 0
  /\ s_timers = [i \in Idx |-> [func |-> NoFunc, period |-> 0, ms |-> 0,
                                once |-> FALSE, bcall_direct |-> FALSE]]
  /\ prog = IdleProg
  /\ handles = {}
  /\ age = [i \in Idx |-> 0]
  /\ used = {}
  /\ fired = {}

(* n - k of unsigned counts.                                               *)
Less(n, k) == (n - k) % CountMod

Later(n) == IF n = CountMod THEN n ELSE n + 1

-----------------------------------------------------------------------------
(* SysTick_Handler: registered slots are counted down in order of index up *)
(* to the first that reaches 0, which is reloaded and called; the loop     *)
(* ends there, and the slots behind it miss this tick.                     *)
Due ==
  {i \in Idx : s_timers[i].func # NoFunc /\ Less(s_timers[i].ms, 1) = 0}

(* Mutated: the break one brace too far, only the first slot counts.       *)
ReachedFirst(i) == \A j \in Idx : j < i => s_timers[j].func = NoFunc

Reached(i) == Due = {} \/ i <= Min(Due)

AfterCall(t) ==
  [t EXCEPT !.ms = t.period, !.func = IF t.once THEN NoFunc ELSE t.func]

CountDown(i, t) ==
  IF t.func = NoFunc \/ ~Reached(i) THEN t
  ELSE IF i \in Due THEN AfterCall(t)
  ELSE [t EXCEPT !.ms = Less(t.ms, 1)]

SysTick_Handler ==
  /\ s_tim_count' = (s_tim_count + 1) % CountMod
  /\ s_timers' = [i \in Idx |-> CountDown(i, s_timers[i])]
  /\ fired' = IF Due = {} THEN {} ELSE {Min(Due)}
  /\ age' = [i \in Idx |->
                IF i \in fired' \/ s_timers[i].func = NoFunc THEN 0
                ELSE Min({age[i] + 1, s_timers[i].period})]
  /\ prog' = [prog EXCEPT !.waited =
                IF prog.pc \in Waiting \cup Arming THEN Later(@) ELSE @]
  /\ UNCHANGED <<handles, used>>

-----------------------------------------------------------------------------
(* hm_timer_register.                                                      *)

Free == {i \in Idx : s_timers[i].func = NoFunc}

(* The duplicate test compares the ticks left, not the period.             *)
Duplicate(f, ms) == \E i \in Idx : s_timers[i].func = f /\ s_timers[i].ms = ms

(* The scan; with a duplicate or no free slot it returns NULL.             *)
Register(f, ms, once, direct) ==
  /\ prog.pc = "idle"
  /\ ~Duplicate(f, ms) /\ Free # {}
  /\ prog' = [IdleProg EXCEPT !.pc = "func", !.slot = Min(Free), !.func = f,
                !.ms = ms, !.once = once, !.direct = direct]
  /\ fired' = {}
  /\ UNCHANGED <<s_tim_count, s_timers, handles, age, used>>

(* The program behind a store; its locals die when the call returns.       *)
Behind(next) == IF next = "idle" THEN IdleProg ELSE [prog EXCEPT !.pc = next]

Store(pc, next, timer) ==
  /\ prog.pc = pc
  /\ s_timers' = [s_timers EXCEPT ![prog.slot] = timer]
  /\ prog' = Behind(next)
  /\ fired' = {}
  /\ UNCHANGED s_tim_count

Slot == s_timers[prog.slot]

StoreFunc ==
  /\ Store("func", "period", [Slot EXCEPT !.func = prog.func])
  /\ UNCHANGED <<handles, age, used>>

StorePeriod ==
  /\ Store("period", "ms", [Slot EXCEPT !.period = prog.ms])
  /\ UNCHANGED <<handles, age, used>>

(* Mutated: a slot keeps the ticks its last handler left.                  *)
StoreMsForgotten ==
  /\ Store("ms", "once", Slot)
  /\ age' = [age EXCEPT ![prog.slot] = 0]
  /\ used' = used \cup {prog.slot}
  /\ UNCHANGED handles

(* From here the slot counts the period it was asked for: it is armed.     *)
StoreMs ==
  /\ Store("ms", "once", [Slot EXCEPT !.ms = prog.ms])
  /\ age' = [age EXCEPT ![prog.slot] = 0]
  /\ used' = used \cup {prog.slot}
  /\ UNCHANGED handles

StoreOnce ==
  /\ Store("once", "direct", [Slot EXCEPT !.once = prog.once])
  /\ UNCHANGED <<handles, age, used>>

StoreDirect ==
  /\ Store("direct", "idle", [Slot EXCEPT !.bcall_direct = prog.direct])
  /\ handles' = handles \cup {prog.slot}
  /\ UNCHANGED <<age, used>>

hm_timer_register ==
  \/ \E f \in Funcs, ms \in Periods, once \in OnceFlags :
       Register(f, ms, once, f \in Direct)
  \/ StoreFunc \/ StorePeriod \/ StoreMs \/ StoreOnce \/ StoreDirect

hm_timer_unregister(i) ==
  /\ prog.pc = "idle" /\ i \in handles
  /\ s_timers' = [s_timers EXCEPT ![i].func = NoFunc]
  /\ handles' = handles \ {i}
  /\ fired' = {}
  /\ UNCHANGED <<s_tim_count, prog, age, used>>

-----------------------------------------------------------------------------
(* hm_delay: wait while the counter is above despire (it has to wrap       *)
(* first), then until it is above it again.                                *)
DelayStart(ms) ==
  /\ prog.pc = "idle"
  /\ prog' = [IdleProg EXCEPT !.pc = "above", !.ms = ms,
                !.despire = (s_tim_count + ms) % CountMod]
  /\ fired' = {}
  /\ UNCHANGED <<s_tim_count, s_timers, handles, age, used>>

(* Mutated: the wrap is not waited for.                                    *)
DelayAboveAtOnce ==
  /\ prog.pc = "above"
  /\ prog' = [prog EXCEPT !.pc = "below"]
  /\ fired' = {}
  /\ UNCHANGED <<s_tim_count, s_timers, handles, age, used>>

DelayAbove ==
  /\ prog.pc = "above" /\ ~(s_tim_count > prog.despire)
  /\ prog' = [prog EXCEPT !.pc = "below"]
  /\ fired' = {}
  /\ UNCHANGED <<s_tim_count, s_timers, handles, age, used>>

DelayReturn ==
  /\ prog.pc = "below" /\ ~(s_tim_count <= prog.despire)
  /\ prog' = IdleProg
  /\ fired' = {}
  /\ UNCHANGED <<s_tim_count, s_timers, handles, age, used>>

Next ==
  \/ SysTick_Handler
  \/ hm_timer_register
  \/ \E i \in Idx : hm_timer_unregister(i)
  \/ \E ms \in Delays : DelayStart(ms)
  \/ DelayAbove \/ DelayReturn

Spec == Init /\ [][Next]_vars

(* SysTick keeps coming, and the stores of a registration are executed.    *)
FairSpec ==
  Spec /\ WF_vars(SysTick_Handler) /\ WF_vars(hm_timer_register /\ prog.pc # "idle")

-----------------------------------------------------------------------------
(* Type correctness of table, counter and the program's locals.            *)
TypeOK ==
  /\ s_tim_count \in Count
  /\ s_timers \in [Idx -> Timer_t]
  /\ prog \in Prog
  /\ handles \subseteq Idx
  /\ age \in [Idx -> Count]
  /\ used \subseteq Idx
  /\ fired \subseteq Idx

(* Slot i is being registered and not armed yet.                           *)
Unarmed(i) == prog.pc \in Arming /\ prog.slot = i

(* A handler is never called before its period is over, counted from the   *)
(* store that armed it or from its last call, whatever slots are reused    *)
(* (hm_timer.c:64-65, 102-105).  Between the store of its func and that of *)
(* its ms a slot counts what it was left with: one that was used before    *)
(* may call the new handler at once, one that never was has 0 left, which  *)
(* wraps, and stays quiet for CountMod ticks.                              *)
NeverEarly ==
  [][\A i \in fired' :
       IF Unarmed(i) THEN i \in used \/ prog.waited + 1 >= CountMod
       ELSE age[i] + 1 >= s_timers[i].period]_vars

(* hm_delay(ms) lasts more than ms ticks, also when the counter wraps      *)
(* meanwhile (hm_timer.c:42-44).                                           *)
DelayLasts ==
  [][DelayReturn => prog.waited > prog.ms]_vars

(* Although a call makes the slots behind it miss a tick                   *)
(* (hm_timer.c:111), no registered handler is starved.                     *)
EveryTimerCalled ==
  \A i \in Idx :
    (s_timers[i].func # NoFunc) ~> (i \in fired \/ s_timers[i].func = NoFunc)

-----------------------------------------------------------------------------
(* The inductive invariant behind the properties above but                 *)
(* EveryTimerCalled.                                                       *)

(* A slot that is armed, and has a period, has not counted more ticks than *)
(* have passed: the ticks left and the ticks since make up the period.  It *)
(* counts down to 1 and never past it.  A registration that gets to the    *)
(* store of ms has its period in the slot.                                 *)
InvArmed ==
  /\ \A i \in Idx :
       s_timers[i].func # NoFunc /\ ~Unarmed(i) /\ s_timers[i].period > 0 =>
         s_timers[i].ms >= 1 /\ age[i] + s_timers[i].ms >= s_timers[i].period
  /\ prog.pc = "ms" => Slot.period = prog.ms

(* A slot never armed is free with no ticks left, or is being registered   *)
(* and wrapped from there with the first tick that saw its handler.        *)
InvFresh ==
  \A i \in Idx \ used :
    \/ s_timers[i].func = NoFunc /\ s_timers[i].ms = 0
    \/ /\ Unarmed(i)
       /\ \/ s_timers[i].ms = 0
          \/ s_timers[i].ms + prog.waited >= CountMod

(* The counter is as far from the start of hm_delay as it waited.  The     *)
(* second loop is reached only after the wrap, if there is to be one.      *)
InvWaited ==
  prog.pc \in Waiting /\ prog.waited < CountMod =>
    LET start == Less(prog.despire, prog.ms)
    IN /\ s_tim_count = (start + prog.waited) % CountMod
       /\ prog.pc = "below" /\ start + prog.ms >= CountMod =>
            start + prog.waited >= CountMod

IndInv == TypeOK /\ InvArmed /\ InvFresh /\ InvWaited
=============================================================================
