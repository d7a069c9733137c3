---------------------------- MODULE Timer_proofs ----------------------------
(* The software timers, for every size of the table, every width of the    *)
(* counter and all handlers, periods and delays: no handler is called      *)
(* early, a delay is never short.                                          *)
EXTENDS Timer, WellFoundedInduction, TLAPS

-----------------------------------------------------------------------------
(* Arithmetic of unsigned counts.                                          *)

LEMMA ModSmall ==
  ASSUME NEW m \in Nat \ {0}, NEW n \in Int, 0 <= n, n < m
  PROVE  n % m = n
OBVIOUS

LEMMA ModOver ==
  ASSUME NEW m \in Nat \ {0}, NEW n \in Int, NEW k \in Int, m <= n + k, n + k < m + m
  PROVE  (n + k) % m = n + k - m
OBVIOUS

LEMMA ModUnder ==
  ASSUME NEW m \in Nat \ {0}, NEW n \in Int, -m <= n, n < 0
  PROVE  n % m = n + m
OBVIOUS

LEMMA ModRange ==
  ASSUME NEW m \in Nat \ {0}, NEW n \in Int
  PROVE  n % m \in 0 .. m - 1
OBVIOUS

(* A count goes down by one, or from 0 to the largest.                     *)
LEMMA LessOne ==
  ASSUME NEW n \in Count
  PROVE  /\ Less(n, 1) \in Count
         /\ n > 0 => Less(n, 1) = n - 1
         /\ n = 0 => Less(n, 1) = CountMod - 1
<1>1. n \in Int /\ 0 <= n /\ n < CountMod /\ CountMod \in Nat \ {0}
  BY ModAssumption DEF Count
<1>2. CASE n > 0
  <2>1. (n - 1) % CountMod = n - 1
    BY <1>1, <1>2, ModSmall
  <2> QED BY <1>1, <1>2, <2>1 DEF Less, Count
<1>3. CASE n = 0
  <2>1. (n - 1) % CountMod = n - 1 + CountMod
    BY <1>1, <1>3, ModUnder
  <2> QED BY <1>1, <1>3, <2>1 DEF Less, Count
<1> QED BY <1>1, <1>2, <1>3

(* The smaller of two numbers.                                             *)
LEMMA MinOfTwo ==
  ASSUME NEW a \in Int, NEW b \in Int
  PROVE  Min({a, b}) = IF a <= b THEN a ELSE b
<1> DEFINE c == IF a <= b THEN a ELSE b
<1>1. c \in {a, b} /\ \A y \in {a, b} : c <= y
  OBVIOUS
<1>2. \A x \in {a, b} : (\A y \in {a, b} : x <= y) => x = c
  OBVIOUS
<1> HIDE DEF c
<1>3. Min({a, b}) = c
  BY <1>1, <1>2, Zenon DEF Min
<1> QED BY <1>3 DEF c

(* A set of slots that is not empty has a first one.                       *)
LEMMA MinOfSlots ==
  ASSUME NEW S \in SUBSET Idx, S # {}
  PROVE  Min(S) \in S /\ \A y \in S : Min(S) <= y
<1>1. S \subseteq Nat
  BY TableAssumption DEF Idx
<1> DEFINE Smaller == {p \in Nat \X Nat : p[1] < p[2]}
<1>2. IsWellFoundedOn(Smaller, Nat)
  <2>1. OpToRel(<, Nat) = Smaller
    BY Zenon DEF OpToRel
  <2> QED BY <2>1, NatLessThanWellFounded, Zenon
<1>3. PICK i \in S : \A j \in S : ~(<<j, i>> \in Smaller)
  <2> HIDE DEF Smaller
  <2> QED BY <1>1, <1>2, WFMin, Zenon
<1>4. ASSUME NEW j \in S
      PROVE  i <= j
  <2>1. ~(j < i)
    <3>1. j < i => <<j, i>> \in Smaller
      <4>1. <<j, i>> \in Nat \X Nat
        BY <1>1
      <4> QED BY <4>1
    <3> QED BY <1>3, <3>1
  <2> QED BY <1>1, <2>1
<1>5. i \in S /\ \A y \in S : i <= y
  BY <1>4
<1> QED BY <1>5, Zenon DEF Min

-----------------------------------------------------------------------------
(* What SysTick does to one slot.                                          *)

LEMMA DueFirst ==
  /\ Due \subseteq Idx
  /\ Due # {} => Min(Due) \in Due /\ \A i \in Due : Min(Due) <= i
BY MinOfSlots DEF Due

LEMMA SlotTicks ==
  ASSUME TypeOK, SysTick_Handler, NEW i \in Idx
  PROVE  /\ s_timers'[i].period = s_timers[i].period
         /\ s_timers'[i] \in Timer_t
         /\ s_timers[i].func = NoFunc =>
              s_timers'[i] = s_timers[i] /\ i \notin fired'
         /\ s_timers[i].func # NoFunc /\ i \in fired' =>
              /\ s_timers[i].ms = 1 \/ CountMod = 1
              /\ s_timers'[i].ms = s_timers[i].period
              /\ s_timers[i].once => s_timers'[i].func = NoFunc
         /\ s_timers[i].func # NoFunc /\ i \notin fired' =>
              /\ s_timers'[i].func = s_timers[i].func
              /\ \/ s_timers'[i].ms = s_timers[i].ms
                 \/ /\ s_timers'[i].ms = Less(s_timers[i].ms, 1)
                    /\ Less(s_timers[i].ms, 1) # 0
<1> DEFINE t == s_timers[i]
<1>1. t \in Timer_t /\ t.ms \in Count /\ t.period \in Count
  BY DEF TypeOK, Timer_t
<1>2. s_timers'[i] = CountDown(i, t)
  BY DEF SysTick_Handler
<1>3. i \in fired' <=> Due # {} /\ i = Min(Due)
  BY DEF SysTick_Handler
<1>4. i \in Due <=> t.func # NoFunc /\ Less(t.ms, 1) = 0
  BY DEF Due
<1>5. Less(t.ms, 1) \in Count /\ (Less(t.ms, 1) = 0 => t.ms = 1 \/ CountMod = 1)
  <2>1. t.ms \in Nat /\ CountMod \in Nat
    BY <1>1, ModAssumption DEF Count
  <2> QED BY <1>1, <2>1, LessOne
<1>6. CASE t.func = NoFunc
  <2>1. s_timers'[i] = t
    BY <1>2, <1>6 DEF CountDown
  <2>2. i \notin fired'
    BY <1>3, <1>4, <1>6, DueFirst
  <2> QED BY <1>1, <1>6, <2>1, <2>2
<1>7. CASE t.func # NoFunc /\ i \in Due /\ i = Min(Due)
  <2>1. Reached(i)
    BY <1>7, DueFirst DEF Reached
  <2>2. s_timers'[i] = AfterCall(t)
    BY <1>2, <1>7, <2>1 DEF CountDown
  <2>3. i \in fired'
    BY <1>3, <1>7
  <2> QED BY <1>1, <1>4, <1>5, <1>7, <2>2, <2>3 DEF AfterCall, Timer_t
<1>8. CASE t.func # NoFunc /\ i \in Due /\ i # Min(Due)
  <2>1. ~Reached(i)
    <3>1. i \in Int /\ Min(Due) \in Int
      <4>1. Min(Due) \in Idx
        BY <1>8, DueFirst
      <4> QED BY <4>1, TableAssumption DEF Idx
    <3> QED BY <1>8, <3>1, DueFirst DEF Reached
  <2>2. s_timers'[i] = t /\ i \notin fired'
    BY <1>2, <1>3, <1>8, <2>1 DEF CountDown
  <2> QED BY <1>1, <1>8, <2>2
<1>9. CASE t.func # NoFunc /\ i \notin Due
  <2>1. i \notin fired'
    BY <1>3, <1>9, DueFirst
  <2>2. s_timers'[i] = t \/ s_timers'[i] = [t EXCEPT !.ms = Less(t.ms, 1)]
    BY <1>2, <1>9 DEF CountDown
  <2> QED BY <1>1, <1>4, <1>5, <1>9, <2>1, <2>2 DEF Timer_t
<1> QED BY <1>6, <1>7, <1>8, <1>9
-----------------------------------------------------------------------------
(* The inductive invariant.                                                *)

LEMMA InitInv == Init => IndInv
<1> SUFFICES ASSUME Init
             PROVE  IndInv
  OBVIOUS
<1>1. 0 \in Idx /\ 0 \in Count /\ 0 \in 0 .. CountMod
  BY TableAssumption, ModAssumption DEF Idx, Count
<1>2. TypeOK
  BY <1>1 DEF Init, TypeOK, Timer_t, Prog, ProgPc, IdleProg
<1>3. InvArmed /\ InvFresh /\ InvWaited
  BY DEF Init, InvArmed, InvFresh, InvWaited, IdleProg, Waiting
<1> QED BY <1>2, <1>3 DEF IndInv

(* The tick.                                                               *)
LEMMA TickTypes ==
  ASSUME IndInv, SysTick_Handler
  PROVE  TypeOK'
<1>1. TypeOK
  BY DEF IndInv
<1>2. s_tim_count' \in Count
  <2>1. s_tim_count + 1 \in Int
    BY <1>1, ModAssumption DEF TypeOK, Count
  <2> QED BY <2>1, ModAssumption, ModRange DEF SysTick_Handler, Count
<1>3. s_timers' \in [Idx -> Timer_t]
  <2>1. s_timers' = [i \in Idx |-> CountDown(i, s_timers[i])]
    BY DEF SysTick_Handler
  <2>2. \A i \in Idx : s_timers'[i] \in Timer_t
    BY <1>1, SlotTicks
  <2> QED BY <2>1, <2>2
<1>4. prog' \in Prog
  <2>1. prog.waited \in 0 .. CountMod
    BY <1>1 DEF TypeOK, Prog
  <2>2. Later(prog.waited) \in 0 .. CountMod
    BY <2>1, ModAssumption DEF Later
  <2> QED BY <1>1, <2>2 DEF SysTick_Handler, TypeOK, Prog
<1>5. fired' \subseteq Idx
  BY DueFirst DEF SysTick_Handler
<1>6. age' \in [Idx -> Count]
  <2>1. ASSUME NEW i \in Idx
        PROVE  Min({age[i] + 1, s_timers[i].period}) \in Count
    <3>1. age[i] \in Count /\ s_timers[i].period \in Count
      BY <1>1 DEF TypeOK, Timer_t
    <3>2. age[i] + 1 \in Int /\ s_timers[i].period \in Int
      BY <3>1, ModAssumption DEF Count
    <3> QED BY <3>1, <3>2, ModAssumption, MinOfTwo DEF Count
  <2>2. 0 \in Count
    BY ModAssumption DEF Count
  <2> QED BY <2>1, <2>2 DEF SysTick_Handler
<1>7. handles' \subseteq Idx /\ used' \subseteq Idx
  BY <1>1 DEF SysTick_Handler, TypeOK
<1> QED BY <1>2, <1>3, <1>4, <1>5, <1>6, <1>7 DEF TypeOK

LEMMA TickArmed ==
  ASSUME IndInv, SysTick_Handler
  PROVE  InvArmed'
<1>1. TypeOK /\ InvArmed
  BY DEF IndInv
<1>2. prog'.pc = prog.pc /\ prog'.slot = prog.slot /\ prog'.ms = prog.ms
  BY <1>1 DEF SysTick_Handler, TypeOK, Prog
<1>3. ASSUME NEW i \in Idx, s_timers'[i].func # NoFunc, ~Unarmed(i)',
             s_timers'[i].period > 0
      PROVE  /\ s_timers'[i].ms >= 1
             /\ age'[i] + s_timers'[i].ms >= s_timers'[i].period
  <2> DEFINE t == s_timers[i]
             u == s_timers'[i]
  <2>1. /\ t.ms \in Nat /\ t.period \in Nat /\ age[i] \in Nat /\ t.ms \in Count
        /\ u.period = t.period /\ u.ms \in Nat
    BY <1>1, SlotTicks, ModAssumption DEF TypeOK, Timer_t, Count
  <2>2. t.func # NoFunc /\ t.period > 0 /\ t.ms >= 1 /\ age[i] + t.ms >= t.period
    <3>1. t.func # NoFunc
      BY <1>1, <1>3, SlotTicks
    <3>2. ~Unarmed(i)
      BY <1>2, <1>3 DEF Unarmed
    <3> QED BY <1>1, <1>3, <2>1, <3>1, <3>2 DEF InvArmed
  <2>3. age'[i] = IF i \in fired' THEN 0
                  ELSE Min({age[i] + 1, t.period})
    BY <2>2 DEF SysTick_Handler
  <2>4. CASE i \in fired'
    <3>1. u.ms = t.period
      BY <1>1, <2>2, <2>4, SlotTicks
    <3> QED BY <2>1, <2>2, <2>3, <2>4, <3>1
  <2>5. CASE i \notin fired'
    <3>1. Min({age[i] + 1, t.period}) =
            IF age[i] + 1 <= t.period THEN age[i] + 1 ELSE t.period
      BY <2>1, MinOfTwo
    <3>2. u.ms = t.ms \/ (u.ms = Less(t.ms, 1) /\ Less(t.ms, 1) # 0)
      BY <1>1, <2>2, <2>5, SlotTicks
    <3>3. u.ms = t.ms \/ (u.ms = t.ms - 1 /\ u.ms # 0)
      BY <2>1, <2>2, <3>2, LessOne
    <3> QED BY <2>1, <2>2, <2>3, <2>5, <3>1, <3>3
  <2> QED BY <2>4, <2>5
<1>4. (prog.pc = "ms" => Slot.period = prog.ms)'
  <2>1. prog.slot \in Idx
    BY <1>1 DEF TypeOK, Prog
  <2>2. s_timers'[prog.slot].period = s_timers[prog.slot].period
    BY <1>1, <2>1, SlotTicks
  <2> QED BY <1>1, <1>2, <2>2 DEF InvArmed, Slot
<1> QED BY <1>3, <1>4 DEF InvArmed

LEMMA TickFresh ==
  ASSUME IndInv, SysTick_Handler
  PROVE  InvFresh'
<1>1. TypeOK /\ InvFresh /\ used' = used
  BY DEF IndInv, SysTick_Handler
<1>2. /\ prog'.pc = prog.pc /\ prog'.slot = prog.slot
      /\ prog.pc \in Arming => prog'.waited = Later(prog.waited)
  BY <1>1 DEF SysTick_Handler, TypeOK, Prog
<1>3. ASSUME NEW i \in Idx \ used
      PROVE  \/ s_timers'[i].func = NoFunc /\ s_timers'[i].ms = 0
             \/ /\ Unarmed(i)'
                /\ s_timers'[i].ms = 0 \/ s_timers'[i].ms + prog'.waited >= CountMod
  <2> DEFINE t == s_timers[i]
  <2>1. CASE t.func = NoFunc /\ t.ms = 0
    BY <1>1, <2>1, SlotTicks
  <2>2. CASE Unarmed(i) /\ (t.ms = 0 \/ t.ms + prog.waited >= CountMod)
    <3>1. Unarmed(i)' /\ prog'.waited = Later(prog.waited)
      BY <1>2, <2>2 DEF Unarmed
    <3>2. /\ t.ms \in Count /\ t.ms \in Nat /\ t.period \in Nat
          /\ prog.waited \in 0 .. CountMod /\ CountMod \in Nat \ {0}
      BY <1>1, ModAssumption DEF TypeOK, Timer_t, Prog, Count
    <3>3. /\ prog'.waited \in Nat
          /\ prog'.waited = IF prog.waited = CountMod THEN CountMod ELSE prog.waited + 1
      BY <3>1, <3>2 DEF Later
    <3>4. CASE t.func = NoFunc
      <4>1. s_timers'[i].ms = t.ms
        BY <1>1, <3>4, SlotTicks
      <4> QED BY <2>2, <3>1, <3>2, <3>3, <4>1
    <3>5. CASE t.func # NoFunc /\ i \in fired'
      <4>1. s_timers'[i].ms = t.period /\ (t.ms = 1 \/ CountMod = 1)
        BY <1>1, <3>5, SlotTicks
      <4> QED BY <2>2, <3>1, <3>2, <3>3, <4>1
    <3>6. CASE t.func # NoFunc /\ i \notin fired'
      <4>1. s_timers'[i].ms = t.ms \/ s_timers'[i].ms = Less(t.ms, 1)
        BY <1>1, <3>6, SlotTicks
      <4>2. Less(t.ms, 1) = IF t.ms = 0 THEN CountMod - 1 ELSE t.ms - 1
        BY <3>2, LessOne
      <4> QED BY <2>2, <3>1, <3>2, <3>3, <4>1, <4>2
    <3> QED BY <3>4, <3>5, <3>6
  <2> QED BY <1>1, <2>1, <2>2 DEF InvFresh
<1> QED BY <1>1, <1>3 DEF InvFresh

(* Where hm_delay started, and where it is going: the argument is added    *)
(* once, with or without a wrap.                                           *)
LEMMA StartOfDelay ==
  ASSUME NEW d \in Count, NEW k \in Count
  PROVE  /\ Less(d, k) \in Count
         /\ Less(d, k) + k < CountMod => d = Less(d, k) + k
         /\ Less(d, k) + k >= CountMod => d = Less(d, k) + k - CountMod
<1>1. /\ d \in Int /\ k \in Int /\ 0 <= d /\ 0 <= k /\ d < CountMod /\ k < CountMod
      /\ CountMod \in Nat \ {0}
  BY ModAssumption DEF Count
<1>2. CASE d >= k
  <2>1. (d - k) % CountMod = d - k
    BY <1>1, <1>2, ModSmall
  <2> QED BY <1>1, <1>2, <2>1 DEF Less, Count
<1>3. CASE d < k
  <2>1. (d - k) % CountMod = d - k + CountMod
    BY <1>1, <1>3, ModUnder
  <2> QED BY <1>1, <1>3, <2>1 DEF Less, Count
<1> QED BY <1>1, <1>2, <1>3

(* A count w < CountMod after s, with and without a wrap.                  *)
LEMMA CountAfter ==
  ASSUME NEW s \in Count, NEW w \in Count
  PROVE  (s + w) % CountMod = IF s + w < CountMod THEN s + w ELSE s + w - CountMod
<1>1. /\ s \in Int /\ w \in Int /\ 0 <= s /\ 0 <= w /\ s < CountMod /\ w < CountMod
      /\ CountMod \in Nat \ {0}
  BY ModAssumption DEF Count
<1>2. CASE s + w < CountMod
  BY <1>1, <1>2, ModSmall
<1>3. CASE ~(s + w < CountMod)
  <2>1. s + w \in Int /\ CountMod <= s + w /\ s + w < CountMod + CountMod
    BY <1>1, <1>3
  <2>2. (s + w) % CountMod = s + w - CountMod
    BY <1>1, <2>1, ModOver
  <2> QED BY <1>3, <2>2
<1> QED BY <1>2, <1>3

LEMMA TickWaited ==
  ASSUME IndInv, SysTick_Handler
  PROVE  InvWaited'
<1>1. TypeOK /\ InvWaited
  BY DEF IndInv
<1>2. /\ prog'.pc = prog.pc /\ prog'.ms = prog.ms /\ prog'.despire = prog.despire
      /\ prog.pc \in Waiting => prog'.waited = Later(prog.waited)
  BY <1>1 DEF SysTick_Handler, TypeOK, Prog
<1> SUFFICES ASSUME prog.pc \in Waiting, prog'.waited < CountMod
             PROVE  LET start == Less(prog.despire, prog.ms)
                    IN /\ s_tim_count' = (start + prog'.waited) % CountMod
                       /\ prog.pc = "below" /\ start + prog.ms >= CountMod =>
                            start + prog'.waited >= CountMod
  BY <1>2 DEF InvWaited, Less
<1> DEFINE start == Less(prog.despire, prog.ms)
           w == prog.waited
<1>3. start \in Count /\ w \in 0 .. CountMod /\ s_tim_count \in Count
  BY <1>1, StartOfDelay DEF TypeOK, Prog
<1> HIDE DEF start
<1>4. CountMod \in Nat \ {0} /\ start \in 0 .. CountMod - 1
  BY <1>3, ModAssumption DEF Count
<1>5. prog'.waited = w + 1 /\ w \in Count /\ w + 1 \in Count
  BY <1>2, <1>3, <1>4 DEF Later, Count
<1>6. /\ s_tim_count = (start + w) % CountMod
      /\ prog.pc = "below" /\ start + prog.ms >= CountMod => start + w >= CountMod
  <2>1. w < CountMod
    BY <1>4, <1>5 DEF Count
  <2> QED BY <1>1, <2>1, Zenon DEF InvWaited, start
<1>7. s_tim_count' = (s_tim_count + 1) % CountMod
  BY DEF SysTick_Handler
<1>8. (s_tim_count + 1) % CountMod = (start + (w + 1)) % CountMod
  <2>1. s_tim_count = IF start + w < CountMod THEN start + w ELSE start + w - CountMod
    BY <1>3, <1>5, <1>6, CountAfter
  <2>2. (start + (w + 1)) % CountMod =
          IF start + (w + 1) < CountMod THEN start + (w + 1)
          ELSE start + (w + 1) - CountMod
    BY <1>3, <1>5, CountAfter
  <2>3. s_tim_count \in 0 .. CountMod - 1 /\ w \in 0 .. CountMod - 1
    BY <1>3, <1>5 DEF Count
  <2>4. CASE s_tim_count + 1 < CountMod
    <3>1. (s_tim_count + 1) % CountMod = s_tim_count + 1
      BY <1>4, <2>3, <2>4, ModSmall
    <3> QED BY <1>4, <2>1, <2>2, <2>3, <2>4, <3>1
  <2>5. CASE ~(s_tim_count + 1 < CountMod)
    <3>1. s_tim_count + 1 = CountMod
      BY <1>4, <2>3, <2>5
    <3>2. (s_tim_count + 1) % CountMod = s_tim_count + 1 - CountMod
      BY <1>4, <2>3, <3>1, ModOver
    <3>3. start + w >= CountMod => FALSE
      BY <1>4, <2>1, <2>3, <3>1, <1>5 DEF Count
    <3> QED BY <1>4, <2>1, <2>2, <2>3, <3>1, <3>2, <3>3
  <2> QED BY <2>4, <2>5
<1>9. prog.pc = "below" /\ start + prog.ms >= CountMod => start + prog'.waited >= CountMod
  <2>1. start \in Int /\ w \in Int
    BY <1>3, ModAssumption DEF Count
  <2> QED BY <1>4, <1>5, <1>6, <2>1
<1> QED BY <1>5, <1>7, <1>8, <1>9 DEF start

LEMMA TickStep ==
  ASSUME IndInv, SysTick_Handler
  PROVE  IndInv'
BY TickTypes, TickArmed, TickFresh, TickWaited DEF IndInv

-----------------------------------------------------------------------------
(* The program.                                                            *)

LEMMA RegisterStep ==
  ASSUME IndInv, NEW f \in Funcs, NEW ms \in Periods, NEW once \in OnceFlags,
         Register(f, ms, once, f \in Direct)
  PROVE  IndInv'
<1>1. TypeOK /\ InvArmed /\ InvFresh
  BY DEF IndInv
<1>2. Min(Free) \in Free /\ Min(Free) \in Idx
  BY MinOfSlots DEF Register, Free
<1>3. /\ prog'.pc = "func" /\ prog'.slot = Min(Free)
      /\ UNCHANGED <<s_tim_count, s_timers, handles, age, used>>
  BY DEF Register, IdleProg
<1>4. TypeOK'
  <2>1. prog' \in Prog
    <3>1. (f \in Direct) \in BOOLEAN /\ once \in BOOLEAN /\ ms \in Count
      BY OnceAssumption, PeriodAssumption DEF Count
    <3>2. 0 \in Count /\ 0 \in 0 .. CountMod
      BY ModAssumption DEF Count
    <3>3. IdleProg \in Prog
      BY <3>2, TableAssumption DEF IdleProg, Prog, ProgPc, Idx
    <3>4. "func" \in ProgPc
      BY DEF ProgPc
    <3> QED BY <1>2, <3>1, <3>3, <3>4, Zenon DEF Register, Prog
  <2>2. fired' \subseteq Idx
    BY DEF Register
  <2> QED BY <1>1, <1>3, <2>1, <2>2 DEF TypeOK
<1>5. InvArmed'
  BY <1>1, <1>2, <1>3 DEF InvArmed, Unarmed, Arming, Free, Register
<1>6. InvFresh' /\ InvWaited'
  <2>1. prog.pc = "idle"
    BY DEF Register
  <2> QED BY <1>1, <1>3, <2>1 DEF InvFresh, InvWaited, Waiting, Unarmed, Arming
<1> QED BY <1>4, <1>5, <1>6 DEF IndInv

LEMMA StoreStep ==
  ASSUME IndInv,
         StoreFunc \/ StorePeriod \/ StoreMs \/ StoreOnce \/ StoreDirect
  PROVE  IndInv'
<1>1. TypeOK /\ InvArmed /\ InvFresh
  BY DEF IndInv
<1>2. prog.slot \in Idx /\ prog \in Prog /\ Slot \in Timer_t
  BY <1>1 DEF TypeOK, Prog, Slot
<1>3. /\ prog'.pc \notin Waiting
      /\ StoreFunc \/ StorePeriod \/ StoreMs =>
           /\ prog'.slot = prog.slot /\ prog'.ms = prog.ms
           /\ prog'.waited = prog.waited
  BY <1>2 DEF StoreFunc, StorePeriod, StoreMs, StoreOnce, StoreDirect, Store,
              Behind, IdleProg, Prog, Waiting
<1>4. TypeOK'
  <2>1. prog' \in Prog
    <3>1. IdleProg \in Prog
      BY TableAssumption, ModAssumption DEF IdleProg, Prog, ProgPc, Idx, Count
    <3> QED BY <1>2, <3>1 DEF StoreFunc, StorePeriod, StoreMs, StoreOnce,
                              StoreDirect, Store, Behind, Prog, ProgPc
  <2>2. s_timers' \in [Idx -> Timer_t]
    BY <1>1, <1>2 DEF StoreFunc, StorePeriod, StoreMs, StoreOnce, StoreDirect,
                      Store, Prog, Timer_t, TypeOK
  <2>3. age' \in [Idx -> Count] /\ used' \subseteq Idx
    BY <1>1, <1>2, ModAssumption
       DEF StoreFunc, StorePeriod, StoreMs, StoreOnce, StoreDirect, TypeOK, Count
  <2>4. s_tim_count' \in Count /\ handles' \subseteq Idx /\ fired' \subseteq Idx
    BY <1>1, <1>2 DEF StoreFunc, StorePeriod, StoreMs, StoreOnce, StoreDirect,
                      Store, TypeOK
  <2> QED BY <2>1, <2>2, <2>3, <2>4 DEF TypeOK
<1>5. InvArmed'
  <2>1. CASE StoreFunc
    BY <1>1, <1>2, <1>3, <2>1
       DEF StoreFunc, Store, Behind, Slot, InvArmed, Unarmed, Arming, TypeOK, Prog,
           Timer_t
  <2>2. CASE StorePeriod
    BY <1>1, <1>2, <1>3, <2>2
       DEF StorePeriod, Store, Behind, Slot, InvArmed, Unarmed, Arming, TypeOK, Prog,
           Timer_t
  <2>3. CASE StoreMs
    BY <1>1, <1>2, <1>3, <2>3, ModAssumption
       DEF StoreMs, Store, Behind, Slot, InvArmed, Unarmed, Arming, TypeOK, Prog, Timer_t, Count
  <2>4. CASE StoreOnce
    BY <1>1, <1>2, <1>3, <2>4
       DEF StoreOnce, Store, Behind, Slot, InvArmed, Unarmed, Arming, TypeOK, Prog,
           Timer_t
  <2>5. CASE StoreDirect
    BY <1>1, <1>2, <1>3, <2>5 DEF StoreDirect, Store, Behind, IdleProg, Slot, InvArmed, Unarmed, Arming,
           TypeOK, Prog, Timer_t
  <2> QED BY <2>1, <2>2, <2>3, <2>4, <2>5
<1>6. InvFresh'
  <2> USE DEF Store, Behind, Slot, InvFresh, Unarmed, Arming, TypeOK, Timer_t, Prog
  <2>1. CASE StoreFunc
    BY <1>1, <1>2, <1>3, <2>1 DEF StoreFunc
  <2>2. CASE StorePeriod
    BY <1>1, <1>2, <1>3, <2>2 DEF StorePeriod
  <2>3. CASE StoreMs
    BY <1>1, <1>2, <1>3, <2>3 DEF StoreMs
  <2>4. CASE StoreOnce
    BY <1>1, <1>2, <1>3, <2>4 DEF StoreOnce
  <2>5. CASE StoreDirect
    BY <1>1, <1>2, <1>3, <2>5 DEF StoreDirect
  <2> QED BY <2>1, <2>2, <2>3, <2>4, <2>5
<1>7. InvWaited'
  BY <1>3 DEF InvWaited
<1> QED BY <1>4, <1>5, <1>6, <1>7 DEF IndInv

LEMMA UnregisterStep ==
  ASSUME IndInv, NEW i \in Idx, hm_timer_unregister(i)
  PROVE  IndInv'
<1>1. TypeOK /\ InvArmed /\ InvFresh
  BY DEF IndInv
<1>2. TypeOK'
  BY <1>1 DEF hm_timer_unregister, TypeOK, Timer_t
<1>3. InvArmed'
  BY <1>1 DEF hm_timer_unregister, TypeOK, Timer_t, InvArmed, Unarmed, Slot
<1>4. InvFresh' /\ InvWaited'
  BY <1>1 DEF hm_timer_unregister, TypeOK, Timer_t, InvFresh, Unarmed, Arming,
              InvWaited, Waiting
<1> QED BY <1>2, <1>3, <1>4 DEF IndInv

LEMMA DelayStep ==
  ASSUME IndInv, (\E ms \in Delays : DelayStart(ms)) \/ DelayAbove \/ DelayReturn
  PROVE  IndInv'
<1>1. TypeOK /\ InvArmed /\ InvFresh /\ InvWaited
  BY DEF IndInv
<1>2. /\ UNCHANGED <<s_tim_count, s_timers, handles, age, used>> /\ fired' = {}
      /\ prog.pc \notin Arming /\ prog'.pc \notin Arming
  <2> USE DEF IdleProg, Arming
  <2>1. ASSUME NEW ms \in Delays, DelayStart(ms)
        PROVE  prog'.pc = "above"
    BY <2>1 DEF DelayStart
  <2>2. DelayAbove => prog'.pc = "below"
    BY <1>1 DEF DelayAbove, TypeOK, Prog
  <2>3. CASE \E ms \in Delays : DelayStart(ms)
    BY <2>1, <2>3 DEF DelayStart
  <2>4. CASE DelayAbove
    BY <2>2, <2>4 DEF DelayAbove
  <2>5. CASE DelayReturn
    BY <2>5 DEF DelayReturn
  <2> QED BY <2>3, <2>4, <2>5
<1>3. IdleProg \in Prog
  BY TableAssumption, ModAssumption DEF IdleProg, Prog, ProgPc, Idx, Count
<1>4. prog' \in Prog /\ InvWaited'
  <2>1. ASSUME NEW ms \in Delays, DelayStart(ms)
        PROVE  prog' \in Prog /\ InvWaited'
    <3> DEFINE d == (s_tim_count + ms) % CountMod
    <3>1. ms \in Count /\ s_tim_count \in Count
      BY <1>1, DelayAssumption DEF TypeOK, Count
    <3>2. d \in Count
      <4>1. s_tim_count + ms \in Int
        BY <3>1, ModAssumption DEF Count
      <4> QED BY <4>1, ModAssumption, ModRange DEF Count
    <3> HIDE DEF d
    <3>3. prog' = [IdleProg EXCEPT !.pc = "above", !.ms = ms, !.despire = d]
      BY <2>1 DEF DelayStart, d
    <3>4. prog' \in Prog
      BY <1>3, <3>1, <3>2, <3>3 DEF Prog, ProgPc
    <3>5. /\ prog'.pc = "above" /\ prog'.ms = ms /\ prog'.despire = d
          /\ prog'.waited = 0
      BY <3>3 DEF IdleProg
    <3>6. s_tim_count = (Less(d, ms) + 0) % CountMod
      <4>1. /\ s_tim_count \in Int /\ 0 <= s_tim_count /\ s_tim_count < CountMod
            /\ ms \in Int /\ 0 <= ms /\ ms < CountMod /\ CountMod \in Nat \ {0}
        BY <3>1, ModAssumption DEF Count
      <4>2. d = IF s_tim_count + ms < CountMod THEN s_tim_count + ms
                ELSE s_tim_count + ms - CountMod
        BY <3>1, CountAfter DEF d
      <4>3. /\ Less(d, ms) \in Count
            /\ Less(d, ms) + ms < CountMod => d = Less(d, ms) + ms
            /\ Less(d, ms) + ms >= CountMod => d = Less(d, ms) + ms - CountMod
        BY <3>1, <3>2, StartOfDelay
      <4>4. Less(d, ms) = s_tim_count
        BY <4>1, <4>2, <4>3 DEF Count
      <4> QED BY <4>1, <4>4, ModSmall
    <3> QED BY <1>2, <3>4, <3>5, <3>6 DEF InvWaited
  <2>2. CASE DelayAbove
    <3>1. prog' \in Prog
      BY <1>1, <2>2 DEF DelayAbove, TypeOK, Prog, ProgPc
    <3>2. /\ prog.pc \in Waiting /\ prog'.pc = "below" /\ prog'.ms = prog.ms
          /\ prog'.despire = prog.despire /\ prog'.waited = prog.waited
          /\ ~(s_tim_count > prog.despire)
      BY <1>1, <2>2 DEF DelayAbove, TypeOK, Prog, Waiting
    <3> DEFINE start == Less(prog.despire, prog.ms)
    <3>3. /\ prog.despire \in Count /\ prog.ms \in Count /\ s_tim_count \in Count
          /\ prog.waited \in 0 .. CountMod
      BY <1>1 DEF TypeOK, Prog
    <3>4. /\ start \in Count
          /\ start + prog.ms < CountMod => prog.despire = start + prog.ms
          /\ start + prog.ms >= CountMod => prog.despire = start + prog.ms - CountMod
      BY <3>3, StartOfDelay
    <3>5. ASSUME prog.waited < CountMod, start + prog.ms >= CountMod
          PROVE  start + prog.waited >= CountMod
      <4>1. s_tim_count = (start + prog.waited) % CountMod
        BY <1>1, <3>2, <3>5 DEF InvWaited
      <4>2. prog.waited \in Count
        BY <3>3, <3>5, ModAssumption DEF Count
      <4> HIDE DEF start
      <4>3. s_tim_count = IF start + prog.waited < CountMod THEN start + prog.waited
                          ELSE start + prog.waited - CountMod
        BY <3>4, <4>1, <4>2, CountAfter
      <4> QED BY <3>2, <3>3, <3>4, <3>5, <4>2, <4>3, ModAssumption DEF Count
    <3> QED BY <1>1, <1>2, <3>1, <3>2, <3>5 DEF InvWaited
  <2>3. CASE DelayReturn
    BY <1>3, <2>3 DEF DelayReturn, InvWaited, Waiting, IdleProg
  <2> QED BY <2>1, <2>2, <2>3
<1>5. TypeOK'
  BY <1>1, <1>2, <1>4 DEF TypeOK
<1>6. InvArmed' /\ InvFresh'
  BY <1>1, <1>2 DEF InvArmed, InvFresh, Unarmed, Arming
<1> QED BY <1>4, <1>5, <1>6 DEF IndInv

LEMMA IndInvNext == IndInv /\ [Next]_vars => IndInv'
<1> SUFFICES ASSUME IndInv, [Next]_vars
             PROVE  IndInv'
  OBVIOUS
<1>1. CASE SysTick_Handler
  BY <1>1, TickStep
<1>2. CASE hm_timer_register
  BY <1>2, RegisterStep, StoreStep DEF hm_timer_register
<1>3. CASE \E i \in Idx : hm_timer_unregister(i)
  BY <1>3, UnregisterStep
<1>4. CASE (\E ms \in Delays : DelayStart(ms)) \/ DelayAbove \/ DelayReturn
  BY <1>4, DelayStep
<1>5. CASE UNCHANGED vars
  BY <1>5 DEF vars, IndInv, TypeOK, InvArmed, InvFresh, InvWaited, Unarmed, Slot
<1> QED BY <1>1, <1>2, <1>3, <1>4, <1>5 DEF Next

LEMMA Inductive == Spec => []IndInv
BY InitInv, IndInvNext, PTL DEF Spec

-----------------------------------------------------------------------------
(* The theorems.                                                           *)

(* Table, counter and the locals of the program have their types; nothing  *)
(* outside the table is written, whatever is registered.                   *)
THEOREM TimerTypes == Spec => []TypeOK
<1>1. IndInv => TypeOK
  BY DEF IndInv
<1> QED BY <1>1, Inductive, PTL

(* No handler is called before its period is over (hm_timer.c:102-105); of *)
(* a registration interrupted before its slot is armed, only one that took *)
(* a used slot may call early (:64-65).                                    *)
THEOREM NoTimerEarly == Spec => NeverEarly
<1>1. IndInv /\ [Next]_vars =>
        [\A i \in fired' :
           IF Unarmed(i) THEN i \in used \/ prog.waited + 1 >= CountMod
           ELSE age[i] + 1 >= s_timers[i].period]_vars
  <2> SUFFICES ASSUME IndInv, Next, NEW i \in fired'
               PROVE  IF Unarmed(i) THEN i \in used \/ prog.waited + 1 >= CountMod
                      ELSE age[i] + 1 >= s_timers[i].period
    OBVIOUS
  <2>1. TypeOK /\ InvArmed /\ InvFresh
    BY DEF IndInv
  <2>2. SysTick_Handler
    BY DEF Next, hm_timer_register, Register, StoreFunc, StorePeriod, StoreMs,
           StoreOnce, StoreDirect, Store, hm_timer_unregister, DelayStart,
           DelayAbove, DelayReturn
  <2>3. i \in Idx
    BY <2>2, DueFirst DEF SysTick_Handler
  <2>4. s_timers[i].func # NoFunc
    BY <2>1, <2>2, <2>3, SlotTicks
  <2>5. s_timers[i].ms = 1 \/ CountMod = 1
    BY <2>1, <2>2, <2>3, <2>4, SlotTicks
  <2>6. /\ s_timers[i].period \in Nat /\ age[i] \in Nat /\ s_timers[i].ms \in Nat
        /\ CountMod = 1 => s_timers[i].period = 0
        /\ prog.waited \in Nat /\ CountMod \in Nat \ {0}
    BY <2>1, <2>3, ModAssumption DEF TypeOK, Timer_t, Count, Prog
  <2>7. CASE Unarmed(i)
    <3>1. i \in used \/ s_timers[i].ms = 0 \/ s_timers[i].ms + prog.waited >= CountMod
      BY <2>1, <2>3, <2>4 DEF InvFresh
    <3> QED BY <2>5, <2>6, <2>7, <3>1
  <2>8. CASE ~Unarmed(i)
    <3>1. s_timers[i].period > 0 => age[i] + s_timers[i].ms >= s_timers[i].period
      BY <2>1, <2>3, <2>4, <2>8 DEF InvArmed
    <3> QED BY <2>5, <2>6, <2>8, <3>1
  <2> QED BY <2>7, <2>8
<1> QED BY <1>1, Inductive, PTL DEF Spec, NeverEarly

(* hm_delay(ms) waits for more than ms ticks, wherever the counter wraps   *)
(* (hm_timer.c:42-44).                                                     *)
THEOREM DelayIsLongEnough == Spec => DelayLasts
<1>1. IndInv => [DelayReturn => prog.waited > prog.ms]_vars
  <2> SUFFICES ASSUME IndInv, DelayReturn
               PROVE  prog.waited > prog.ms
    OBVIOUS
  <2> DEFINE start == Less(prog.despire, prog.ms)
  <2>1. /\ prog.despire \in Count /\ prog.ms \in Count /\ s_tim_count \in Count
        /\ prog.waited \in 0 .. CountMod
    BY DEF IndInv, TypeOK, Prog
  <2>2. prog.pc = "below" /\ prog.pc \in Waiting /\ ~(s_tim_count <= prog.despire)
    BY DEF DelayReturn, Waiting
  <2>3. CASE prog.waited = CountMod
    BY <2>1, <2>3, ModAssumption DEF Count
  <2>4. CASE prog.waited < CountMod
    <3>1. /\ start \in Count
          /\ start + prog.ms < CountMod => prog.despire = start + prog.ms
          /\ start + prog.ms >= CountMod => prog.despire = start + prog.ms - CountMod
      BY <2>1, StartOfDelay
    <3>2. /\ s_tim_count = (start + prog.waited) % CountMod
          /\ start + prog.ms >= CountMod => start + prog.waited >= CountMod
      BY <2>2, <2>4 DEF IndInv, InvWaited
    <3>3. prog.waited \in Count
      BY <2>1, <2>4, ModAssumption DEF Count
    <3> HIDE DEF start
    <3>4. s_tim_count = IF start + prog.waited < CountMod THEN start + prog.waited
                        ELSE start + prog.waited - CountMod
      BY <3>1, <3>2, <3>3, CountAfter
    <3> QED BY <2>1, <2>2, <3>1, <3>2, <3>3, <3>4, ModAssumption DEF Count
  <2> QED BY <2>1, <2>3, <2>4, ModAssumption
<1> QED BY <1>1, Inductive, PTL DEF DelayLasts
=============================================================================
