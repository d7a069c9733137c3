--------------------------- MODULE MsgQueue_proofs --------------------------
(* The message queue is a bounded FIFO, for a ring of any size and any     *)
(* number of handlers, until an add takes a place that is gone.            *)
EXTENDS MsgQueue, SequenceTheorems, FiniteSetTheorems, TLAPS

-----------------------------------------------------------------------------
(* Positions in the ring.                                                  *)

LEMMA ModSmall ==
  ASSUME NEW m \in Nat \ {0}, NEW n \in Int, 0 <= n, n < m
  PROVE  n % m = n
OBVIOUS

LEMMA ModOver ==
  ASSUME NEW m \in Nat \ {0}, NEW n \in Int, NEW k \in Int, m <= n + k, n + k < m + m
  PROVE  (n + k) % m = n + k - m
OBVIOUS

LEMMA ModUnder ==
  ASSUME NEW m \in Nat \ {0}, NEW n \in Int, -m <= n, n < 0
  PROVE  n % m = n + m
OBVIOUS

(* How far slot i is behind slot f, and the slot k behind f.               *)
Behind(f, i) == IF i >= f THEN i - f ELSE i - f + HM_MSG_MAX
Beyond(f, k) == IF f + k < HM_MSG_MAX THEN f + k ELSE f + k - HM_MSG_MAX

LEMMA Ring ==
  HM_MSG_MAX \in Nat \ {0} /\ HM_MSG_MAX >= 2 /\ Slots = 0 .. HM_MSG_MAX - 1
BY SizeAssumption DEF Slots

LEMMA BehindIs ==
  ASSUME NEW f \in Slots, NEW i \in Slots
  PROVE  (i - f) % HM_MSG_MAX = Behind(f, i) /\ Behind(f, i) \in Slots
<1>1. /\ f \in 0 .. HM_MSG_MAX - 1 /\ i \in 0 .. HM_MSG_MAX - 1
      /\ HM_MSG_MAX \in Nat \ {0}
  BY Ring
<1>2. CASE i >= f
  <2>1. i - f \in Int /\ 0 <= i - f /\ i - f < HM_MSG_MAX
    BY <1>1, <1>2
  <2>2. (i - f) % HM_MSG_MAX = i - f
    BY <1>1, <2>1, ModSmall
  <2> QED BY <1>1, <1>2, <2>2 DEF Behind, Slots
<1>3. CASE ~(i >= f)
  <2>1. i - f \in Int /\ -HM_MSG_MAX <= i - f /\ i - f < 0
    BY <1>1, <1>3
  <2>2. (i - f) % HM_MSG_MAX = i - f + HM_MSG_MAX
    BY <1>1, <2>1, ModUnder
  <2> QED BY <1>1, <1>3, <2>2 DEF Behind, Slots
<1> QED BY <1>2, <1>3

LEMMA BeyondIs ==
  ASSUME NEW f \in Slots, NEW k \in 0 .. HM_MSG_MAX
  PROVE  (f + k) % HM_MSG_MAX = Beyond(f, k) /\ Beyond(f, k) \in Slots
<1>1. f \in 0 .. HM_MSG_MAX - 1 /\ HM_MSG_MAX \in Nat \ {0}
  BY Ring
<1>2. CASE f + k < HM_MSG_MAX
  <2>1. (f + k) % HM_MSG_MAX = f + k
    BY <1>1, <1>2, ModSmall
  <2> QED BY <1>1, <1>2, <2>1 DEF Beyond, Slots
<1>3. CASE ~(f + k < HM_MSG_MAX)
  <2>1. /\ HM_MSG_MAX <= f + k /\ f + k < HM_MSG_MAX + HM_MSG_MAX
        /\ f \in Int /\ k \in Int
    BY <1>1, <1>3
  <2>2. (f + k) % HM_MSG_MAX = f + k - HM_MSG_MAX
    BY <1>1, <2>1, ModOver
  <2> QED BY <1>1, <1>3, <2>1, <2>2 DEF Beyond, Slots
<1> QED BY <1>2, <1>3

LEMMA BehindBeyond ==
  ASSUME NEW f \in Slots, NEW k \in 0 .. HM_MSG_MAX - 1
  PROVE  Behind(f, Beyond(f, k)) = k
BY Ring DEF Behind, Beyond

LEMMA BeyondBehind ==
  ASSUME NEW f \in Slots, NEW i \in Slots
  PROVE  Beyond(f, Behind(f, i)) = i
BY Ring DEF Behind, Beyond

(* The write index moves on, the read index moves on.                      *)
LEMMA WriteOn ==
  ASSUME NEW f \in Slots, NEW w \in Slots, Behind(f, w) < HM_MSG_MAX - 1
  PROVE  Behind(f, Beyond(w, 1)) = Behind(f, w) + 1
BY Ring DEF Behind, Beyond

LEMMA ReadOn ==
  ASSUME NEW f \in Slots, NEW w \in Slots, Behind(f, w) > 0
  PROVE  /\ Behind(Beyond(f, 1), w) = Behind(f, w) - 1
         /\ \A k \in 0 .. HM_MSG_MAX - 2 : Beyond(Beyond(f, 1), k) = Beyond(f, k + 1)
BY Ring DEF Behind, Beyond

-----------------------------------------------------------------------------
(* The state, in these terms.                                              *)

Calls == [func: FuncsOf, param: ParamsOf]

LEMMA MsgsAreCalls ==
  /\ \A m \in AllMsgs : m \in Calls /\ m = [func |-> m.func, param |-> m.param]
  /\ Null \in AllMsgs
  /\ \A p \in Producers : Sends[p] \subseteq Msgs /\ Sends[p] \subseteq AllMsgs
<1>1. Null \in AllMsgs /\ Null = [func |-> Null.func, param |-> Null.param]
  BY DEF AllMsgs, Null
<1>2. \A p \in Producers : Sends[p] \subseteq Msgs /\ Sends[p] \subseteq AllMsgs
  BY DEF AllMsgs, Msgs
<1>3. ASSUME NEW m \in AllMsgs
      PROVE  m \in Calls /\ m = [func |-> m.func, param |-> m.param]
  <2>1. m = [func |-> m.func, param |-> m.param]
    BY <1>1, SendsAssumption DEF AllMsgs, Msgs
  <2>2. m.func \in FuncsOf /\ m.param \in ParamsOf
    BY DEF FuncsOf, ParamsOf
  <2> QED BY <2>1, <2>2 DEF Calls
<1> QED BY <1>1, <1>2, <1>3

LEMMA QueueIs ==
  ASSUME TypeOK
  PROVE  /\ Used = Behind(nread, nwrite) /\ Used \in Slots /\ Used \in Nat
         /\ Used < HM_MSG_MAX
         /\ \A i \in Slots : InQueue(i) <=> Behind(nread, i) < Used
         /\ Waiting = [k \in 1 .. Used |-> Content(Beyond(nread, k - 1))]
         /\ ismsg_full <=> Beyond(nwrite, 1) = nread
<1>1. nread \in Slots /\ nwrite \in Slots
  BY DEF TypeOK
<1>2. Used = Behind(nread, nwrite) /\ Used \in Slots
  BY <1>1, BehindIs DEF Used
<1>3. Used \in Nat /\ Used < HM_MSG_MAX
  BY <1>2, Ring
<1>4. ASSUME NEW k \in 1 .. Used
      PROVE  (nread + k - 1) % HM_MSG_MAX = Beyond(nread, k - 1)
  <2>1. k - 1 \in 0 .. HM_MSG_MAX /\ nread + k - 1 = nread + (k - 1)
    BY <1>1, <1>3, Ring
  <2>2. (nread + (k - 1)) % HM_MSG_MAX = Beyond(nread, k - 1)
    BY <1>1, <2>1, BeyondIs
  <2> QED BY <2>1, <2>2
<1>5. Waiting = [k \in 1 .. Used |-> Content(Beyond(nread, k - 1))]
  BY <1>4 DEF Waiting
<1>6. \A i \in Slots : InQueue(i) <=> Behind(nread, i) < Used
  BY <1>1, BehindIs DEF InQueue
<1>7. ismsg_full <=> Beyond(nwrite, 1) = nread
  <2>1. 1 \in 0 .. HM_MSG_MAX
    BY Ring
  <2> QED BY <1>1, <2>1, BeyondIs DEF ismsg_full
<1> QED BY <1>2, <1>3, <1>5, <1>6, <1>7

-----------------------------------------------------------------------------
(* Types.                                                                  *)

LEMMA InitTypes == Init => TypeOK
<1> SUFFICES ASSUME Init PROVE TypeOK
  OBVIOUS
<1>1. NoFunc \in FuncsOf /\ NoFunc \in ParamsOf /\ Null \in AllMsgs
  BY MsgsAreCalls DEF FuncsOf, ParamsOf, Null, AllMsgs
<1>2. 0 \in Slots /\ HM_MSG_MAX \in 0 .. HM_MSG_MAX /\ 0 \in 0 .. HM_MSG_MAX
  BY Ring
<1>3. IdleAdd \in AddLocals
  BY <1>1, <1>2 DEF IdleAdd, AddLocals, AddPc
<1>4. IdleMain \in [pc: {"loop", "call", "return"}, pmsg: Slots, call: Calls]
  BY <1>1, <1>2, MsgsAreCalls DEF IdleMain
<1> QED BY <1>1, <1>2, <1>3, <1>4 DEF Init, TypeOK, Calls

LEMMA Remaining ==
  ASSUME TypeOK
  PROVE  msg_remaining \in 0 .. HM_MSG_MAX
BY Ring DEF TypeOK, msg_remaining

LEMMA TypesNext ==
  ASSUME TypeOK, [Next]_vars
  PROVE  TypeOK'
<1>0. /\ HM_MSG_MAX \in 0 .. HM_MSG_MAX /\ 0 \in 0 .. HM_MSG_MAX /\ 0 \in Slots
      /\ \A i \in Slots : (i + 1) % HM_MSG_MAX \in Slots
      /\ NoFunc \in FuncsOf /\ NoFunc \in ParamsOf
  <2>1. 1 \in 0 .. HM_MSG_MAX
    BY Ring
  <2> QED BY <2>1, Ring, BeyondIs, MsgsAreCalls DEF Null, FuncsOf, ParamsOf
<1>a. IdleAdd \in AddLocals
  BY <1>0, MsgsAreCalls DEF IdleAdd, AddLocals, AddPc
<1>b. IdleMain \in [pc: {"loop", "call", "return"}, pmsg: Slots,
                    call: [func: FuncsOf, param: ParamsOf]]
  BY <1>0, MsgsAreCalls DEF IdleMain, Calls
<1>1. ASSUME NEW p \in Producers, NEW m \in Sends[p], Check(p, m) PROVE TypeOK'
  <2>1. [IdleAdd EXCEPT !.pc = "reserve", !.msg = m] \in AddLocals
    BY <1>a, MsgsAreCalls DEF AddLocals, AddPc
  <2> QED BY <1>1, <2>1, ZenonT(60) DEF Check, TypeOK
<1>2. ASSUME NEW p \in Producers, Reserve(p) PROVE TypeOK'
  <2>1. adds' \in [Producers -> AddLocals]
    <3>1. adds' = [adds EXCEPT ![p] =
                    [adds[p] EXCEPT !.pc = "account", !.pmsg = nwrite]]
      BY <1>2 DEF Reserve, TypeOK
    <3>2. [adds[p] EXCEPT !.pc = "account", !.pmsg = nwrite] \in AddLocals
      <4>1. adds[p] \in AddLocals /\ nwrite \in Slots /\ "account" \in AddPc
        BY DEF TypeOK, AddPc
      <4> QED BY <4>1 DEF AddLocals
    <3> QED BY <3>1, <3>2 DEF TypeOK
  <2>2. msg_array' \in [Slots -> [func: FuncsOf, param: ParamsOf, busing: BOOLEAN]]
    BY <1>2, ZenonT(60) DEF Reserve, TypeOK
  <2> QED BY <1>0, <1>2, <2>1, <2>2 DEF Reserve, TypeOK
<1>3. ASSUME NEW p \in Producers, Account(p) PROVE TypeOK'
  <2>1. adds' \in [Producers -> AddLocals]
    <3> DEFINE pc == IF nmin > msg_remaining THEN "note" ELSE "func"
    <3>1. adds' = [adds EXCEPT ![p] =
                    [adds[p] EXCEPT !.pc = pc, !.nleft = msg_remaining]]
      BY <1>3 DEF Account, TypeOK
    <3>2. pc \in AddPc
      BY DEF AddPc
    <3> HIDE DEF pc
    <3>3. [adds[p] EXCEPT !.pc = pc, !.nleft = msg_remaining] \in AddLocals
      BY <3>2, Remaining, ZenonT(60) DEF TypeOK, AddLocals
    <3> QED BY <3>1, <3>3 DEF TypeOK
  <2> QED BY <1>3, <2>1 DEF Account, TypeOK
<1>4. ASSUME NEW p \in Producers, Note(p) PROVE TypeOK'
  <2>1. adds' \in [Producers -> AddLocals] /\ nmin' \in 0 .. HM_MSG_MAX
    BY <1>4 DEF Note, TypeOK, AddLocals, AddPc
  <2> QED BY <1>4, <2>1 DEF Note, TypeOK
<1>5. ASSUME NEW p \in Producers, StoreFunc(p) PROVE TypeOK'
  <2>1. adds' \in [Producers -> AddLocals]
    BY <1>5 DEF StoreFunc, TypeOK, AddLocals, AddPc
  <2>2. adds[p].msg.func \in FuncsOf
    BY MsgsAreCalls DEF TypeOK, AddLocals, Calls
  <2>3. msg_array' \in [Slots -> [func: FuncsOf, param: ParamsOf, busing: BOOLEAN]]
    BY <1>5, <2>2 DEF StoreFunc, TypeOK
  <2> QED BY <1>5, <2>1, <2>3 DEF StoreFunc, TypeOK
<1>6. ASSUME NEW p \in Producers, StoreParam(p) PROVE TypeOK'
  <2>1. adds' \in [Producers -> AddLocals]
    BY <1>6, <1>a DEF StoreParam, TypeOK
  <2>2. adds[p].msg.param \in ParamsOf
    BY MsgsAreCalls DEF TypeOK, AddLocals, Calls
  <2>3. msg_array' \in [Slots -> [func: FuncsOf, param: ParamsOf, busing: BOOLEAN]]
    BY <1>6, <2>2, ZenonT(60) DEF StoreParam, TypeOK
  <2> QED BY <1>6, <2>1, <2>3 DEF StoreParam, TypeOK
<1>7. CASE GetRead
  BY <1>7 DEF GetRead, TypeOK
<1>8. CASE CallFunc
  BY <1>8 DEF CallFunc, TypeOK
<1>9. CASE MoveNextRead
  <2>1. CASE main.pmsg # nread
    BY <1>9, <2>1 DEF MoveNextRead, TypeOK
  <2>2. CASE main.pmsg = nread
    <3>1. msg_array' = [msg_array EXCEPT ![nread] = [msg_array[nread] EXCEPT !.busing = FALSE]]
      BY <1>9, <2>2 DEF MoveNextRead, TypeOK
    <3>2. msg_array' \in [Slots -> [func: FuncsOf, param: ParamsOf, busing: BOOLEAN]]
      BY <3>1, ZenonT(60) DEF TypeOK
    <3>3. /\ nread' = (nread + 1) % HM_MSG_MAX /\ main' = IdleMain
          /\ UNCHANGED <<led_error, hung, nwrite, nmin, adds, overrun>>
      BY <1>9, <2>2 DEF MoveNextRead
    <3> QED BY <1>0, <1>b, <3>2, <3>3 DEF TypeOK
  <2> QED BY <2>1, <2>2
<1>10. CASE Reboot
  BY <1>10, <1>0, <1>b DEF Reboot, TypeOK
<1>11. CASE UNCHANGED vars
  BY <1>11 DEF vars, TypeOK
<1> QED BY <1>1, <1>2, <1>3, <1>4, <1>5, <1>6, <1>7, <1>8, <1>9, <1>10, <1>11
        DEF Next, AddStep, hm_msg_queue_main

-----------------------------------------------------------------------------
(* What each step does.                                                    *)

LEMMA Locals ==
  ASSUME TypeOK
  PROVE  /\ nread \in Slots /\ nwrite \in Slots
         /\ \A p \in Producers : /\ adds[p] \in AddLocals /\ adds[p].pmsg \in Slots
                                 /\ adds[p].msg \in AllMsgs
BY DEF TypeOK, AddLocals

LEMMA ReserveDoes ==
  ASSUME TypeOK, NEW p \in Producers, Reserve(p)
  PROVE  /\ adds[p].pc = "reserve" /\ adds'[p].pc = "account"
         /\ adds'[p].pmsg = nwrite /\ adds'[p].msg = adds[p].msg
         /\ \A o \in Producers \ {p} : adds'[o] = adds[o]
         /\ \A i \in Slots : /\ msg_array'[i].func = msg_array[i].func
                             /\ msg_array'[i].param = msg_array[i].param
         /\ nwrite' = Beyond(nwrite, 1)
         /\ overrun' = (overrun \/ nwrite' = nread)
         /\ UNCHANGED <<nread, main, hung>>
<1>1. 1 \in 0 .. HM_MSG_MAX
  BY Ring
<1>2. nwrite' = Beyond(nwrite, 1)
  BY <1>1, Locals, BeyondIs DEF Reserve
<1>3. /\ adds[p].pc = "reserve" /\ adds'[p].pc = "account"
      /\ adds'[p].pmsg = nwrite /\ adds'[p].msg = adds[p].msg
      /\ \A o \in Producers \ {p} : adds'[o] = adds[o]
  BY DEF Reserve, TypeOK, AddLocals
<1>4. \A i \in Slots : /\ msg_array'[i].func = msg_array[i].func
                      /\ msg_array'[i].param = msg_array[i].param
  BY DEF Reserve, TypeOK
<1> QED BY <1>2, <1>3, <1>4 DEF Reserve

(* The steps that account for a reserved slot or fill it.                  *)
LEMMA FillDoes ==
  ASSUME TypeOK, NEW p \in Producers, Account(p) \/ Note(p) \/ StoreFunc(p)
  PROVE  /\ adds[p].pc \in FillPc /\ adds'[p].pc \in FillPc
         /\ adds'[p].pmsg = adds[p].pmsg /\ adds'[p].msg = adds[p].msg
         /\ \A o \in Producers \ {p} : adds'[o] = adds[o]
         /\ \A i \in Slots \ {adds[p].pmsg} : msg_array'[i] = msg_array[i]
         /\ adds'[p].pc = "param" =>
              msg_array'[adds[p].pmsg].func = adds[p].msg.func
         /\ UNCHANGED <<nwrite, nread, main, hung, overrun>>
<1>1. CASE Account(p)
  BY <1>1 DEF Account, TypeOK, AddLocals, FillPc
<1>2. CASE Note(p)
  BY <1>2 DEF Note, TypeOK, AddLocals, FillPc
<1>3. CASE StoreFunc(p)
  <2>1. /\ adds[p].pc = "func" /\ adds'[p].pc = "param"
        /\ adds'[p].pmsg = adds[p].pmsg /\ adds'[p].msg = adds[p].msg
        /\ \A o \in Producers \ {p} : adds'[o] = adds[o]
    BY <1>3 DEF StoreFunc, TypeOK, AddLocals
  <2>2. /\ \A i \in Slots \ {adds[p].pmsg} : msg_array'[i] = msg_array[i]
        /\ msg_array'[adds[p].pmsg].func = adds[p].msg.func
    BY <1>3, Locals DEF StoreFunc, TypeOK
  <2> QED BY <1>3, <2>1, <2>2 DEF StoreFunc, FillPc
<1> QED BY <1>1, <1>2, <1>3

LEMMA StoreParamDoes ==
  ASSUME TypeOK, NEW p \in Producers, StoreParam(p)
  PROVE  /\ adds[p].pc = "param" /\ adds'[p].pc = "idle"
         /\ \A o \in Producers \ {p} : adds'[o] = adds[o]
         /\ \A i \in Slots \ {adds[p].pmsg} : msg_array'[i] = msg_array[i]
         /\ msg_array'[adds[p].pmsg].func = msg_array[adds[p].pmsg].func
         /\ msg_array'[adds[p].pmsg].param = adds[p].msg.param
         /\ UNCHANGED <<nwrite, nread, main, hung, overrun>>
<1>1. /\ adds[p].pc = "param" /\ adds'[p].pc = "idle"
      /\ \A o \in Producers \ {p} : adds'[o] = adds[o]
  BY DEF StoreParam, TypeOK, IdleAdd
<1>2. /\ \A i \in Slots \ {adds[p].pmsg} : msg_array'[i] = msg_array[i]
      /\ msg_array'[adds[p].pmsg].func = msg_array[adds[p].pmsg].func
      /\ msg_array'[adds[p].pmsg].param = adds[p].msg.param
  BY Locals DEF StoreParam, TypeOK
<1> QED BY <1>1, <1>2 DEF StoreParam

LEMMA CheckDoes ==
  ASSUME TypeOK, NEW p \in Producers, NEW m \in Sends[p], Check(p, m)
  PROVE  /\ UNCHANGED <<msg_array, nwrite, nread, main, hung, overrun>>
         /\ \/ UNCHANGED adds
            \/ /\ adds[p].pc = "idle" /\ adds'[p].pc = "reserve" /\ adds'[p].msg = m
               /\ \A o \in Producers \ {p} : adds'[o] = adds[o]
               /\ ~ismsg_full
<1>1. CASE m.func = NoFunc \/ ismsg_full
  BY <1>1 DEF Check
<1>2. CASE ~(m.func = NoFunc \/ ismsg_full)
  <2>1. adds' = [adds EXCEPT ![p] = [IdleAdd EXCEPT !.pc = "reserve", !.msg = m]]
    BY <1>2 DEF Check
  <2>2. adds'[p].pc = "reserve" /\ adds'[p].msg = m
    BY <2>1 DEF TypeOK, IdleAdd
  <2> QED BY <1>2, <2>1, <2>2 DEF Check, TypeOK, Active
<1> QED BY <1>1, <1>2

(* The main loop moves only when no handler is active.                     *)
LEMMA MainDoes ==
  ASSUME TypeOK, InvMain, hm_msg_queue_main
  PROVE  /\ \A p \in Producers : adds[p].pc = "idle"
         /\ UNCHANGED adds
         /\ \/ /\ main.pc = "loop" /\ main'.pc = "call" /\ main'.pmsg = nread
               /\ nwrite # nread /\ UNCHANGED <<msg_array, nwrite, nread, hung, overrun>>
            \/ /\ main.pc = "call" /\ main'.pc = "return" /\ main'.pmsg = main.pmsg
               /\ main'.call = [func |-> msg_array[main.pmsg].func,
                                param |-> msg_array[main.pmsg].param]
               /\ UNCHANGED <<msg_array, nwrite, nread, hung, overrun>>
            \/ /\ main.pc = "return" /\ main'.pc = "loop"
               /\ nread' = Beyond(nread, 1) /\ UNCHANGED <<nwrite, hung, overrun>>
               /\ \A i \in Slots : /\ msg_array'[i].func = msg_array[i].func
                                   /\ msg_array'[i].param = msg_array[i].param
            \/ /\ main.pc = "return" /\ main'.pc = "loop"
               /\ nread' = 0 /\ nwrite' = 0 /\ ~overrun'
               /\ UNCHANGED hung
<1>1. \A p \in Producers : adds[p].pc = "idle"
  BY DEF hm_msg_queue_main, GetRead, CallFunc, MoveNextRead, Reboot, MainMayRun, Active
<1>2. UNCHANGED adds
  BY DEF hm_msg_queue_main, GetRead, CallFunc, MoveNextRead, Reboot
<1>3. CASE GetRead
  BY <1>1, <1>2, <1>3 DEF GetRead, TypeOK, ismsg_empty
<1>4. CASE CallFunc
  BY <1>1, <1>2, <1>4 DEF CallFunc, TypeOK
<1>5. CASE MoveNextRead
  <2>1. main.pmsg = nread /\ main.pc = "return"
    BY <1>5 DEF InvMain, MoveNextRead
  <2>2. /\ nread' = (nread + 1) % HM_MSG_MAX /\ main' = IdleMain
        /\ UNCHANGED <<hung, nwrite, overrun>>
        /\ msg_array' = [msg_array EXCEPT ![main.pmsg].busing = FALSE]
    BY <1>5, <2>1 DEF MoveNextRead
  <2>3. \A i \in Slots : /\ msg_array'[i].func = msg_array[i].func
                        /\ msg_array'[i].param = msg_array[i].param
    BY <2>2 DEF TypeOK
  <2>4. 1 \in 0 .. HM_MSG_MAX
    BY Ring
  <2>5. nread' = Beyond(nread, 1)
    BY <2>2, <2>4, BeyondIs, Locals
  <2> QED BY <1>1, <1>2, <2>1, <2>2, <2>3, <2>5 DEF IdleMain
<1>6. CASE Reboot
  BY <1>1, <1>2, <1>6 DEF Reboot, IdleMain
<1> QED BY <1>3, <1>4, <1>5, <1>6 DEF hm_msg_queue_main

-----------------------------------------------------------------------------
(* The slots being filled, and the slot of the main loop.                  *)

LEMMA ReserveGrows ==
  ASSUME TypeOK, TypeOK', ~overrun', NEW p \in Producers, Reserve(p)
  PROVE  Used \in Nat /\ Used' = Used + 1 /\ Used < HM_MSG_MAX - 1
<1>0. /\ nread \in Slots /\ nwrite \in Slots /\ Used = Behind(nread, nwrite)
      /\ Used \in Nat /\ Used < HM_MSG_MAX
  BY Locals, QueueIs
<1>1. nwrite' = Beyond(nwrite, 1) /\ nread' = nread /\ nwrite' \in Slots
  BY ReserveDoes DEF TypeOK
<1>2. Used' = Behind(nread, Beyond(nwrite, 1))
  BY <1>0, <1>1, BehindIs DEF Used
<1>3. Beyond(nwrite, 1) # nread
  BY <1>1, ReserveDoes
<1>4. Used < HM_MSG_MAX - 1
  BY <1>0, <1>3, Ring DEF Behind, Beyond
<1> QED BY <1>0, <1>2, <1>4, WriteOn

LEMMA MainNext ==
  ASSUME TypeOK, TypeOK', ~overrun', InvMain, Next
  PROVE  InvMain'
<1>0. /\ nread \in Slots /\ nwrite \in Slots /\ Used = Behind(nread, nwrite)
      /\ Used \in Nat
  BY Locals, QueueIs
<1>1. ASSUME NEW p \in Producers, NEW m \in Sends[p], Check(p, m) PROVE InvMain'
  BY <1>1, CheckDoes DEF InvMain, Used
<1>2. ASSUME NEW p \in Producers, Reserve(p) PROVE InvMain'
  <2>1. Used' = Used + 1
    BY <1>2, ReserveGrows
  <2> QED BY <1>0, <1>2, <2>1, ReserveDoes DEF InvMain
<1>3. ASSUME NEW p \in Producers,
             Account(p) \/ Note(p) \/ StoreFunc(p) \/ StoreParam(p)
      PROVE  InvMain'
  BY <1>3, FillDoes, StoreParamDoes DEF InvMain, Used
<1>4. CASE hm_msg_queue_main
  <2>1. nwrite # nread => Used > 0
    BY <1>0, Ring DEF Behind
  <2> QED BY <1>4, <2>1, MainDoes DEF InvMain, Used
<1> QED BY <1>1, <1>2, <1>3, <1>4 DEF Next, AddStep

LEMMA FillNext ==
  ASSUME TypeOK, TypeOK', ~overrun', InvFill, InvMain, Next
  PROVE  InvFill'
<1>0. /\ nread \in Slots /\ nwrite \in Slots /\ Used = Behind(nread, nwrite)
      /\ Used \in Nat /\ \A p \in Producers : adds[p].pmsg \in Slots
  BY Locals, QueueIs
<1>1. ASSUME NEW p \in Producers, NEW m \in Sends[p], Check(p, m) PROVE InvFill'
  <2>1. UNCHANGED <<msg_array, nwrite, nread, main>>
    BY <1>1, CheckDoes
  <2>2. CASE UNCHANGED adds
    BY <2>1, <2>2 DEF InvFill, InQueue, Used, Active
  <2>3. CASE ~UNCHANGED adds
    <3>1. /\ adds'[p].pc = "reserve" /\ adds'[p].msg = m
          /\ \A o \in Producers \ {p} : adds'[o] = adds[o]
      BY <1>1, <2>3, CheckDoes
    <3>2. adds'[p].pc \notin FillPc /\ adds'[p].pc # "param"
      BY <3>1 DEF FillPc
    <3> QED BY <2>1, <3>1, <3>2 DEF InvFill, InQueue, Used, Active
  <2> QED BY <2>2, <2>3
<1>2. ASSUME NEW p \in Producers, Reserve(p) PROVE InvFill'
  <2>1. Used' = Used + 1 /\ nread' = nread /\ main' = main
    BY <1>2, ReserveGrows, ReserveDoes
  <2>2. /\ adds[p].pc = "reserve" /\ adds'[p].pc = "account"
        /\ adds'[p].pmsg = nwrite /\ adds'[p].msg = adds[p].msg
        /\ \A o \in Producers \ {p} : adds'[o] = adds[o]
        /\ \A i \in Slots : msg_array'[i].func = msg_array[i].func
    BY <1>2, ReserveDoes
  <2>3. ASSUME NEW o \in Producers \ {p}, adds[o].pc \in FillPc
        PROVE  adds[o].pmsg # nwrite /\ Behind(nread, adds[o].pmsg) < Used
    <3>1. Behind(nread, adds[o].pmsg) < Used
      BY <1>0, <2>3, QueueIs DEF InvFill
    <3>2. Behind(nread, nwrite) = Used /\ ~(Used < Used)
      BY <1>0
    <3> QED BY <3>1, <3>2
  <2>4. main.pc # "loop" => nwrite # nread
    <3>1. nwrite = nread => Used = 0
      BY <1>0, Ring DEF Behind
    <3> QED BY <1>0, <3>1 DEF InvMain
  <2>5. /\ (nwrite - nread) % HM_MSG_MAX < Used'
        /\ \A o \in Producers \ {p} : adds[o].pc \in FillPc =>
             (adds[o].pmsg - nread) % HM_MSG_MAX < Used'
    <3>1. (nwrite - nread) % HM_MSG_MAX = Used /\ Used < Used'
      BY <1>0, <2>1, BehindIs
    <3>2. ASSUME NEW o \in Producers \ {p}, adds[o].pc \in FillPc
          PROVE  (adds[o].pmsg - nread) % HM_MSG_MAX < Used'
      <4>1. /\ (adds[o].pmsg - nread) % HM_MSG_MAX = Behind(nread, adds[o].pmsg)
            /\ Behind(nread, adds[o].pmsg) \in Slots
        BY <1>0, BehindIs
      <4>2. Behind(nread, adds[o].pmsg) \in Int
        BY <4>1, Ring
      <4>3. Behind(nread, adds[o].pmsg) < Used
        BY <2>3, <3>2
      <4>4. ASSUME NEW b \in Int, b < Used PROVE b < Used'
        BY <1>0, <2>1, <4>4
      <4> QED BY <4>1, <4>2, <4>3, <4>4
    <3> QED BY <3>1, <3>2
  <2>6. adds[p].msg \in Sends[p]
    BY <2>2 DEF InvFill, Active
  <2> SUFFICES ASSUME NEW x \in Producers
               PROVE  /\ Active(x)' => adds'[x].msg \in Sends[x]
                      /\ adds'[x].pc \in FillPc =>
                           /\ InQueue(adds[x].pmsg)'
                           /\ \A o \in Producers \ {x} :
                                adds'[o].pc \in FillPc => adds'[o].pmsg # adds'[x].pmsg
                           /\ main'.pc # "loop" => adds'[x].pmsg # nread'
                      /\ adds'[x].pc = "param" =>
                           msg_array'[adds'[x].pmsg].func = adds'[x].msg.func
    BY DEF InvFill
  <2>7. CASE x = p
    BY <2>1, <2>2, <2>3, <2>4, <2>5, <2>6, <2>7 DEF InQueue
  <2>8. CASE x # p
    <3>1. /\ Active(x)' => adds'[x].msg \in Sends[x]
          /\ adds'[x].pc = "param" => msg_array'[adds'[x].pmsg].func = adds'[x].msg.func
      BY <1>0, <2>2, <2>8 DEF InvFill, Active
    <3>2. ASSUME adds'[x].pc \in FillPc
          PROVE  /\ InQueue(adds[x].pmsg)'
                 /\ \A o \in Producers \ {x} :
                      adds'[o].pc \in FillPc => adds'[o].pmsg # adds'[x].pmsg
                 /\ main'.pc # "loop" => adds'[x].pmsg # nread'
      <4>1. adds[x].pc \in FillPc /\ adds'[x] = adds[x]
        BY <2>2, <2>8, <3>2
      <4>2. InQueue(adds[x].pmsg)'
        BY <2>1, <2>5, <2>8, <4>1 DEF InQueue
      <4>3. ASSUME NEW o \in Producers \ {x}, adds'[o].pc \in FillPc
            PROVE  adds'[o].pmsg # adds'[x].pmsg
        <5>1. CASE o = p
          BY <2>2, <2>3, <2>8, <4>1, <5>1
        <5>2. CASE o # p
          BY <2>2, <2>8, <4>1, <4>3, <5>2 DEF InvFill
        <5> QED BY <5>1, <5>2
      <4>4. main'.pc # "loop" => adds'[x].pmsg # nread'
        BY <2>1, <4>1 DEF InvFill
      <4> QED BY <4>2, <4>3, <4>4
    <3> QED BY <3>1, <3>2
  <2> QED BY <2>7, <2>8
<1>3. ASSUME NEW p \in Producers, Account(p) \/ Note(p) \/ StoreFunc(p)
      PROVE  InvFill'
  <2>1. /\ adds[p].pc \in FillPc /\ adds'[p].pc \in FillPc
        /\ adds'[p].pmsg = adds[p].pmsg /\ adds'[p].msg = adds[p].msg
        /\ \A o \in Producers \ {p} : adds'[o] = adds[o]
        /\ \A i \in Slots \ {adds[p].pmsg} : msg_array'[i] = msg_array[i]
        /\ adds'[p].pc = "param" => msg_array'[adds[p].pmsg].func = adds[p].msg.func
        /\ UNCHANGED <<nwrite, nread, main>>
    BY <1>3, FillDoes
  <2>2. \A x \in Producers : /\ adds'[x].pmsg = adds[x].pmsg
                             /\ adds'[x].msg = adds[x].msg
                             /\ adds'[x].pc \in FillPc <=> adds[x].pc \in FillPc
    BY <2>1
  <2>3. \A x \in Producers : Active(x)' <=> Active(x)
    BY <2>1 DEF Active, FillPc
  <2>4. ASSUME NEW x \in Producers, adds'[x].pc = "param"
        PROVE  msg_array'[adds[x].pmsg].func = adds[x].msg.func
    <3>1. CASE x = p
      BY <2>1, <2>4, <3>1
    <3>2. CASE x # p
      <4>1. adds[x].pc = "param" /\ adds[x].pc \in FillPc
        BY <2>1, <2>4, <3>2 DEF FillPc
      <4>2. adds[x].pmsg # adds[p].pmsg
        BY <2>1, <3>2, <4>1 DEF InvFill
      <4> QED BY <1>0, <2>1, <4>1, <4>2 DEF InvFill
    <3> QED BY <3>1, <3>2
  <2>5. \A x \in Producers : InQueue(adds[x].pmsg)' <=> InQueue(adds[x].pmsg)
    BY <2>1, <2>2 DEF InQueue, Used
  <2> QED BY <2>1, <2>2, <2>3, <2>4, <2>5 DEF InvFill
<1>4. ASSUME NEW p \in Producers, StoreParam(p) PROVE InvFill'
  <2>1. /\ adds[p].pc = "param" /\ adds'[p].pc = "idle"
        /\ \A o \in Producers \ {p} : adds'[o] = adds[o]
        /\ \A i \in Slots \ {adds[p].pmsg} : msg_array'[i] = msg_array[i]
        /\ msg_array'[adds[p].pmsg].func = msg_array[adds[p].pmsg].func
        /\ UNCHANGED <<nwrite, nread, main>>
    BY <1>4, StoreParamDoes
  <2>2. adds'[p].pc \notin FillPc /\ ~Active(p)' /\ adds'[p].pc # "param"
    BY <2>1 DEF FillPc, Active
  <2>3. \A i \in Slots : msg_array'[i].func = msg_array[i].func
    BY <2>1
  <2>4. \A x \in Producers \ {p} :
          /\ InQueue(adds[x].pmsg)' <=> InQueue(adds[x].pmsg)
          /\ Active(x)' <=> Active(x)
    BY <2>1 DEF InQueue, Used, Active
  <2> QED BY <1>0, <2>1, <2>2, <2>3, <2>4 DEF InvFill
<1>5. CASE hm_msg_queue_main
  <2>1. \A p \in Producers : adds'[p].pc = "idle"
    BY <1>5, MainDoes
  <2> QED BY <2>1 DEF InvFill, Active, FillPc
<1> QED BY <1>1, <1>2, <1>3, <1>4, <1>5 DEF Next, AddStep

(* An overrun lasts until the reset, which leaves a fresh queue.           *)
LEMMA Overrun ==
  ASSUME TypeOK, TypeOK', overrun, ~overrun', Next
  PROVE  /\ InvFill' /\ InvMain' /\ Reboot
         /\ \A p \in Producers : adds'[p].pc = "idle"
<1>1. Reboot
  <2>1. \A p \in Producers : ~Reserve(p) /\ ~StoreParam(p)
                            /\ ~(Account(p) \/ Note(p) \/ StoreFunc(p))
    BY ReserveDoes, StoreParamDoes, FillDoes
  <2>2. \A p \in Producers : \A m \in Sends[p] : ~Check(p, m)
    BY CheckDoes
  <2>3. hm_msg_queue_main
    BY <2>1, <2>2 DEF Next, AddStep
  <2> QED BY <2>3 DEF hm_msg_queue_main, GetRead, CallFunc, MoveNextRead
<1>2. \A p \in Producers : adds'[p].pc = "idle"
  BY <1>1 DEF Reboot, MainMayRun, Active
<1>3. main'.pc = "loop" /\ ~hung'
  BY <1>1 DEF Reboot, IdleMain, MainMayRun
<1> QED BY <1>1, <1>2, <1>3 DEF InvFill, InvMain, Active, FillPc

LEMMA IndInvNext ==
  ASSUME IndInv, [Next]_vars
  PROVE  IndInv'
<1>1. TypeOK /\ TypeOK'
  BY TypesNext DEF IndInv
<1>2. CASE Next
  BY <1>1, <1>2, FillNext, MainNext, Overrun DEF IndInv
<1>3. CASE UNCHANGED vars
  BY <1>1, <1>3 DEF vars, IndInv, InvFill, InvMain, Used, InQueue, Active
<1> QED BY <1>2, <1>3

LEMMA InitInd == Init => IndInv
<1> SUFFICES ASSUME Init PROVE IndInv
  OBVIOUS
<1>1. TypeOK
  BY InitTypes
<1>2. /\ ~hung /\ main.pc = "loop"
      /\ \A p \in Producers : adds[p].pc = "idle"
  BY DEF Init, IdleMain, IdleAdd
<1>3. InvFill /\ InvMain
  BY <1>2 DEF InvFill, InvMain, FillPc, Active
<1> QED BY <1>1, <1>3 DEF IndInv

-----------------------------------------------------------------------------
(* The refinement.                                                         *)

(* What a slot holds.                                                      *)
LEMMA ContentFilled ==
  ASSUME TypeOK, InvFill, NEW p \in Producers, adds[p].pc \in FillPc
  PROVE  Content(adds[p].pmsg) = adds[p].msg
<1>1. Filling(adds[p].pmsg) = {p}
  BY DEF InvFill, Filling, FillPc
<1>2. (CHOOSE o \in {p} : TRUE) = p
  OBVIOUS
<1> QED BY <1>1, <1>2 DEF Content

LEMMA ContentType ==
  ASSUME TypeOK, NEW i \in Slots
  PROVE  Content(i) \in Calls
<1>1. CASE Filling(i) # {}
  <2>1. (CHOOSE p \in Filling(i) : TRUE) \in Producers
    BY <1>1 DEF Filling
  <2> QED BY <1>1, <2>1, Locals, MsgsAreCalls DEF Content
<1>2. CASE Filling(i) = {}
  BY <1>2 DEF Content, TypeOK, Calls
<1> QED BY <1>1, <1>2

WaitingFacts ==
  /\ Waiting \in Seq(Calls) /\ Len(Waiting) = Used /\ Used \in Nat
  /\ \A k \in 1 .. Used : /\ Waiting[k] = Content(Beyond(nread, k - 1))
                          /\ Beyond(nread, k - 1) \in Slots
                          /\ Behind(nread, Beyond(nread, k - 1)) = k - 1

LEMMA WaitingIs == TypeOK => WaitingFacts
<1> SUFFICES ASSUME TypeOK PROVE WaitingFacts
  OBVIOUS
<1>1. /\ Waiting = [k \in 1 .. Used |-> Content(Beyond(nread, k - 1))]
      /\ Used \in Nat /\ Used < HM_MSG_MAX /\ nread \in Slots
  BY QueueIs, Locals
<1>2. ASSUME NEW k \in 1 .. Used
      PROVE  /\ Beyond(nread, k - 1) \in Slots
             /\ Behind(nread, Beyond(nread, k - 1)) = k - 1
             /\ Content(Beyond(nread, k - 1)) \in Calls
  <2>1. k - 1 \in 0 .. HM_MSG_MAX - 1 /\ k - 1 \in 0 .. HM_MSG_MAX
    BY <1>1, Ring
  <2>2. Beyond(nread, k - 1) \in Slots
    BY <1>1, <2>1, BeyondIs
  <2> QED BY <1>1, <2>1, <2>2, BehindBeyond, ContentType
<1>3. Waiting \in Seq(Calls) /\ Len(Waiting) = Used
  <2>1. Waiting \in [1 .. Used -> Calls]
    BY <1>1, <1>2
  <2> QED BY <1>1, <2>1, SeqDef, LenProperties
<1> QED BY <1>1, <1>2, <1>3 DEF WaitingFacts

LEMMA WaitingIsNext == TypeOK' => WaitingFacts'
BY WaitingIs, PTL

LEMMA WaitingSame ==
  ASSUME TypeOK, TypeOK', nread' = nread, nwrite' = nwrite,
         \A i \in Slots : Content(i)' = Content(i)
  PROVE  Waiting' = Waiting
<1>1. Used' = Used
  BY DEF Used
<1>2. WaitingFacts /\ WaitingFacts'
  BY WaitingIs, WaitingIsNext
<1>3. \A k \in 1 .. Used : Waiting'[k] = Waiting[k]
  BY <1>1, <1>2 DEF WaitingFacts
<1> QED BY <1>1, <1>2, <1>3, SeqEqual DEF WaitingFacts

(* Nothing of what is added or stored changes.                             *)
LEMMA ContentSame ==
  ASSUME NEW i, Filling(i)' = Filling(i),
         \A p \in Filling(i) : adds'[p].msg = adds[p].msg,
         Filling(i) = {} => /\ msg_array'[i].func = msg_array[i].func
                            /\ msg_array'[i].param = msg_array[i].param
  PROVE  Content(i)' = Content(i)
<1>1. CASE Filling(i) # {}
  <2>1. (CHOOSE p \in Filling(i) : TRUE) \in Filling(i)
    BY <1>1
  <2> QED BY <1>1, <2>1 DEF Content
<1>2. CASE Filling(i) = {}
  BY <1>2 DEF Content
<1> QED BY <1>1, <1>2

(* The tests and the reservation.                                          *)
LEMMA CheckIsQuiet ==
  ASSUME TypeOK, TypeOK', NEW p \in Producers, NEW m \in Sends[p], Check(p, m)
  PROVE  Waiting' = Waiting /\ Running' = Running
<1>1. UNCHANGED <<msg_array, nwrite, nread, main>>
  BY CheckDoes
<1>2. ASSUME NEW i \in Slots PROVE Content(i)' = Content(i)
  <2>1. CASE UNCHANGED adds
    BY <1>1, <2>1 DEF Content, Filling
  <2>2. CASE ~UNCHANGED adds
    <3>1. /\ adds[p].pc = "idle" /\ adds'[p].pc = "reserve"
          /\ \A o \in Producers \ {p} : adds'[o] = adds[o]
      BY <2>2, CheckDoes
    <3>2. Filling(i)' = Filling(i) /\ p \notin Filling(i) /\ Filling(i) \subseteq Producers
      BY <3>1 DEF Filling
    <3> QED BY <1>1, <3>1, <3>2, ContentSame
  <2> QED BY <2>1, <2>2
<1>3. Waiting' = Waiting
  BY <1>1, <1>2, WaitingSame
<1> QED BY <1>1, <1>3 DEF Running

LEMMA FillIsQuiet ==
  ASSUME TypeOK, TypeOK', InvFill, NEW p \in Producers,
         Account(p) \/ Note(p) \/ StoreFunc(p)
  PROVE  Waiting' = Waiting /\ Running' = Running
<1>1. /\ adds[p].pc \in FillPc /\ adds'[p].pc \in FillPc
      /\ adds'[p].pmsg = adds[p].pmsg /\ adds'[p].msg = adds[p].msg
      /\ \A o \in Producers \ {p} : adds'[o] = adds[o]
      /\ \A i \in Slots \ {adds[p].pmsg} : msg_array'[i] = msg_array[i]
      /\ UNCHANGED <<nwrite, nread, main>>
  BY FillDoes
<1>2. ASSUME NEW i \in Slots PROVE Content(i)' = Content(i)
  <2>1. Filling(i)' = Filling(i) /\ Filling(i) \subseteq Producers
    BY <1>1 DEF Filling, FillPc
  <2>2. Filling(i) = {} => i # adds[p].pmsg
    BY <1>1 DEF Filling, FillPc
  <2> QED BY <1>1, <2>1, <2>2, ContentSame
<1>3. Waiting' = Waiting
  BY <1>1, <1>2, WaitingSame
<1> QED BY <1>1, <1>3 DEF Running

(* The last store changes nothing either: the slot now holds what its      *)
(* handler was going to store.                                             *)
LEMMA StoreParamIsQuiet ==
  ASSUME TypeOK, TypeOK', InvFill, NEW p \in Producers, StoreParam(p)
  PROVE  Waiting' = Waiting /\ Running' = Running
<1>1. /\ adds[p].pc = "param" /\ adds'[p].pc = "idle"
      /\ \A o \in Producers \ {p} : adds'[o] = adds[o]
      /\ \A i \in Slots \ {adds[p].pmsg} : msg_array'[i] = msg_array[i]
      /\ msg_array'[adds[p].pmsg].func = msg_array[adds[p].pmsg].func
      /\ msg_array'[adds[p].pmsg].param = adds[p].msg.param
      /\ UNCHANGED <<nwrite, nread, main>>
  BY StoreParamDoes
<1>2. adds[p].pc \in FillPc /\ msg_array[adds[p].pmsg].func = adds[p].msg.func
  BY <1>1 DEF InvFill, FillPc
<1>3. ASSUME NEW i \in Slots PROVE Content(i)' = Content(i)
  <2>1. CASE i = adds[p].pmsg
    <3>1. Content(i) = adds[p].msg
      BY <1>2, <2>1, ContentFilled
    <3>2. Filling(i)' = {}
      BY <1>1, <1>2, <2>1 DEF Filling, InvFill, FillPc
    <3>3. Content(i)' = [func |-> msg_array'[i].func, param |-> msg_array'[i].param]
      BY <3>2 DEF Content
    <3>4. adds[p].msg = [func |-> adds[p].msg.func, param |-> adds[p].msg.param]
      BY Locals, MsgsAreCalls
    <3> QED BY <1>1, <1>2, <2>1, <3>1, <3>3, <3>4
  <2>2. CASE i # adds[p].pmsg
    <3>1. Filling(i)' = Filling(i) /\ p \notin Filling(i) /\ Filling(i) \subseteq Producers
      BY <1>1, <2>2 DEF Filling
    <3> QED BY <1>1, <2>2, <3>1, ContentSame
  <2> QED BY <2>1, <2>2
<1>4. Waiting' = Waiting
  BY <1>1, <1>3, WaitingSame
<1> QED BY <1>1, <1>4 DEF Running

(* The reservation accepts the call.                                       *)
LEMMA ReserveAdds ==
  ASSUME TypeOK, TypeOK', ~overrun', InvFill, InvFill', NEW p \in Producers, Reserve(p)
  PROVE  /\ Len(Waiting) < HM_MSG_MAX - 1 /\ adds[p].msg \in Msgs
         /\ Waiting' = Append(Waiting, adds[p].msg)
         /\ Running' = Running
<1>1. /\ adds[p].pc = "reserve" /\ adds'[p].pc = "account"
      /\ adds'[p].pmsg = nwrite /\ adds'[p].msg = adds[p].msg
      /\ \A o \in Producers \ {p} : adds'[o] = adds[o]
      /\ \A i \in Slots : /\ msg_array'[i].func = msg_array[i].func
                          /\ msg_array'[i].param = msg_array[i].param
      /\ nread' = nread /\ main' = main
  BY ReserveDoes
<1>2. Used \in Nat /\ Used' = Used + 1 /\ Used < HM_MSG_MAX - 1
  BY ReserveGrows
<1>3. WaitingFacts /\ WaitingFacts'
  BY WaitingIs, WaitingIsNext
<1>4. /\ adds[p].msg \in Msgs /\ adds[p].msg \in Calls
  BY <1>1, Locals, MsgsAreCalls DEF InvFill, Active
<1>5. /\ Append(Waiting, adds[p].msg) \in Seq(Calls)
      /\ Len(Append(Waiting, adds[p].msg)) = Used + 1
      /\ \A k \in 1 .. Used : Append(Waiting, adds[p].msg)[k] = Waiting[k]
      /\ Append(Waiting, adds[p].msg)[Used + 1] = adds[p].msg
  BY <1>3, <1>4, AppendProperties DEF WaitingFacts
<1>6. nread \in Slots /\ nwrite \in Slots /\ Behind(nread, nwrite) = Used
  BY Locals, QueueIs
<1>7. ASSUME NEW k \in 1 .. Used PROVE Waiting'[k] = Waiting[k]
  <2>1. /\ Beyond(nread, k - 1) \in Slots /\ Behind(nread, Beyond(nread, k - 1)) = k - 1
        /\ Waiting[k] = Content(Beyond(nread, k - 1))
    BY <1>3 DEF WaitingFacts
  <2>2. k \in 1 .. Used'
    BY <1>2
  <2>3. PICK i \in Slots : i = Beyond(nread, k - 1)
    BY <2>1
  <2>4. i = Beyond(nread', k - 1)
    BY <1>1, <2>3
  <2>5. Waiting'[k] = Content(i)'
    BY <1>3, <2>2, <2>4 DEF WaitingFacts
  <2>6. i # nwrite
    <3>1. k - 1 # Used
      BY <1>2
    <3> QED BY <1>6, <2>1, <2>3, <3>1
  <2>7. Filling(i)' = Filling(i) /\ p \notin Filling(i) /\ Filling(i) \subseteq Producers
    BY <1>1, <2>6 DEF Filling
  <2>8. Content(i)' = Content(i)
    BY <1>1, <2>7, ContentSame
  <2> QED BY <2>1, <2>3, <2>5, <2>8
<1>8. Waiting'[Used + 1] = adds[p].msg
  <2>1. PICK w \in Slots : w = nwrite
    BY <1>6
  <2>2. Beyond(nread', Used) = w
    BY <1>1, <1>6, <2>1, BeyondBehind
  <2>3. Used + 1 \in 1 .. Used' /\ Used + 1 - 1 = Used
    BY <1>2
  <2>4. Waiting'[Used + 1] = Content(w)'
    BY <1>3, <2>2, <2>3 DEF WaitingFacts
  <2>5. Filling(w)' = {p}
    <3>1. adds'[p].pc \in FillPc
      BY <1>1 DEF FillPc
    <3>2. \A o \in Producers \ {p} : adds'[o].pc \in FillPc => adds'[o].pmsg # w
      BY <1>1, <2>1, <3>1 DEF InvFill
    <3> QED BY <1>1, <2>1, <3>1, <3>2 DEF Filling, FillPc
  <2>6. (CHOOSE o \in {p} : TRUE) = p
    OBVIOUS
  <2>7. Content(w)' = adds'[p].msg
    BY <2>5, <2>6 DEF Content
  <2> QED BY <1>1, <2>4, <2>7
<1>9. Waiting' = Append(Waiting, adds[p].msg)
  <2>1. \A k \in 1 .. Used + 1 : Waiting'[k] = Append(Waiting, adds[p].msg)[k]
    <3>1. \A k \in 1 .. Used + 1 : k \in 1 .. Used \/ k = Used + 1
      BY <1>2
    <3> QED BY <1>5, <1>7, <1>8, <3>1
  <2> QED BY <1>2, <1>3, <1>5, <2>1, SeqEqual DEF WaitingFacts
<1>10. Len(Waiting) < HM_MSG_MAX - 1
  BY <1>2, <1>3 DEF WaitingFacts
<1> QED BY <1>1, <1>4, <1>9, <1>10 DEF Running

(* A call is made, returns, or resets the board.                           *)
LEMMA MainIsFifo ==
  ASSUME TypeOK, TypeOK', InvMain, hm_msg_queue_main
  PROVE  \/ Waiting' = Waiting /\ Running' = Running /\ overrun' = overrun
         \/ /\ Waiting # <<>> /\ Running = <<>> /\ overrun' = overrun
            /\ Running' = <<Head(Waiting)>> /\ Waiting' = Waiting
         \/ /\ Running # <<>> /\ Running' = <<>>
            /\ \/ Waiting' = Tail(Waiting) /\ overrun' = overrun
               \/ Waiting' = <<>> /\ ~overrun'
<1>1. (\A p \in Producers : adds[p].pc = "idle") /\ adds' = adds
  BY MainDoes
<1>2. \A i \in Slots : Filling(i) = {} /\ Filling(i)' = {}
  BY <1>1 DEF Filling
<1>3. WaitingFacts /\ WaitingFacts' /\ nread \in Slots
  BY WaitingIs, WaitingIsNext, Locals
<1>4. CASE /\ main.pc = "loop" /\ main'.pc = "call"
           /\ UNCHANGED <<msg_array, nwrite, nread, hung, overrun>>
  <2>1. \A i \in Slots : Content(i)' = Content(i)
    BY <1>1, <1>4 DEF Content, Filling
  <2> QED BY <1>4, <2>1, WaitingSame DEF Running
<1>5. CASE /\ main.pc = "call" /\ main'.pc = "return"
           /\ main'.call = [func |-> msg_array[main.pmsg].func,
                            param |-> msg_array[main.pmsg].param]
           /\ UNCHANGED <<msg_array, nwrite, nread, hung, overrun>>
  <2>1. \A i \in Slots : Content(i)' = Content(i)
    BY <1>1, <1>5 DEF Content, Filling
  <2>2. Waiting' = Waiting
    BY <1>5, <2>1, WaitingSame
  <2>3. main.pmsg = nread /\ Used > 0
    BY <1>5 DEF InvMain
  <2>4. 1 \in 1 .. Used /\ 1 - 1 = 0
    BY <1>3, <2>3 DEF WaitingFacts
  <2>5. Beyond(nread, 0) = nread
    BY <1>3, Ring DEF Beyond
  <2>6. Waiting[1] = main'.call
    <3>1. Waiting[1] = Content(nread)
      BY <1>3, <2>4, <2>5 DEF WaitingFacts
    <3>2. Filling(nread) = {}
      BY <1>2, <1>3
    <3> QED BY <1>5, <2>3, <3>1, <3>2 DEF Content
  <2>7. Waiting # <<>> /\ Head(Waiting) = Waiting[1]
    <3>1. Waiting # <<>>
      BY <1>3, <2>3, EmptySeq DEF WaitingFacts
    <3> QED BY <1>3, <3>1, HeadTailProperties DEF WaitingFacts
  <2> QED BY <1>5, <2>2, <2>6, <2>7 DEF Running
<1>6. CASE /\ main.pc = "return" /\ main'.pc = "loop"
           /\ nread' = Beyond(nread, 1) /\ UNCHANGED <<nwrite, hung, overrun>>
           /\ \A i \in Slots : /\ msg_array'[i].func = msg_array[i].func
                               /\ msg_array'[i].param = msg_array[i].param
  <2>1. \A i \in Slots : Content(i)' = Content(i)
    BY <1>2, <1>6 DEF Content
  <2>2. Used > 0 /\ Used = Behind(nread, nwrite) /\ nwrite \in Slots /\ Used < HM_MSG_MAX
    BY <1>6, QueueIs, Locals DEF InvMain
  <2>3. Used' = Used - 1
    <3>1. nread' \in Slots /\ nwrite' = nwrite
      BY <1>6 DEF TypeOK
    <3>2. Used' = Behind(Beyond(nread, 1), nwrite)
      BY <1>6, <2>2, <3>1, BehindIs DEF Used
    <3> QED BY <1>3, <2>2, <3>2, ReadOn
  <2>4. Waiting # <<>>
    BY <1>3, <2>2, EmptySeq DEF WaitingFacts
  <2>5. /\ Tail(Waiting) \in Seq(Calls) /\ Len(Tail(Waiting)) = Used - 1
        /\ \A k \in 1 .. Used - 1 : Tail(Waiting)[k] = Waiting[k + 1]
    BY <1>3, <2>4, HeadTailProperties DEF WaitingFacts
  <2>6. ASSUME NEW k \in 1 .. Used - 1 PROVE Waiting'[k] = Tail(Waiting)[k]
    <3>1. /\ k + 1 \in 1 .. Used /\ k \in 1 .. Used' /\ k - 1 \in 0 .. HM_MSG_MAX - 2
          /\ (k - 1) + 1 = k /\ (k + 1) - 1 = k
      BY <1>3, <2>2, <2>3, Ring DEF WaitingFacts
    <3>2. Beyond(nread', k - 1) = Beyond(nread, k)
      BY <1>3, <1>6, <2>2, <3>1, ReadOn
    <3>3. Waiting[k + 1] = Content(Beyond(nread, k)) /\ Beyond(nread, k) \in Slots
      BY <1>3, <3>1 DEF WaitingFacts
    <3>4. PICK i \in Slots : i = Beyond(nread, k)
      BY <3>3
    <3>5. Waiting'[k] = Content(i)'
      BY <1>3, <3>1, <3>2, <3>4 DEF WaitingFacts
    <3> QED BY <2>1, <2>5, <3>3, <3>4, <3>5
  <2>7. Waiting' = Tail(Waiting)
    BY <1>3, <2>3, <2>5, <2>6, SeqEqual DEF WaitingFacts
  <2> QED BY <1>6, <2>7 DEF Running
<1>7. CASE /\ main.pc = "return" /\ main'.pc = "loop"
           /\ nread' = 0 /\ nwrite' = 0 /\ ~overrun' /\ UNCHANGED hung
  <2>1. Used' = 0
    <3>1. 0 \in Slots /\ Behind(0, 0) = 0
      BY Ring DEF Behind
    <3> QED BY <1>7, <3>1, BehindIs DEF Used
  <2>2. Waiting' = <<>>
    BY <1>3, <2>1, EmptySeq DEF WaitingFacts
  <2> QED BY <1>7, <2>2 DEF Running
<1> QED BY <1>4, <1>5, <1>6, <1>7, MainDoes

(* A reset, whatever the ring was like, is the abstract reset.             *)
LEMMA ResetIsFifo ==
  ASSUME TypeOK, TypeOK', Reboot
  PROVE  Fifo!Reset
<1>1. main.pc = "return" /\ main'.pc = "loop" /\ nread' = 0 /\ nwrite' = 0 /\ ~overrun'
  BY DEF Reboot, IdleMain
<1>2. Used' = 0
  <2>1. 0 \in Slots /\ Behind(0, 0) = 0
    BY Ring DEF Behind
  <2> QED BY <1>1, <2>1, BehindIs DEF Used
<1>3. Waiting' = <<>>
  BY <1>2, WaitingIsNext, EmptySeq DEF WaitingFacts
<1>4. Reserving' = {}
  BY DEF Reboot, MainMayRun, Active, Reserving
<1>5. Running # <<>> /\ Running' = <<>>
  BY <1>1 DEF Running
<1> QED BY <1>1, <1>3, <1>4, <1>5 DEF Fifo!Reset, TypeOK

LEMMA FullIs ==
  ASSUME TypeOK
  PROVE  ismsg_full <=> ~(Used < HM_MSG_MAX - 1)
<1>1. /\ nread \in Slots /\ nwrite \in Slots /\ Used = Behind(nread, nwrite)
      /\ Used \in Nat /\ Used < HM_MSG_MAX
      /\ ismsg_full <=> Beyond(nwrite, 1) = nread
  BY Locals, QueueIs
<1> QED BY <1>1, Ring DEF Behind, Beyond

LEMMA StepIsFifo ==
  ASSUME IndInv, IndInv', [Next]_vars
  PROVE  [Fifo!Next]_(Fifo!vars)
<1>0. TypeOK /\ TypeOK'
  BY DEF IndInv
<1>a. CASE UNCHANGED vars
  BY <1>a DEF vars, Fifo!vars, Waiting, Running, Reserving, Used, Content, Filling
<1>b. CASE overrun /\ overrun'
  BY <1>b DEF Fifo!Next
<1>c. CASE overrun /\ ~overrun' /\ Next
  BY <1>0, <1>c, Overrun, ResetIsFifo DEF Fifo!Next
<1>d. CASE ~overrun /\ Next
  <2>0. InvFill /\ InvMain
    BY <1>d DEF IndInv
  <2>1. ASSUME NEW p \in Producers, NEW m \in Sends[p], Check(p, m)
        PROVE  [Fifo!Next]_(Fifo!vars)
    <3>1. Waiting' = Waiting /\ Running' = Running /\ overrun' = overrun
      BY <1>0, <2>1, CheckIsQuiet, CheckDoes
    <3>2. CASE UNCHANGED adds
      BY <3>1, <3>2 DEF Fifo!vars, Reserving
    <3>3. CASE ~UNCHANGED adds
      <4>1. /\ adds[p].pc = "idle" /\ adds'[p].pc = "reserve" /\ ~ismsg_full
            /\ \A o \in Producers \ {p} : adds'[o] = adds[o]
        BY <1>0, <2>1, <3>3, CheckDoes
      <4>2. p \notin Reserving /\ Reserving' = Reserving \cup {p}
        BY <4>1 DEF Reserving
      <4>3. Len(Waiting) = Used /\ Used < HM_MSG_MAX - 1
        BY <1>0, <4>1, WaitingIs, FullIs DEF WaitingFacts
      <4>4. Fifo!Admit(p)
        BY <3>1, <4>2, <4>3 DEF Fifo!Admit
      <4> QED BY <1>d, <4>4 DEF Fifo!Next
    <3> QED BY <3>2, <3>3
  <2>2. ASSUME NEW p \in Producers, Reserve(p) PROVE [Fifo!Next]_(Fifo!vars)
    <3>1. p \in Reserving /\ Reserving' = Reserving \ {p}
      BY <1>0, <2>2, ReserveDoes DEF Reserving
    <3>2. CASE overrun'
      <4>1. Len(Waiting) = Used /\ Used = HM_MSG_MAX - 1
        <5>1. Beyond(nwrite, 1) = nread
          BY <1>0, <1>d, <2>2, <3>2, ReserveDoes
        <5> QED BY <1>0, <5>1, WaitingIs, QueueIs, FullIs, Ring DEF WaitingFacts
      <4>2. Fifo!Overrun(p)
        BY <3>1, <3>2, <4>1 DEF Fifo!Overrun, TypeOK
      <4> QED BY <1>d, <4>2 DEF Fifo!Next
    <3>3. CASE ~overrun'
      <4>1. InvFill'
        BY <3>3 DEF IndInv
      <4>2. /\ Len(Waiting) < HM_MSG_MAX - 1 /\ adds[p].msg \in Msgs
            /\ Waiting' = Append(Waiting, adds[p].msg) /\ Running' = Running
        BY <1>0, <2>0, <2>2, <3>3, <4>1, ReserveAdds
      <4>3. Fifo!Add(p, adds[p].msg)
        BY <1>0, <1>d, <3>1, <3>3, <4>2 DEF Fifo!Add, TypeOK
      <4> QED BY <1>d, <4>2, <4>3 DEF Fifo!Next
    <3> QED BY <3>2, <3>3
  <2>3. ASSUME NEW p \in Producers, Account(p) \/ Note(p) \/ StoreFunc(p)
        PROVE  [Fifo!Next]_(Fifo!vars)
    <3>1. Reserving' = Reserving /\ overrun' = overrun
      BY <1>0, <2>3, FillDoes DEF Reserving, FillPc
    <3> QED BY <1>0, <2>0, <2>3, <3>1, FillIsQuiet DEF Fifo!vars
  <2>4. ASSUME NEW p \in Producers, StoreParam(p) PROVE [Fifo!Next]_(Fifo!vars)
    <3>1. Reserving' = Reserving /\ overrun' = overrun
      BY <1>0, <2>4, StoreParamDoes DEF Reserving
    <3> QED BY <1>0, <2>0, <2>4, <3>1, StoreParamIsQuiet DEF Fifo!vars
  <2>5. CASE hm_msg_queue_main
    <3>1. Reserving' = Reserving /\ Reserving' = {}
      BY <1>0, <2>0, <2>5, MainDoes DEF Reserving
    <3>2. \/ UNCHANGED Fifo!vars
          \/ Fifo!Call \/ Fifo!Return \/ Fifo!Reset
      <4>1. CASE Waiting' = Waiting /\ Running' = Running /\ overrun' = overrun
        BY <3>1, <4>1 DEF Fifo!vars
      <4>2. CASE /\ Waiting # <<>> /\ Running = <<>> /\ overrun' = overrun
                 /\ Running' = <<Head(Waiting)>> /\ Waiting' = Waiting
        BY <3>1, <4>2 DEF Fifo!Call
      <4>3. CASE /\ Running # <<>> /\ Running' = <<>>
                 /\ Waiting' = Tail(Waiting) /\ overrun' = overrun
        BY <3>1, <4>3 DEF Fifo!Return
      <4>4. CASE /\ Running # <<>> /\ Running' = <<>>
                 /\ Waiting' = <<>> /\ ~overrun'
        BY <1>0, <3>1, <4>4 DEF Fifo!Reset, TypeOK
      <4>5. \/ Waiting' = Waiting /\ Running' = Running /\ overrun' = overrun
            \/ /\ Waiting # <<>> /\ Running = <<>> /\ overrun' = overrun
               /\ Running' = <<Head(Waiting)>> /\ Waiting' = Waiting
            \/ /\ Running # <<>> /\ Running' = <<>>
               /\ \/ Waiting' = Tail(Waiting) /\ overrun' = overrun
                  \/ Waiting' = <<>> /\ ~overrun'
        BY <1>0, <2>0, <2>5, MainIsFifo
      <4> QED BY <4>1, <4>2, <4>3, <4>4, <4>5
    <3> QED BY <1>d, <3>2 DEF Fifo!Next
  <2> QED BY <1>d, <2>1, <2>2, <2>3, <2>4, <2>5 DEF Next, AddStep
<1> QED BY <1>a, <1>b, <1>c, <1>d DEF IndInv, TypeOK

LEMMA InitIsFifo == Init => Fifo!Init
<1> SUFFICES ASSUME Init PROVE Waiting = <<>> /\ Running = <<>> /\ Reserving = {}
  BY DEF Fifo!Init, Init
<1>1. TypeOK
  BY InitTypes
<1>2. Used = 0
  BY <1>1, QueueIs, Ring DEF Behind, Init
<1>3. Waiting = <<>>
  BY <1>1, <1>2, WaitingIs, EmptySeq DEF WaitingFacts
<1> QED BY <1>3 DEF Init, IdleMain, IdleAdd, Running, Reserving

(* For a ring of any size and any handlers, the queue of hm_msg_queue.c is *)
(* the bounded FIFO MsgFifo: every call accepted is made once, in order,   *)
(* with its own parameter and with both stores done.  The test for a free  *)
(* slot (:131) and the reservation (:133) are apart: only an add that was  *)
(* let in to a place another add then took ends this, until a reset.       *)
THEOREM QueueIsFifo == Spec => ImplementsFifo
<1>1. Init => IndInv
  BY InitInd
<1>2. IndInv /\ [Next]_vars => IndInv'
  BY IndInvNext
<1>3. Init => Fifo!Init
  BY InitIsFifo
<1>4. IndInv /\ IndInv' /\ [Next]_vars => [Fifo!Next]_(Fifo!vars)
  BY StepIsFifo
<1> QED BY <1>1, <1>2, <1>3, <1>4, PTL DEF Spec, ImplementsFifo, Fifo!Spec
=============================================================================
