-------------------------- MODULE CmdServer_proofs --------------------------
(* The UDP command server, for every number of slots, packet buffers and   *)
(* hosts: every packet buffer has exactly one owner, and no buffer is sent *)
(* after it was freed.                                                     *)
EXTENDS CmdServer, FiniteSetTheorems, WellFoundedInduction, TLAPS

(* The slots that are not idle; each of them holds one packet buffer.      *)
Taken == Items \ IdleItems

-----------------------------------------------------------------------------
(* Slots.                                                                  *)

(* hm_cmd_find_idle finds an idle slot when there is one.                  *)
LEMMA FindIdle ==
  ASSUME IdleItems # {}
  PROVE  hm_cmd_find_idle \in IdleItems
<1>1. IdleItems \subseteq Nat
  BY ItemAssumption DEF IdleItems, Items
<1> DEFINE Less == {p \in Nat \X Nat : p[1] < p[2]}
<1>2. IsWellFoundedOn(Less, Nat)
  <2>1. OpToRel(<, Nat) = Less
    BY Zenon DEF OpToRel
  <2> QED BY <2>1, NatLessThanWellFounded, Zenon
<1>3. PICK i \in IdleItems : \A j \in IdleItems : ~(<<j, i>> \in Less)
  <2> HIDE DEF Less
  <2> QED BY <1>1, <1>2, WFMin, Zenon
<1>4. ASSUME NEW j \in IdleItems
      PROVE  i <= j
  <2>1. ~(j < i)
    <3>1. j < i => <<j, i>> \in Less
      <4>1. <<j, i>> \in Nat \X Nat
        BY <1>1
      <4> QED BY <4>1
    <3> QED BY <1>3, <3>1
  <2> QED BY <1>1, <2>1
<1> QED BY <1>4 DEF hm_cmd_find_idle

LEMMA TakenFinite == IsFiniteSet(Taken) /\ Cardinality(Taken) \in Nat
<1>1. IsFiniteSet(Items)
  BY ItemAssumption, FS_Interval DEF Items
<1>2. IsFiniteSet(Taken)
  BY <1>1, FS_Subset DEF Taken
<1> QED BY <1>2, FS_CardinalityType

(* An idle slot is taken.                                                  *)
LEMMA SlotTaken ==
  ASSUME NEW i \in IdleItems, NEW st \in ItemState, st # "hmCmdStIdle",
         slot \in [Items -> ItemState], slot' = [slot EXCEPT ![i] = st]
  PROVE  Cardinality(Taken') = Cardinality(Taken) + 1
<1>1. Taken' = Taken \cup {i} /\ i \notin Taken
  BY DEF Taken, IdleItems
<1> QED BY <1>1, TakenFinite, FS_AddElement

(* A taken slot is given back.                                             *)
LEMMA SlotFreed ==
  ASSUME NEW i \in Items, slot[i] # "hmCmdStIdle",
         slot \in [Items -> ItemState],
         slot' = [slot EXCEPT ![i] = "hmCmdStIdle"]
  PROVE  Cardinality(Taken') = Cardinality(Taken) - 1
<1>1. Taken' = Taken \ {i} /\ i \in Taken
  BY DEF Taken, IdleItems
<1> QED BY <1>1, TakenFinite, FS_RemoveElement

(* A taken slot changes its state, or no slot does.                        *)
LEMMA SlotSame ==
  ASSUME NEW i \in Items, slot[i] # "hmCmdStIdle",
         slot \in [Items -> ItemState],
         NEW st \in ItemState, st # "hmCmdStIdle",
         slot' = [slot EXCEPT ![i] = st]
  PROVE  Taken' = Taken
BY DEF Taken, IdleItems

LEMMA SlotsUnchanged ==
  ASSUME UNCHANGED slot
  PROVE  Taken' = Taken
BY DEF Taken, IdleItems

-----------------------------------------------------------------------------
(* Preservation.                                                           *)

(* The buffers outside the pool.                                           *)
Checked == IF At("check") THEN 1 ELSE 0
Debugging == IF debug.pbuf /\ ~debug.freed THEN 1 ELSE 0

LEMMA Accounting ==
  BuffersAccounted <=>
    pool + Cardinality(Taken) + Checked + Debugging = PBUF_POOL_SIZE
BY DEF BuffersAccounted, Taken, Checked, Debugging

(* With every buffer accounted for, the pool is within its bounds as soon  *)
(* as it is a natural number.                                              *)
LEMMA PoolBound ==
  ASSUME pool \in Nat, BuffersAccounted
  PROVE  pool \in 0 .. PBUF_POOL_SIZE
<1>1. Checked \in Nat /\ Debugging \in Nat /\ Cardinality(Taken) \in Nat
  BY TakenFinite DEF Checked, Debugging
<1> QED BY <1>1, Accounting, PoolAssumption

(* All of the type invariant but the bound of the pool.                    *)
Types ==
  /\ slot \in [Items -> ItemState]
  /\ pool \in Nat
  /\ peer \in Clients \cup {NoOne}
  /\ srv \in [pc: SrvPc, req: Request \cup {NoRequest}, item: Items]
  /\ debug \in [on: BOOLEAN, pbuf: BOOLEAN, upcb: BOOLEAN, freed: BOOLEAN]
  /\ pt_buf \in Printers
  /\ log \in [by: Printers, text: Printers, freed: BOOLEAN]
  /\ reply \in [to: Clients \cup {NoOne}, req: Request \cup {NoRequest},
                ret: BOOLEAN]

LEMMA TypesIff == Types /\ BuffersAccounted => TypeOK
BY PoolBound DEF Types, TypeOK

(* The same of the next state.                                             *)
LEMMA NextTypes == Types' /\ BuffersAccounted' => TypeOK'
BY TypesIff, PTL

LEMMA NextAccounting ==
  BuffersAccounted' <=>
    pool' + Cardinality(Taken') + Checked' + Debugging' = PBUF_POOL_SIZE
BY DEF BuffersAccounted, Taken, Checked, Debugging

LEMMA TypesOf == TypeOK => Types
BY PoolAssumption DEF Types, TypeOK

LEMMA InitInv == Init => IndInv
<1> SUFFICES ASSUME Init
             PROVE  IndInv
  OBVIOUS
<1>1. Types
  BY ItemAssumption, PoolAssumption
     DEF Init, Types, Items, ItemState, IdleSrv, NoReply, NoLog, NoRequest,
         SrvPc, Printers
<1>2. BuffersAccounted
  <2>1. Taken = {}
    BY DEF Taken, IdleItems, Init
  <2>2. Cardinality(Taken) = 0
    BY <2>1, FS_EmptySet
  <2> QED BY <2>2, Accounting, PoolAssumption
          DEF Init, Checked, Debugging, At, IdleSrv
<1>3. NoSendAfterFree /\ InvSlot /\ InvDebugBuf /\ InvDebugOff
  BY DEF Init, NoSendAfterFree, InvSlot, InvDebugBuf, InvDebugOff, NoLog,
         IdleSrv, At
<1> QED BY <1>1, <1>2, <1>3, TypesIff DEF IndInv

(* The steps of the handlers that neither take nor give back a slot.       *)
LEMMA QuietSteps ==
  ASSUME IndInv,
         NoHandler \/ Format \/ hm_net_debug_send \/ DebugOn \/ DebugNew
           \/ DebugConnect \/ DebugOff \/ IrqPrint
  PROVE  IndInv'
<1> USE DEF At, Goto, Sends, Logged
<1>1. Types /\ UNCHANGED slot /\ UNCHANGED pool
  BY TypesOf DEF IndInv, NoHandler, Format, hm_net_debug_send, DebugOn, DebugNew,
         DebugConnect, DebugOff, IrqPrint
<1>2. Types'
  <2> USE <1>1 DEF Types, Printers, SrvPc
  <2>1. CASE NoHandler
    BY <2>1, ItemAssumption DEF NoHandler, IdleSrv, Items
  <2>2. CASE Format
    BY <2>2 DEF Format
  <2>3. CASE hm_net_debug_send
    BY <2>3 DEF hm_net_debug_send
  <2>4. CASE DebugOn
    <3>1. /\ srv' \in [pc: SrvPc, req: Request \cup {NoRequest}, item: Items]
          /\ debug' \in [on: BOOLEAN, pbuf: BOOLEAN, upcb: BOOLEAN, freed: BOOLEAN]
      BY <2>4 DEF DebugOn
    <3>2. UNCHANGED <<slot, pool, peer, pt_buf, log, reply>>
      BY <2>4 DEF DebugOn
    <3> QED BY <3>1, <3>2
  <2>5. CASE DebugNew
    BY <2>5, ZenonT(60) DEF DebugNew
  <2>6. CASE DebugConnect
    BY <2>6 DEF DebugConnect
  <2>7. CASE DebugOff
    BY <2>7, ZenonT(60) DEF DebugOff
  <2>8. CASE IrqPrint
    BY <2>8 DEF IrqPrint
  <2> QED BY <2>1, <2>2, <2>3, <2>4, <2>5, <2>6, <2>7, <2>8
<1>3. Taken' = Taken
  BY <1>1, SlotsUnchanged
<1>4. BuffersAccounted'
  <2>1. Checked' = Checked /\ Debugging' = Debugging
    BY <1>1 DEF Checked, Debugging, NoHandler, Format, hm_net_debug_send, DebugOn,
           DebugNew, DebugConnect, DebugOff, IrqPrint, Types, IdleSrv
  <2> QED BY <1>1, <1>3, <2>1, Accounting, NextAccounting DEF IndInv
<1>5. NoSendAfterFree' /\ InvSlot' /\ InvDebugBuf' /\ InvDebugOff'
  BY <1>1 DEF IndInv, NoSendAfterFree, InvSlot, InvDebugBuf, InvDebugOff, NoHandler,
         Format, hm_net_debug_send, DebugOn, DebugNew, DebugConnect,
         DebugOff, IrqPrint, Types, IdleSrv
<1> QED BY <1>2, <1>4, <1>5, NextTypes DEF IndInv

(* A datagram takes a buffer out of the pool.                              *)
LEMMA ReceiveStep ==
  ASSUME IndInv, NEW r \in Requests, Receive(r)
  PROVE  IndInv'
<1> USE DEF At, Goto
<1>1. Types
  BY TypesOf DEF IndInv
<1>2. Types'
  <2>1. r \in Request /\ r.client \in Clients
    BY KindAssumption DEF Request, Requests
  <2>2. IdleSrv \in [pc: SrvPc, req: Request \cup {NoRequest}, item: Items]
    <3>1. 1 \in Items
      BY ItemAssumption DEF Items
    <3> QED BY <3>1 DEF IdleSrv, SrvPc
  <2>3. srv' \in [pc: SrvPc, req: Request \cup {NoRequest}, item: Items]
    BY <2>1, <2>2 DEF Receive, SrvPc
  <2>4. pool' \in Nat /\ peer' \in Clients \cup {NoOne}
    BY <1>1, <2>1 DEF Receive, Types
  <2> QED BY <1>1, <2>3, <2>4 DEF Receive, Types
<1>3. BuffersAccounted'
  <2>1. Checked \in Nat /\ Debugging \in Nat /\ Cardinality(Taken) \in Nat /\ pool \in Nat
    BY <1>1, TakenFinite DEF Types, Checked, Debugging
  <2>2. Taken' = Taken
    BY SlotsUnchanged DEF Receive
  <2>3. pool' = pool - 1 /\ Checked = 0 /\ Checked' = 1 /\ Debugging' = Debugging
    BY <1>1 DEF Receive, IdleSrv, IndInv, Types, Checked, Debugging, InvDebugBuf, InvDebugOff
  <2> QED BY <2>1, <2>2, <2>3, Accounting, NextAccounting, PoolAssumption DEF IndInv
<1>4. NoSendAfterFree' /\ InvSlot' /\ InvDebugBuf' /\ InvDebugOff'
  BY <1>1, KindAssumption, ItemAssumption DEF Receive, IdleSrv, IndInv, NoSendAfterFree, InvSlot, InvDebugBuf, InvDebugOff, Types
<1> QED BY <1>2, <1>3, <1>4, NextTypes DEF IndInv

(* What every reply leaves behind.                                         *)
LEMMA AnswerTypes ==
  ASSUME Types, NEW ret \in BOOLEAN, Answer(ret)
  PROVE  /\ pool' \in Nat /\ peer' \in Clients \cup {NoOne}
         /\ srv' \in [pc: SrvPc, req: Request \cup {NoRequest}, item: Items]
         /\ reply' \in [to: Clients \cup {NoOne}, req: Request \cup {NoRequest},
                        ret: BOOLEAN]
<1>1. pool' \in Nat /\ peer' \in Clients \cup {NoOne}
  BY DEF Answer, Types
<1>2. srv' \in [pc: SrvPc, req: Request \cup {NoRequest}, item: Items]
  <2>1. 1 \in Items
    BY ItemAssumption DEF Items
  <2> QED BY <2>1 DEF Answer, IdleSrv, SrvPc
<1>3. reply' \in [to: Clients \cup {NoOne}, req: Request \cup {NoRequest},
                 ret: BOOLEAN]
  BY DEF Answer, Types
<1> QED BY <1>1, <1>2, <1>3

(* A refusal gives its buffer back.                                       *)
LEMMA RefuseStep ==
  ASSUME IndInv, Refuse
  PROVE  IndInv'
<1> USE DEF At, Goto
<1>1. Types
  BY TypesOf DEF IndInv
<1>2. Types'
  <2>1. srv.req.ret \in BOOLEAN
    <3>1. srv.req \in Request \cup {NoRequest}
      BY <1>1 DEF Types
    <3>2. CASE srv.req \in Request
      BY <3>2 DEF Request
    <3>3. CASE srv.req = NoRequest
      BY <3>3 DEF NoRequest
    <3> QED BY <3>1, <3>2, <3>3
  <2>2. Answer(srv.req.ret)
    BY DEF Refuse
  <2> QED BY <1>1, <2>1, <2>2, AnswerTypes DEF Refuse, Types
<1>3. BuffersAccounted'
  <2>1. Checked \in Nat /\ Debugging \in Nat /\ Cardinality(Taken) \in Nat /\ pool \in Nat
    BY <1>1, TakenFinite DEF Types, Checked, Debugging
  <2>2. Taken' = Taken
    BY SlotsUnchanged DEF Refuse
  <2>3. pool' = pool + 1 /\ Checked = 1 /\ Checked' = 0 /\ Debugging' = Debugging
    BY <1>1 DEF Refuse, Answer, IdleSrv, IndInv, Types, Checked, Debugging, InvDebugBuf, InvDebugOff
  <2> QED BY <2>1, <2>2, <2>3, Accounting, NextAccounting, PoolAssumption DEF IndInv
<1>4. NoSendAfterFree' /\ InvSlot' /\ InvDebugBuf' /\ InvDebugOff'
  BY <1>1, ItemAssumption DEF Refuse, Answer, IdleSrv, NoRequest, IndInv, NoSendAfterFree, InvSlot, InvDebugBuf, InvDebugOff, Types
<1> QED BY <1>2, <1>3, <1>4, NextTypes DEF IndInv

(* The buffer passes from the callback to a slot.                          *)
LEMMA PushStep ==
  ASSUME IndInv, Push
  PROVE  IndInv'
<1> USE DEF At, Goto
<1>1. Types
  BY TypesOf DEF IndInv
<1>5. hm_cmd_find_idle \in IdleItems /\ hm_cmd_find_idle \in Items
  BY FindIdle DEF Push, IdleItems
<1>2. Types'
  BY <1>1, <1>5 DEF Push, IndInv, Types, SrvPc, ItemState
<1>3. BuffersAccounted'
  <2>1. Checked \in Nat /\ Debugging \in Nat /\ Cardinality(Taken) \in Nat /\ pool \in Nat
    BY <1>1, TakenFinite DEF Types, Checked, Debugging
  <2>2. Cardinality(Taken') = Cardinality(Taken) + 1
    BY <1>1, <1>5, SlotTaken DEF Push, Types, ItemState
  <2>3. pool' = pool /\ Checked = 1 /\ Checked' = 0 /\ Debugging' = Debugging
    BY <1>1 DEF Push, Types, Checked, Debugging
  <2> QED BY <2>1, <2>2, <2>3, Accounting, NextAccounting, PoolAssumption DEF IndInv
<1>4. NoSendAfterFree' /\ InvSlot' /\ InvDebugBuf' /\ InvDebugOff'
  BY <1>1, <1>5 DEF Push, IndInv, NoSendAfterFree, InvSlot, InvDebugBuf, InvDebugOff, Types
<1> QED BY <1>2, <1>3, <1>4, NextTypes DEF IndInv

(* The slot of the request is marked as being called.                      *)
LEMMA DispatchStep ==
  ASSUME IndInv, Dispatch
  PROVE  IndInv'
<1> USE DEF At, Goto
<1>1. Types
  BY TypesOf DEF IndInv
<1>2. Types'
  BY <1>1 DEF Dispatch, IndInv, Types, SrvPc, ItemState
<1>3. BuffersAccounted'
  <2>1. Checked \in Nat /\ Debugging \in Nat /\ Cardinality(Taken) \in Nat /\ pool \in Nat
    BY <1>1, TakenFinite DEF Types, Checked, Debugging
  <2>2. Taken' = Taken
    BY <1>1, SlotSame DEF Dispatch, IndInv, InvSlot, Types, ItemState
  <2>3. pool' = pool /\ Checked' = Checked /\ Debugging' = Debugging
    BY <1>1 DEF Dispatch, Types, Checked, Debugging
  <2> QED BY <2>1, <2>2, <2>3, Accounting, NextAccounting, PoolAssumption DEF IndInv
<1>4. NoSendAfterFree' /\ InvSlot' /\ InvDebugBuf' /\ InvDebugOff'
  BY <1>1 DEF Dispatch, IndInv, NoSendAfterFree, InvSlot, InvDebugBuf, InvDebugOff, Types
<1> QED BY <1>2, <1>3, <1>4, NextTypes DEF IndInv

(* The debug output takes a buffer, if there is one, and had none.         *)
LEMMA AllocStep ==
  ASSUME IndInv, DebugAlloc
  PROVE  IndInv'
<1> USE DEF At, Goto
<1>1. Types
  BY TypesOf DEF IndInv
<1>2. Types'
  <2>1. pool' \in Nat
    BY <1>1 DEF DebugAlloc, Types
  <2>2. debug' \in [on: BOOLEAN, pbuf: BOOLEAN, upcb: BOOLEAN, freed: BOOLEAN]
    <3>1. (pool > 0) \in BOOLEAN
      OBVIOUS
    <3> QED BY <1>1, <3>1, Zenon DEF DebugAlloc, Types
  <2> QED BY <1>1, <2>1, <2>2 DEF DebugAlloc, Types, SrvPc
<1>3. BuffersAccounted'
  <2>1. Checked \in Nat /\ Debugging \in Nat /\ Cardinality(Taken) \in Nat /\ pool \in Nat
    BY <1>1, TakenFinite DEF Types, Checked, Debugging
  <2>2. Taken' = Taken
    BY SlotsUnchanged DEF DebugAlloc
  <2>3. /\ Checked' = Checked /\ Debugging = 0 /\ Debugging' \in Nat
        /\ pool' = pool - Debugging'
    <3>1. Checked' = Checked /\ Debugging = 0
      BY <1>1 DEF DebugAlloc, IndInv, Types, Checked, Debugging, InvDebugBuf
    <3>2. debug'.pbuf = (pool > 0) /\ debug'.freed = FALSE
      BY <1>1, Zenon DEF DebugAlloc, Types
    <3>3. Debugging' = IF pool > 0 THEN 1 ELSE 0
      <4>1. CASE pool > 0
        BY <3>2, <4>1 DEF Debugging
      <4>2. CASE ~(pool > 0)
        BY <3>2, <4>2 DEF Debugging
      <4> QED BY <4>1, <4>2
    <3>4. pool' = pool - Debugging' /\ Debugging' \in Nat
      BY <2>1, <3>3 DEF DebugAlloc
    <3> QED BY <3>1, <3>4
  <2> QED BY <2>1, <2>2, <2>3, Accounting, NextAccounting, PoolAssumption DEF IndInv
<1>4. NoSendAfterFree' /\ InvSlot' /\ InvDebugBuf' /\ InvDebugOff'
  BY <1>1 DEF DebugAlloc, IndInv, NoSendAfterFree, InvSlot, InvDebugBuf, InvDebugOff, Types
<1> QED BY <1>2, <1>3, <1>4, NextTypes DEF IndInv

(* The debug output gives its buffer back.                                 *)
LEMMA FreeStep ==
  ASSUME IndInv, DebugFree
  PROVE  IndInv'
<1> USE DEF At, Goto
<1>1. Types
  BY TypesOf DEF IndInv
<1>2. Types'
  BY <1>1 DEF DebugFree, IndInv, Types, SrvPc, ItemState
<1>3. BuffersAccounted'
  <2>1. Checked \in Nat /\ Debugging \in Nat /\ Cardinality(Taken) \in Nat /\ pool \in Nat
    BY <1>1, TakenFinite DEF Types, Checked, Debugging
  <2>2. Taken' = Taken
    BY SlotsUnchanged DEF DebugFree
  <2>3. /\ Checked' = Checked /\ Debugging' = 0
        /\ pool' = pool + Debugging
    BY <1>1 DEF DebugFree, IndInv, Types, Checked, Debugging, InvDebugBuf, InvDebugOff
  <2> QED BY <2>1, <2>2, <2>3, Accounting, NextAccounting, PoolAssumption DEF IndInv
<1>4. NoSendAfterFree' /\ InvSlot' /\ InvDebugBuf' /\ InvDebugOff'
  BY <1>1 DEF DebugFree, IndInv, NoSendAfterFree, InvSlot, InvDebugBuf, InvDebugOff, Types
<1> QED BY <1>2, <1>3, <1>4, NextTypes DEF IndInv

(* It forgets the buffer it gave back.                                     *)
LEMMA ClearStep ==
  ASSUME IndInv, DebugClear
  PROVE  IndInv'
<1> USE DEF At, Goto
<1>1. Types
  BY TypesOf DEF IndInv
<1>2. Types'
  BY <1>1 DEF DebugClear, IndInv, Types, SrvPc, ItemState
<1>3. BuffersAccounted'
  <2>1. Checked \in Nat /\ Debugging \in Nat /\ Cardinality(Taken) \in Nat /\ pool \in Nat
    BY <1>1, TakenFinite DEF Types, Checked, Debugging
  <2>2. Taken' = Taken
    BY SlotsUnchanged DEF DebugClear
  <2>3. pool' = pool /\ Checked' = Checked /\ Debugging' = Debugging
    BY <1>1 DEF DebugClear, IndInv, Types, Checked, Debugging, InvDebugBuf, InvDebugOff
  <2> QED BY <2>1, <2>2, <2>3, Accounting, NextAccounting, PoolAssumption DEF IndInv
<1>4. NoSendAfterFree' /\ InvSlot' /\ InvDebugBuf' /\ InvDebugOff'
  BY <1>1 DEF DebugClear, IndInv, NoSendAfterFree, InvSlot, InvDebugBuf, InvDebugOff, Types
<1> QED BY <1>2, <1>3, <1>4, NextTypes DEF IndInv

(* The reply gives back the buffer together with the slot.                 *)
LEMMA ReplyStep ==
  ASSUME IndInv, Reply
  PROVE  IndInv'
<1> USE DEF At, Goto
<1>1. Types
  BY TypesOf DEF IndInv
<1>2. Types'
  BY <1>1, AnswerTypes DEF Reply, Types, ItemState
<1>3. BuffersAccounted'
  <2>1. Checked \in Nat /\ Debugging \in Nat /\ Cardinality(Taken) \in Nat /\ pool \in Nat
    BY <1>1, TakenFinite DEF Types, Checked, Debugging
  <2>2. Cardinality(Taken') = Cardinality(Taken) - 1
    BY <1>1, SlotFreed DEF Reply, IndInv, InvSlot, Types
  <2>3. pool' = pool + 1 /\ Checked' = Checked /\ Debugging' = Debugging
    BY <1>1 DEF Reply, Answer, IdleSrv, Types, Checked, Debugging
  <2> QED BY <2>1, <2>2, <2>3, Accounting, NextAccounting, PoolAssumption DEF IndInv
<1>4. NoSendAfterFree' /\ InvSlot' /\ InvDebugBuf' /\ InvDebugOff'
  BY <1>1, ItemAssumption DEF Reply, Answer, IdleSrv, NoRequest, IndInv, NoSendAfterFree, InvSlot, InvDebugBuf, InvDebugOff, Types
<1> QED BY <1>2, <1>3, <1>4, NextTypes DEF IndInv

LEMMA IndInvNext == IndInv /\ [Next]_vars => IndInv'
<1> SUFFICES ASSUME IndInv, [Next]_vars
             PROVE  IndInv'
  OBVIOUS
<1>1. CASE \E r \in Requests : Receive(r)
  BY <1>1, ReceiveStep
<1>2. CASE udp_server_callback
  BY <1>2, RefuseStep, PushStep, QuietSteps, DispatchStep, AllocStep, FreeStep,
     ClearStep, ReplyStep DEF udp_server_callback, hm_cmd_msg_ck
<1>3. CASE IrqPrint
  BY <1>3, QuietSteps
<1>4. CASE UNCHANGED vars
  BY <1>4 DEF vars, IndInv, TypeOK, BuffersAccounted, NoSendAfterFree, InvSlot,
              InvDebugBuf, InvDebugOff, IdleItems, At
<1> QED BY <1>1, <1>2, <1>3, <1>4 DEF Next

LEMMA Inductive == Spec => []IndInv
BY InitInv, IndInvNext, PTL DEF Spec

(* Every packet buffer is in the pool or has exactly one owner: a request  *)
(* under test, a slot, or the debug output.  None is lost, none is freed   *)
(* twice, however many slots and buffers there are and whatever the hosts  *)
(* send (hm_cmd_inter_netwk.c:128-143, 190, 282).                          *)
THEOREM BuffersHaveOneOwner == Spec => []BuffersAccounted
<1>1. IndInv => BuffersAccounted
  BY DEF IndInv
<1> QED BY <1>1, Inductive, PTL

(* No debug print, from whichever handler and between whichever two steps  *)
(* of the switching off, sends a buffer that is back in the pool.          *)
THEOREM FreedIsNotSent == Spec => []NoSendAfterFree
<1>1. IndInv => NoSendAfterFree
  BY DEF IndInv
<1> QED BY <1>1, Inductive, PTL

(* The server's state has its types; the pool never exceeds its size.      *)
THEOREM ServerTypes == Spec => []TypeOK
<1>1. IndInv => TypeOK
  BY DEF IndInv
<1> QED BY <1>1, Inductive, PTL
=============================================================================
