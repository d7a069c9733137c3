----------------------------- MODULE CmdServer -----------------------------
(***************************************************************************)
(* The UDP command server (hm_cmd_inter_netwk.c) and the debug print built *)
(* on it (hm_debug.h).  A datagram is handled from udp_server_callback to  *)
(* the reply inside the Ethernet interrupt; DMA, EXTI and SysTick handlers *)
(* preempt it between any two steps, and print.  lwIP is external: a pool  *)
(* of packet buffers, and a control block that, while connected, delivers  *)
(* datagrams of its peer only.                                             *)
(***************************************************************************)
EXTENDS Integers, FiniteSets

CONSTANTS
  HM_CMD_MAX_CMD_ITEM,   \* request slots (20)
  PBUF_POOL_SIZE,        \* packet buffers of lwIP (10)
  Clients,               \* hosts that send requests
  Kinds,                 \* requests they send: a subset of RequestKinds
  NoOne                  \* no client

(* bad: wrong length, mark or owner.  unknown: a command without handler.  *)
(* led: a command whose handler prints.  on, off: hmDebugOpe.              *)
RequestKinds == {"bad", "unknown", "led", "on", "off"}

ASSUME ItemAssumption == HM_CMD_MAX_CMD_ITEM \in Nat \ {0}
ASSUME PoolAssumption == PBUF_POOL_SIZE \in Nat \ {0}
ASSUME ClientAssumption == NoOne \notin Clients
ASSUME KindAssumption == Kinds \subseteq RequestKinds

VARIABLES
  slot,     \* state of each item of s_cmd_queue
  pool,     \* packet buffers free in lwIP
  peer,     \* whom the server's control block is connected to
  srv,      \* the callback: where it is, the request and its slot
  debug,    \* s_debug: on, pbuf and upcb set; freed: the pbuf pointed to
            \* is back in the pool
  pt_buf,   \* who wrote what is in s_debug.pt_buf
  log,      \* history: the last debug datagram, its printer and its text
  reply     \* history: the last reply: to whom, for what, and its ret

vars == <<slot, pool, peer, srv, debug, pt_buf, log, reply>>

Items == 1 .. HM_CMD_MAX_CMD_ITEM
ItemState == {"hmCmdStIdle", "hmCmdStPushed", "hmCmdStCalling"}
Printers == {"none", "cmd", "irq"}

SrvPc ==
  {"idle", "check", "dispatch", "exec", "send", "alloc", "new", "connect",
   "free", "clear", "reply"}

Request == [client: Clients, kind: RequestKinds, ret: BOOLEAN]

NoRequest == [client |-> NoOne, kind |-> "bad", ret |-> FALSE]
IdleSrv == [pc |-> "idle", req |-> NoRequest, item |-> 1]
NoReply == [to |-> NoOne, req |-> NoRequest, ret |-> FALSE]
NoLog == [by |-> "none", text |-> "none", freed |-> FALSE]

(* hm_cmd_net_init; s_debug is zeroed static data.                         *)
Init ==
  /\ slot = [i \in Items |-> "hmCmdStIdle"]
  /\ pool = PBUF_POOL_SIZE
  /\ peer = NoOne
  /\ srv = IdleSrv
  /\ debug = [on |-> FALSE, pbuf |-> FALSE, upcb |-> FALSE, freed |-> FALSE]
  /\ pt_buf = "none"
  /\ log = NoLog
  /\ reply = NoReply

-----------------------------------------------------------------------------
(* Helpers.                                                                *)

At(pc) == srv.pc = pc

Goto(pc) == srv' = [srv EXCEPT !.pc = pc]

(* hm_cmd_find_idle: the first idle slot.                                  *)
IdleItems == {i \in Items : slot[i] = "hmCmdStIdle"}

hm_cmd_find_idle == CHOOSE i \in IdleItems : \A j \in IdleItems : i <= j

(* The commands hm_cmd_exec_init registers a handler for, and their look-up *)
(* in the table.                                                           *)
CmdTable == RequestKinds \ {"bad", "unknown"}

Registered(kind) == kind \in CmdTable

(* Mutated: disconnected before the reply is sent.                         *)
AnswerLate(ret) ==
  /\ reply' = [to |-> NoOne, req |-> srv.req, ret |-> ret]
  /\ peer' = NoOne
  /\ pool' = pool + 1
  /\ srv' = IdleSrv

(* udp_send, udp_disconnect, pbuf_free on the request's own buffer.        *)
Answer(ret) ==
  /\ reply' = [to |-> peer, req |-> srv.req, ret |-> ret]
  /\ peer' = NoOne
  /\ pool' = pool + 1
  /\ srv' = IdleSrv

-----------------------------------------------------------------------------
(* udp_server_callback.                                                    *)

(* A datagram arrives: ethernetif_input needs a buffer, udp_input finds    *)
(* the server's control block only if it is unconnected or connected to    *)
(* the sender; the callback connects it.                                   *)
Receive(r) ==
  /\ At("idle")
  /\ pool > 0
  /\ peer \in {NoOne, r.client}
  /\ pool' = pool - 1
  /\ peer' = r.client
  /\ srv' = [IdleSrv EXCEPT !.pc = "check", !.req = r]
  /\ UNCHANGED <<slot, debug, pt_buf, log, reply>>

(* A request that is malformed, or for which there is no slot, is sent     *)
(* back as it came.                                                        *)
Refuse ==
  /\ At("check")
  /\ srv.req.kind = "bad" \/ IdleItems = {}
  /\ Answer(srv.req.ret)
  /\ UNCHANGED <<slot, debug, pt_buf, log>>

Push ==
  /\ At("check")
  /\ srv.req.kind # "bad" /\ IdleItems # {}
  /\ slot' = [slot EXCEPT ![hm_cmd_find_idle] = "hmCmdStPushed"]
  /\ srv' = [srv EXCEPT !.pc = "dispatch", !.item = hm_cmd_find_idle]
  /\ UNCHANGED <<pool, peer, debug, pt_buf, log, reply>>

-----------------------------------------------------------------------------
(* hm_cmd_msg_ck and the handlers it calls.                                *)

(* No handler: the function returns, and leaves slot, buffer and           *)
(* connection as they are.                                                 *)
NoHandler ==
  /\ At("dispatch") /\ ~Registered(srv.req.kind)
  /\ srv' = IdleSrv
  /\ UNCHANGED <<slot, pool, peer, debug, pt_buf, log, reply>>

Dispatch ==
  /\ At("dispatch") /\ Registered(srv.req.kind)
  /\ slot' = [slot EXCEPT ![srv.item] = "hmCmdStCalling"]
  /\ Goto("exec")
  /\ UNCHANGED <<pool, peer, debug, pt_buf, log, reply>>

(* HM_NET_PRINT in a command: formats into the one buffer if the debug     *)
(* output is on, ...                                                       *)
Format ==
  /\ At("exec") /\ srv.req.kind = "led"
  /\ IF debug.on
     THEN pt_buf' = "cmd" /\ Goto("send")
     ELSE Goto("reply") /\ UNCHANGED pt_buf
  /\ UNCHANGED <<slot, pool, peer, debug, log, reply>>

Sends == debug.on /\ debug.pbuf /\ debug.upcb

Logged(by, text) ==
  log' = IF Sends THEN [by |-> by, text |-> text, freed |-> debug.freed] ELSE log

(* ... and sends it at once.                                               *)
hm_net_debug_send ==
  /\ At("send")
  /\ Logged("cmd", pt_buf)
  /\ Goto("reply")
  /\ UNCHANGED <<slot, pool, peer, debug, pt_buf, reply>>

(* Mutated: a buffer for every request, the old one forgotten.             *)
DebugOnAgain ==
  /\ At("exec") /\ srv.req.kind = "on"
  /\ debug' = [debug EXCEPT !.on = TRUE]
  /\ Goto("alloc")
  /\ UNCHANGED <<slot, pool, peer, pt_buf, log, reply>>

(* hm_cmd_net_init_debug(true): bdebug_on, then, unless there is a control *)
(* block already, a buffer (the pool may be empty) and a control block.    *)
DebugOn ==
  /\ At("exec") /\ srv.req.kind = "on"
  /\ debug' = [debug EXCEPT !.on = TRUE]
  /\ Goto(IF debug.upcb THEN "connect" ELSE "alloc")
  /\ UNCHANGED <<slot, pool, peer, pt_buf, log, reply>>

DebugAlloc ==
  /\ At("alloc")
  /\ debug' = [debug EXCEPT !.pbuf = pool > 0, !.freed = FALSE]
  /\ pool' = IF pool > 0 THEN pool - 1 ELSE pool
  /\ Goto("new")
  /\ UNCHANGED <<slot, peer, pt_buf, log, reply>>

DebugNew ==
  /\ At("new")
  /\ debug' = [debug EXCEPT !.upcb = TRUE]
  /\ Goto("connect")
  /\ UNCHANGED <<slot, pool, peer, pt_buf, log, reply>>

DebugConnect ==
  /\ At("connect")
  /\ Goto("reply")
  /\ UNCHANGED <<slot, pool, peer, debug, pt_buf, log, reply>>

(* Mutated: switched off last.                                             *)
DebugOffLate ==
  /\ At("exec") /\ srv.req.kind = "off"
  /\ Goto("free")
  /\ UNCHANGED <<slot, pool, peer, debug, pt_buf, log, reply>>

(* hm_cmd_net_init_debug(false): bdebug_on first, so that no print that    *)
(* interrupts the rest uses what is freed; pbuf_free(NULL) does nothing.   *)
DebugOff ==
  /\ At("exec") /\ srv.req.kind = "off"
  /\ debug' = [debug EXCEPT !.on = FALSE]
  /\ Goto("free")
  /\ UNCHANGED <<slot, pool, peer, pt_buf, log, reply>>

DebugFree ==
  /\ At("free")
  /\ pool' = IF debug.pbuf THEN pool + 1 ELSE pool
  /\ debug' = [debug EXCEPT !.freed = debug.pbuf]
  /\ Goto("clear")
  /\ UNCHANGED <<slot, peer, pt_buf, log, reply>>

DebugClear ==
  /\ At("clear")
  /\ debug' = [debug EXCEPT !.pbuf = FALSE, !.upcb = FALSE, !.freed = FALSE]
  /\ Goto("reply")
  /\ UNCHANGED <<slot, pool, peer, pt_buf, log, reply>>

(* Mutated: the slot is not initialised again.                             *)
ReplyKeepsSlot ==
  /\ At("reply")
  /\ Answer(TRUE)
  /\ UNCHANGED <<slot, debug, pt_buf, log>>

(* The handler returned: reply, disconnect, free the buffer and the slot.  *)
Reply ==
  /\ At("reply")
  /\ Answer(TRUE)
  /\ slot' = [slot EXCEPT ![srv.item] = "hmCmdStIdle"]
  /\ UNCHANGED <<debug, pt_buf, log>>

-----------------------------------------------------------------------------
(* A handler of higher priority prints, from start to end.                 *)
IrqPrint ==
  /\ debug.on
  /\ pt_buf' = "irq"
  /\ Logged("irq", "irq")
  /\ UNCHANGED <<slot, pool, peer, srv, debug, reply>>

hm_cmd_msg_ck ==
  NoHandler \/ Dispatch \/ Format \/ hm_net_debug_send \/ DebugOn
    \/ DebugAlloc \/ DebugNew \/ DebugConnect \/ DebugOff \/ DebugFree
    \/ DebugClear \/ Reply

udp_server_callback == Refuse \/ Push \/ hm_cmd_msg_ck

Requests == [client: Clients, kind: Kinds, ret: BOOLEAN]

Next ==
  \/ \E r \in Requests : Receive(r)
  \/ udp_server_callback
  \/ IrqPrint

Spec == Init /\ [][Next]_vars

(* The callback runs to its end: interrupts that preempt it return.        *)
FairSpec == Spec /\ WF_vars(udp_server_callback)

-----------------------------------------------------------------------------
(* Type correctness of slots, pool, connection, locals and histories.      *)
TypeOK ==
  /\ slot \in [Items -> ItemState]
  /\ pool \in 0 .. PBUF_POOL_SIZE
  /\ peer \in Clients \cup {NoOne}
  /\ srv \in [pc: SrvPc, req: Request \cup {NoRequest}, item: Items]
  /\ debug \in [on: BOOLEAN, pbuf: BOOLEAN, upcb: BOOLEAN, freed: BOOLEAN]
  /\ pt_buf \in Printers
  /\ log \in [by: Printers, text: Printers, freed: BOOLEAN]
  /\ reply \in [to: Clients \cup {NoOne}, req: Request \cup {NoRequest},
                ret: BOOLEAN]

(* Between callbacks everything a request took is given back: the slots    *)
(* are idle, the control block hears every host, and the pool is whole but *)
(* for the buffer of the debug output.  A handler for each command is what *)
(* "check error, this should not be happen" (hm_cmd_inter_netwk.c:268)     *)
(* counts on.                                                              *)
AllGivenBack ==
  At("idle") =>
    /\ IdleItems = Items
    /\ peer = NoOne
    /\ pool = PBUF_POOL_SIZE - (IF debug.pbuf THEN 1 ELSE 0)

(* Every packet buffer is in the pool, with the request being checked, in  *)
(* a slot that is not idle, or with the debug output: none is freed twice  *)
(* and none is lost but with its slot (hm_cmd_inter_netwk.c:128-143, 190,  *)
(* 282), also when commands without handler and an empty pool make the     *)
(* steps in between fail.                                                  *)
BuffersAccounted ==
  pool + Cardinality(Items \ IdleItems)
    + (IF At("check") THEN 1 ELSE 0)
    + (IF debug.pbuf /\ ~debug.freed THEN 1 ELSE 0) = PBUF_POOL_SIZE

(* No print sends a buffer that went back to the pool, wherever it         *)
(* interrupts the switching off (hm_cmd_inter_netwk.c:125, 140-143).       *)
NoSendAfterFree == ~log.freed

(* A request whose command has a handler, and a malformed one, is answered *)
(* to the host that sent it (hm_cmd_inter_netwk.c:188, 278).               *)
EveryRequestAnswered ==
  \A c \in Clients :
    (srv.req.client = c /\ srv.req.kind # "unknown")
      ~> (At("idle") /\ reply.to = c /\ reply.req.client = c)

-----------------------------------------------------------------------------
(* The inductive invariant behind BuffersAccounted and NoSendAfterFree.    *)

(* While a request is executed its slot is not idle: the slot the reply    *)
(* frees is the one the request holds.                                     *)
InvSlot == srv.pc \notin {"idle", "check"} => slot[srv.item] # "hmCmdStIdle"

(* The debug output has a buffer only with its control block, or when it   *)
(* is about to get one; so it is never given a second one.                 *)
InvDebugBuf ==
  /\ debug.pbuf => debug.upcb \/ At("new")
  /\ At("alloc") => ~debug.upcb

(* A freed buffer is pointed to only while the output is being switched    *)
(* off, and bdebug_on is false by then.                                    *)
InvDebugOff ==
  /\ At("free") \/ At("clear") => ~debug.on
  /\ debug.freed <=> At("clear") /\ debug.pbuf

IndInv ==
  /\ TypeOK
  /\ BuffersAccounted /\ NoSendAfterFree
  /\ InvSlot /\ InvDebugBuf /\ InvDebugOff
=============================================================================
