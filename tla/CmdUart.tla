------------------------------ MODULE CmdUart -------------------------------
(***************************************************************************)
(* The UART command interface (hm_cmd_inter_uart.c over hm_uart.c), the    *)
(* alternative to the UDP server that HM_CMD_METHOD_UART builds.  A host   *)
(* sends requests of a fixed length byte by byte; the receive interrupt    *)
(* collects them in slots and queues a call; the main loop executes and    *)
(* answers.  The interrupt may come between any two steps of the main      *)
(* loop.  Bytes may be lost, and a silence of more than 300 ms puts the    *)
(* receiver back to the start of a request.                                *)
(*                                                                         *)
(* A byte is known by the request it belongs to and its place there; any   *)
(* byte of the payload may have the value of a mark.  The queue is         *)
(* MsgQueue's, with room.                                                  *)
(***************************************************************************)
EXTENDS Integers, Sequences, FiniteSets

CONSTANTS
  HM_CMD_MAX_CMD_ITEM,    \* request slots (20)
  HM_CMD_MAX_INPUT_SIZE,  \* bytes of input in a request
  Requests,               \* requests the host sends
  Unknown,                \* those without an entry in s_cmd_table
  None,                   \* no request
  MaxLost,                \* bound: bytes missing when the line loses no more
  Window                  \* bytes that may come between the two steps in
                          \* which the main loop gives a slot back

ASSUME UartAssumption ==
  /\ HM_CMD_MAX_CMD_ITEM \in Nat \ {0}
  /\ HM_CMD_MAX_INPUT_SIZE \in Nat \ {0}
  /\ Unknown \subseteq Requests /\ None \notin Requests
  /\ MaxLost \in Nat /\ Window \in Nat

VARIABLES
  host,         \* the request being sent, the place of its next byte
  s_cmd_queue,  \* the slots
  s_queue_idx,  \* the slot being filled, 0: HM_CMD_INVALID_IDX
  gap,          \* sl_last_tim is more than 300 ms ago
  calls,        \* calls of hm_cmd_msg_ck in the message queue, and history:
                \* the bytes the slot had when it was queued
  main,         \* where hm_cmd_msg_ck is, and its call
  missing       \* history: bytes lost or dropped since the last silence

vars == <<host, s_cmd_queue, s_queue_idx, gap, calls, main, missing>>

(* The layout of hm_cmd_req_t; input_len and ret stand with ncmd.  What    *)
(* is not a mark is payload: of any value.                                 *)
NcmdAt == HM_CMD_MAX_INPUT_SIZE + 1
Mark1At == NcmdAt + 1
Mark2At == NcmdAt + 2
FrameLen == NcmdAt + 3      \* the owner

Items == 1 .. HM_CMD_MAX_CMD_ITEM
Places == 1 .. FrameLen
Payload == Places \ {Mark1At, Mark2At}
Byte == [req: Requests \cup {None}, place: Places \cup {0}]
Zero == [req |-> None, place |-> 0]
Blank == [i \in Places |-> Zero]
ItemState ==
  {"hmCmdStIdle", "hmCmdStFilling", "hmCmdStPushed", "hmCmdStCalling"}
IdleItem == [state |-> "hmCmdStIdle", buf_idx |-> 0, cmd_buf |-> Blank]
NoCall == [item |-> 0, bytes |-> Blank]
IdleMain == [pc |-> "loop", call |-> NoCall, late |-> 0]

TypeOK ==
  /\ host \in [req: Requests, place: Places]
  /\ s_cmd_queue \in [Items -> [state: ItemState, buf_idx: Places \cup {0},
                                cmd_buf: [Places -> Byte]]]
  /\ s_queue_idx \in Items \cup {0}
  /\ gap \in BOOLEAN
  /\ calls \in Seq([item: Items, bytes: [Places -> Byte]])
  /\ main \in [pc: {"loop", "send", "init", "clear"}, late: 0 .. Window,
               call: [item: Items \cup {0}, bytes: [Places -> Byte]]]
  /\ missing \in 0 .. FrameLen

(* hm_cmd_init.                                                            *)
Init ==
  /\ \E q \in Requests : host = [req |-> q, place |-> 1]
  /\ s_cmd_queue = [i \in Items |-> IdleItem]
  /\ s_queue_idx = 0
  /\ gap = FALSE
  /\ calls = <<>>
  /\ main = IdleMain
  /\ missing = 0

-----------------------------------------------------------------------------
(* The line.                                                               *)

(* The host goes on to the next byte, or to another request.               *)
HostGoesOn ==
  IF host.place < FrameLen
  THEN host' = [host EXCEPT !.place = @ + 1]
  ELSE \E q \in Requests \ {host.req} : host' = [req |-> q, place |-> 1]

OneMissing == missing' = IF missing < FrameLen THEN missing + 1 ELSE missing

(* A byte is lost on the line or overrun in the receiver.                  *)
LoseByte ==
  /\ missing < MaxLost
  /\ HostGoesOn
  /\ OneMissing
  /\ UNCHANGED <<s_cmd_queue, s_queue_idx, gap, calls, main>>

(* The host sends nothing for more than 300 ms.                            *)
Silence ==
  /\ host.place = 1
  /\ gap' = TRUE
  /\ missing' = 0
  /\ UNCHANGED <<host, s_cmd_queue, s_queue_idx, calls, main>>

-----------------------------------------------------------------------------
(* The receive interrupt.                                                  *)

IdleItems == {i \in Items : s_cmd_queue[i].state = "hmCmdStIdle"}

(* hm_cmd_find_idle: the first idle slot, in a set; empty for NULL.        *)
hm_cmd_find_idle == {i \in IdleItems : \A j \in IdleItems : i <= j}

(* Mutant: the slot of the last byte is kept, whatever its state.          *)
Slot_kept == IF s_queue_idx = 0 THEN hm_cmd_find_idle ELSE {s_queue_idx}

(* The slot the next byte goes to, if there is one.                        *)
Slot ==
  IF s_queue_idx # 0 /\ s_cmd_queue[s_queue_idx].state = "hmCmdStFilling"
  THEN {s_queue_idx}
  ELSE hm_cmd_find_idle

(* Where the byte goes: after a gap, the start.                            *)
PlaceFor(item) == IF gap THEN 1 ELSE item.buf_idx + 1

(* What is in the slot beyond the byte count is dead: every place is       *)
(* written again before the slot is looked at.                             *)
Kept(item, place) == IF place = 1 THEN Blank ELSE item.cmd_buf

(* The marks are compared as values (:128): a mark never has the value of  *)
(* the other mark, a byte of payload may have that of either.              *)
Passes(byte, mark) == byte.place = mark \/ byte.place \in Payload

(* Mutant: one right mark is enough.                                       *)
MarksPass_one(buf) == \E mark \in {Mark1At, Mark2At} : Passes(buf[mark], mark)

MarksPass(buf) == \A mark \in {Mark1At, Mark2At} : Passes(buf[mark], mark)

MarksFail(buf) == \E mark \in {Mark1At, Mark2At} : buf[mark].place # mark

(* Mutant: the slot of a request with wrong marks is kept.                 *)
Rejected_kept(item) == [item EXCEPT !.state = "hmCmdStPushed"]

Rejected(item) == IdleItem

(* hm_cmd_uart_ck on a byte that finds no slot.                            *)
DropByte ==
  /\ Slot = {}
  /\ HostGoesOn
  /\ OneMissing
  /\ UNCHANGED <<s_cmd_queue, s_queue_idx, gap, calls, main>>

(* hm_cmd_uart_ck on a byte that is stored: a full slot is checked, and    *)
(* queued or emptied.                                                      *)
StoreByte(i) ==
  /\ i \in Slot
  /\ main.pc = "clear" => main.late < Window
  /\ LET place == PlaceFor(s_cmd_queue[i])
         item == [state |-> "hmCmdStFilling", buf_idx |-> place,
                  cmd_buf |-> [Kept(s_cmd_queue[i], place) EXCEPT ![place] = host]]
     IN \/ /\ place < FrameLen
           /\ s_cmd_queue' = [s_cmd_queue EXCEPT ![i] = item]
           /\ calls' = calls
        \/ /\ place = FrameLen
           /\ MarksPass(item.cmd_buf)
           /\ s_cmd_queue' =
                [s_cmd_queue EXCEPT ![i] = [item EXCEPT !.state = "hmCmdStPushed"]]
           /\ calls' = Append(calls, [item |-> i, bytes |-> item.cmd_buf])
        \/ /\ place = FrameLen
           /\ MarksFail(item.cmd_buf)
           /\ s_cmd_queue' = [s_cmd_queue EXCEPT ![i] = Rejected(item)]
           /\ calls' = calls
  /\ s_queue_idx' = i
  /\ gap' = FALSE
  /\ main' = [main EXCEPT !.late = IF main.pc = "clear" THEN @ + 1 ELSE @]
  /\ HostGoesOn
  /\ UNCHANGED missing

-----------------------------------------------------------------------------
(* The main loop: hm_cmd_msg_ck.                                           *)

(* hm_cmd_find_cmd_table: what stands in the place of ncmd is looked up;   *)
(* another byte there may be the number of a command or not.               *)
InTable(byte) ==
  IF byte.place = NcmdAt THEN {byte.req \notin Unknown} ELSE BOOLEAN

(* A call is taken from the queue.  Without a handler it ends there and    *)
(* the slot stays pushed.                                                  *)
TakeCall ==
  /\ main.pc = "loop"
  /\ calls # <<>>
  /\ calls' = Tail(calls)
  /\ LET i == Head(calls).item
     IN \E known \in InTable(s_cmd_queue[i].cmd_buf[NcmdAt]) :
          IF known
          THEN /\ s_cmd_queue' = [s_cmd_queue EXCEPT ![i].state = "hmCmdStCalling"]
               /\ main' = [pc |-> "send", call |-> Head(calls), late |-> 0]
          ELSE UNCHANGED <<s_cmd_queue, main>>
  /\ UNCHANGED <<host, s_queue_idx, gap, missing>>

(* Mutant: the slot is not given back after the answer.                    *)
SendCmd_only ==
  /\ main.pc = "send"
  /\ main' = IdleMain
  /\ UNCHANGED <<host, s_cmd_queue, s_queue_idx, gap, calls, missing>>

(* The handler has run; the slot is sent back.                             *)
SendCmd ==
  /\ main.pc = "send"
  /\ main' = [main EXCEPT !.pc = "init"]
  /\ UNCHANGED <<host, s_cmd_queue, s_queue_idx, gap, calls, missing>>

(* hm_cmd_queue_item_init: the slot is idle ...                            *)
InitItem ==
  /\ main.pc = "init"
  /\ s_cmd_queue' = [s_cmd_queue EXCEPT ![main.call.item] = IdleItem]
  /\ main' = [main EXCEPT !.pc = "clear"]
  /\ UNCHANGED <<host, s_queue_idx, gap, calls, missing>>

(* Mutant: the whole request is cleared.                                   *)
Cleared_all(buf) == Blank

(* hm_cmd_item_init: ncmd and the marks.                                   *)
Cleared(buf) ==
  [i \in Places |-> IF i \in {NcmdAt, Mark1At, Mark2At} THEN Zero ELSE buf[i]]

(* ... and only then cleared.                                              *)
ClearItem ==
  /\ main.pc = "clear"
  /\ s_cmd_queue' = [s_cmd_queue EXCEPT ![main.call.item].cmd_buf = Cleared(@)]
  /\ main' = IdleMain
  /\ UNCHANGED <<host, s_queue_idx, gap, calls, missing>>

-----------------------------------------------------------------------------
MainLoop == TakeCall \/ SendCmd \/ InitItem \/ ClearItem

Receive == DropByte \/ \E i \in Items : StoreByte(i)

Next == LoseByte \/ Silence \/ Receive \/ MainLoop

(* The main loop runs on whenever no interrupt does.                       *)
Spec == Init /\ [][Next]_vars /\ WF_vars(MainLoop)

-----------------------------------------------------------------------------
(* Properties.                                                             *)

(* The first n bytes are of one request and in their places.               *)
OneRequest(bytes, n) ==
  \A i \in 1 .. n : bytes[i] = [bytes[1] EXCEPT !.place = i]

PayloadForMarks(bytes) == {bytes[Mark1At].place, bytes[Mark2At].place} \subseteq Payload

(* While fewer bytes are missing than a request has, the command and the   *)
(* input that are queued are those of one request the host sent: other     *)
(* bytes pass the test of the marks (:128) only if two bytes of payload    *)
(* with the very values of the marks come to stand in their places.        *)
OnlyWholeRequests ==
  [][\A k \in DOMAIN calls' \ DOMAIN calls :
       missing < FrameLen => \/ OneRequest(calls'[k].bytes, NcmdAt)
                             \/ PayloadForMarks(calls'[k].bytes)]_vars

(* After a silence, or from the start, as long as nothing is missing, the  *)
(* last byte of a request queues exactly that request: whatever was left   *)
(* in the slots by broken requests, and whatever the main loop is doing.   *)
WholeRequestsArrive ==
  [][/\ host.place = FrameLen /\ host'.place = 1
     /\ missing' = 0
     => /\ calls' # <<>>
        /\ \A i \in Places : calls'[Len(calls')].bytes[i] =
             [req |-> host.req, place |-> i]]_vars

(* A slot that waits in the queue or is being executed and answered still  *)
(* holds the bytes it was queued with.                                     *)
ServedIntact ==
  /\ \A k \in DOMAIN calls :
       s_cmd_queue[calls[k].item].cmd_buf = calls[k].bytes
  /\ main.pc \in {"send", "init"} =>
       s_cmd_queue[main.call.item].cmd_buf = main.call.bytes

(* Slots leak in one way only, an unknown command: every slot that is not  *)
(* idle is the one being filled, waits once in the queue, is being served, *)
(* or holds a command that has no handler.                                 *)
SlotsAccounted ==
  \A i \in Items :
    LET item == s_cmd_queue[i]
        waits == Cardinality({k \in DOMAIN calls : calls[k].item = i})
    IN CASE item.state = "hmCmdStIdle" -> waits = 0 /\ item.buf_idx = 0
         [] item.state = "hmCmdStFilling" -> waits = 0 /\ s_queue_idx = i
         [] item.state = "hmCmdStPushed" ->
              \/ waits = 1
              \/ waits = 0 /\ FALSE \in InTable(item.cmd_buf[NcmdAt])
         [] item.state = "hmCmdStCalling" -> waits = 0 /\ main.call.item = i

(* A queued request with a known command is answered and its slot freed.   *)
EveryRequestAnswered ==
  \A i \in Items :
    (/\ s_cmd_queue[i].state = "hmCmdStPushed"
     /\ InTable(s_cmd_queue[i].cmd_buf[NcmdAt]) = {TRUE})
      ~> s_cmd_queue[i].state = "hmCmdStIdle"

-----------------------------------------------------------------------------
(* The inductive invariant.                                                *)

(* A slot that waits is pushed, waits once, and holds what it was queued   *)
(* with; so does the slot that is being served.                            *)
InvCalls ==
  /\ \A k \in DOMAIN calls :
       /\ s_cmd_queue[calls[k].item].state = "hmCmdStPushed"
       /\ s_cmd_queue[calls[k].item].cmd_buf = calls[k].bytes
       /\ \A l \in DOMAIN calls \ {k} : calls[l].item # calls[k].item
  /\ main.pc \in {"send", "init"} =>
       /\ main.call.item \in Items
       /\ s_cmd_queue[main.call.item].state = "hmCmdStCalling"
       /\ s_cmd_queue[main.call.item].cmd_buf = main.call.bytes

(* What the state of a slot says.                                          *)
InvItem(i) ==
  LET item == s_cmd_queue[i] IN
  /\ item.state = "hmCmdStIdle" => item.buf_idx = 0
  /\ item.state = "hmCmdStFilling" =>
       s_queue_idx = i /\ item.buf_idx \in 1 .. FrameLen - 1
  /\ item.state = "hmCmdStPushed" =>
       \/ \E k \in DOMAIN calls : calls[k].item = i
       \/ FALSE \in InTable(item.cmd_buf[NcmdAt])
  /\ item.state = "hmCmdStCalling" =>
       main.pc \in {"send", "init"} /\ main.call.item = i

(* The slot given back but not cleared has as many bytes as came late.     *)
InvLate ==
  /\ main.pc # "clear" => main.late = 0
  /\ main.pc = "clear" =>
       /\ main.call.item \in Items
       /\ s_cmd_queue[main.call.item].state \in {"hmCmdStIdle", "hmCmdStFilling"}
       /\ s_cmd_queue[main.call.item].buf_idx <= main.late

IsFilling ==
  s_queue_idx # 0 /\ s_cmd_queue[s_queue_idx].state = "hmCmdStFilling"

(* Bytes of the request being received, as the receiver counts them.       *)
Pos == IF IsFilling /\ ~gap THEN s_cmd_queue[s_queue_idx].buf_idx ELSE 0

(* The host is ahead of the receiver by the bytes missing.                 *)
HostAhead == host.place - 1 \in {Pos + missing, Pos + missing - FrameLen}

(* With none missing the slot has the start of the host's request; else a  *)
(* byte that is in its place came before the first one missing, with its   *)
(* request's bytes before it.                                              *)
InPlace(buf) ==
  \A j \in 1 .. Pos :
    /\ missing = 0 => buf[j] = [req |-> host.req, place |-> j]
    /\ buf[j].place = j =>
         \A i \in 1 .. j : buf[i] = [req |-> buf[j].req, place |-> i]

InvSync ==
  missing < FrameLen =>
    /\ HostAhead
    /\ IsFilling /\ ~gap => InPlace(s_cmd_queue[s_queue_idx].cmd_buf)

IndInv ==
  /\ TypeOK
  /\ InvCalls
  /\ \A i \in Items : InvItem(i)
  /\ InvLate
  /\ InvSync
=============================================================================
