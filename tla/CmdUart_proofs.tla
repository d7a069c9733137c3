--------------------------- MODULE CmdUart_proofs ---------------------------
(* The UART command interface, for any number of slots, any length of      *)
(* request and any requests: what is served is what was queued, slots are  *)
(* accounted for, only whole requests are queued, and whole requests are.  *)
EXTENDS CmdUart, SequenceTheorems, FiniteSetTheorems, TLAPS

-----------------------------------------------------------------------------
(* Layout and types.                                                       *)

Call == [item: Items, bytes: [Places -> Byte]]
Item == [state: ItemState, buf_idx: Places \cup {0}, cmd_buf: [Places -> Byte]]

LEMMA Layout ==
  /\ FrameLen \in Nat /\ FrameLen >= 5 /\ Places = 1 .. FrameLen
  /\ NcmdAt \in Places /\ Mark1At \in Places /\ Mark2At \in Places
  /\ Mark1At < Mark2At /\ NcmdAt < Mark1At /\ Mark2At = FrameLen - 1
  /\ NcmdAt = HM_CMD_MAX_INPUT_SIZE + 1 /\ NcmdAt \in Nat
BY UartAssumption DEF FrameLen, Places, NcmdAt, Mark1At, Mark2At

LEMMA Blanks ==
  /\ Zero \in Byte /\ Blank \in [Places -> Byte] /\ IdleItem \in Item
  /\ NoCall \in [item: Items \cup {0}, bytes: [Places -> Byte]]
<1>1. Zero \in Byte
  BY DEF Zero, Byte
<1>2. Blank \in [Places -> Byte]
  BY <1>1 DEF Blank
<1> QED BY <1>1, <1>2 DEF IdleItem, Item, ItemState, NoCall

LEMMA InitTypes == Init => TypeOK
<1> SUFFICES ASSUME Init PROVE TypeOK
  OBVIOUS
<1>1. host \in [req: Requests, place: Places]
  BY Layout DEF Init
<1>2. s_cmd_queue \in [Items -> Item]
  BY Blanks DEF Init
<1>3. main \in [pc: {"loop", "send", "init", "clear"}, late: 0 .. Window,
                call: [item: Items \cup {0}, bytes: [Places -> Byte]]]
  BY Blanks, UartAssumption DEF Init, IdleMain
<1>4. missing \in 0 .. FrameLen
  BY Layout DEF Init
<1>5. calls \in Seq(Call)
  BY EmptySeq DEF Init
<1> QED BY <1>1, <1>2, <1>3, <1>4, <1>5 DEF Init, TypeOK, Item, Call

LEMMA Typed ==
  ASSUME TypeOK
  PROVE  /\ host \in [req: Requests, place: Places] /\ host \in Byte
         /\ host.place \in Places /\ host.req \in Requests
         /\ s_cmd_queue \in [Items -> Item]
         /\ \A i \in Items : /\ s_cmd_queue[i] \in Item
                             /\ s_cmd_queue[i].cmd_buf \in [Places -> Byte]
                             /\ s_cmd_queue[i].buf_idx \in Places \cup {0}
                             /\ s_cmd_queue[i].state \in ItemState
         /\ calls \in Seq(Call) /\ DOMAIN calls = 1 .. Len(calls) /\ Len(calls) \in Nat
         /\ \A k \in DOMAIN calls : calls[k] \in Call /\ calls[k].item \in Items
         /\ s_queue_idx \in Items \cup {0} /\ 0 \notin Items
         /\ missing \in 0 .. FrameLen /\ main.late \in 0 .. Window
<1>1. host \in Byte
  BY DEF TypeOK, Byte
<1>2. calls \in Seq(Call)
  BY DEF TypeOK, Call
<1>3. DOMAIN calls = 1 .. Len(calls) /\ Len(calls) \in Nat
  BY <1>2, LenProperties
<1>4. \A k \in DOMAIN calls : calls[k] \in Call
  BY <1>2, <1>3, ElementOfSeq
<1>5. 0 \notin Items
  BY UartAssumption DEF Items
<1> QED BY <1>1, <1>2, <1>3, <1>4, <1>5 DEF TypeOK, Item, Call

-----------------------------------------------------------------------------
(* What each step does.                                                    *)

HostType == [req: Requests, place: Places]

LEMMA HostDoes ==
  ASSUME TypeOK, HostGoesOn
  PROVE  /\ host' \in HostType
         /\ \/ host.place < FrameLen /\ host'.place = host.place + 1 /\ host'.req = host.req
            \/ host.place = FrameLen /\ host'.place = 1
<1>1. CASE host.place < FrameLen
  <2>1. host.place + 1 \in Places
    BY <1>1, Typed, Layout
  <2> QED BY <1>1, <2>1 DEF HostGoesOn, TypeOK, HostType
<1>2. CASE ~(host.place < FrameLen)
  <2>1. host.place = FrameLen /\ 1 \in Places
    BY <1>2, Typed, Layout
  <2>2. PICK q \in Requests \ {host.req} : host' = [req |-> q, place |-> 1]
    BY <1>2 DEF HostGoesOn
  <2> QED BY <2>1, <2>2 DEF HostType
<1> QED BY <1>1, <1>2

LEMMA MissingDoes ==
  ASSUME TypeOK, OneMissing
  PROVE  /\ missing' \in 0 .. FrameLen /\ missing' # 0
         /\ missing' < FrameLen => missing < FrameLen /\ missing' = missing + 1
BY Typed, Layout DEF OneMissing

(* The slot of the next byte: the one being filled or an idle one, and in  *)
(* either case the byte goes after those received.                         *)
LEMMA SlotIs ==
  ASSUME TypeOK, \A i \in Items : InvItem(i), NEW i \in Items, i \in Slot
  PROVE  /\ \/ IsFilling /\ i = s_queue_idx
            \/ ~IsFilling /\ s_cmd_queue[i].state = "hmCmdStIdle"
         /\ PlaceFor(s_cmd_queue[i]) = Pos + 1
         /\ Pos \in 0 .. FrameLen - 1
<1>1. CASE IsFilling
  <2>1. i = s_queue_idx
    BY <1>1 DEF Slot, IsFilling
  <2>2. s_cmd_queue[i].buf_idx \in 1 .. FrameLen - 1
    BY <1>1, <2>1 DEF InvItem, IsFilling
  <2> QED BY <1>1, <2>1, <2>2, Layout DEF Pos, PlaceFor
<1>2. CASE ~IsFilling
  <2>1. s_cmd_queue[i].state = "hmCmdStIdle"
    BY <1>2 DEF Slot, IsFilling, hm_cmd_find_idle, IdleItems
  <2>2. s_cmd_queue[i].buf_idx = 0
    BY <2>1 DEF InvItem
  <2> QED BY <1>2, <2>1, <2>2, Layout DEF Pos, PlaceFor
<1> QED BY <1>1, <1>2

(* The bytes a slot has once the next byte is stored.                      *)
Stored(i) ==
  [Kept(s_cmd_queue[i], PlaceFor(s_cmd_queue[i])) EXCEPT
     ![PlaceFor(s_cmd_queue[i])] = host]

LEMMA StoredIs ==
  ASSUME TypeOK, \A i \in Items : InvItem(i), NEW i \in Items, i \in Slot
  PROVE  /\ Stored(i) \in [Places -> Byte] /\ Stored(i)[Pos + 1] = host
         /\ \A j \in 1 .. Pos : j \in Places /\ Stored(i)[j] = s_cmd_queue[i].cmd_buf[j]
         /\ Pos + 1 \in Places /\ Pos \in 0 .. FrameLen - 1
<1>1. PlaceFor(s_cmd_queue[i]) = Pos + 1 /\ Pos \in 0 .. FrameLen - 1
  BY SlotIs
<1>2. Pos + 1 \in Places
  BY <1>1, Layout
<1> DEFINE K == Kept(s_cmd_queue[i], Pos + 1)
<1>3. K \in [Places -> Byte]
  BY Typed, Blanks DEF Kept
<1>4. \A j \in 1 .. Pos : j \in Places /\ j # Pos + 1 /\ K[j] = s_cmd_queue[i].cmd_buf[j]
  BY <1>1, Layout DEF Kept
<1> HIDE DEF K
<1>5. Stored(i) = [K EXCEPT ![Pos + 1] = host]
  BY <1>1 DEF Stored, K
<1> QED BY <1>1, <1>2, <1>3, <1>4, <1>5, Typed

LEMMA StoreDoes ==
  ASSUME TypeOK, \A i \in Items : InvItem(i), NEW i \in Items, StoreByte(i)
  PROVE  /\ i \in Slot /\ HostGoesOn /\ s_queue_idx' = i /\ gap' = FALSE
         /\ missing' = missing
         /\ main'.pc = main.pc /\ main'.call = main.call
         /\ main'.late = (IF main.pc = "clear" THEN main.late + 1 ELSE main.late)
         /\ main.pc = "clear" => main.late < Window
         /\ main' \in [pc: {"loop", "send", "init", "clear"}, late: 0 .. Window,
                       call: [item: Items \cup {0}, bytes: [Places -> Byte]]]
         /\ s_cmd_queue' \in [Items -> Item]
         /\ \A x \in Items \ {i} : s_cmd_queue'[x] = s_cmd_queue[x]
         /\ \/ /\ Pos + 1 < FrameLen /\ calls' = calls
               /\ s_cmd_queue'[i] = [state |-> "hmCmdStFilling", buf_idx |-> Pos + 1,
                                     cmd_buf |-> Stored(i)]
            \/ /\ Pos + 1 = FrameLen /\ MarksPass(Stored(i))
               /\ calls' = Append(calls, [item |-> i, bytes |-> Stored(i)])
               /\ s_cmd_queue'[i] = [state |-> "hmCmdStPushed", buf_idx |-> Pos + 1,
                                     cmd_buf |-> Stored(i)]
            \/ /\ Pos + 1 = FrameLen /\ MarksFail(Stored(i))
               /\ calls' = calls
               /\ s_cmd_queue'[i] = IdleItem
<1>1. /\ i \in Slot /\ HostGoesOn /\ s_queue_idx' = i /\ gap' = FALSE
      /\ missing' = missing /\ (main.pc = "clear" => main.late < Window)
  BY DEF StoreByte
<1>2. /\ main'.pc = main.pc /\ main'.call = main.call
      /\ main'.late = (IF main.pc = "clear" THEN main.late + 1 ELSE main.late)
      /\ main' \in [pc: {"loop", "send", "init", "clear"}, late: 0 .. Window,
                    call: [item: Items \cup {0}, bytes: [Places -> Byte]]]
  <2> DEFINE l == IF main.pc = "clear" THEN main.late + 1 ELSE main.late
  <2>1. main' = [main EXCEPT !.late = l]
    BY DEF StoreByte
  <2>2. l \in 0 .. Window
    BY <1>1, Typed, UartAssumption
  <2> HIDE DEF l
  <2>3. /\ main'.pc = main.pc /\ main'.call = main.call /\ main'.late = l
        /\ main' \in [pc: {"loop", "send", "init", "clear"}, late: 0 .. Window,
                      call: [item: Items \cup {0}, bytes: [Places -> Byte]]]
    BY <2>1, <2>2 DEF TypeOK
  <2> QED BY <2>3 DEF l
<1>3. /\ PlaceFor(s_cmd_queue[i]) = Pos + 1 /\ Stored(i) \in [Places -> Byte]
      /\ Pos + 1 \in Places /\ Pos \in 0 .. FrameLen - 1
  BY <1>1, SlotIs, StoredIs
<1>4. PICK b \in [Places -> Byte] : b = Stored(i)
  BY <1>3
<1>5. PICK n \in Places : n = Pos + 1
  BY <1>3
<1>6. b = [Kept(s_cmd_queue[i], n) EXCEPT ![n] = host]
  BY <1>3, <1>4, <1>5 DEF Stored
<1>7. /\ Pos + 1 = n /\ Stored(i) = b /\ PlaceFor(s_cmd_queue[i]) = n
  BY <1>3, <1>4, <1>5
<1> DEFINE item == [state |-> "hmCmdStFilling", buf_idx |-> n, cmd_buf |-> b]
           pushed == [state |-> "hmCmdStPushed", buf_idx |-> n, cmd_buf |-> b]
<1>8. /\ [item EXCEPT !.state = "hmCmdStPushed"] = pushed
      /\ item.cmd_buf = b
      /\ item \in Item /\ pushed \in Item /\ IdleItem \in Item
  BY Blanks DEF Item, ItemState
<1> HIDE DEF item, pushed
<1>9. \/ /\ n < FrameLen
         /\ s_cmd_queue' = [s_cmd_queue EXCEPT ![i] = item]
         /\ calls' = calls
      \/ /\ n = FrameLen /\ MarksPass(b)
         /\ s_cmd_queue' = [s_cmd_queue EXCEPT ![i] = pushed]
         /\ calls' = Append(calls, [item |-> i, bytes |-> b])
      \/ /\ n = FrameLen /\ MarksFail(b)
         /\ s_cmd_queue' = [s_cmd_queue EXCEPT ![i] = IdleItem]
         /\ calls' = calls
  <2>1. item = [state |-> "hmCmdStFilling", buf_idx |-> n,
                cmd_buf |-> [Kept(s_cmd_queue[i], n) EXCEPT ![n] = host]]
    BY <1>6 DEF item
  <2> QED BY <1>7, <1>8, <2>1 DEF StoreByte, Rejected
<1>10. ASSUME NEW v \in Item, s_cmd_queue' = [s_cmd_queue EXCEPT ![i] = v]
       PROVE  /\ s_cmd_queue' \in [Items -> Item]
              /\ \A x \in Items \ {i} : s_cmd_queue'[x] = s_cmd_queue[x]
              /\ s_cmd_queue'[i] = v
  BY <1>10, Typed
<1>11. /\ s_cmd_queue' \in [Items -> Item]
       /\ \A x \in Items \ {i} : s_cmd_queue'[x] = s_cmd_queue[x]
  BY <1>8, <1>9, <1>10
<1>12. \/ n < FrameLen /\ calls' = calls /\ s_cmd_queue'[i] = item
       \/ /\ n = FrameLen /\ MarksPass(b) /\ s_cmd_queue'[i] = pushed
          /\ calls' = Append(calls, [item |-> i, bytes |-> b])
       \/ n = FrameLen /\ MarksFail(b) /\ calls' = calls /\ s_cmd_queue'[i] = IdleItem
  BY <1>8, <1>9, <1>10
<1> QED BY <1>1, <1>2, <1>7, <1>11, <1>12 DEF item, pushed

(* Bytes the receiver has counted: fewer than a request has.               *)
LEMMA PosIs ==
  ASSUME TypeOK, \A i \in Items : InvItem(i)
  PROVE  /\ Pos \in 0 .. FrameLen - 1
         /\ IsFilling => s_queue_idx \in Items
<1>1. IsFilling => s_queue_idx \in Items
  BY Typed DEF IsFilling
<1>2. IsFilling => s_cmd_queue[s_queue_idx].buf_idx \in 1 .. FrameLen - 1
  BY <1>1 DEF IsFilling, InvItem
<1> QED BY <1>1, <1>2, Layout DEF Pos

MainType ==
  [pc: {"loop", "send", "init", "clear"}, late: 0 .. Window,
   call: [item: Items \cup {0}, bytes: [Places -> Byte]]]

LEMMA TypesFrom ==
  ASSUME host' \in HostType, s_cmd_queue' \in [Items -> Item],
         s_queue_idx' \in Items \cup {0}, gap' \in BOOLEAN, calls' \in Seq(Call),
         main' \in MainType, missing' \in 0 .. FrameLen
  PROVE  TypeOK'
BY DEF TypeOK, HostType, Item, Call, MainType

-----------------------------------------------------------------------------
(* A byte that does not arrive.                                            *)

LEMMA LostKeeps ==
  ASSUME IndInv, HostGoesOn, OneMissing,
         UNCHANGED <<s_cmd_queue, s_queue_idx, gap, calls, main>>
  PROVE  IndInv'
<1> USE DEF IndInv
<1>1. TypeOK'
  <2>1. host' \in HostType /\ missing' \in 0 .. FrameLen
    BY HostDoes, MissingDoes
  <2> QED BY <2>1 DEF TypeOK, HostType
<1>2. InvCalls' /\ InvLate'
  BY DEF InvCalls, InvLate
<1>3. \A i \in Items : InvItem(i)'
  BY DEF InvItem, InTable
<1>4. InvSync'
  <2> SUFFICES ASSUME missing' < FrameLen 
               PROVE  /\ HostAhead'
                      /\ (IsFilling /\ ~gap => InPlace(s_cmd_queue[s_queue_idx].cmd_buf))'
    BY DEF InvSync
  <2>1. missing < FrameLen /\ missing' = missing + 1 /\ missing' # 0
    BY MissingDoes
  <2>2. Pos' = Pos /\ IsFilling' = IsFilling
    BY DEF Pos, IsFilling
  <2>3. PICK p \in 0 .. FrameLen - 1 : p = Pos
    BY PosIs
  <2>4. host.place - 1 \in {p + missing, p + missing - FrameLen}
    BY <2>1, <2>3 DEF InvSync, HostAhead
  <2>5. host'.place - 1 \in {p + missing', p + missing' - FrameLen}
    <3>1. \/ host.place < FrameLen /\ host'.place = host.place + 1
          \/ host.place = FrameLen /\ host'.place = 1
      BY HostDoes
    <3>2. host.place \in 1 .. FrameLen /\ missing \in 0 .. FrameLen
      BY Typed, Layout
    <3> QED BY <2>1, <2>4, <3>1, <3>2, Layout, SMTT(60)
  <2>6. IsFilling /\ ~gap => InPlace(s_cmd_queue[s_queue_idx].cmd_buf)
    BY <2>1 DEF InvSync
  <2> QED BY <2>1, <2>2, <2>3, <2>5, <2>6 DEF HostAhead, InPlace
<1> QED BY <1>1, <1>2, <1>3, <1>4

(* A silence: the next byte starts a request, for host and receiver.       *)
LEMMA SilenceKeeps ==
  ASSUME IndInv, Silence
  PROVE  IndInv'
<1> USE DEF IndInv, Silence
<1>1. TypeOK'
  BY Layout DEF TypeOK
<1>2. InvCalls' /\ InvLate'
  BY DEF InvCalls, InvLate
<1>3. \A i \in Items : InvItem(i)'
  BY DEF InvItem, InTable
<1>4. InvSync'
  <2>1. Pos' = 0
    BY DEF Pos
  <2> QED BY <2>1, Layout DEF InvSync, HostAhead
<1> QED BY <1>1, <1>2, <1>3, <1>4

-----------------------------------------------------------------------------
(* The main loop leaves the bytes of the slot being filled alone.          *)

SameBytes(x) ==
  \/ /\ s_cmd_queue[x].state # "hmCmdStFilling"
     /\ s_cmd_queue'[x].state # "hmCmdStFilling"
  \/ /\ s_cmd_queue'[x].state = s_cmd_queue[x].state
     /\ s_cmd_queue'[x].buf_idx = s_cmd_queue[x].buf_idx
     /\ \A j \in 1 .. s_cmd_queue[x].buf_idx :
          s_cmd_queue'[x].cmd_buf[j] = s_cmd_queue[x].cmd_buf[j]

LEMMA SyncFrom ==
  ASSUME IndInv, UNCHANGED <<host, s_queue_idx, gap, missing>>,
         \A x \in Items : SameBytes(x)
  PROVE  InvSync'
<1> USE DEF IndInv
<1>1. CASE IsFilling
  <2>1. s_queue_idx \in Items
    BY <1>1, PosIs
  <2>2. PICK x \in Items : x = s_queue_idx
    BY <2>1
  <2>3. /\ s_cmd_queue'[x].state = s_cmd_queue[x].state
        /\ s_cmd_queue'[x].buf_idx = s_cmd_queue[x].buf_idx
        /\ \A j \in 1 .. s_cmd_queue[x].buf_idx :
             s_cmd_queue'[x].cmd_buf[j] = s_cmd_queue[x].cmd_buf[j]
    BY <1>1, <2>2 DEF IsFilling, SameBytes
  <2>4. IsFilling' /\ Pos' = Pos
    BY <1>1, <2>2, <2>3 DEF IsFilling, Pos
  <2>5. ~gap => \A j \in 1 .. Pos : s_cmd_queue'[x].cmd_buf[j] = s_cmd_queue[x].cmd_buf[j]
    BY <1>1, <2>2, <2>3 DEF Pos
  <2>6. HostAhead => HostAhead'
    BY <2>4 DEF HostAhead
  <2>7. ASSUME ~gap, InPlace(s_cmd_queue[x].cmd_buf)
        PROVE  InPlace(s_cmd_queue[s_queue_idx].cmd_buf)'
    <3>1. PICK p \in 0 .. FrameLen - 1 : p = Pos /\ p = Pos'
      BY <2>4, PosIs
    <3>2. \A j \in 1 .. p : \A i \in 1 .. j : i \in 1 .. p
      BY <3>1, Layout
    <3>3. \A j \in 1 .. p : s_cmd_queue'[x].cmd_buf[j] = s_cmd_queue[x].cmd_buf[j]
      BY <2>5, <2>7, <3>1
    <3> QED BY <2>2, <2>7, <3>1, <3>2, <3>3 DEF InPlace
  <2> QED BY <1>1, <2>2, <2>6, <2>7 DEF InvSync
<1>2. CASE ~IsFilling
  <2>1. ~IsFilling'
    BY <1>2, Typed DEF IsFilling, SameBytes
  <2>2. Pos' = Pos
    BY <1>2, <2>1 DEF Pos
  <2> QED BY <2>1, <2>2 DEF InvSync, HostAhead
<1> QED BY <1>1, <1>2

LEMMA SendKeeps ==
  ASSUME IndInv, SendCmd
  PROVE  IndInv'
<1> USE DEF IndInv, SendCmd
<1>1. main'.pc = "init" /\ main'.call = main.call /\ main'.late = main.late
  BY DEF TypeOK
<1>2. TypeOK'
  BY DEF TypeOK
<1>3. InvCalls' /\ InvLate'
  BY <1>1 DEF InvCalls, InvLate
<1>4. \A i \in Items : InvItem(i)'
  BY <1>1 DEF InvItem, InTable
<1>5. \A x \in Items : SameBytes(x)
  BY DEF SameBytes
<1> QED BY <1>2, <1>3, <1>4, <1>5, SyncFrom

LEMMA InitKeeps ==
  ASSUME IndInv, InitItem
  PROVE  IndInv'
<1> USE DEF IndInv
<1>1. /\ main.pc = "init"
      /\ main'.pc = "clear" /\ main'.call = main.call /\ main'.late = main.late
      /\ main' \in MainType
      /\ UNCHANGED <<host, s_queue_idx, gap, calls, missing>>
  BY DEF InitItem, TypeOK, MainType
<1>2. /\ main.call.item \in Items
      /\ s_cmd_queue[main.call.item].state = "hmCmdStCalling"
  BY <1>1 DEF InvCalls
<1>3. PICK i \in Items : i = main.call.item
  BY <1>2
<1>4. s_cmd_queue' = [s_cmd_queue EXCEPT ![i] = IdleItem]
  BY <1>3 DEF InitItem
<1>5. /\ s_cmd_queue' \in [Items -> Item] /\ s_cmd_queue'[i] = IdleItem
      /\ \A x \in Items \ {i} : s_cmd_queue'[x] = s_cmd_queue[x]
  BY <1>4, Typed, Blanks
<1>6. s_cmd_queue'[i].state = "hmCmdStIdle" /\ s_cmd_queue'[i].buf_idx = 0
  BY <1>5 DEF IdleItem
<1>7. TypeOK'
  BY <1>1, <1>5 DEF TypeOK, Item, MainType
<1>8. InvCalls'
  <2>1. \A k \in DOMAIN calls : calls[k].item # i
    BY <1>2, <1>3 DEF InvCalls
  <2> QED BY <1>1, <1>5, <2>1, Typed DEF InvCalls
<1>9. \A x \in Items : InvItem(x)'
  <2> TAKE x \in Items
  <2>1. CASE x = i
    BY <1>6, <2>1 DEF InvItem
  <2>2. CASE x # i
    <3>1. s_cmd_queue'[x] = s_cmd_queue[x] /\ s_cmd_queue[x].state # "hmCmdStCalling"
      BY <1>3, <1>5, <2>2 DEF InvItem
    <3> QED BY <1>1, <3>1 DEF InvItem, InTable
  <2> QED BY <2>1, <2>2
<1>10. InvLate'
  <2>1. main.late = 0
    BY <1>1 DEF InvLate
  <2> QED BY <1>1, <1>3, <1>6, <2>1 DEF InvLate
<1>11. \A x \in Items : SameBytes(x)
  BY <1>2, <1>3, <1>5, <1>6 DEF SameBytes
<1> QED BY <1>1, <1>7, <1>8, <1>9, <1>10, <1>11, SyncFrom

(* The slot is cleared beyond the bytes that came late.                    *)
LEMMA ClearKeeps ==
  ASSUME Window <= HM_CMD_MAX_INPUT_SIZE, IndInv, ClearItem
  PROVE  IndInv'
<1> USE DEF IndInv
<1>1. /\ main.pc = "clear" /\ main' = IdleMain
      /\ UNCHANGED <<host, s_queue_idx, gap, calls, missing>>
  BY DEF ClearItem
<1>2. main'.pc = "loop" /\ main'.late = 0 /\ main' \in MainType
  BY <1>1, Blanks, UartAssumption DEF IdleMain, MainType
<1>3. /\ main.call.item \in Items
      /\ s_cmd_queue[main.call.item].state \in {"hmCmdStIdle", "hmCmdStFilling"}
      /\ s_cmd_queue[main.call.item].buf_idx <= main.late
  BY <1>1 DEF InvLate
<1>4. PICK i \in Items : i = main.call.item
  BY <1>3
<1>5. s_cmd_queue[i] \in Item
  BY Typed
<1>6. PICK b \in [Places -> Byte] : b = Cleared(s_cmd_queue[i].cmd_buf)
  BY <1>5, Blanks DEF Cleared, Item
<1>7. s_cmd_queue' = [s_cmd_queue EXCEPT ![i] = [s_cmd_queue[i] EXCEPT !.cmd_buf = b]]
  BY <1>4, <1>6 DEF ClearItem
<1>8. PICK y \in Item : /\ y = [s_cmd_queue[i] EXCEPT !.cmd_buf = b]
                        /\ y.state = s_cmd_queue[i].state
                        /\ y.buf_idx = s_cmd_queue[i].buf_idx
                        /\ y.cmd_buf = b
  <2> DEFINE z == [s_cmd_queue[i] EXCEPT !.cmd_buf = b]
  <2>1. /\ z \in Item /\ z.state = s_cmd_queue[i].state
        /\ z.buf_idx = s_cmd_queue[i].buf_idx /\ z.cmd_buf = b
    BY <1>5, <1>6 DEF Item
  <2> HIDE DEF z
  <2>2. z = [s_cmd_queue[i] EXCEPT !.cmd_buf = b]
    BY DEF z
  <2> QED BY <2>1, <2>2
<1>9. /\ s_cmd_queue' \in [Items -> Item] /\ s_cmd_queue'[i] = y
      /\ \A x \in Items \ {i} : s_cmd_queue'[x] = s_cmd_queue[x]
  BY <1>7, <1>8, Typed
<1>10. TypeOK'
  BY <1>1, <1>2, <1>9 DEF TypeOK, Item, MainType
<1>11. InvCalls'
  <2>1. \A k \in DOMAIN calls : calls[k].item # i
    BY <1>3, <1>4 DEF InvCalls
  <2> QED BY <1>1, <1>2, <1>9, <2>1, Typed DEF InvCalls
<1>12. \A x \in Items : InvItem(x)'
  <2> TAKE x \in Items
  <2>1. CASE x = i
    <3>1. /\ s_cmd_queue'[x].state = s_cmd_queue[x].state
          /\ s_cmd_queue'[x].buf_idx = s_cmd_queue[x].buf_idx
          /\ s_cmd_queue[x].state \in {"hmCmdStIdle", "hmCmdStFilling"}
      BY <1>3, <1>4, <1>8, <1>9, <2>1
    <3> QED BY <1>1, <3>1 DEF InvItem
  <2>2. CASE x # i
    <3>1. s_cmd_queue'[x] = s_cmd_queue[x] /\ s_cmd_queue[x].state # "hmCmdStCalling"
      BY <1>1, <1>9, <2>2 DEF InvItem
    <3> QED BY <1>1, <3>1 DEF InvItem, InTable
  <2> QED BY <2>1, <2>2
<1>13. InvLate'
  BY <1>2 DEF InvLate
<1>14. \A x \in Items : SameBytes(x)
  <2>1. \A j \in 1 .. s_cmd_queue[i].buf_idx : b[j] = s_cmd_queue[i].cmd_buf[j]
    <3>1. s_cmd_queue[i].buf_idx < NcmdAt /\ s_cmd_queue[i].buf_idx \in Places \cup {0}
      BY <1>3, <1>4, Typed, Layout, UartAssumption
    <3>2. \A j \in 1 .. s_cmd_queue[i].buf_idx :
            j \in Places /\ j \notin {NcmdAt, Mark1At, Mark2At}
      BY <3>1, Layout
    <3> QED BY <1>6, <3>2 DEF Cleared
  <2> TAKE x \in Items
  <2>2. CASE x = i
    <3>1. /\ s_cmd_queue'[x].state = s_cmd_queue[x].state
          /\ s_cmd_queue'[x].buf_idx = s_cmd_queue[x].buf_idx
          /\ s_cmd_queue'[x].cmd_buf = b
      BY <1>8, <1>9, <2>2
    <3> QED BY <2>1, <2>2, <3>1 DEF SameBytes
  <2>3. CASE x # i
    <3>1. s_cmd_queue'[x] = s_cmd_queue[x]
      BY <1>9, <2>3
    <3> QED BY <3>1 DEF SameBytes
  <2> QED BY <2>2, <2>3
<1> QED BY <1>1, <1>10, <1>11, <1>12, <1>13, <1>14, SyncFrom

(* The first call leaves the queue: its slot is being served, or stays     *)
(* pushed for want of a handler.                                           *)
LEMMA TakeKeeps ==
  ASSUME IndInv, TakeCall
  PROVE  IndInv'
<1> USE DEF IndInv
<1>1. /\ main.pc = "loop" /\ calls # <<>> /\ calls' = Tail(calls)
      /\ UNCHANGED <<host, s_queue_idx, gap, missing>>
  BY DEF TakeCall
<1>2. /\ calls \in Seq(Call) /\ DOMAIN calls = 1 .. Len(calls)
      /\ Len(calls) \in Nat /\ Len(calls) > 0
  BY <1>1, Typed, EmptySeq
<1>3. PICK c \in Call : c = calls[1] /\ c = Head(calls)
  BY <1>1, <1>2, Typed, HeadTailProperties
<1>4. /\ calls' \in Seq(Call) /\ Len(calls') = Len(calls) - 1
      /\ DOMAIN calls' = 1 .. Len(calls) - 1
      /\ \A k \in DOMAIN calls' : k + 1 \in DOMAIN calls /\ calls'[k] = calls[k + 1]
  <2>1. /\ calls' \in Seq(Call) /\ Len(calls') = Len(calls) - 1
        /\ \A k \in 1 .. Len(calls) - 1 : calls'[k] = calls[k + 1]
    BY <1>1, <1>2, HeadTailProperties
  <2>2. DOMAIN calls' = 1 .. Len(calls')
    BY <2>1, LenProperties
  <2> QED BY <1>2, <2>1, <2>2
<1>5. PICK i \in Items : i = c.item
  BY DEF Call
<1>6. /\ s_cmd_queue[i].state = "hmCmdStPushed" /\ s_cmd_queue[i].cmd_buf = c.bytes
      /\ \A k \in DOMAIN calls' : calls'[k].item # i
  <2>1. 1 \in DOMAIN calls
    BY <1>2
  <2>2. \A k \in DOMAIN calls' : k + 1 \in DOMAIN calls \ {1}
    BY <1>2, <1>4
  <2> QED BY <1>3, <1>4, <1>5, <2>1, <2>2 DEF InvCalls
<1>7. \A k \in DOMAIN calls \ {1} : k - 1 \in DOMAIN calls' /\ calls'[k - 1] = calls[k]
  <2> TAKE k \in DOMAIN calls \ {1}
  <2>1. k - 1 \in DOMAIN calls' /\ (k - 1) + 1 = k
    BY <1>2, <1>4
  <2> QED BY <1>4, <2>1
<1>8. /\ \A k \in DOMAIN calls' :
           /\ s_cmd_queue[calls'[k].item].state = "hmCmdStPushed"
           /\ s_cmd_queue[calls'[k].item].cmd_buf = calls'[k].bytes
           /\ calls'[k].item \in Items
      /\ \A k, l \in DOMAIN calls' : k # l => calls'[k].item # calls'[l].item
  <2>1. \A k, l \in DOMAIN calls' : k # l => k + 1 # l + 1
    BY <1>2, <1>4
  <2> QED BY <1>4, <2>1, Typed, SMTT(60) DEF InvCalls
<1>9. \A x \in Items \ {i} : (\E k \in DOMAIN calls : calls[k].item = x)
                               => \E k \in DOMAIN calls' : calls'[k].item = x
  BY <1>3, <1>5, <1>7
<1>10. PICK known \in InTable(s_cmd_queue[i].cmd_buf[NcmdAt]) :
         IF known
         THEN /\ s_cmd_queue' = [s_cmd_queue EXCEPT ![i].state = "hmCmdStCalling"]
              /\ main' = [pc |-> "send", call |-> c, late |-> 0]
         ELSE UNCHANGED <<s_cmd_queue, main>>
  BY <1>3, <1>5 DEF TakeCall
<1>11. main.late = 0
  BY <1>1 DEF InvLate
<1>12. CASE known
  <2>1. main' \in MainType /\ main'.pc = "send" /\ main'.call = c /\ main'.late = 0
    BY <1>10, <1>12, UartAssumption DEF MainType, Call
  <2>2. PICK y \in Item : /\ y = [s_cmd_queue[i] EXCEPT !.state = "hmCmdStCalling"]
                          /\ y.state = "hmCmdStCalling"
                          /\ y.buf_idx = s_cmd_queue[i].buf_idx
                          /\ y.cmd_buf = s_cmd_queue[i].cmd_buf
    <3> DEFINE z == [s_cmd_queue[i] EXCEPT !.state = "hmCmdStCalling"]
    <3>1. s_cmd_queue[i] \in Item
      BY Typed
    <3>2. /\ z \in Item /\ z.state = "hmCmdStCalling"
          /\ z.buf_idx = s_cmd_queue[i].buf_idx
          /\ z.cmd_buf = s_cmd_queue[i].cmd_buf
      BY <3>1 DEF Item, ItemState
    <3> HIDE DEF z
    <3>3. z = [s_cmd_queue[i] EXCEPT !.state = "hmCmdStCalling"]
      BY DEF z
    <3> QED BY <3>2, <3>3
  <2>3. s_cmd_queue' = [s_cmd_queue EXCEPT ![i] = y]
    BY <1>10, <1>12, <2>2
  <2>4. /\ s_cmd_queue' \in [Items -> Item] /\ s_cmd_queue'[i] = y
        /\ \A x \in Items \ {i} : s_cmd_queue'[x] = s_cmd_queue[x]
    BY <2>3, Typed
  <2>5. TypeOK'
    BY <1>1, <1>4, <2>1, <2>4 DEF TypeOK, Item, MainType, Call
  <2>6. InvCalls'
    <3>1. \A k \in DOMAIN calls' : /\ calls'[k].item # i
                                   /\ s_cmd_queue'[calls'[k].item] = s_cmd_queue[calls'[k].item]
      BY <1>6, <1>8, <2>4
    <3>2. /\ main'.call.item = i /\ s_cmd_queue'[i].state = "hmCmdStCalling"
          /\ s_cmd_queue'[i].cmd_buf = main'.call.bytes
      BY <1>5, <1>6, <2>1, <2>2, <2>4
    <3> QED BY <1>8, <3>1, <3>2 DEF InvCalls
  <2>7. \A x \in Items : InvItem(x)'
    <3> TAKE x \in Items
    <3>1. CASE x = i
      BY <1>5, <2>1, <2>2, <2>4, <3>1 DEF InvItem
    <3>2. CASE x # i
      <4>1. s_cmd_queue'[x] = s_cmd_queue[x] /\ s_cmd_queue[x].state # "hmCmdStCalling"
        BY <1>1, <2>4, <3>2 DEF InvItem
      <4> QED BY <1>1, <1>9, <3>2, <4>1 DEF InvItem, InTable
    <3> QED BY <3>1, <3>2
  <2>8. InvLate'
    BY <2>1 DEF InvLate
  <2>9. \A x \in Items : SameBytes(x)
    BY <1>6, <2>2, <2>4 DEF SameBytes
  <2> QED BY <1>1, <2>5, <2>6, <2>7, <2>8, <2>9, SyncFrom
<1>13. CASE ~known
  <2>1. s_cmd_queue' = s_cmd_queue /\ main' = main
    BY <1>10, <1>13
  <2>2. FALSE \in InTable(s_cmd_queue[i].cmd_buf[NcmdAt])
    BY <1>10, <1>13 DEF InTable
  <2>3. TypeOK'
    BY <1>1, <1>4, <2>1 DEF TypeOK, Call
  <2>4. InvCalls' /\ InvLate'
    BY <1>1, <1>8, <2>1 DEF InvCalls, InvLate
  <2>5. \A x \in Items : InvItem(x)'
    BY <1>1, <1>6, <1>9, <2>1, <2>2 DEF InvItem, InTable
  <2>6. \A x \in Items : SameBytes(x)
    BY <2>1 DEF SameBytes
  <2> QED BY <1>1, <2>3, <2>4, <2>5, <2>6, SyncFrom
<1> QED BY <1>12, <1>13

-----------------------------------------------------------------------------
(* A byte that is stored.                                                  *)

(* With the next byte, what InPlace says still holds: a byte that is in    *)
(* its place means that none was missing before it.                        *)
LEMMA StoredInPlace ==
  ASSUME IndInv, missing < FrameLen, NEW i \in Items, i \in Slot,
         NEW b \in [Places -> Byte], b = Stored(i),
         NEW p \in 0 .. FrameLen - 1, p = Pos
  PROVE  /\ missing = 0 => host.place = p + 1
         /\ \A j \in 1 .. p + 1 :
              /\ missing = 0 => b[j] = [req |-> host.req, place |-> j]
              /\ b[j].place = j =>
                   \A l \in 1 .. j : b[l] = [req |-> b[j].req, place |-> l]
<1> USE DEF IndInv
<1>1. b[p + 1] = host /\ \A j \in 1 .. p : b[j] = s_cmd_queue[i].cmd_buf[j]
  BY StoredIs
<1>2. host.place - 1 \in {p + missing, p + missing - FrameLen}
  BY DEF InvSync, HostAhead
<1>3. host.place \in 1 .. FrameLen /\ missing \in 0 .. FrameLen
  BY Typed, Layout
<1>4. missing = 0 => host.place = p + 1
  BY <1>2, <1>3, Layout
<1>5. host.place = p + 1 => missing = 0
  BY <1>2, <1>3, Layout
<1>6. host = [req |-> host.req, place |-> host.place]
  BY Typed
<1>7. \A j \in 1 .. p :
        /\ missing = 0 => b[j] = [req |-> host.req, place |-> j]
        /\ b[j].place = j => \A l \in 1 .. j : b[l] = [req |-> b[j].req, place |-> l]
  <2>1. CASE p = 0
    BY <2>1
  <2>2. CASE p # 0
    <3>1. IsFilling /\ ~gap
      BY <2>2 DEF Pos
    <3>2. i = s_queue_idx
      BY <3>1, SlotIs
    <3>3. InPlace(s_cmd_queue[i].cmd_buf)
      BY <3>1, <3>2 DEF InvSync
    <3>4. \A j \in 1 .. p : \A l \in 1 .. j : l \in 1 .. p
      OBVIOUS
    <3> QED BY <1>1, <3>3, <3>4 DEF InPlace
  <2> QED BY <2>1, <2>2
<1>8. \A j \in 1 .. p + 1 : j \in 1 .. p \/ j = p + 1
  OBVIOUS
<1>9. ASSUME missing = 0
      PROVE  \A l \in 1 .. p + 1 : b[l] = [req |-> host.req, place |-> l]
  BY <1>1, <1>4, <1>6, <1>7, <1>8, <1>9
<1>10. b[p + 1].place = p + 1 =>
         \A l \in 1 .. p + 1 : b[l] = [req |-> b[p + 1].req, place |-> l]
  BY <1>1, <1>5, <1>9
<1> QED BY <1>4, <1>7, <1>8, <1>9, <1>10

LEMMA StoreKeeps ==
  ASSUME Window <= HM_CMD_MAX_INPUT_SIZE, IndInv, NEW i \in Items, StoreByte(i)
  PROVE  IndInv'
<1> USE DEF IndInv
<1>1. PICK b \in [Places -> Byte] : b = Stored(i)
  BY StoreDoes, StoredIs
<1>2. PICK p \in 0 .. FrameLen - 1 : p = Pos
  BY PosIs
<1>3. /\ i \in Slot /\ HostGoesOn /\ s_queue_idx' = i /\ gap' = FALSE
      /\ missing' = missing
      /\ main'.pc = main.pc /\ main'.call = main.call
      /\ main'.late = (IF main.pc = "clear" THEN main.late + 1 ELSE main.late)
      /\ main.pc = "clear" => main.late < Window
      /\ main' \in MainType
      /\ s_cmd_queue' \in [Items -> Item]
      /\ \A x \in Items \ {i} : s_cmd_queue'[x] = s_cmd_queue[x]
  BY StoreDoes DEF MainType
<1>4. \/ /\ p + 1 < FrameLen /\ calls' = calls
         /\ s_cmd_queue'[i] = [state |-> "hmCmdStFilling", buf_idx |-> p + 1,
                               cmd_buf |-> b]
      \/ /\ p + 1 = FrameLen /\ MarksPass(b)
         /\ calls' = Append(calls, [item |-> i, bytes |-> b])
         /\ s_cmd_queue'[i] = [state |-> "hmCmdStPushed", buf_idx |-> p + 1,
                               cmd_buf |-> b]
      \/ /\ p + 1 = FrameLen /\ calls' = calls
         /\ s_cmd_queue'[i] = IdleItem
  BY <1>1, <1>2, StoreDoes
<1>5. /\ \/ IsFilling /\ i = s_queue_idx
         \/ ~IsFilling /\ s_cmd_queue[i].state = "hmCmdStIdle"
      /\ s_cmd_queue[i].state \in {"hmCmdStIdle", "hmCmdStFilling"}
      /\ \A x \in Items \ {i} : s_cmd_queue[x].state # "hmCmdStFilling"
  <2>1. \/ IsFilling /\ i = s_queue_idx
        \/ ~IsFilling /\ s_cmd_queue[i].state = "hmCmdStIdle"
    BY <1>3, SlotIs
  <2>2. \A x \in Items : s_cmd_queue[x].state = "hmCmdStFilling" => IsFilling /\ x = s_queue_idx
    BY Typed DEF InvItem, IsFilling
  <2> QED BY <2>1, <2>2 DEF IsFilling
<1>6. /\ calls' \in Seq(Call)
      /\ \A k \in DOMAIN calls : k \in DOMAIN calls' /\ calls'[k] = calls[k]
      /\ \A k \in DOMAIN calls' \ DOMAIN calls :
           /\ s_cmd_queue'[i].state = "hmCmdStPushed" /\ s_cmd_queue'[i].cmd_buf = b
           /\ k = Len(calls) + 1 /\ calls'[k] = [item |-> i, bytes |-> b]
      /\ s_cmd_queue'[i].state = "hmCmdStPushed" =>
           \E k \in DOMAIN calls' : calls'[k].item = i
  <2>1. CASE calls' = calls /\ s_cmd_queue'[i].state # "hmCmdStPushed"
    BY <2>1, Typed
  <2>2. CASE /\ calls' = Append(calls, [item |-> i, bytes |-> b])
             /\ s_cmd_queue'[i].state = "hmCmdStPushed" /\ s_cmd_queue'[i].cmd_buf = b
    <3>1. [item |-> i, bytes |-> b] \in Call
      BY DEF Call
    <3>2. /\ calls' \in Seq(Call) /\ Len(calls') = Len(calls) + 1
          /\ \A k \in 1 .. Len(calls) : calls'[k] = calls[k]
          /\ calls'[Len(calls) + 1] = [item |-> i, bytes |-> b]
      BY <2>2, <3>1, Typed, AppendProperties
    <3>3. DOMAIN calls' = 1 .. Len(calls) + 1
      BY <3>2, LenProperties
    <3>4. DOMAIN calls = 1 .. Len(calls) /\ Len(calls) \in Nat
      BY Typed
    <3>5. calls'[Len(calls) + 1].item = i /\ Len(calls) + 1 \in DOMAIN calls'
      BY <3>2, <3>3, <3>4
    <3> QED BY <2>2, <3>2, <3>3, <3>4, <3>5
  <2> QED BY <1>4, <2>1, <2>2 DEF IdleItem
<1>7. TypeOK'
  BY <1>3, <1>6, HostDoes DEF TypeOK, Item, Call, MainType, HostType
<1>8. InvCalls'
  <2>1. \A k \in DOMAIN calls : calls[k].item # i
    BY <1>5 DEF InvCalls
  <2>2. main.pc \in {"send", "init"} => main.call.item # i
    BY <1>5 DEF InvCalls
  <2>3. \A k \in DOMAIN calls' \ DOMAIN calls : calls'[k].item = i /\ calls'[k].bytes = b
    BY <1>6
  <2>4. \A k, l \in DOMAIN calls' \ DOMAIN calls : k = l
    BY <1>6
  <2>5. \A k \in DOMAIN calls :
          s_cmd_queue'[calls[k].item] = s_cmd_queue[calls[k].item]
    BY <1>3, <2>1, Typed
  <2>6. ASSUME NEW k \in DOMAIN calls'
        PROVE  /\ s_cmd_queue'[calls'[k].item].state = "hmCmdStPushed"
               /\ s_cmd_queue'[calls'[k].item].cmd_buf = calls'[k].bytes
               /\ \A l \in DOMAIN calls' \ {k} : calls'[l].item # calls'[k].item
    <3>1. CASE k \in DOMAIN calls
      BY <1>6, <2>1, <2>3, <2>5, <3>1 DEF InvCalls
    <3>2. CASE k \notin DOMAIN calls
      BY <1>6, <2>1, <2>3, <2>4, <3>2
    <3> QED BY <3>1, <3>2
  <2>7. main.pc \in {"send", "init"} =>
          s_cmd_queue'[main.call.item] = s_cmd_queue[main.call.item]
    BY <1>3, <2>2 DEF InvCalls
  <2> QED BY <1>3, <2>6, <2>7 DEF InvCalls
<1>9. \A x \in Items : InvItem(x)'
  <2> TAKE x \in Items
  <2>1. CASE x = i
    <3>1. CASE s_cmd_queue'[i] = [state |-> "hmCmdStFilling", buf_idx |-> p + 1,
                                  cmd_buf |-> b] /\ p + 1 < FrameLen
      <4>1. p + 1 \in 1 .. FrameLen - 1
        BY <3>1, Layout
      <4> QED BY <1>3, <2>1, <3>1, <4>1 DEF InvItem
    <3>2. CASE s_cmd_queue'[i].state = "hmCmdStPushed"
      BY <1>6, <2>1, <3>2 DEF InvItem
    <3>3. CASE s_cmd_queue'[i] = IdleItem
      BY <2>1, <3>3 DEF InvItem, IdleItem
    <3> QED BY <1>4, <3>1, <3>2, <3>3
  <2>2. CASE x # i
    <3>1. s_cmd_queue'[x] = s_cmd_queue[x] /\ s_cmd_queue[x].state # "hmCmdStFilling"
      BY <1>3, <1>5, <2>2
    <3>2. (\E k \in DOMAIN calls : calls[k].item = x)
            => \E k \in DOMAIN calls' : calls'[k].item = x
      BY <1>6
    <3> QED BY <1>3, <3>1, <3>2, ZenonT(60) DEF InvItem, InTable
  <2> QED BY <2>1, <2>2
<1>10. InvLate'
  <2>1. CASE main.pc # "clear"
    BY <1>3, <2>1 DEF InvLate
  <2>2. CASE main.pc = "clear" /\ main.call.item # i
    <3>1. s_cmd_queue'[main.call.item] = s_cmd_queue[main.call.item]
      BY <1>3, <2>2 DEF InvLate
    <3>2. /\ s_cmd_queue[main.call.item].buf_idx \in Places \cup {0}
          /\ main.late \in 0 .. Window
      BY <2>2, Typed DEF InvLate
    <3>3. s_cmd_queue[main.call.item].buf_idx <= main.late + 1
      BY <2>2, <3>2, Layout, UartAssumption, SMTT(60) DEF InvLate
    <3> QED BY <1>3, <2>2, <3>1, <3>3 DEF InvLate
  <2>3. CASE main.pc = "clear" /\ main.call.item = i
    <3>1. s_cmd_queue[i].buf_idx <= main.late /\ main.late < Window
      BY <1>3, <2>3 DEF InvLate
    <3>2. p <= s_cmd_queue[i].buf_idx
      <4>1. s_cmd_queue[i].buf_idx \in Places \cup {0}
        BY Typed
      <4> QED BY <1>2, <1>5, <4>1, Layout DEF Pos
    <3>3. p + 1 <= main.late + 1 /\ p + 1 < FrameLen
      <4>1. s_cmd_queue[i].buf_idx \in Places \cup {0} /\ main.late \in 0 .. Window
        BY Typed
      <4> QED BY <3>1, <3>2, <4>1, Layout, UartAssumption, SMTT(60)
    <3>4. s_cmd_queue'[i] = [state |-> "hmCmdStFilling", buf_idx |-> p + 1, cmd_buf |-> b]
      BY <1>4, <3>3
    <3> QED BY <1>3, <2>3, <3>3, <3>4 DEF InvLate
  <2> QED BY <2>1, <2>2, <2>3
<1>11. InvSync'
  <2> SUFFICES ASSUME missing < FrameLen
               PROVE  /\ HostAhead'
                      /\ (IsFilling /\ ~gap => InPlace(s_cmd_queue[s_queue_idx].cmd_buf))'
    BY <1>3 DEF InvSync
  <2>1. host.place - 1 \in {p + missing, p + missing - FrameLen}
    BY <1>2 DEF InvSync, HostAhead
  <2>2. host.place \in 1 .. FrameLen /\ missing \in 0 .. FrameLen
    BY Typed, Layout
  <2>3. \/ host.place < FrameLen /\ host'.place = host.place + 1 /\ host'.req = host.req
        \/ host.place = FrameLen /\ host'.place = 1
    BY <1>3, HostDoes
  <2>4. CASE p + 1 < FrameLen
    <3>1. s_cmd_queue'[i] = [state |-> "hmCmdStFilling", buf_idx |-> p + 1, cmd_buf |-> b]
      BY <1>4, <2>4
    <3>2. i # 0
      BY Typed
    <3>3. IsFilling' /\ Pos' = p + 1
      BY <1>3, <3>1, <3>2 DEF IsFilling, Pos
    <3>4. host'.place - 1 \in {p + 1 + missing, p + 1 + missing - FrameLen}
      <4>1. CASE host.place < FrameLen /\ host'.place = host.place + 1
        BY <2>1, <2>2, <4>1, Layout, SMTT(60)
      <4>2. CASE host.place = FrameLen /\ host'.place = 1
        <5>1. FrameLen - 1 = p + missing
          BY <2>1, <2>2, <4>2, Layout
        <5> QED BY <2>2, <4>2, <5>1, Layout
      <4> QED BY <2>3, <4>1, <4>2
    <3>5. missing = 0 => host'.req = host.req
      BY <2>1, <2>2, <2>3, <2>4, Layout
    <3>6. \A j \in 1 .. p + 1 :
            /\ missing = 0 => b[j] = [req |-> host.req, place |-> j]
            /\ b[j].place = j =>
                 \A l \in 1 .. j : b[l] = [req |-> b[j].req, place |-> l]
      BY <1>1, <1>2, <1>3, StoredInPlace
    <3>7. HostAhead'
      BY <1>3, <3>3, <3>4 DEF HostAhead
    <3>8. s_cmd_queue'[s_queue_idx'].cmd_buf = b
      BY <1>3, <3>1
    <3>9. InPlace(s_cmd_queue[s_queue_idx].cmd_buf)'
      BY <1>3, <3>3, <3>5, <3>6, <3>8, ZenonT(60) DEF InPlace
    <3> QED BY <3>7, <3>9
  <2>5. CASE p + 1 = FrameLen
    <3>1. s_cmd_queue'[i].state # "hmCmdStFilling"
      BY <1>4, <2>5, Layout DEF IdleItem
    <3>2. ~IsFilling' /\ Pos' = 0
      BY <1>3, <3>1 DEF IsFilling, Pos
    <3>3. host'.place - 1 \in {0 + missing, 0 + missing - FrameLen}
      BY <2>1, <2>2, <2>3, <2>5, Layout, SMTT(60)
    <3> QED BY <1>3, <3>2, <3>3 DEF HostAhead
  <2> QED BY <1>4, <2>4, <2>5
<1> QED BY <1>7, <1>8, <1>9, <1>10, <1>11

-----------------------------------------------------------------------------
(* The invariant holds.                                                    *)

LEMMA InitInd == Init => IndInv
<1> SUFFICES ASSUME Init PROVE IndInv
  OBVIOUS
<1>1. TypeOK
  BY InitTypes
<1>2. main.pc = "loop" /\ main.late = 0 /\ DOMAIN calls = {}
  BY <1>1, Typed DEF Init, IdleMain
<1>3. \A i \in Items : s_cmd_queue[i].state = "hmCmdStIdle" /\ s_cmd_queue[i].buf_idx = 0
  BY DEF Init, IdleItem
<1>4. InvCalls /\ InvLate /\ \A i \in Items : InvItem(i)
  BY <1>2, <1>3 DEF InvCalls, InvLate, InvItem
<1>5. InvSync
  <2>1. ~IsFilling /\ Pos = 0
    BY DEF Init, IsFilling, Pos
  <2> QED BY <2>1 DEF Init, InvSync, HostAhead
<1> QED BY <1>1, <1>4, <1>5 DEF IndInv

LEMMA IndNext ==
  ASSUME Window <= HM_CMD_MAX_INPUT_SIZE
  PROVE  IndInv /\ [Next]_vars => IndInv'
<1> SUFFICES ASSUME IndInv, [Next]_vars PROVE IndInv'
  OBVIOUS
<1>1. CASE LoseByte
  BY <1>1, LostKeeps DEF LoseByte
<1>2. CASE Silence
  BY <1>2, SilenceKeeps
<1>3. CASE DropByte
  BY <1>3, LostKeeps DEF DropByte
<1>4. CASE \E i \in Items : StoreByte(i)
  BY <1>4, StoreKeeps
<1>5. CASE TakeCall
  BY <1>5, TakeKeeps
<1>6. CASE SendCmd
  BY <1>6, SendKeeps
<1>7. CASE InitItem
  BY <1>7, InitKeeps
<1>8. CASE ClearItem
  BY <1>8, ClearKeeps
<1>9. CASE UNCHANGED vars
  <2>1. UNCHANGED <<host, s_queue_idx, gap, missing, s_cmd_queue, calls, main>>
    BY <1>9 DEF vars
  <2>2. TypeOK' /\ InvCalls' /\ InvLate'
    BY <2>1 DEF IndInv, TypeOK, InvCalls, InvLate
  <2>3. \A i \in Items : InvItem(i)'
    BY <2>1 DEF IndInv, InvItem, InTable
  <2>4. \A i \in Items : SameBytes(i)
    BY <2>1 DEF SameBytes
  <2> QED BY <2>1, <2>2, <2>3, <2>4, SyncFrom DEF IndInv
<1> QED BY <1>1, <1>2, <1>3, <1>4, <1>5, <1>6, <1>7, <1>8, <1>9
      DEF Next, Receive, MainLoop

LEMMA Invariant ==
  ASSUME Window <= HM_CMD_MAX_INPUT_SIZE
  PROVE  Spec => []IndInv
<1>1. IndInv /\ [Next]_vars => IndInv'
  BY IndNext
<1> QED BY <1>1, InitInd, PTL DEF Spec

-----------------------------------------------------------------------------
(* The theorems.  A slot is idle before it is cleared, so the next request *)
(* may begin in it between the two; the theorems need that no more bytes   *)
(* come there than stand before the ones cleared.  The code leaves a few   *)
(* instructions between the two, a byte on the line takes far longer.      *)

(* The variables have their types.                                         *)
THEOREM UartTypes ==
  ASSUME Window <= HM_CMD_MAX_INPUT_SIZE
  PROVE  Spec => []TypeOK
<1>1. IndInv => TypeOK
  BY DEF IndInv
<1> QED BY <1>1, Invariant, PTL

(* What hm_cmd_msg_ck executes and answers is what hm_cmd_uart_ck queued:  *)
(* no byte received meanwhile is written into a slot that waits or is      *)
(* being served.                                                           *)
THEOREM ServesWhatWasQueued ==
  ASSUME Window <= HM_CMD_MAX_INPUT_SIZE
  PROVE  Spec => []ServedIntact
<1>1. IndInv => ServedIntact
  BY DEF IndInv, InvCalls, ServedIntact
<1> QED BY <1>1, Invariant, PTL

(* No slot is lost or queued twice: hm_cmd_find_idle finds every slot but  *)
(* the one filled, those queued once, the one served and those of unknown  *)
(* commands.                                                               *)
THEOREM NoSlotLost ==
  ASSUME Window <= HM_CMD_MAX_INPUT_SIZE
  PROVE  Spec => []SlotsAccounted
<1>1. IndInv => SlotsAccounted
  <2> SUFFICES ASSUME IndInv PROVE SlotsAccounted
    OBVIOUS
  <2>1. TypeOK /\ InvCalls /\ \A i \in Items : InvItem(i)
    BY DEF IndInv
  <2> SUFFICES ASSUME NEW i \in Items
               PROVE  LET item == s_cmd_queue[i]
                          waits == Cardinality({k \in DOMAIN calls : calls[k].item = i})
                      IN CASE item.state = "hmCmdStIdle" -> waits = 0 /\ item.buf_idx = 0
                           [] item.state = "hmCmdStFilling" -> waits = 0 /\ s_queue_idx = i
                           [] item.state = "hmCmdStPushed" ->
                                \/ waits = 1
                                \/ waits = 0 /\ FALSE \in InTable(item.cmd_buf[NcmdAt])
                           [] item.state = "hmCmdStCalling" ->
                                waits = 0 /\ main.call.item = i
    BY DEF SlotsAccounted
  <2> DEFINE W == {k \in DOMAIN calls : calls[k].item = i}
  <2>2. s_cmd_queue[i].state \in ItemState
    BY <2>1, Typed
  <2>3. W = {} \/ \E k \in DOMAIN calls : W = {k}
    BY <2>1 DEF InvCalls
  <2>4. Cardinality({}) = 0 /\ \A k : Cardinality({k}) = 1
    BY FS_EmptySet, FS_Singleton
  <2>5. W = {} => Cardinality(W) = 0
    BY <2>4
  <2>6. W # {} => Cardinality(W) = 1 /\ s_cmd_queue[i].state = "hmCmdStPushed"
    BY <2>1, <2>3, <2>4 DEF InvCalls
  <2>7. (\E k \in DOMAIN calls : calls[k].item = i) => W # {}
    OBVIOUS
  <2> HIDE DEF W
  <2>8. CASE s_cmd_queue[i].state = "hmCmdStIdle"
    BY <2>1, <2>5, <2>6, <2>8 DEF InvItem, W
  <2>9. CASE s_cmd_queue[i].state = "hmCmdStFilling"
    BY <2>1, <2>5, <2>6, <2>9 DEF InvItem, W
  <2>10. CASE s_cmd_queue[i].state = "hmCmdStPushed"
    BY <2>1, <2>5, <2>6, <2>7, <2>10 DEF InvItem, W
  <2>11. CASE s_cmd_queue[i].state = "hmCmdStCalling"
    BY <2>1, <2>5, <2>6, <2>11 DEF InvItem, W
  <2> QED BY <2>2, <2>8, <2>9, <2>10, <2>11 DEF ItemState
<1> QED BY <1>1, Invariant, PTL

(* How far the test of the two marks goes: while fewer bytes are missing   *)
(* than a request has, the command and the input that pass it are those of *)
(* one request, unless two bytes of payload pass for the two marks.        *)
THEOREM NoMixedRequest ==
  ASSUME Window <= HM_CMD_MAX_INPUT_SIZE
  PROVE  Spec => OnlyWholeRequests
<1>1. IndInv /\ [Next]_vars =>
        [\A k \in DOMAIN calls' \ DOMAIN calls :
           missing < FrameLen => \/ OneRequest(calls'[k].bytes, NcmdAt)
                                 \/ PayloadForMarks(calls'[k].bytes)]_vars
  <2> SUFFICES ASSUME IndInv, Next, NEW k \in DOMAIN calls' \ DOMAIN calls,
                      missing < FrameLen
               PROVE  \/ OneRequest(calls'[k].bytes, NcmdAt)
                      \/ PayloadForMarks(calls'[k].bytes)
    OBVIOUS
  <2>1. TypeOK /\ \A i \in Items : InvItem(i)
    BY DEF IndInv
  <2>2. ~TakeCall
    <3> SUFFICES ASSUME TakeCall PROVE FALSE
      OBVIOUS
    <3>1. calls # <<>> /\ calls' = Tail(calls) /\ calls \in Seq(Call)
      BY <2>1, Typed DEF TakeCall
    <3>2. calls' \in Seq(Call) /\ Len(calls') = Len(calls) - 1
      BY <3>1, HeadTailProperties
    <3>3. DOMAIN calls' = 1 .. Len(calls') /\ DOMAIN calls = 1 .. Len(calls)
      BY <3>1, <3>2, LenProperties
    <3>4. Len(calls) \in Nat
      BY <2>1, Typed
    <3> QED BY <3>2, <3>3, <3>4
  <2>3. PICK i \in Items : StoreByte(i)
    BY <2>2 DEF Next, LoseByte, Silence, Receive, DropByte, MainLoop, SendCmd,
                InitItem, ClearItem
  <2>4. PICK b \in [Places -> Byte] : b = Stored(i)
    BY <2>1, <2>3, StoreDoes, StoredIs
  <2>5. PICK p \in 0 .. FrameLen - 1 : p = Pos
    BY <2>1, PosIs
  <2>6. /\ i \in Slot /\ p + 1 = FrameLen /\ MarksPass(b)
        /\ calls' = Append(calls, [item |-> i, bytes |-> b])
    BY <2>1, <2>3, <2>4, <2>5, StoreDoes
  <2>7. calls'[k].bytes = b
    <3>1. [item |-> i, bytes |-> b] \in Call /\ calls \in Seq(Call)
      BY <2>1, Typed DEF Call
    <3>2. /\ calls' \in Seq(Call) /\ Len(calls') = Len(calls) + 1
          /\ calls'[Len(calls) + 1] = [item |-> i, bytes |-> b]
      BY <2>6, <3>1, AppendProperties
    <3>3. k = Len(calls) + 1
      <4>1. DOMAIN calls' = 1 .. Len(calls') /\ DOMAIN calls = 1 .. Len(calls)
        BY <3>1, <3>2, LenProperties
      <4>2. Len(calls) \in Nat
        BY <2>1, Typed
      <4> QED BY <3>2, <4>1, <4>2
    <3> QED BY <3>2, <3>3
  <2>8. ASSUME NEW m \in {Mark1At, Mark2At}, b[m].place \notin Payload
        PROVE  OneRequest(b, NcmdAt)
    <3>1. b[m].place = m
      <4>1. Passes(b[m], m)
        BY <2>6, <2>8 DEF MarksPass
      <4> QED BY <2>8, <4>1 DEF Passes
    <3>2. m \in 1 .. p + 1 /\ 1 \in 1 .. m /\ \A l \in 1 .. NcmdAt : l \in 1 .. m
      BY <2>6, Layout
    <3>3. \A l \in 1 .. m : b[l] = [req |-> b[m].req, place |-> l]
      <4>1. \A j \in 1 .. p + 1 :
              /\ missing = 0 => b[j] = [req |-> host.req, place |-> j]
              /\ b[j].place = j =>
                   \A l \in 1 .. j : b[l] = [req |-> b[j].req, place |-> l]
        BY <2>4, <2>5, <2>6, StoredInPlace
      <4> QED BY <3>1, <3>2, <4>1
    <3>4. \A l \in 1 .. m : [b[1] EXCEPT !.place = l] = [req |-> b[m].req, place |-> l]
      <4>1. b[1] = [req |-> b[m].req, place |-> 1]
        BY <3>2, <3>3
      <4> QED BY <4>1
    <3> QED BY <3>2, <3>3, <3>4, ZenonT(60) DEF OneRequest
  <2> QED BY <2>7, <2>8 DEF PayloadForMarks
<1> QED BY <1>1, Invariant, PTL DEF Spec, OnlyWholeRequests

(* The 300 ms rule is enough to recover: once the line has been silent,    *)
(* and as long as nothing is missing, the last byte of every request       *)
(* queues that request, whatever broken requests left in the slots.        *)
THEOREM SilenceRecovers ==
  ASSUME Window <= HM_CMD_MAX_INPUT_SIZE
  PROVE  Spec => WholeRequestsArrive
<1> DEFINE A == /\ host.place = FrameLen /\ host'.place = 1
                /\ missing' = 0
                => /\ calls' # <<>>
                   /\ \A i \in Places : calls'[Len(calls')].bytes[i] =
                        [req |-> host.req, place |-> i]
<1>1. IndInv /\ [Next]_vars => [A]_vars
  <2> SUFFICES ASSUME IndInv, Next, host.place = FrameLen, host'.place = 1, missing' = 0
               PROVE  /\ calls' # <<>>
                      /\ \A i \in Places : calls'[Len(calls')].bytes[i] =
                           [req |-> host.req, place |-> i]
    OBVIOUS
  <2>1. TypeOK /\ \A i \in Items : InvItem(i)
    BY DEF IndInv
  <2>2. host' # host /\ ~OneMissing
    BY <2>1, Layout, MissingDoes
  <2>3. PICK i \in Items : StoreByte(i)
    BY <2>2 DEF Next, LoseByte, Silence, Receive, DropByte, MainLoop, TakeCall,
                SendCmd, InitItem, ClearItem
  <2>4. PICK b \in [Places -> Byte] : b = Stored(i)
    BY <2>1, <2>3, StoreDoes, StoredIs
  <2>5. PICK p \in 0 .. FrameLen - 1 : p = Pos
    BY <2>1, PosIs
  <2>6. i \in Slot /\ missing = 0 /\ missing < FrameLen
    <3>1. i \in Slot /\ missing' = missing
      BY <2>3 DEF StoreByte
    <3> QED BY <3>1, Layout
  <2>7. /\ host.place = p + 1
        /\ \A j \in 1 .. p + 1 : b[j] = [req |-> host.req, place |-> j]
    BY <2>4, <2>5, <2>6, StoredInPlace
  <2>8. p + 1 = FrameLen /\ \A j \in Places : b[j] = [req |-> host.req, place |-> j]
    BY <2>7, Layout
  <2>9. ~MarksFail(b)
    <3>1. /\ b[Mark1At].place = Mark1At /\ b[Mark2At].place = Mark2At
          /\ Mark1At \notin Payload /\ Mark2At \notin Payload
      BY <2>8, Layout DEF Payload
    <3>2. \A m \in {Mark1At, Mark2At} : b[m].place = m
      BY <3>1
    <3> QED BY <3>2 DEF MarksFail
  <2>10. calls' = Append(calls, [item |-> i, bytes |-> b])
    <3>1. \/ p + 1 < FrameLen
          \/ calls' = Append(calls, [item |-> i, bytes |-> b])
          \/ MarksFail(b)
      BY <2>1, <2>3, <2>4, <2>5, StoreDoes
    <3>2. ~(p + 1 < FrameLen)
      BY <2>8, Layout
    <3> QED BY <2>9, <3>1, <3>2
  <2>11. [item |-> i, bytes |-> b] \in Call /\ calls \in Seq(Call)
    BY <2>1, Typed DEF Call
  <2>12. /\ calls' \in Seq(Call) /\ Len(calls') = Len(calls) + 1
         /\ calls'[Len(calls')] = [item |-> i, bytes |-> b]
    BY <2>10, <2>11, AppendProperties
  <2>13. calls' # <<>>
    BY <2>1, <2>12, Typed, EmptySeq
  <2> QED BY <2>8, <2>12, <2>13
<1> QED BY <1>1, Invariant, PTL DEF Spec, WholeRequestsArrive
=============================================================================
