----------------------------- MODULE EthDriver ------------------------------
(***************************************************************************)
(* The Ethernet driver under the command server: ETH_IRQHandler and the    *)
(* port's ethernetif.c on one side, the MAC's DMA on the other, sharing a  *)
(* ring of receive and a ring of transmit descriptors and a few status     *)
(* bits.  The handler is cut at every access to what the DMA also writes;  *)
(* a debug print of a higher priority handler sends through the same       *)
(* transmit ring.                                                          *)
(*                                                                         *)
(* lwIP and the server between ethernetif_input and low_level_output are   *)
(* CmdServer; here a frame that is passed on may or may not be answered.   *)
(* Frames are numbered in the order of their arrival, modulo FrameIds.     *)
(***************************************************************************)
EXTENDS Integers, Sequences, FiniteSets

CONSTANTS
  ETH_RXBUFNB,  \* receive descriptors (4)
  ETH_TXBUFNB,  \* transmit descriptors (2)
  FrameIds,     \* frames told apart, more than fit the receive ring
  LateFrames    \* frames that may arrive between the handler's last look at
                \* the ring and its clearing of the interrupt

ASSUME RingAssumption ==
  /\ ETH_RXBUFNB \in Nat \ {0} /\ ETH_TXBUFNB \in Nat \ {0}
  /\ FrameIds \in Nat /\ FrameIds > ETH_RXBUFNB
  /\ LateFrames \in Nat

VARIABLES
  rx,   \* receive ring: descriptors, the driver's and the DMA's position
  tx,   \* transmit ring, likewise
  sr,   \* status bits of ETH->DMASR
  h,    \* ETH_IRQHandler
  env   \* history: frames received and not yet taken, sent and not yet out,
        \* the descriptors whose frame a later send has written over, and
        \* whether the driver moved on twice for one frame

vars == <<rx, tx, sr, h, env>>

RxDescs == 0 .. ETH_RXBUFNB - 1
TxDescs == 0 .. ETH_TXBUFNB - 1
Frames == 0 .. FrameIds - 1
None == -1
Text == -2          \* what a debug print, or a reply it cut into, sends
Part == -3          \* a piece of a frame longer than ETH_MAX_PACKET_SIZE
Received == Frames \cup {Part}
Content == Received \cup {None, Text}

(* own: the OWN bit, set when the descriptor is the DMA's.  buf: what is   *)
(* in the buffer, None once it has been taken from there.                  *)
Desc == [own: BOOLEAN, buf: Content]

Pc == {"idle", "look", "take", "copy", "giveback", "resume", "input",
       "txbuf", "txcopy", "txown", "txgive", "txresume", "clear"}

(* Where a print falls into a reply that is being sent.                    *)
Sending == {"txcopy", "txown", "txgive", "txresume"}

TypeOK ==
  /\ rx \in [d: [RxDescs -> Desc], toGet: RxDescs, dma: RxDescs]
  /\ tx \in [d: [TxDescs -> Desc], toSet: TxDescs, dma: TxDescs]
  /\ sr \in [R: BOOLEAN, TBUS: BOOLEAN]
  /\ h \in [pc: Pc, desc: RxDescs, got: Content, buf: TxDescs,
            late: 0 .. LateFrames, nested: BOOLEAN]
  /\ env \in [next: Frames, rxOwed: Seq(Received), txOwed: Seq(Content),
              spoilt: SUBSET TxDescs, parted: BOOLEAN]

(* low_level_init: all receive descriptors given to the DMA, all transmit  *)
(* descriptors kept.                                                       *)
Init ==
  /\ rx = [d |-> [i \in RxDescs |-> [own |-> TRUE, buf |-> None]],
           toGet |-> 0, dma |-> 0]
  /\ tx = [d |-> [i \in TxDescs |-> [own |-> FALSE, buf |-> None]],
           toSet |-> 0, dma |-> 0]
  /\ sr = [R |-> FALSE, TBUS |-> TRUE]
  /\ h = [pc |-> "idle", desc |-> 0, got |-> None, buf |-> 0, late |-> 0,
          nested |-> FALSE]
  /\ env = [next |-> 0, rxOwed |-> <<>>, txOwed |-> <<>>,
            spoilt |-> {}, parted |-> FALSE]

NextRx(i) == (i + 1) % ETH_RXBUFNB
NextTx(i) == (i + 1) % ETH_TXBUFNB

-----------------------------------------------------------------------------
(* The MAC and its DMA.                                                    *)

(* The DMA stores what it received and takes the next descriptor, or finds *)
(* none, loses it and suspends.  It tries again with the next frame,       *)
(* resumed (RBUS, DMARPDR) or not, so the suspension itself is not kept.   *)
Store(got) ==
  /\ h.pc = "clear" => h.late < LateFrames
  /\ IF rx.d[rx.dma].own
     THEN /\ rx' = [rx EXCEPT !.d[rx.dma] = [own |-> FALSE, buf |-> got],
                              !.dma = NextRx(@)]
          /\ env' = [env EXCEPT !.next = IF got = Part THEN @ ELSE (@ + 1) % FrameIds,
                                !.rxOwed = Append(@, got)]
     ELSE UNCHANGED <<rx, env>>
  /\ h' = IF h.pc = "clear" THEN [h EXCEPT !.late = @ + 1] ELSE h
  /\ UNCHANGED tx

(* A frame that fits a buffer arrives.                                     *)
Arrive ==
  /\ Store(env.next)
  /\ sr' = [sr EXCEPT !.R = @ \/ rx.d[rx.dma].own]

(* A longer one is stored piece by piece, each in a descriptor of its own  *)
(* with FS, LS or, where the descriptors run out, ES to show for it; with  *)
(* the last piece R is raised.                                             *)
ArrivePart ==
  /\ Store(Part)
  /\ \E last \in BOOLEAN : sr' = [sr EXCEPT !.R = @ \/ (rx.d[rx.dma].own /\ last)]

(* What is known of the frames to send, until the driver and the DMA part. *)
Record(owed, spoilt, parted) ==
  env' = [env EXCEPT !.txOwed = IF parted THEN <<>> ELSE owed,
                     !.spoilt = IF parted THEN {} ELSE spoilt,
                     !.parted = parted]

(* The DMA sends the frame of its descriptor and gives the descriptor      *)
(* back.                                                                   *)
Transmit ==
  /\ ~sr.TBUS
  /\ tx.d[tx.dma].own
  /\ tx' = [tx EXCEPT !.d[tx.dma].own = FALSE,
                       !.d[tx.dma].buf = IF tx.dma \in env.spoilt THEN @ ELSE None,
                       !.dma = NextTx(@)]
  /\ Record(Tail(env.txOwed), env.spoilt \ {tx.dma}, env.parted)
  /\ UNCHANGED <<rx, sr, h>>

(* The DMA finds its next descriptor not its own and suspends.             *)
Suspend ==
  /\ ~sr.TBUS
  /\ ~tx.d[tx.dma].own
  /\ sr' = [sr EXCEPT !.TBUS = TRUE]
  /\ UNCHANGED <<rx, tx, h, env>>

-----------------------------------------------------------------------------
(* ETH_IRQHandler: receiving.                                              *)

At(pc, next) == h.pc = pc /\ h' = [h EXCEPT !.pc = next]

Enter ==
  /\ sr.R
  /\ h.pc = "idle"
  /\ h' = [h EXCEPT !.pc = "look", !.late = 0]
  /\ UNCHANGED <<rx, tx, sr, env>>

(* What ETH_GetRxPktSize finds no frame in: a descriptor that is the DMA's *)
(* or that does not hold the whole of a frame (ES, LS and FS).             *)
NoFrame(d) == d.own \/ d.buf = Part

(* ETH_GetRxPktSize; the locals of the last round are gone.                *)
Look ==
  /\ h.pc = "look"
  /\ h' = [h EXCEPT !.pc = IF NoFrame(rx.d[rx.toGet]) THEN "clear" ELSE "take",
                    !.desc = 0, !.got = None, !.buf = 0, !.nested = FALSE]
  /\ UNCHANGED <<rx, tx, sr, env>>

(* ETH_RxPkt_ChainMode: its own look at OWN finds what Look found.         *)
Take ==
  /\ h.pc = "take"
  /\ h' = [h EXCEPT !.pc = "copy", !.desc = rx.toGet]
  /\ rx' = [rx EXCEPT !.toGet = NextRx(@)]
  /\ UNCHANGED <<tx, sr, env>>

(* Mutant: the descriptor is given back before its buffer is read.         *)
Copy_late ==
  /\ h.pc = "copy"
  /\ rx' = [rx EXCEPT !.d[h.desc].own = TRUE]
  /\ h' = [h EXCEPT !.pc = "giveback", !.got = rx.d[rx.dma].buf]
  /\ env' = [env EXCEPT !.rxOwed = Tail(@)]
  /\ UNCHANGED <<tx, sr>>

(* pbuf_alloc and the copy; without a pbuf the frame is dropped.           *)
Copy ==
  /\ h.pc = "copy"
  /\ \E got \in {rx.d[h.desc].buf, None} :
       h' = [h EXCEPT !.pc = "giveback", !.got = got]
  /\ env' = [env EXCEPT !.rxOwed = Tail(@)]
  /\ UNCHANGED <<rx, tx, sr>>

(* Mutant: a frame that found no pbuf keeps its descriptor.                *)
GiveBack_kept ==
  /\ At("giveback", "resume")
  /\ rx' = IF h.got = None THEN rx ELSE [rx EXCEPT !.d[h.desc].own = TRUE]
  /\ UNCHANGED <<tx, sr, env>>

GiveBack ==
  /\ At("giveback", "resume")
  /\ rx' = [rx EXCEPT !.d[h.desc] = [own |-> TRUE, buf |-> None]]
  /\ UNCHANGED <<tx, sr, env>>

(* Mutant: a frame that found no pbuf ends the loop.                       *)
Resume_ends ==
  /\ At("resume", IF h.got = None THEN "clear" ELSE "input")
  /\ UNCHANGED <<rx, tx, sr, env>>

(* A suspended receiver is started again; then ethernetif_input passes the *)
(* frame on.                                                               *)
Resume ==
  /\ At("resume", IF h.got = None THEN "look" ELSE "input")
  /\ UNCHANGED <<rx, tx, sr, env>>

(* netif->input: lwIP answers the frame, or not.                           *)
Input ==
  /\ \E next \in {"txbuf", "look"} : At("input", next)
  /\ UNCHANGED <<rx, tx, sr, env>>

(* The last look at the ring was one step earlier.                         *)
Clear ==
  /\ At("clear", "idle")
  /\ sr' = [sr EXCEPT !.R = FALSE]
  /\ UNCHANGED <<rx, tx, env>>

-----------------------------------------------------------------------------
(* low_level_output.                                                       *)

(* A buffer is written: if its descriptor is still the DMA's, the frame in *)
(* it is spoilt.                                                           *)
Spoilt(i) == IF tx.d[i].own THEN env.spoilt \cup {i} ELSE env.spoilt

(* A reply that a print cut into is not told from text, and nothing is     *)
(* told apart once the driver and the DMA have parted.                     *)
Clean(x) == IF h.nested \/ env.parted THEN Text ELSE x

TxBuf ==
  /\ h.pc = "txbuf"
  /\ h' = [h EXCEPT !.pc = "txcopy", !.buf = tx.toSet, !.nested = FALSE]
  /\ UNCHANGED <<rx, tx, sr, env>>

(* The copy goes into the buffer before anyone looks at OWN.               *)
TxCopy ==
  /\ At("txcopy", "txown")
  /\ tx' = [tx EXCEPT !.d[h.buf].buf = Clean(h.got)]
  /\ Record(env.txOwed, Spoilt(h.buf), env.parted)
  /\ UNCHANGED <<rx, sr>>

(* ETH_TxPkt_ChainMode: a descriptor the DMA still has is an error that    *)
(* low_level_output does not report.                                       *)
TxOwn ==
  /\ At("txown", IF tx.d[tx.toSet].own THEN "look" ELSE "txgive")
  /\ UNCHANGED <<rx, tx, sr, env>>

(* Length and OWN go to the descriptor of this moment.  If a print has     *)
(* moved the driver on, its buffer holds something else, or even a frame   *)
(* that is still to be sent.                                               *)
TxGive ==
  /\ At("txgive", "txresume")
  /\ tx' = [tx EXCEPT !.d[tx.toSet] =
              [own |-> TRUE, buf |-> Clean(@.buf)]]
  /\ Record(Append(env.txOwed, Clean(h.got)),
            IF h.nested THEN env.spoilt \cup {tx.toSet} ELSE env.spoilt,
            env.parted \/ tx.d[tx.toSet].own)
  /\ UNCHANGED <<rx, sr>>

(* Mutant: the transmitter is not started again.                           *)
TxResume_none ==
  /\ At("txresume", "look")
  /\ tx' = [tx EXCEPT !.toSet = NextTx(@)]
  /\ UNCHANGED <<rx, sr, env>>

TxResume ==
  /\ At("txresume", "look")
  /\ sr' = [sr EXCEPT !.TBUS = FALSE]
  /\ tx' = [tx EXCEPT !.toSet = NextTx(@)]
  /\ UNCHANGED <<rx, env>>

(* Mutant: the position is not moved on.                                   *)
DebugPrint_stays ==
  /\ tx' = [tx EXCEPT !.d[tx.toSet] = [own |-> TRUE, buf |-> Text]]
  /\ sr' = [sr EXCEPT !.TBUS = FALSE]
  /\ env' = [env EXCEPT !.txOwed = IF tx.d[tx.toSet].own THEN @
                                   ELSE Append(@, Text)]
  /\ h' = [h EXCEPT !.nested = @ \/ h.pc \in Sending]
  /\ UNCHANGED rx

(* A debug print of a DMA, EXTI or SysTick handler: the same calls, not    *)
(* interrupted.  They may fall anywhere into a reply that is being sent;   *)
(* one that finds the reply's descriptor already sent moves the driver on, *)
(* and so will the reply.                                                  *)
DebugPrint ==
  /\ h' = [h EXCEPT !.nested = @ \/ h.pc \in Sending]
  /\ IF tx.d[tx.toSet].own
     THEN /\ tx' = [tx EXCEPT !.d[tx.toSet].buf = Text]
          /\ Record(env.txOwed, Spoilt(tx.toSet), env.parted)
          /\ UNCHANGED sr
     ELSE /\ tx' = [tx EXCEPT !.d[tx.toSet] = [own |-> TRUE, buf |-> Text],
                              !.toSet = NextTx(@)]
          /\ sr' = [sr EXCEPT !.TBUS = FALSE]
          /\ Record(Append(env.txOwed, Text), env.spoilt,
                    env.parted \/ h.pc = "txresume")
  /\ UNCHANGED rx

-----------------------------------------------------------------------------
Handler ==
  \/ Enter \/ Look \/ Take \/ Copy \/ GiveBack \/ Resume \/ Input \/ Clear
  \/ TxBuf \/ TxCopy \/ TxOwn \/ TxGive \/ TxResume

Next == Arrive \/ ArrivePart \/ Transmit \/ Suspend \/ Handler \/ DebugPrint

(* The handler runs on, the DMA sends, and frames keep arriving: on a live *)
(* network broadcasts alone see to that.                                   *)
Spec ==
  /\ Init /\ [][Next]_vars
  /\ WF_vars(Handler) /\ WF_vars(Transmit) /\ WF_vars(Arrive)

-----------------------------------------------------------------------------
(* Properties.                                                             *)

(* The frames the handler copies are the frames received, each once, in    *)
(* order: the DMA never writes a buffer that is still to be copied, and    *)
(* the driver's and the DMA's position in the ring never part.             *)
CopiesInOrder ==
  [][h.pc = "copy" /\ h'.pc = "giveback" =>
       env.rxOwed # <<>> /\ h'.got \in {Head(env.rxOwed), None}]_vars

(* What goes out on the wire is what was sent, in order.  A buffer changes *)
(* between the moment its descriptor is handed over and the transmission   *)
(* only when a later send finds the whole ring full, copies its frame in   *)
(* all the same and is then refused (or not, if the DMA has sent by then), *)
(* or when a print falls into a reply that is being sent.  This ends when  *)
(* such a print makes the driver move on twice for one frame.              *)
WireIsExact ==
  [][~env.parted =>
       /\ Transmit => /\ env.txOwed # <<>>
                      /\ tx.dma \notin env.spoilt =>
                           tx.d[tx.dma].buf = Head(env.txOwed)
       /\ \/ env'.spoilt \subseteq env.spoilt
          \/ \A i \in TxDescs : tx.d[i].own
          \/ h'.nested]_vars

(* A piece of a frame too long for a buffer is in the ring: the driver     *)
(* will not look past it (stm32_eth.c:656-658).                            *)
TooLong == \E i \in RxDescs : rx.d[i].buf = Part

(* A handler that has returned with no interrupt pending has left the DMA  *)
(* a descriptor: the next frame is received and raises the interrupt again *)
(* that also serves any frame that came too late for the last loop.  Only  *)
(* a frame too long for a buffer takes this from the board, for ever.      *)
NeverDeaf ==
  h.pc = "idle" /\ ~sr.R /\ ~TooLong => \E i \in RxDescs : rx.d[i].own

(* Every received frame is taken from its descriptor, unless one that is   *)
(* too long for a buffer blocks the ring.                                  *)
EveryFrameTaken == \A i \in RxDescs : ~rx.d[i].own ~> rx.d[i].own \/ TooLong

(* Every descriptor handed over is sent: the transmitter does not stay     *)
(* suspended, whichever of OWN and TBUS is set first, unless a nested      *)
(* print made the driver skip the descriptor the DMA waits at.             *)
EveryFrameSent == \A i \in TxDescs : tx.d[i].own ~> ~tx.d[i].own \/ env.parted
-----------------------------------------------------------------------------
(* The inductive invariants: each ring holds what is owed, from the        *)
(* consumer's position on and without a gap, and everything else of it     *)
(* belongs to the producer.                                                *)

(* How far descriptor i of a ring of n is ahead of descriptor f.           *)
Ahead(n, f, i) == IF i >= f THEN i - f ELSE i - f + n

(* The descriptor of the first frame not copied.                           *)
FirstOwed == IF h.pc = "copy" THEN h.desc ELSE rx.toGet

(* The frames owed are in the descriptors from FirstOwed up to the DMA's   *)
(* position; the DMA owns all others but the one being given back.         *)
InvRx ==
  /\ Len(env.rxOwed) <= ETH_RXBUFNB
  /\ \A i \in RxDescs :
       LET k == Ahead(ETH_RXBUFNB, FirstOwed, i)
       IN /\ k < Len(env.rxOwed) => /\ ~rx.d[i].own
                                    /\ rx.d[i].buf = env.rxOwed[k + 1]
          /\ k >= Len(env.rxOwed) =>
               (rx.d[i].own <=> ~(h.pc = "giveback" /\ i = h.desc))
  /\ Ahead(ETH_RXBUFNB, FirstOwed, rx.dma) =
       IF Len(env.rxOwed) = ETH_RXBUFNB THEN 0 ELSE Len(env.rxOwed)
  /\ h.pc \in {"copy", "giveback"} => rx.toGet = NextRx(h.desc)
  /\ h.pc = "giveback" => Len(env.rxOwed) < ETH_RXBUFNB
  /\ h.pc \in {"take", "copy"} => Len(env.rxOwed) > 0

(* A piece of a frame that is too long is never the DMA's again, and the   *)
(* handler is never at it.                                                 *)
InvPart ==
  /\ \A i \in RxDescs : rx.d[i].own => rx.d[i].buf # Part
  /\ h.pc = "take" => rx.d[rx.toGet].buf # Part
  /\ h.pc \in {"copy", "giveback"} => rx.d[h.desc].buf # Part

(* Without an interrupt pending nothing is owed but the late frames.       *)
InvQuiet ==
  ~TooLong =>
    /\ h.pc = "clear" => Len(env.rxOwed) <= h.late
    /\ h.pc = "idle" /\ ~sr.R => Len(env.rxOwed) <= LateFrames

(* Whatever prints come between, as many frames are to be sent as          *)
(* descriptors are the DMA's.                                              *)
InvCount ==
  ~env.parted => Len(env.txOwed) = Cardinality({i \in TxDescs : tx.d[i].own})

IndRx == TypeOK /\ InvCount /\ InvRx /\ InvPart /\ InvQuiet

(* The descriptor of the next frame to send.                               *)
NextFree == IF h.pc = "txresume" THEN NextTx(tx.toSet) ELSE tx.toSet

(* The frames to send are in the descriptors from the DMA's position up to *)
(* NextFree, and these are the DMA's.  A frame that is not spoilt is still *)
(* there.  What a reply copied is in the buffer of the descriptor it is    *)
(* about to hand over.                                                     *)
InvTx ==
  /\ Len(env.txOwed) <= ETH_TXBUFNB
  /\ \A i \in TxDescs :
       LET k == Ahead(ETH_TXBUFNB, tx.dma, i)
       IN /\ tx.d[i].own <=> k < Len(env.txOwed)
          /\ tx.d[i].own /\ i \notin env.spoilt => tx.d[i].buf = env.txOwed[k + 1]
          /\ i \in env.spoilt => tx.d[i].own
  /\ Ahead(ETH_TXBUFNB, tx.dma, NextFree) =
       IF Len(env.txOwed) = ETH_TXBUFNB THEN 0 ELSE Len(env.txOwed)
  /\ ~h.nested =>
       /\ h.pc \in {"txcopy", "txown", "txgive"} => h.buf = tx.toSet
       /\ h.pc \in {"txown", "txgive"} =>
            /\ tx.d[tx.toSet].buf = h.got
            /\ tx.d[tx.toSet].own => tx.toSet \in env.spoilt
       /\ h.pc = "txgive" => ~tx.d[tx.toSet].own

IndTx == TypeOK /\ (~env.parted => InvTx)
=============================================================================
