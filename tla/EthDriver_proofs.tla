-------------------------- MODULE EthDriver_proofs --------------------------
(* The Ethernet driver, for rings of any size: frames are copied in the    *)
(* order of their arrival, the receiver never goes deaf, and what goes out *)
(* is what was sent.                                                       *)
EXTENDS EthDriver, SequenceTheorems, FiniteSetTheorems, TLAPS

-----------------------------------------------------------------------------
(* Positions in a ring of n descriptors.                                   *)

Wrapped(n, i) == IF i + 1 = n THEN 0 ELSE i + 1

LEMMA WrapMod ==
  ASSUME NEW n \in Nat \ {0}, NEW i \in 0 .. n - 1
  PROVE  (i + 1) % n = Wrapped(n, i) /\ Wrapped(n, i) \in 0 .. n - 1
<1>1. CASE i + 1 = n
  <2>1. n % n = 0
    OBVIOUS
  <2> QED BY <1>1, <2>1 DEF Wrapped
<1>2. CASE i + 1 # n
  <2>1. i + 1 \in 0 .. n - 1
    BY <1>2
  <2>2. \A k \in 0 .. n - 1 : k % n = k
    OBVIOUS
  <2>3. (i + 1) % n = i + 1
    BY <2>1, <2>2
  <2> QED BY <1>2, <2>1, <2>3 DEF Wrapped
<1> QED BY <1>1, <1>2

LEMMA AheadFacts ==
  ASSUME NEW n \in Nat \ {0}, NEW f \in 0 .. n - 1, NEW i \in 0 .. n - 1
  PROVE  /\ Ahead(n, f, i) \in 0 .. n - 1
         /\ Ahead(n, f, i) = 0 <=> i = f
         /\ Ahead(n, f, Wrapped(n, i)) =
              IF Ahead(n, f, i) = n - 1 THEN 0 ELSE Ahead(n, f, i) + 1
         /\ Ahead(n, Wrapped(n, f), i) =
              IF i = f THEN n - 1 ELSE Ahead(n, f, i) - 1
BY DEF Ahead, Wrapped

LEMMA AheadOne ==
  ASSUME NEW n \in Nat \ {0}, NEW f \in 0 .. n - 1, NEW i \in 0 .. n - 1,
         NEW j \in 0 .. n - 1, Ahead(n, f, i) = Ahead(n, f, j)
  PROVE  i = j
BY DEF Ahead

LEMMA AheadPush ==
  ASSUME NEW n \in Nat \ {0}, NEW f \in 0 .. n - 1, NEW i \in 0 .. n - 1,
         NEW L \in Nat, L < n, Ahead(n, f, i) = L
  PROVE  Ahead(n, f, Wrapped(n, i)) = IF L = n - 1 THEN 0 ELSE L + 1
BY DEF Ahead, Wrapped

LEMMA AheadBehind ==
  ASSUME NEW n \in Nat \ {0}, NEW f \in 0 .. n - 1
  PROVE  Ahead(n, Wrapped(n, f), f) = n - 1 /\ Ahead(n, f, f) = 0
BY DEF Ahead, Wrapped

LEMMA AheadPop ==
  ASSUME NEW n \in Nat \ {0}, NEW f \in 0 .. n - 1, NEW i \in 0 .. n - 1, i # f
  PROVE  /\ Ahead(n, f, i) \in 1 .. n - 1
         /\ Ahead(n, Wrapped(n, f), i) = Ahead(n, f, i) - 1
BY DEF Ahead, Wrapped

LEMMA NextRxIs ==
  ASSUME NEW i \in RxDescs
  PROVE  NextRx(i) = Wrapped(ETH_RXBUFNB, i) /\ NextRx(i) \in RxDescs
BY WrapMod, RingAssumption DEF NextRx, RxDescs

LEMMA NextTxIs ==
  ASSUME NEW i \in TxDescs
  PROVE  NextTx(i) = Wrapped(ETH_TXBUFNB, i) /\ NextTx(i) \in TxDescs
BY WrapMod, RingAssumption DEF NextTx, TxDescs

(* Queues of frames.                                                       *)
LEMMA Appended ==
  ASSUME NEW S, NEW s \in Seq(S), NEW e \in S
  PROVE  /\ Append(s, e) \in Seq(S) /\ Len(Append(s, e)) = Len(s) + 1
         /\ \A k \in 1 .. Len(s) : Append(s, e)[k] = s[k]
         /\ Append(s, e)[Len(s) + 1] = e
         /\ Len(s) \in Nat
BY AppendProperties, LenProperties

LEMMA Shortened ==
  ASSUME NEW S, NEW s \in Seq(S), Len(s) > 0
  PROVE  /\ Tail(s) \in Seq(S) /\ Len(Tail(s)) = Len(s) - 1
         /\ \A k \in 1 .. Len(s) - 1 : Tail(s)[k] = s[k + 1]
         /\ s # <<>> /\ Head(s) = s[1] /\ Len(s) \in Nat
<1>1. s # <<>>
  OBVIOUS
<1> QED BY <1>1, HeadTailProperties, LenProperties

-----------------------------------------------------------------------------
(* Types.                                                                  *)

LEMMA InitTypes == Init => TypeOK
BY RingAssumption
   DEF Init, TypeOK, RxDescs, TxDescs, Desc, Content, Pc, Frames, None

RxRing == [d: [RxDescs -> Desc], toGet: RxDescs, dma: RxDescs]
TxRing == [d: [TxDescs -> Desc], toSet: TxDescs, dma: TxDescs]
SrType == [R: BOOLEAN, TBUS: BOOLEAN]
HType ==
  [pc: Pc, desc: RxDescs, got: Content, buf: TxDescs, late: 0 .. LateFrames,
   nested: BOOLEAN]
EnvType ==
  [next: Frames, rxOwed: Seq(Received), txOwed: Seq(Content),
   spoilt: SUBSET TxDescs, parted: BOOLEAN]

LEMMA Types ==
  TypeOK <=> /\ rx \in RxRing /\ tx \in TxRing /\ sr \in SrType
             /\ h \in HType /\ env \in EnvType
BY DEF TypeOK, RxRing, TxRing, SrType, HType, EnvType

LEMMA TypesThen ==
  TypeOK' <=> /\ rx' \in RxRing /\ tx' \in TxRing /\ sr' \in SrType
              /\ h' \in HType /\ env' \in EnvType
BY DEF TypeOK, RxRing, TxRing, SrType, HType, EnvType

-----------------------------------------------------------------------------
(* What each step does to the receive ring and the frames owed.            *)

IsStored(got) ==
  /\ rx.d[rx.dma].own /\ ~rx'.d[rx.dma].own /\ rx'.d[rx.dma].buf = got
  /\ \A k \in RxDescs \ {rx.dma} : rx'.d[k] = rx.d[k]
  /\ rx'.toGet = rx.toGet /\ rx'.dma = NextRx(rx.dma)
  /\ env'.rxOwed = Append(env.rxOwed, got)

LEMMA ContentFacts ==
  /\ None \in Content /\ Text \in Content /\ Received \subseteq Content
  /\ Frames \subseteq Received /\ Part \in Received /\ None # Part
  /\ \A f \in Frames : f # Part
BY DEF Content, Received, None, Part, Frames

LEMMA RxTypes ==
  ASSUME TypeOK
  PROVE  /\ rx \in RxRing /\ tx \in TxRing
         /\ rx.d \in [RxDescs -> Desc] /\ rx.toGet \in RxDescs /\ rx.dma \in RxDescs
         /\ tx.d \in [TxDescs -> Desc] /\ tx.toSet \in TxDescs /\ tx.dma \in TxDescs
         /\ h.desc \in RxDescs /\ h.buf \in TxDescs /\ h.got \in Content
         /\ h.pc \in Pc /\ h.late \in 0 .. LateFrames /\ h.nested \in BOOLEAN
         /\ env.rxOwed \in Seq(Received) /\ env.txOwed \in Seq(Content)
         /\ env.next \in Frames /\ env.spoilt \in SUBSET TxDescs
         /\ env.parted \in BOOLEAN
BY DEF TypeOK, RxRing, TxRing

LEMMA StoreDoes ==
  ASSUME TypeOK, NEW got \in {env.next, Part}, Store(got)
  PROVE  /\ rx' \in RxRing /\ tx' = tx
         /\ env' \in EnvType /\ h' \in HType
         /\ h'.pc = h.pc /\ h'.desc = h.desc /\ h'.got = h.got /\ h'.buf = h.buf
         /\ h'.nested = h.nested
         /\ env'.txOwed = env.txOwed /\ env'.spoilt = env.spoilt
         /\ env'.parted = env.parted
         /\ h.pc = "clear" => h'.late = h.late + 1
         /\ \/ IsStored(got)
            \/ UNCHANGED <<rx, env>> /\ ~rx.d[rx.dma].own
<1>0. /\ h' \in HType
      /\ h'.pc = h.pc /\ h'.desc = h.desc /\ h'.got = h.got /\ h'.buf = h.buf
      /\ h'.nested = h.nested
      /\ h.pc = "clear" => h'.late = h.late + 1
  <2>1. CASE h.pc # "clear"
    BY <2>1, Types DEF Store
  <2>2. CASE h.pc = "clear"
    <3>1. h.late + 1 \in 0 .. LateFrames
      BY <2>2, RxTypes, RingAssumption DEF Store
    <3>2. h' = [h EXCEPT !.late = h.late + 1]
      BY <2>2 DEF Store
    <3> QED BY <3>1, <3>2, Types DEF HType
  <2> QED BY <2>1, <2>2
<1>1. CASE rx.d[rx.dma].own
  <2>1. rx' = [rx EXCEPT !.d[rx.dma] = [own |-> FALSE, buf |-> got],
                         !.dma = NextRx(rx.dma)]
    BY <1>1 DEF Store
  <2> DEFINE next == IF got = Part THEN env.next ELSE (env.next + 1) % FrameIds
  <2>2. env' = [env EXCEPT !.next = next, !.rxOwed = Append(env.rxOwed, got)]
    BY <1>1 DEF Store
  <2>3. /\ NextRx(rx.dma) \in RxDescs /\ got \in Content /\ got \in Received
        /\ rx \in RxRing /\ rx.dma \in RxDescs
    BY RxTypes, NextRxIs, ContentFacts
  <2>4. /\ rx' \in RxRing /\ rx'.toGet = rx.toGet /\ rx'.dma = NextRx(rx.dma)
        /\ rx'.d[rx.dma] = [own |-> FALSE, buf |-> got]
        /\ \A k \in RxDescs \ {rx.dma} : rx'.d[k] = rx.d[k]
    BY <2>1, <2>3 DEF RxRing, Desc
  <2>5. next \in Frames
    <3>1. env.next + 1 \in Int /\ FrameIds \in Nat \ {0} /\ env.next \in Frames
      BY RxTypes, RingAssumption DEF Frames
    <3>2. \A n \in Int, m \in Nat \ {0} : n % m \in 0 .. m - 1
      OBVIOUS
    <3> QED BY <3>1, <3>2 DEF Frames
  <2>6. Append(env.rxOwed, got) \in Seq(Received)
    BY <2>3, RxTypes, Appended
  <2> HIDE DEF next
  <2>7. /\ env' \in EnvType /\ env'.rxOwed = Append(env.rxOwed, got)
        /\ env'.txOwed = env.txOwed /\ env'.spoilt = env.spoilt
        /\ env'.parted = env.parted
    BY <2>2, <2>5, <2>6, Types DEF EnvType
  <2>8. IsStored(got)
    BY <1>1, <2>4, <2>7 DEF IsStored
  <2> QED BY <1>0, <2>4, <2>7, <2>8 DEF Store
<1>2. CASE ~rx.d[rx.dma].own
  <2>1. UNCHANGED <<rx, env>>
    BY <1>2 DEF Store
  <2> QED BY <1>0, <1>2, <2>1, Types DEF Store
<1> QED BY <1>1, <1>2

(* What the status bits show of it.                                        *)
LEMMA ArriveDoes ==
  ASSUME TypeOK, Arrive \/ ArrivePart
  PROVE  /\ sr' \in SrType
         /\ Arrive => Store(env.next) /\ (rx.d[rx.dma].own => sr'.R)
         /\ ArrivePart => Store(Part)
         /\ ~rx.d[rx.dma].own => sr'.R = sr.R
<1>1. rx.d[rx.dma].own \in BOOLEAN /\ sr \in SrType /\ sr.R \in BOOLEAN
  BY RxTypes, Types DEF Desc, SrType
<1>2. ASSUME NEW r \in BOOLEAN, sr' = [sr EXCEPT !.R = r]
      PROVE  sr' \in SrType /\ sr'.R = r
  BY <1>1, <1>2 DEF SrType
<1>3. ASSUME Arrive PROVE sr' \in SrType /\ (~rx.d[rx.dma].own => sr'.R = sr.R)
  <2> DEFINE r == sr.R \/ rx.d[rx.dma].own
  <2>1. r \in BOOLEAN /\ sr' = [sr EXCEPT !.R = r]
    BY <1>3 DEF Arrive
  <2>2. ~rx.d[rx.dma].own => r = sr.R
    BY <1>1
  <2> HIDE DEF r
  <2>3. sr' \in SrType /\ sr'.R = r
    BY <1>2, <2>1
  <2> QED BY <2>2, <2>3
<1>4. ASSUME ArrivePart PROVE sr' \in SrType /\ (~rx.d[rx.dma].own => sr'.R = sr.R)
  <2>1. PICK last \in BOOLEAN :
               sr' = [sr EXCEPT !.R = sr.R \/ (rx.d[rx.dma].own /\ last)]
    BY <1>4 DEF ArrivePart
  <2> DEFINE r == sr.R \/ (rx.d[rx.dma].own /\ last)
  <2>2. r \in BOOLEAN /\ sr' = [sr EXCEPT !.R = r]
    BY <2>1
  <2>3. ~rx.d[rx.dma].own => r = sr.R
    BY <1>1
  <2> HIDE DEF r
  <2>4. sr' \in SrType /\ sr'.R = r
    BY <1>2, <2>2
  <2> QED BY <2>3, <2>4
<1>5. Arrive => Store(env.next)
  BY DEF Arrive
<1>6. Arrive => (rx.d[rx.dma].own => sr'.R)
  <2> SUFFICES ASSUME Arrive, rx.d[rx.dma].own PROVE sr'.R
    OBVIOUS
  <2>1. sr' = [sr EXCEPT !.R = sr.R \/ rx.d[rx.dma].own]
    BY DEF Arrive
  <2>2. (sr.R \/ rx.d[rx.dma].own) = TRUE
    OBVIOUS
  <2>3. sr' = [sr EXCEPT !.R = TRUE]
    BY <2>1, <2>2
  <2> QED BY <1>2, <2>3
<1>7. ArrivePart => Store(Part)
  BY DEF ArrivePart
<1> QED BY <1>3, <1>4, <1>5, <1>6, <1>7

(* A frame, or a piece of one, arrives.                                    *)
LEMMA Arrived ==
  ASSUME TypeOK, Arrive \/ ArrivePart
  PROVE  \E got \in {env.next, Part} : Store(got)
BY ArriveDoes

LEMMA TakeDoes ==
  ASSUME TypeOK, Take
  PROVE  /\ rx' \in RxRing /\ rx'.d = rx.d /\ rx'.dma = rx.dma
         /\ rx'.toGet = NextRx(rx.toGet)
         /\ h' \in HType /\ h'.pc = "copy" /\ h'.desc = rx.toGet
<1>1. rx \in RxRing /\ NextRx(rx.toGet) \in RxDescs /\ rx.toGet \in RxDescs
  BY RxTypes, NextRxIs
<1>2. rx' = [rx EXCEPT !.toGet = NextRx(rx.toGet)]
  BY DEF Take
<1> QED BY <1>1, <1>2 DEF Take, RxRing, TypeOK, HType, Pc

LEMMA CopyDoes ==
  ASSUME TypeOK, Len(env.rxOwed) > 0, Copy
  PROVE  /\ h' \in HType /\ h'.pc = "giveback" /\ h'.desc = h.desc
         /\ h'.got \in {rx.d[h.desc].buf, None}
         /\ env' \in EnvType /\ env'.rxOwed = Tail(env.rxOwed)
         /\ env'.txOwed = env.txOwed /\ env'.spoilt = env.spoilt
         /\ env'.parted = env.parted
<1>1. rx.d[h.desc].buf \in Content /\ None \in Content
  BY RxTypes, ContentFacts DEF Desc
<1>2. Tail(env.rxOwed) \in Seq(Received)
  BY RxTypes, Shortened
<1>3. env' = [env EXCEPT !.rxOwed = Tail(env.rxOwed)]
  BY DEF Copy
<1>4. PICK got \in {rx.d[h.desc].buf, None} : h' = [h EXCEPT !.pc = "giveback", !.got = got]
  BY DEF Copy
<1> QED BY <1>1, <1>2, <1>3, <1>4 DEF TypeOK, EnvType, HType, Pc

LEMMA GiveBackDoes ==
  ASSUME TypeOK, GiveBack
  PROVE  /\ rx' \in RxRing /\ rx'.toGet = rx.toGet /\ rx'.dma = rx.dma
         /\ rx'.d[h.desc].own /\ rx'.d[h.desc].buf = None
         /\ \A k \in RxDescs \ {h.desc} : rx'.d[k] = rx.d[k]
         /\ h' \in HType /\ h'.pc = "resume"
<1>1. rx \in RxRing /\ h.desc \in RxDescs /\ None \in Content
  BY RxTypes, ContentFacts
<1>2. rx' = [rx EXCEPT !.d[h.desc] = [own |-> TRUE, buf |-> None]]
  BY DEF GiveBack
<1>3. /\ rx' \in RxRing /\ rx'.toGet = rx.toGet /\ rx'.dma = rx.dma
      /\ rx'.d[h.desc] = [own |-> TRUE, buf |-> None]
      /\ \A k \in RxDescs \ {h.desc} : rx'.d[k] = rx.d[k]
  BY <1>1, <1>2 DEF RxRing, Desc
<1> QED BY <1>3 DEF GiveBack, At, TypeOK, HType, Pc

(* The steps of the handler that touch neither ring.                       *)
LEMMA QuietDoes ==
  ASSUME TypeOK, Enter \/ Look \/ Resume \/ Input \/ Clear \/ TxBuf \/ TxOwn
  PROVE  /\ UNCHANGED <<rx, tx, env>>
         /\ h' \in HType
         /\ sr' \in SrType
<1>1. /\ 0 \in 0 .. LateFrames /\ 0 \in RxDescs /\ 0 \in TxDescs
      /\ None \in Content
  BY RingAssumption, ContentFacts DEF RxDescs, TxDescs
<1> USE DEF TypeOK, HType, SrType, Pc
<1>2. CASE Enter
  BY <1>1, <1>2 DEF Enter
<1>3. CASE Look
  BY <1>1, <1>3 DEF Look
<1>4. CASE Resume
  BY <1>4 DEF Resume, At
<1>5. CASE Input
  BY <1>5 DEF Input, At
<1>6. CASE Clear
  BY <1>6 DEF Clear, At
<1>7. CASE TxBuf
  BY <1>7 DEF TxBuf
<1>8. CASE TxOwn
  BY <1>8 DEF TxOwn, At
<1> QED BY <1>2, <1>3, <1>4, <1>5, <1>6, <1>7, <1>8

(* What each step does to the transmit ring and the frames to send.        *)
LEMMA RecordDoes ==
  ASSUME TypeOK, NEW owed, NEW spoilt, NEW parted \in BOOLEAN,
         parted \/ (owed \in Seq(Content) /\ spoilt \in SUBSET TxDescs),
         Record(owed, spoilt, parted)
  PROVE  /\ env' \in EnvType /\ env'.rxOwed = env.rxOwed /\ env'.parted = parted
         /\ ~parted => env'.txOwed = owed /\ env'.spoilt = spoilt
         /\ parted => env'.spoilt = {}
<1> DEFINE o == IF parted THEN <<>> ELSE owed
           t == IF parted THEN {} ELSE spoilt
<1>1. o \in Seq(Content) /\ t \in SUBSET TxDescs
  <2>1. <<>> \in Seq(Content) /\ {} \in SUBSET TxDescs
    OBVIOUS
  <2> QED BY <2>1
<1>2. env' = [env EXCEPT !.txOwed = o, !.spoilt = t, !.parted = parted]
  BY DEF Record
<1>3. (~parted => o = owed /\ t = spoilt) /\ (parted => t = {})
  OBVIOUS
<1> HIDE DEF o, t
<1>4. env \in EnvType
  BY Types
<1>5. /\ env' \in EnvType /\ env'.rxOwed = env.rxOwed /\ env'.parted = parted
      /\ env'.txOwed = o /\ env'.spoilt = t
  BY <1>1, <1>2, <1>4 DEF EnvType
<1> QED BY <1>3, <1>5

LEMMA TransmitDoes ==
  ASSUME TypeOK, env.parted \/ Len(env.txOwed) > 0, Transmit
  PROVE  /\ tx' \in TxRing /\ tx'.toSet = tx.toSet /\ tx'.dma = NextTx(tx.dma)
         /\ tx.d[tx.dma].own /\ ~tx'.d[tx.dma].own
         /\ tx.dma \in env.spoilt => tx'.d[tx.dma].buf = tx.d[tx.dma].buf
         /\ \A k \in TxDescs \ {tx.dma} : tx'.d[k] = tx.d[k]
         /\ env' \in EnvType /\ env'.rxOwed = env.rxOwed
         /\ env'.parted = env.parted
         /\ ~env.parted => /\ env'.txOwed = Tail(env.txOwed)
                           /\ env'.spoilt = env.spoilt \ {tx.dma}
         /\ UNCHANGED <<rx, sr, h>>
<1> DEFINE b == IF tx.dma \in env.spoilt THEN tx.d[tx.dma].buf ELSE None
<1>1. tx \in TxRing /\ NextTx(tx.dma) \in TxDescs /\ tx.dma \in TxDescs
  BY RxTypes, NextTxIs
<1>2. b \in Content
  BY <1>1, ContentFacts DEF TxRing, Desc
<1> HIDE DEF b
<1>3. tx' = [tx EXCEPT !.d[tx.dma].own = FALSE, !.d[tx.dma].buf = b,
                       !.dma = NextTx(tx.dma)]
  BY DEF Transmit, b
<1>4. /\ tx' \in TxRing /\ tx'.toSet = tx.toSet /\ tx'.dma = NextTx(tx.dma)
      /\ ~tx'.d[tx.dma].own /\ tx'.d[tx.dma].buf = b
      /\ \A k \in TxDescs \ {tx.dma} : tx'.d[k] = tx.d[k]
  BY <1>1, <1>2, <1>3 DEF TxRing, Desc
<1>5. ~env.parted => Tail(env.txOwed) \in Seq(Content)
  BY RxTypes, Shortened
<1>6. /\ env' \in EnvType /\ env'.rxOwed = env.rxOwed
      /\ env'.parted = env.parted
      /\ ~env.parted => /\ env'.txOwed = Tail(env.txOwed)
                        /\ env'.spoilt = env.spoilt \ {tx.dma}
  <2>1. env.parted \in BOOLEAN /\ env.spoilt \ {tx.dma} \in SUBSET TxDescs
    BY RxTypes
  <2>2. Record(Tail(env.txOwed), env.spoilt \ {tx.dma}, env.parted)
    BY DEF Transmit
  <2> QED BY <1>5, <2>1, <2>2, RecordDoes
<1> QED BY <1>4, <1>6 DEF Transmit, b

LEMMA CleanIs ==
  ASSUME TypeOK, NEW x \in Content
  PROVE  Clean(x) \in Content /\ (~h.nested /\ ~env.parted => Clean(x) = x)
BY ContentFacts DEF Clean

LEMMA TxCopyDoes ==
  ASSUME TypeOK, TxCopy
  PROVE  /\ tx' \in TxRing /\ tx'.toSet = tx.toSet /\ tx'.dma = tx.dma
         /\ tx'.d[h.buf].own = tx.d[h.buf].own /\ tx'.d[h.buf].buf = Clean(h.got)
         /\ \A k \in TxDescs \ {h.buf} : tx'.d[k] = tx.d[k]
         /\ env' \in EnvType /\ env'.rxOwed = env.rxOwed
         /\ env'.parted = env.parted
         /\ ~env.parted => env'.txOwed = env.txOwed /\ env'.spoilt = Spoilt(h.buf)
         /\ h' \in HType /\ h.pc = "txcopy" /\ h'.pc = "txown" /\ h'.got = h.got
         /\ h'.buf = h.buf /\ h'.nested = h.nested
<1>1. tx \in TxRing /\ h.buf \in TxDescs /\ Clean(h.got) \in Content
  BY RxTypes, CleanIs
<1>2. tx' = [tx EXCEPT !.d[h.buf].buf = Clean(h.got)]
  BY DEF TxCopy
<1>3. /\ tx' \in TxRing /\ tx'.toSet = tx.toSet /\ tx'.dma = tx.dma
      /\ tx'.d[h.buf].own = tx.d[h.buf].own /\ tx'.d[h.buf].buf = Clean(h.got)
      /\ \A k \in TxDescs \ {h.buf} : tx'.d[k] = tx.d[k]
  BY <1>1, <1>2 DEF TxRing, Desc
<1>4. Spoilt(h.buf) \in SUBSET TxDescs
  BY <1>1, RxTypes DEF Spoilt
<1>5. /\ env' \in EnvType /\ env'.rxOwed = env.rxOwed
      /\ env'.parted = env.parted
      /\ ~env.parted => env'.txOwed = env.txOwed /\ env'.spoilt = Spoilt(h.buf)
  <2>1. Record(env.txOwed, Spoilt(h.buf), env.parted)
    BY DEF TxCopy
  <2> QED BY <1>4, <2>1, RxTypes, RecordDoes
<1>6. /\ h' \in HType /\ h.pc = "txcopy" /\ h'.pc = "txown" /\ h'.got = h.got
      /\ h'.buf = h.buf /\ h'.nested = h.nested
  BY DEF TxCopy, At, TypeOK, HType, Pc
<1> QED BY <1>3, <1>5, <1>6

LEMMA TxGiveDoes ==
  ASSUME TypeOK, TxGive
  PROVE  /\ tx' \in TxRing /\ tx'.toSet = tx.toSet /\ tx'.dma = tx.dma
         /\ tx'.d[tx.toSet].own /\ tx'.d[tx.toSet].buf = Clean(tx.d[tx.toSet].buf)
         /\ \A k \in TxDescs \ {tx.toSet} : tx'.d[k] = tx.d[k]
         /\ env' \in EnvType /\ env'.rxOwed = env.rxOwed
         /\ env'.parted = (env.parted \/ tx.d[tx.toSet].own)
         /\ env'.parted => env'.spoilt = {}
         /\ ~env'.parted =>
              /\ env'.txOwed = Append(env.txOwed, Clean(h.got))
              /\ env'.spoilt = IF h.nested THEN env.spoilt \cup {tx.toSet}
                                           ELSE env.spoilt
         /\ h' \in HType /\ h.pc = "txgive" /\ h'.pc = "txresume"
         /\ h'.nested = h.nested
<1>1. /\ tx \in TxRing /\ tx.toSet \in TxDescs /\ Clean(h.got) \in Content
      /\ tx.d[tx.toSet].buf \in Content /\ tx.d[tx.toSet].own \in BOOLEAN
  BY RxTypes, CleanIs DEF Desc
<1>2. Clean(tx.d[tx.toSet].buf) \in Content
  BY <1>1, CleanIs
<1>3. tx' = [tx EXCEPT !.d[tx.toSet] =
               [own |-> TRUE, buf |-> Clean(tx.d[tx.toSet].buf)]]
  BY <1>1 DEF TxGive, TxRing
<1>4. /\ tx' \in TxRing /\ tx'.toSet = tx.toSet /\ tx'.dma = tx.dma
      /\ tx'.d[tx.toSet] = [own |-> TRUE, buf |-> Clean(tx.d[tx.toSet].buf)]
      /\ \A k \in TxDescs \ {tx.toSet} : tx'.d[k] = tx.d[k]
  BY <1>1, <1>2, <1>3 DEF TxRing, Desc
<1> DEFINE o == Append(env.txOwed, Clean(h.got))
           t == IF h.nested THEN env.spoilt \cup {tx.toSet} ELSE env.spoilt
           q == env.parted \/ tx.d[tx.toSet].own
<1>5. o \in Seq(Content) /\ t \in SUBSET TxDescs /\ q \in BOOLEAN
  BY <1>1, RxTypes, Appended
<1>6. Record(o, t, q)
  BY DEF TxGive
<1>7. /\ env' \in EnvType /\ env'.rxOwed = env.rxOwed /\ env'.parted = q
      /\ ~q => env'.txOwed = o /\ env'.spoilt = t
      /\ q => env'.spoilt = {}
  <2> HIDE DEF o, t, q
  <2> QED BY <1>5, <1>6, RecordDoes
<1>8. /\ h' \in HType /\ h.pc = "txgive" /\ h'.pc = "txresume"
      /\ h'.nested = h.nested
  BY DEF TxGive, At, TypeOK, HType, Pc
<1>9. tx'.d[tx.toSet].own /\ tx'.d[tx.toSet].buf = Clean(tx.d[tx.toSet].buf)
  BY <1>4
<1> QED BY <1>4, <1>7, <1>8, <1>9, Zenon

LEMMA TxResumeDoes ==
  ASSUME TypeOK, TxResume
  PROVE  /\ tx' \in TxRing /\ tx'.d = tx.d /\ tx'.dma = tx.dma
         /\ tx'.toSet = NextTx(tx.toSet)
         /\ h' \in HType /\ h'.pc = "look"
         /\ sr' \in SrType /\ sr'.R = sr.R
<1>1. tx \in TxRing /\ NextTx(tx.toSet) \in TxDescs
  BY RxTypes, NextTxIs
<1>2. tx' = [tx EXCEPT !.toSet = NextTx(tx.toSet)]
  BY DEF TxResume
<1> QED BY <1>1, <1>2 DEF TxResume, At, TxRing, TypeOK, HType, SrType, Pc

(* A print changes nothing of the handler but what it may still expect.    *)
LEMMA PrintInterrupts ==
  ASSUME TypeOK, DebugPrint
  PROVE  /\ h' \in HType /\ h'.pc = h.pc /\ h'.desc = h.desc /\ h'.got = h.got
         /\ h'.buf = h.buf /\ h'.late = h.late
         /\ h.pc \in Sending => h'.nested
         /\ h.pc \notin Sending => h'.nested = h.nested
         /\ UNCHANGED rx
<1>1. h' = [h EXCEPT !.nested = h.nested \/ h.pc \in Sending] /\ UNCHANGED rx
  BY DEF DebugPrint
<1>2. h \in HType
  BY Types
<1> QED BY <1>1, <1>2 DEF HType

LEMMA PrintDoes ==
  ASSUME TypeOK, DebugPrint, ~tx.d[tx.toSet].own
  PROVE  /\ tx' \in TxRing /\ tx'.toSet = NextTx(tx.toSet) /\ tx'.dma = tx.dma
         /\ tx'.d[tx.toSet].own /\ tx'.d[tx.toSet].buf = Text
         /\ \A k \in TxDescs \ {tx.toSet} : tx'.d[k] = tx.d[k]
         /\ env' \in EnvType /\ env'.rxOwed = env.rxOwed
         /\ env'.parted = (env.parted \/ h.pc = "txresume")
         /\ env'.parted => env'.spoilt = {}
         /\ ~env'.parted => /\ env'.txOwed = Append(env.txOwed, Text)
                            /\ env'.spoilt = env.spoilt
         /\ sr' \in SrType /\ sr'.R = sr.R
<1>1. /\ tx \in TxRing /\ tx.toSet \in TxDescs /\ NextTx(tx.toSet) \in TxDescs
      /\ Text \in Content
  BY RxTypes, NextTxIs, ContentFacts
<1>2. tx' = [tx EXCEPT !.d[tx.toSet] = [own |-> TRUE, buf |-> Text],
                       !.toSet = NextTx(tx.toSet)]
  BY DEF DebugPrint
<1>3. /\ tx' \in TxRing /\ tx'.toSet = NextTx(tx.toSet) /\ tx'.dma = tx.dma
      /\ tx'.d[tx.toSet] = [own |-> TRUE, buf |-> Text]
      /\ \A k \in TxDescs \ {tx.toSet} : tx'.d[k] = tx.d[k]
  BY <1>1, <1>2 DEF TxRing, Desc
<1> DEFINE o == Append(env.txOwed, Text)
           q == env.parted \/ h.pc = "txresume"
<1>4. o \in Seq(Content) /\ env.spoilt \in SUBSET TxDescs /\ q \in BOOLEAN
  BY <1>1, RxTypes, Appended
<1>5. Record(o, env.spoilt, q)
  BY DEF DebugPrint
<1>6. /\ env' \in EnvType /\ env'.rxOwed = env.rxOwed /\ env'.parted = q
      /\ ~q => env'.txOwed = o /\ env'.spoilt = env.spoilt
      /\ q => env'.spoilt = {}
  <2> HIDE DEF o, q
  <2> QED BY <1>4, <1>5, RecordDoes
<1>7. sr' \in SrType /\ sr'.R = sr.R
  BY DEF DebugPrint, TypeOK, SrType
<1>8. tx'.d[tx.toSet].own /\ tx'.d[tx.toSet].buf = Text
  BY <1>3
<1> QED BY <1>3, <1>6, <1>7, <1>8, Zenon

LEMMA PrintSpoilsDoes ==
  ASSUME TypeOK, DebugPrint, tx.d[tx.toSet].own
  PROVE  /\ tx' \in TxRing /\ tx'.toSet = tx.toSet /\ tx'.dma = tx.dma
         /\ tx'.d[tx.toSet].own = tx.d[tx.toSet].own /\ tx'.d[tx.toSet].buf = Text
         /\ \A k \in TxDescs \ {tx.toSet} : tx'.d[k] = tx.d[k]
         /\ env' \in EnvType /\ env'.rxOwed = env.rxOwed
         /\ env'.parted = env.parted
         /\ ~env.parted => env'.txOwed = env.txOwed /\ env'.spoilt = Spoilt(tx.toSet)
         /\ UNCHANGED sr
<1>1. /\ tx \in TxRing /\ tx.toSet \in TxDescs /\ Text \in Content
  BY RxTypes, ContentFacts
<1>2. tx' = [tx EXCEPT !.d[tx.toSet].buf = Text]
  BY DEF DebugPrint
<1>3. /\ tx' \in TxRing /\ tx'.toSet = tx.toSet /\ tx'.dma = tx.dma
      /\ tx'.d[tx.toSet].own = tx.d[tx.toSet].own /\ tx'.d[tx.toSet].buf = Text
      /\ \A k \in TxDescs \ {tx.toSet} : tx'.d[k] = tx.d[k]
  BY <1>1, <1>2 DEF TxRing, Desc
<1>4. Spoilt(tx.toSet) \in SUBSET TxDescs
  BY <1>1, RxTypes DEF Spoilt
<1>5. /\ env' \in EnvType /\ env'.rxOwed = env.rxOwed
      /\ env'.parted = env.parted
      /\ ~env.parted => env'.txOwed = env.txOwed /\ env'.spoilt = Spoilt(tx.toSet)
  <2>1. Record(env.txOwed, Spoilt(tx.toSet), env.parted)
    BY DEF DebugPrint
  <2> QED BY <1>4, <2>1, RxTypes, RecordDoes
<1> QED BY <1>3, <1>5 DEF DebugPrint

(* Once the driver and the DMA have parted they stay so.                   *)
LEMMA PartedStays ==
  ASSUME TypeOK, env.parted, [Next]_vars
  PROVE  env'.parted
<1>1. CASE Arrive \/ ArrivePart
  BY <1>1, Arrived, StoreDoes
<1>2. CASE Transmit
  BY <1>2, TransmitDoes
<1>3. CASE DebugPrint
  BY <1>3, PrintDoes, PrintSpoilsDoes
<1>4. CASE Enter \/ Look \/ Resume \/ Input \/ Clear \/ TxBuf \/ TxOwn
  BY <1>4, QuietDoes
<1>5. CASE TxCopy \/ TxGive
  BY <1>5, TxCopyDoes, TxGiveDoes
<1>6. CASE Copy
  BY <1>6, Types DEF Copy, EnvType
<1>7. CASE Suspend \/ Take \/ GiveBack \/ TxResume \/ UNCHANGED vars
  BY <1>7 DEF Suspend, Take, GiveBack, TxResume, vars
<1> QED BY <1>1, <1>2, <1>3, <1>4, <1>5, <1>6, <1>7 DEF Next, Handler

-----------------------------------------------------------------------------
(* The frames to send are counted right, whatever prints come between.     *)

Owned == {i \in TxDescs : tx.d[i].own}

LEMMA OwnedFinite ==
  IsFiniteSet(Owned) /\ Cardinality(Owned) \in Nat
<1>1. IsFiniteSet(TxDescs)
  BY RingAssumption, FS_Interval DEF TxDescs
<1>2. IsFiniteSet(Owned)
  BY <1>1, FS_Subset DEF Owned
<1> QED BY <1>2, FS_CardinalityType

LEMMA OneMore ==
  ASSUME TypeOK, InvCount, ~env.parted, NEW e \in Content, NEW i \in TxDescs,
         ~tx.d[i].own, tx'.d[i].own, \A k \in TxDescs \ {i} : tx'.d[k] = tx.d[k],
         env'.txOwed = Append(env.txOwed, e)
  PROVE  InvCount'
<1>1. Owned' = Owned \cup {i} /\ i \notin Owned
  BY DEF Owned
<1>2. Cardinality(Owned') = Cardinality(Owned) + 1
  BY <1>1, OwnedFinite, FS_AddElement
<1>3. Len(env'.txOwed) = Len(env.txOwed) + 1
  BY RxTypes, Appended
<1> QED BY <1>2, <1>3 DEF InvCount, Owned

LEMMA OneLess ==
  ASSUME TypeOK, InvCount, ~env.parted, NEW i \in TxDescs, tx.d[i].own, ~tx'.d[i].own,
         \A k \in TxDescs \ {i} : tx'.d[k] = tx.d[k],
         env'.txOwed = Tail(env.txOwed), Len(env.txOwed) > 0
  PROVE  InvCount'
<1>1. Owned' = Owned \ {i} /\ i \in Owned
  BY DEF Owned
<1>2. Cardinality(Owned') = Cardinality(Owned) - 1
  BY <1>1, OwnedFinite, FS_RemoveElement
<1>3. Len(env'.txOwed) = Len(env.txOwed) - 1
  BY RxTypes, Shortened
<1> QED BY <1>2, <1>3 DEF InvCount, Owned

LEMMA NoneMore ==
  ASSUME InvCount, \A k \in TxDescs : tx'.d[k].own <=> tx.d[k].own,
         env.parted => env'.parted, ~env'.parted => env'.txOwed = env.txOwed
  PROVE  InvCount'
<1>1. Owned' = Owned
  BY DEF Owned
<1> QED BY <1>1 DEF InvCount, Owned

(* The DMA sends only what is owed.                                        *)
LEMMA SomeOwed ==
  ASSUME TypeOK, InvCount, Transmit
  PROVE  env.parted \/ Len(env.txOwed) > 0
<1> SUFFICES ASSUME ~env.parted PROVE Len(env.txOwed) > 0
  OBVIOUS
<1>1. tx.dma \in Owned
  BY RxTypes DEF Transmit, Owned
<1>2. Cardinality(Owned) # 0
  BY <1>1, OwnedFinite, FS_EmptySet
<1>3. Len(env.txOwed) = Cardinality(Owned)
  BY DEF InvCount, Owned
<1> QED BY <1>2, <1>3, OwnedFinite

LEMMA TypesNext ==
  ASSUME TypeOK, InvCount, InvRx, [Next]_vars
  PROVE  TypeOK' /\ InvCount'
<1>1. CASE Arrive \/ ArrivePart
  <2>1. PICK got \in {env.next, Part} : Store(got)
    BY <1>1, Arrived
  <2>2. TypeOK'
    BY <1>1, <2>1, StoreDoes, ArriveDoes, Types, TypesThen
  <2>3. InvCount'
    BY <2>1, StoreDoes, NoneMore
  <2> QED BY <2>2, <2>3
<1>2. CASE Transmit
  <2>1. TypeOK'
    BY <1>2, SomeOwed, TransmitDoes, Types, TypesThen
  <2>2. InvCount'
    <3>1. CASE env.parted
      BY <1>2, <3>1, SomeOwed, TransmitDoes DEF InvCount
    <3>2. CASE ~env.parted
      BY <1>2, <3>2, SomeOwed, TransmitDoes, OneLess, RxTypes
    <3> QED BY <3>1, <3>2
  <2> QED BY <2>1, <2>2
<1>3. CASE Suspend
  <2>1. TypeOK'
    BY <1>3 DEF Suspend, TypeOK
  <2>2. InvCount'
    BY <1>3, NoneMore DEF Suspend
  <2> QED BY <2>1, <2>2
<1>4. CASE DebugPrint /\ tx.d[tx.toSet].own
  <2>1. TypeOK'
    BY <1>4, PrintSpoilsDoes, PrintInterrupts, Types, TypesThen
  <2>2. \A k \in TxDescs : tx'.d[k].own <=> tx.d[k].own
    BY <1>4, PrintSpoilsDoes
  <2>3. InvCount'
    BY <1>4, <2>2, PrintSpoilsDoes, NoneMore
  <2> QED BY <2>1, <2>3
<1>5. CASE DebugPrint /\ ~tx.d[tx.toSet].own
  <2>1. TypeOK'
    BY <1>5, PrintDoes, PrintInterrupts, Types, TypesThen
  <2>2. InvCount'
    <3>1. CASE env'.parted
      BY <3>1 DEF InvCount
    <3>2. CASE ~env'.parted
      <4>1. ~env.parted
        BY <1>5, <3>2, PrintDoes
      <4> QED BY <1>5, <3>2, <4>1, PrintDoes, OneMore, RxTypes, ContentFacts
    <3> QED BY <3>1, <3>2
  <2> QED BY <2>1, <2>2
<1>6. CASE Enter \/ Look \/ Resume \/ Input \/ Clear \/ TxBuf \/ TxOwn
  <2>1. TypeOK'
    BY <1>6, QuietDoes, Types, TypesThen
  <2>2. InvCount'
    BY <1>6, QuietDoes, NoneMore
  <2> QED BY <2>1, <2>2
<1>7. CASE Take
  <2>1. TypeOK'
    BY <1>7, TakeDoes, Types, TypesThen DEF Take
  <2>2. InvCount'
    BY <1>7, NoneMore DEF Take
  <2> QED BY <2>1, <2>2
<1>8. CASE Copy
  <2>1. Len(env.rxOwed) > 0
    BY <1>8 DEF InvRx, Copy
  <2>2. TypeOK'
    BY <1>8, <2>1, CopyDoes, Types, TypesThen DEF Copy
  <2>3. InvCount'
    BY <1>8, <2>1, CopyDoes, NoneMore DEF Copy
  <2> QED BY <2>2, <2>3
<1>9. CASE GiveBack
  <2>1. TypeOK'
    BY <1>9, GiveBackDoes, Types, TypesThen DEF GiveBack
  <2>2. InvCount'
    BY <1>9, NoneMore DEF GiveBack
  <2> QED BY <2>1, <2>2
<1>10. CASE TxCopy
  <2>1. TypeOK'
    BY <1>10, TxCopyDoes, Types, TypesThen DEF TxCopy
  <2>2. \A k \in TxDescs : tx'.d[k].own <=> tx.d[k].own
    BY <1>10, TxCopyDoes
  <2>3. InvCount'
    BY <1>10, <2>2, TxCopyDoes, NoneMore
  <2> QED BY <2>1, <2>3
<1>11. CASE TxGive
  <2>1. TypeOK'
    BY <1>11, TxGiveDoes, Types, TypesThen DEF TxGive
  <2>2. InvCount'
    <3>1. CASE env'.parted
      BY <3>1 DEF InvCount
    <3>2. CASE ~env'.parted
      <4>1. /\ ~env.parted /\ ~tx.d[tx.toSet].own
            /\ env'.txOwed = Append(env.txOwed, Clean(h.got))
            /\ Clean(h.got) \in Content
        BY <1>11, <3>2, TxGiveDoes, RxTypes, CleanIs
      <4> QED BY <1>11, <4>1, TxGiveDoes, OneMore, RxTypes
    <3> QED BY <3>1, <3>2
  <2> QED BY <2>1, <2>2
<1>12. CASE TxResume
  <2>1. TypeOK'
    BY <1>12, TxResumeDoes, Types, TypesThen DEF TxResume
  <2>2. InvCount'
    BY <1>12, TxResumeDoes, NoneMore DEF TxResume
  <2> QED BY <2>1, <2>2
<1>13. CASE UNCHANGED vars
  BY <1>13 DEF vars, TypeOK, InvCount
<1> QED BY <1>1, <1>2, <1>3, <1>4, <1>5, <1>6, <1>7, <1>8, <1>9, <1>10, <1>11,
           <1>12, <1>13 DEF Next, Handler

-----------------------------------------------------------------------------
(* The receive ring.                                                       *)

LEMMA RxRange ==
  ASSUME TypeOK, InvRx
  PROVE  /\ ETH_RXBUFNB \in Nat \ {0} /\ RxDescs = 0 .. ETH_RXBUFNB - 1
         /\ Len(env.rxOwed) \in Nat /\ Len(env.rxOwed) <= ETH_RXBUFNB
         /\ FirstOwed \in RxDescs
         /\ \A i \in RxDescs : Ahead(ETH_RXBUFNB, FirstOwed, i) \in 0 .. ETH_RXBUFNB - 1
<1>1. ETH_RXBUFNB \in Nat \ {0} /\ RxDescs = 0 .. ETH_RXBUFNB - 1
  BY RingAssumption DEF RxDescs
<1>2. FirstOwed \in RxDescs
  BY RxTypes DEF FirstOwed
<1>3. Len(env.rxOwed) \in Nat
  BY RxTypes, LenProperties
<1> QED BY <1>1, <1>2, <1>3, AheadFacts DEF InvRx

(* Nothing of the ring changes.                                            *)
LEMMA RxSame ==
  ASSUME TypeOK, InvRx, rx' = rx, env'.rxOwed = env.rxOwed,
         \/ h'.pc = h.pc /\ h'.desc = h.desc
         \/ /\ h.pc \notin {"copy", "giveback"} /\ h'.pc \notin {"copy", "giveback"}
            /\ h'.pc = "take" => Len(env.rxOwed) > 0
  PROVE  InvRx'
<1>1. FirstOwed' = FirstOwed
  BY DEF FirstOwed
<1> QED BY <1>1 DEF InvRx

(* A frame is received.                                                    *)
LEMMA RxArrive ==
  ASSUME TypeOK, InvRx, NEW got \in Received, IsStored(got),
         h'.pc = h.pc, h'.desc = h.desc
  PROVE  InvRx' /\ Len(env'.rxOwed) = Len(env.rxOwed) + 1
<1> DEFINE n == ETH_RXBUFNB
           f == FirstOwed
           s == env.rxOwed
           L == Len(s)
<1>1. /\ n \in Nat \ {0} /\ RxDescs = 0 .. n - 1 /\ L \in Nat /\ L <= n
      /\ f \in RxDescs /\ \A i \in RxDescs : Ahead(n, f, i) \in 0 .. n - 1
  BY RxRange
<1>2. rx.dma \in RxDescs /\ rx.dma \in 0 .. n - 1 /\ f \in 0 .. n - 1
  BY <1>1, RxTypes
<1>3. FirstOwed' = f
  BY DEF FirstOwed, IsStored
<1>4. /\ Len(env'.rxOwed) = L + 1
      /\ \A k \in 1 .. L : env'.rxOwed[k] = s[k]
      /\ env'.rxOwed[L + 1] = got
  BY RxTypes, Appended DEF IsStored
<1>5. Ahead(n, f, rx.dma) = L /\ L < n
  <2>1. Ahead(n, f, rx.dma) = IF L = n THEN 0 ELSE L
    BY DEF InvRx
  <2>2. L # n
    <3> SUFFICES ASSUME L = n PROVE FALSE
      OBVIOUS
    <3>1. Ahead(n, f, rx.dma) < L
      BY <1>1, <1>2, SMTT(60)
    <3> QED BY <1>2, <3>1 DEF InvRx, IsStored
  <2> QED BY <1>1, <2>1, <2>2, SMTT(60)
<1>6. \A i \in RxDescs :
        /\ Ahead(n, f, i) < L => ~rx.d[i].own /\ rx.d[i].buf = s[Ahead(n, f, i) + 1]
        /\ Ahead(n, f, i) >= L => (rx.d[i].own <=> ~(h.pc = "giveback" /\ i = h.desc))
  BY DEF InvRx
<1>7. h.pc = "giveback" => h.desc \in 0 .. n - 1 /\ f = Wrapped(n, h.desc)
  BY <1>1, RxTypes, NextRxIs DEF InvRx, FirstOwed
<1>8. /\ h'.pc \in {"copy", "giveback"} => rx'.toGet = NextRx(h'.desc)
      /\ rx'.dma = Wrapped(n, rx.dma)
  BY <1>2, NextRxIs DEF InvRx, IsStored
<1> HIDE DEF n, f, s, L
<1>a. n \in Nat \ {0} /\ L \in Nat
  BY <1>1
<1>9. ASSUME NEW i \in RxDescs
      PROVE  /\ Ahead(n, f, i) < L + 1 =>
                   ~rx'.d[i].own /\ rx'.d[i].buf = env'.rxOwed[Ahead(n, f, i) + 1]
             /\ Ahead(n, f, i) >= L + 1 =>
                   (rx'.d[i].own <=> ~(h'.pc = "giveback" /\ i = h'.desc))
  <2>1. Ahead(n, f, i) \in 0 .. n - 1
    BY <1>1
  <2>2. CASE i = rx.dma
    BY <1>1, <1>4, <1>5, <2>2 DEF IsStored
  <2>3. CASE i # rx.dma
    <3>1. Ahead(n, f, i) # L
      BY <1>1, <1>2, <1>5, <2>3, AheadOne
    <3>2. rx'.d[i] = rx.d[i]
      BY <2>3 DEF IsStored
    <3>3. Ahead(n, f, i) < L =>
            env'.rxOwed[Ahead(n, f, i) + 1] = s[Ahead(n, f, i) + 1]
      <4>1. ASSUME NEW k \in 0 .. n - 1, k < L
            PROVE  env'.rxOwed[k + 1] = s[k + 1]
        <5>1. k + 1 \in 1 .. L
          BY <1>a, <4>1
        <5> QED BY <1>4, <5>1
      <4> QED BY <2>1, <4>1
    <3>4. /\ Ahead(n, f, i) < L + 1 <=> Ahead(n, f, i) < L
          /\ Ahead(n, f, i) >= L + 1 <=> Ahead(n, f, i) >= L
      <4>1. ASSUME NEW k \in 0 .. n - 1, k # L
            PROVE  (k < L + 1 <=> k < L) /\ (k >= L + 1 <=> k >= L)
        BY <1>a, <4>1
      <4> QED BY <2>1, <3>1, <4>1
    <3> QED BY <1>6, <3>2, <3>3, <3>4
  <2> QED BY <2>2, <2>3
<1>10. Ahead(n, f, rx'.dma) = IF L + 1 = n THEN 0 ELSE L + 1
  <2>1. Ahead(n, f, rx'.dma) = IF L = n - 1 THEN 0 ELSE L + 1
    BY <1>a, <1>2, <1>5, <1>8, AheadPush
  <2>2. L = n - 1 <=> L + 1 = n
    BY <1>1
  <2> QED BY <2>1, <2>2
<1>11. h.pc = "giveback" => L + 1 < n
  <2> SUFFICES ASSUME h.pc = "giveback" PROVE L + 1 # n
    BY <1>1, <1>5
  <2> SUFFICES ASSUME L = n - 1 PROVE FALSE
    BY <1>1
  <2>1. Ahead(n, f, h.desc) = n - 1
    BY <1>1, <1>7, AheadBehind
  <2>2. rx.dma = h.desc
    BY <1>1, <1>2, <1>5, <1>7, <2>1, AheadOne
  <2>3. ~rx.d[h.desc].own
    <3>1. h.desc \in RxDescs
      BY <1>1, <1>7
    <3>2. n - 1 >= L
      BY <1>a
    <3> QED BY <1>6, <2>1, <3>1, <3>2
  <2> QED BY <2>2, <2>3 DEF IsStored
<1>12. L + 1 > 0 /\ L + 1 <= n
  BY <1>1, <1>5
<1> QED
  <2>1. Len(env'.rxOwed) <= ETH_RXBUFNB /\ Len(env'.rxOwed) > 0
    BY <1>4, <1>12 DEF n
  <2>2. \A i \in RxDescs :
          LET k == Ahead(ETH_RXBUFNB, FirstOwed', i)
          IN /\ k < Len(env'.rxOwed) => /\ ~rx'.d[i].own
                                        /\ rx'.d[i].buf = env'.rxOwed[k + 1]
             /\ k >= Len(env'.rxOwed) =>
                  (rx'.d[i].own <=> ~(h'.pc = "giveback" /\ i = h'.desc))
    BY <1>3, <1>4, <1>9 DEF n
  <2>3. Ahead(ETH_RXBUFNB, FirstOwed', rx'.dma) =
          IF Len(env'.rxOwed) = ETH_RXBUFNB THEN 0 ELSE Len(env'.rxOwed)
    BY <1>3, <1>4, <1>10 DEF n
  <2>4. h'.pc = "giveback" => Len(env'.rxOwed) < ETH_RXBUFNB
    BY <1>4, <1>11 DEF n
  <2>5. InvRx'
    BY <1>8, <2>1, <2>2, <2>3, <2>4 DEF InvRx
  <2> QED BY <1>4, <2>5 DEF L, s

(* ETH_RxPkt_ChainMode moves the driver's position past the frame it is    *)
(* about to copy.                                                          *)
LEMMA RxTake ==
  ASSUME TypeOK, InvRx, Take
  PROVE  InvRx' /\ env'.rxOwed = env.rxOwed
<1>1. /\ rx'.d = rx.d /\ rx'.dma = rx.dma /\ rx'.toGet = NextRx(rx.toGet)
      /\ h'.pc = "copy" /\ h'.desc = rx.toGet /\ h.pc = "take" /\ env' = env
  BY TakeDoes DEF Take
<1>2. FirstOwed' = FirstOwed
  BY <1>1 DEF FirstOwed
<1> QED BY <1>1, <1>2 DEF InvRx

(* The first frame owed is copied: the rest of the queue moves up by one,  *)
(* and so does the ring.                                                   *)
LEMMA RxCopy ==
  ASSUME TypeOK, InvRx, Copy
  PROVE  /\ InvRx' /\ env.rxOwed # <<>>
         /\ rx.d[h.desc].buf = Head(env.rxOwed)
<1> DEFINE n == ETH_RXBUFNB
           f == h.desc
           s == env.rxOwed
           L == Len(s)
<1>1. /\ n \in Nat \ {0} /\ RxDescs = 0 .. n - 1 /\ L \in Nat /\ L <= n /\ L > 0
      /\ f \in RxDescs /\ f \in 0 .. n - 1 /\ h.pc = "copy" /\ FirstOwed = f
      /\ rx.toGet = NextRx(f) /\ NextRx(f) = Wrapped(n, f)
  BY RxRange, RxTypes, NextRxIs DEF InvRx, Copy, FirstOwed
<1>2. /\ rx' = rx /\ h'.pc = "giveback" /\ h'.desc = f
      /\ env'.rxOwed = Tail(s)
  BY <1>1, CopyDoes DEF Copy
<1>3. FirstOwed' = Wrapped(n, f)
  BY <1>1, <1>2 DEF FirstOwed
<1>4. /\ Len(env'.rxOwed) = L - 1 /\ s # <<>> /\ Head(s) = s[1]
      /\ \A k \in 1 .. L - 1 : env'.rxOwed[k] = s[k + 1]
  BY <1>1, <1>2, RxTypes, Shortened
<1>5. \A i \in RxDescs :
        /\ Ahead(n, f, i) < L => ~rx.d[i].own /\ rx.d[i].buf = s[Ahead(n, f, i) + 1]
        /\ Ahead(n, f, i) >= L => rx.d[i].own
  BY <1>1 DEF InvRx
<1>6. /\ Ahead(n, f, rx.dma) = IF L = n THEN 0 ELSE L
      /\ rx.dma \in 0 .. n - 1
  BY <1>1, RxTypes DEF InvRx
<1> HIDE DEF n, f, s, L
<1>a. n \in Nat \ {0} /\ L \in Nat /\ L <= n /\ L > 0 /\ f \in 0 .. n - 1
  BY <1>1
<1>7. rx.d[f].buf = s[1] /\ ~rx.d[f].own
  <2>1. Ahead(n, f, f) = 0 /\ 0 < L /\ 0 + 1 = 1
    BY <1>a, AheadBehind
  <2> QED BY <1>1, <1>5, <2>1
<1>8. ASSUME NEW i \in RxDescs, NEW k \in 0 .. n - 1, k = Ahead(n, Wrapped(n, f), i)
      PROVE  /\ k < L - 1 => ~rx.d[i].own /\ rx.d[i].buf = env'.rxOwed[k + 1]
             /\ k >= L - 1 => (rx.d[i].own <=> i # f)
  <2>1. CASE i = f
    <3>1. k = n - 1
      BY <1>a, <1>8, <2>1, AheadBehind
    <3> QED BY <1>a, <1>7, <2>1, <3>1
  <2>2. CASE i # f
    <3>1. Ahead(n, f, i) \in 1 .. n - 1 /\ k = Ahead(n, f, i) - 1
      BY <1>1, <1>a, <1>8, <2>2, AheadPop
    <3>2. ASSUME NEW m \in 1 .. n - 1, m = Ahead(n, f, i), k = m - 1
          PROVE  /\ k < L - 1 => ~rx.d[i].own /\ rx.d[i].buf = env'.rxOwed[k + 1]
                 /\ k >= L - 1 => rx.d[i].own
      <4>1. k < L - 1 => m < L /\ k + 1 = m /\ m \in 1 .. L - 1
        BY <1>a, <3>2
      <4>2. k >= L - 1 => m >= L
        BY <1>a, <3>2
      <4>3. k < L - 1 => env'.rxOwed[m] = s[m + 1]
        BY <1>4, <4>1
      <4> QED BY <1>5, <3>2, <4>1, <4>2, <4>3
    <3> QED BY <2>2, <3>1, <3>2
  <2> QED BY <2>1, <2>2
<1>9. \A i \in RxDescs : Ahead(n, Wrapped(n, f), i) \in 0 .. n - 1
  BY <1>1, WrapMod, AheadFacts
<1>10. Ahead(n, Wrapped(n, f), rx.dma) = L - 1
  <2>1. CASE L = n
    <3>1. rx.dma = f
      <4>1. Ahead(n, f, rx.dma) = Ahead(n, f, f)
        BY <1>a, <1>6, <2>1, AheadBehind
      <4> QED BY <1>a, <1>6, <4>1, AheadOne
    <3> QED BY <1>a, <2>1, <3>1, AheadBehind
  <2>2. CASE L # n
    <3>1. Ahead(n, f, rx.dma) = L
      BY <1>6, <2>2
    <3>2. rx.dma # f
      BY <1>a, <3>1, AheadBehind
    <3> QED BY <1>a, <1>6, <3>1, <3>2, AheadPop
  <2> QED BY <2>1, <2>2
<1>11. InvRx'
  <2>1. Len(env'.rxOwed) < ETH_RXBUFNB /\ Len(env'.rxOwed) <= ETH_RXBUFNB
    BY <1>4, <1>a DEF n
  <2>2. \A i \in RxDescs :
          LET k == Ahead(ETH_RXBUFNB, FirstOwed', i)
          IN /\ k < Len(env'.rxOwed) => /\ ~rx'.d[i].own
                                        /\ rx'.d[i].buf = env'.rxOwed[k + 1]
             /\ k >= Len(env'.rxOwed) =>
                  (rx'.d[i].own <=> ~(h'.pc = "giveback" /\ i = h'.desc))
    BY <1>2, <1>3, <1>4, <1>8, <1>9 DEF n
  <2>3. Ahead(ETH_RXBUFNB, FirstOwed', rx'.dma) =
          IF Len(env'.rxOwed) = ETH_RXBUFNB THEN 0 ELSE Len(env'.rxOwed)
    <3>1. L - 1 # n
      BY <1>a
    <3> QED BY <1>2, <1>3, <1>4, <1>10, <3>1 DEF n
  <2>4. rx'.toGet = NextRx(h'.desc)
    BY <1>1, <1>2
  <2> QED BY <1>2, <2>1, <2>2, <2>3, <2>4 DEF InvRx
<1> QED BY <1>4, <1>7, <1>11 DEF f, s

(* The descriptor is given back to the DMA.                                *)
LEMMA RxGiveBack ==
  ASSUME TypeOK, InvRx, GiveBack
  PROVE  InvRx' /\ env'.rxOwed = env.rxOwed
<1> DEFINE n == ETH_RXBUFNB
           L == Len(env.rxOwed)
<1>1. /\ h.pc = "giveback" /\ h'.pc = "resume" /\ env' = env
      /\ rx'.toGet = rx.toGet /\ rx'.dma = rx.dma /\ rx'.d[h.desc].own
      /\ \A k \in RxDescs \ {h.desc} : rx'.d[k] = rx.d[k]
      /\ h.desc \in RxDescs
  BY GiveBackDoes, RxTypes DEF GiveBack, At
<1>2. FirstOwed' = FirstOwed
  BY <1>1 DEF FirstOwed
<1>3. /\ n \in Nat \ {0} /\ L \in Nat /\ L < n /\ RxDescs = 0 .. n - 1
      /\ FirstOwed = Wrapped(n, h.desc)
  BY <1>1, RxRange, NextRxIs DEF InvRx, FirstOwed
<1>4. Ahead(n, FirstOwed, h.desc) = n - 1
  BY <1>1, <1>3, AheadBehind
<1>5. ~(n - 1 < L)
  BY <1>3
<1>6. \A i \in RxDescs :
        LET k == Ahead(n, FirstOwed, i)
        IN /\ k < L => ~rx'.d[i].own /\ rx'.d[i].buf = env.rxOwed[k + 1]
           /\ k >= L => rx'.d[i].own
  BY <1>1, <1>4, <1>5 DEF InvRx
<1> QED BY <1>1, <1>2, <1>6 DEF InvRx

-----------------------------------------------------------------------------
(* The inductive invariant of the receiver.                                *)

LEMMA InitRx == Init => IndRx
<1> SUFFICES ASSUME Init PROVE IndRx
  OBVIOUS
<1>1. TypeOK
  BY InitTypes
<1>2. /\ env.rxOwed = <<>> /\ env.txOwed = <<>> /\ h.pc = "idle" /\ h.late = 0
      /\ rx.toGet = 0 /\ rx.dma = 0 /\ \A i \in RxDescs : rx.d[i].own
      /\ \A i \in TxDescs : ~tx.d[i].own
  BY RxTypes DEF Init
<1>3. ETH_RXBUFNB \in Nat \ {0} /\ LateFrames \in Nat /\ Len(<<>>) = 0
  BY RingAssumption
<1>4. InvRx
  <2>1. FirstOwed = 0
    BY <1>2 DEF FirstOwed
  <2>2. Ahead(ETH_RXBUFNB, 0, 0) = 0 /\ 0 # ETH_RXBUFNB
    BY <1>3 DEF Ahead
  <2>3. \A i \in RxDescs : ~(Ahead(ETH_RXBUFNB, 0, i) < 0)
    BY <1>3, AheadFacts DEF RxDescs, Ahead
  <2> QED BY <1>2, <1>3, <2>1, <2>2, <2>3 DEF InvRx
<1>5. InvQuiet /\ InvPart
  <2>1. \A i \in RxDescs : rx.d[i].buf # Part
    BY ContentFacts, RxTypes DEF Init
  <2> QED BY <1>2, <1>3, <2>1, RxTypes DEF InvQuiet, InvPart
<1>6. InvCount
  <2>1. {i \in TxDescs : tx.d[i].own} = {}
    BY <1>2
  <2> QED BY <1>2, <1>3, <2>1, FS_EmptySet DEF InvCount
<1> QED BY <1>1, <1>4, <1>5, <1>6 DEF IndRx

(* The last look finds nothing only when nothing is owed, or when a frame  *)
(* that is too long blocks the ring.                                       *)
LEMMA LookSeesAll ==
  ASSUME TypeOK, InvRx, h.pc = "look"
  PROVE  /\ rx.d[rx.toGet].own <=> Len(env.rxOwed) = 0
         /\ NoFrame(rx.d[rx.toGet]) => Len(env.rxOwed) = 0 \/ TooLong
<1>1. FirstOwed = rx.toGet /\ rx.toGet \in RxDescs
  BY RxTypes DEF FirstOwed
<1>2. /\ Len(env.rxOwed) \in Nat /\ ETH_RXBUFNB \in Nat \ {0}
      /\ rx.toGet \in 0 .. ETH_RXBUFNB - 1
  BY <1>1, RxRange
<1>3. Ahead(ETH_RXBUFNB, rx.toGet, rx.toGet) = 0
  BY <1>2, AheadBehind
<1>4. /\ 0 < Len(env.rxOwed) => ~rx.d[rx.toGet].own
      /\ 0 >= Len(env.rxOwed) => rx.d[rx.toGet].own
  BY <1>1, <1>3 DEF InvRx
<1>5. rx.d[rx.toGet].own <=> Len(env.rxOwed) = 0
  BY <1>2, <1>4
<1> QED BY <1>1, <1>5 DEF NoFrame, TooLong

(* The descriptor the handler is at is not the DMA's.                      *)
LEMMA HandlerHas ==
  ASSUME TypeOK, InvRx
  PROVE  /\ h.pc = "take" => ~rx.d[rx.toGet].own
         /\ h.pc \in {"copy", "giveback"} => ~rx.d[h.desc].own
<1>1. /\ ETH_RXBUFNB \in Nat \ {0} /\ Len(env.rxOwed) \in Nat
      /\ RxDescs = 0 .. ETH_RXBUFNB - 1
      /\ rx.toGet \in RxDescs /\ h.desc \in RxDescs
  BY RxRange, RxTypes
<1>2. ASSUME h.pc \in {"take", "copy"} PROVE ~rx.d[FirstOwed].own
  <2>1. FirstOwed \in RxDescs /\ Ahead(ETH_RXBUFNB, FirstOwed, FirstOwed) = 0
    BY <1>1, RxRange, AheadBehind
  <2>2. 0 < Len(env.rxOwed)
    BY <1>1, <1>2 DEF InvRx
  <2> QED BY <2>1, <2>2 DEF InvRx
<1>3. ASSUME h.pc = "giveback" PROVE ~rx.d[h.desc].own
  <2>1. FirstOwed = Wrapped(ETH_RXBUFNB, h.desc)
    BY <1>1, <1>3, NextRxIs DEF InvRx, FirstOwed
  <2>2. Ahead(ETH_RXBUFNB, FirstOwed, h.desc) = ETH_RXBUFNB - 1
    BY <1>1, <2>1, AheadBehind
  <2>3. ETH_RXBUFNB - 1 >= Len(env.rxOwed)
    BY <1>1, <1>3 DEF InvRx
  <2> QED BY <1>1, <1>3, <2>2, <2>3 DEF InvRx
<1> QED BY <1>2, <1>3 DEF FirstOwed

LEMMA RxNext ==
  ASSUME TypeOK, InvRx, [Next]_vars
  PROVE  InvRx'
<1>1. CASE Arrive \/ ArrivePart
  <2>1. PICK got \in {env.next, Part} : Store(got)
    BY <1>1, Arrived
  <2>2. got \in Received
    BY RxTypes, ContentFacts
  <2> QED BY <2>1, <2>2, StoreDoes, RxArrive, RxSame
<1>2. CASE Transmit \/ Suspend \/ DebugPrint
  <2>1. rx' = rx /\ h'.pc = h.pc /\ h'.desc = h.desc /\ env'.rxOwed = env.rxOwed
    <3>1. CASE Transmit
      BY <3>1, Types DEF Transmit, Record, EnvType
    <3>2. CASE Suspend
      BY <3>2 DEF Suspend
    <3>3. CASE DebugPrint
      BY <3>3, PrintDoes, PrintSpoilsDoes, PrintInterrupts
    <3> QED BY <1>2, <3>1, <3>2, <3>3
  <2> QED BY <2>1, RxSame
<1>3. CASE Enter \/ Resume \/ Input \/ Clear \/ TxBuf \/ TxOwn
  <2>1. /\ rx' = rx /\ env' = env
        /\ h.pc \notin {"copy", "giveback"} /\ h'.pc \notin {"take", "copy", "giveback"}
    BY <1>3, ZenonT(60) DEF Enter, Resume, Input, Clear, TxBuf, TxOwn, At, TypeOK
  <2> QED BY <2>1, RxSame
<1>4. CASE Look
  <2>1. /\ rx' = rx /\ env' = env /\ h.pc = "look"
        /\ h'.pc = IF NoFrame(rx.d[rx.toGet]) THEN "clear" ELSE "take"
    BY <1>4, Types DEF Look, HType
  <2>2. ~NoFrame(rx.d[rx.toGet]) => Len(env.rxOwed) > 0
    <3>1. ~NoFrame(rx.d[rx.toGet]) => Len(env.rxOwed) # 0
      BY <2>1, LookSeesAll DEF NoFrame
    <3> QED BY <3>1, RxRange
  <2> QED BY <2>1, <2>2, RxSame
<1>5. CASE Take
  BY <1>5, RxTake
<1>6. CASE Copy
  BY <1>6, RxCopy
<1>7. CASE GiveBack
  BY <1>7, RxGiveBack
<1>8. CASE TxCopy \/ TxGive \/ TxResume
  <2>1. /\ rx' = rx /\ env'.rxOwed = env.rxOwed
        /\ h.pc \notin {"copy", "giveback"} /\ h'.pc \notin {"take", "copy", "giveback"}
    <3>1. CASE TxCopy
      BY <3>1, TxCopyDoes DEF TxCopy
    <3>2. CASE TxGive
      BY <3>2, TxGiveDoes DEF TxGive
    <3>3. CASE TxResume
      BY <3>3, TxResumeDoes DEF TxResume, At
    <3> QED BY <1>8, <3>1, <3>2, <3>3
  <2> QED BY <2>1, RxSame
<1>9. CASE UNCHANGED vars
  BY <1>9, RxSame DEF vars
<1> QED BY <1>1, <1>2, <1>3, <1>4, <1>5, <1>6, <1>7, <1>8, <1>9 DEF Next, Handler

(* The handler stays away from a frame that is too long, and so it stays   *)
(* in the ring.                                                            *)
LEMMA PartNext ==
  ASSUME TypeOK, InvRx, InvPart, [Next]_vars
  PROVE  InvPart' /\ (TooLong => TooLong')
<1>1. CASE Arrive \/ ArrivePart
  <2>1. PICK got \in {env.next, Part} : Store(got)
    BY <1>1, Arrived
  <2>2. /\ h'.pc = h.pc /\ h'.desc = h.desc
        /\ IsStored(got) \/ UNCHANGED <<rx, env>>
    BY <2>1, StoreDoes
  <2>3. CASE UNCHANGED <<rx, env>>
    BY <2>2, <2>3 DEF InvPart, TooLong
  <2>4. CASE IsStored(got)
    <3>1. /\ rx'.toGet = rx.toGet /\ rx.d[rx.dma].own /\ ~rx'.d[rx.dma].own
          /\ \A k \in RxDescs \ {rx.dma} : rx'.d[k] = rx.d[k]
          /\ rx.dma \in RxDescs /\ rx.toGet \in RxDescs /\ h.desc \in RxDescs
      BY <2>4, RxTypes DEF IsStored
    <3>2. \A i \in RxDescs : rx'.d[i].own => rx'.d[i].buf # Part
      BY <3>1 DEF InvPart
    <3>3. h.pc = "take" => rx.toGet # rx.dma
      BY <3>1, HandlerHas
    <3>4. h.pc \in {"copy", "giveback"} => h.desc # rx.dma
      BY <3>1, HandlerHas
    <3>5. TooLong => TooLong'
      BY <3>1 DEF InvPart, TooLong
    <3> QED BY <2>2, <3>1, <3>2, <3>3, <3>4, <3>5 DEF InvPart
  <2> QED BY <2>2, <2>3, <2>4
<1>2. ASSUME rx' = rx, \/ h'.pc = h.pc /\ h'.desc = h.desc
                       \/ h'.pc \notin {"take", "copy", "giveback"}
                       \/ h'.pc = "giveback" /\ h.pc = "copy" /\ h'.desc = h.desc
      PROVE  InvPart' /\ (TooLong => TooLong')
  BY <1>2 DEF InvPart, TooLong
<1>3. CASE Transmit \/ Suspend \/ DebugPrint \/ UNCHANGED vars
  <2>1. rx' = rx /\ h'.pc = h.pc /\ h'.desc = h.desc
    BY <1>3, PrintInterrupts DEF Transmit, Suspend, vars
  <2> QED BY <1>2, <2>1
<1>4. CASE Enter \/ Resume \/ Input \/ Clear \/ TxBuf \/ TxOwn
  <2>1. rx' = rx /\ h'.pc \notin {"take", "copy", "giveback"}
    BY <1>4, ZenonT(60) DEF Enter, Resume, Input, Clear, TxBuf, TxOwn, At, TypeOK
  <2> QED BY <1>2, <2>1
<1>5. CASE TxCopy \/ TxGive \/ TxResume
  <2>1. rx' = rx /\ h'.pc \notin {"take", "copy", "giveback"}
    BY <1>5, TxCopyDoes, TxGiveDoes, TxResumeDoes DEF TxCopy, TxGive, TxResume
  <2> QED BY <1>2, <2>1
<1>6. CASE Look
  <2>1. /\ rx' = rx
        /\ h'.pc = IF NoFrame(rx.d[rx.toGet]) THEN "clear" ELSE "take"
    BY <1>6, Types DEF Look, HType
  <2> QED BY <2>1 DEF InvPart, TooLong, NoFrame
<1>7. CASE Take
  <2>1. /\ rx'.d = rx.d /\ h.pc = "take" /\ h'.pc = "copy" /\ h'.desc = rx.toGet
    BY <1>7, TakeDoes DEF Take
  <2> QED BY <2>1 DEF InvPart, TooLong
<1>8. CASE Copy
  <2>1. rx' = rx /\ h.pc = "copy" /\ h'.pc = "giveback" /\ h'.desc = h.desc
    <3>1. Len(env.rxOwed) > 0
      BY <1>8 DEF InvRx, Copy
    <3> QED BY <1>8, <3>1, CopyDoes DEF Copy
  <2> QED BY <1>2, <2>1
<1>9. CASE GiveBack
  <2>1. /\ rx'.d[h.desc].buf # Part /\ h'.pc = "resume" /\ h.pc = "giveback"
        /\ \A k \in RxDescs \ {h.desc} : rx'.d[k] = rx.d[k]
    BY <1>9, GiveBackDoes, ContentFacts DEF GiveBack, At
  <2> QED BY <2>1 DEF InvPart, TooLong
<1> QED BY <1>1, <1>3, <1>4, <1>5, <1>6, <1>7, <1>8, <1>9 DEF Next, Handler

LEMMA QuietNext ==
  ASSUME TypeOK, InvRx, InvPart, InvQuiet, [Next]_vars
  PROVE  InvQuiet'
<1> SUFFICES ASSUME ~TooLong'
             PROVE  /\ h'.pc = "clear" => Len(env'.rxOwed) <= h'.late
                    /\ h'.pc = "idle" /\ ~sr'.R => Len(env'.rxOwed) <= LateFrames
  BY DEF InvQuiet
<1>0. Len(env.rxOwed) \in Nat /\ h.late \in 0 .. LateFrames /\ LateFrames \in Nat
  BY RxRange, RxTypes, RingAssumption
<1>a. /\ ~TooLong
      /\ h.pc = "clear" => Len(env.rxOwed) <= h.late
      /\ h.pc = "idle" /\ ~sr.R => Len(env.rxOwed) <= LateFrames
  BY PartNext DEF InvQuiet
<1>1. CASE Arrive \/ ArrivePart
  <2>1. PICK got \in {env.next, Part} : Store(got)
    BY <1>1, Arrived
  <2>2. h'.pc = h.pc /\ (h.pc = "clear" => h'.late = h.late + 1)
    BY <2>1, StoreDoes
  <2>3. CASE UNCHANGED <<rx, env>> /\ ~rx.d[rx.dma].own
    <3>1. sr'.R = sr.R
      BY <1>1, <2>3, ArriveDoes
    <3> QED BY <1>0, <1>a, <2>2, <2>3, <3>1
  <2>4. CASE Arrive /\ rx.d[rx.dma].own
    <3>1. sr'.R /\ Store(env.next)
      BY <1>1, <2>4, ArriveDoes
    <3>2. IsStored(env.next)
      BY <2>4, <3>1, StoreDoes
    <3>3. Len(env'.rxOwed) = Len(env.rxOwed) + 1
      BY <3>2, RxTypes, ContentFacts, Appended DEF IsStored
    <3> QED BY <1>0, <1>a, <2>2, <3>1, <3>3
  <2>5. CASE ArrivePart /\ rx.d[rx.dma].own
    <3>1. IsStored(Part)
      BY <1>1, <2>5, ArriveDoes, StoreDoes
    <3>2. TooLong'
      BY <3>1, RxTypes DEF IsStored, TooLong
    <3> QED BY <3>2
  <2> QED BY <1>1, <2>1, <2>3, <2>4, <2>5, StoreDoes DEF IsStored
<1>2. CASE Transmit \/ Suspend \/ DebugPrint
  <2>1. h'.pc = h.pc /\ h'.late = h.late /\ env'.rxOwed = env.rxOwed /\ sr'.R = sr.R
    <3>1. CASE Transmit
      BY <3>1, Types DEF Transmit, Record, EnvType
    <3>2. CASE Suspend
      BY <3>2, Types DEF Suspend, SrType
    <3>3. CASE DebugPrint
      BY <3>3, PrintDoes, PrintSpoilsDoes, PrintInterrupts
    <3> QED BY <1>2, <3>1, <3>2, <3>3
  <2> QED BY <1>a, <2>1
<1>3. CASE Look
  <2>1. /\ env' = env /\ h.pc = "look" /\ h'.late = h.late
        /\ h'.pc = IF NoFrame(rx.d[rx.toGet]) THEN "clear" ELSE "take"
    BY <1>3, Types DEF Look, HType
  <2> QED BY <1>0, <1>a, <2>1, LookSeesAll
<1>4. CASE Clear
  <2>1. env' = env /\ h.pc = "clear" /\ h'.pc = "idle"
    BY <1>4 DEF Clear, At, TypeOK
  <2> QED BY <1>0, <1>a, <2>1
<1>5. CASE \/ Enter \/ Take \/ Copy \/ GiveBack \/ Resume \/ Input
           \/ TxBuf \/ TxCopy \/ TxOwn \/ TxGive \/ TxResume
  <2>1. h'.pc \notin {"idle", "clear"}
    <3> USE DEF At, TypeOK
    <3>1. CASE Enter
      BY <3>1 DEF Enter
    <3>6. CASE Take
      BY <3>6 DEF Take
    <3>7. CASE GiveBack
      BY <3>7 DEF GiveBack
    <3>4. CASE Copy
      BY <3>4 DEF Copy
    <3>5. CASE Resume
      BY <3>5 DEF Resume
    <3>2. CASE Input \/ TxBuf \/ TxCopy
      BY <3>2 DEF Input, TxBuf, TxCopy
    <3>3. CASE TxOwn \/ TxGive \/ TxResume
      BY <3>3 DEF TxOwn, TxGive, TxResume
    <3> QED BY <1>5, <3>1, <3>2, <3>3, <3>4, <3>5, <3>6, <3>7
  <2> QED BY <2>1
<1>6. CASE UNCHANGED vars
  BY <1>a, <1>6 DEF vars
<1> QED BY <1>1, <1>2, <1>3, <1>4, <1>5, <1>6 DEF Next, Handler

THEOREM RxInvariant == Spec => []IndRx
<1>1. IndRx /\ [Next]_vars => IndRx'
  BY TypesNext, RxNext, PartNext, QuietNext DEF IndRx
<1> QED BY InitRx, <1>1, PTL DEF Spec

(* The handler's types hold for rings of any size.                         *)
THEOREM DriverTypes == Spec => []TypeOK
<1>1. IndRx => TypeOK
  BY DEF IndRx
<1> QED BY <1>1, RxInvariant, PTL

(* The receive ring never loses its place: whatever the DMA stores between *)
(* two accesses of the handler, what ETH_RxPkt_ChainMode copies is the     *)
(* oldest frame received and not yet copied.                               *)
THEOREM FramesInOrder == Spec => CopiesInOrder
<1>1. IndRx /\ [Next]_vars =>
        [h.pc = "copy" /\ h'.pc = "giveback" =>
           env.rxOwed # <<>> /\ h'.got \in {Head(env.rxOwed), None}]_vars
  <2> SUFFICES ASSUME IndRx, Next, h.pc = "copy", h'.pc = "giveback"
               PROVE  env.rxOwed # <<>> /\ h'.got \in {Head(env.rxOwed), None}
    BY DEF vars
  <2>1. TypeOK /\ InvRx
    BY DEF IndRx
  <2>2. Copy
    <3>1. CASE Arrive \/ ArrivePart
      BY <2>1, <3>1, Arrived, StoreDoes
    <3>2. CASE DebugPrint
      BY <2>1, <3>2, PrintInterrupts
    <3>3. CASE ~Copy /\ Handler
      BY <3>3 DEF Handler, Enter, Look, Take, GiveBack, Resume, Input, Clear, TxBuf,
                  TxCopy, TxOwn, TxGive, TxResume, At
    <3>4. CASE Transmit \/ Suspend
      BY <3>4 DEF Transmit, Suspend
    <3> QED BY <3>1, <3>2, <3>3, <3>4 DEF Next
  <2>3. Len(env.rxOwed) > 0
    BY <2>1 DEF InvRx
  <2> QED BY <2>1, <2>2, <2>3, RxCopy, CopyDoes
<1> QED BY <1>1, RxInvariant, PTL DEF Spec, CopiesInOrder

(* A receiver is deaf when it waits with the interrupt clear and every     *)
(* descriptor full: no frame could raise the interrupt again.  It is not,  *)
(* as long as no frame longer than a buffer is in the ring and fewer       *)
(* frames than the ring holds can arrive between the handler's last look   *)
(* at the ring and its ETH_DMAClearITPendingBit.                           *)
THEOREM ReceiverHears ==
  ASSUME LateFrames < ETH_RXBUFNB
  PROVE  Spec => []NeverDeaf
<1>1. IndRx => NeverDeaf
  <2> SUFFICES ASSUME IndRx, h.pc = "idle", ~sr.R, ~TooLong
               PROVE  \E i \in RxDescs : rx.d[i].own
    BY DEF NeverDeaf
  <2>1. TypeOK /\ InvRx /\ InvQuiet
    BY DEF IndRx
  <2>2. /\ Len(env.rxOwed) \in Nat /\ Len(env.rxOwed) < ETH_RXBUFNB
        /\ LateFrames \in Nat /\ ETH_RXBUFNB \in Nat \ {0}
    BY <2>1, RxRange, RingAssumption DEF InvQuiet
  <2>3. rx.dma \in RxDescs /\ Ahead(ETH_RXBUFNB, FirstOwed, rx.dma) = Len(env.rxOwed)
    BY <2>1, <2>2, RxTypes DEF InvRx
  <2>4. Len(env.rxOwed) >= Len(env.rxOwed)
    BY <2>2
  <2>5. rx.d[rx.dma].own
    BY <2>1, <2>3, <2>4 DEF InvRx
  <2> QED BY <2>3, <2>5
<1> QED BY <1>1, RxInvariant, PTL

-----------------------------------------------------------------------------
(* The transmit ring, until a print makes the driver skip a descriptor.    *)

LEMMA TxRange ==
  ASSUME TypeOK, InvTx
  PROVE  /\ ETH_TXBUFNB \in Nat \ {0} /\ TxDescs = 0 .. ETH_TXBUFNB - 1
         /\ Len(env.txOwed) \in Nat /\ Len(env.txOwed) <= ETH_TXBUFNB
         /\ tx.dma \in TxDescs /\ tx.toSet \in TxDescs
         /\ \A i \in TxDescs : Ahead(ETH_TXBUFNB, tx.dma, i) \in 0 .. ETH_TXBUFNB - 1
<1>1. ETH_TXBUFNB \in Nat \ {0} /\ TxDescs = 0 .. ETH_TXBUFNB - 1
  BY RingAssumption DEF TxDescs
<1>2. tx.dma \in TxDescs /\ tx.toSet \in TxDescs
  BY RxTypes
<1>3. Len(env.txOwed) \in Nat
  BY RxTypes, LenProperties
<1> QED BY <1>1, <1>2, <1>3, AheadFacts DEF InvTx

(* The DMA's position is not the DMA's own only when nothing is owed; the  *)
(* driver's is the DMA's own only when the ring is full.                   *)
LEMMA TxEnds ==
  ASSUME TypeOK, InvTx
  PROVE  /\ tx.d[tx.dma].own <=> Len(env.txOwed) > 0
         /\ h.pc # "txresume" =>
              (tx.d[tx.toSet].own <=> Len(env.txOwed) = ETH_TXBUFNB)
<1> DEFINE n == ETH_TXBUFNB
           L == Len(env.txOwed)
<1>1. /\ n \in Nat \ {0} /\ L \in Nat /\ L <= n /\ tx.dma \in 0 .. n - 1
      /\ tx.toSet \in 0 .. n - 1 /\ TxDescs = 0 .. n - 1
  BY TxRange
<1>2. \A i \in TxDescs : tx.d[i].own <=> Ahead(n, tx.dma, i) < L
  BY DEF InvTx
<1>3. Ahead(n, tx.dma, NextFree) = IF L = n THEN 0 ELSE L
  BY DEF InvTx
<1> HIDE DEF n, L
<1>4. Ahead(n, tx.dma, tx.dma) = 0
  BY <1>1, AheadBehind
<1>5. tx.d[tx.dma].own <=> L > 0
  <2>1. tx.d[tx.dma].own <=> 0 < L
    BY <1>1, <1>2, <1>4
  <2> QED BY <1>1, <2>1
<1>6. ASSUME h.pc # "txresume" PROVE tx.d[tx.toSet].own <=> L = n
  <2>1. NextFree = tx.toSet
    BY <1>6 DEF NextFree
  <2>2. CASE L = n
    <3>1. Ahead(n, tx.dma, tx.toSet) = 0 /\ 0 < L
      BY <1>1, <1>3, <2>1, <2>2
    <3> QED BY <1>1, <1>2, <2>2, <3>1
  <2>3. CASE L # n
    <3>1. Ahead(n, tx.dma, tx.toSet) = L /\ ~(L < L)
      BY <1>1, <1>3, <2>1, <2>3
    <3> QED BY <1>1, <1>2, <2>3, <3>1
  <2> QED BY <2>2, <2>3
<1> QED BY <1>5, <1>6 DEF n, L

(* Nothing of the ring changes.                                            *)
LEMMA TxSame ==
  ASSUME InvTx, tx' = tx, env'.txOwed = env.txOwed, env'.spoilt = env.spoilt,
         \/ /\ h'.pc = h.pc /\ h'.buf = h.buf /\ h'.got = h.got
            /\ h'.nested = h.nested
         \/ h.pc # "txresume" /\ h'.pc \notin Sending
         \/ h.pc = "txbuf" /\ h'.pc = "txcopy" /\ h'.buf = tx.toSet
         \/ /\ h.pc = "txown" /\ h'.pc = "txgive" /\ ~tx.d[tx.toSet].own
            /\ h'.buf = h.buf /\ h'.got = h.got /\ h'.nested = h.nested
  PROVE  InvTx'
<1>1. NextFree' = NextFree
  BY DEF NextFree, Sending
<1> QED BY <1>1 DEF InvTx, Sending

(* The DMA sends the first frame and moves on.                             *)
LEMMA TxTransmit ==
  ASSUME TypeOK, ~env.parted, InvTx, Transmit
  PROVE  /\ InvTx' /\ env.txOwed # <<>>
         /\ tx.dma \notin env.spoilt => tx.d[tx.dma].buf = Head(env.txOwed)
<1> DEFINE n == ETH_TXBUFNB
           f == tx.dma
           s == env.txOwed
           L == Len(s)
<1>0. L > 0
  BY TxEnds DEF Transmit
<1>1. /\ n \in Nat \ {0} /\ TxDescs = 0 .. n - 1 /\ L \in Nat /\ L <= n
      /\ f \in 0 .. n - 1
  BY TxRange
<1>2. /\ h' = h /\ tx'.toSet = tx.toSet /\ tx'.dma = Wrapped(n, f)
      /\ env'.spoilt = env.spoilt \ {f}
      /\ tx.d[f].own /\ ~tx'.d[f].own
      /\ f \in env.spoilt => tx'.d[f].buf = tx.d[f].buf
      /\ \A k \in TxDescs \ {f} : tx'.d[k] = tx.d[k]
      /\ env'.txOwed = Tail(s)
  BY <1>0, TransmitDoes, NextTxIs, RxTypes
<1>3. NextFree' = NextFree /\ NextFree \in 0 .. n - 1
  BY <1>1, <1>2, RxTypes, NextTxIs DEF NextFree
<1>4. /\ Len(env'.txOwed) = L - 1 /\ s # <<>> /\ Head(s) = s[1]
      /\ \A k \in 1 .. L - 1 : env'.txOwed[k] = s[k + 1]
  BY <1>0, <1>2, RxTypes, Shortened
<1>5. \A i \in TxDescs :
        /\ tx.d[i].own <=> Ahead(n, f, i) < L
        /\ tx.d[i].own /\ i \notin env.spoilt => tx.d[i].buf = s[Ahead(n, f, i) + 1]
        /\ i \in env.spoilt => tx.d[i].own
  BY DEF InvTx
<1>6. Ahead(n, f, NextFree) = IF L = n THEN 0 ELSE L
  BY DEF InvTx
<1>7. ~h.nested =>
        /\ h.pc \in {"txcopy", "txown", "txgive"} => h.buf = tx.toSet
        /\ h.pc \in {"txown", "txgive"} =>
             /\ tx.d[tx.toSet].buf = h.got
             /\ tx.d[tx.toSet].own => tx.toSet \in env.spoilt
        /\ h.pc = "txgive" => ~tx.d[tx.toSet].own
  BY DEF InvTx
<1>8. tx.toSet \in TxDescs
  BY TxRange
<1> HIDE DEF n, f, s, L
<1>a. n \in Nat \ {0} /\ L \in Nat /\ L <= n /\ L > 0 /\ f \in 0 .. n - 1
  BY <1>0, <1>1
<1>9. f \notin env.spoilt => tx.d[f].buf = s[1]
  <2>1. Ahead(n, f, f) = 0 /\ 0 + 1 = 1
    BY <1>a, AheadBehind
  <2> QED BY <1>1, <1>2, <1>5, <2>1
<1>10. ASSUME NEW i \in TxDescs, NEW k \in 0 .. n - 1, k = Ahead(n, Wrapped(n, f), i)
       PROVE  /\ tx'.d[i].own <=> k < L - 1
              /\ tx'.d[i].own /\ i \notin env'.spoilt =>
                   tx'.d[i].buf = env'.txOwed[k + 1]
              /\ i \in env'.spoilt => tx'.d[i].own
  <2>1. CASE i = f
    <3>1. k = n - 1
      BY <1>a, <1>10, <2>1, AheadBehind
    <3> QED BY <1>a, <1>2, <2>1, <3>1
  <2>2. CASE i # f
    <3>1. Ahead(n, f, i) \in 1 .. n - 1 /\ k = Ahead(n, f, i) - 1
      BY <1>1, <1>a, <1>10, <2>2, AheadPop
    <3>2. ASSUME NEW m \in 1 .. n - 1, m = Ahead(n, f, i), k = m - 1
          PROVE  /\ tx.d[i].own <=> k < L - 1
                 /\ tx.d[i].own /\ i \notin env.spoilt => tx.d[i].buf = env'.txOwed[k + 1]
                 /\ i \in env.spoilt => tx.d[i].own
      <4>1. (k < L - 1 <=> m < L) /\ k + 1 = m /\ (m < L => m \in 1 .. L - 1)
        BY <1>a, <3>2
      <4>2. m < L => env'.txOwed[m] = s[m + 1]
        BY <1>4, <4>1
      <4> QED BY <1>5, <3>2, <4>1, <4>2
    <3>3. tx'.d[i] = tx.d[i]
      BY <1>2, <2>2
    <3> QED BY <1>2, <2>2, <3>1, <3>2, <3>3
  <2> QED BY <2>1, <2>2
<1>11. \A i \in TxDescs : Ahead(n, Wrapped(n, f), i) \in 0 .. n - 1
  BY <1>1, WrapMod, AheadFacts
<1>12. Ahead(n, Wrapped(n, f), NextFree) = L - 1
  <2>1. CASE L = n
    <3>1. NextFree = f
      <4>1. Ahead(n, f, NextFree) = Ahead(n, f, f)
        BY <1>a, <1>6, <2>1, AheadBehind
      <4> QED BY <1>a, <1>3, <4>1, AheadOne
    <3> QED BY <1>a, <2>1, <3>1, AheadBehind
  <2>2. CASE L # n
    <3>1. Ahead(n, f, NextFree) = L
      BY <1>6, <2>2
    <3>2. NextFree # f
      BY <1>a, <3>1, AheadBehind
    <3> QED BY <1>a, <1>3, <3>1, <3>2, AheadPop
  <2> QED BY <2>1, <2>2
<1>13. ~h.nested =>
         /\ h.pc \in {"txown", "txgive"} =>
              /\ tx'.d[tx.toSet].buf = h.got
              /\ tx'.d[tx.toSet].own => tx.toSet \in env'.spoilt
         /\ h.pc = "txgive" => ~tx'.d[tx.toSet].own
  <2>1. CASE tx.toSet = f
    BY <1>2, <1>7, <2>1
  <2>2. CASE tx.toSet # f
    BY <1>2, <1>7, <1>8, <2>2
  <2> QED BY <2>1, <2>2
<1>14. InvTx'
  <2>1. Len(env'.txOwed) <= ETH_TXBUFNB
    BY <1>4, <1>a DEF n
  <2>2. \A i \in TxDescs :
          LET k == Ahead(ETH_TXBUFNB, tx'.dma, i)
          IN /\ tx'.d[i].own <=> k < Len(env'.txOwed)
             /\ tx'.d[i].own /\ i \notin env'.spoilt => tx'.d[i].buf = env'.txOwed[k + 1]
             /\ i \in env'.spoilt => tx'.d[i].own
    BY <1>2, <1>4, <1>10, <1>11 DEF n
  <2>3. Ahead(ETH_TXBUFNB, tx'.dma, NextFree') =
          IF Len(env'.txOwed) = ETH_TXBUFNB THEN 0 ELSE Len(env'.txOwed)
    <3>1. L - 1 # n
      BY <1>a
    <3> QED BY <1>2, <1>3, <1>4, <1>12, <3>1 DEF n
  <2>4. ~h'.nested =>
          /\ h'.pc \in {"txcopy", "txown", "txgive"} => h'.buf = tx'.toSet
          /\ h'.pc \in {"txown", "txgive"} =>
               /\ tx'.d[tx'.toSet].buf = h'.got
               /\ tx'.d[tx'.toSet].own => tx'.toSet \in env'.spoilt
          /\ h'.pc = "txgive" => ~tx'.d[tx'.toSet].own
    <3>1. h' = h /\ tx'.toSet = tx.toSet
      BY <1>2
    <3> QED BY <1>7, <1>13, <3>1
  <2> QED BY ONLY <2>1, <2>2, <2>3, <2>4 DEF InvTx
<1> QED BY <1>4, <1>9, <1>14 DEF f, s

(* A frame is handed to the DMA in the next free descriptor.               *)
LEMMA TxHandOver ==
  ASSUME TypeOK, InvTx, NEW e \in Content, h.pc # "txresume", ~tx.d[tx.toSet].own,
         tx'.dma = tx.dma, tx'.d[tx.toSet].own, tx'.d[tx.toSet].buf = e,
         \A k \in TxDescs \ {tx.toSet} : tx'.d[k] = tx.d[k],
         env'.txOwed = Append(env.txOwed, e), env.spoilt \subseteq env'.spoilt,
         env'.spoilt \subseteq env.spoilt \cup {tx.toSet},
         NextFree' = NextTx(tx.toSet),
         h'.nested \/ h'.pc \notin {"txcopy", "txown", "txgive"}
  PROVE  InvTx'
<1> DEFINE n == ETH_TXBUFNB
           f == tx.dma
           s == env.txOwed
           L == Len(s)
           j == tx.toSet
<1>1. /\ n \in Nat \ {0} /\ TxDescs = 0 .. n - 1 /\ L \in Nat /\ L <= n
      /\ f \in 0 .. n - 1 /\ j \in 0 .. n - 1 /\ NextFree = j
  BY TxRange DEF NextFree
<1>2. L # n
  BY TxEnds
<1>3. Ahead(n, f, j) = L
  BY <1>1, <1>2 DEF InvTx
<1>4. /\ Len(env'.txOwed) = L + 1 /\ env'.txOwed[L + 1] = e
      /\ \A k \in 1 .. L : env'.txOwed[k] = s[k]
  BY RxTypes, Appended
<1>5. \A i \in TxDescs :
        /\ tx.d[i].own <=> Ahead(n, f, i) < L
        /\ tx.d[i].own /\ i \notin env.spoilt => tx.d[i].buf = s[Ahead(n, f, i) + 1]
        /\ i \in env.spoilt => tx.d[i].own
  BY DEF InvTx
<1>6. NextFree' = Wrapped(n, j)
  BY <1>1, NextTxIs
<1>7. /\ tx'.dma = f /\ tx'.d[j].own /\ tx'.d[j].buf = e
      /\ \A k \in TxDescs \ {j} : tx'.d[k] = tx.d[k]
      /\ env.spoilt \subseteq env'.spoilt /\ env'.spoilt \subseteq env.spoilt \cup {j}
  OBVIOUS
<1> HIDE DEF n, f, s, L, j
<1>a. n \in Nat \ {0} /\ L \in Nat /\ L < n
  BY <1>1, <1>2
<1>8. ASSUME NEW i \in TxDescs, NEW k \in 0 .. n - 1, k = Ahead(n, f, i)
      PROVE  /\ tx'.d[i].own <=> k < L + 1
             /\ tx'.d[i].own /\ i \notin env'.spoilt => tx'.d[i].buf = env'.txOwed[k + 1]
             /\ i \in env'.spoilt => tx'.d[i].own
  <2>1. CASE i = j
    <3>1. k = L
      BY <1>3, <1>8, <2>1
    <3> QED BY <1>a, <1>4, <1>7, <2>1, <3>1
  <2>2. CASE i # j
    <3>1. k # L
      BY <1>1, <1>3, <1>8, <2>2, AheadOne
    <3>2. k < L + 1 <=> k < L
      BY <1>a, <3>1
    <3>3. k < L => env'.txOwed[k + 1] = s[k + 1]
      <4>1. k < L => k + 1 \in 1 .. L
        BY <1>a
      <4> QED BY <1>4, <4>1
    <3>4. tx'.d[i] = tx.d[i]
      BY <1>7, <2>2
    <3>5. i \in env'.spoilt <=> i \in env.spoilt
      BY <1>7, <2>2
    <3> QED BY <1>5, <1>8, <3>2, <3>3, <3>4, <3>5
  <2> QED BY <2>1, <2>2
<1>9. \A i \in TxDescs : Ahead(n, f, i) \in 0 .. n - 1
  BY <1>1, AheadFacts
<1>10. Ahead(n, f, Wrapped(n, j)) = IF L = n - 1 THEN 0 ELSE L + 1
  BY <1>1, <1>a, <1>3, AheadPush
<1>11. L + 1 <= n /\ (L = n - 1 <=> L + 1 = n)
  BY <1>a
<1> QED
  <2>1. Len(env'.txOwed) <= ETH_TXBUFNB
    BY <1>4, <1>11 DEF n
  <2>2. \A i \in TxDescs :
          LET k == Ahead(ETH_TXBUFNB, tx'.dma, i)
          IN /\ tx'.d[i].own <=> k < Len(env'.txOwed)
             /\ tx'.d[i].own /\ i \notin env'.spoilt => tx'.d[i].buf = env'.txOwed[k + 1]
             /\ i \in env'.spoilt => tx'.d[i].own
    BY <1>7, <1>4, <1>8, <1>9 DEF n
  <2>3. Ahead(ETH_TXBUFNB, tx'.dma, NextFree') =
          IF Len(env'.txOwed) = ETH_TXBUFNB THEN 0 ELSE Len(env'.txOwed)
    BY <1>4, <1>6, <1>7, <1>10, <1>11 DEF n
  <2>4. h'.nested \/ h'.pc \notin {"txcopy", "txown", "txgive"}
    OBVIOUS
  <2> QED BY ONLY <2>1, <2>2, <2>3, <2>4 DEF InvTx

(* A buffer is written: if its descriptor is the DMA's, the frame in it is *)
(* spoilt.                                                                 *)
LEMMA TxWrite ==
  ASSUME InvTx, NEW j \in TxDescs,
         tx'.dma = tx.dma, tx'.toSet = tx.toSet, NextFree' = NextFree,
         tx'.d[j].own = tx.d[j].own,
         \A k \in TxDescs \ {j} : tx'.d[k] = tx.d[k],
         env'.txOwed = env.txOwed, env'.spoilt = Spoilt(j),
         \/ h'.nested
         \/ h'.pc \notin {"txcopy", "txown", "txgive"}
         \/ /\ h'.pc = "txown" /\ h'.buf = tx.toSet /\ j = tx.toSet
            /\ tx'.d[j].buf = h'.got
  PROVE  InvTx'
<1>1. \A i \in TxDescs :
        LET k == Ahead(ETH_TXBUFNB, tx.dma, i)
        IN /\ tx'.d[i].own <=> k < Len(env.txOwed)
           /\ tx'.d[i].own /\ i \notin env'.spoilt => tx'.d[i].buf = env.txOwed[k + 1]
           /\ i \in env'.spoilt => tx'.d[i].own
  <2> SUFFICES ASSUME NEW i \in TxDescs
               PROVE  LET k == Ahead(ETH_TXBUFNB, tx.dma, i)
                      IN /\ tx'.d[i].own <=> k < Len(env.txOwed)
                         /\ tx'.d[i].own /\ i \notin env'.spoilt =>
                              tx'.d[i].buf = env.txOwed[k + 1]
                         /\ i \in env'.spoilt => tx'.d[i].own
    OBVIOUS
  <2>1. CASE i = j
    BY <2>1 DEF InvTx, Spoilt
  <2>2. CASE i # j
    BY <2>2 DEF InvTx, Spoilt
  <2> QED BY <2>1, <2>2
<1>2. tx'.d[j].own => j \in env'.spoilt
  BY DEF Spoilt
<1> QED BY <1>1, <1>2 DEF InvTx

(* Where the driver is not between a descriptor and the next, it writes    *)
(* over a frame only with the whole ring full.                             *)
LEMMA FullWhenSpoilt ==
  ASSUME TypeOK, InvTx, h.pc # "txresume"
  PROVE  Spoilt(tx.toSet) \subseteq env.spoilt \/ \A i \in TxDescs : tx.d[i].own
<1>1. CASE tx.d[tx.toSet].own
  <2>1. Len(env.txOwed) = ETH_TXBUFNB
    BY <1>1, TxEnds
  <2>2. \A i \in TxDescs : Ahead(ETH_TXBUFNB, tx.dma, i) < ETH_TXBUFNB
    BY TxRange
  <2> QED BY <2>1, <2>2 DEF InvTx
<1> QED BY <1>1 DEF Spoilt

LEMMA InitTx == Init => IndTx
<1> SUFFICES ASSUME Init PROVE IndTx
  OBVIOUS
<1>1. TypeOK
  BY InitTypes
<1>2. /\ env.txOwed = <<>> /\ env.spoilt = {} /\ h.pc = "idle"
      /\ tx.toSet = 0 /\ tx.dma = 0 /\ \A i \in TxDescs : ~tx.d[i].own
  BY RxTypes DEF Init
<1>3. ETH_TXBUFNB \in Nat \ {0} /\ Len(<<>>) = 0
  BY RingAssumption
<1>4. NextFree = 0
  BY <1>2 DEF NextFree
<1>5. Ahead(ETH_TXBUFNB, 0, 0) = 0 /\ 0 # ETH_TXBUFNB
  BY <1>3 DEF Ahead
<1>6. \A i \in TxDescs : ~(Ahead(ETH_TXBUFNB, 0, i) < 0)
  BY <1>3, AheadFacts DEF TxDescs, Ahead
<1>7. InvTx
  BY <1>2, <1>3, <1>4, <1>5, <1>6 DEF InvTx
<1> QED BY <1>1, <1>7 DEF IndTx

(* What a step may do to the wire.                                         *)
WireStep ==
  /\ Transmit => /\ env.txOwed # <<>>
                 /\ tx.dma \notin env.spoilt => tx.d[tx.dma].buf = Head(env.txOwed)
  /\ \/ env'.spoilt \subseteq env.spoilt
     \/ \A i \in TxDescs : tx.d[i].own
     \/ h'.nested

(* A print, as long as the driver does not move on twice for one frame.    *)
LEMMA TxPrint ==
  ASSUME TypeOK, ~env.parted, ~env'.parted, InvTx, DebugPrint
  PROVE  /\ InvTx'
         /\ \/ env'.spoilt \subseteq env.spoilt
            \/ \A i \in TxDescs : tx.d[i].own
            \/ h'.nested
<1>1. /\ h'.pc = h.pc /\ h'.buf = h.buf /\ h'.got = h.got
      /\ h.pc \in Sending => h'.nested
      /\ tx.toSet \in TxDescs
  BY PrintInterrupts, RxTypes
<1>2. h'.nested \/ h'.pc \notin {"txcopy", "txown", "txgive"}
  BY <1>1 DEF Sending
<1>3. CASE tx.d[tx.toSet].own
  <2>1. /\ tx'.dma = tx.dma /\ tx'.toSet = tx.toSet
        /\ tx'.d[tx.toSet].own = tx.d[tx.toSet].own
        /\ \A k \in TxDescs \ {tx.toSet} : tx'.d[k] = tx.d[k]
        /\ env'.txOwed = env.txOwed /\ env'.spoilt = Spoilt(tx.toSet)
    BY <1>3, PrintSpoilsDoes
  <2>2. NextFree' = NextFree
    BY <1>1, <2>1 DEF NextFree
  <2>3. InvTx'
    BY <1>1, <1>2, <2>1, <2>2, TxWrite
  <2>4. CASE h.pc = "txresume"
    BY <1>1, <2>3, <2>4 DEF Sending
  <2>5. CASE h.pc # "txresume"
    BY <2>1, <2>3, <2>5, FullWhenSpoilt
  <2> QED BY <2>4, <2>5
<1>4. CASE ~tx.d[tx.toSet].own
  <2>1. /\ tx'.dma = tx.dma /\ tx'.toSet = NextTx(tx.toSet)
        /\ tx'.d[tx.toSet].own /\ tx'.d[tx.toSet].buf = Text
        /\ \A k \in TxDescs \ {tx.toSet} : tx'.d[k] = tx.d[k]
        /\ env'.txOwed = Append(env.txOwed, Text) /\ env'.spoilt = env.spoilt
        /\ h.pc # "txresume"
    BY <1>4, PrintDoes
  <2>2. NextFree' = NextTx(tx.toSet)
    BY <1>1, <2>1 DEF NextFree
  <2>3. Text \in Content
    BY ContentFacts
  <2>4. InvTx'
    BY <1>2, <1>4, <2>1, <2>2, <2>3, TxHandOver
  <2> QED BY <2>1, <2>4
<1> QED BY <1>3, <1>4

(* The reply is copied into the buffer the driver was given.               *)
LEMMA TxCopied ==
  ASSUME TypeOK, ~env.parted, InvTx, TxCopy
  PROVE  /\ InvTx'
         /\ \/ env'.spoilt \subseteq env.spoilt
            \/ \A i \in TxDescs : tx.d[i].own
            \/ h'.nested
<1>1. /\ tx'.toSet = tx.toSet /\ tx'.dma = tx.dma
      /\ tx'.d[h.buf].own = tx.d[h.buf].own /\ tx'.d[h.buf].buf = Clean(h.got)
      /\ \A k \in TxDescs \ {h.buf} : tx'.d[k] = tx.d[k]
      /\ env'.txOwed = env.txOwed /\ env'.spoilt = Spoilt(h.buf)
      /\ h.pc = "txcopy" /\ h'.pc = "txown" /\ h'.got = h.got
      /\ h'.buf = h.buf /\ h'.nested = h.nested /\ h.buf \in TxDescs
  BY TxCopyDoes, RxTypes
<1>2. NextFree' = NextFree
  BY <1>1 DEF NextFree
<1>3. CASE h.nested
  BY <1>1, <1>2, <1>3, TxWrite
<1>4. CASE ~h.nested
  <2>1. h.buf = tx.toSet
    BY <1>1, <1>4 DEF InvTx
  <2>2. Clean(h.got) = h.got
    BY <1>4, RxTypes, CleanIs
  <2>3. InvTx'
    BY <1>1, <1>2, <2>1, <2>2, TxWrite
  <2> QED BY <1>1, <2>1, <2>3, FullWhenSpoilt
<1> QED BY <1>3, <1>4

(* The reply's descriptor, or a later one after a print, is handed over.   *)
LEMMA TxGiven ==
  ASSUME TypeOK, ~env.parted, ~env'.parted, InvTx, TxGive
  PROVE  InvTx' /\ (env'.spoilt \subseteq env.spoilt \/ h'.nested)
<1> DEFINE e == Clean(h.got)
<1>1. /\ tx'.toSet = tx.toSet /\ tx'.dma = tx.dma /\ ~tx.d[tx.toSet].own
      /\ tx'.d[tx.toSet].own /\ tx'.d[tx.toSet].buf = Clean(tx.d[tx.toSet].buf)
      /\ \A k \in TxDescs \ {tx.toSet} : tx'.d[k] = tx.d[k]
      /\ env'.txOwed = Append(env.txOwed, e)
      /\ env'.spoilt = IF h.nested THEN env.spoilt \cup {tx.toSet} ELSE env.spoilt
      /\ h.pc = "txgive" /\ h'.pc = "txresume" /\ h'.nested = h.nested
  BY TxGiveDoes
<1>2. e \in Content
  BY RxTypes, CleanIs
<1>3. NextFree' = NextTx(tx.toSet)
  BY <1>1 DEF NextFree
<1>4. tx'.d[tx.toSet].buf = e
  <2>1. CASE h.nested
    BY <1>1, <2>1 DEF Clean
  <2>2. CASE ~h.nested
    BY <1>1, <2>2 DEF InvTx
  <2> QED BY <2>1, <2>2
<1>5. env.spoilt \subseteq env'.spoilt /\ env'.spoilt \subseteq env.spoilt \cup {tx.toSet}
  BY <1>1
<1> HIDE DEF e
<1>6. InvTx'
  BY <1>1, <1>2, <1>3, <1>4, <1>5, TxHandOver
<1> QED BY <1>1, <1>6

LEMMA TxNext ==
  ASSUME TypeOK, ~env.parted, InvTx, Next
  PROVE  (~env'.parted => InvTx') /\ WireStep
<1>1. CASE Transmit
  <2>1. env'.spoilt \subseteq env.spoilt
    <3>1. Len(env.txOwed) > 0
      BY <1>1, TxEnds DEF Transmit
    <3> QED BY <1>1, <3>1, TransmitDoes
  <2> QED BY <1>1, <2>1, TxTransmit DEF WireStep
<1>2. ASSUME ~Transmit, ~env'.parted => InvTx',
             \/ env'.spoilt \subseteq env.spoilt
             \/ \A i \in TxDescs : tx.d[i].own
             \/ h'.nested
      PROVE  (~env'.parted => InvTx') /\ WireStep
  BY <1>2 DEF WireStep
<1>3. CASE (Arrive \/ ArrivePart) /\ ~Transmit
  <2>1. /\ tx' = tx /\ env'.txOwed = env.txOwed /\ env'.spoilt = env.spoilt
        /\ h'.pc = h.pc /\ h'.buf = h.buf /\ h'.got = h.got /\ h'.nested = h.nested
    BY <1>3, Arrived, StoreDoes
  <2> QED BY <1>2, <1>3, <2>1, TxSame
<1>4. CASE Suspend /\ ~Transmit
  <2>1. tx' = tx /\ env' = env /\ h' = h
    BY <1>4 DEF Suspend
  <2> QED BY <1>2, <1>4, <2>1, TxSame
<1>5. CASE DebugPrint /\ ~Transmit
  <2>1. CASE env'.parted
    <3>1. env'.spoilt = {}
      BY <1>5, <2>1, PrintDoes, PrintSpoilsDoes
    <3> QED BY <1>2, <1>5, <2>1, <3>1
  <2>2. CASE ~env'.parted
    BY <1>2, <1>5, <2>2, TxPrint
  <2> QED BY <2>1, <2>2
<1>6. CASE (Enter \/ Look \/ Resume \/ Input \/ Clear) /\ ~Transmit
  <2>1. tx' = tx /\ env' = env
    BY <1>6, QuietDoes
  <2>2. h.pc # "txresume" /\ h'.pc \notin Sending
    <3>1. CASE Look
      BY <3>1, Types DEF Look, Sending, HType
    <3>2. CASE Enter
      BY <3>2, Types DEF Enter, Sending, HType
    <3>5. CASE Clear
      BY <3>5, Types DEF Clear, At, Sending, HType
    <3>3. CASE Resume
      BY <3>3, Types DEF Resume, At, Sending, HType
    <3>4. CASE Input
      BY <3>4, Types DEF Input, At, Sending, HType
    <3> QED BY <1>6, <3>1, <3>2, <3>3, <3>4, <3>5
  <2> QED BY <1>2, <1>6, <2>1, <2>2, TxSame
<1>7. CASE TxBuf /\ ~Transmit
  <2>1. /\ tx' = tx /\ env' = env /\ h.pc = "txbuf" /\ h'.pc = "txcopy"
        /\ h'.buf = tx.toSet
    BY <1>7, Types DEF TxBuf, HType
  <2> QED BY <1>2, <1>7, <2>1, TxSame
<1>8. CASE (Take \/ Copy \/ GiveBack) /\ ~Transmit
  <2>1. tx' = tx /\ env'.txOwed = env.txOwed /\ env'.spoilt = env.spoilt
    BY <1>8, Types DEF Take, Copy, GiveBack, EnvType
  <2>2. h.pc # "txresume" /\ h'.pc \notin Sending
    BY <1>8 DEF Take, Copy, GiveBack, At, TypeOK, Sending
  <2> QED BY <1>2, <1>8, <2>1, <2>2, TxSame
<1>9. CASE TxCopy /\ ~Transmit
  BY <1>2, <1>9, TxCopied
<1>10. CASE TxOwn /\ ~Transmit
  <2>1. /\ tx' = tx /\ env' = env /\ h.pc = "txown"
        /\ h'.pc = IF tx.d[tx.toSet].own THEN "look" ELSE "txgive"
        /\ h'.buf = h.buf /\ h'.got = h.got /\ h'.nested = h.nested
    BY <1>10, Types DEF TxOwn, At, HType
  <2>2. CASE tx.d[tx.toSet].own
    BY <1>2, <1>10, <2>1, <2>2, TxSame DEF Sending
  <2>3. CASE ~tx.d[tx.toSet].own
    BY <1>2, <1>10, <2>1, <2>3, TxSame
  <2> QED BY <2>2, <2>3
<1>11. CASE TxGive /\ ~Transmit
  <2>1. CASE env'.parted
    BY <1>2, <1>11, <2>1, TxGiveDoes
  <2>2. CASE ~env'.parted
    BY <1>2, <1>11, <2>2, TxGiven
  <2> QED BY <2>1, <2>2
<1>12. CASE TxResume /\ ~Transmit
  <2>1. /\ h.pc = "txresume" /\ h'.pc = "look" /\ env' = env /\ tx'.d = tx.d
        /\ tx'.dma = tx.dma /\ tx'.toSet = NextTx(tx.toSet)
    BY <1>12, TxResumeDoes DEF TxResume, At
  <2>2. NextFree' = NextFree
    BY <2>1 DEF NextFree
  <2>3. InvTx'
    BY <2>1, <2>2 DEF InvTx
  <2> QED BY <1>2, <1>12, <2>1, <2>3
<1> QED BY <1>1, <1>3, <1>4, <1>5, <1>6, <1>7, <1>8, <1>9, <1>10, <1>11, <1>12
        DEF Next, Handler

(* What the DMA sends is what low_level_output was given, in order, for a  *)
(* ring of any size: a buffer changes under the DMA only when the whole    *)
(* ring is full or when a print fell into the reply in it.  This holds     *)
(* until a print at the very end of a reply, its descriptor sent already,  *)
(* makes the driver move on twice for one frame.                           *)
THEOREM SentIsExact == Spec => WireIsExact
<1>1. IndTx /\ IndRx /\ [Next]_vars => IndTx'
  <2> SUFFICES ASSUME IndTx, IndRx, [Next]_vars PROVE IndTx'
    OBVIOUS
  <2>1. TypeOK /\ InvCount /\ InvRx
    BY DEF IndTx, IndRx
  <2>2. TypeOK'
    BY <2>1, TypesNext
  <2>3. CASE env.parted
    <3>1. env'.parted
      BY <2>1, <2>3, PartedStays
    <3> QED BY <2>2, <3>1 DEF IndTx
  <2>4. CASE ~env.parted /\ Next
    <3>1. InvTx
      BY <2>4 DEF IndTx
    <3> QED BY <2>1, <2>2, <2>4, <3>1, TxNext DEF IndTx
  <2>5. CASE UNCHANGED vars
    BY <2>1, <2>2, <2>5, TxSame DEF vars, IndTx
  <2> QED BY <2>3, <2>4, <2>5
<1>2. IndTx /\ [Next]_vars =>
        [~env.parted =>
           /\ Transmit => /\ env.txOwed # <<>>
                          /\ tx.dma \notin env.spoilt =>
                               tx.d[tx.dma].buf = Head(env.txOwed)
           /\ \/ env'.spoilt \subseteq env.spoilt
              \/ \A i \in TxDescs : tx.d[i].own
              \/ h'.nested]_vars
  <2> SUFFICES ASSUME IndTx, Next, ~env.parted PROVE WireStep
    BY DEF WireStep
  <2> QED BY TxNext DEF IndTx
<1> QED BY InitTx, RxInvariant, <1>1, <1>2, PTL DEF Spec, WireIsExact
=============================================================================
