-------------------------- MODULE Peripherals_proofs --------------------------
(***************************************************************************)
(* Proofs about the parts in Peripherals: CAN's frame slots for any number *)
(* of slots and any values; the RS-485 segment for any number of           *)
(* connection workers; the digital inputs and pads, and who is told their  *)
(* levels, for any number of them; the LED and the buzzer for any          *)
(* sequences; and all of them side by side.                                *)
(***************************************************************************)
EXTENDS Peripherals, FiniteSetTheorems, SequenceTheorems, WellFoundedInduction, TLAPS

-----------------------------------------------------------------------------
(* CAN: the frames in the driver and the slots they are in.                *)

CanFrames == [kind : {"hb", "di", "do"}, val : Values \union {NoValue}]

\* What is sent is a frame, and no other than a frame is in a slot.
CanTypes ==
    /\ din \in Values /\ dout \in Values
    /\ DOMAIN worker = {"todo", "di", "due"} /\ worker.di \in Values \union {NoValue}
    /\ slot \in [Slots -> CanFrames \union {NoFrame}]
    /\ driver \in Seq([slot : Slots, frame : CanFrames])

\* The driver has a slot once only.
SlotsDiffer == \A i, j \in DOMAIN driver : driver[i].slot = driver[j].slot => i = j

CanInv == CanTypes /\ SlotsDiffer /\ FramesIntact

LEMMA FirstFreeIsFree == Free # {} => FirstFree \in Free
<1> SUFFICES ASSUME Free # {} PROVE FirstFree \in Free
  OBVIOUS
<1>1. Free \subseteq Nat
  BY CanAssumption DEF Free
<1>2. PICK s \in Free : \A x \in Free : ~ (<<x, s>> \in OpToRel(<, Nat))
  BY <1>1, NatLessThanWellFounded, WFMin
<1>3. \A x \in Free : ~ (x < s)
  BY <1>1, <1>2 DEF OpToRel
<1>4. \A x \in Free : s <= x
  BY <1>1, <1>3
<1>5. QED
  BY <1>4 DEF FirstFree

\* What the driver has are frames in slots.
LEMMA InDriver ==
    ASSUME CanTypes, NEW i \in DOMAIN driver
    PROVE  driver[i].slot \in Slots /\ driver[i].frame \in CanFrames
<1>1. driver \in Seq([slot : Slots, frame : CanFrames]) /\ i \in 1 .. Len(driver)
  BY LenProperties DEF CanTypes
<1>2. driver[i] \in [slot : Slots, frame : CanFrames]
  BY <1>1, ElementOfSeq
<1>3. QED
  BY <1>2

LEMMA NotAFrame == NoFrame \notin CanFrames
  BY DEF NoFrame, CanFrames

\* A frame is put into a free slot, which the driver does not have.
LEMMA SendsKeeps ==
    ASSUME CanInv, NEW f \in CanFrames, Sends(f)
    PROVE  /\ slot' \in [Slots -> CanFrames \union {NoFrame}]
           /\ driver' \in Seq([slot : Slots, frame : CanFrames])
           /\ SlotsDiffer' /\ FramesIntact'
<1> USE DEF CanInv, CanTypes
<1>1. CASE ~Takes
  BY <1>1 DEF Sends, tx, SlotsDiffer, FramesIntact
<1>2. CASE Takes
  <2> DEFINE c == Claim
             e == [slot |-> c, frame |-> f]
  <2>1. c \in Slots /\ slot[c] = NoFrame
    BY <1>2, FirstFreeIsFree DEF Takes, Claim, Free
  <2>2. slot' = [slot EXCEPT ![c] = f] /\ driver' = Append(driver, e)
    BY <1>2 DEF Sends, Puts
  <2>3. e \in [slot : Slots, frame : CanFrames]
    BY <2>1
  <2> HIDE DEF c
  <2>4. /\ driver' \in Seq([slot : Slots, frame : CanFrames]) /\ Len(driver') = Len(driver) + 1
        /\ driver'[Len(driver) + 1] = e
        /\ \A i \in 1 .. Len(driver) : driver'[i] = driver[i]
    BY <2>2, <2>3, AppendProperties
  <2>5. DOMAIN driver = 1 .. Len(driver) /\ DOMAIN driver' = 1 .. Len(driver) + 1 /\ Len(driver) \in Nat
    BY <2>4, LenProperties
  <2>6. \A i \in DOMAIN driver : driver[i].slot \in Slots /\ driver[i].frame \in CanFrames
    BY InDriver
  <2>7. \A i \in DOMAIN driver : driver[i].slot # c
    BY <2>1, <2>6, NotAFrame DEF FramesIntact
  <2>8. SlotsDiffer'
    BY <2>4, <2>5, <2>7 DEF SlotsDiffer
  <2>9. FramesIntact'
    <3> SUFFICES ASSUME NEW i \in DOMAIN driver' PROVE slot'[driver'[i].slot] = driver'[i].frame
      BY DEF FramesIntact
    <3>1. CASE i = Len(driver) + 1
      BY <3>1, <2>1, <2>2, <2>4
    <3>2. CASE i \in DOMAIN driver
      BY <3>2, <2>2, <2>4, <2>5, <2>6, <2>7 DEF FramesIntact
    <3>3. QED
      BY <3>1, <3>2, <2>5
  <2>10. slot' \in [Slots -> CanFrames \union {NoFrame}]
    BY <2>1, <2>2
  <2>11. QED
    BY <2>4, <2>8, <2>9, <2>10
<1>3. QED
  BY <1>1, <1>2

\* A slot is given back when its frame leaves the driver.
LEMMA DoneKeeps ==
    ASSUME CanInv, driver # <<>>, Done
    PROVE  /\ slot' \in [Slots -> CanFrames \union {NoFrame}]
           /\ driver' \in Seq([slot : Slots, frame : CanFrames])
           /\ SlotsDiffer' /\ FramesIntact'
<1> USE DEF CanInv, CanTypes
<1>1. /\ driver' = Tail(driver) /\ slot' = [slot EXCEPT ![Head(driver).slot] = NoFrame]
      /\ Head(driver) = driver[1]
  BY HeadTailProperties DEF Done
<1>2. /\ driver' \in Seq([slot : Slots, frame : CanFrames]) /\ Len(driver') = Len(driver) - 1
      /\ \A i \in 1 .. Len(driver') : driver'[i] = driver[i + 1]
  BY <1>1, HeadTailProperties
<1>3. DOMAIN driver = 1 .. Len(driver) /\ DOMAIN driver' = 1 .. Len(driver') /\ Len(driver) \in Nat
  BY <1>2, LenProperties
<1>4. \A i \in DOMAIN driver : driver[i].slot \in Slots /\ driver[i].frame \in CanFrames
  BY InDriver
<1>5. \A i \in DOMAIN driver' : i + 1 \in DOMAIN driver /\ i + 1 # 1 /\ 1 \in DOMAIN driver
  BY <1>2, <1>3
<1>6. SlotsDiffer'
  <2> SUFFICES ASSUME NEW i \in DOMAIN driver', NEW j \in DOMAIN driver', driver'[i].slot = driver'[j].slot
               PROVE  i = j
    BY DEF SlotsDiffer
  <2>1. i + 1 = j + 1
    BY <1>2, <1>3, <1>5 DEF SlotsDiffer
  <2>2. QED
    BY <2>1, <1>3
<1>7. FramesIntact'
  <2> SUFFICES ASSUME NEW i \in DOMAIN driver' PROVE slot'[driver'[i].slot] = driver'[i].frame
    BY DEF FramesIntact
  <2>1. driver'[i] = driver[i + 1] /\ driver[i + 1].slot # driver[1].slot
    BY <1>2, <1>3, <1>5 DEF SlotsDiffer
  <2>2. slot'[driver[i + 1].slot] = slot[driver[i + 1].slot]
    BY <2>1, <1>1, <1>4, <1>5
  <2>3. QED
    BY <2>1, <2>2, <1>5 DEF FramesIntact
<1>8. slot' \in [Slots -> CanFrames \union {NoFrame}]
  BY <1>1
<1>9. QED
  BY <1>2, <1>6, <1>7, <1>8

LEMMA CanInitInv == CanInit => CanInv
<1> SUFFICES ASSUME CanInit PROVE CanInv
  OBVIOUS
<1>1. CanTypes
  BY CanAssumption DEF CanInit, CanTypes, Rest
<1>2. SlotsDiffer /\ FramesIntact
  BY DEF CanInit, SlotsDiffer, FramesIntact
<1>3. QED
  BY <1>1, <1>2 DEF CanInv

\* What the worker does next, and what is told, in words of its own variables
LEMMA WorkerType ==
    ASSUME CanTypes, Wake \/ Advance \/ TickReads \/ ClaimHolds \/ UNCHANGED worker
    PROVE  DOMAIN worker' = {"todo", "di", "due"} /\ worker'.di \in Values \union {NoValue}
<1> USE DEF CanTypes
<1>1. CASE Wake
  BY <1>1 DEF Wake, Rest
<1>2. CASE Advance
  BY <1>2 DEF Advance
<1>3. CASE TickReads
  BY <1>3 DEF TickReads
<1>4. CASE ClaimHolds
  BY <1>4 DEF ClaimHolds
<1>5. QED
  BY <1>1, <1>2, <1>3, <1>4

\* Steps that leave the driver and the slots alone
LEMMA QuietKeeps ==
    ASSUME CanInv, UNCHANGED tx, din' \in Values, dout' \in Values,
           Wake \/ Advance \/ TickReads \/ ClaimHolds \/ UNCHANGED worker
    PROVE  CanInv'
<1>1. DOMAIN worker' = {"todo", "di", "due"} /\ worker'.di \in Values \union {NoValue}
  BY WorkerType DEF CanInv
<1>2. QED
  BY <1>1 DEF CanInv, CanTypes, SlotsDiffer, FramesIntact, tx

\* Steps of the worker that send a frame
LEMMA SendingKeeps ==
    ASSUME CanInv, NEW f \in CanFrames, Sends(f), Advance, UNCHANGED ioState
    PROVE  CanInv'
<1>1. DOMAIN worker' = {"todo", "di", "due"} /\ worker'.di \in Values \union {NoValue}
  BY WorkerType DEF CanInv
<1>2. QED
  BY <1>1, SendsKeeps DEF CanInv, CanTypes, ioState

LEMMA WorkerKeeps == CanInv /\ Worker => CanInv'
<1> SUFFICES ASSUME CanInv, Worker PROVE CanInv'
  OBVIOUS
<1>0. din \in Values /\ dout \in Values /\ worker.di \in Values \union {NoValue}
  BY DEF CanInv, CanTypes
<1>1. CASE Wake
  BY <1>0, <1>1, QuietKeeps DEF Wake, ioState
<1>2. CASE WriteOutputs
  BY <1>0, <1>2, QuietKeeps DEF WriteOutputs
<1>3. CASE AnswerHb \/ TickHb
  <2>1. [kind |-> "hb", val |-> NoValue] \in CanFrames
    BY DEF CanFrames
  <2>2. Advance /\ UNCHANGED ioState /\ (Sends([kind |-> "hb", val |-> NoValue]) \/ UNCHANGED tx)
    BY <1>3 DEF AnswerHb, TickHb
  <2>3. QED
    BY <1>0, <2>1, <2>2, SendingKeeps, QuietKeeps DEF ioState
<1>4. CASE AnswerDi
  <2>1. [kind |-> "di", val |-> din] \in CanFrames
    BY <1>0 DEF CanFrames
  <2>2. QED
    BY <1>4, <2>1, SendingKeeps DEF AnswerDi, TellsDi
<1>5. CASE AnswerDo
  <2>1. [kind |-> "do", val |-> dout] \in CanFrames
    BY <1>0 DEF CanFrames
  <2>2. QED
    BY <1>5, <2>1, SendingKeeps DEF AnswerDo, TxDo
<1>6. CASE Check
  BY <1>0, <1>6, QuietKeeps DEF Check, ioState
<1>7. CASE TickReads
  BY <1>0, <1>7, QuietKeeps DEF TickReads, ioState
<1>8. CASE ClaimHolds
  BY <1>0, <1>8, QuietKeeps DEF ClaimHolds, ioState
<1>9. CASE TickDi
  <2>1. [kind |-> "di", val |-> Sampled] \in CanFrames
    BY <1>0 DEF CanFrames, Sampled
  <2>2. Advance /\ UNCHANGED ioState /\ (Sends([kind |-> "di", val |-> Sampled]) \/ UNCHANGED tx)
    BY <1>9 DEF TickDi, TellsDi, ioState
  <2>3. QED
    BY <1>0, <2>1, <2>2, SendingKeeps, QuietKeeps DEF ioState
<1>10. CASE TickDo
  <2>1. [kind |-> "do", val |-> dout] \in CanFrames
    BY <1>0 DEF CanFrames
  <2>2. Advance /\ UNCHANGED ioState /\ (Sends([kind |-> "do", val |-> dout]) \/ UNCHANGED tx)
    BY <1>10 DEF TickDo, TxDo, ioState
  <2>3. QED
    BY <1>0, <2>1, <2>2, SendingKeeps, QuietKeeps DEF ioState
<1>11. QED
  BY <1>1, <1>2, <1>3, <1>4, <1>5, <1>6, <1>7, <1>8, <1>9, <1>10 DEF Worker

\* A frame leaves the driver: it was sent, or dropped in bus-off.
LEMMA LeavingKeeps ==
    ASSUME CanInv, driver # <<>>, Done, UNCHANGED <<ioState, worker>>
    PROVE  CanInv'
  BY DoneKeeps DEF CanInv, CanTypes, ioState

LEMMA CanNextKeeps == CanInv /\ [CanNext]_canVars => CanInv'
<1> SUFFICES ASSUME CanInv, [CanNext]_canVars PROVE CanInv'
  OBVIOUS
<1>0. din \in Values /\ dout \in Values
  BY DEF CanInv, CanTypes
<1>1. CASE Worker
  BY <1>1, WorkerKeeps
<1>2. CASE FrameDone
  BY <1>2, LeavingKeeps DEF FrameDone
<1>3. CASE InputMoves \/ OutputSwitched
  BY <1>0, <1>3, QuietKeeps DEF InputMoves, OutputSwitched
<1>4. ASSUME NEW m \in {"request", "write"}, FrameComes(m) PROVE CanInv'
  BY <1>0, <1>4, QuietKeeps DEF FrameComes, ioState
<1>5. CASE Shorted \/ Mended \/ NodeRecovers
  BY <1>0, <1>5, QuietKeeps DEF Shorted, Mended, NodeRecovers, ioState
<1>6. CASE BusOff
  <2>1. CASE UNCHANGED tx
    BY <1>0, <1>6, <2>1, QuietKeeps DEF BusOff, ioState
  <2>2. CASE Done
    BY <1>6, <2>2, LeavingKeeps DEF BusOff
  <2>3. QED
    BY <1>6, <2>1, <2>2 DEF BusOff
<1>7. CASE UNCHANGED canVars
  BY <1>0, <1>7, QuietKeeps DEF canVars, ioState, tx
<1>8. QED
  BY <1>1, <1>2, <1>3, <1>4, <1>5, <1>6, <1>7 DEF CanNext

\* A frame the driver still has is as it was handed over and its slot is taken,
\* for any number of slots and whatever the bus does (tx_claim(), tx_done_cb()).
THEOREM FramesStayIntact == CanSpec => []FramesIntact
<1>1. CanInv => FramesIntact
  BY DEF CanInv
<1>2. QED
  BY <1>1, CanInitInv, CanNextKeeps, PTL DEF CanSpec

-----------------------------------------------------------------------------
(* The RS-485 segment: who is in front of whom, and whose turn it is.      *)

\* A position of the queue for the segment, without the one at i
LEMMA WithoutOne ==
    ASSUME NEW S, NEW s \in Seq(S), NEW i \in DOMAIN s
    PROVE  /\ RemoveAt(s, i) \in Seq(S) /\ Len(RemoveAt(s, i)) = Len(s) - 1
           /\ \A k \in DOMAIN RemoveAt(s, i) : RemoveAt(s, i)[k] = IF k < i THEN s[k] ELSE s[k + 1]
<1>1. Len(s) \in Nat /\ DOMAIN s = 1 .. Len(s) /\ i \in 1 .. Len(s)
  BY LenProperties
<1> DEFINE a == SubSeq(s, 1, i - 1)
           b == SubSeq(s, i + 1, Len(s))
<1>0. \A k \in 1 .. Len(s) : s[k] \in S
  BY <1>1, ElementOfSeq
<1>2. a \in Seq(S) /\ Len(a) = i - 1 /\ \A k \in 1 .. i - 1 : a[k] = s[k]
  <2>1. 1 \in Int /\ i - 1 \in Int /\ \A k \in 1 .. i - 1 : s[k] \in S
    BY <1>0, <1>1
  <2>2. /\ a \in Seq(S) /\ Len(a) = IF 1 <= i - 1 THEN i - 1 - 1 + 1 ELSE 0
        /\ \A k \in 1 .. i - 1 - 1 + 1 : a[k] = s[1 + k - 1]
    BY <2>1, SubSeqProperties
  <2> HIDE DEF a
  <2>3. QED
    BY <2>2, <1>1
<1>3. b \in Seq(S) /\ Len(b) = Len(s) - i /\ \A k \in 1 .. Len(s) - i : b[k] = s[k + i]
  <2>1. i + 1 \in Int /\ Len(s) \in Int /\ \A k \in i + 1 .. Len(s) : s[k] \in S
    BY <1>0, <1>1
  <2>2. /\ b \in Seq(S) /\ Len(b) = IF i + 1 <= Len(s) THEN Len(s) - (i + 1) + 1 ELSE 0
        /\ \A k \in 1 .. Len(s) - (i + 1) + 1 : b[k] = s[(i + 1) + k - 1]
    BY <2>1, SubSeqProperties
  <2> HIDE DEF b
  <2>3. b \in Seq(S) /\ Len(b) = Len(s) - i
    BY <2>2, <1>1
  <2>4. ASSUME NEW k \in 1 .. Len(s) - i PROVE b[k] = s[k + i]
    <3>1. k \in 1 .. Len(s) - (i + 1) + 1 /\ (i + 1) + k - 1 = k + i
      BY <1>1
    <3>2. b[k] = s[(i + 1) + k - 1]
      BY <3>1, <2>2
    <3>3. QED
      BY <3>1, <3>2
  <2>5. QED
    BY <2>3, <2>4
<1>4. RemoveAt(s, i) = a \o b
  BY DEF RemoveAt
<1> HIDE DEF a, b
<1>5. /\ a \o b \in Seq(S) /\ Len(a \o b) = Len(a) + Len(b)
      /\ \A k \in 1 .. Len(a) + Len(b) : (a \o b)[k] = IF k <= Len(a) THEN a[k] ELSE b[k - Len(a)]
  <2>1. a \in Seq(S) /\ b \in Seq(S)
    BY <1>2, <1>3
  <2>2. QED
    BY <2>1, ConcatProperties
<1>6. DOMAIN (a \o b) = 1 .. Len(s) - 1
  <2>1. DOMAIN (a \o b) = 1 .. Len(a \o b)
    BY <1>5, LenProperties
  <2>2. Len(a \o b) = Len(s) - 1
    BY <1>1, <1>2, <1>3, <1>5
  <2>3. QED
    BY <2>1, <2>2
<1>7. ASSUME NEW k \in 1 .. Len(s) - 1 PROVE (a \o b)[k] = IF k < i THEN s[k] ELSE s[k + 1]
  <2>1. CASE k < i
    BY <2>1, <1>1, <1>2, <1>3, <1>5
  <2>2. CASE ~(k < i)
    <3>1. (a \o b)[k] = b[k - (i - 1)] /\ k - (i - 1) \in 1 .. Len(s) - i
      BY <2>2, <1>1, <1>2, <1>3, <1>5
    <3>2. (k - (i - 1)) + i = k + 1
      BY <1>1
    <3>3. QED
      BY <3>1, <3>2, <2>2, <1>3
  <2>3. QED
    BY <2>1, <2>2
<1>8. Len(a \o b) = Len(s) - 1
  BY <1>1, <1>2, <1>3, <1>5
<1>9. a \o b \in Seq(S)
  BY <1>5
<1>10. \A k \in DOMAIN (a \o b) : (a \o b)[k] = IF k < i THEN s[k] ELSE s[k + 1]
  BY <1>6, <1>7
<1>11. QED
  BY <1>4, <1>8, <1>9, <1>10

\* The workers in front of the place k of a queue
Ahead(s, k) == {s[j] : j \in 1 .. k - 1} \ {PollTask}

\* Who leaves a queue without duplicates is in front of nobody any more.
LEMMA AheadWithout ==
    ASSUME NEW S, NEW s \in Seq(S), NEW i \in DOMAIN s, NEW k \in DOMAIN RemoveAt(s, i),
           \A m, n \in DOMAIN s : s[m] = s[n] => m = n
    PROVE  LET j == IF k < i THEN k ELSE k + 1
           IN  /\ j \in DOMAIN s /\ j # i /\ RemoveAt(s, i)[k] = s[j]
               /\ Ahead(RemoveAt(s, i), k) = Ahead(s, j) \ {s[i]}
<1> DEFINE r == RemoveAt(s, i)
           j == IF k < i THEN k ELSE k + 1
<1>1. r \in Seq(S) /\ Len(r) = Len(s) - 1 /\ \A m \in DOMAIN r : r[m] = IF m < i THEN s[m] ELSE s[m + 1]
  BY WithoutOne
<1>2. Len(s) \in Nat /\ DOMAIN s = 1 .. Len(s)
  BY LenProperties
<1>3. DOMAIN r = 1 .. Len(s) - 1
  BY <1>1, LenProperties
<1>4. k \in DOMAIN r
  OBVIOUS
<1> HIDE DEF r
<1>5. i \in 1 .. Len(s) /\ k \in 1 .. Len(s) - 1
  BY <1>2, <1>3, <1>4
<1>6. j \in DOMAIN s /\ j # i /\ r[k] = s[j]
  BY <1>1, <1>2, <1>4, <1>5
<1>7. ASSUME NEW e PROVE e \in Ahead(r, k) => e \in Ahead(s, j) \ {s[i]}
  <2>1. SUFFICES ASSUME NEW m \in 1 .. k - 1, e = r[m], e # PollTask
                 PROVE  e \in Ahead(s, j) \ {s[i]}
    BY DEF Ahead
  <2>2. m \in DOMAIN r
    BY <1>3, <1>5, <2>1
  <2>3. PICK n \in 1 .. j - 1 : n \in DOMAIN s /\ n # i /\ e = s[n]
    <3>1. CASE m < i
      <4>1. m \in 1 .. j - 1 /\ m \in DOMAIN s /\ m # i
        BY <3>1, <2>1, <1>2, <1>5
      <4>2. e = s[m]
        BY <3>1, <2>1, <2>2, <1>1
      <4>3. QED
        BY <4>1, <4>2
    <3>2. CASE ~(m < i)
      <4>1. m + 1 \in 1 .. j - 1 /\ m + 1 \in DOMAIN s /\ m + 1 # i
        BY <3>2, <2>1, <1>2, <1>5
      <4>2. e = s[m + 1]
        BY <3>2, <2>1, <2>2, <1>1
      <4>3. QED
        BY <4>1, <4>2
    <3>3. QED
      BY <3>1, <3>2
  <2>4. e # s[i]
    BY <2>3
  <2>5. QED
    BY <2>1, <2>3, <2>4 DEF Ahead
<1>8. ASSUME NEW e PROVE e \in Ahead(s, j) \ {s[i]} => e \in Ahead(r, k)
  <2>1. SUFFICES ASSUME NEW n \in 1 .. j - 1, e = s[n], e # PollTask, e # s[i]
                 PROVE  e \in Ahead(r, k)
    BY DEF Ahead
  <2>2. n \in Int /\ n # i
    BY <2>1, <1>5
  <2>3. PICK m \in 1 .. k - 1 : e = r[m]
    <3>1. CASE n < i
      <4>1. n \in 1 .. k - 1 /\ n \in DOMAIN r
        BY <3>1, <2>1, <1>3, <1>5
      <4>2. QED
        BY <4>1, <3>1, <2>1, <1>1
    <3>2. CASE n > i
      <4>1. n - 1 \in 1 .. k - 1 /\ n - 1 \in DOMAIN r /\ ~(n - 1 < i) /\ (n - 1) + 1 = n
        BY <3>2, <2>1, <1>3, <1>5
      <4>2. QED
        BY <4>1, <2>1, <1>1
    <3>3. QED
      BY <3>1, <3>2, <2>2, <1>5
  <2>4. QED
    BY <2>1, <2>3 DEF Ahead
<1>9. Ahead(r, k) = Ahead(s, j) \ {s[i]}
  BY <1>7, <1>8
<1>10. QED
  BY <1>6, <1>9 DEF r

\* How a transaction ends
GwEnds == GwCodes \union {GwOk, "silent", "unsent"}

\* The segment's holder alone has the exception of its transaction on the master.
GwHolds ==
    /\ gw \in [GwTasks -> {"idle", "waits", "sends", "ended"}]
    /\ DOMAIN reply = GwTasks /\ DOMAIN heard = GwTasks
    /\ \A t \in GwTasks : gw[t] \in {"sends", "ended"} => segment = t
    /\ \A t \in GwTasks : gw[t] = "ended" =>
          heard[t] \in GwEnds /\ exception = IF heard[t] \in GwCodes THEN heard[t] ELSE "none"

\* Who waits is in line once, and who is in line waits.
GwLine ==
    /\ waiting \in Seq(GwTasks) /\ behind \in [GwTasks -> Nat]
    /\ \A i \in DOMAIN waiting : gw[waiting[i]] = "waits"
    /\ \A i, j \in DOMAIN waiting : waiting[i] = waiting[j] => i = j

\* What a worker has waited for and what is in front of it are no more than the
\* workers there are: the one that has the segment counts as waited for.
GwPatience ==
    \A i \in DOMAIN waiting : waiting[i] # PollTask =>
        behind[waiting[i]] + Cardinality(Ahead(waiting, i)) <= Cardinality(GwWorkers)

GwInv == GwHolds /\ GwLine /\ GwPatience /\ SegmentIsShared

LEMMA AheadIsFew ==
    ASSUME NEW s \in Seq(GwTasks), NEW k \in DOMAIN s
    PROVE  Ahead(s, k) \subseteq GwWorkers /\ IsFiniteSet(Ahead(s, k))
<1>1. Ahead(s, k) \subseteq GwWorkers
  <2>1. \A j \in 1 .. Len(s) : s[j] \in GwTasks
    BY ElementOfSeq
  <2>2. Len(s) \in Nat /\ DOMAIN s = 1 .. Len(s)
    BY LenProperties
  <2>3. QED
    BY <2>1, <2>2 DEF Ahead, GwTasks
<1>2. QED
  BY <1>1, GatewayAssumption, FS_Subset

\* Somebody comes to the end of the line, behind the one that has the segment.
LEMMA JoinsLine ==
    ASSUME GwInv, NEW t \in GwTasks, gw[t] = "idle",
           waiting' = Append(waiting, t), gw' = [gw EXCEPT ![t] = "waits"],
           behind' = [behind EXCEPT ![t] = IF segment = "free" THEN 0 ELSE 1]
    PROVE  GwLine' /\ GwPatience'
<1>1. /\ waiting \in Seq(GwTasks) /\ Len(waiting) \in Nat /\ DOMAIN waiting = 1 .. Len(waiting)
      /\ \A i \in DOMAIN waiting : waiting[i] \in GwTasks
  BY LenProperties, ElementOfSeq DEF GwInv, GwLine
<1>2. /\ waiting' \in Seq(GwTasks) /\ Len(waiting') = Len(waiting) + 1
      /\ \A i \in DOMAIN waiting : waiting'[i] = waiting[i]
      /\ waiting'[Len(waiting) + 1] = t
  BY <1>1, AppendProperties
<1>3. DOMAIN waiting' = 1 .. Len(waiting) + 1
  BY <1>2, LenProperties
<1>4. \A i \in DOMAIN waiting : waiting[i] # t
  BY DEF GwInv, GwLine
<1>5. GwLine'
  <2>1. behind' \in [GwTasks -> Nat]
    BY DEF GwInv, GwLine
  <2>2. ASSUME NEW i \in DOMAIN waiting' PROVE gw'[waiting'[i]] = "waits"
    BY <1>1, <1>2, <1>3 DEF GwInv, GwLine, GwHolds
  <2>3. ASSUME NEW i \in DOMAIN waiting', NEW j \in DOMAIN waiting', waiting'[i] = waiting'[j]
        PROVE  i = j
    <3>1. \A k \in DOMAIN waiting' : k \in DOMAIN waiting \/ k = Len(waiting) + 1
      BY <1>1, <1>3
    <3>2. QED
      BY <2>3, <3>1, <1>2, <1>4 DEF GwInv, GwLine
  <2>4. QED
    BY <1>2, <2>1, <2>2, <2>3 DEF GwLine
<1>6. ASSUME NEW i \in DOMAIN waiting', waiting'[i] # PollTask
      PROVE  behind'[waiting'[i]] + Cardinality(Ahead(waiting', i)) <= Cardinality(GwWorkers)
  <2>1. Ahead(waiting', i) = {waiting[j] : j \in 1 .. i - 1} \ {PollTask}
    <3>1. \A j \in 1 .. i - 1 : waiting'[j] = waiting[j]
      BY <1>1, <1>2, <1>3
    <3>2. QED
      BY <3>1 DEF Ahead
  <2>2. CASE i \in DOMAIN waiting
    <3>1. /\ waiting'[i] = waiting[i] /\ waiting[i] # PollTask /\ waiting[i] \in GwTasks
          /\ behind'[waiting[i]] = behind[waiting[i]]
      BY <2>2, <1>1, <1>2, <1>4, <1>6 DEF GwInv, GwLine
    <3>2. QED
      BY <2>1, <2>2, <3>1 DEF GwInv, GwPatience, Ahead
  <2>3. CASE i = Len(waiting) + 1
    <3>1. waiting'[i] = t /\ t \in GwWorkers
      BY <2>3, <1>2, <1>6 DEF GwTasks
    <3>2. behind'[t] \in 0 .. 1
      BY DEF GwInv, GwLine
    <3>3. Ahead(waiting', i) \subseteq GwWorkers \ {t}
      BY <2>1, <2>3, <1>1, <1>4 DEF GwTasks
    <3>4. IsFiniteSet(GwWorkers \ {t}) /\ Cardinality(GwWorkers \ {t}) = Cardinality(GwWorkers) - 1
      BY <3>1, GatewayAssumption, FS_RemoveElement
    <3>5. Cardinality(Ahead(waiting', i)) <= Cardinality(GwWorkers \ {t}) /\ IsFiniteSet(Ahead(waiting', i))
      BY <3>3, <3>4, FS_Subset
    <3>6. Cardinality(Ahead(waiting', i)) \in Nat /\ Cardinality(GwWorkers) \in Nat
      BY <3>5, GatewayAssumption, FS_CardinalityType
    <3>7. QED
      BY <3>1, <3>2, <3>4, <3>5, <3>6
  <2>4. QED
    BY <1>1, <1>3, <2>2, <2>3
<1>7. QED
  BY <1>5, <1>6 DEF GwPatience

\* Somebody leaves the line, and nobody that stays has waited too long for it.
LEMMA LeavesLine ==
    ASSUME GwInv, NEW i \in DOMAIN waiting, Leaves(i), NEW v, gw' = [gw EXCEPT ![waiting[i]] = v],
           behind' \in [GwTasks -> Nat],
           \A j \in DOMAIN waiting : j # i /\ waiting[j] # PollTask =>
              behind'[waiting[j]] + Cardinality(Ahead(waiting, j) \ {waiting[i]}) <= Cardinality(GwWorkers)
    PROVE  GwLine' /\ GwPatience'
<1>1. waiting \in Seq(GwTasks) /\ \A m, n \in DOMAIN waiting : waiting[m] = waiting[n] => m = n
  BY DEF GwInv, GwLine
<1>2. waiting' = RemoveAt(waiting, i)
  BY DEF Leaves
<1> DEFINE Was(k) == IF k < i THEN k ELSE k + 1
<1>3. ASSUME NEW k \in DOMAIN waiting'
      PROVE  /\ Was(k) \in DOMAIN waiting /\ Was(k) # i /\ waiting'[k] = waiting[Was(k)]
             /\ Ahead(waiting', k) = Ahead(waiting, Was(k)) \ {waiting[i]}
  BY <1>1, <1>2, AheadWithout
<1>4. waiting' \in Seq(GwTasks) /\ DOMAIN waiting \subseteq Int /\ DOMAIN waiting' \subseteq Int
  <2>1. waiting' \in Seq(GwTasks)
    BY <1>1, <1>2, WithoutOne
  <2>2. QED
    BY <1>1, <2>1, LenProperties
<1>5. \A m, n \in DOMAIN waiting' : Was(m) = Was(n) => m = n
  BY <1>4
<1> HIDE DEF Was
<1>6. ASSUME NEW k \in DOMAIN waiting' PROVE gw'[waiting'[k]] = "waits"
  <2>1. waiting[Was(k)] # waiting[i] /\ gw[waiting[Was(k)]] = "waits"
    BY <1>1, <1>3 DEF GwInv, GwLine
  <2>2. QED
    BY <2>1, <1>3 DEF GwInv, GwHolds
<1>7. GwLine'
  BY <1>1, <1>3, <1>4, <1>5, <1>6 DEF GwLine
<1>8. GwPatience'
  BY <1>3 DEF GwPatience
<1>9. QED
  BY <1>7, <1>8

\* The segment goes to a worker that has one worker less in front of everybody
\* else then, or to the poll task when no worker is in line.
LEMMA TakeBusKeeps == ASSUME GwInv, NEW t \in GwTasks, TakeBus(t) PROVE GwInv'
<1>1. PICK i \in DOMAIN waiting : waiting[i] = t /\ FirstInLine(i) /\ Leaves(i)
  BY DEF TakeBus
<1>2. /\ gw' = [gw EXCEPT ![waiting[i]] = "sends"]
      /\ behind' = [u \in GwTasks |-> IF u = t THEN 0 ELSE IF gw[u] = "waits" THEN behind[u] + 1 ELSE behind[u]]
  BY <1>1 DEF TakeBus
<1>3. behind' \in [GwTasks -> Nat]
  BY <1>2 DEF GwInv, GwLine
<1>4. ASSUME NEW j \in DOMAIN waiting, j # i, waiting[j] # PollTask
      PROVE  behind'[waiting[j]] + Cardinality(Ahead(waiting, j) \ {waiting[i]}) <= Cardinality(GwWorkers)
  <2>1. /\ waiting \in Seq(GwTasks) /\ DOMAIN waiting \subseteq Int
        /\ DOMAIN waiting = 1 .. Len(waiting) /\ waiting[j] \in GwTasks
    BY LenProperties, ElementOfSeq DEF GwInv, GwLine
  <2>2. behind'[waiting[j]] = behind[waiting[j]] + 1 /\ behind[waiting[j]] \in Nat
    BY <1>1, <1>2, <1>4, <2>1 DEF GwInv, GwLine
  <2>3. t # PollTask
    BY <1>1, <1>4 DEF FirstInLine
  <2>4. i < j
    BY <1>1, <1>4, <2>1, <2>3 DEF FirstInLine
  <2>5. t \in Ahead(waiting, j)
    BY <1>1, <2>1, <2>3, <2>4 DEF Ahead
  <2>6. IsFiniteSet(Ahead(waiting, j))
    BY <2>1, AheadIsFew
  <2>7. Cardinality(Ahead(waiting, j) \ {t}) = Cardinality(Ahead(waiting, j)) - 1
    BY <2>5, <2>6, FS_RemoveElement
  <2>8. Cardinality(Ahead(waiting, j)) \in Nat /\ Cardinality(GwWorkers) \in Nat
    BY <2>6, GatewayAssumption, FS_CardinalityType
  <2>9. behind[waiting[j]] + Cardinality(Ahead(waiting, j)) <= Cardinality(GwWorkers)
    BY <1>4 DEF GwInv, GwPatience
  <2>10. QED
    BY <1>1, <2>2, <2>7, <2>8, <2>9
<1>5. GwLine' /\ GwPatience'
  BY <1>1, <1>2, <1>3, <1>4, LeavesLine
<1>6. GwHolds'
  BY GatewayAssumption DEF TakeBus, GwInv, GwHolds, GwTasks, PollTask
<1>7. SegmentIsShared'
  BY DEF TakeBus, GwInv, GwHolds, SegmentIsShared, RepliesAreOwn, WorkersGetATurn
<1>8. QED
  BY <1>5, <1>6, <1>7 DEF GwInv

\* Nobody but the poll task is turned away, and it is in front of nobody.
LEMMA TurnedAwayKeeps == ASSUME GwInv, NEW t \in GwTasks, TurnedAway(t) PROVE GwInv'
<1>1. PICK i \in DOMAIN waiting : waiting[i] = t /\ Leaves(i)
  BY DEF TurnedAway
<1>2. /\ waiting \in Seq(GwTasks) /\ DOMAIN waiting = 1 .. Len(waiting)
      /\ \A j \in DOMAIN waiting : waiting[j] \in GwTasks
  BY LenProperties, ElementOfSeq DEF GwInv, GwLine
<1>3. t = PollTask
  <2>1. SUFFICES ASSUME t # PollTask PROVE FALSE
    OBVIOUS
  <2>2. behind[t] + Cardinality(Ahead(waiting, i)) <= Cardinality(GwWorkers)
    BY <1>1, <2>1 DEF GwInv, GwPatience
  <2>3. IsFiniteSet(Ahead(waiting, i))
    BY <1>2, AheadIsFew
  <2>4. Cardinality(Ahead(waiting, i)) \in Nat /\ Cardinality(GwWorkers) \in Nat /\ behind[t] \in Nat
    BY <2>3, GatewayAssumption, FS_CardinalityType DEF GwInv, GwLine
  <2>5. behind[t] > Cardinality(GwWorkers)
    BY DEF TurnedAway, GW_QUEUE_AHEAD
  <2>6. QED
    BY <2>2, <2>4, <2>5
<1>4. gw' = [gw EXCEPT ![waiting[i]] = "idle"] /\ behind' = [behind EXCEPT ![t] = 0]
  BY <1>1 DEF TurnedAway
<1>5. behind' \in [GwTasks -> Nat]
  BY <1>4 DEF GwInv, GwLine
<1>6. ASSUME NEW j \in DOMAIN waiting, j # i, waiting[j] # PollTask
      PROVE  behind'[waiting[j]] + Cardinality(Ahead(waiting, j) \ {waiting[i]}) <= Cardinality(GwWorkers)
  <2>1. Ahead(waiting, j) \ {waiting[i]} = Ahead(waiting, j)
    BY <1>1, <1>3 DEF Ahead
  <2>2. behind'[waiting[j]] = behind[waiting[j]]
    BY <1>2, <1>3, <1>4, <1>6 DEF GwInv, GwLine
  <2>3. QED
    BY <2>1, <2>2, <1>6 DEF GwInv, GwPatience
<1>7. GwLine' /\ GwPatience'
  BY <1>1, <1>4, <1>5, <1>6, LeavesLine
<1>8. GwHolds'
  BY DEF TurnedAway, GwInv, GwHolds
<1>9. SegmentIsShared'
  <2>1. PollTask \notin GwWorkers
    BY GatewayAssumption
  <2>2. WorkersGetATurn'
    BY <1>3, <2>1 DEF TurnedAway, GwInv, GwHolds, SegmentIsShared, WorkersGetATurn, GwTasks
  <2>3. RepliesAreOwn'
    BY GatewayAssumption DEF TurnedAway, GwInv, GwHolds, SegmentIsShared, RepliesAreOwn, ReplyFor, GwOk
  <2>4. QED
    BY <2>2, <2>3 DEF SegmentIsShared
<1>10. QED
  BY <1>7, <1>8, <1>9 DEF GwInv

\* What leaves the line as it is leaves the patience of those in it.
LEMMA LineStays ==
    ASSUME GwInv, UNCHANGED <<waiting, behind>>,
           \A u \in GwTasks : gw[u] = "waits" => gw'[u] = "waits"
    PROVE  GwLine' /\ GwPatience'
<1>1. \A i \in DOMAIN waiting : waiting[i] \in GwTasks
  BY LenProperties, ElementOfSeq DEF GwInv, GwLine
<1>2. GwLine'
  BY <1>1 DEF GwInv, GwLine
<1>3. GwPatience'
  BY DEF GwInv, GwPatience
<1>4. QED
  BY <1>2, <1>3

LEMMA AsksKeeps == ASSUME GwInv, NEW t \in GwTasks, AsksForBus(t) PROVE GwInv'
<1>1. gw[t] = "idle" /\ UNCHANGED <<segment, exception>>
  BY DEF AsksForBus
<1>2. CASE master = "none"
  <2>1. UNCHANGED <<waiting, behind, gw>> /\ reply' = [reply EXCEPT ![t] = "path"]
        /\ heard' = [heard EXCEPT ![t] = "path"]
    BY <1>2 DEF AsksForBus
  <2>2. GwLine' /\ GwPatience'
    BY <2>1, LineStays
  <2>3. GwHolds'
    BY <1>1, <2>1 DEF GwInv, GwHolds
  <2>4. SegmentIsShared'
    BY <2>1 DEF GwInv, GwHolds, SegmentIsShared, WorkersGetATurn, RepliesAreOwn, ReplyFor, GwOk, GwTasks
  <2>5. QED
    BY <2>2, <2>3, <2>4 DEF GwInv
<1>3. CASE master # "none"
  <2>1. /\ gw' = [gw EXCEPT ![t] = "waits"] /\ waiting' = Append(waiting, t)
        /\ behind' = [behind EXCEPT ![t] = IF segment = "free" THEN 0 ELSE 1]
        /\ reply' = [reply EXCEPT ![t] = "none"] /\ heard' = [heard EXCEPT ![t] = "none"]
    BY <1>3 DEF AsksForBus
  <2>2. GwLine' /\ GwPatience'
    BY <1>1, <2>1, JoinsLine
  <2>3. GwHolds'
    BY <1>1, <2>1 DEF GwInv, GwHolds
  <2>4. SegmentIsShared'
    BY <2>1 DEF GwInv, GwHolds, SegmentIsShared, WorkersGetATurn, RepliesAreOwn, GwTasks
  <2>5. QED
    BY <2>2, <2>3, <2>4 DEF GwInv
<1>4. QED
  BY <1>2, <1>3

LEMMA NotRelayedKeeps == ASSUME GwInv, NEW t \in GwTasks, NotRelayed(t) PROVE GwInv'
<1>1. UNCHANGED <<segment, waiting, behind, exception, gw>>
      /\ reply' = [reply EXCEPT ![t] = "illegal"] /\ heard' = [heard EXCEPT ![t] = "unrelayed"]
  BY DEF NotRelayed
<1>2. GwLine' /\ GwPatience'
  BY <1>1, LineStays
<1>3. GwHolds'
  BY <1>1 DEF NotRelayed, GwInv, GwHolds
<1>4. "unrelayed" \notin GwCodes
  BY GatewayAssumption
<1>5. SegmentIsShared'
  BY <1>1, <1>4 DEF GwInv, GwHolds, SegmentIsShared, WorkersGetATurn, RepliesAreOwn, ReplyFor, GwOk, GwTasks
<1>6. QED
  BY <1>2, <1>3, <1>5 DEF GwInv

LEMMA TransactKeeps == ASSUME GwInv, NEW t \in GwTasks, NEW how \in GwEnds, Transact(t, how) PROVE GwInv'
<1>1. /\ gw[t] = "sends" /\ gw' = [gw EXCEPT ![t] = "ended"] /\ UNCHANGED <<segment, waiting, behind, reply>>
      /\ heard' = [heard EXCEPT ![t] = how] /\ exception' = IF how \in GwCodes THEN how ELSE "none"
  BY DEF Transact
<1>2. GwLine' /\ GwPatience'
  BY <1>1, LineStays DEF GwInv, GwHolds
<1>3. \A u \in GwTasks : gw'[u] \in {"sends", "ended"} => segment' = u
  BY <1>1 DEF GwInv, GwHolds
<1>4. GwHolds'
  BY <1>1, <1>3 DEF GwInv, GwHolds
<1>5. how # "nothing"
  BY GatewayAssumption DEF GwEnds, GwOk
<1>6. SegmentIsShared'
  BY <1>1, <1>5 DEF GwInv, GwHolds, SegmentIsShared, WorkersGetATurn, RepliesAreOwn, GwTasks
<1>7. QED
  BY <1>2, <1>4, <1>6 DEF GwInv

LEMMA GiveBusKeeps == ASSUME GwInv, NEW t \in GwTasks, GiveBus(t) PROVE GwInv'
<1>1. /\ gw[t] = "ended" /\ segment = t /\ segment' = "free" /\ gw' = [gw EXCEPT ![t] = "idle"]
      /\ reply' = [reply EXCEPT ![t] = ReplyOf(t)] /\ UNCHANGED <<waiting, behind, exception, heard>>
  BY DEF GiveBus, GwInv, GwHolds
<1>2. GwLine' /\ GwPatience'
  BY <1>1, LineStays DEF GwInv, GwHolds
<1>3. \A u \in GwTasks : gw'[u] \notin {"sends", "ended"}
  BY <1>1 DEF GwInv, GwHolds
<1>4. GwHolds'
  BY <1>1, <1>3 DEF GwInv, GwHolds
<1>5. ReplyOf(t) = ReplyFor(heard[t])
  <2>1. heard[t] \in GwEnds /\ exception = IF heard[t] \in GwCodes THEN heard[t] ELSE "none"
    BY <1>1 DEF GwInv, GwHolds
  <2>2. "none" \notin GwCodes
    BY GatewayAssumption
  <2>3. QED
    BY <2>1, <2>2 DEF ReplyOf, ReplyFor, GwEnds, GwOk
<1>6. SegmentIsShared'
  BY <1>1, <1>5 DEF GwInv, GwHolds, SegmentIsShared, WorkersGetATurn, RepliesAreOwn, ReplyFor, GwTasks
<1>7. QED
  BY <1>2, <1>4, <1>6 DEF GwInv

LEMMA GwInitInv == GwInit => GwInv
<1> SUFFICES ASSUME GwInit PROVE GwInv
  OBVIOUS
<1>1. waiting \in Seq(GwTasks) /\ DOMAIN waiting = {}
  <2>1. waiting \in Seq(GwTasks) /\ Len(waiting) = 0
    BY EmptySeq DEF GwInit
  <2>2. QED
    BY <2>1, LenProperties
<1>2. GwLine /\ GwPatience
  BY <1>1 DEF GwInit, GwLine, GwPatience
<1>3. GwHolds
  BY DEF GwInit, GwHolds
<1>4. SegmentIsShared
  BY DEF GwInit, SegmentIsShared, RepliesAreOwn, WorkersGetATurn, GwTasks
<1>5. QED
  BY <1>2, <1>3, <1>4 DEF GwInv

LEMMA GwNextKeeps == ASSUME GwInv, [GwNext]_gwVars PROVE GwInv'
<1>1. ASSUME UNCHANGED <<segment, waiting, behind, exception, gw, reply, heard>> PROVE GwInv'
  <2>1. GwLine' /\ GwPatience'
    BY <1>1, LineStays
  <2>2. GwHolds' /\ SegmentIsShared'
    BY <1>1 DEF GwInv, GwHolds, SegmentIsShared, RepliesAreOwn, WorkersGetATurn
  <2>3. QED
    BY <2>1, <2>2 DEF GwInv
<1>2. CASE CreateMaster \/ FinishStart \/ UNCHANGED gwVars
  BY <1>1, <1>2 DEF CreateMaster, FinishStart, gwVars
<1>3. ASSUME NEW t \in GwTasks, AsksForBus(t) \/ NotRelayed(t) \/ TakeBus(t) \/ TurnedAway(t) \/ GiveBus(t)
      PROVE  GwInv'
  BY <1>3, AsksKeeps, NotRelayedKeeps, TakeBusKeeps, TurnedAwayKeeps, GiveBusKeeps
<1>4. ASSUME NEW t \in GwTasks, NEW how \in GwEnds, Transact(t, how) PROVE GwInv'
  BY <1>4, TransactKeeps
<1>5. QED
  BY <1>2, <1>3, <1>4 DEF GwNext, GwEnds

\* For any number of workers, each caller hears how its own transaction ended and no
\* worker is turned away, though the poll task may wait with them (transact(),
\* GW_QUEUE_AHEAD).
THEOREM EverybodyHasATurn == GwSpec => []SegmentIsShared
<1>1. GwInv => SegmentIsShared
  BY DEF GwInv
<1>2. QED
  BY <1>1, GwInitInv, GwNextKeeps, PTL DEF GwSpec

-----------------------------------------------------------------------------
(* The inputs: who is told what.                                           *)

Messages == [chan : Inputs, val : BOOLEAN]

InputTypes ==
    /\ state \in [Inputs -> BOOLEAN] /\ engine \in [Inputs -> BOOLEAN] /\ pin \in [Inputs -> BOOLEAN]
    /\ DOMAIN told = Inputs
    /\ sender \in [Senders -> [todo : SUBSET Messages, tries : Nat, at : {"send", "look"}]]
    /\ \A x \in Senders : HasTold(x) => sender[x].at = "send"

\* A pad that is an input may have to be reported, one that was may have to be taken
\* back; what is read of it then is false.
PadsApart ==
    /\ aux \subseteq Header /\ report \subseteq aux /\ gone \subseteq Header \ aux
    /\ \A n \in gone : state[n] = FALSE

\* The message about n of sender x that is not out yet, and one that is out and will be
\* found old by the look after it.
ToSend(x, n)   == \E m \in sender[x].todo : m.chan = n /\ (sender[x].at = "send" \/ m # Current(x))
WillLook(x, n) ==
    /\ ~HasTold(x) /\ sender[x].at = "look"
    /\ Current(x).chan = n /\ Current(x).val # state[n]

\* While a session is on, the last message about an input has its level, or another one
\* is to follow.
MessagesFollow ==
    online => \A n \in Active \ (gaveUp \union report) :
                 \/ wanted \/ told[n] = {state[n]}
                 \/ \E x \in Senders : ToSend(x, n) \/ WillLook(x, n)

InputsInv == InputTypes /\ PadsApart /\ EngineHasState /\ MessagesFollow

\* A sender that has something to tell has a next message.
LEMMA CurrentIsOne ==
    ASSUME NEW x \in Senders, InputTypes, ~HasTold(x)
    PROVE  Current(x) \in sender[x].todo
<1> DEFINE T == sender[x].todo
           C == {m.chan : m \in T}
<1>1. T # {} /\ T \subseteq Messages
  BY DEF InputTypes, HasTold
<1>2. C \subseteq Nat /\ C # {}
  BY <1>1, InputsAssumption DEF Messages, Inputs
<1>3. PICK c \in C : \A d \in C : ~ (<<d, c>> \in OpToRel(<, Nat))
  BY <1>2, NatLessThanWellFounded, WFMin
<1>4. ASSUME NEW d \in C PROVE c <= d
  <2> HIDE DEF C
  <2>1. ~(d < c) /\ d \in Nat /\ c \in Nat
    BY <1>2, <1>3 DEF OpToRel
  <2>2. QED
    BY <2>1
<1>5. PICK m \in T : m.chan = c
  BY <1>3
<1>6. \A o \in T : m.chan <= o.chan
  BY <1>4, <1>5
<1>7. QED
  BY <1>6 DEF Current

LEMMA InputsInitInv == InputsInit => InputsInv
<1> SUFFICES ASSUME InputsInit PROVE InputsInv
  OBVIOUS
<1>1. InputTypes
  BY DEF InputsInit, InputTypes, Resting, HasTold, Senders, Messages
<1>2. PadsApart /\ EngineHasState /\ MessagesFollow
  BY DEF InputsInit, PadsApart, EngineHasState, MessagesFollow
<1>3. QED
  BY <1>1, <1>2 DEF InputsInv

\* What a look at the levels gives the senders to tell
LEMMA TellsType ==
    ASSUME InputTypes, NEW x \in Senders, NEW S \in SUBSET Inputs, NEW levels \in [Inputs -> BOOLEAN],
           HasTold(x), Tells(x, S, levels)
    PROVE  /\ sender' \in [Senders -> [todo : SUBSET Messages, tries : Nat, at : {"send", "look"}]]
           /\ sender'[x].at = "send"
           /\ sender'[x].todo = {[chan |-> n, val |-> levels[n]] : n \in S}
           /\ \A y \in Senders : y # x => sender'[y] = sender[y]
<1>1. {[chan |-> n, val |-> levels[n]] : n \in S} \in SUBSET Messages
  BY DEF Messages
<1>2. sender[x].at = "send" /\ sender \in [Senders -> [todo : SUBSET Messages, tries : Nat, at : {"send", "look"}]]
  BY DEF InputTypes
<1>3. QED
  BY <1>1, <1>2 DEF Tells

\* A scan or a report of all inputs: every level that changes is told.
LEMMA LooksKeep ==
    ASSUME InputsInv, NEW x \in Senders, NEW S \in SUBSET Active, NEW cur, cur = [n \in Inputs |-> Level(n)],
           HasTold(x), state' = cur, Tells(x, S, cur), UNCHANGED <<pin, aux, online, told, gaveUp>>,
           report' \subseteq report, gone' \subseteq gone, rung' = rung \/ report' \union gone' = {},
           \A n \in Inputs : n \in S => engine'[n] = cur[n],
           \A n \in Inputs : n \notin S => engine'[n] = IF n \in gone \ gone' THEN FALSE ELSE engine[n],
           engine' \in [Inputs -> BOOLEAN],
           \A n \in Active : cur[n] # state[n] => n \in S,
           (report \ report') \subseteq S,
           wanted /\ ~wanted' => S = Active
    PROVE  InputsInv'
<1> USE DEF InputsInv
<1>1. /\ Active \subseteq Inputs /\ report \subseteq Active /\ gone \intersect Active = {}
      /\ gone \subseteq Inputs /\ Active' = Active
  BY InputsAssumption DEF PadsApart, Active, Inputs
<1>2. cur \in [Inputs -> BOOLEAN] /\ \A n \in Inputs \ Active : cur[n] = state[n]
  BY DEF Level, InputTypes
<1>3. /\ sender' \in [Senders -> [todo : SUBSET Messages, tries : Nat, at : {"send", "look"}]]
      /\ sender'[x].at = "send"
      /\ sender'[x].todo = {[chan |-> n, val |-> cur[n]] : n \in S}
      /\ \A y \in Senders : y # x => sender'[y] = sender[y]
  <2>1. InputTypes /\ S \in SUBSET Inputs /\ cur \in [Inputs -> BOOLEAN]
    BY <1>1, <1>2
  <2>2. QED
    BY ONLY <2>1, HasTold(x), Tells(x, S, cur), x \in Senders, TellsType
<1>4. InputTypes'
  BY <1>2, <1>3 DEF InputTypes, HasTold
<1>5. PadsApart'
  BY <1>1, <1>2 DEF PadsApart
<1>6. EngineHasState'
  <2> SUFFICES ASSUME NEW n \in Inputs PROVE engine'[n] = cur[n] \/ (n \in report' \union gone' /\ rung')
    BY DEF EngineHasState
  <2>1. CASE n \in S
    BY <2>1
  <2>2. CASE n \notin S /\ n \in gone \ gone'
    BY <1>1, <1>2, <2>2 DEF PadsApart
  <2>3. CASE n \notin S /\ n \notin gone \ gone'
    <3>1. engine'[n] = engine[n] /\ cur[n] = state[n]
      BY <1>1, <1>2, <2>3
    <3>2. engine[n] = state[n] \/ (n \in report \union gone /\ rung)
      BY DEF EngineHasState
    <3>3. QED
      BY <2>3, <3>1, <3>2
  <2>4. QED
    BY <2>1, <2>2, <2>3
<1>7. MessagesFollow'
  <2> SUFFICES ASSUME online, NEW n \in Active, n \notin gaveUp \union report', ~wanted'
               PROVE  told[n] = {cur[n]} \/ \E y \in Senders : ToSend(y, n)' \/ WillLook(y, n)'
    BY <1>1 DEF MessagesFollow
  <2>1. CASE n \in S
    <3>1. [chan |-> n, val |-> cur[n]] \in sender'[x].todo
      BY <1>3, <2>1
    <3>2. ToSend(x, n)'
      BY <1>3, <3>1 DEF ToSend
    <3>3. QED
      BY <3>2
  <2>2. CASE n \notin S
    <3>1. n \notin report /\ cur[n] = state[n] /\ ~wanted
      BY <2>2
    <3>2. told[n] = {state[n]} \/ \E y \in Senders : ToSend(y, n) \/ WillLook(y, n)
      BY <3>1 DEF MessagesFollow
    <3>3. ~ToSend(x, n) /\ ~WillLook(x, n)
      BY DEF ToSend, WillLook, HasTold
    <3>4. \A y \in Senders : y # x => (ToSend(y, n)' <=> ToSend(y, n)) /\ (WillLook(y, n)' <=> WillLook(y, n))
      <4>1. \A y \in Senders : y # x => sender'[y] = sender[y] /\ Current(y)' = Current(y)
        BY <1>3 DEF Current
      <4>2. state'[n] = state[n]
        BY <1>1, <3>1
      <4>3. QED
        BY <4>1, <4>2 DEF ToSend, WillLook, HasTold
    <3>5. QED
      BY <3>1, <3>2, <3>3, <3>4
  <2>3. QED
    BY <2>1, <2>2
<1>8. QED
  BY <1>4, <1>5, <1>6, <1>7

LEMMA DiScanKeeps == ASSUME InputsInv, DiScan PROVE InputsInv'
<1> DEFINE cur == [n \in Inputs |-> Level(n)]
           send == {n \in Active : cur[n] # state[n] \/ n \in report}
<1>1. /\ "task" \in Senders /\ HasTold("task") /\ state' = cur /\ Tells("task", send, cur)
      /\ engine' = [n \in Inputs |-> IF n \in send THEN cur[n] ELSE IF n \in gone THEN FALSE ELSE engine[n]]
      /\ report' = {} /\ gone' = {} /\ UNCHANGED <<pin, aux, online, wanted, told, gaveUp>>
  BY DEF DiScan, Senders
<1>2. /\ cur \in [Inputs -> BOOLEAN] /\ engine \in [Inputs -> BOOLEAN]
      /\ report \subseteq Active
  BY InputsAssumption DEF InputsInv, InputTypes, PadsApart, Level, Active
<1>3. send \in SUBSET Active /\ report \subseteq send /\ \A n \in Active : cur[n] # state[n] => n \in send
  BY <1>2
<1> HIDE DEF cur, send
<1>4. /\ \A n \in Inputs : n \in send => engine'[n] = cur[n]
      /\ \A n \in Inputs : n \notin send => engine'[n] = IF n \in gone THEN FALSE ELSE engine[n]
      /\ engine' \in [Inputs -> BOOLEAN]
  BY <1>1, <1>2
<1>5. cur = [n \in Inputs |-> Level(n)]
  BY DEF cur
<1>6. /\ report' \subseteq report /\ gone' \subseteq gone /\ (rung' = rung \/ report' \union gone' = {})
      /\ \A n \in Inputs : n \notin send => engine'[n] = IF n \in gone \ gone' THEN FALSE ELSE engine[n]
      /\ report \ report' \subseteq send /\ ~(wanted /\ ~wanted')
  BY <1>1, <1>3, <1>4
<1>7. QED
  BY ONLY InputsInv, <1>1, <1>3, <1>4, <1>5, <1>6, LooksKeep

LEMMA PublishAllKeeps == ASSUME InputsInv, PublishAll PROVE InputsInv'
<1> DEFINE cur == [n \in Inputs |-> Level(n)]
<1>1. /\ "mqtt" \in Senders /\ HasTold("mqtt") /\ state' = cur /\ Tells("mqtt", Active, cur)
      /\ engine' = [n \in Inputs |-> IF n \in Active THEN cur[n] ELSE engine[n]]
      /\ UNCHANGED <<pin, aux, report, gone, rung, online, told, gaveUp>>
  BY DEF PublishAll, Senders
<1>2. cur \in [Inputs -> BOOLEAN] /\ engine \in [Inputs -> BOOLEAN]
  BY DEF InputsInv, InputTypes, Level
<1> HIDE DEF cur
<1>3. /\ \A n \in Inputs : n \in Active => engine'[n] = cur[n]
      /\ \A n \in Inputs : n \notin Active => engine'[n] = engine[n]
      /\ engine' \in [Inputs -> BOOLEAN]
  BY <1>1, <1>2
<1>4. cur = [n \in Inputs |-> Level(n)]
  BY DEF cur
<1>5. QED
  BY <1>1, <1>3, <1>4, LooksKeep

\* A message goes out: it is current, or the look after it will find it is not.
LEMMA SendOutKeeps == ASSUME InputsInv, NEW x \in Senders, SendOut(x) PROVE InputsInv'
<1> USE DEF InputsInv
<1> DEFINE m == Current(x)
<1>1. /\ ~HasTold(x) /\ sender[x].at = "send"
      /\ told' = IF online THEN [told EXCEPT ![m.chan] = {m.val}] ELSE told
      /\ gaveUp' = IF m.val = state[m.chan] THEN gaveUp \ {m.chan} ELSE gaveUp
      /\ sender' = [sender EXCEPT ![x].at = "look", ![x].tries = @ + 1]
      /\ UNCHANGED <<pin, aux, state, report, gone, rung, engine, online, wanted>>
  BY DEF SendOut
<1>2. m \in sender[x].todo /\ m.chan \in Inputs /\ m.val \in BOOLEAN
  BY <1>1, CurrentIsOne DEF InputTypes, Messages
<1>3. /\ sender'[x].todo = sender[x].todo /\ sender'[x].at = "look"
      /\ \A y \in Senders : y # x => sender'[y] = sender[y]
      /\ sender' \in [Senders -> [todo : SUBSET Messages, tries : Nat, at : {"send", "look"}]]
  BY <1>1 DEF InputTypes
<1>4. InputTypes' /\ PadsApart' /\ EngineHasState'
  <2>1. DOMAIN told' = Inputs /\ \A y \in Senders : HasTold(y)' => sender'[y].at = "send"
    BY <1>1, <1>2, <1>3 DEF InputTypes, HasTold
  <2>2. QED
    BY <1>1, <1>3, <2>1 DEF InputTypes, PadsApart, EngineHasState
<1>5. Current(x)' = m /\ \A y \in Senders : y # x => Current(y)' = Current(y)
  BY <1>3 DEF Current
<1>6. MessagesFollow'
  <2> SUFFICES ASSUME online, NEW n \in Active, n \notin gaveUp' \union report, ~wanted
               PROVE  told'[n] = {state[n]} \/ \E y \in Senders : ToSend(y, n)' \/ WillLook(y, n)'
    BY <1>1 DEF MessagesFollow, Active
  <2>1. n \in Inputs /\ DOMAIN told = Inputs
    BY InputsAssumption DEF PadsApart, Active, Inputs, InputTypes
  <2> HIDE DEF m
  <2>2. CASE n = m.chan
    <3>1. CASE m.val = state[n]
      BY <1>1, <2>1, <2>2, <3>1
    <3>2. CASE m.val # state[n]
      <4>1. WillLook(x, n)'
        BY <1>1, <1>3, <1>5, <2>2, <3>2 DEF WillLook, HasTold
      <4>2. QED
        BY <4>1
    <3>3. QED
      BY <3>1, <3>2
  <2>3. CASE n # m.chan
    <3>1. told'[n] = told[n] /\ n \notin gaveUp
      BY <1>1, <2>1, <2>3
    <3>2. \A y \in Senders : (ToSend(y, n) => ToSend(y, n)') /\ (WillLook(y, n) => WillLook(y, n)')
      BY <1>1, <1>3, <1>5, <2>3 DEF ToSend, WillLook, HasTold
    <3>3. QED
      BY <3>1, <3>2 DEF MessagesFollow
  <2>4. QED
    BY <2>2, <2>3
<1>7. QED
  BY <1>4, <1>6

\* The look after it: an old level is replaced, unless four were sent.
LEMMA LookAgainKeeps == ASSUME InputsInv, NEW x \in Senders, LookAgain(x) PROVE InputsInv'
<1> USE DEF InputsInv
<1>1. ~HasTold(x) /\ sender[x].at = "look" /\ UNCHANGED <<pin, aux, state, report, gone, rung, engine, online, wanted, told>>
  BY DEF LookAgain
<1>2. PICK m \in sender[x].todo : m = Current(x)
  BY <1>1, CurrentIsOne
<1>3. m \in Messages /\ m.chan \in Inputs /\ state[m.chan] \in BOOLEAN
  BY DEF InputTypes, Messages
<1>4. CASE m.chan \in Active /\ state[m.chan] # m.val /\ sender[x].tries < Tries
  <2> DEFINE o == [m EXCEPT !.val = state[m.chan]]
  <2>1. /\ sender' = [sender EXCEPT ![x].todo = (@ \ {m}) \union {o}, ![x].at = "send"]
        /\ gaveUp' = gaveUp
    BY <1>2, <1>4 DEF LookAgain
  <2>2. o \in Messages /\ o.chan = m.chan
    BY <1>3 DEF Messages
  <2> HIDE DEF o
  <2>3. /\ sender'[x].todo = (sender[x].todo \ {m}) \union {o} /\ sender'[x].at = "send"
        /\ \A y \in Senders : y # x => sender'[y] = sender[y]
        /\ sender' \in [Senders -> [todo : SUBSET Messages, tries : Nat, at : {"send", "look"}]]
    BY <2>1, <2>2 DEF InputTypes
  <2>4. InputTypes' /\ PadsApart' /\ EngineHasState'
    BY <1>1, <2>3 DEF InputTypes, HasTold, PadsApart, EngineHasState
  <2>5. \A y \in Senders : y # x => Current(y)' = Current(y)
    BY <2>3 DEF Current
  <2>6. ASSUME NEW n PROVE ToSend(x, n) \/ WillLook(x, n) => ToSend(x, n)'
    <3>1. CASE n = m.chan
      BY <2>2, <2>3, <3>1 DEF ToSend
    <3>2. CASE n # m.chan
      BY <1>2, <2>3, <3>2 DEF ToSend, WillLook
    <3>3. QED
      BY <3>1, <3>2
  <2>7. \A n \in Active : \A y \in Senders : ToSend(y, n) \/ WillLook(y, n) => ToSend(y, n)' \/ WillLook(y, n)'
    BY <1>1, <2>3, <2>5, <2>6 DEF ToSend, WillLook, HasTold
  <2>8. Active' = Active
    BY <1>1 DEF Active
  <2>9. MessagesFollow'
    BY <1>1, <2>1, <2>7, <2>8 DEF MessagesFollow
  <2>10. QED
    BY <2>4, <2>9
<1>5. CASE ~(m.chan \in Active /\ state[m.chan] # m.val /\ sender[x].tries < Tries)
  <2>1. /\ sender' = [sender EXCEPT ![x] = [todo |-> sender[x].todo \ {m}, tries |-> 0, at |-> "send"]]
        /\ gaveUp' = IF m.chan \in Active /\ state[m.chan] # m.val THEN gaveUp \union {m.chan} ELSE gaveUp
    BY <1>2, <1>5 DEF LookAgain, Told
  <2>2. /\ sender'[x].todo = sender[x].todo \ {m} /\ sender'[x].at = "send"
        /\ \A y \in Senders : y # x => sender'[y] = sender[y]
        /\ sender' \in [Senders -> [todo : SUBSET Messages, tries : Nat, at : {"send", "look"}]]
    BY <2>1 DEF InputTypes
  <2>3. InputTypes' /\ PadsApart' /\ EngineHasState'
    BY <1>1, <2>2 DEF InputTypes, HasTold, PadsApart, EngineHasState
  <2>4. \A y \in Senders : y # x => Current(y)' = Current(y)
    BY <2>2 DEF Current
  <2>5. ASSUME NEW n \in Active, n \notin gaveUp' PROVE ToSend(x, n) \/ WillLook(x, n) => ToSend(x, n)'
    <3>1. ~WillLook(x, n)
      BY <1>2, <2>1, <2>5 DEF WillLook
    <3>2. ToSend(x, n) => ToSend(x, n)'
      BY <1>1, <1>2, <2>2 DEF ToSend
    <3>3. QED
      BY <3>1, <3>2
  <2>6. \A n \in Active \ gaveUp' : \A y \in Senders :
            ToSend(y, n) \/ WillLook(y, n) => ToSend(y, n)' \/ WillLook(y, n)'
    BY <1>1, <2>2, <2>4, <2>5 DEF ToSend, WillLook, HasTold
  <2>7. Active' = Active /\ gaveUp \subseteq gaveUp'
    BY <1>1, <2>1 DEF Active
  <2>8. MessagesFollow'
    BY <1>1, <2>6, <2>7 DEF MessagesFollow
  <2>9. QED
    BY <2>3, <2>8
<1>6. QED
  BY <1>4, <1>5

\* A pad joins the inputs or leaves them.
LEMMA AuxInputKeeps == ASSUME InputsInv, NEW n \in Header, AuxInput(n) PROVE InputsInv'
<1> USE DEF InputsInv
<1>1. /\ rung' = TRUE /\ UNCHANGED <<pin, engine, online, wanted, told, sender, gaveUp>>
      /\ n \in Inputs /\ n \notin Isolated
  BY InputsAssumption DEF AuxInput, Inputs
<1>2. /\ aux' \subseteq Header /\ report' \subseteq aux' /\ gone' \subseteq Header \ aux'
      /\ state' \in [Inputs -> BOOLEAN] /\ \A k \in Inputs : k # n => state'[k] = state[k]
      /\ n \in report' \union gone' /\ (n \in gone' => state'[n] = FALSE)
      /\ \A k \in Inputs : k # n => (k \in report' <=> k \in report) /\ (k \in gone' <=> k \in gone) /\ (k \in aux' <=> k \in aux)
      /\ (n \in aux' => n \in report')
  BY <1>1 DEF AuxInput, PadsApart, InputTypes
<1>3. InputTypes'
  BY <1>1, <1>2 DEF InputTypes, HasTold
<1>4. PadsApart' /\ EngineHasState'
  <2>1. gone' \subseteq Inputs
    BY <1>2 DEF Inputs
  <2>2. \A k \in gone' : state'[k] = FALSE
    BY <1>2, <2>1 DEF PadsApart
  <2>3. QED
    BY <1>1, <1>2, <2>2 DEF PadsApart, EngineHasState
<1>5. MessagesFollow'
  <2> SUFFICES ASSUME online, NEW k \in Active', k \notin gaveUp \union report', ~wanted
               PROVE  told[k] = {state'[k]} \/ \E y \in Senders : ToSend(y, k)' \/ WillLook(y, k)'
    BY <1>1 DEF MessagesFollow
  <2>1. k \in Inputs /\ k # n /\ k \in Active /\ k \notin report /\ state'[k] = state[k]
    BY <1>1, <1>2 DEF Active, Inputs
  <2>2. \A y \in Senders : (ToSend(y, k)' <=> ToSend(y, k)) /\ (WillLook(y, k)' <=> WillLook(y, k))
    BY <1>1, <2>1 DEF ToSend, WillLook, HasTold, Current
  <2>3. QED
    BY <2>1, <2>2 DEF MessagesFollow
<1>6. QED
  BY <1>3, <1>4, <1>5

LEMMA InputsNextKeeps == ASSUME InputsInv, [InputsNext]_inputVars PROVE InputsInv'
<1>1. CASE \E n \in Inputs : PinMoves(n)
  <2>1. PICK n \in Inputs : PinMoves(n)
    BY <1>1
  <2>2. /\ pin' \in [Inputs -> BOOLEAN] /\ (rung => rung')
        /\ UNCHANGED <<aux, state, report, gone, engine, online, wanted, told, sender, gaveUp>>
    BY <2>1 DEF PinMoves, InputsInv, InputTypes
  <2>3. InputTypes' /\ PadsApart' /\ EngineHasState'
    BY <2>2 DEF InputsInv, InputTypes, HasTold, PadsApart, EngineHasState
  <2>4. MessagesFollow'
    BY <2>2 DEF InputsInv, MessagesFollow, Active, ToSend, WillLook, Current, HasTold
  <2>5. QED
    BY <2>3, <2>4 DEF InputsInv
<1>2. CASE EnableIsr \/ Disconnect \/ Read \/ Connect \/ UNCHANGED inputVars
  <2>1. UNCHANGED <<pin, aux, state, report, gone, rung, engine, sender, gaveUp>>
    BY <1>2 DEF EnableIsr, Disconnect, Read, Connect, inputVars
  <2>2. online' => wanted' \/ (online /\ (wanted' <=> wanted) /\ told' = told)
    BY <1>2 DEF EnableIsr, Disconnect, Read, Connect, inputVars
  <2>3. DOMAIN told' = Inputs
    BY <1>2 DEF EnableIsr, Disconnect, Read, Connect, inputVars, InputsInv, InputTypes
  <2>4. MessagesFollow'
    BY <2>1, <2>2 DEF InputsInv, MessagesFollow, Active, ToSend, WillLook, Current, HasTold
  <2>5. QED
    BY <2>1, <2>3, <2>4 DEF InputsInv, InputTypes, HasTold, PadsApart, EngineHasState
<1>3. QED
  BY <1>1, <1>2, AuxInputKeeps, DiScanKeeps, PublishAllKeeps, SendOutKeeps, LookAgainKeeps DEF InputsNext

LEMMA InputsTold == InputsInv => ToldTheLevel
<1> SUFFICES ASSUME InputsInv, Quiet, NEW n \in Active \ (gaveUp \union report) PROVE told[n] = {state[n]}
  BY DEF ToldTheLevel, LastMessage, InputsInv
<1>1. \A x \in Senders : ~ToSend(x, n) /\ ~WillLook(x, n)
  BY DEF Quiet, HasTold, ToSend, WillLook
<1>2. QED
  BY <1>1 DEF InputsInv, MessagesFollow, Quiet

\* For any inputs and pads, the rule engine has the level of each of them or is about
\* to be given it, and when the senders rest the subscribers have it too, unless one of
\* them gave up after four newer levels (deliver_rules(), notify_ext()).
THEOREM EverybodyIsTold == InputsSpec => []ToldTheLevel
<1>1. InputsInv /\ [InputsNext]_inputVars => InputsInv'
  BY InputsNextKeeps
<1>2. QED
  BY <1>1, InputsInitInv, InputsTold, PTL DEF InputsSpec

-----------------------------------------------------------------------------
(* The LED: what a command finds of the ones before it.                    *)

\* A sequence of the queue or of the task has a number handed out; after an instant
\* colour it is an older one.
GenInv ==
    /\ gen \in Nat /\ run.seq.gen \in Nat /\ run.seq.gen <= gen
    /\ queue # <<>> => /\ queue = <<Head(queue)>>
                       /\ Head(queue).gen \in Nat /\ Head(queue).gen <= gen
    /\ newest.kind = "instant" =>
         /\ gen > 0 /\ run.seq.gen # gen /\ rgb = newest.last
         /\ queue # <<>> => Head(queue).gen # gen

\* A sequence that is current was not woken; one that is not, and waits, was or is about
\* to be, by the command that holds the lock.
WakeInv ==
    /\ run.at \in {"step", "wait", "look"} /\ run.seq.gen = gen => ~woken /\ ioLock = "free"
    /\ run.at = "wait" /\ run.seq.gen # gen /\ ioLock = "free" => woken
    /\ woken \in BOOLEAN /\ run.at \in {"idle", "drain", "step", "wait", "look"}
    /\ DOMAIN run = {"at", "seq", "i"}

\* In IO mode nobody tells the LED of the connection, in status mode nobody sets it.
ModeInv ==
    /\ ledMode \in {"io", "status"} /\ DOMAIN call = Callers
    /\ ledMode = "status" => newest.kind = "none" /\ queue = <<>> /\ run.at = "idle" /\ ioLock = "free"
    /\ ledMode = "io" => /\ ~netUp /\ session = "none" /\ \A t \in Callers : Todo(t) = <<>>
                         /\ flash.queue = <<>> /\ flash.at = "idle"
                         /\ ~blink.timer /\ blink.at = "idle"

LedInv == GenInv /\ WakeInv /\ ModeInv

LEMMA LedInitInv == LedInit => LedInv
<1> SUFFICES ASSUME LedInit PROVE LedInv
  OBVIOUS
<1>1. ledMode \in {"io", "status"}
  <2>1. PICK s \in LedScenarios : ledMode = s.mode
    BY DEF LedInit
  <2>2. LedScenarios \subseteq [mode : {"io", "status"}, kinds : SUBSET LedEvents, max : Nat]
    BY LedAssumption
  <2>3. QED
    BY <2>1, <2>2
<1>2. GenInv /\ WakeInv
  <2>1. /\ run.at = "idle" /\ run.seq.gen = 0 /\ DOMAIN run = {"at", "seq", "i"}
        /\ gen = 0 /\ queue = <<>> /\ woken = FALSE /\ newest.kind = "none"
    BY DEF LedInit, NoSeq
  <2>2. GenInv
    BY <2>1 DEF GenInv
  <2>3. WakeInv
    BY <2>1 DEF WakeInv
  <2>4. QED
    BY <2>2, <2>3
<1>3. ModeInv
  BY <1>1 DEF LedInit, ModeInv, Todo
<1>4. QED
  BY <1>2, <1>3 DEF LedInv

\* Commands number themselves past everything there is; the task writes for the newest
\* number only.
LEMMA IoKeeps == ASSUME LedInv, IoNext, ledMode = "io" PROVE LedInv'
<1> USE DEF LedInv
<1>0. ASSUME UNCHANGED <<ledMode, statusVars>> PROVE ModeInv'
  BY <1>0 DEF ModeInv, statusVars, Todo
<1>1. ASSUME NEW c \in LedColours, Instant(c) PROVE LedInv'
  <2>1. /\ gen' = gen + 1 /\ rgb' = c /\ woken' = TRUE
        /\ newest' = [kind |-> "instant", last |-> c, gen |-> gen + 1]
        /\ UNCHANGED <<ledMode, queue, ioLock, run, statusVars>> /\ ioLock = "free"
    BY <1>1 DEF Instant
  <2>2. GenInv'
    BY <2>1 DEF GenInv
  <2>3. WakeInv'
    BY <2>1 DEF WakeInv, GenInv
  <2>4. QED
    BY <1>0, <2>1, <2>2, <2>3
<1>2. ASSUME NEW p \in LedPrograms, QueueSeq(p) PROVE LedInv'
  <2>1. /\ gen' = gen + 1 /\ queue' = <<[steps |-> p, gen |-> gen + 1]>> /\ ioLock' = "producer"
        /\ newest'.kind = "sequence" /\ UNCHANGED <<ledMode, woken, run, statusVars>>
    BY <1>2 DEF QueueSeq, Overwrite
  <2>2. queue' = <<Head(queue')>> /\ Head(queue').gen = gen + 1
    BY <2>1
  <2>3. GenInv'
    BY <2>1, <2>2 DEF GenInv
  <2>4. WakeInv'
    BY <2>1 DEF WakeInv, GenInv
  <2>5. QED
    BY <1>0, <2>1, <2>3, <2>4
<1>3. CASE QueueNotify
  <2>1. /\ ioLock = "producer" /\ ioLock' = "free" /\ woken' = TRUE
        /\ UNCHANGED <<ledMode, rgb, gen, queue, run, newest, statusVars>>
    BY <1>3 DEF QueueNotify
  <2>2. GenInv' /\ WakeInv'
    BY <2>1 DEF GenInv, WakeInv
  <2>3. QED
    BY <1>0, <2>1, <2>2
<1>4. CASE Receive
  <2>1. /\ queue # <<>> /\ run' = [at |-> "drain", seq |-> Head(queue), i |-> 1] /\ queue' = <<>>
        /\ UNCHANGED <<ledMode, rgb, gen, ioLock, woken, newest, statusVars>>
    BY <1>4 DEF Receive
  <2>2. Head(queue).gen \in Nat /\ Head(queue).gen <= gen
        /\ (newest.kind = "instant" => Head(queue).gen # gen)
    BY <2>1 DEF GenInv
  <2>3. GenInv' /\ WakeInv'
    BY <2>1, <2>2 DEF GenInv, WakeInv
  <2>4. QED
    BY <1>0, <2>1, <2>3
<1>5. CASE Drain \/ Waited \/ Look
  <2>1. UNCHANGED <<ledMode, rgb, gen, queue, ioLock, newest, statusVars>>
    BY <1>5 DEF Drain, Waited, Look
  <2>2. run'.seq = run.seq \/ run'.seq = NoSeq
    BY <1>5 DEF Drain, Waited, Look, Ends, WakeInv
  <2>3. GenInv'
    BY <2>1, <2>2 DEF GenInv, NoSeq
  <2>4. WakeInv'
    <3>1. CASE Drain
      BY <2>1, <3>1 DEF Drain, WakeInv
    <3>2. CASE Waited
      BY <2>1, <3>2 DEF Waited, WakeInv
    <3>3. CASE Look
      <4>1. CASE Ends
        BY <2>1, <3>3, <4>1 DEF Look, Ends, WakeInv
      <4>2. CASE run' = [run EXCEPT !.at = "step"] /\ run.seq.gen = gen
        BY <2>1, <3>3, <4>2 DEF Look, WakeInv
      <4>3. QED
        BY <3>3, <4>1, <4>2 DEF Look
    <3>4. QED
      BY <1>5, <3>1, <3>2, <3>3
  <2>5. QED
    BY <1>0, <2>1, <2>3, <2>4
<1>6. CASE Step
  <2>1. UNCHANGED <<ledMode, gen, queue, ioLock, woken, newest, statusVars>> /\ ioLock = "free" /\ run.at = "step"
    BY <1>6 DEF Step
  <2>2. CASE run.i > Len(run.seq.steps) \/ run.seq.gen # gen
    <3>1. run' = [at |-> "idle", seq |-> NoSeq, i |-> 1] /\ rgb' = rgb
      BY <1>6, <2>2 DEF Step, Ends
    <3>2. GenInv' /\ WakeInv'
      BY <2>1, <3>1 DEF GenInv, WakeInv, NoSeq
    <3>3. QED
      BY <1>0, <2>1, <3>2
  <2>3. CASE run.seq.gen = gen /\ run' = [run EXCEPT !.at = "wait", !.i = @ + 1]
    <3>1. run'.seq = run.seq /\ run'.at = "wait" /\ DOMAIN run' = {"at", "seq", "i"}
      BY <2>3 DEF WakeInv
    <3>2. GenInv' /\ WakeInv'
      BY <2>1, <2>3, <3>1 DEF GenInv, WakeInv
    <3>3. QED
      BY <1>0, <2>1, <3>2
  <2>4. QED
    BY <1>6, <2>2, <2>3 DEF Step
<1>7. QED
  BY <1>1, <1>2, <1>3, <1>4, <1>5, <1>6 DEF IoNext

\* Nothing of the other mode's happens: neither a report in IO mode ...
LEMMA StatusMode == ASSUME LedInv, StatusNext PROVE ledMode = "status"
<1> SUFFICES ASSUME ledMode # "status" PROVE FALSE
  OBVIOUS
<1>1. /\ ~netUp /\ session = "none" /\ \A t \in Callers : Todo(t) = <<>>
      /\ flash.queue = <<>> /\ flash.at = "idle" /\ ~blink.timer /\ blink.at = "idle"
  BY DEF LedInv, ModeInv
<1>2. \A t \in Callers : \A s : ~Does(t, s)
  BY <1>1 DEF Does
<1>3. \A t \in Callers : ~Flags(t) /\ ~SetLevel(t) /\ ~Refresh(t)
  BY <1>2 DEF Flags, SetLevel, Refresh
<1>4. QED
  BY <1>1, <1>3 DEF StatusNext, Report, BrokerComes, BrokerGoes, SessionDies, DoFlash, FlashTask, Blink

\* ... nor a command in status mode.
LEMMA IoMode == ASSUME LedInv, IoNext PROVE ledMode = "io"
  BY DEF LedInv, ModeInv, IoNext, Instant, QueueSeq, QueueNotify, Receive, Drain, Step, Waited, Look

LEMMA StatusKeeps == ASSUME LedInv, StatusNext PROVE LedInv'
<1>1. ledMode = "status"
  BY StatusMode
<1>2. UNCHANGED <<ledMode, ioVars>>
  BY DEF StatusNext, Report, BrokerComes, BrokerGoes, SessionDies, SetMqtt, Flags, SetLevel, Levels, Refresh,
     DoFlash, FlashTask, Blink
<1>3. DOMAIN call' = Callers
  BY DEF StatusNext, Report, Begins, BrokerComes, BrokerGoes, SessionDies, SetMqtt, Flags, SetLevel, Levels,
     Refresh, Goes, DoFlash, FlashTask, Blink, LedInv, ModeInv
<1>4. QED
  BY <1>1, <1>2, <1>3 DEF LedInv, GenInv, WakeInv, ModeInv, ioVars

LEMMA LedNextKeeps == ASSUME LedInv, [LedNext]_ledVars PROVE LedInv'
<1>1. CASE ForceSet \/ ForceRelease \/ ForceOver \/ UNCHANGED ledVars
  <2>1. UNCHANGED <<ledMode, rgb, ioVars, statusVars>>
    BY <1>1 DEF ForceSet, ForceRelease, ForceOver, ledVars
  <2>2. QED
    BY <2>1 DEF LedInv, GenInv, WakeInv, ModeInv, ioVars, statusVars, Todo
<1>2. QED
  BY <1>1, IoMode, IoKeeps, StatusKeeps DEF LedNext

LEMMA LedNewest == LedInv => InstantStays /\ WokenByNewer
  BY DEF LedInv, GenInv, WakeInv, InstantStays, WokenByNewer

-----------------------------------------------------------------------------
(* The buzzer: its queue of one holds nothing but the newest command.      *)

\* A held command is one tone.
BuzzerCommands == {[tones |-> <<f>>, hold |-> TRUE] : f \in Tones}
                  \union {[tones |-> s, hold |-> FALSE] : s \in Beeps}

BuzzerInv ==
    /\ asked \in BuzzerCommands /\ DOMAIN play = {"at", "cmd", "i"}
    /\ pending # <<>> => pending = <<asked>>
    /\ play.at \in {"idle", "play", "delay", "silence"}
    /\ play.at # "idle" => play.cmd \in BuzzerCommands /\ (pending = <<>> => play.cmd = asked)
    /\ play.at = "play" /\ play.cmd.hold => play.i = 1
    /\ play.at \in {"delay", "silence"} => ~play.cmd.hold
    /\ ToneIsNewest

LEMMA FinalTone == ASSUME NEW c \in BuzzerCommands
                   PROVE  c.hold \in BOOLEAN /\ Final(c) = IF c.hold THEN c.tones[1] ELSE Silent
<1>1. CASE \E f \in Tones : c = [tones |-> <<f>>, hold |-> TRUE]
  BY <1>1 DEF Final, Last
<1>2. CASE \E s \in Beeps : c = [tones |-> s, hold |-> FALSE]
  BY <1>2 DEF Final
<1>3. QED
  BY <1>1, <1>2 DEF BuzzerCommands

LEMMA BuzzerInitInv == BuzzerInit => BuzzerInv
<1> SUFFICES ASSUME BuzzerInit PROVE BuzzerInv
  OBVIOUS
<1>1. asked = [tones |-> <<Silent>>, hold |-> TRUE] /\ asked \in BuzzerCommands
  BY BuzzerAssumption DEF BuzzerInit, BuzzerCommands
<1>2. Final(asked) = Silent
  BY <1>1, FinalTone
<1>3. QED
  BY <1>1, <1>2 DEF BuzzerInit, BuzzerInv, AtEase, ToneIsNewest

LEMMA BuzzerNextKeeps == ASSUME BuzzerInv, [BuzzerNext]_buzzerVars PROVE BuzzerInv'
<1> USE DEF BuzzerInv
<1>1. ASSUME NEW c \in BuzzerCommands, Queue(c) PROVE BuzzerInv'
  BY <1>1 DEF Queue, ToneIsNewest
<1>2. CASE \E f \in Tones : SetTone(f)
  BY <1>1, <1>2 DEF SetTone, BuzzerCommands
<1>3. CASE \E s \in Beeps : Beep(s)
  BY <1>1, <1>3 DEF Beep, BuzzerCommands
<1>4. CASE Dequeue
  <2>1. /\ pending # <<>> /\ play' = [at |-> "play", cmd |-> asked, i |-> 1] /\ pending' = <<>>
        /\ UNCHANGED <<tone, asked>>
    BY <1>4 DEF Dequeue
  <2>2. QED
    BY <2>1 DEF ToneIsNewest
<1>5. CASE PlayTone
  <2>1. play.at = "play" /\ tone' = play.cmd.tones[play.i] /\ UNCHANGED <<pending, asked>>
    BY <1>5 DEF PlayTone
  <2>2. CASE play.cmd.hold
    <3>1. play' = AtEase /\ tone' = Final(play.cmd)
      BY <1>5, <2>1, <2>2, FinalTone DEF PlayTone
    <3>2. ToneIsNewest'
      BY <2>1, <3>1 DEF ToneIsNewest, Final
    <3>3. QED
      BY <2>1, <3>1, <3>2 DEF AtEase
  <2>3. CASE ~play.cmd.hold
    <3>1. play' = [play EXCEPT !.at = "delay", !.i = @ + 1]
      BY <1>5, <2>3 DEF PlayTone
    <3>2. QED
      BY <2>1, <2>3, <3>1 DEF ToneIsNewest
  <2>4. QED
    BY <2>2, <2>3
<1>6. CASE Delayed
  BY <1>6 DEF Delayed, ToneIsNewest
<1>7. CASE Silence
  <2>1. play.at = "silence" /\ tone' = Silent /\ play' = AtEase /\ UNCHANGED <<pending, asked>>
    BY <1>7 DEF Silence
  <2>2. ToneIsNewest'
    BY <2>1, FinalTone DEF ToneIsNewest, Final
  <2>3. QED
    BY <2>1, <2>2 DEF AtEase
<1>8. CASE UNCHANGED buzzerVars
  BY <1>8 DEF buzzerVars, ToneIsNewest
<1>9. QED
  BY <1>2, <1>3, <1>4, <1>5, <1>6, <1>7, <1>8 DEF BuzzerNext

-----------------------------------------------------------------------------
(* All of them side by side.                                               *)

LEMMA PartsStep ==
    ASSUME [Next]_vars
    PROVE  /\ [LedNext]_ledVars /\ [BuzzerNext]_buzzerVars /\ [InputsNext]_inputVars
           /\ [CanNext]_canVars /\ [GwNext]_gwVars
  BY DEF Next, vars

PartsInv == LedInv /\ BuzzerInv /\ InputsInv /\ CanInv /\ GwInv

LEMMA PartsKeep == PartsInv /\ [Next]_vars => PartsInv'
  BY PartsStep, LedNextKeeps, BuzzerNextKeeps, InputsNextKeeps, CanNextKeeps, GwNextKeeps DEF PartsInv

LEMMA PartsInit == Init => PartsInv
  BY LedInitInv, BuzzerInitInv, InputsInitInv, CanInitInv, GwInitInv DEF Init, PartsInv

\* The newest command wins on the LED and on the buzzer, whatever the sequences and
\* however the tasks take turns: no step of an older one lands on an instant colour, a
\* step that waits is woken by a newer command and by nothing else, and a tone sounds
\* on if and only if it was asked for last (s_gen, run_sequence(), buzzer_task()).
THEOREM NewestCommandWins == Spec => []NewestWins
<1>1. PartsInv => NewestWins
  BY LedNewest DEF PartsInv, NewestWins, BuzzerInv
<1>2. QED
  BY <1>1, PartsInit, PartsKeep, PTL DEF Spec

\* The parts keep to all of it side by side.
THEOREM PartsAreSafe == Spec => [](NewestWins /\ ToldTheLevel /\ FramesIntact /\ SegmentIsShared)
<1>1. PartsInv => ToldTheLevel /\ FramesIntact /\ SegmentIsShared
  BY InputsTold DEF PartsInv, CanInv, GwInv
<1>2. QED
  BY <1>1, NewestCommandWins, PartsInit, PartsKeep, PTL DEF Spec

=============================================================================
