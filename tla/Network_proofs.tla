---------------------------- MODULE Network_proofs ----------------------------
(***************************************************************************)
(* Proofs about the network's components.  The Modbus TCP server, for any  *)
(* number of connections, slots, workers and items: the typing with the    *)
(* job queue's bound, that answers come in the order of their requests,    *)
(* and that no slot is taken from the worker that has it or from a client  *)
(* that waits for an answer.  The interfaces, for any number of changes of *)
(* the links: the services are started by one task at a time, for whoever  *)
(* is inside on_network_ready() between taking the mutex and giving it     *)
(* back holds it.                                                          *)
(***************************************************************************)
EXTENDS Network, TcpServer, FiniteSetTheorems, SequenceTheorems, TLAPS

-----------------------------------------------------------------------------
(* The invariant, part by part.                                            *)

ConnRecs == [st : {"off", "open", "gone", "dropped"}, reads : BOOLEAN,
             in : Seq({"head", "local", "remote", "bad"}), mid : BOOLEAN,
             taken : Nat, answers : Seq(Request)]
SlotRecs == [state : {"free", "idle", "busy"}, c : Conns \union {NoConn},
             part : BOOLEAN, late : BOOLEAN, out : Request, stuck : BOOLEAN]
TaskRecs == [at : {"idle", "process", "release", "wake"}, slot : Nat, req : Request]

\* A taken slot has a connection of its own, and half a frame only while nothing
\* is being sent.
SlotsOk ==
    \A i \in Slots :
        /\ slot[i].state = "free" => slot[i] = FreeSlot
        /\ slot[i].state # "free" => slot[i].c \in Conns /\ conn[slot[i].c].st # "off"
        /\ slot[i].part => slot[i].state = "idle" /\ ~Sending(i)
        /\ \A j \in Slots : slot[i].c = slot[j].c /\ slot[i].c # NoConn => i = j

\* A connection that waits to be accepted waits once, and has no slot.
BacklogOk ==
    /\ \A k \in 1 .. Len(backlog) :
        /\ conn[backlog[k]].st # "off"
        /\ \A i \in Slots : slot[i].c # backlog[k]
    /\ \A k, m \in 1 .. Len(backlog) : backlog[k] = backlog[m] => k = m

FreshOk ==
    \A c \in Conns : (\A i \in Slots : slot[i].c # c) => conn[c].taken = 0 /\ conn[c].answers = <<>>

\* The last request read is the one the slot is about: answered, or one behind.
Current(i) == [c |-> slot[i].c, n |-> conn[slot[i].c].taken]
Quiet(s) == s.state = "idle" /\ s.out = Nothing
AnswersOk ==
    \A i \in Slots : slot[i].state # "free" =>
        /\ Sending(i) => slot[i].out = Current(i)
        /\ conn[slot[i].c].taken = Len(conn[slot[i].c].answers) + (IF Quiet(slot[i]) THEN 0 ELSE 1)

Owner(w, i) == task[w].at \in {"process", "release"} /\ task[w].slot = i

\* A busy slot is in the queue once and with no worker ...
JobsOk ==
    /\ \A k \in 1 .. Len(jobs) : slot[jobs[k]].state = "busy" /\ \A w \in Workers : ~Owner(w, jobs[k])
    /\ \A k, m \in 1 .. Len(jobs) : jobs[k] = jobs[m] => k = m

\* ... or with one worker, which knows the request.
TasksOk ==
    /\ \A w \in Workers : \A i \in Slots : Owner(w, i) =>
          /\ slot[i].state = "busy"
          /\ task[w].at = "process" => task[w].req = Current(i)
          /\ task[w].at = "release" => slot[i].out = Current(i)
    /\ \A w \in Workers : task[w].at \in {"process", "release"} => task[w].slot \in Slots
    /\ \A v, w \in Workers : \A i \in Slots : Owner(v, i) /\ Owner(w, i) => v = w

InOrder(r, c) == \A k \in 1 .. Len(r.answers) : r.answers[k] = [c |-> c, n |-> k]

TcpInv ==
    /\ TcpTypeOK /\ AnswersInOrder
    /\ SlotsOk /\ BacklogOk /\ FreshOk /\ AnswersOk /\ JobsOk /\ TasksOk

LEMMA TcpTypes ==
    ASSUME TcpTypeOK
    PROVE  /\ conn \in [Conns -> ConnRecs] /\ slot \in [Slots -> SlotRecs]
           /\ task \in [Workers -> TaskRecs]
           /\ \A i \in Slots : slot[i] \in SlotRecs
           /\ \A c \in Conns : conn[c] \in ConnRecs /\ c # NoConn
           /\ backlog \in Seq(Conns) /\ Len(backlog) \in Nat
           /\ \A k \in 1 .. Len(backlog) : backlog[k] \in Conns
           /\ jobs \in Seq(Slots) /\ Len(jobs) \in Nat
           /\ \A k \in 1 .. Len(jobs) : jobs[k] \in Slots
           /\ \A w \in Workers : task[w] \in TaskRecs
<1>1. conn \in [Conns -> ConnRecs] /\ slot \in [Slots -> SlotRecs] /\ task \in [Workers -> TaskRecs]
  BY DEF TcpTypeOK, ConnRecs, SlotRecs, TaskRecs
<1>2. backlog \in Seq(Conns) /\ jobs \in Seq(Slots)
  BY DEF TcpTypeOK
<1>3. \A c \in Conns : c # NoConn
  BY TcpServerAssumption DEF NoConn
<1>4. QED
  BY <1>1, <1>2, <1>3, ElementOfSeq, LenProperties

\* Nothing is lost of a sequence's distinctness by taking the first one away, or by
\* adding what is not in it.
Once(s) == \A k, m \in 1 .. Len(s) : s[k] = s[m] => k = m

LEMMA OnceTail ==
    ASSUME NEW S, NEW s \in Seq(S), s # <<>>
    PROVE  /\ Tail(s) \in Seq(S) /\ Len(Tail(s)) = Len(s) - 1 /\ Len(s) >= 1 /\ Len(s) \in Nat
           /\ \A k \in 1 .. Len(Tail(s)) : k + 1 \in 1 .. Len(s) /\ Tail(s)[k] = s[k + 1]
           /\ Head(s) = s[1] /\ 1 \in 1 .. Len(s)
           /\ Once(s) => Once(Tail(s)) /\ \A k \in 1 .. Len(Tail(s)) : Tail(s)[k] # Head(s)
<1>1. Len(s) \in Nat /\ Len(s) >= 1
  BY EmptySeq, LenProperties
<1>2. /\ Tail(s) \in Seq(S) /\ Len(Tail(s)) = Len(s) - 1 /\ Head(s) = s[1]
      /\ \A k \in 1 .. Len(Tail(s)) : Tail(s)[k] = s[k + 1]
  BY HeadTailProperties
<1>3. \A k \in 1 .. Len(Tail(s)) : k + 1 \in 1 .. Len(s) /\ k + 1 # 1
  BY <1>1, <1>2
<1>4. ASSUME Once(s), NEW k \in 1 .. Len(Tail(s)), NEW m \in 1 .. Len(Tail(s)), Tail(s)[k] = Tail(s)[m]
      PROVE  k = m
  <2>1. s[k + 1] = s[m + 1]
    BY <1>2, <1>4
  <2>2. k + 1 = m + 1
    BY <1>3, <1>4, <2>1 DEF Once
  <2>3. QED
    BY <2>2
<1>5. ASSUME Once(s), NEW k \in 1 .. Len(Tail(s)) PROVE Tail(s)[k] # Head(s)
  BY <1>1, <1>2, <1>3, <1>5 DEF Once
<1>6. QED
  BY <1>1, <1>2, <1>3, <1>4, <1>5 DEF Once

LEMMA OnceAppend ==
    ASSUME NEW S, NEW s \in Seq(S), NEW e \in S
    PROVE  /\ Append(s, e) \in Seq(S) /\ Len(Append(s, e)) = Len(s) + 1 /\ Len(s) \in Nat
           /\ \A k \in 1 .. Len(s) : Append(s, e)[k] = s[k]
           /\ Append(s, e)[Len(s) + 1] = e
           /\ \A k \in 1 .. Len(Append(s, e)) : k \in 1 .. Len(s) \/ k = Len(s) + 1
           /\ Once(s) /\ (\A k \in 1 .. Len(s) : s[k] # e) => Once(Append(s, e))
<1> DEFINE a == Append(s, e)
<1>1. Len(s) \in Nat
  BY LenProperties
<1>2. /\ a \in Seq(S) /\ Len(a) = Len(s) + 1 /\ a[Len(s) + 1] = e
      /\ \A k \in 1 .. Len(s) : a[k] = s[k]
  BY AppendProperties
<1> HIDE DEF a
<1>3. \A k \in 1 .. Len(a) : k \in 1 .. Len(s) \/ k = Len(s) + 1
  BY <1>1, <1>2
<1>4. Once(s) /\ (\A k \in 1 .. Len(s) : s[k] # e) => Once(a)
  <2> SUFFICES ASSUME Once(s), \A k \in 1 .. Len(s) : s[k] # e,
                      NEW k \in 1 .. Len(a), NEW m \in 1 .. Len(a), a[k] = a[m]
               PROVE  k = m
    BY DEF Once
  <2>1. CASE k \in 1 .. Len(s) /\ m \in 1 .. Len(s)
    BY <1>2, <2>1 DEF Once
  <2>2. CASE ~(k \in 1 .. Len(s) /\ m \in 1 .. Len(s))
    BY <1>2, <1>3, <2>2
  <2>3. QED
    BY <2>1, <2>2
<1>5. QED
  BY <1>1, <1>2, <1>3, <1>4 DEF a

-----------------------------------------------------------------------------
(* What a step may do, and that the invariant outlasts it.                 *)

TcpRest == AnswersInOrder /\ SlotsOk /\ BacklogOk /\ FreshOk /\ AnswersOk /\ JobsOk /\ TasksOk

LEMMA TcpInitInv == TcpInit => TcpInv
<1> SUFFICES ASSUME TcpInit PROVE TcpInv
  OBVIOUS
<1> USE TcpServerAssumption DEF NoConn
<1>1. Nothing \in Request /\ <<>> \in Seq(Request) /\ Len(<<>>) = 0
  BY EmptySeq DEF Nothing, Request
<1>2. NewConn \in ConnRecs
  BY <1>1 DEF NewConn, ConnRecs
<1>3. FreeSlot \in SlotRecs
  BY <1>1 DEF FreeSlot, SlotRecs
<1>4. IdleTask \in TaskRecs
  BY <1>1 DEF IdleTask, TaskRecs
<1>5. Cardinality(Workers) \in Nat
  BY FS_CardinalityType
<1>6. conn \in [Conns -> ConnRecs] /\ slot \in [Slots -> SlotRecs] /\ task \in [Workers -> TaskRecs]
  BY <1>2, <1>3, <1>4 DEF TcpInit
<1>7. TcpTypeOK
  <2>1. /\ backlog \in Seq(Conns) /\ jobs \in Seq(Slots) /\ Len(jobs) <= Cardinality(Workers)
        /\ used \in 0 .. MaxItems /\ wake \in BOOLEAN
    <3>1. <<>> \in Seq(Conns) /\ <<>> \in Seq(Slots)
      BY EmptySeq
    <3>2. Len(jobs) = 0 /\ used = 0 /\ wake = FALSE
      BY <1>1 DEF TcpInit
    <3>3. 0 <= Cardinality(Workers) /\ 0 \in 0 .. MaxItems
      BY <1>5
    <3>4. QED
      BY <3>1, <3>2, <3>3 DEF TcpInit
  <2>2. poll \in [at : {"select", "accept", "work"}, rd : SUBSET Slots,
                  wr : SUBSET Slots, partial : BOOLEAN, stale : BOOLEAN]
    BY DEF TcpInit
  <2>3. QED
    BY <1>5, <1>6, <2>1, <2>2 DEF TcpTypeOK, ConnRecs, SlotRecs, TaskRecs
<1>8. SlotsOk
  BY DEF TcpInit, SlotsOk, FreeSlot
<1>9. FreshOk /\ AnswersInOrder
  BY <1>1 DEF TcpInit, FreshOk, AnswersInOrder, NewConn
<1>10. AnswersOk
  BY DEF TcpInit, AnswersOk, FreeSlot
<1>11. BacklogOk /\ JobsOk
  BY EmptySeq DEF TcpInit, BacklogOk, JobsOk
<1>12. TasksOk
  BY DEF TcpInit, TasksOk, Owner, IdleTask
<1>13. QED
  BY <1>7, <1>8, <1>9, <1>10, <1>11, <1>12 DEF TcpInv

Typed == conn \in [Conns -> ConnRecs] /\ slot \in [Slots -> SlotRecs]

\* A step that is about one slot leaves the others and their connections alone.
Touches(i) ==
    /\ \A j \in Slots : j # i => slot'[j] = slot[j]
    /\ \A d \in Conns : d # slot[i].c => conn'[d] = conn[d]

\* Nothing but what a client may do to its connection.
LEMMA ClientsMove ==
    ASSUME TcpInv, UNCHANGED <<slot, jobs, task>>, BacklogOk' \/ UNCHANGED backlog,
           \A c \in Conns : /\ conn'[c].taken = conn[c].taken /\ conn'[c].answers = conn[c].answers
                            /\ conn[c].st # "off" => conn'[c].st # "off"
    PROVE  TcpRest'
<1> USE TcpTypes DEF TcpInv
<1>1. AnswersInOrder' /\ FreshOk'
  BY DEF AnswersInOrder, FreshOk
<1>2. SlotsOk'
  BY DEF SlotsOk, Sending
<1>3. BacklogOk'
  BY DEF BacklogOk
<1>4. \A i \in Slots : slot[i].state # "free" => slot[i].c \in Conns
  BY DEF SlotsOk
<1>5. AnswersOk'
  BY <1>4 DEF AnswersOk, Sending, Current, Quiet
<1>6. JobsOk'
  BY DEF JobsOk, Owner
<1>7. TasksOk'
  <2>1. \A w \in Workers : \A i \in Slots : Owner(w, i) => slot[i].c \in Conns
    BY <1>4 DEF TasksOk
  <2>2. \A w \in Workers : \A i \in Slots : Owner(w, i)' <=> Owner(w, i)
    BY DEF Owner
  <2>3. \A w \in Workers : \A i \in Slots : Owner(w, i) => Current(i)' = Current(i)
    BY <2>1 DEF Current
  <2>4. slot' = slot /\ task' = task
    OBVIOUS
  <2>5. QED
    BY <2>2, <2>3, <2>4 DEF TasksOk
<1>8. QED
  BY <1>1, <1>2, <1>3, <1>5, <1>6, <1>7 DEF TcpRest

\* close_slot() for idle slots.
LEMMA SlotsClose ==
    ASSUME TcpInv, NEW S \in SUBSET Slots, \A i \in S : slot[i].state = "idle",
           conn' = ClosedConns(S), slot' = ClosedSlots(S), UNCHANGED <<backlog, jobs, task>>
    PROVE  TcpRest' /\ Typed'
<1> USE TcpTypes DEF TcpInv
<1> DEFINE Hit(c) == \E i \in S : slot[i].c = c
<1>1. \A c \in Conns : conn'[c] = IF Hit(c) THEN Over(c) ELSE conn[c]
  BY DEF ClosedConns
<1>2. \A i \in Slots : slot'[i] = IF i \in S THEN FreeSlot ELSE slot[i]
  BY DEF ClosedSlots
<1>3. \A c : Over(c).taken = 0 /\ Over(c).answers = <<>> /\ Over(c).st # "off"
  BY DEF Over, NewConn
<1>4. FreeSlot.state = "free" /\ FreeSlot.c = NoConn /\ ~FreeSlot.part
  BY DEF FreeSlot
\* The others keep their slots, and their connections.
<1>5. \A i \in Slots \ S : slot'[i] = slot[i] /\ (slot[i].state # "free" => slot[i].c \in Conns /\ conn'[slot[i].c] = conn[slot[i].c])
  BY <1>1, <1>2 DEF SlotsOk
<1>6. AnswersInOrder'
  <2>1. Len(<<>>) = 0
    BY EmptySeq
  <2>2. \A c \in Conns : conn'[c].answers = <<>> \/ conn'[c] = conn[c]
    BY <1>1, <1>3
  <2>3. ASSUME NEW c \in Conns, NEW k \in 1 .. Len(conn'[c].answers)
        PROVE  conn'[c].answers[k] = [c |-> c, n |-> k]
    BY <2>1, <2>2, <2>3 DEF AnswersInOrder
  <2>4. QED
    BY <2>3 DEF AnswersInOrder
<1>7. SlotsOk'
  <2>1. ASSUME NEW i \in Slots PROVE
          /\ slot'[i].state = "free" => slot'[i] = FreeSlot
          /\ slot'[i].state # "free" => slot'[i].c \in Conns /\ conn'[slot'[i].c].st # "off"
          /\ slot'[i].part => slot'[i].state = "idle" /\ slot'[i].out = Nothing
    BY <1>2, <1>4, <1>5 DEF SlotsOk, Sending
  <2>2. \A i, j \in Slots : slot'[i].c = slot'[j].c /\ slot'[i].c # NoConn => i = j
    BY <1>2, <1>4 DEF SlotsOk
  <2>3. QED
    BY <2>1, <2>2 DEF SlotsOk, Sending
<1>8. BacklogOk'
  BY <1>1, <1>2, <1>4 DEF BacklogOk
<1>9. FreshOk'
  BY <1>1, <1>2, <1>3 DEF FreshOk
<1>10. AnswersOk'
  <2>1. ASSUME NEW i \in Slots, slot'[i].state # "free" PROVE
          /\ slot'[i].out # Nothing => slot'[i].out = [c |-> slot'[i].c, n |-> conn'[slot'[i].c].taken]
          /\ conn'[slot'[i].c].taken = Len(conn'[slot'[i].c].answers) + (IF Quiet(slot'[i]) THEN 0 ELSE 1)
    <3>1. i \in Slots \ S /\ slot'[i] = slot[i] /\ slot[i].state # "free" /\ conn'[slot[i].c] = conn[slot[i].c]
      BY <1>2, <1>4, <1>5, <2>1
    <3>2. QED
      BY <3>1 DEF AnswersOk, Sending, Current
  <2>2. QED
    BY <2>1 DEF AnswersOk, Sending, Current, Quiet
<1>11. JobsOk'
  BY <1>5 DEF JobsOk, Owner
<1>12. TasksOk'
  <2>1. \A w \in Workers : \A i \in Slots : Owner(w, i)' <=> Owner(w, i)
    BY DEF Owner
  <2>2. \A w \in Workers : \A i \in Slots : Owner(w, i) => i \in Slots \ S /\ slot[i].state # "free"
    BY DEF TasksOk
  <2>3. QED
    BY <1>5, <2>1, <2>2 DEF TasksOk, Current
<1>13. Typed'
  <2>1. Nothing \in Request /\ <<>> \in Seq(Request) /\ <<>> \in Seq({"head", "local", "remote", "bad"})
    BY EmptySeq DEF Nothing, Request, NoConn
  <2>2. FreeSlot \in SlotRecs /\ \A c : Over(c) \in ConnRecs
    BY <2>1 DEF FreeSlot, SlotRecs, Over, NewConn, ConnRecs
  <2>3. QED
    BY <2>2 DEF Typed, ClosedConns, ClosedSlots
<1>14. QED
  BY <1>6, <1>7, <1>8, <1>9, <1>10, <1>11, <1>12, <1>13 DEF TcpRest

\* The poller at one idle slot: it takes a request, answers one, or keeps what has
\* come of the next.
LEMMA PollerMoves ==
    ASSUME TcpInv, NEW i \in Slots, slot[i].state = "idle", UNCHANGED <<backlog, task>>,
           NEW s \in SlotRecs, NEW r \in ConnRecs,
           slot' = [slot EXCEPT ![i] = s], conn' = [conn EXCEPT ![slot[i].c] = r],
           s.c = slot[i].c, s.state \in {"idle", "busy"}, r.st # "off",
           s.part => Quiet(s),
           s.out # Nothing => s.out = [c |-> s.c, n |-> r.taken],
           r.taken = Len(r.answers) + (IF Quiet(s) THEN 0 ELSE 1),
           InOrder(r, s.c),
           jobs' = IF s.state = "busy" THEN Append(jobs, i) ELSE jobs
    PROVE  TcpRest' /\ Typed' /\ Touches(i)
<1> USE TcpTypes DEF TcpInv
<1> DEFINE c == slot[i].c
<1>1. c \in Conns /\ conn' = [conn EXCEPT ![c] = r] /\ c # NoConn
  BY DEF SlotsOk
<1>2. slot'[i] = s /\ conn'[c] = r
  BY <1>1
<1>3. \A j \in Slots \ {i} : /\ slot'[j] = slot[j] /\ slot[j].c # c
                             /\ slot[j].state # "free" => slot[j].c \in Conns /\ conn'[slot[j].c] = conn[slot[j].c]
  BY <1>1 DEF SlotsOk
<1>4. \A d \in Conns \ {c} : conn'[d] = conn[d]
  BY <1>1
<1> HIDE DEF c
<1>5. \A j \in Slots : slot'[j].c = slot[j].c
  BY <1>2, <1>3
<1>6. AnswersInOrder'
  <2>1. ASSUME NEW d \in Conns, NEW k \in 1 .. Len(conn'[d].answers)
        PROVE  conn'[d].answers[k] = [c |-> d, n |-> k]
    BY <1>1, <1>2, <1>4, <2>1 DEF AnswersInOrder, InOrder, c
  <2>2. QED
    BY <2>1 DEF AnswersInOrder
<1>7. SlotsOk'
  <2>1. ASSUME NEW j \in Slots PROVE
          /\ slot'[j].state = "free" => slot'[j] = FreeSlot
          /\ slot'[j].state # "free" => slot'[j].c \in Conns /\ conn'[slot'[j].c].st # "off"
          /\ slot'[j].part => slot'[j].state = "idle" /\ slot'[j].out = Nothing
    BY <1>1, <1>2, <1>3 DEF SlotsOk, Sending, Quiet, c
  <2>2. \A j, k \in Slots : slot'[j].c = slot'[k].c /\ slot'[j].c # NoConn => j = k
    BY <1>5 DEF SlotsOk
  <2>3. QED
    BY <2>1, <2>2 DEF SlotsOk, Sending
<1>8. BacklogOk'
  BY <1>1, <1>4, <1>5 DEF BacklogOk, c
<1>9. FreshOk'
  BY <1>1, <1>4, <1>5 DEF FreshOk, c
<1>10. AnswersOk'
  <2>1. ASSUME NEW j \in Slots, slot'[j].state # "free" PROVE
          /\ slot'[j].out # Nothing => slot'[j].out = [c |-> slot'[j].c, n |-> conn'[slot'[j].c].taken]
          /\ conn'[slot'[j].c].taken = Len(conn'[slot'[j].c].answers) + (IF Quiet(slot'[j]) THEN 0 ELSE 1)
    <3>1. CASE j = i
      BY <1>2, <3>1 DEF c
    <3>2. CASE j # i
      BY <1>3, <2>1, <3>2 DEF AnswersOk, Sending, Current
    <3>3. QED
      BY <3>1, <3>2
  <2>2. QED
    BY <2>1 DEF AnswersOk, Sending, Current, Quiet
<1>11. \A w \in Workers : \A j \in Slots : Owner(w, j)' <=> Owner(w, j)
  BY DEF Owner
<1>12. \A w \in Workers : ~Owner(w, i)
  BY DEF TasksOk
<1>13. JobsOk'
  <2>1. \A k \in 1 .. Len(jobs) : jobs[k] \in Slots \ {i}
    BY DEF JobsOk
  <2>2. CASE s.state = "idle"
    BY <1>3, <2>1, <2>2 DEF JobsOk, Owner
  <2>3. CASE s.state = "busy"
    <3>1. jobs' = Append(jobs, i)
      BY <2>3
    <3>2. /\ \A k \in 1 .. Len(jobs') : (k \in 1 .. Len(jobs) /\ jobs'[k] = jobs[k]) \/ jobs'[k] = i
          /\ Once(jobs')
      BY <2>1, <3>1, OnceAppend DEF JobsOk, Once
    <3>3. ASSUME NEW k \in 1 .. Len(jobs')
          PROVE  slot'[jobs'[k]].state = "busy" /\ \A w \in Workers : ~Owner(w, jobs[k])'
      <4>1. CASE jobs'[k] = i
        BY <1>2, <1>12, <2>3, <4>1 DEF Owner
      <4>2. CASE k \in 1 .. Len(jobs) /\ jobs'[k] = jobs[k]
        BY <1>3, <2>1, <4>2 DEF JobsOk, Owner
      <4>3. QED
        BY <3>2, <4>1, <4>2
    <3>4. QED
      BY <3>2, <3>3 DEF JobsOk, Once
  <2>4. QED
    BY <2>2, <2>3
<1>14. TasksOk'
  <2>1. \A w \in Workers : \A j \in Slots : Owner(w, j) => j \in Slots \ {i} /\ slot[j].state # "free"
    BY <1>12 DEF TasksOk
  <2>2. QED
    BY <1>3, <1>11, <2>1 DEF TasksOk, Current
<1>15. Typed' /\ Touches(i)
  BY <1>1, <1>3, <1>4 DEF Typed, Touches, c
<1>16. QED
  BY <1>6, <1>7, <1>8, <1>9, <1>10, <1>13, <1>14, <1>15 DEF TcpRest

\* A worker: it takes a job, arms the answer, gives the slot back.
LEMMA WorkerMoves ==
    ASSUME TcpInv, NEW w \in Workers, Worker(w)
    PROVE  TcpRest'
<1> USE TcpTypes DEF TcpInv
<1>1. CASE TakeJob(w)
  <2> DEFINE i == Head(jobs)
  <2>1. /\ task[w].at = "idle" /\ jobs # <<>> /\ jobs' = Tail(jobs)
        /\ task' = [task EXCEPT ![w] = [at |-> "process", slot |-> i, req |-> Current(i)]]
        /\ UNCHANGED <<conn, backlog, slot>>
    BY <1>1 DEF TakeJob, Current
  <2>2. /\ 1 \in 1 .. Len(jobs) /\ i = jobs[1] /\ Len(jobs') \in Nat
        /\ \A k \in 1 .. Len(jobs') : k + 1 \in 1 .. Len(jobs) /\ jobs'[k] = jobs[k + 1] /\ jobs'[k] # i
        /\ Once(jobs')
    BY <2>1, OnceTail, LenProperties DEF JobsOk, Once
  <2>3. i \in Slots /\ slot[i].state = "busy" /\ \A v \in Workers : ~Owner(v, i)
    BY <2>2 DEF JobsOk
  <2> HIDE DEF i
  <2>4. task'[w] = [at |-> "process", slot |-> i, req |-> Current(i)] /\ \A v \in Workers \ {w} : task'[v] = task[v]
    BY <2>1
  <2>5. AnswersInOrder' /\ FreshOk' /\ SlotsOk' /\ BacklogOk' /\ AnswersOk'
    BY <2>1 DEF AnswersInOrder, FreshOk, SlotsOk, BacklogOk, AnswersOk, Sending, Current
  <2>6. JobsOk'
    <3>1. \A k \in 1 .. Len(jobs') : slot[jobs'[k]].state = "busy" /\ \A v \in Workers : ~Owner(v, jobs'[k])
      BY <2>2 DEF JobsOk
    <3>2. ASSUME NEW k \in 1 .. Len(jobs'), NEW v \in Workers, task'[v].at \in {"process", "release"}
          PROVE  task'[v].slot # jobs'[k]
      <4>1. CASE v = w
        BY <2>2, <2>4, <4>1
      <4>2. CASE v # w
        BY <2>4, <3>1, <3>2, <4>2 DEF Owner
      <4>3. QED
        BY <4>1, <4>2
    <3>3. slot' = slot
      BY <2>1
    <3>4. \A k \in 1 .. Len(jobs') : slot'[jobs'[k]].state = "busy" /\ \A v \in Workers : ~Owner(v, jobs[k])'
      BY <3>1, <3>2, <3>3 DEF Owner
    <3>5. \A k, m \in 1 .. Len(jobs') : jobs'[k] = jobs'[m] => k = m
      BY <2>2 DEF Once
    <3>6. QED
      BY <3>4, <3>5 DEF JobsOk
  <2>7. TasksOk'
    <3>1. ASSUME NEW v \in Workers, task'[v].at \in {"process", "release"}, NEW j \in Slots, task'[v].slot = j
          PROVE  /\ slot[j].state = "busy"
                 /\ task'[v].at = "process" => task'[v].req = Current(j)
                 /\ task'[v].at = "release" => slot[j].out = Current(j)
                 /\ v # w => Owner(v, j) /\ j # i
      BY <2>3, <2>4, <3>1 DEF TasksOk, Owner
    <3>2. \A v \in Workers : task'[v].at \in {"process", "release"} => task'[v].slot \in Slots
      BY <2>3, <2>4 DEF TasksOk
    <3>3. ASSUME NEW u \in Workers, NEW v \in Workers, NEW j \in Slots, Owner(u, j)', Owner(v, j)'
          PROVE  u = v
      BY <2>4, <3>1, <3>3 DEF TasksOk, Owner
    <3>4. QED
      BY <2>1, <3>1, <3>2, <3>3 DEF TasksOk, Owner, Current
  <2>8. QED
    BY <2>5, <2>6, <2>7 DEF TcpRest
\* The slot it has is nobody else's, and its own request is the last one read.
<1>2. ASSUME NEW s, NEW to \in {"release", "wake"}, task[w].at \in {"process", "release"},
             slot' = [slot EXCEPT ![task[w].slot] = s], task' = [task EXCEPT ![w].at = to],
             UNCHANGED <<conn, backlog, jobs>>,
             s.c = slot[task[w].slot].c, s.part = slot[task[w].slot].part, s.out = Current(task[w].slot),
             IF to = "release" THEN s.state = "busy" ELSE s.state = "idle"
      PROVE  TcpRest'
  <2> DEFINE i == task[w].slot
  <2>1. i \in Slots /\ Owner(w, i) /\ slot[i].state = "busy" /\ ~slot[i].part
    BY <1>2 DEF TasksOk, SlotsOk, Owner
  <2>2. slot'[i] = s /\ \A j \in Slots \ {i} : slot'[j] = slot[j]
    BY <1>2, <2>1
  <2>3. task'[w].at = to /\ task'[w].slot = i /\ \A v \in Workers \ {w} : task'[v] = task[v] /\ (Owner(v, i) => FALSE)
    <3>1. task'[w].at = to /\ task'[w].slot = i /\ \A v \in Workers \ {w} : task'[v] = task[v]
      BY <1>2 DEF TaskRecs
    <3>2. QED
      BY <2>1, <3>1 DEF TasksOk
  <2>4. slot[i].c \in Conns /\ s.c \in Conns /\ s.out = [c |-> s.c, n |-> conn[s.c].taken] /\ s.out # Nothing
    <3>1. slot[i].c \in Conns /\ slot[i].c # NoConn
      BY <2>1 DEF SlotsOk
    <3>2. QED
      BY <1>2, <3>1 DEF Current, Nothing
  <2>5. /\ s.c = slot[i].c /\ ~s.part /\ s.state \in {"busy", "idle"} /\ (s.state = "busy" <=> to = "release")
        /\ conn' = conn /\ backlog' = backlog /\ jobs' = jobs
    BY <1>2, <2>1
  <2> HIDE DEF i
  <2>6. AnswersInOrder' /\ FreshOk' /\ BacklogOk'
    <3>1. \A j \in Slots : slot'[j].c = slot[j].c
      BY <2>2, <2>5
    <3>2. AnswersInOrder'
      BY <2>5 DEF AnswersInOrder
    <3>3. FreshOk'
      BY <2>5, <3>1 DEF FreshOk
    <3>4. BacklogOk'
      BY <2>5, <3>1 DEF BacklogOk
    <3>5. QED
      BY <3>2, <3>3, <3>4
  <2>7. SlotsOk'
    <3>1. ASSUME NEW j \in Slots PROVE
          /\ slot'[j].state = "free" => slot'[j] = FreeSlot
          /\ slot'[j].state # "free" => slot'[j].c \in Conns /\ conn[slot'[j].c].st # "off"
          /\ slot'[j].part => slot'[j].state = "idle" /\ slot'[j].out = Nothing
      BY <2>1, <2>2, <2>5 DEF SlotsOk, Sending
    <3>2. \A j, k \in Slots : slot'[j].c = slot'[k].c /\ slot'[j].c # NoConn => j = k
      BY <2>2, <2>5 DEF SlotsOk
    <3>3. QED
      BY <2>5, <3>1, <3>2 DEF SlotsOk, Sending
  <2>8. AnswersOk'
    <3>1. conn[s.c].taken = Len(conn[s.c].answers) + 1
      <4>1. slot[i].state # "free" /\ ~Quiet(slot[i])
        BY <2>1 DEF Quiet
      <4>2. conn[slot[i].c].taken = Len(conn[slot[i].c].answers) + (IF Quiet(slot[i]) THEN 0 ELSE 1)
        BY <2>1, <4>1 DEF AnswersOk
      <4>3. QED
        BY <2>5, <4>1, <4>2
    <3>2. ASSUME NEW j \in Slots, slot'[j].state # "free" PROVE
          /\ slot'[j].out # Nothing => slot'[j].out = [c |-> slot'[j].c, n |-> conn[slot'[j].c].taken]
          /\ conn[slot'[j].c].taken = Len(conn[slot'[j].c].answers) + (IF Quiet(slot'[j]) THEN 0 ELSE 1)
      <4>1. CASE j = i
        BY <2>2, <2>4, <3>1, <4>1 DEF Quiet
      <4>2. CASE j # i
        BY <2>2, <3>2, <4>2 DEF AnswersOk, Sending, Current
      <4>3. QED
        BY <4>1, <4>2
    <3>3. QED
      BY <2>5, <3>2 DEF AnswersOk, Sending, Current
  <2>9. JobsOk'
    <3>1. \A k \in 1 .. Len(jobs) : jobs[k] # i
      BY <2>1 DEF JobsOk
    <3>2. \A v \in Workers : \A k \in 1 .. Len(jobs) : ~Owner(v, jobs[k])'
      BY <2>1, <2>3, <2>5, <3>1 DEF JobsOk, Owner
    <3>3. \A k \in 1 .. Len(jobs) : slot'[jobs[k]].state = "busy"
      BY <2>2, <3>1 DEF JobsOk
    <3>4. QED
      BY <2>5, <3>2, <3>3 DEF JobsOk, Owner
  <2>10. TasksOk'
    <3>1. ASSUME NEW v \in Workers, NEW j \in Slots, Owner(v, j)' PROVE Owner(v, j) /\ (v # w => j # i) /\ (v = w => j = i /\ to = "release")
      BY <2>1, <2>3, <3>1, <1>2 DEF Owner
    <3>2. ASSUME NEW v \in Workers, NEW j \in Slots, Owner(v, j)' PROVE
          /\ slot'[j].state = "busy"
          /\ task'[v].at = "process" => task'[v].req = [c |-> slot'[j].c, n |-> conn[slot'[j].c].taken]
          /\ task'[v].at = "release" => slot'[j].out = [c |-> slot'[j].c, n |-> conn[slot'[j].c].taken]
      <4>1. CASE v = w
        BY <2>2, <2>3, <2>4, <2>5, <3>1, <3>2, <4>1
      <4>2. CASE v # w
        BY <2>2, <2>3, <3>1, <3>2, <4>2 DEF TasksOk, Current
      <4>3. QED
        BY <4>1, <4>2
    <3>3. \A v \in Workers : task'[v].at \in {"process", "release"} => task'[v].slot \in Slots
      BY <2>1, <2>3 DEF TasksOk
    <3>4. \A u, v \in Workers : \A j \in Slots : Owner(u, j)' /\ Owner(v, j)' => u = v
      BY <3>1 DEF TasksOk
    <3>5. QED
      BY <2>5, <3>2, <3>3, <3>4 DEF TasksOk, Current
  <2>11. QED
    BY <2>6, <2>7, <2>8, <2>9, <2>10 DEF TcpRest
<1>3. CASE Arm(w)
  <2> DEFINE i == task[w].slot
             s == Armed(slot[i], task[w].req)
  <2>1. i \in Slots /\ slot[i].state = "busy" /\ task[w].req = Current(i)
    BY <1>3 DEF Arm, TasksOk, Owner
  <2>2. s.c = slot[i].c /\ s.part = slot[i].part /\ s.out = Current(i) /\ s.state = "busy"
    BY <2>1 DEF Armed, SlotRecs
  <2>3. slot' = [slot EXCEPT ![i] = s] /\ task[w].at = "process" /\ UNCHANGED <<conn, backlog, jobs>>
        /\ task' = [task EXCEPT ![w].at = "release"]
    BY <1>3 DEF Arm
  <2> HIDE DEF s
  <2>4. QED
    BY <1>2, <2>2, <2>3
<1>4. CASE Release(w)
  <2> DEFINE i == task[w].slot
             s == [slot[i] EXCEPT !.state = "idle"]
  <2>1. i \in Slots /\ slot[i].out = Current(i)
    BY <1>4 DEF Release, TasksOk, Owner
  <2>2. s.c = slot[i].c /\ s.part = slot[i].part /\ s.out = Current(i) /\ s.state = "idle"
    BY <2>1 DEF SlotRecs
  <2>3. slot' = [slot EXCEPT ![i] = s] /\ task[w].at = "release" /\ UNCHANGED <<conn, backlog, jobs>>
        /\ task' = [task EXCEPT ![w].at = "wake"]
    BY <1>4 DEF Release
  <2> HIDE DEF s
  <2>4. QED
    BY <1>2, <2>2, <2>3
<1>5. CASE Wake(w)
  <2>1. /\ UNCHANGED <<conn, backlog, slot, jobs>> /\ task[w].at = "wake"
        /\ task' = [task EXCEPT ![w] = IdleTask]
    BY <1>5 DEF Wake
  <2>2. \A v \in Workers : \A i \in Slots : Owner(v, i)' <=> Owner(v, i)
    BY <2>1 DEF Owner, IdleTask
  <2>3. AnswersInOrder' /\ FreshOk' /\ SlotsOk' /\ BacklogOk' /\ AnswersOk'
    BY <2>1 DEF AnswersInOrder, FreshOk, SlotsOk, BacklogOk, AnswersOk, Sending, Current
  <2>4. JobsOk'
    BY <2>1, <2>2 DEF JobsOk
  <2>5. TasksOk'
    <3>1. \A v \in Workers : task'[v] = task[v] \/ task'[v].at = "idle"
      BY <2>1 DEF IdleTask
    <3>2. QED
      BY <2>1, <2>2, <3>1 DEF TasksOk, Current, Owner
  <2>6. QED
    BY <2>3, <2>4, <2>5 DEF TcpRest
<1>6. QED
  BY <1>1, <1>3, <1>4, <1>5 DEF Worker

\* An answer goes out, or stays, or its connection is over.
LEMMA FlushedMoves ==
    ASSUME TcpInv, NEW i \in Slots, slot[i].state = "idle", UNCHANGED <<backlog, jobs, task>>,
           NEW s \in SlotRecs, NEW r \in ConnRecs, NEW cs,
           cs = [conn EXCEPT ![slot[i].c] = r], Flushed(i, s, cs),
           s.c = slot[i].c, s.state = "idle", ~s.part, r.st # "off",
           s.out = [c |-> s.c, n |-> r.taken], r.taken = Len(r.answers) + 1, InOrder(r, s.c)
    PROVE  TcpRest' /\ Typed' /\ Touches(i)
<1> USE TcpTypes DEF TcpInv
<1>1. s.c \in Conns /\ cs[s.c] = r /\ s.out # Nothing
  BY DEF SlotsOk, Nothing
<1>2. CASE slot' = ClosedSlots({i}) /\ conn' = ClosedConns({i})
  <2>1. {i} \in SUBSET Slots /\ (\A j \in {i} : slot[j].state = "idle") /\ UNCHANGED <<backlog, jobs, task>>
    OBVIOUS
  <2>2. TcpRest' /\ Typed'
    BY <1>2, <2>1, SlotsClose
  <2>3. Touches(i)
    BY <1>2 DEF Touches, ClosedSlots, ClosedConns
  <2>4. QED
    BY <2>2, <2>3
<1>3. CASE /\ slot' = [slot EXCEPT ![i] = [s EXCEPT !.out = Nothing, !.stuck = FALSE]]
           /\ conn' = [cs EXCEPT ![s.c].answers = Append(@, s.out)]
  <2> DEFINE a  == Append(r.answers, s.out)
             rr == [r EXCEPT !.answers = a]
             ss == [s EXCEPT !.out = Nothing, !.stuck = FALSE]
  <2>1. r.answers \in Seq(Request) /\ s.out \in Request /\ Nothing \in Request
    BY DEF ConnRecs, SlotRecs, Nothing, Request
  <2>2. /\ a \in Seq(Request) /\ Len(a) = Len(r.answers) + 1 /\ Len(r.answers) \in Nat
        /\ \A k \in 1 .. Len(r.answers) : a[k] = r.answers[k]
        /\ a[Len(r.answers) + 1] = s.out
        /\ \A k \in 1 .. Len(a) : k \in 1 .. Len(r.answers) \/ k = Len(r.answers) + 1
    BY <2>1, OnceAppend
  <2> HIDE DEF a
  <2>3. /\ rr \in ConnRecs /\ rr.answers = a /\ rr.taken = r.taken /\ rr.st = r.st
        /\ ss \in SlotRecs /\ ss.c = s.c /\ ss.state = "idle" /\ ~ss.part /\ ss.out = Nothing
    BY <2>1, <2>2 DEF ConnRecs, SlotRecs
  <2>4. slot' = [slot EXCEPT ![i] = ss] /\ conn' = [conn EXCEPT ![slot[i].c] = rr]
    BY <1>1, <1>3 DEF a
  <2> HIDE DEF rr, ss
  <2>5. InOrder(rr, ss.c)
    BY <2>2, <2>3 DEF InOrder
  <2>6. rr.taken = Len(rr.answers) + (IF Quiet(ss) THEN 0 ELSE 1)
    BY <2>2, <2>3 DEF Quiet
  <2>7. jobs' = IF ss.state = "busy" THEN Append(jobs, i) ELSE jobs
    BY <2>3
  <2>8. QED
    BY <2>3, <2>4, <2>5, <2>6, <2>7, PollerMoves
<1>4. CASE slot' = [slot EXCEPT ![i] = s] /\ conn' = cs
  <2>1. ~Quiet(s) /\ jobs' = (IF s.state = "busy" THEN Append(jobs, i) ELSE jobs)
    BY <1>1 DEF Quiet
  <2>2. r.taken = Len(r.answers) + (IF Quiet(s) THEN 0 ELSE 1)
    BY <2>1
  <2>3. QED
    BY <1>4, <2>1, <2>2, PollerMoves
<1>5. QED
  BY <1>2, <1>3, <1>4 DEF Flushed

LEMMA TakesOne ==
    ASSUME NEW r \in ConnRecs, NEW rest \in Seq({"head", "local", "remote", "bad"})
    PROVE  LET t == [r EXCEPT !.in = rest, !.taken = @ + 1]
           IN  t \in ConnRecs /\ t.st = r.st /\ t.answers = r.answers /\ t.taken = r.taken + 1
<1>1. r.taken + 1 \in Nat
  BY DEF ConnRecs
<1>2. QED
  BY <1>1 DEF ConnRecs

\* The poller reads from a connection with nothing going out.
LEMMA PumpedMoves ==
    ASSUME TcpInv, NEW i \in Slots, slot[i].state = "idle", ~Sending(i), UNCHANGED <<backlog, task>>,
           Pumped(i)
    PROVE  /\ TcpRest' /\ Typed' /\ Touches(i)
           /\ jobs' = jobs \/ (jobs' = Append(jobs, i) /\ ~QueueFull)
<1> USE TcpTypes DEF TcpInv
<1> DEFINE c      == slot[i].c
           begins == conn[c].in # <<>> /\ Head(conn[c].in) = "head"
           left   == IF begins THEN Tail(conn[c].in) ELSE conn[c].in
           closes == \/ slot[i].part /\ slot[i].late
                     \/ left = <<>> /\ conn[c].st = "gone"
                     \/ left # <<>> /\ Head(left) = "bad"
           Item   == {"head", "local", "remote", "bad"}
<1>1. c \in Conns /\ conn[c].st # "off" /\ conn[c] \in ConnRecs /\ slot[i] \in SlotRecs
  BY DEF SlotsOk
<1>2. slot[i].out = Nothing /\ conn[c].taken = Len(conn[c].answers) /\ InOrder(conn[c], c)
  <2>1. slot[i].out = Nothing /\ Quiet(slot[i])
    BY DEF Sending, Quiet
  <2>2. conn[c].taken = Len(conn[c].answers) + 0 /\ Len(conn[c].answers) \in Nat
    BY <1>1, <2>1, LenProperties DEF AnswersOk, ConnRecs
  <2>3. InOrder(conn[c], c)
    BY <1>1 DEF InOrder, AnswersInOrder
  <2>4. QED
    BY <2>1, <2>2, <2>3
<1>3. left \in Seq(Item)
  <2>1. conn[c].in \in Seq(Item)
    BY <1>1 DEF ConnRecs
  <2>2. QED
    BY <2>1, HeadTailProperties
<1>4. CASE closes
  <2>1. slot' = ClosedSlots({i}) /\ conn' = ClosedConns({i}) /\ jobs' = jobs
    BY <1>4 DEF Pumped
  <2>2. {i} \in SUBSET Slots /\ (\A j \in {i} : slot[j].state = "idle") /\ UNCHANGED <<backlog, jobs, task>>
    BY <2>1
  <2>3. TcpRest' /\ Typed'
    BY <2>1, <2>2, SlotsClose
  <2>4. Touches(i)
    BY <2>1 DEF Touches, ClosedSlots, ClosedConns
  <2>5. QED
    BY <2>1, <2>3, <2>4
<1>5. CASE ~closes /\ left # <<>>
  <2> DEFINE rest == Tail(left)
             r   == [conn[c] EXCEPT !.in = rest, !.taken = @ + 1]
             cs  == [conn EXCEPT ![c].in = rest, ![c].taken = @ + 1]
             s   == [slot[i] EXCEPT !.part = FALSE, !.late = FALSE]
             req == [c |-> c, n |-> cs[c].taken]
             b   == [s EXCEPT !.state = "busy"]
             o   == Armed(s, req)
  <2>1. rest \in Seq(Item)
    BY <1>3, <1>5, HeadTailProperties
  <2> HIDE DEF rest
  <2>2. /\ r \in ConnRecs /\ r.st = conn[c].st /\ r.answers = conn[c].answers
        /\ r.taken = Len(r.answers) + 1 /\ InOrder(r, c)
    <3>1. r \in ConnRecs /\ r.st = conn[c].st /\ r.answers = conn[c].answers /\ r.taken = conn[c].taken + 1
      BY <1>1, <2>1, TakesOne
    <3>2. QED
      BY <1>2, <3>1 DEF InOrder
  <2>3. cs = [conn EXCEPT ![c] = r] /\ cs[c].taken = r.taken
    BY <1>1 DEF ConnRecs
  <2>4. req \in Request /\ req = [c |-> c, n |-> r.taken]
    BY <1>1, <2>2, <2>3 DEF Request, ConnRecs
  <2>5. /\ b \in SlotRecs /\ b.c = c /\ b.state = "busy" /\ ~b.part /\ b.out = Nothing
        /\ o \in SlotRecs /\ o.c = c /\ o.state = "idle" /\ ~o.part /\ o.out = req
    BY <1>1, <1>2, <2>4 DEF SlotRecs, Armed
  <2>6. Serve(i, Head(left), rest)
    BY <1>5 DEF Pumped, rest
  <2>7. \/ ~QueueFull /\ slot' = [slot EXCEPT ![i] = b] /\ conn' = cs /\ jobs' = Append(jobs, i)
        \/ Flushed(i, o, cs) /\ jobs' = jobs
    BY <2>6 DEF Serve
  <2> HIDE DEF r, cs, s, req, b, o, left, closes
  <2>8. CASE ~QueueFull /\ slot' = [slot EXCEPT ![i] = b] /\ conn' = cs /\ jobs' = Append(jobs, i)
    <3>1. /\ r.taken = Len(r.answers) + (IF Quiet(b) THEN 0 ELSE 1)
          /\ b.out # Nothing => b.out = [c |-> b.c, n |-> r.taken]
      BY <2>2, <2>5 DEF Quiet
    <3>2. conn' = [conn EXCEPT ![slot[i].c] = r] /\ r.st # "off"
      BY <1>1, <2>2, <2>3, <2>8
    <3>3. jobs' = (IF b.state = "busy" THEN Append(jobs, i) ELSE jobs)
      BY <2>5, <2>8
    <3>4. TcpRest' /\ Typed' /\ Touches(i)
      BY <2>2, <2>5, <2>8, <3>1, <3>2, <3>3, PollerMoves
    <3>5. QED
      BY <2>8, <3>4
  <2>9. CASE Flushed(i, o, cs) /\ jobs' = jobs
    <3>1. cs = [conn EXCEPT ![slot[i].c] = r] /\ r.st # "off" /\ o.out = [c |-> o.c, n |-> r.taken]
      BY <1>1, <2>2, <2>3, <2>4, <2>5
    <3>2. TcpRest' /\ Typed' /\ Touches(i)
      BY <2>2, <2>5, <2>9, <3>1, FlushedMoves
    <3>3. QED
      BY <2>9, <3>2
  <2>10. QED
    BY <2>7, <2>8, <2>9
<1>6. CASE ~closes /\ left = <<>>
  <2> DEFINE r == [conn[c] EXCEPT !.in = left]
             s == [slot[i] EXCEPT !.part = @ \/ begins]
  <2>1. slot' = [slot EXCEPT ![i].part = @ \/ begins] /\ conn' = [conn EXCEPT ![c].in = left] /\ jobs' = jobs
    BY <1>6 DEF Pumped
  <2>2. slot' = [slot EXCEPT ![i] = s] /\ conn' = [conn EXCEPT ![c] = r]
    BY <1>1, <2>1
  <2> HIDE DEF left, closes, begins
  <2>3. r \in ConnRecs /\ r.st = conn[c].st /\ r.answers = conn[c].answers /\ r.taken = conn[c].taken
    BY <1>1, <1>3 DEF ConnRecs
  <2>4. s \in SlotRecs /\ s.c = c /\ s.state = "idle" /\ s.out = Nothing
    BY <1>1, <1>2 DEF SlotRecs
  <2> HIDE DEF r, s
  <2>5. /\ Quiet(s) /\ InOrder(r, s.c) /\ r.st # "off"
        /\ jobs' = (IF s.state = "busy" THEN Append(jobs, i) ELSE jobs)
    BY <1>1, <1>2, <2>1, <2>3, <2>4 DEF Quiet, InOrder
  <2>6. r.taken = Len(r.answers) + (IF Quiet(s) THEN 0 ELSE 1)
    <3>1. r.taken = Len(r.answers) /\ r.taken \in Nat
      BY <1>2, <2>3 DEF ConnRecs
    <3>2. QED
      BY <2>5, <3>1
  <2>7. TcpRest' /\ Typed' /\ Touches(i)
    BY <2>2, <2>3, <2>4, <2>5, <2>6, PollerMoves
  <2>8. QED
    BY <2>1, <2>7
<1>7. QED
  BY <1>4, <1>5, <1>6

LEMMA Connects == ASSUME TcpInv, NEW c \in Conns, NEW reads, Connect(c, reads) PROVE TcpRest'
<1> USE TcpTypes DEF TcpInv
<1>1. /\ conn[c].st = "off" /\ backlog' = Append(backlog, c) /\ UNCHANGED <<slot, jobs, task>>
      /\ conn' = [conn EXCEPT ![c].st = "open", ![c].reads = reads]
  BY DEF Connect
<1>2. /\ \A d \in Conns : d # c => conn'[d] = conn[d]
      /\ conn'[c].taken = conn[c].taken /\ conn'[c].answers = conn[c].answers /\ conn'[c].st = "open"
  BY <1>1 DEF ConnRecs
<1>3. \A i \in Slots : slot[i].c # c
  BY <1>1 DEF SlotsOk, FreeSlot
<1>4. \A k \in 1 .. Len(backlog) : backlog[k] # c
  BY <1>1 DEF BacklogOk
<1>5. /\ \A k \in 1 .. Len(backlog') : (k \in 1 .. Len(backlog) /\ backlog'[k] = backlog[k]) \/ backlog'[k] = c
      /\ Once(backlog')
  BY <1>1, <1>4, OnceAppend DEF BacklogOk, Once
<1>6. BacklogOk'
  BY <1>1, <1>2, <1>3, <1>5 DEF BacklogOk, Once
<1>7. \A d \in Conns : /\ conn'[d].taken = conn[d].taken /\ conn'[d].answers = conn[d].answers
                       /\ conn[d].st # "off" => conn'[d].st # "off"
  BY <1>2
<1>8. QED
  BY <1>1, <1>6, <1>7, ClientsMove

\* What is true of the connection that has waited longest, and of those behind it.
LEMMA Waiting ==
    ASSUME TcpInv, backlog # <<>>, backlog' = Tail(backlog)
    PROVE  /\ Head(backlog) \in Conns /\ conn[Head(backlog)].st # "off"
           /\ conn[Head(backlog)].taken = 0 /\ conn[Head(backlog)].answers = <<>>
           /\ \A i \in Slots : slot[i].c # Head(backlog)
           /\ \A k \in 1 .. Len(backlog') :
                 /\ backlog'[k] \in Conns /\ backlog'[k] # Head(backlog) /\ conn[backlog'[k]].st # "off"
                 /\ \A i \in Slots : slot[i].c # backlog'[k]
           /\ Once(backlog') /\ backlog' \in Seq(Conns)
<1> USE TcpTypes DEF TcpInv
<1>1. Once(backlog) /\ backlog \in Seq(Conns)
  BY DEF BacklogOk, Once
<1>2. /\ Head(backlog) = backlog[1] /\ 1 \in 1 .. Len(backlog) /\ Once(backlog') /\ backlog' \in Seq(Conns)
      /\ \A k \in 1 .. Len(backlog') :
            k + 1 \in 1 .. Len(backlog) /\ backlog'[k] = backlog[k + 1] /\ backlog'[k] # Head(backlog)
  BY <1>1, OnceTail
<1>3. Head(backlog) \in Conns /\ conn[Head(backlog)].st # "off" /\ \A i \in Slots : slot[i].c # Head(backlog)
  BY <1>2 DEF BacklogOk
<1>4. conn[Head(backlog)].taken = 0 /\ conn[Head(backlog)].answers = <<>>
  BY <1>3 DEF FreshOk
<1>5. QED
  BY <1>2, <1>3, <1>4 DEF BacklogOk

LEMMA Refuses == ASSUME TcpInv, Refuse PROVE TcpRest'
<1> USE TcpTypes DEF TcpInv
<1> DEFINE h == Head(backlog)
<1>1. /\ backlog # <<>> /\ backlog' = Tail(backlog) /\ UNCHANGED <<slot, jobs, task>>
      /\ conn' = [conn EXCEPT ![h] = Over(h)]
  BY DEF Refuse
<1>2. h \in Conns /\ conn[h].taken = 0 /\ conn[h].answers = <<>>
  BY <1>1, Waiting
<1>3. conn'[h] = Over(h) /\ Over(h).taken = 0 /\ Over(h).answers = <<>> /\ Over(h).st # "off"
  BY <1>1, <1>2 DEF Over, NewConn
<1>4. \A d \in Conns : d # h => conn'[d] = conn[d]
  BY <1>1
<1> HIDE DEF h
<1>5. \A d \in Conns : /\ conn'[d].taken = conn[d].taken /\ conn'[d].answers = conn[d].answers
                       /\ conn[d].st # "off" => conn'[d].st # "off"
  BY <1>2, <1>3, <1>4
<1>6. BacklogOk'
  BY <1>1, <1>4, Waiting DEF BacklogOk, Once, h
<1>7. QED
  BY <1>1, <1>5, <1>6, ClientsMove

\* A newcomer gets a slot nobody needs: a free one, or an idle one with nothing
\* coming and nothing going.
LEMMA Accepts ==
    ASSUME TcpInv, NEW i \in Slots, Accept(i)
    PROVE  /\ TcpRest' /\ Typed' /\ Touches(i)
           /\ slot[i].state = "free" \/ MayTakeOver(i)
<1> USE TcpTypes DEF TcpInv
<1> DEFINE h == Head(backlog)
           n == [FreeSlot EXCEPT !.state = "idle", !.c = h]
<1>1. /\ backlog # <<>> /\ backlog' = Tail(backlog) /\ UNCHANGED <<jobs, task>>
      /\ conn' = ClosedConns({i}) /\ slot' = [slot EXCEPT ![i] = n]
  BY DEF Accept
<1>2. slot[i].state = "free" \/ MayTakeOver(i)
  BY DEF Accept
<1>3. slot[i].state # "busy"
  BY <1>2 DEF MayTakeOver
<1>4. /\ h \in Conns /\ conn[h].st # "off" /\ conn[h].taken = 0 /\ conn[h].answers = <<>>
      /\ \A j \in Slots : slot[j].c # h
      /\ \A k \in 1 .. Len(backlog') :
            /\ backlog'[k] \in Conns /\ backlog'[k] # h /\ conn[backlog'[k]].st # "off"
            /\ \A j \in Slots : slot[j].c # backlog'[k]
      /\ Once(backlog') /\ h # NoConn
  BY <1>1, Waiting
<1>5. \A c \in Conns : conn'[c] = IF c = slot[i].c THEN Over(c) ELSE conn[c]
  BY <1>1 DEF ClosedConns
<1>6. \A c : Over(c).taken = 0 /\ Over(c).answers = <<>> /\ Over(c).st # "off"
  BY DEF Over, NewConn
<1>7. n.state = "idle" /\ n.c = h /\ ~n.part /\ n.out = Nothing /\ slot'[i] = n
  BY <1>1 DEF FreeSlot
<1>8. conn'[h] = conn[h]
  BY <1>4, <1>5
<1> HIDE DEF h, n
<1>9. \A j \in Slots : j # i =>
        /\ slot'[j] = slot[j]
        /\ slot[j].state # "free" => slot[j].c \in Conns /\ slot[j].c # slot[i].c /\ conn'[slot[j].c] = conn[slot[j].c]
  BY <1>1, <1>5 DEF SlotsOk
<1>10. Len(<<>>) = 0
  BY EmptySeq
<1>11. AnswersInOrder'
  <2>1. \A c \in Conns : conn'[c].answers = <<>> \/ conn'[c] = conn[c]
    BY <1>5, <1>6
  <2>2. ASSUME NEW c \in Conns, NEW k \in 1 .. Len(conn'[c].answers)
        PROVE  conn'[c].answers[k] = [c |-> c, n |-> k]
    BY <1>10, <2>1, <2>2 DEF AnswersInOrder
  <2>3. QED
    BY <2>2 DEF AnswersInOrder
<1>12. SlotsOk'
  <2>1. ASSUME NEW j \in Slots PROVE
          /\ slot'[j].state = "free" => slot'[j] = FreeSlot
          /\ slot'[j].state # "free" => slot'[j].c \in Conns /\ conn'[slot'[j].c].st # "off"
          /\ slot'[j].part => slot'[j].state = "idle" /\ slot'[j].out = Nothing
    <3>1. CASE j = i
      BY <1>4, <1>7, <1>8, <3>1
    <3>2. CASE j # i
      BY <1>9, <3>2 DEF SlotsOk, Sending
    <3>3. QED
      BY <3>1, <3>2
  <2>2. \A j, k \in Slots : slot'[j].c = slot'[k].c /\ slot'[j].c # NoConn => j = k
    BY <1>4, <1>7, <1>9 DEF SlotsOk
  <2>3. QED
    BY <2>1, <2>2 DEF SlotsOk, Sending
<1>13. BacklogOk'
  <2>1. \A k \in 1 .. Len(backlog') : conn'[backlog'[k]] = conn[backlog'[k]]
    BY <1>4, <1>5
  <2>2. \A k \in 1 .. Len(backlog') : \A j \in Slots : slot'[j].c # backlog'[k]
    BY <1>4, <1>7, <1>9
  <2>3. QED
    BY <1>4, <2>1, <2>2 DEF BacklogOk, Once
<1>14. FreshOk'
  <2>1. ASSUME NEW c \in Conns, \A j \in Slots : slot'[j].c # c
        PROVE  conn'[c].taken = 0 /\ conn'[c].answers = <<>>
    BY <1>5, <1>6, <1>9, <2>1 DEF FreshOk
  <2>2. QED
    BY <2>1 DEF FreshOk
<1>15. AnswersOk'
  <2>1. ASSUME NEW j \in Slots, slot'[j].state # "free" PROVE
          /\ slot'[j].out # Nothing => slot'[j].out = [c |-> slot'[j].c, n |-> conn'[slot'[j].c].taken]
          /\ conn'[slot'[j].c].taken = Len(conn'[slot'[j].c].answers) + (IF Quiet(slot'[j]) THEN 0 ELSE 1)
    <3>1. CASE j = i
      <4>1. Quiet(slot'[j]) /\ conn'[slot'[j].c].taken = 0 /\ Len(conn'[slot'[j].c].answers) = 0
        BY <1>4, <1>7, <1>8, <1>10, <3>1 DEF Quiet
      <4>2. (IF Quiet(slot'[j]) THEN 0 ELSE 1) = 0 /\ slot'[j].out = Nothing
        BY <1>7, <3>1, <4>1
      <4>3. QED
        BY <4>1, <4>2
    <3>2. CASE j # i
      <4>1. slot'[j] = slot[j] /\ slot[j].state # "free" /\ conn'[slot[j].c] = conn[slot[j].c]
        BY <1>9, <2>1, <3>2
      <4>2. QED
        BY <4>1 DEF AnswersOk, Sending, Current
    <3>3. QED
      BY <3>1, <3>2
  <2>2. QED
    BY <2>1 DEF AnswersOk, Sending, Current, Quiet
<1>16. JobsOk'
  BY <1>1, <1>3, <1>9 DEF JobsOk, Owner
<1>17. TasksOk'
  <2>1. \A w \in Workers : \A j \in Slots : Owner(w, j)' <=> Owner(w, j)
    BY <1>1 DEF Owner
  <2>2. \A w \in Workers : \A j \in Slots : Owner(w, j) => j # i /\ slot[j].state # "free"
    BY <1>3 DEF TasksOk
  <2>3. \A w \in Workers : \A j \in Slots : Owner(w, j) => slot'[j] = slot[j] /\ Current(j)' = Current(j)
    BY <1>9, <2>2 DEF Current
  <2>4. task' = task
    BY <1>1
  <2>5. QED
    BY <2>1, <2>3, <2>4 DEF TasksOk
<1>18. Typed' /\ Touches(i)
  <2>1. Nothing \in Request /\ <<>> \in Seq(Request) /\ <<>> \in Seq({"head", "local", "remote", "bad"})
    BY EmptySeq DEF Nothing, Request, NoConn
  <2>2. n \in SlotRecs /\ \A c : Over(c) \in ConnRecs
    BY <1>4, <2>1 DEF FreeSlot, SlotRecs, Over, NewConn, ConnRecs, n
  <2>3. QED
    BY <1>1, <1>5, <2>2 DEF Typed, ClosedConns, Touches
<1>19. QED
  BY <1>2, <1>11, <1>12, <1>13, <1>14, <1>15, <1>16, <1>17, <1>18 DEF TcpRest

LEMMA Stays == ASSUME TcpInv, UNCHANGED <<conn, backlog, slot, jobs, task>> PROVE TcpRest' /\ Typed'
<1>1. \A c \in Conns : /\ conn'[c].taken = conn[c].taken /\ conn'[c].answers = conn[c].answers
                       /\ conn[c].st # "off" => conn'[c].st # "off"
  OBVIOUS
<1>2. TcpRest'
  BY <1>1, ClientsMove
<1>3. QED
  BY <1>2, TcpTypes DEF Typed, TcpInv

\* What a pass of the poller does to the slots: nothing, or it closes idle ones, or
\* works at one that is idle or free.
LEMMA PollerStep ==
    ASSUME TcpInv, Poller
    PROVE  /\ TcpRest' /\ Typed'
           /\ jobs' = jobs \/ (~QueueFull /\ \E i \in Slots : jobs' = Append(jobs, i))
<1> USE TcpTypes DEF TcpInv
<1>1. \A i \in Slots : Flush(i) => TcpRest' /\ Typed' /\ jobs' = jobs
  <2> SUFFICES ASSUME NEW i \in Slots, Flush(i) PROVE TcpRest' /\ Typed' /\ jobs' = jobs
    OBVIOUS
  <2>1. UNCHANGED <<backlog, jobs, task>>
    BY DEF Flush
  <2>2. CASE slot[i].state = "idle" /\ Sending(i)
    <3>1. Flushed(i, slot[i], conn)
      BY <2>2 DEF Flush
    <3>2. /\ slot[i].c \in Conns /\ ~slot[i].part /\ conn[slot[i].c].st # "off"
          /\ conn = [conn EXCEPT ![slot[i].c] = conn[slot[i].c]]
      BY <2>2 DEF SlotsOk
    <3>3. /\ slot[i].out = [c |-> slot[i].c, n |-> conn[slot[i].c].taken]
          /\ InOrder(conn[slot[i].c], slot[i].c)
      BY <2>2, <3>2 DEF AnswersOk, Current, InOrder, AnswersInOrder
    <3>4. conn[slot[i].c].taken = Len(conn[slot[i].c].answers) + 1
      <4>1. ~Quiet(slot[i])
        BY <2>2 DEF Quiet, Sending
      <4>2. QED
        BY <2>2, <4>1 DEF AnswersOk
    <3>5. QED
      BY <2>1, <2>2, <3>1, <3>2, <3>3, <3>4, FlushedMoves
  <2>3. CASE ~(slot[i].state = "idle" /\ Sending(i))
    <3>1. UNCHANGED <<slot, conn>>
      BY <2>3 DEF Flush
    <3>2. QED
      BY <2>1, <3>1, Stays
  <2>4. QED
    BY <2>2, <2>3
<1>2. \A i \in Slots : Pump(i) => TcpRest' /\ Typed' /\ (jobs' = jobs \/ (jobs' = Append(jobs, i) /\ ~QueueFull))
  <2> SUFFICES ASSUME NEW i \in Slots, Pump(i)
               PROVE  TcpRest' /\ Typed' /\ (jobs' = jobs \/ (jobs' = Append(jobs, i) /\ ~QueueFull))
    OBVIOUS
  <2>1. UNCHANGED <<backlog, task>>
    BY DEF Pump
  <2>2. CASE slot[i].state = "idle" /\ MayRead(i)
    BY <2>1, <2>2, PumpedMoves DEF Pump, MayRead
  <2>3. CASE ~(slot[i].state = "idle" /\ MayRead(i))
    <3>1. UNCHANGED <<slot, conn, jobs>>
      BY <2>3 DEF Pump
    <3>2. QED
      BY <2>1, <3>1, Stays
  <2>4. QED
    BY <2>2, <2>3
<1>3. CASE Build \/ AcceptDone
  <2>1. UNCHANGED <<conn, backlog, slot, jobs, task>>
    BY <1>3 DEF Build, AcceptDone
  <2>2. QED
    BY <2>1, Stays
<1>4. CASE SelectReturns
  <2> DEFINE swept == IF poll.partial THEN {i \in Slots : Overdue(i)} ELSE {}
  <2>1. /\ swept \in SUBSET Slots /\ conn' = ClosedConns(swept) /\ slot' = ClosedSlots(swept)
        /\ UNCHANGED <<backlog, jobs, task>>
    BY <1>4 DEF SelectReturns
  <2>2. \A i \in swept : slot[i].state = "idle"
    BY DEF Overdue
  <2> HIDE DEF swept
  <2>3. QED
    BY <2>1, <2>2, SlotsClose
<1>5. CASE Refuse
  <2>1. backlog # <<>> /\ UNCHANGED <<slot, jobs>> /\ conn' = [conn EXCEPT ![Head(backlog)] = Over(Head(backlog))]
    BY <1>5 DEF Refuse
  <2>2. \A c : Over(c) \in ConnRecs
    <3>1. <<>> \in Seq(Request) /\ <<>> \in Seq({"head", "local", "remote", "bad"})
      BY EmptySeq
    <3>2. QED
      BY <3>1 DEF Over, NewConn, ConnRecs
  <2>3. QED
    BY <1>5, <2>1, <2>2, Refuses DEF Typed
<1>6. ASSUME NEW i \in Slots, Accept(i) PROVE TcpRest' /\ Typed' /\ jobs' = jobs
  BY <1>6, Accepts DEF Accept
<1>7. QED
  BY <1>1, <1>2, <1>3, <1>4, <1>5, <1>6 DEF Poller

LEMMA ClientStep == ASSUME TcpInv, NEW c \in Conns, Client(c) PROVE TcpRest'
<1> USE TcpTypes DEF TcpInv
<1>1. CASE \E reads \in BOOLEAN : Connect(c, reads)
  BY <1>1, Connects
<1>2. CASE (\E item \in {"head", "local", "remote", "bad"} : Send(c, item)) \/ Resume(c) \/ Close(c)
  <2>1. UNCHANGED <<backlog, slot, jobs, task>>
    BY <1>2 DEF Send, Resume, Close
  <2>2. \A d \in Conns : d # c => conn'[d] = conn[d]
    BY <1>2 DEF Send, Resume, Close
  <2>3. /\ conn'[c].taken = conn[c].taken /\ conn'[c].answers = conn[c].answers
        /\ conn[c].st # "off" => conn'[c].st # "off"
    BY <1>2 DEF Send, Resume, Close, ConnRecs
  <2>4. QED
    BY <2>1, <2>2, <2>3, ClientsMove
<1>3. QED
  BY <1>1, <1>2 DEF Client

LEMMA DeadlineStep ==
    ASSUME TcpInv, NEW i \in Slots, Deadline(i)
    PROVE  /\ TcpRest' /\ Typed'
           /\ \A j \in Slots : slot'[j] = slot[j] \/ slot'[j] = [slot[j] EXCEPT !.stuck = slot'[j].stuck]
                                \/ slot[j].state = "idle"
<1> USE TcpTypes DEF TcpInv
<1>1. UNCHANGED <<conn, backlog, jobs, task>>
  BY DEF Deadline, FrameTime, AnswerTime
<1>2. PICK s \in SlotRecs :
        /\ slot' = [slot EXCEPT ![i] = s]
        /\ s.state = slot[i].state /\ s.c = slot[i].c /\ s.part = slot[i].part /\ s.out = slot[i].out
        /\ s = [slot[i] EXCEPT !.stuck = s.stuck] \/ slot[i].state = "idle"
        /\ slot[i].state # "free"
  <2>1. CASE FrameTime(i)
    <3> DEFINE s == [slot[i] EXCEPT !.late = TRUE]
    <3>1. slot' = [slot EXCEPT ![i] = s] /\ slot[i].part
      BY <2>1 DEF FrameTime
    <3>2. slot[i].state = "idle"
      BY <3>1 DEF SlotsOk
    <3>3. s \in SlotRecs /\ s.state = slot[i].state /\ s.c = slot[i].c /\ s.part = slot[i].part /\ s.out = slot[i].out
      BY DEF SlotRecs
    <3> HIDE DEF s
    <3>4. QED
      BY <3>1, <3>2, <3>3
  <2>2. CASE AnswerTime(i)
    <3> DEFINE s == [slot[i] EXCEPT !.stuck = TRUE]
    <3>1. slot' = [slot EXCEPT ![i] = s] /\ Sending(i)
      BY <2>2 DEF AnswerTime
    <3>2. slot[i].state # "free"
      BY <3>1 DEF SlotsOk, FreeSlot, Sending
    <3>3. s \in SlotRecs /\ s.state = slot[i].state /\ s.c = slot[i].c /\ s.part = slot[i].part /\ s.out = slot[i].out
      BY DEF SlotRecs
    <3>4. s.stuck = TRUE /\ s = [slot[i] EXCEPT !.stuck = s.stuck]
      BY DEF SlotRecs
    <3> HIDE DEF s
    <3>5. QED
      BY <3>1, <3>2, <3>3, <3>4
  <2>3. QED
    BY <2>1, <2>2 DEF Deadline
<1>3. \A j \in Slots : /\ slot'[j].state = slot[j].state /\ slot'[j].c = slot[j].c /\ slot'[j].part = slot[j].part
                       /\ slot'[j].out = slot[j].out
                       /\ slot[j].state = "free" => slot'[j] = slot[j]
  BY <1>2
<1>4. AnswersInOrder' /\ FreshOk' /\ BacklogOk'
  <2>1. AnswersInOrder'
    BY <1>1 DEF AnswersInOrder
  <2>2. FreshOk'
    BY <1>1, <1>3 DEF FreshOk
  <2>3. BacklogOk'
    BY <1>1, <1>3 DEF BacklogOk
  <2>4. QED
    BY <2>1, <2>2, <2>3
<1>5. SlotsOk'
  <2>1. \A j \in Slots : slot'[j].state = "free" => slot'[j] = FreeSlot
    BY <1>3 DEF SlotsOk
  <2>2. QED
    BY <1>1, <1>3, <2>1 DEF SlotsOk, Sending
<1>6. AnswersOk'
  <2>1. \A j \in Slots : Quiet(slot'[j]) <=> Quiet(slot[j])
    BY <1>3 DEF Quiet
  <2>2. QED
    BY <1>1, <1>3, <2>1 DEF AnswersOk, Sending, Current
<1>7. JobsOk'
  <2>1. jobs' = jobs /\ task' = task
    BY <1>1
  <2>2. \A k \in 1 .. Len(jobs) : jobs[k] \in Slots
    BY DEF JobsOk
  <2>3. \A k \in 1 .. Len(jobs) : slot'[jobs[k]].state = "busy" /\ \A w \in Workers : ~Owner(w, jobs[k])'
    BY <1>3, <2>1, <2>2 DEF JobsOk, Owner
  <2>4. QED
    BY <2>1, <2>3 DEF JobsOk
<1>8. TasksOk'
  <2>1. \A w \in Workers : \A j \in Slots : (Owner(w, j)' <=> Owner(w, j)) /\ Current(j)' = Current(j)
    BY <1>1, <1>3 DEF Owner, Current
  <2>2. QED
    BY <1>1, <1>3, <2>1 DEF TasksOk
<1>9. QED
  BY <1>1, <1>2, <1>4, <1>5, <1>6, <1>7, <1>8 DEF TcpRest, Typed

LEMMA TypedStep == ASSUME TcpInv, TcpNext PROVE TcpRest' /\ Typed'
<1> USE TcpTypes DEF TcpInv
<1>1. ASSUME NEW c \in Conns, Client(c) PROVE TcpRest' /\ Typed'
  <2>1. TcpRest' /\ slot' = slot
    BY <1>1, ClientStep DEF Client, Connect, Send, Resume, Close
  <2>2. CASE \E item \in {"head", "local", "remote", "bad"} : Send(c, item)
    <3>1. PICK item \in {"head", "local", "remote", "bad"} : Send(c, item)
      BY <2>2
    <3>2. Append(conn[c].in, item) \in Seq({"head", "local", "remote", "bad"})
      BY AppendProperties DEF ConnRecs
    <3> DEFINE r == [conn[c] EXCEPT !.in = Append(@, item), !.mid = (item = "head")]
    <3>3. r \in ConnRecs
      BY <3>2 DEF ConnRecs
    <3>4. conn' = [conn EXCEPT ![c] = r]
      BY <3>1 DEF Send, ConnRecs
    <3> HIDE DEF r
    <3>5. QED
      BY <2>1, <3>3, <3>4 DEF Typed
  <2>3. CASE \E reads \in BOOLEAN : Connect(c, reads)
    <3>1. PICK reads \in BOOLEAN : Connect(c, reads)
      BY <2>3
    <3> DEFINE r == [conn[c] EXCEPT !.st = "open", !.reads = reads]
    <3>2. r \in ConnRecs /\ conn' = [conn EXCEPT ![c] = r]
      BY <3>1 DEF ConnRecs, Connect
    <3> HIDE DEF r
    <3>3. QED
      BY <2>1, <3>2 DEF Typed
  <2>4. CASE Resume(c) \/ Close(c)
    <3>1. [conn[c] EXCEPT !.reads = TRUE] \in ConnRecs /\ [conn[c] EXCEPT !.st = "gone"] \in ConnRecs
      BY DEF ConnRecs
    <3>2. QED
      BY <2>1, <2>4, <3>1 DEF Typed, Resume, Close
  <2>5. QED
    BY <1>1, <2>2, <2>3, <2>4 DEF Client
<1>2. ASSUME NEW i \in Slots, Deadline(i) PROVE TcpRest' /\ Typed'
  BY <1>2, DeadlineStep
<1>3. ASSUME NEW w \in Workers, Worker(w) PROVE TcpRest' /\ Typed'
  <2>1. TcpRest' /\ conn' = conn
    BY <1>3, WorkerMoves DEF Worker, TakeJob, Arm, Release, Wake
  <2>2. CASE Arm(w)
    <3>1. ASSUME NEW i \in Slots PROVE Armed(slot[i], task[w].req) \in SlotRecs
      <4>1. slot[i] \in SlotRecs /\ task[w].req \in Request
        BY DEF TaskRecs
      <4>2. QED
        BY <4>1 DEF Armed, SlotRecs
    <3>2. QED
      BY <2>1, <2>2, <3>1 DEF Typed, Arm
  <2>3. CASE Release(w)
    <3>1. \A i \in Slots : [slot[i] EXCEPT !.state = "idle"] \in SlotRecs
      BY DEF SlotRecs
    <3>2. QED
      BY <2>1, <2>3, <3>1 DEF Typed, Release
  <2>4. CASE TakeJob(w) \/ Wake(w)
    BY <2>1, <2>4 DEF Typed, TakeJob, Wake
  <2>5. QED
    BY <1>3, <2>2, <2>3, <2>4 DEF Worker
<1>4. CASE Poller
  BY <1>4, PollerStep
<1>5. QED
  BY <1>1, <1>2, <1>3, <1>4 DEF TcpNext

LEMMA TcpTypeStep == ASSUME TcpInv, TcpNext PROVE TcpTypeOK'
<1> USE TcpTypes DEF TcpInv
<1>1. conn' \in [Conns -> ConnRecs] /\ slot' \in [Slots -> SlotRecs]
  BY TypedStep DEF Typed
<1>2. backlog' \in Seq(Conns)
  <2>1. backlog # <<>> => Tail(backlog) \in Seq(Conns)
    BY HeadTailProperties
  <2>2. \A c \in Conns : Append(backlog, c) \in Seq(Conns)
    BY AppendProperties
  <2>3. CASE \E c \in Conns : Client(c)
    BY <2>2, <2>3 DEF Client, Connect, Send, Resume, Close
  <2>4. CASE Poller
    BY <2>1, <2>4 DEF Poller, Build, SelectReturns, Refuse, AcceptDone, Accept, Flush, Pump
  <2>5. CASE (\E i \in Slots : Deadline(i)) \/ (\E w \in Workers : Worker(w))
    BY <2>5 DEF Deadline, FrameTime, AnswerTime, Worker, TakeJob, Arm, Release, Wake
  <2>6. QED
    BY <2>3, <2>4, <2>5 DEF TcpNext
<1>3. jobs' \in Seq(Slots) /\ Len(jobs') <= Cardinality(Workers)
  <2>1. Cardinality(Workers) \in Nat /\ Len(jobs) <= Cardinality(Workers)
    BY TcpServerAssumption, FS_CardinalityType DEF TcpTypeOK
  <2>2. jobs # <<>> => Tail(jobs) \in Seq(Slots) /\ Len(Tail(jobs)) = Len(jobs) - 1
    BY HeadTailProperties
  <2>3. \A i \in Slots : Append(jobs, i) \in Seq(Slots) /\ Len(Append(jobs, i)) = Len(jobs) + 1
    BY AppendProperties
  <2>4. ~QueueFull => Len(jobs) + 1 <= Cardinality(Workers)
    BY <2>1 DEF QueueFull
  <2>5. jobs' = jobs \/ (jobs # <<>> /\ jobs' = Tail(jobs)) \/ (~QueueFull /\ \E i \in Slots : jobs' = Append(jobs, i))
    <3>1. CASE \E c \in Conns : Client(c)
      BY <3>1 DEF Client, Connect, Send, Resume, Close
    <3>2. CASE Poller
      BY <3>2, PollerStep
    <3>3. CASE (\E i \in Slots : Deadline(i)) \/ (\E w \in Workers : Worker(w))
      BY <3>3 DEF Deadline, FrameTime, AnswerTime, Worker, TakeJob, Arm, Release, Wake
    <3>4. QED
      BY <3>1, <3>2, <3>3 DEF TcpNext
  <2>6. CASE jobs' = jobs
    BY <2>1, <2>6
  <2>7. CASE jobs # <<>> /\ jobs' = Tail(jobs)
    <3>1. Len(jobs) - 1 <= Cardinality(Workers)
      BY <2>1
    <3>2. QED
      BY <2>2, <2>7, <3>1
  <2>8. CASE ~QueueFull /\ \E i \in Slots : jobs' = Append(jobs, i)
    BY <2>3, <2>4, <2>8
  <2>9. QED
    BY <2>5, <2>6, <2>7, <2>8
<1>4. task' \in [Workers -> TaskRecs]
  <2>1. IdleTask \in TaskRecs
    BY DEF IdleTask, TaskRecs, Nothing, Request, NoConn
  <2>2. CASE \E w \in Workers : TakeJob(w)
    <3>1. PICK w \in Workers : TakeJob(w)
      BY <2>2
    <3>2. jobs # <<>> /\ 1 \in 1 .. Len(jobs) /\ Head(jobs) = jobs[1]
      BY <3>1, OnceTail DEF TakeJob
    <3> DEFINE i == Head(jobs)
    <3>3. i \in Slots /\ slot[i].c \in Conns
      BY <3>2 DEF JobsOk, SlotsOk
    <3>4. [c |-> slot[i].c, n |-> conn[slot[i].c].taken] \in Request /\ i \in Nat
      BY <3>3, TcpServerAssumption DEF Request, ConnRecs
    <3> HIDE DEF i
    <3>5. [at |-> "process", slot |-> i, req |-> [c |-> slot[i].c, n |-> conn[slot[i].c].taken]] \in TaskRecs
      BY <3>4 DEF TaskRecs
    <3>6. task' = [task EXCEPT ![w] = [at |-> "process", slot |-> i, req |-> [c |-> slot[i].c, n |-> conn[slot[i].c].taken]]]
      BY <3>1 DEF TakeJob, i
    <3>7. QED
      BY <3>5, <3>6
  <2>3. CASE \E w \in Workers : Arm(w) \/ Release(w)
    <3>1. \A w \in Workers : /\ [task[w] EXCEPT !.at = "release"] \in TaskRecs
                             /\ [task[w] EXCEPT !.at = "wake"] \in TaskRecs
      BY DEF TaskRecs
    <3>2. QED
      BY <2>3, <3>1 DEF Arm, Release
  <2>4. CASE \E w \in Workers : Wake(w)
    BY <2>1, <2>4 DEF Wake
  <2>5. CASE \E c \in Conns : Client(c)
    BY <2>5 DEF Client, Connect, Send, Resume, Close
  <2>6. CASE Poller
    BY <2>6 DEF Poller, Build, SelectReturns, Refuse, AcceptDone, Accept, Flush, Pump
  <2>7. CASE \E i \in Slots : Deadline(i)
    BY <2>7 DEF Deadline, FrameTime, AnswerTime
  <2>8. QED
    BY <2>2, <2>3, <2>4, <2>5, <2>6, <2>7 DEF TcpNext, Worker
<1>5. wake' \in BOOLEAN /\ used' \in 0 .. MaxItems
  <2>1. wake \in BOOLEAN /\ used \in 0 .. MaxItems /\ MaxItems \in Nat
    BY TcpServerAssumption DEF TcpTypeOK
  <2>2. used < MaxItems => used + 1 \in 0 .. MaxItems
    BY <2>1
  <2>3. CASE \E c \in Conns : Client(c)
    BY <2>1, <2>2, <2>3 DEF Client, Connect, Send, Resume, Close
  <2>4. CASE Poller
    BY <2>1, <2>4 DEF Poller, Build, SelectReturns, Refuse, AcceptDone, Accept, Flush, Pump
  <2>5. CASE (\E i \in Slots : Deadline(i)) \/ (\E w \in Workers : Worker(w))
    BY <2>1, <2>5 DEF Deadline, FrameTime, AnswerTime, Worker, TakeJob, Arm, Release, Wake, Woken
  <2>6. QED
    BY <2>3, <2>4, <2>5 DEF TcpNext
<1>6. poll' \in [at : {"select", "accept", "work"}, rd : SUBSET Slots,
                wr : SUBSET Slots, partial : BOOLEAN, stale : BOOLEAN]
  <2> DEFINE P == [at : {"select", "accept", "work"}, rd : SUBSET Slots,
                   wr : SUBSET Slots, partial : BOOLEAN, stale : BOOLEAN]
  <2>1. poll \in P
    BY DEF TcpTypeOK
  <2>2. CASE Build
    BY <2>2 DEF Build, IdleSlots
  <2>3. CASE SelectReturns
    BY <2>1, <2>3 DEF SelectReturns
  <2>4. CASE Refuse \/ AcceptDone
    BY <2>1, <2>4 DEF Refuse, AcceptDone
  <2>5. CASE \E i \in Slots : Accept(i)
    <3>1. PICK i \in Slots : Accept(i)
      BY <2>5
    <3>2. PICK same \in BOOLEAN : poll' = [poll EXCEPT !.rd = IF same THEN @ \union {i} ELSE @ \ {i},
                                                      !.stale = @ \/ i \in poll.rd]
      BY <3>1 DEF Accept
    <3>3. poll.rd \union {i} \in SUBSET Slots /\ poll.rd \ {i} \in SUBSET Slots
      BY <2>1
    <3>4. QED
      BY <2>1, <3>2, <3>3
  <2>6. CASE \E i \in Slots : Flush(i) \/ Pump(i)
    <3>1. \A i \in Slots : poll.rd \ {i} \in SUBSET Slots /\ poll.wr \ {i} \in SUBSET Slots
      BY <2>1
    <3>2. \E i \in Slots : poll' = [poll EXCEPT !.wr = @ \ {i}] \/ poll' = [poll EXCEPT !.rd = @ \ {i}]
      BY <2>6 DEF Flush, Pump
    <3>3. QED
      BY <2>1, <3>1, <3>2
  <2>7. CASE UNCHANGED poll
    BY <2>1, <2>7
  <2>8. CASE \E c \in Conns : Client(c)
    BY <2>7, <2>8 DEF Client, Connect, Send, Resume, Close
  <2>9. CASE (\E i \in Slots : Deadline(i)) \/ (\E w \in Workers : Worker(w))
    BY <2>7, <2>9 DEF Deadline, FrameTime, AnswerTime, Worker, TakeJob, Arm, Release, Wake
  <2>10. QED
    BY <2>2, <2>3, <2>4, <2>5, <2>6, <2>8, <2>9 DEF TcpNext, Poller
<1>7. QED
  BY <1>1, <1>2, <1>3, <1>4, <1>5, <1>6 DEF TcpTypeOK, ConnRecs, SlotRecs, TaskRecs

LEMMA TcpInvStep == TcpInv /\ [TcpNext]_tcpVars => TcpInv'
<1> SUFFICES ASSUME TcpInv, [TcpNext]_tcpVars PROVE TcpInv'
  OBVIOUS
<1>1. CASE TcpNext
  BY <1>1, TypedStep, TcpTypeStep DEF TcpInv, TcpRest
<1>2. CASE UNCHANGED tcpVars
  <2>1. TcpRest'
    BY <1>2, Stays DEF tcpVars
  <2>2. TcpTypeOK'
    BY <1>2 DEF tcpVars, TcpInv, TcpTypeOK
  <2>3. QED
    BY <2>1, <2>2 DEF TcpInv, TcpRest
<1>3. QED
  BY <1>1, <1>2

LEMMA TcpInvAlways == TcpSpec => []TcpInv
BY TcpInitInv, TcpInvStep, PTL DEF TcpSpec

\* On every connection of the Modbus TCP server the answers come back in the order
\* of the requests, each once and none of another connection's - whichever worker
\* is the first to have its answer, and whoever has the slot by then - and the job
\* queue stays within its length.
THEOREM AnswersComeInOrder == TcpSpec => []Inv
<1>1. TcpInv => Inv
  BY DEF TcpInv, Inv
<1>2. QED
  BY <1>1, TcpInvAlways, PTL

-----------------------------------------------------------------------------
(* Whose a slot is.                                                        *)

\* What a step of the poller finds at the slots it changes, and at the connections
\* it may drop: nothing a worker has, and nothing a client waits for.
LEMMA PollerSpares ==
    ASSUME TcpInv, Poller
    PROVE  /\ \A i \in Slots : slot[i].state = "busy" => slot'[i] = slot[i]
           /\ \A i \in Slots : OwedAnswer(i) => conn'[slot[i].c].st # "dropped"
<1> USE TcpTypes DEF TcpInv
\* A client that is owed an answer: its slot is not quiet.
<1>1. ASSUME NEW i \in Slots, OwedAnswer(i)
      PROVE  /\ slot[i].c \in Conns /\ slot[i].state # "free" /\ ~Quiet(slot[i]) /\ ~slot[i].stuck
             /\ ~(slot[i].part) /\ conn[slot[i].c].st = "open"
             /\ \A j \in Slots : slot[j].c = slot[i].c => j = i
  <2>1. slot[i].c # NoConn /\ ~slot[i].stuck /\ conn[slot[i].c].st = "open"
        /\ conn[slot[i].c].taken > Len(conn[slot[i].c].answers)
    BY <1>1 DEF OwedAnswer
  <2>2. slot[i].state # "free"
    BY <2>1 DEF SlotsOk, FreeSlot
  <2>3. slot[i].c \in Conns /\ \A j \in Slots : slot[j].c = slot[i].c => j = i
    BY <2>1, <2>2 DEF SlotsOk
  <2>4. ~Quiet(slot[i])
    <3>1. Len(conn[slot[i].c].answers) \in Nat
      BY <2>3, LenProperties DEF ConnRecs
    <3>2. Quiet(slot[i]) => conn[slot[i].c].taken = Len(conn[slot[i].c].answers) + 0
      BY <2>2 DEF AnswersOk
    <3>3. QED
      BY <2>1, <3>1, <3>2
  <2>5. ~slot[i].part
    BY <2>4 DEF SlotsOk, Sending, Quiet
  <2>6. QED
    BY <2>1, <2>2, <2>3, <2>4, <2>5
<1>2. CASE Build \/ AcceptDone
  <2>1. slot' = slot /\ conn' = conn
    BY <1>2 DEF Build, AcceptDone
  <2>2. QED
    BY <1>1, <2>1
<1>3. CASE SelectReturns
  <2> DEFINE swept == IF poll.partial THEN {i \in Slots : Overdue(i)} ELSE {}
  <2>1. conn' = ClosedConns(swept) /\ slot' = ClosedSlots(swept)
    BY <1>3 DEF SelectReturns
  <2>2. \A i \in swept : i \in Slots /\ slot[i].state = "idle" /\ (slot[i].stuck \/ slot[i].part)
    BY DEF Overdue
  <2> HIDE DEF swept
  <2>3. \A i \in Slots : slot[i].state = "busy" => slot'[i] = slot[i]
    BY <2>1, <2>2 DEF ClosedSlots
  <2>4. ASSUME NEW i \in Slots, OwedAnswer(i) PROVE conn'[slot[i].c].st # "dropped"
    <3>1. ~\E j \in swept : slot[j].c = slot[i].c
      BY <1>1, <2>2, <2>4
    <3>2. conn'[slot[i].c] = conn[slot[i].c]
      BY <1>1, <2>1, <2>4, <3>1 DEF ClosedConns
    <3>3. QED
      BY <1>1, <2>4, <3>2
  <2>5. QED
    BY <2>3, <2>4
<1>4. CASE Refuse
  <2>1. slot' = slot /\ conn' = [conn EXCEPT ![Head(backlog)] = Over(Head(backlog))]
        /\ backlog # <<>> /\ backlog' = Tail(backlog)
    BY <1>4 DEF Refuse
  <2>2. \A i \in Slots : slot[i].c # Head(backlog)
    BY <2>1, Waiting
  <2>3. ASSUME NEW i \in Slots, OwedAnswer(i) PROVE conn'[slot[i].c].st # "dropped"
    <3>1. conn'[slot[i].c] = conn[slot[i].c]
      BY <1>1, <2>1, <2>2, <2>3
    <3>2. QED
      BY <1>1, <2>3, <3>1
  <2>4. QED
    BY <2>1, <2>3
<1>5. ASSUME NEW j \in Slots, Touches(j), slot[j].state # "busy", ~OwedAnswer(j) \/ conn'[slot[j].c].st # "dropped"
      PROVE  /\ \A i \in Slots : slot[i].state = "busy" => slot'[i] = slot[i]
             /\ \A i \in Slots : OwedAnswer(i) => conn'[slot[i].c].st # "dropped"
  <2>1. \A i \in Slots : slot[i].state = "busy" => slot'[i] = slot[i]
    BY <1>5 DEF Touches
  <2>2. ASSUME NEW i \in Slots, OwedAnswer(i), i # j PROVE conn'[slot[i].c].st # "dropped"
    <3>1. conn'[slot[i].c] = conn[slot[i].c]
      BY <1>1, <1>5, <2>2 DEF Touches
    <3>2. QED
      BY <1>1, <2>2, <3>1
  <2>3. QED
    BY <1>5, <2>1, <2>2
<1>6. ASSUME NEW j \in Slots, Accept(j)
      PROVE  /\ \A i \in Slots : slot[i].state = "busy" => slot'[i] = slot[i]
             /\ \A i \in Slots : OwedAnswer(i) => conn'[slot[i].c].st # "dropped"
  <2>1. Touches(j) /\ (slot[j].state = "free" \/ MayTakeOver(j))
    BY <1>6, Accepts
  <2>2. slot[j].state # "busy" /\ (slot[j].state = "free" \/ Quiet(slot[j]))
    BY <2>1 DEF MayTakeOver, Quiet, Sending
  <2>3. ~OwedAnswer(j)
    BY <1>1, <2>2
  <2>4. QED
    BY <1>5, <2>1, <2>2, <2>3
<1>7. ASSUME NEW j \in Slots, Pump(j)
      PROVE  /\ \A i \in Slots : slot[i].state = "busy" => slot'[i] = slot[i]
             /\ \A i \in Slots : OwedAnswer(i) => conn'[slot[i].c].st # "dropped"
  <2>1. UNCHANGED <<backlog, task>>
    BY <1>7 DEF Pump
  <2>2. CASE slot[j].state = "idle" /\ MayRead(j)
    <3>1. Touches(j) /\ Quiet(slot[j])
      BY <1>7, <2>1, <2>2, PumpedMoves DEF Pump, MayRead, Quiet, Sending
    <3>2. ~OwedAnswer(j)
      BY <1>1, <3>1
    <3>3. QED
      BY <1>5, <2>2, <3>1, <3>2
  <2>3. CASE ~(slot[j].state = "idle" /\ MayRead(j))
    <3>1. UNCHANGED <<slot, conn>>
      BY <1>7, <2>3 DEF Pump
    <3>2. QED
      BY <1>1, <3>1
  <2>4. QED
    BY <2>2, <2>3
<1>8. ASSUME NEW j \in Slots, Flush(j)
      PROVE  /\ \A i \in Slots : slot[i].state = "busy" => slot'[i] = slot[i]
             /\ \A i \in Slots : OwedAnswer(i) => conn'[slot[i].c].st # "dropped"
  <2>1. CASE slot[j].state = "idle" /\ Sending(j)
    <3> DEFINE c == slot[j].c
    <3>1. Flushed(j, slot[j], conn) /\ c \in Conns
      BY <1>8, <2>1 DEF Flush, SlotsOk
    <3>2. Touches(j)
      BY <3>1 DEF Flushed, Touches, ClosedSlots, ClosedConns
    <3>3. OwedAnswer(j) => conn'[c].st # "dropped"
      <4>1. SUFFICES ASSUME OwedAnswer(j) PROVE conn'[c].st = "open"
        OBVIOUS
      <4>2. conn[c].st = "open" /\ ~slot[j].stuck
        BY <1>1, <4>1
      <4>3. conn' = [conn EXCEPT ![c].answers = Append(@, slot[j].out)] \/ conn' = conn
        BY <3>1, <4>2 DEF Flushed
      <4> HIDE DEF c
      <4>4. QED
        BY <3>1, <4>2, <4>3 DEF ConnRecs
    <3>4. QED
      BY <1>5, <2>1, <3>2, <3>3
  <2>2. CASE ~(slot[j].state = "idle" /\ Sending(j))
    <3>1. UNCHANGED <<slot, conn>>
      BY <1>8, <2>2 DEF Flush
    <3>2. QED
      BY <1>1, <3>1
  <2>3. QED
    BY <2>1, <2>2
<1>9. QED
  BY <1>2, <1>3, <1>4, <1>6, <1>7, <1>8 DEF Poller

LEMMA SlotIsWorkersStep ==
    ASSUME TcpInv, TcpNext, NEW i \in Slots, WorkerHas(i)
    PROVE  \/ slot'[i] = [slot[i] EXCEPT !.stuck = slot'[i].stuck]
           \/ \E w \in Workers : task[w].slot = i /\ task[w].at \in {"process", "release"}
                                  /\ task'[w].at # task[w].at
<1> USE TcpTypes DEF TcpInv
<1>1. slot'[i] = slot[i] => slot'[i] = [slot[i] EXCEPT !.stuck = slot'[i].stuck]
  BY DEF SlotRecs
<1>2. CASE \E c \in Conns : Client(c)
  BY <1>1, <1>2 DEF Client, Connect, Send, Resume, Close
<1>3. CASE \E j \in Slots : Deadline(j)
  BY <1>1, <1>3, DeadlineStep DEF WorkerHas
<1>4. CASE Poller
  BY <1>1, <1>4, PollerSpares DEF WorkerHas
<1>5. ASSUME NEW w \in Workers, Worker(w) PROVE
        slot'[i] = slot[i] \/ (task[w].slot = i /\ task[w].at \in {"process", "release"} /\ task'[w].at # task[w].at)
  BY <1>5 DEF Worker, TakeJob, Arm, Release, Wake, TaskRecs
<1>6. QED
  BY <1>1, <1>2, <1>3, <1>4, <1>5 DEF TcpNext

LEMMA OwedIsKeptStep ==
    ASSUME TcpInv, TcpNext, NEW i \in Slots, OwedAnswer(i)
    PROVE  conn'[slot[i].c].st # "dropped"
<1> USE TcpTypes DEF TcpInv
<1>1. slot[i].c \in Conns /\ conn[slot[i].c].st = "open"
  BY DEF OwedAnswer, SlotsOk, FreeSlot
<1>2. CASE \E c \in Conns : Client(c)
  <2>1. PICK c \in Conns : Client(c)
    BY <1>2
  <2>2. \A d \in Conns : d # c => conn'[d] = conn[d]
    BY <2>1 DEF Client, Connect, Send, Resume, Close
  <2>3. conn[c].st = "open" => conn'[c].st # "dropped"
    <3>1. ASSUME conn[c].st = "open", NEW item \in {"head", "local", "remote", "bad"}, Send(c, item)
          PROVE  conn'[c].st = "open"
      BY <3>1 DEF Send, ConnRecs
    <3>2. (\E reads \in BOOLEAN : Connect(c, reads)) => conn[c].st = "off"
      BY DEF Connect
    <3>3. conn[c].st = "open" /\ (Resume(c) \/ Close(c)) => conn'[c].st \in {"open", "gone"}
      BY DEF Resume, Close, ConnRecs
    <3>4. QED
      BY <2>1, <3>1, <3>2, <3>3 DEF Client
  <2>4. QED
    BY <1>1, <2>2, <2>3
<1>3. CASE (\E j \in Slots : Deadline(j)) \/ (\E w \in Workers : Worker(w))
  <2>1. conn' = conn
    BY <1>3 DEF Deadline, FrameTime, AnswerTime, Worker, TakeJob, Arm, Release, Wake
  <2>2. QED
    BY <1>1, <2>1
<1>4. CASE Poller
  BY <1>4, PollerSpares
<1>5. QED
  BY <1>2, <1>3, <1>4 DEF TcpNext

\* From the queueing of a request to the release of its slot no one but the worker
\* that has the job changes the slot; and no connection with a client that is there,
\* takes its answers in time and is owed one is dropped, neither to make room for a
\* newcomer nor by the deadlines (a worker's slot is passed over by both).
THEOREM SlotsStayWithTheirOwners == TcpSpec => SlotsAreKept
<1>1. TcpInv /\ [TcpNext]_tcpVars =>
        [\A i \in Slots :
           WorkerHas(i) =>
              \/ slot'[i] = [slot[i] EXCEPT !.stuck = slot'[i].stuck]
              \/ \E w \in Workers : task[w].slot = i /\ task[w].at \in {"process", "release"}
                                     /\ task'[w].at # task[w].at]_tcpVars
  BY SlotIsWorkersStep
<1>2. TcpInv /\ [TcpNext]_tcpVars =>
        [\A i \in Slots : OwedAnswer(i) => conn'[slot[i].c].st # "dropped"]_tcpVars
  BY OwedIsKeptStep
<1>3. QED
  BY <1>1, <1>2, TcpInvAlways, PTL DEF TcpSpec, SlotsAreKept, SlotIsWorkers, OwedIsKept

-----------------------------------------------------------------------------
(* The interfaces and the start of the services.                           *)

USE NetworkAssumption DEF Tasks, Events, Places

Inside == {"ledUp", "web", "webStart", "modbus", "modbusStart", "mqtt"}

\* The mutex is held by the task that starts services, and only then; the tasks
\* are where their own code can take them.
MuxInv ==
    /\ \A t \in Tasks : at[t] \in Inside <=> mux = t
    /\ at["event"] # "told"
    /\ at["monitor"] \notin {"look", "ledDown", "stop", "stopping"}

IInv == TypeOK /\ MuxInv /\ OneStart

Links == [eth : BOOLEAN, sta : BOOLEAN, timer : BOOLEAN, broker : BOOLEAN, changes : 0 .. MaxChanges]
Leds == [up : BOOLEAN, level : 0 .. 2]

LEMMA InitOK == Init => IInv
<1> SUFFICES ASSUME Init PROVE IInv
  OBVIOUS
<1>1. TypeOK
  <2>1. link \in Links /\ led \in Leds BY DEF Init, Links, Leds
  <2>2. evq \in Seq(Events) /\ at \in [Tasks -> Places] BY DEF Init
  <2>3. gotIp \in BOOLEAN /\ first \in BOOLEAN /\ lost \in BOOLEAN
        /\ eth \in BOOLEAN /\ wifi \in BOOLEAN /\ mqtt \in BOOLEAN
    BY DEF Init
  <2>4. /\ mux \in Tasks \union {"nobody"}
        /\ web \in {"none", "up", "stopping"} /\ modbus \in Nat
    BY DEF Init
  <2> QED BY <2>1, <2>2, <2>3, <2>4 DEF TypeOK, Links, Leds
<1>2. MuxInv BY DEF Init, MuxInv, Inside
<1>3. OneStart BY DEF Init, OneStart
<1> QED BY <1>1, <1>2, <1>3 DEF IInv

\* A step of on_network_ready().
LEMMA ReadyOK ==
    ASSUME IInv, NEW t \in Tasks, Ready(t)
    PROVE  IInv'
<1> USE DEF Goes, env, station, flags, services
<1>1. CASE Lock(t)
  <2>1. TypeOK' BY <1>1 DEF IInv, TypeOK, Lock
  <2>2. MuxInv' BY <1>1 DEF IInv, TypeOK, MuxInv, Lock, MayLock, Inside
  <2>3. OneStart' BY <1>1 DEF IInv, TypeOK, OneStart, Lock
  <2> QED BY <2>1, <2>2, <2>3 DEF IInv
<1>2. CASE LedUp(t)
  <2>1. TypeOK' BY <1>2 DEF IInv, TypeOK, LedUp, Raised
  <2>2. MuxInv' BY <1>2 DEF IInv, TypeOK, MuxInv, LedUp, Inside
  <2>3. OneStart' BY <1>2 DEF IInv, TypeOK, OneStart, LedUp
  <2> QED BY <2>1, <2>2, <2>3 DEF IInv
<1>3. CASE WebLook(t)
  <2>1. TypeOK' BY <1>3 DEF IInv, TypeOK, WebLook
  <2>2. MuxInv' BY <1>3 DEF IInv, TypeOK, MuxInv, WebLook, Inside
  <2>3. OneStart' BY <1>3 DEF IInv, TypeOK, OneStart, WebLook
  <2> QED BY <2>1, <2>2, <2>3 DEF IInv
<1>4. CASE WebStart(t)
  <2>1. TypeOK' BY <1>4 DEF IInv, TypeOK, WebStart
  <2>2. MuxInv' BY <1>4 DEF IInv, TypeOK, MuxInv, WebStart, Inside
  <2>3. OneStart' BY <1>4 DEF IInv, TypeOK, OneStart, WebStart
  <2> QED BY <2>1, <2>2, <2>3 DEF IInv
<1>5. CASE ModbusLook(t)
  <2>1. TypeOK' BY <1>5 DEF IInv, TypeOK, ModbusLook
  <2>2. MuxInv' BY <1>5 DEF IInv, TypeOK, MuxInv, ModbusLook, Inside
  <2>3. OneStart' BY <1>5 DEF IInv, TypeOK, OneStart, ModbusLook
  <2> QED BY <2>1, <2>2, <2>3 DEF IInv
\* The one step that needs the mutex: nobody else is about to create the tasks.
<1>6. CASE ModbusStart(t)
  <2>1. modbus = 0 BY <1>6 DEF IInv, OneStart, ModbusStart
  <2>2. \A u \in Tasks : at[u] = "modbusStart" => u = t
    BY <1>6 DEF IInv, MuxInv, Inside, ModbusStart
  <2>3. TypeOK' BY <1>6 DEF IInv, TypeOK, ModbusStart
  <2>4. MuxInv' BY <1>6 DEF IInv, TypeOK, MuxInv, ModbusStart, Inside
  <2>5. OneStart' BY <1>6, <2>1, <2>2 DEF IInv, TypeOK, OneStart, ModbusStart
  <2> QED BY <2>3, <2>4, <2>5 DEF IInv
<1>7. CASE MqttStart(t)
  <2>1. TypeOK' BY <1>7 DEF IInv, TypeOK, MqttStart
  <2>2. MuxInv' BY <1>7 DEF IInv, TypeOK, MuxInv, MqttStart, Inside
  <2>3. OneStart' BY <1>7 DEF IInv, TypeOK, OneStart, MqttStart
  <2> QED BY <2>1, <2>2, <2>3 DEF IInv
<1> QED BY <1>1, <1>2, <1>3, <1>4, <1>5, <1>6, <1>7 DEF Ready

\* The event loop's own handlers.
LEMMA EventOK ==
    ASSUME IInv, EventTask
    PROVE  IInv'
<1> USE DEF Goes, Handles, env, station, flags, services
<1>1. CASE EthReady
  <2>1. TypeOK' BY <1>1 DEF IInv, TypeOK, EthReady
  <2>2. MuxInv' /\ OneStart' BY <1>1 DEF IInv, TypeOK, MuxInv, OneStart, EthReady, Inside
  <2> QED BY <2>1, <2>2 DEF IInv
<1>2. CASE StaEvent
  <2>1. gotIp' \in BOOLEAN BY <1>2 DEF StaEvent
  <2>2. TypeOK' BY <1>2, <2>1 DEF IInv, TypeOK, StaEvent
  <2>3. UNCHANGED <<at, mux, modbus>> BY <1>2 DEF StaEvent
  <2>4. MuxInv' /\ OneStart' BY <2>3 DEF IInv, MuxInv, OneStart, Inside
  <2> QED BY <2>2, <2>4 DEF IInv
<1>3. CASE IpLost
  <2>1. eth' \in BOOLEAN /\ wifi' \in BOOLEAN BY <1>3 DEF IInv, TypeOK, IpLost
  <2>2. TypeOK'
    <3>1. evq' \in Seq(Events)
      <4>1. evq # <<>> /\ evq' = Tail(evq) BY <1>3 DEF IpLost
      <4> QED BY <4>1 DEF IInv, TypeOK
    <3>2. at' \in [Tasks -> Places] BY <1>3 DEF IInv, TypeOK, IpLost
    <3>3. UNCHANGED <<link, gotIp, first, lost, mux, web, modbus, mqtt, led>> BY <1>3 DEF IpLost
    <3> QED BY <2>1, <3>1, <3>2, <3>3 DEF IInv, TypeOK
  <2>3. MuxInv' /\ OneStart' BY <1>3 DEF IInv, TypeOK, MuxInv, OneStart, IpLost, Inside
  <2> QED BY <2>2, <2>3 DEF IInv
<1>4. CASE LookForOther
  <2>1. TypeOK' BY <1>4 DEF IInv, TypeOK, LookForOther
  <2>2. MuxInv' /\ OneStart' BY <1>4 DEF IInv, TypeOK, MuxInv, OneStart, LookForOther, Inside
  <2> QED BY <2>1, <2>2 DEF IInv
<1>5. CASE LedDown
  <2>1. TypeOK' BY <1>5 DEF IInv, TypeOK, LedDown
  <2>2. MuxInv' /\ OneStart' BY <1>5 DEF IInv, TypeOK, MuxInv, OneStart, LedDown, Inside
  <2> QED BY <2>1, <2>2 DEF IInv
<1>6. CASE WebStop
  <2>1. TypeOK' BY <1>6 DEF IInv, TypeOK, WebStop
  <2>2. MuxInv' /\ OneStart' BY <1>6 DEF IInv, TypeOK, MuxInv, OneStart, WebStop, Inside
  <2> QED BY <2>1, <2>2 DEF IInv
<1>7. CASE WebStopped
  <2>1. TypeOK' BY <1>7 DEF IInv, TypeOK, WebStopped
  <2>2. MuxInv' /\ OneStart' BY <1>7 DEF IInv, TypeOK, MuxInv, OneStart, WebStopped, Inside
  <2> QED BY <2>1, <2>2 DEF IInv
<1>8. CASE Ready("event") BY <1>8, ReadyOK
<1> QED BY <1>1, <1>2, <1>3, <1>4, <1>5, <1>6, <1>7, <1>8 DEF EventTask

\* The monitor's.
LEMMA MonitorOK ==
    ASSUME IInv, Monitor
    PROVE  IInv'
<1> USE DEF Goes, env, station, flags, services
<1>1. CASE MonitorTells
  <2>1. TypeOK' BY <1>1 DEF IInv, TypeOK, MonitorTells
  <2>2. MuxInv' /\ OneStart' BY <1>1 DEF IInv, TypeOK, MuxInv, OneStart, MonitorTells, Inside
  <2> QED BY <2>1, <2>2 DEF IInv
<1>2. CASE MonitorTold
  <2>1. TypeOK'
    <3>1. at' \in [Tasks -> Places] /\ first' \in BOOLEAN BY <1>2 DEF IInv, TypeOK, MonitorTold
    <3>2. UNCHANGED <<link, evq, gotIp, lost, eth, wifi, mux, web, modbus, mqtt, led>>
      BY <1>2 DEF MonitorTold
    <3> QED BY <3>1, <3>2 DEF IInv, TypeOK
  <2>2. MuxInv' /\ OneStart' BY <1>2 DEF IInv, TypeOK, MuxInv, OneStart, MonitorTold, Inside
  <2> QED BY <2>1, <2>2 DEF IInv
<1>3. CASE MonitorSeesLoss
  <2>1. TypeOK' BY <1>3 DEF IInv, TypeOK, MonitorSeesLoss
  <2>2. UNCHANGED <<at, mux, modbus>> BY <1>3 DEF MonitorSeesLoss
  <2>3. MuxInv' /\ OneStart' BY <2>2 DEF IInv, MuxInv, OneStart, Inside
  <2> QED BY <2>1, <2>3 DEF IInv
<1>4. CASE Ready("monitor") BY <1>4, ReadyOK
<1> QED BY <1>1, <1>2, <1>3, <1>4 DEF Monitor

\* The links, the station's timer and the broker touch no task and no service.
Environment ==
    \/ EthJoins \/ EthLeaves \/ StaJoins \/ StaLeaves \/ StaAddressLost
    \/ MqttConnects \/ MqttDisconnects

LEMMA EnvironmentOK ==
    ASSUME IInv, Environment
    PROVE  IInv'
<1> USE DEF Change, env, station, flags, services
<1>1. CASE EthJoins
  <2>1. TypeOK'
    <3>1. link' \in Links
      <4>1. link \in Links /\ link.changes + 1 \in 0 .. MaxChanges BY <1>1 DEF IInv, TypeOK, EthJoins, Links
      <4> QED BY <1>1, <4>1 DEF EthJoins, Links
    <3>2. evq' \in Seq(Events) BY <1>1 DEF IInv, TypeOK, EthJoins
    <3>3. led' \in Leds BY <1>1 DEF IInv, TypeOK, EthJoins, Leds
    <3>4. UNCHANGED <<at, gotIp, first, lost, eth, wifi, mux, web, modbus, mqtt>> BY <1>1 DEF EthJoins
    <3> QED BY <3>1, <3>2, <3>3, <3>4 DEF IInv, TypeOK, Links, Leds
  <2>2. UNCHANGED <<at, mux, modbus>> BY <1>1 DEF EthJoins
  <2>3. MuxInv' /\ OneStart' BY <2>2 DEF IInv, MuxInv, OneStart, Inside
  <2> QED BY <2>1, <2>3 DEF IInv
<1>2. CASE EthLeaves
  <2>1. TypeOK'
    <3>1. link' \in Links
      <4>1. link \in Links /\ link.changes + 1 \in 0 .. MaxChanges BY <1>2 DEF IInv, TypeOK, EthLeaves, Links
      <4> QED BY <1>2, <4>1 DEF EthLeaves, Links
    <3>2. evq' \in Seq(Events) BY <1>2 DEF IInv, TypeOK, EthLeaves
    <3>3. led' \in Leds BY <1>2 DEF IInv, TypeOK, EthLeaves, Leds
    <3>4. UNCHANGED <<at, gotIp, first, lost, eth, wifi, mux, web, modbus, mqtt>> BY <1>2 DEF EthLeaves
    <3> QED BY <3>1, <3>2, <3>3, <3>4 DEF IInv, TypeOK, Links, Leds
  <2>2. UNCHANGED <<at, mux, modbus>> BY <1>2 DEF EthLeaves
  <2>3. MuxInv' /\ OneStart' BY <2>2 DEF IInv, MuxInv, OneStart, Inside
  <2> QED BY <2>1, <2>3 DEF IInv
<1>3. CASE StaJoins
  <2>1. TypeOK'
    <3>1. link' \in Links
      <4>1. link \in Links /\ link.changes + 1 \in 0 .. MaxChanges BY <1>3 DEF IInv, TypeOK, StaJoins, Links
      <4> QED BY <1>3, <4>1 DEF StaJoins, Links
    <3>2. evq' \in Seq(Events) BY <1>3 DEF IInv, TypeOK, StaJoins
    <3>3. led' \in Leds BY <1>3 DEF IInv, TypeOK, StaJoins, Leds
    <3>4. UNCHANGED <<at, gotIp, first, lost, eth, wifi, mux, web, modbus, mqtt>> BY <1>3 DEF StaJoins
    <3> QED BY <3>1, <3>2, <3>3, <3>4 DEF IInv, TypeOK, Links, Leds
  <2>2. UNCHANGED <<at, mux, modbus>> BY <1>3 DEF StaJoins
  <2>3. MuxInv' /\ OneStart' BY <2>2 DEF IInv, MuxInv, OneStart, Inside
  <2> QED BY <2>1, <2>3 DEF IInv
<1>4. CASE StaLeaves
  <2>1. TypeOK'
    <3>1. link' \in Links
      <4>1. link \in Links /\ link.changes + 1 \in 0 .. MaxChanges BY <1>4 DEF IInv, TypeOK, StaLeaves, Links
      <4> QED BY <1>4, <4>1 DEF StaLeaves, Links
    <3>2. evq' \in Seq(Events) BY <1>4 DEF IInv, TypeOK, StaLeaves
    <3>3. led' \in Leds BY <1>4 DEF IInv, TypeOK, StaLeaves, Leds
    <3>4. UNCHANGED <<at, gotIp, first, lost, eth, wifi, mux, web, modbus, mqtt>> BY <1>4 DEF StaLeaves
    <3> QED BY <3>1, <3>2, <3>3, <3>4 DEF IInv, TypeOK, Links, Leds
  <2>2. UNCHANGED <<at, mux, modbus>> BY <1>4 DEF StaLeaves
  <2>3. MuxInv' /\ OneStart' BY <2>2 DEF IInv, MuxInv, OneStart, Inside
  <2> QED BY <2>1, <2>3 DEF IInv
<1>5. CASE StaAddressLost
  <2>1. TypeOK'
    <3>1. link' \in Links BY <1>5 DEF IInv, TypeOK, StaAddressLost, Links
    <3>2. evq' \in Seq(Events) BY <1>5 DEF IInv, TypeOK, StaAddressLost
    <3>3. led' \in Leds BY <1>5 DEF IInv, TypeOK, StaAddressLost, Leds
    <3>4. UNCHANGED <<at, gotIp, first, lost, eth, wifi, mux, web, modbus, mqtt>> BY <1>5 DEF StaAddressLost
    <3> QED BY <3>1, <3>2, <3>3, <3>4 DEF IInv, TypeOK, Links, Leds
  <2>2. UNCHANGED <<at, mux, modbus>> BY <1>5 DEF StaAddressLost
  <2>3. MuxInv' /\ OneStart' BY <2>2 DEF IInv, MuxInv, OneStart, Inside
  <2> QED BY <2>1, <2>3 DEF IInv
<1>6. CASE MqttConnects
  <2>1. TypeOK'
    <3>1. link' \in Links
      <4>1. link \in Links /\ link.changes + 1 \in 0 .. MaxChanges BY <1>6 DEF IInv, TypeOK, MqttConnects, Links
      <4> QED BY <1>6, <4>1 DEF MqttConnects, Links
    <3>2. evq' \in Seq(Events) BY <1>6 DEF IInv, TypeOK, MqttConnects
    <3>3. led' \in Leds BY <1>6 DEF IInv, TypeOK, MqttConnects, Leds
    <3>4. UNCHANGED <<at, gotIp, first, lost, eth, wifi, mux, web, modbus, mqtt>> BY <1>6 DEF MqttConnects
    <3> QED BY <3>1, <3>2, <3>3, <3>4 DEF IInv, TypeOK, Links, Leds
  <2>2. UNCHANGED <<at, mux, modbus>> BY <1>6 DEF MqttConnects
  <2>3. MuxInv' /\ OneStart' BY <2>2 DEF IInv, MuxInv, OneStart, Inside
  <2> QED BY <2>1, <2>3 DEF IInv
<1>7. CASE MqttDisconnects
  <2>1. TypeOK'
    <3>1. link' \in Links BY <1>7 DEF IInv, TypeOK, MqttDisconnects, Links
    <3>2. evq' \in Seq(Events) BY <1>7 DEF IInv, TypeOK, MqttDisconnects
    <3>3. led' \in Leds BY <1>7 DEF IInv, TypeOK, MqttDisconnects, WithoutMqtt, Leds
    <3>4. UNCHANGED <<at, gotIp, first, lost, eth, wifi, mux, web, modbus, mqtt>> BY <1>7 DEF MqttDisconnects
    <3> QED BY <3>1, <3>2, <3>3, <3>4 DEF IInv, TypeOK, Links, Leds
  <2>2. UNCHANGED <<at, mux, modbus>> BY <1>7 DEF MqttDisconnects
  <2>3. MuxInv' /\ OneStart' BY <2>2 DEF IInv, MuxInv, OneStart, Inside
  <2> QED BY <2>1, <2>3 DEF IInv
<1> QED BY <1>1, <1>2, <1>3, <1>4, <1>5, <1>6, <1>7 DEF Environment

LEMMA StepOK == IInv /\ [Next]_vars => IInv'
<1> SUFFICES ASSUME IInv, [Next]_vars PROVE IInv'
  OBVIOUS
<1>1. CASE EventTask BY <1>1, EventOK
<1>2. CASE Monitor BY <1>2, MonitorOK
<1>3. CASE Environment BY <1>3, EnvironmentOK
<1>4. CASE UNCHANGED vars
  BY <1>4 DEF vars, IInv, TypeOK, MuxInv, OneStart
<1> QED BY <1>1, <1>2, <1>3, <1>4 DEF Next, Environment

LEMMA Invariant == Spec => []IInv
BY InitOK, StepOK, PTL DEF Spec

\* Every reachable state is well typed.
THEOREM TypeCorrect == Spec => []TypeOK
<1>1. IInv => TypeOK BY DEF IInv
<1> QED BY <1>1, Invariant, PTL

\* The Modbus TCP tasks are created at most once, however often and in whatever
\* order the interfaces come up: on_network_ready()'s mutex is what makes the
\* look and the start one step.
THEOREM StartsOnce == Spec => []OneStart
<1>1. IInv => OneStart BY DEF IInv
<1> QED BY <1>1, Invariant, PTL
=============================================================================
