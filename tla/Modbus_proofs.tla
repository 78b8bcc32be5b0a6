---------------------------- MODULE Modbus_proofs ----------------------------
(***************************************************************************)
(* Proofs about the two ends of Modbus that are not coils.                 *)
(* The poll table, for any tables, devices, cache size and bounds: a       *)
(* reading is the answer to its own row's request, and the sockets stay    *)
(* within their share, no device with two of them.                         *)
(* The header pads, for any pads, clients, requests, queue depth and       *)
(* driver failures: a pad does what is reported of it, a refused request   *)
(* has moved nothing, and a PWM write is seen whole or not at all.         *)
(***************************************************************************)
EXTENDS PollTable, ModbusPads, SequenceTheorems, WellFoundedInduction, TLAPS

-----------------------------------------------------------------------------
(* Sequences of connections.                                               *)

Single(cs) == \A j, k \in DOMAIN cs : cs[j].host = cs[k].host => j = k
Absent(cs, h) == \A k \in DOMAIN cs : cs[k].host # h

\* A part of a sequence of connections: nothing twice that was not twice before.
LEMMA PartOf ==
    ASSUME NEW cs \in Seq(Conn), NEW m \in 1 .. Len(cs) + 1, NEW n \in 0 .. Len(cs)
    PROVE  LET p == SubSeq(cs, m, n) IN
           /\ p \in Seq(Conn) /\ Len(p) = IF m <= n THEN n - m + 1 ELSE 0
           /\ \A i \in 1 .. Len(p) : p[i] = cs[m + i - 1] /\ m + i - 1 \in 1 .. Len(cs)
           /\ Single(cs) => Single(p)
           /\ \A h : Absent(cs, h) => Absent(p, h)
<1> DEFINE p == SubSeq(cs, m, n)
<1>1. Len(cs) \in Nat /\ DOMAIN cs = 1 .. Len(cs)
  BY LenProperties
<1>2. \A i \in m .. n : cs[i] \in Conn
  BY <1>1, ElementOfSeq
<1>3. m \in Int /\ n \in Int
  BY <1>1
<1>4. /\ p \in Seq(Conn) /\ Len(p) = IF m <= n THEN n - m + 1 ELSE 0
      /\ \A i \in 1 .. n - m + 1 : p[i] = cs[m + i - 1]
  BY <1>2, <1>3, SubSeqProperties
<1> HIDE DEF p
<1>5. DOMAIN p = 1 .. Len(p)
  BY <1>4, LenProperties
<1>6. \A i \in 1 .. Len(p) : p[i] = cs[m + i - 1] /\ m + i - 1 \in 1 .. Len(cs)
  <2> SUFFICES ASSUME NEW i \in 1 .. Len(p)
               PROVE  p[i] = cs[m + i - 1] /\ m + i - 1 \in 1 .. Len(cs)
    OBVIOUS
  <2>1. m <= n /\ i \in 1 .. n - m + 1
    BY <1>3, <1>4
  <2>2. QED
    BY <1>1, <1>3, <1>4, <2>1
<1>7. Single(cs) => Single(p)
  <2> SUFFICES ASSUME Single(cs), NEW j \in 1 .. Len(p), NEW k \in 1 .. Len(p), p[j].host = p[k].host
               PROVE  j = k
    BY <1>5 DEF Single
  <2> DEFINE u == m + j - 1
             v == m + k - 1
  <2>3. u \in DOMAIN cs /\ v \in DOMAIN cs /\ cs[u].host = cs[v].host
    BY <1>1, <1>6
  <2> HIDE DEF u, v
  <2>4. u = v
    BY <2>3 DEF Single
  <2>1. m + j - 1 = m + k - 1
    BY <2>4 DEF u, v
  <2>2. QED
    BY <2>1, <1>3
<1>8. \A h : Absent(cs, h) => Absent(p, h)
  BY <1>1, <1>5, <1>6 DEF Absent
<1>9. QED
  BY <1>4, <1>6, <1>7, <1>8 DEF p

\* The first one or the last one gone.
LEMMA OneLess ==
    ASSUME NEW cs \in Seq(Conn), cs # << >>
    PROVE  /\ Front(cs) \in Seq(Conn) /\ Len(Front(cs)) = Len(cs) - 1
           /\ Single(cs) => Single(Front(cs))
           /\ Tail(cs) \in Seq(Conn) /\ Len(Tail(cs)) = Len(cs) - 1
           /\ Single(cs) => Single(Tail(cs))
           /\ \A h : Absent(cs, h) => Absent(Tail(cs), h)
<1>1. Len(cs) \in Nat /\ Len(cs) >= 1
  <2>1. Len(cs) \in Nat
    BY LenProperties
  <2>2. Len(cs) # 0
    BY EmptySeq
  <2>3. QED
    BY <2>1, <2>2
<1>2. Front(cs) \in Seq(Conn) /\ Len(Front(cs)) = Len(cs) - 1 /\ (Single(cs) => Single(Front(cs)))
  <2>1. 1 \in 1 .. Len(cs) + 1 /\ Len(cs) - 1 \in 0 .. Len(cs)
    BY <1>1
  <2>2. /\ Front(cs) \in Seq(Conn)
        /\ Len(Front(cs)) = IF 1 <= Len(cs) - 1 THEN Len(cs) - 1 ELSE 0
        /\ Single(cs) => Single(Front(cs))
    BY <2>1, PartOf DEF Front
  <2>3. \A c \in Nat : c >= 1 => (IF 1 <= c - 1 THEN c - 1 ELSE 0) = c - 1
    OBVIOUS
  <2>4. QED
    BY <1>1, <2>2, <2>3, Zenon
<1>3. /\ Tail(cs) \in Seq(Conn) /\ Len(Tail(cs)) = Len(cs) - 1
      /\ \A i \in 1 .. Len(Tail(cs)) : Tail(cs)[i] = cs[i + 1]
  BY HeadTailProperties
<1>4. DOMAIN cs = 1 .. Len(cs) /\ DOMAIN Tail(cs) = 1 .. Len(Tail(cs))
  BY <1>3, LenProperties
<1>5. (Single(cs) => Single(Tail(cs))) /\ \A h : Absent(cs, h) => Absent(Tail(cs), h)
  BY <1>1, <1>3, <1>4 DEF Single, Absent
<1>6. QED
  BY <1>2, <1>3, <1>5

\* One more.
LEMMA OneMore ==
    ASSUME NEW cs \in Seq(Conn), NEW c \in Conn
    PROVE  /\ With(cs, c) \in Seq(Conn) /\ Len(With(cs, c)) = Len(cs) + 1
           /\ With(cs, c) # << >> /\ Last(With(cs, c)) = c
           /\ Single(cs) /\ Absent(cs, c.host) => Single(With(cs, c))
<1> DEFINE w == Append(cs, c)
<1>1. Len(cs) \in Nat /\ DOMAIN cs = 1 .. Len(cs)
  BY LenProperties
<1>2. /\ w \in Seq(Conn) /\ w # << >> /\ Len(w) = Len(cs) + 1
      /\ \A i \in 1 .. Len(cs) : w[i] = cs[i]
      /\ w[Len(cs) + 1] = c
  BY AppendProperties
<1> HIDE DEF w
<1>3. DOMAIN w = 1 .. Len(cs) + 1
  BY <1>2, LenProperties
<1>4. Single(cs) /\ Absent(cs, c.host) => Single(w)
  <2> SUFFICES ASSUME Single(cs), Absent(cs, c.host),
                      NEW j \in 1 .. Len(cs) + 1, NEW k \in 1 .. Len(cs) + 1, w[j].host = w[k].host
               PROVE  j = k
    BY <1>3 DEF Single
  <2>1. CASE j = Len(cs) + 1 /\ k = Len(cs) + 1
    BY <2>1
  <2>2. CASE j = Len(cs) + 1 /\ k \in 1 .. Len(cs)
    BY <1>1, <1>2, <2>2 DEF Absent
  <2>3. CASE j \in 1 .. Len(cs) /\ k = Len(cs) + 1
    BY <1>1, <1>2, <2>3 DEF Absent
  <2>4. CASE j \in 1 .. Len(cs) /\ k \in 1 .. Len(cs)
    BY <1>1, <1>2, <2>4 DEF Single
  <2>5. QED
    BY <1>1, <2>1, <2>2, <2>3, <2>4
<1>5. QED
  BY <1>2, <1>4 DEF w, With, Last

\* A connection moved to the end, as the one used last.
LEMMA UsedLast ==
    ASSUME NEW cs \in Seq(Conn), NEW k \in DOMAIN cs, Single(cs)
    PROVE  LET w == With(RemoveAt(cs, k), cs[k]) IN
           /\ w \in Seq(Conn) /\ Len(w) = Len(cs) /\ w # << >> /\ Last(w) = cs[k] /\ Single(w)
<1> DEFINE a == SubSeq(cs, 1, k - 1)
           b == SubSeq(cs, k + 1, Len(cs))
           r == a \o b
<1>1. Len(cs) \in Nat /\ DOMAIN cs = 1 .. Len(cs) /\ k \in 1 .. Len(cs) /\ cs[k] \in Conn
  BY LenProperties, ElementOfSeq
<1>2. 1 \in 1 .. Len(cs) + 1 /\ k - 1 \in 0 .. Len(cs) /\ k + 1 \in 1 .. Len(cs) + 1 /\ Len(cs) \in 0 .. Len(cs)
  BY <1>1
<1>3. /\ a \in Seq(Conn) /\ Len(a) = IF 1 <= k - 1 THEN k - 1 - 1 + 1 ELSE 0
      /\ \A i \in 1 .. Len(a) : a[i] = cs[1 + i - 1]
  BY <1>2, PartOf
<1>4. /\ b \in Seq(Conn) /\ Len(b) = IF k + 1 <= Len(cs) THEN Len(cs) - (k + 1) + 1 ELSE 0
      /\ \A i \in 1 .. Len(b) : b[i] = cs[k + 1 + i - 1]
  BY <1>2, PartOf
<1> HIDE DEF a, b
<1>5. Len(a) = k - 1 /\ Len(b) = Len(cs) - k
  BY <1>1, <1>3, <1>4
<1>6. /\ r \in Seq(Conn) /\ Len(r) = Len(a) + Len(b)
      /\ \A i \in 1 .. Len(a) + Len(b) : r[i] = IF i <= Len(a) THEN a[i] ELSE b[i - Len(a)]
  BY <1>3, <1>4, ConcatProperties
<1>7. DOMAIN r = 1 .. Len(r)
  BY <1>6, LenProperties
<1> HIDE DEF r
<1>8. Len(r) = Len(cs) - 1 /\ \A i \in 1 .. Len(r) : r[i] = cs[IF i < k THEN i ELSE i + 1]
  <2>1. Len(r) = Len(cs) - 1
    BY <1>1, <1>5, <1>6
  <2>2. ASSUME NEW i \in 1 .. Len(r), i < k PROVE r[i] = cs[i]
    BY <1>1, <1>3, <1>5, <1>6, <2>1, <2>2
  <2>3. ASSUME NEW i \in 1 .. Len(r), ~(i < k) PROVE r[i] = cs[i + 1]
    <3>1. i - (k - 1) \in 1 .. Len(b) /\ k + 1 + (i - (k - 1)) - 1 = i + 1
      BY <1>1, <1>5, <2>1, <2>3
    <3>2. r[i] = b[i - (k - 1)]
      BY <1>1, <1>5, <1>6, <2>1, <2>3
    <3>3. QED
      BY <3>1, <3>2, <1>4
  <2>4. QED
    BY <2>1, <2>2, <2>3
<1>9. Single(r)
  <2> SUFFICES ASSUME NEW i \in 1 .. Len(r), NEW j \in 1 .. Len(r), r[i].host = r[j].host
               PROVE  i = j
    BY <1>7 DEF Single
  <2> DEFINE u == IF i < k THEN i ELSE i + 1
             v == IF j < k THEN j ELSE j + 1
  <2>1. u \in DOMAIN cs /\ v \in DOMAIN cs
    BY <1>1, <1>8
  <2>2. r[i] = cs[u] /\ r[j] = cs[v]
    BY <1>8, Zenon
  <2> HIDE DEF u, v
  <2>3. u = v
    BY <2>1, <2>2, Zenon DEF Single
  <2>4. QED
    BY <1>1, <1>8, <2>3 DEF u, v
<1>10. Absent(r, cs[k].host)
  <2> SUFFICES ASSUME NEW i \in 1 .. Len(r), r[i].host = cs[k].host PROVE FALSE
    BY <1>7 DEF Absent
  <2> DEFINE u == IF i < k THEN i ELSE i + 1
  <2>1. u \in DOMAIN cs /\ u # k
    BY <1>1, <1>8
  <2>2. r[i] = cs[u]
    BY <1>8, Zenon
  <2> HIDE DEF u
  <2>3. u = k
    BY <2>1, <2>2, Zenon DEF Single
  <2>4. QED
    BY <2>1, <2>3
<1>11. RemoveAt(cs, k) = r
  BY DEF RemoveAt, r, a, b
<1>12. QED
  BY <1>1, <1>6, <1>8, <1>9, <1>10, <1>11, OneMore

\* Connections that differ in what is in them, not in whose they are.
LEMMA SameHosts ==
    ASSUME NEW cs \in Seq(Conn), NEW ds \in Seq(Conn), Len(ds) = Len(cs),
           \A k \in 1 .. Len(cs) : ds[k].host = cs[k].host
    PROVE  /\ Single(cs) => Single(ds)
           /\ \A h : Absent(cs, h) => Absent(ds, h)
           /\ cs # << >> => ds # << >> /\ Last(ds).host = Last(cs).host
<1>1. Len(cs) \in Nat /\ DOMAIN cs = 1 .. Len(cs) /\ DOMAIN ds = 1 .. Len(cs)
  BY LenProperties
<1>2. (Single(cs) => Single(ds)) /\ \A h : Absent(cs, h) => Absent(ds, h)
  BY <1>1 DEF Single, Absent
<1>3. ASSUME cs # << >> PROVE ds # << >> /\ Last(ds).host = Last(cs).host
  <2>1. Len(cs) # 0
    BY <1>3, EmptySeq
  <2>2. QED
    BY <1>1, <2>1, EmptySeq DEF Last
<1>4. QED
  BY <1>2, <1>3
-----------------------------------------------------------------------------
(* The inductive invariant, part by part.                                  *)

\* One caller at a time is past the mutex, and it creates a task where there is none.
StartsOk ==
    /\ saved \in Gens /\ saving \in BOOLEAN
    /\ caller \in [Callers -> {"idle", "saving", "called", "staging", "creating"}]
    /\ startMux \in Callers \cup {"free"}
    /\ \A c \in Callers : caller[c] \in {"staging", "creating"} => startMux = c
    /\ \A c \in Callers : caller[c] = "creating" => tasks = 0
    /\ starts \in 0..MaxStarts /\ tasks \in 0..1
    /\ staged \in [Rows -> Gens \cup {0}] /\ pending \in BOOLEAN

RowsOk ==
    /\ active \in [Rows -> Gens \cup {0}]
    /\ due \in [Rows -> BOOLEAN] /\ failing \in [Rows -> BOOLEAN]
    /\ value \in [Rows -> Gens \cup {0, Foreign}]

PollPcs == {"bus", "resolve", "pick", "dial", "send", "await"}
TaskStates ==
    [pc : {"top", "rows"} \cup PollPcs, row : Rows \cup {Len(Tables[1]) + 1},
     fresh : BOOLEAN, retry : BOOLEAN, calm : BOOLEAN]

\* In the middle of a poll the task is at a row of the table, and past the bus at one
\* that names a host.
TaskOk ==
    /\ task \in TaskStates
    /\ task.pc \in PollPcs => task.row \in Rows
    /\ task.pc \in PollPcs \ {"bus"} => Host \in Hosts

WorldOk ==
    /\ dns \in [Hosts -> [addr : Addrs \cup {NoAddr}, ok : BOOLEAN, due : BOOLEAN]]
    /\ at \in [Hosts -> Addrs] /\ up \in [Devices -> BOOLEAN]
    /\ dnsUp \in BOOLEAN /\ changes \in 0..MaxChanges

\* A dial is for a host without a connection and has room; the connection in use is
\* the row's own.
ConnsOk ==
    /\ conns \in Seq(Conn) /\ Single(conns)
    /\ Len(conns) + (IF task.pc = "dial" THEN 1 ELSE 0) <= ConnCache
    /\ task.pc = "dial" => Absent(conns, Host)
    /\ task.pc \in {"send", "await"} => conns # << >> /\ Mine.host = Host

PollInv == StartsOk /\ RowsOk /\ TaskOk /\ WorldOk /\ ConnsOk /\ OwnAnswer

LEMMA RowFacts ==
    /\ Len(Tables[1]) \in Nat /\ Rows = 1..Len(Tables[1])
    /\ Len(Tables) \in Nat /\ Len(Tables) >= 1
    /\ \A i \in Rows : i + 1 \in Rows \cup {Len(Tables[1]) + 1}
    /\ 1 \in Rows \cup {Len(Tables[1]) + 1}
    /\ \A g \in Gens : \A i \in Rows : Tables[g][i] \in Hosts \cup {Segment, Unused}
<1> DEFINE D == Hosts \cup {Segment, Unused}
<1>1. Tables \in Seq(Seq(D)) /\ Len(Tables) \in Nat /\ Len(Tables) >= 1
  <2>1. Tables \in Seq(Seq(D)) /\ Tables # << >>
    BY TableAssumption
  <2>2. Len(Tables) \in Nat
    BY <2>1, LenProperties
  <2>3. Len(Tables) # 0
    BY <2>1, EmptySeq
  <2>4. QED
    BY <2>1, <2>2, <2>3
<1>2. \A g \in 1..Len(Tables) : Tables[g] \in Seq(D)
  BY <1>1, ElementOfSeq
<1>3. Len(Tables[1]) \in Nat
  <2>1. 1 \in 1..Len(Tables)
    BY <1>1
  <2>2. QED
    BY <1>2, <2>1, LenProperties
<1>4. ASSUME NEW g \in Gens, NEW i \in Rows PROVE Tables[g][i] \in D
  <2>1. i \in 1..Len(Tables[g]) /\ Tables[g] \in Seq(D)
    BY <1>2, TableAssumption DEF Gens
  <2>2. QED
    BY <2>1, ElementOfSeq
<1>5. QED
  BY <1>1, <1>3, <1>4, TableAssumption

\* What the task may be at next.
LEMMA AtRowOk ==
    ASSUME NEW r \in Rows \cup {Len(Tables[1]) + 1}
    PROVE  AtRow(r) \in TaskStates /\ AtRow(r).pc = "rows" /\ AtRow(r).row = r
BY DEF AtRow, TaskStates

LEMMA InitInv == Init => PollInv
<1> SUFFICES ASSUME Init PROVE PollInv
  OBVIOUS
<1> USE RowFacts
<1>1. StartsOk
  <2>1. saved \in Gens /\ starts \in 0..MaxStarts /\ tasks \in 0..1
    BY BoundAssumption DEF Init, Gens
  <2>2. /\ caller \in [Callers -> {"idle", "saving", "called", "staging", "creating"}]
        /\ \A c \in Callers : caller[c] = "idle"
    BY DEF Init
  <2>3. staged \in [Rows -> Gens \cup {0}]
    BY DEF Init
  <2>4. QED
    BY <2>1, <2>2, <2>3 DEF Init, StartsOk
<1>2. RowsOk /\ OwnAnswer
  BY DEF Init, RowsOk, OwnAnswer
<1>3. TaskOk
  <2>1. task = [AtRow(1) EXCEPT !.pc = "top"] /\ 1 \in Rows \cup {Len(Tables[1]) + 1}
    BY DEF Init
  <2>2. task \in TaskStates /\ task.pc = "top"
    BY <2>1 DEF AtRow, TaskStates
  <2>3. QED
    BY <2>2 DEF TaskOk, PollPcs
<1>4. WorldOk
  <2>1. (CHOOSE a \in Addrs : TRUE) \in Addrs
    BY AddrAssumption, Zenon
  <2>2. at \in [Hosts -> Addrs] /\ changes \in 0..MaxChanges
    BY <2>1, BoundAssumption DEF Init
  <2>3. dns \in [Hosts -> [addr : Addrs \cup {NoAddr}, ok : BOOLEAN, due : BOOLEAN]]
    BY DEF Init, NoName
  <2>4. QED
    BY <2>2, <2>3 DEF Init, WorldOk, Devices
<1>5. ConnsOk
  <2>1. conns = << >> /\ conns \in Seq(Conn) /\ Len(conns) = 0 /\ DOMAIN conns = {}
    <3>1. conns = << >> /\ conns \in Seq(Conn) /\ Len(conns) = 0
      BY EmptySeq DEF Init
    <3>2. DOMAIN conns = 1 .. 0
      BY <3>1, LenProperties
    <3>3. QED
      BY <3>1, <3>2
  <2>2. task.pc = "top"
    BY DEF Init, AtRow
  <2>3. QED
    BY <2>1, <2>2, CacheAssumption DEF ConnsOk, Single
<1>6. QED
  BY <1>1, <1>2, <1>3, <1>4, <1>5 DEF PollInv

-----------------------------------------------------------------------------
(* Starting                                                                 *)

LEMMA StartsStep == PollInv /\ [Next]_vars => StartsOk'
<1> SUFFICES ASSUME PollInv, [Next]_vars PROVE StartsOk'
  OBVIOUS
<1> USE RowFacts DEF PollInv, configVars, startVars, stageVars
<1>1. CASE Save
  <2>1. saved' \in Gens
    BY <1>1 DEF Save, StartsOk, Gens
  <2>2. QED
    BY <1>1, <2>1 DEF Save, StartsOk, Callers
<1>2. CASE Saved
  BY <1>2 DEF Saved, StartsOk, Callers
<1>3. CASE NetStarts
  <2>1. starts' \in 0..MaxStarts
    BY <1>3, BoundAssumption DEF NetStarts, StartsOk
  <2>2. QED
    BY <1>3, <2>1 DEF NetStarts, StartsOk, Callers
<1>4. ASSUME NEW c \in Callers, LockStart(c) PROVE StartsOk'
  BY <1>4 DEF LockStart, NothingToDo, MayLock, StartsOk, Callers
<1>5. ASSUME NEW c \in Callers, StageConfig(c) PROVE StartsOk'
  <2>1. staged' \in [Rows -> Gens \cup {0}]
    BY <1>5 DEF StageConfig, SeenTables, StartsOk, Gens
  <2>2. QED
    BY <1>5, <2>1 DEF StageConfig, StartsOk, Callers
<1>6. ASSUME NEW c \in Callers, CreateTask(c) PROVE StartsOk'
  <2>1. tasks' \in 0..1
    BY <1>6 DEF CreateTask, StartsOk
  <2>2. \A d \in Callers : caller'[d] \notin {"staging", "creating"}
    BY <1>6 DEF CreateTask, StartsOk, Callers
  <2>3. QED
    BY <1>6, <2>1, <2>2 DEF CreateTask, StartsOk, Callers
<1>7. CASE Apply
  BY <1>7 DEF Apply, TakeTable, StartsOk
<1>8. CASE UNCHANGED <<configVars, startVars, stageVars>>
  BY <1>8 DEF StartsOk
<1>9. CASE MasterTask
  BY <1>7, <1>8, <1>9 DEF MasterTask, NextRow, ReapIdle, Polling, Resolve, Pick, Dial, Send,
     HungUp, TimedOut, IoFails, Receive, PollBus
<1>10. CASE Answers \/ World
  BY <1>8, <1>10 DEF Answers, World, Misanswers, Slow, IoFails, IdleClose, BusyClose, PeerCloses,
     BusBusy, DnsFails, DnsReturns, Hang, Restart
<1>11. CASE (\E i \in Rows : RowDue(i)) \/ \E h \in Hosts : NameDue(h)
  BY <1>8, <1>11 DEF RowDue, NameDue
<1>12. CASE UNCHANGED vars
  BY <1>8, <1>12 DEF vars
<1>13. QED
  BY <1>1, <1>2, <1>3, <1>4, <1>5, <1>6, <1>9, <1>10, <1>11, <1>12 DEF Next, Starting
-----------------------------------------------------------------------------
(* The rows and what they were read as                                     *)

CommitsOwn == value' = value \/ value' = [value EXCEPT ![task.row] = active[task.row]]

LEMMA RowsStep == PollInv /\ [Next]_vars => RowsOk' /\ OwnAnswer'
<1> SUFFICES ASSUME PollInv, [Next]_vars PROVE RowsOk' /\ OwnAnswer'
  OBVIOUS
<1> USE RowFacts DEF PollInv, rowVars
\* A poll that ends with the value asked for, or without one.
<1>1. ASSUME active' = active, CommitsOwn,
             failing' = failing \/ \E b \in BOOLEAN : failing' = [failing EXCEPT ![task.row] = b],
             due' = due \/ \E b \in BOOLEAN : \E i \in Rows \cup {task.row} : due' = [due EXCEPT ![i] = b]
      PROVE  RowsOk' /\ OwnAnswer'
  <2>1. OwnAnswer'
    BY <1>1 DEF CommitsOwn, OwnAnswer, RowsOk
  <2>2. value' \in [Rows -> Gens \cup {0, Foreign}]
    BY <1>1 DEF CommitsOwn, RowsOk
  <2>3. failing' \in [Rows -> BOOLEAN]
    BY <1>1 DEF RowsOk
  <2>4. due' \in [Rows -> BOOLEAN]
    BY <1>1 DEF RowsOk
  <2>5. QED
    BY <1>1, <2>1, <2>2, <2>3, <2>4 DEF RowsOk
<1>2. CASE UNCHANGED rowVars
  BY <1>1, <1>2 DEF CommitsOwn
<1>3. ASSUME Fails, active' = active PROVE RowsOk' /\ OwnAnswer'
  BY <1>1, <1>3 DEF Fails, Commit, CommitsOwn, RowsOk
<1>4. ASSUME Reads, active' = active PROVE RowsOk' /\ OwnAnswer'
  BY <1>1, <1>4 DEF Reads, Commit, CommitsOwn
<1>5. CASE Apply
  <2>1. CASE pending
    <3>1. active' \in [Rows -> Gens \cup {0}] /\ value' = [i \in Rows |-> 0] /\ failing' = [i \in Rows |-> FALSE]
      BY <1>5, <2>1 DEF Apply, TakeTable, StartsOk
    <3>2. due' \in [Rows -> BOOLEAN]
      BY <1>5, <2>1 DEF Apply, TakeTable
    <3>3. QED
      BY <3>1, <3>2 DEF RowsOk, OwnAnswer
  <2>2. CASE ~pending
    BY <1>2, <1>5, <2>2 DEF Apply
  <2>3. QED
    BY <2>1, <2>2
<1>6. CASE NextRow \/ ReapIdle \/ Pick \/ Send
  BY <1>2, <1>6 DEF NextRow, ReapIdle, Pick, Send
<1>7. CASE Resolve \/ Dial
  BY <1>2, <1>3, <1>7 DEF Resolve, Dial
<1>8. ASSUME IoFails PROVE RowsOk' /\ OwnAnswer'
  BY <1>2, <1>3, <1>8 DEF IoFails, OnIoFail
<1>9. CASE HungUp \/ TimedOut \/ Slow
  BY <1>8, <1>9 DEF HungUp, TimedOut, Slow
<1>10. CASE PollBus \/ BusBusy
  BY <1>3, <1>4, <1>10 DEF PollBus, BusBusy
\* A frame that answers something else is not a value.
<1>11. CASE Receive
  <2>1. CASE Fails
    BY <1>3, <1>11, <2>1 DEF Receive
  <2>2. CASE ~Fails
    <3>1. Head(Mine.inbox) = "value" /\ Commit(TRUE, active[task.row]) /\ active' = active
      BY <1>11, <2>2 DEF Receive, Matches
    <3>2. QED
      BY <1>4, <3>1 DEF Reads
  <2>3. QED
    BY <2>1, <2>2
<1>12. CASE Save \/ NetStarts \/ Starting
  BY <1>2, <1>12 DEF Save, NetStarts, Starting, Saved, LockStart, StageConfig, CreateTask
<1>13. CASE Answers \/ (World /\ ~Slow /\ ~BusBusy)
  BY <1>2, <1>13 DEF Answers, World, Misanswers, IdleClose, BusyClose, PeerCloses,
     DnsFails, DnsReturns, Hang, Restart
<1>14. ASSUME NEW i \in Rows, RowDue(i) PROVE RowsOk' /\ OwnAnswer'
  BY <1>1, <1>14 DEF RowDue, CommitsOwn
<1>15. ASSUME NEW h \in Hosts, NameDue(h) PROVE RowsOk' /\ OwnAnswer'
  BY <1>2, <1>15 DEF NameDue
<1>16. CASE UNCHANGED vars
  BY <1>2, <1>16 DEF vars
<1>17. CASE World
  BY <1>9, <1>10, <1>13, <1>17
<1>18. QED
  BY <1>5, <1>6, <1>7, <1>9, <1>10, <1>11, <1>12, <1>13, <1>14, <1>15, <1>16, <1>17
     DEF Next, MasterTask, Polling
-----------------------------------------------------------------------------
(* The task                                                                *)

LEMMA PollTaskStep == PollInv /\ [Next]_vars => TaskOk'
<1> SUFFICES ASSUME PollInv, [Next]_vars PROVE TaskOk'
  OBVIOUS
<1> USE RowFacts DEF PollInv
<1>1. ASSUME NEW r \in Rows \cup {Len(Tables[1]) + 1}, task' = AtRow(r) PROVE TaskOk'
  BY <1>1, AtRowOk DEF TaskOk, PollPcs
<1>2. ASSUME task.pc \in PollPcs, Commit(TRUE, active[task.row]) \/ Fails PROVE TaskOk'
  BY <1>1, <1>2 DEF Commit, Fails, TaskOk
\* The task goes on with its row.
<1>3. ASSUME active' = active, task.pc \in PollPcs \ {"bus"},
             task' \in TaskStates, task'.pc \in PollPcs \ {"bus"}, task'.row = task.row
      PROVE  TaskOk'
  BY <1>3 DEF TaskOk, Host, Device
<1>4. ASSUME active' = active, task' \in TaskStates, task'.pc = task.pc, task'.row = task.row
      PROVE  TaskOk'
  BY <1>4 DEF TaskOk, Host, Device
<1>5. CASE UNCHANGED <<task, active>>
  BY <1>4, <1>5 DEF TaskOk
<1>6. ASSUME Uncalm, active' = active PROVE TaskOk'
  <2>1. task' \in TaskStates /\ task'.pc = task.pc /\ task'.row = task.row
    BY <1>6 DEF Uncalm, TaskOk, TaskStates
  <2>2. QED
    BY <1>4, <1>6, <2>1
<1>7. CASE Apply
  BY <1>1, <1>7 DEF Apply
<1>8. CASE NextRow
  <2>1. CASE Polls(task.row)
    <3> DEFINE calm == Sound(Device(task.row))
    <3>1. active[task.row] \in Gens /\ Device(task.row) \in Hosts \cup {Segment}
      BY <1>8, <2>1 DEF NextRow, Polls, EntryActive, Device, RowsOk, TaskOk
    <3>2. calm \in BOOLEAN
      BY DEF Sound
    <3> HIDE DEF calm
    <3>3. /\ task' \in TaskStates /\ task'.row = task.row /\ task.row \in Rows
          /\ task'.pc = IF Device(task.row) = Segment THEN "bus" ELSE "resolve"
      BY <1>8, <2>1, <3>2 DEF NextRow, TaskOk, TaskStates, PollPcs, calm
    <3>4. active' = active
      BY <1>8 DEF NextRow, rowVars
    <3>5. QED
      BY <3>1, <3>3, <3>4 DEF TaskOk, Host, Device, PollPcs
  <2>2. CASE ~Polls(task.row)
    BY <1>1, <1>8, <2>2 DEF NextRow
  <2>3. QED
    BY <2>1, <2>2
<1>9. CASE ReapIdle
  <2>1. task' \in TaskStates /\ task'.pc = "top"
    BY <1>9 DEF ReapIdle, AtRow, TaskStates
  <2>2. QED
    BY <2>1 DEF TaskOk, PollPcs
<1>10. CASE Resolve \/ Pick \/ Dial \/ Send
  <2>1. task.pc \in PollPcs \ {"bus"} /\ active' = active
    BY <1>10 DEF Resolve, Pick, Dial, Send, rowVars, PollPcs
  <2>2. CASE Fails
    BY <1>2, <2>1, <2>2
  <2>3. CASE ~Fails
    <3>1. \/ \E pc \in PollPcs \ {"bus"} : task' = [task EXCEPT !.pc = pc]
          \/ \E b \in BOOLEAN : task' = [task EXCEPT !.pc = "send", !.fresh = b]
      BY <1>10, <2>3 DEF Resolve, Pick, Dial, Send, PollPcs
    <3>2. task' \in TaskStates /\ task'.pc \in PollPcs \ {"bus"} /\ task'.row = task.row
      BY <3>1 DEF TaskOk, TaskStates, PollPcs
    <3>3. QED
      BY <1>3, <2>1, <3>2
  <2>4. QED
    BY <2>2, <2>3
<1>11. ASSUME task.pc = "await", IoFails PROVE TaskOk'
  <2>1. task.pc \in PollPcs \ {"bus"} /\ active' = active
    BY <1>11 DEF IoFails, PollPcs
  <2>2. CASE Fails
    BY <1>2, <2>1, <2>2
  <2>3. CASE ~Fails
    <3>1. task' = [task EXCEPT !.pc = "resolve", !.retry = TRUE]
      BY <1>11, <2>3 DEF IoFails, OnIoFail
    <3>2. task' \in TaskStates /\ task'.pc = "resolve" /\ task'.row = task.row
      BY <3>1 DEF TaskOk, TaskStates, PollPcs
    <3>3. QED
      BY <1>3, <2>1, <3>2 DEF PollPcs
  <2>4. QED
    BY <2>2, <2>3
<1>12. CASE HungUp \/ TimedOut \/ Slow
  BY <1>11, <1>12 DEF HungUp, TimedOut, Slow, Hears
<1>13. CASE Receive
  BY <1>2, <1>13 DEF Receive, Matches, PollPcs
<1>14. CASE PollBus \/ BusBusy
  BY <1>2, <1>14 DEF PollBus, BusBusy, Reads, PollPcs
<1>15. CASE Save \/ NetStarts \/ Starting
  BY <1>5, <1>15 DEF Save, NetStarts, Starting, Saved, LockStart, StageConfig, CreateTask, rowVars
<1>16. CASE Answers \/ IdleClose
  BY <1>5, <1>16 DEF Answers, IdleClose, PeerCloses, rowVars
<1>17. CASE Misanswers \/ BusyClose \/ DnsFails \/ DnsReturns \/ \E d \in Devices : Hang(d) \/ Restart(d)
  BY <1>6, <1>17 DEF Misanswers, BusyClose, PeerCloses, DnsFails, DnsReturns, Hang, Restart, rowVars
<1>18. CASE (\E i \in Rows : RowDue(i)) \/ \E h \in Hosts : NameDue(h)
  BY <1>5, <1>18 DEF RowDue, NameDue, rowVars
<1>19. CASE UNCHANGED vars
  BY <1>5, <1>19 DEF vars, rowVars
<1>20. QED
  BY <1>7, <1>8, <1>9, <1>10, <1>12, <1>13, <1>14, <1>15, <1>16, <1>17, <1>18, <1>19
     DEF Next, MasterTask, Polling, World

-----------------------------------------------------------------------------
(* The surroundings                                                        *)

LEMMA WorldStep == PollInv /\ [Next]_vars => WorldOk'
<1> SUFFICES ASSUME PollInv, [Next]_vars PROVE WorldOk'
  OBVIOUS
<1> USE DEF PollInv, worldVars
<1>1. CASE UNCHANGED <<dns, worldVars, changes>>
  BY <1>1 DEF WorldOk
<1>2. ASSUME Change PROVE changes' \in 0..MaxChanges
  BY <1>2, BoundAssumption DEF Change, WorldOk
<1>3. CASE Apply
  <2>1. NoName \in [addr : Addrs \cup {NoAddr}, ok : BOOLEAN, due : BOOLEAN]
    BY DEF NoName
  <2>2. dns' = dns \/ dns' = [h \in Hosts |-> NoName]
    BY <1>3 DEF Apply, TakeTable
  <2>3. dns' \in [Hosts -> [addr : Addrs \cup {NoAddr}, ok : BOOLEAN, due : BOOLEAN]]
    BY <2>1, <2>2 DEF WorldOk
  <2>4. QED
    BY <1>3, <2>3 DEF Apply, WorldOk
<1>4. CASE Resolve
  <2>1. Host \in Hosts
    BY <1>4 DEF Resolve, TaskOk, PollPcs
  <2>2. LookUp(dns[Host]) \in [addr : Addrs \cup {NoAddr}, ok : BOOLEAN, due : BOOLEAN]
    BY <2>1 DEF LookUp, WorldOk
  <2>3. QED
    BY <1>4, <2>1, <2>2 DEF Resolve, WorldOk
<1>5. CASE Dial
  <2>1. Host \in Hosts
    BY <1>5 DEF Dial, TaskOk, PollPcs
  <2>2. Recheck(dns[Host]) \in [addr : Addrs \cup {NoAddr}, ok : BOOLEAN, due : BOOLEAN]
    BY <2>1 DEF Recheck, WorldOk
  <2>3. QED
    BY <1>5, <2>1, <2>2 DEF Dial, WorldOk
<1>6. CASE NextRow \/ ReapIdle \/ Pick \/ Send \/ HungUp \/ TimedOut \/ Receive \/ PollBus \/ Answers
  BY <1>1, <1>6 DEF NextRow, ReapIdle, Pick, Send, HungUp, TimedOut, IoFails, Receive, PollBus, Answers
<1>7. CASE Misanswers \/ Slow \/ BusyClose
  BY <1>2, <1>7 DEF Misanswers, Slow, IoFails, BusyClose, PeerCloses, WorldOk
<1>8. CASE BusBusy
  <2>1. changes' \in 0..MaxChanges
    BY <1>2, <1>8 DEF BusBusy, Change
  <2>2. QED
    BY <1>8, <2>1 DEF BusBusy, WorldOk
<1>9. CASE IdleClose
  BY <1>1, <1>9 DEF IdleClose, PeerCloses
<1>10. CASE DnsFails \/ DnsReturns
  BY <1>2, <1>10 DEF DnsFails, DnsReturns, WorldOk
<1>11. ASSUME NEW d \in Devices, Hang(d) PROVE WorldOk'
  <2>1. changes' \in 0..MaxChanges
    BY <1>2, <1>11 DEF Hang
  <2>2. QED
    BY <1>11, <2>1 DEF Hang, WorldOk
<1>12. ASSUME NEW d \in Devices, Restart(d) PROVE WorldOk'
  <2>1. at' \in [Hosts -> Addrs]
    BY <1>12 DEF Restart, WorldOk
  <2>2. QED
    BY <1>12, <2>1 DEF Restart, WorldOk
<1>13. CASE Save \/ NetStarts \/ Starting
  BY <1>1, <1>13 DEF Save, NetStarts, Starting, Saved, LockStart, StageConfig, CreateTask
<1>14. ASSUME NEW i \in Rows, RowDue(i) PROVE WorldOk'
  BY <1>1, <1>14 DEF RowDue
<1>15. ASSUME NEW h \in Hosts, NameDue(h) PROVE WorldOk'
  BY <1>15 DEF NameDue, WorldOk
<1>16. CASE UNCHANGED vars
  BY <1>1, <1>16 DEF vars
<1>17. QED
  BY <1>3, <1>4, <1>5, <1>6, <1>7, <1>8, <1>9, <1>10, <1>11, <1>12, <1>13, <1>14, <1>15, <1>16
     DEF Next, MasterTask, Polling, World
-----------------------------------------------------------------------------
(* The connections                                                         *)

\* The task is not between choosing a connection and being done with it.
Apart == task'.pc \notin {"dial", "send", "await"}

LEMMA ConnsStep == PollInv /\ [Next]_vars => ConnsOk'
<1> SUFFICES ASSUME PollInv, [Next]_vars PROVE ConnsOk'
  OBVIOUS
<1> USE RowFacts, CacheAssumption DEF PollInv, rowVars
<1>1. /\ conns \in Seq(Conn) /\ Single(conns) /\ Len(conns) \in Nat /\ Len(conns) <= ConnCache
      /\ DOMAIN conns = 1 .. Len(conns)
  BY LenProperties DEF ConnsOk
\* Kept, or fewer, while no connection is in use.
<1>2. ASSUME Apart, conns' \in Seq(Conn), Single(conns'), Len(conns') <= Len(conns) PROVE ConnsOk'
  <2>1. Len(conns') \in Nat
    BY <1>2, LenProperties
  <2>2. QED
    BY <1>1, <1>2, <2>1 DEF ConnsOk, Apart
<1>3. ASSUME Apart, conns' = conns PROVE ConnsOk'
  BY <1>1, <1>2, <1>3
<1>4. ASSUME Apart, conns # << >>, conns' = Front(conns) PROVE ConnsOk'
  BY <1>1, <1>2, <1>4, OneLess
\* The same connections, with others things in them, while the task stays at its row.
<1>5. ASSUME conns' \in Seq(Conn), Len(conns') = Len(conns),
             \A k \in 1 .. Len(conns) : conns'[k].host = conns[k].host,
             task'.pc = task.pc \/ Apart \/ (task.pc = "send" /\ task'.pc = "await"),
             ~Apart => active' = active /\ task'.row = task.row
      PROVE  ConnsOk'
  <2>1. /\ Single(conns') /\ \A h : Absent(conns, h) => Absent(conns', h)
        /\ conns # << >> => conns' # << >> /\ Last(conns').host = Last(conns).host
    BY <1>1, <1>5, SameHosts
  <2>2. CASE Apart
    BY <1>1, <1>2, <1>5, <2>1, <2>2
  <2>3. CASE ~Apart
    <3>1. Host' = Host
      BY <1>5, <2>3 DEF Host, Device
    <3>2. QED
      BY <1>1, <1>5, <2>1, <2>3, <3>1 DEF ConnsOk, Apart, Mine
  <2>4. QED
    BY <2>2, <2>3
<1>6. CASE UNCHANGED <<conns, active, task>>
  BY <1>1, <1>5, <1>6
\* The connection in use takes something in, or gives it up.
<1>7. ASSUME NEW ms \in Seq({"value", "refusal", "garbled", "old"}), conns # << >>,
             conns' = [conns EXCEPT ![Len(conns)].inbox = ms]
      PROVE  /\ conns' \in Seq(Conn) /\ Len(conns') = Len(conns)
             /\ \A k \in 1 .. Len(conns) : conns'[k].host = conns[k].host
  <2>1. Len(conns) \in 1 .. Len(conns)
    <3>1. Len(conns) # 0
      BY <1>1, <1>7, EmptySeq
    <3>2. QED
      BY <1>1, <3>1
  <2>2. conns[Len(conns)] \in Conn
    BY <1>1, <2>1, ElementOfSeq
  <2> DEFINE e == [conns[Len(conns)] EXCEPT !.inbox = ms]
  <2>3. e \in Conn /\ e.host = conns[Len(conns)].host
    BY <2>2 DEF Conn
  <2>4. conns' = [conns EXCEPT ![Len(conns)] = e]
    BY <1>7
  <2> HIDE DEF e
  <2>5. QED
    BY <1>1, <2>1, <2>3, <2>4, ExceptSeq
<1>8. conns # << >> => Mine \in Conn /\ Mine.inbox \in Seq({"value", "refusal", "garbled", "old"})
  <2> SUFFICES ASSUME conns # << >>
               PROVE  Mine \in Conn /\ Mine.inbox \in Seq({"value", "refusal", "garbled", "old"})
    OBVIOUS
  <2>1. Len(conns) # 0
    BY <1>1, EmptySeq
  <2>2. Len(conns) \in 1 .. Len(conns)
    BY <1>1, <2>1
  <2>3. Mine \in Conn
    BY <1>1, <2>2, ElementOfSeq DEF Mine, Last
  <2>4. QED
    BY <2>3 DEF Conn
<1>9. task.pc \in {"send", "await"} => conns # << >> /\ Mine.host = Host
  BY DEF ConnsOk
<1>10. CASE Apply
  <2>1. Apart
    BY <1>10 DEF Apply, AtRow, Apart
  <2>2. CASE pending
    <3>1. conns' \in Seq(Conn) /\ Len(conns') = 0 /\ DOMAIN conns' = 1 .. 0
      <4>1. conns' = << >>
        BY <1>10, <2>2 DEF Apply, TakeTable
      <4>2. conns' \in Seq(Conn) /\ Len(conns') = 0
        BY <4>1, EmptySeq
      <4>3. QED
        BY <4>2, LenProperties
    <3>2. QED
      BY <1>1, <1>2, <2>1, <3>1 DEF Single
  <2>3. CASE ~pending
    BY <1>3, <1>10, <2>1, <2>3 DEF Apply
  <2>4. QED
    BY <2>2, <2>3
\* Steps after which no connection is in use.
<1>11. ASSUME Fails PROVE Apart
  BY <1>11 DEF Fails, Commit, AtRow, Apart
<1>12. ASSUME Commit(TRUE, active[task.row]) PROVE Apart
  BY <1>12 DEF Commit, AtRow, Apart
<1>13. CASE NextRow
  <2>1. task \in TaskStates
    BY DEF TaskOk
  <2>2. Apart
    BY <1>13, <2>1 DEF NextRow, AtRow, TaskStates, Apart
  <2>3. QED
    BY <1>3, <1>13, <2>2 DEF NextRow
<1>14. CASE ReapIdle
  <2>1. PICK k \in 0 .. Len(conns) : conns' = SubSeq(conns, k + 1, Len(conns))
    BY <1>14 DEF ReapIdle
  <2>2. k + 1 \in 1 .. Len(conns) + 1 /\ Len(conns) \in 0 .. Len(conns)
    BY <1>1
  <2>3. /\ conns' \in Seq(Conn) /\ Single(conns')
        /\ Len(conns') = IF k + 1 <= Len(conns) THEN Len(conns) - (k + 1) + 1 ELSE 0
    BY <1>1, <2>1, <2>2, PartOf
  <2>4. Len(conns') <= Len(conns)
    <3>1. \A n \in Nat : \A i \in 0 .. n : (IF i + 1 <= n THEN n - (i + 1) + 1 ELSE 0) <= n
      OBVIOUS
    <3>2. (IF k + 1 <= Len(conns) THEN Len(conns) - (k + 1) + 1 ELSE 0) <= Len(conns)
      BY <1>1, <3>1, Zenon
    <3>3. QED
      BY <2>3, <3>2, Zenon
  <2>5. Apart
    BY <1>14 DEF ReapIdle, AtRow, Apart
  <2>6. QED
    BY <1>2, <2>3, <2>4, <2>5
<1>15. CASE Resolve
  <2>1. task \in TaskStates
    BY DEF TaskOk
  <2>2. Apart
    BY <1>11, <1>15, <2>1 DEF Resolve, TaskStates, Apart
  <2>3. QED
    BY <1>3, <1>15, <2>2 DEF Resolve
<1>16. CASE Pick
  <2>1. task \in TaskStates /\ active' = active
    BY <1>16 DEF Pick, TaskOk
  <2>2. CASE Cached(Host) # {}
    <3>1. PICK k \in Cached(Host) : conns' = With(RemoveAt(conns, k), conns[k])
      BY <1>16, <2>2 DEF Pick, Without
    <3>2. k \in DOMAIN conns /\ conns[k].host = Host
      BY DEF Cached
    <3>3. /\ conns' \in Seq(Conn) /\ Len(conns') = Len(conns) /\ Single(conns')
          /\ conns' # << >> /\ Last(conns').host = Host
      BY <1>1, <3>1, <3>2, UsedLast
    <3>4. task'.pc = "send" /\ task'.row = task.row
      BY <1>16, <2>1, <2>2 DEF Pick, TaskStates
    <3>5. Host' = Host
      BY <2>1, <3>4 DEF Host, Device
    <3>6. QED
      BY <1>1, <3>3, <3>4, <3>5 DEF ConnsOk, Mine
  <2>3. CASE Cached(Host) = {}
    <3>1. Absent(conns, Host)
      BY <2>3 DEF Cached, Absent
    <3>2. conns' = MakeRoom(conns) /\ task'.pc = "dial" /\ task'.row = task.row
      BY <1>16, <2>1, <2>3 DEF Pick, TaskStates
    <3>3. Host' = Host
      BY <2>1, <3>2 DEF Host, Device
    <3>4. conns' \in Seq(Conn) /\ Single(conns') /\ Len(conns') + 1 <= ConnCache /\ Absent(conns', Host)
      <4>1. CASE Len(conns) = ConnCache
        <5>1. conns' = Tail(conns)
          BY <3>2, <4>1 DEF MakeRoom
        <5>2. conns # << >>
          BY <4>1, EmptySeq
        <5>3. QED
          BY <1>1, <3>1, <4>1, <5>1, <5>2, OneLess
      <4>2. CASE Len(conns) # ConnCache
        <5>1. conns' = conns
          BY <3>2, <4>2, Zenon DEF MakeRoom
        <5>2. \A c \in Nat : c <= ConnCache /\ c # ConnCache => c + 1 <= ConnCache
          OBVIOUS
        <5>3. Len(conns) + 1 <= ConnCache
          BY <1>1, <4>2, <5>2, Zenon
        <5>4. QED
          BY <1>1, <3>1, <5>1, <5>3, Zenon
      <4>3. QED
        BY <4>1, <4>2
    <3>5. QED
      BY <3>2, <3>3, <3>4 DEF ConnsOk
  <2>4. QED
    BY <2>2, <2>3
<1>17. CASE Dial
  <2>1. CASE Fails
    <3>1. CASE conns' = conns
      BY <1>3, <1>11, <2>1, <3>1
    <3>2. CASE conns' # conns
      <4>1. task'.pc = "send" /\ Apart
        BY <1>11, <1>17, <2>1, <3>2 DEF Dial, TaskOk, TaskStates
      <4>2. QED
        BY <4>1 DEF Apart
    <3>3. QED
      BY <3>1, <3>2
  <2>2. CASE ~Fails
    <3> DEFINE c == [host |-> Host, open |-> TRUE, inbox |-> << >>]
    <3>1. /\ conns' = With(conns, c) /\ task' = [task EXCEPT !.pc = "send", !.fresh = TRUE]
          /\ active' = active /\ task.pc = "dial"
      BY <1>17, <2>2 DEF Dial
    <3>2. Host \in Hosts /\ Absent(conns, Host) /\ Len(conns) + 1 <= ConnCache
      BY <3>1 DEF TaskOk, PollPcs, ConnsOk
    <3>3. << >> \in Seq({"value", "refusal", "garbled", "old"})
      BY EmptySeq
    <3>4. c \in Conn /\ c.host = Host
      BY <3>2, <3>3 DEF Conn
    <3> HIDE DEF c
    <3>5. /\ conns' \in Seq(Conn) /\ Len(conns') = Len(conns) + 1 /\ Single(conns')
          /\ conns' # << >> /\ Last(conns').host = Host
      BY <1>1, <3>1, <3>2, <3>4, OneMore
    <3>6. task'.pc = "send" /\ task'.row = task.row
      BY <3>1 DEF TaskOk, TaskStates
    <3>7. Host' = Host
      BY <3>1, <3>6 DEF Host, Device
    <3>8. QED
      BY <1>1, <3>2, <3>5, <3>6, <3>7 DEF ConnsOk, Mine
  <2>3. QED
    BY <2>1, <2>2
<1>18. CASE Send
  <2>1. /\ conns # << >> /\ task.pc = "send" /\ active' = active
        /\ conns' = [conns EXCEPT ![Len(conns)].inbox = Aged(conns[Len(conns)].inbox)]
    BY <1>9, <1>18 DEF Send
  <2>2. task'.pc = "await" /\ task'.row = task.row
    BY <1>18 DEF Send, TaskOk, TaskStates
  <2> DEFINE old == conns[Len(conns)].inbox
  <2>3. old \in Seq({"value", "refusal", "garbled", "old"})
    BY <1>8, <2>1 DEF Mine, Last
  <2>4. Aged(old) \in Seq({"value", "refusal", "garbled", "old"})
    <3> HIDE DEF old
    <3>1. Len(old) \in Nat /\ DOMAIN old = 1 .. Len(old)
      BY <2>3, LenProperties
    <3>2. Aged(old) \in [1 .. Len(old) -> {"value", "refusal", "garbled", "old"}]
      BY <3>1 DEF Aged
    <3>3. QED
      BY <3>1, <3>2, SeqDef
  <2>5. QED
    BY <1>5, <1>7, <2>1, <2>2, <2>4 DEF Apart
\* An exchange that fails gives its connection up.
<1>19. ASSUME task.pc = "await", IoFails PROVE ConnsOk'
  <2>1. conns # << >> /\ conns' = Front(conns)
    BY <1>9, <1>19 DEF IoFails
  <2>2. Apart
    BY <1>11, <1>19 DEF IoFails, OnIoFail, TaskOk, TaskStates, Apart
  <2>3. QED
    BY <1>4, <2>1, <2>2
<1>20. CASE HungUp \/ TimedOut \/ Slow
  BY <1>19, <1>20 DEF HungUp, TimedOut, Slow, Hears
<1>21. CASE Receive
  <2>1. conns # << >> /\ task.pc = "await" /\ Mine.inbox # << >>
    BY <1>9, <1>21 DEF Receive
  <2>2. Apart
    BY <1>11, <1>12, <1>21 DEF Receive, Matches
  <2>3. CASE conns' = Front(conns)
    BY <1>4, <2>1, <2>2, <2>3
  <2>4. CASE conns' # Front(conns)
    <3>1. conns' = [conns EXCEPT ![Len(conns)].inbox = Tail(Mine.inbox)]
      BY <1>21, <2>4 DEF Receive, Mine, Last
    <3>2. Tail(Mine.inbox) \in Seq({"value", "refusal", "garbled", "old"})
      BY <1>8, <2>1, HeadTailProperties
    <3>3. QED
      BY <1>5, <1>7, <2>1, <2>2, <3>1, <3>2
  <2>5. QED
    BY <2>3, <2>4
<1>22. CASE PollBus \/ BusBusy
  BY <1>3, <1>11, <1>12, <1>22 DEF PollBus, BusBusy, Reads
<1>23. ASSUME Hears, NEW ms \in Seq({"value", "refusal", "garbled", "old"}), Inbox(ms),
              active' = active, task'.pc = task.pc, task'.row = task.row
       PROVE  ConnsOk'
  <2>1. conns # << >> /\ conns' = [conns EXCEPT ![Len(conns)].inbox = Mine.inbox \o ms]
    BY <1>9, <1>23 DEF Hears, Inbox, Mine, Last
  <2>2. Mine.inbox \o ms \in Seq({"value", "refusal", "garbled", "old"})
    BY <1>8, <1>23, <2>1, ConcatProperties
  <2>3. QED
    BY <1>5, <1>7, <1>23, <2>1, <2>2
<1>24. ASSUME Uncalm PROVE task'.pc = task.pc /\ task'.row = task.row
  BY <1>24 DEF Uncalm, TaskOk, TaskStates
<1>25. CASE Answers
  <2>1. <<"value">> \in Seq({"value", "refusal", "garbled", "old"})
    OBVIOUS
  <2>2. QED
    BY <1>23, <1>25, <2>1 DEF Answers
<1>26. CASE Misanswers
  <2>1. {<<"refusal">>, <<"garbled">>, <<"value", "value">>} \subseteq Seq({"value", "refusal", "garbled", "old"})
    OBVIOUS
  <2>2. QED
    BY <1>23, <1>24, <1>26, <2>1 DEF Misanswers
<1>27. ASSUME NEW k \in DOMAIN conns, PeerCloses(k), task'.pc = task.pc, task'.row = task.row PROVE ConnsOk'
  <2> DEFINE e == [conns[k] EXCEPT !.open = FALSE]
  <2>1. e \in Conn /\ e.host = conns[k].host
    <3>1. conns[k] \in Conn
      BY <1>1, ElementOfSeq
    <3>2. QED
      BY <3>1 DEF Conn
  <2>2. conns' = [conns EXCEPT ![k] = e] /\ active' = active
    BY <1>27 DEF PeerCloses
  <2> HIDE DEF e
  <2>3. /\ conns' \in Seq(Conn) /\ Len(conns') = Len(conns)
        /\ \A j \in 1 .. Len(conns) : conns'[j].host = conns[j].host
    BY <1>1, <2>1, <2>2, ExceptSeq
  <2>4. QED
    BY <1>5, <1>27, <2>2, <2>3
<1>28. CASE IdleClose \/ BusyClose
  BY <1>24, <1>27, <1>28 DEF IdleClose, BusyClose
<1>29. ASSUME NEW d \in Devices, Restart(d) PROVE ConnsOk'
  <2>1. /\ conns' = [k \in DOMAIN conns |-> [conns[k] EXCEPT !.open = @ /\ conns[k].host # d]]
        /\ active' = active /\ task'.pc = task.pc /\ task'.row = task.row
    BY <1>24, <1>29 DEF Restart
  <2>2. \A k \in 1 .. Len(conns) :
          conns[k] \in Conn /\ [conns[k] EXCEPT !.open = @ /\ conns[k].host # d] \in Conn
    <3> SUFFICES ASSUME NEW k \in 1 .. Len(conns)
                 PROVE  conns[k] \in Conn /\ [conns[k] EXCEPT !.open = @ /\ conns[k].host # d] \in Conn
      OBVIOUS
    <3>1. conns[k] \in Conn
      BY <1>1, ElementOfSeq
    <3>2. QED
      BY <3>1 DEF Conn
  <2>3. conns' \in [1 .. Len(conns) -> Conn]
    BY <1>1, <2>1, <2>2
  <2>4. conns' \in Seq(Conn) /\ Len(conns') = Len(conns)
    BY <1>1, <2>3, SeqDef, LenProperties
  <2>5. \A k \in 1 .. Len(conns) : conns'[k].host = conns[k].host
    BY <1>1, <2>1, <2>2 DEF Conn
  <2>6. QED
    BY <1>5, <2>1, <2>4, <2>5
<1>30. ASSUME conns' = conns, active' = active, task'.pc = task.pc, task'.row = task.row PROVE ConnsOk'
  BY <1>1, <1>5, <1>30
<1>31. CASE DnsFails \/ DnsReturns \/ \E d \in Devices : Hang(d)
  BY <1>24, <1>30, <1>31 DEF DnsFails, DnsReturns, Hang
<1>32. CASE Save \/ NetStarts \/ Starting
  BY <1>6, <1>32 DEF Save, NetStarts, Starting, Saved, LockStart, StageConfig, CreateTask
<1>33. CASE (\E i \in Rows : RowDue(i)) \/ \E h \in Hosts : NameDue(h)
  BY <1>6, <1>33 DEF RowDue, NameDue
<1>34. CASE UNCHANGED vars
  BY <1>6, <1>34 DEF vars
<1>35. QED
  BY <1>10, <1>13, <1>14, <1>15, <1>16, <1>17, <1>18, <1>20, <1>21, <1>22, <1>25, <1>26, <1>28,
     <1>29, <1>31, <1>32, <1>33, <1>34 DEF Next, MasterTask, Polling, World

-----------------------------------------------------------------------------
(* What holds of every behaviour                                           *)

LEMMA PollInvHolds == Spec => []PollInv
<1>1. PollInv /\ [Next]_vars => PollInv'
  BY StartsStep, RowsStep, PollTaskStep, WorldStep, ConnsStep DEF PollInv
<1>2. QED
  BY <1>1, InitInv, PTL DEF Spec

\* A value kept under a row's name was asked for under that very row, and is the
\* answer to that very request, whatever peers answer and however tables are
\* replaced meanwhile (mb_parse_read_response(), apply_staged_config()).
THEOREM OwnAnswers == Spec => []OwnAnswer
<1>1. PollInv => OwnAnswer
  BY DEF PollInv
<1>2. QED
  BY <1>1, PollInvHolds, PTL

\* The variables hold what the code's variables can, one polling task and one
\* caller past the mutex among it, and the task's sockets, the one being dialled
\* with them, stay within the cache, never two for a device (conn_get()).
THEOREM SocketsBounded == Spec => []Inv
<1>1. PollInv => TypeOK
  BY DEF PollInv, StartsOk, RowsOk, TaskOk, WorldOk, ConnsOk, TypeOK, TaskStates, PollPcs
<1>2. PollInv => SocketBudget
  BY DEF PollInv, ConnsOk, Single, SocketBudget, Cached
<1>3. PollInv => Inv
  BY <1>1, <1>2 DEF Inv
<1>4. QED
  BY <1>3, PollInvHolds, PTL

-----------------------------------------------------------------------------
(* Header pads: what holds whenever a request or a save is half done.      *)

PadTypes ==
    /\ config \in [Pads -> PadConfig] /\ mode \in [Pads -> Modes]
    /\ set \in [Pads -> Settings \union {None}] /\ applied \in [Pads -> Settings \union {None}]
    /\ out \in [Pads -> BOOLEAN] /\ inv \in [Pads -> BOOLEAN] /\ level \in [Pads -> BOOLEAN]
    /\ chan \in [Pads -> Settings \union {Low}] /\ broken \subseteq Pads
    /\ \A a \in Pads : mode[a] = "pwm" => set[a] \in Settings

\* Pads that do as they are reported, in the middle of a write or an apply as well
PadsAgree ==
    \A a \in Pads \ broken :
        /\ chan[a] = IF mode[a] = "pwm" THEN set[a] ELSE Low
        /\ mode[a] = "output" => level[a] = (out[a] # inv[a])

\* The pads a write may change are PWM outputs and stay so; each is as it was before,
\* or as it is to be.
WriteTypes ==
    /\ op = [kind |-> "write", old |-> op.old, done |-> op.done, failed |-> op.failed,
             plan |-> op.plan]
    /\ op.old \in [Pads -> Settings \union {None}] /\ op.plan \in [Pads -> Settings \union {None}]
    /\ op.failed \in BOOLEAN
    /\ op.done \subseteq {a \in Pads : op.plan[a] # op.old[a]}
    /\ \A a \in Pads :
        /\ set[a] \in {op.old[a], op.plan[a]}
        /\ op.plan[a] # op.old[a] => mode[a] = "pwm" /\ {op.old[a], op.plan[a]} \subseteq Settings
\* Unless a driver call failed twice, those done are as they are to be.
WriteSoFar ==
    broken = {} => \A a \in Pads : set[a] = IF a \in op.done THEN op.plan[a] ELSE op.old[a]

MuxOk ==
    /\ mux \in Writers \union {Http, Nobody}
    /\ mux = Nobody => op = NoOp
    /\ mux = Http => op = [kind |-> "apply", next |-> op.next] /\ op.next \in 1 .. N + 1
    /\ mux \in Writers => WriteTypes /\ WriteSoFar

TaskTypes ==
    /\ dirty \subseteq Pads /\ notified \in BOOLEAN /\ sampleDue \in BOOLEAN /\ connected \in BOOLEAN
    /\ {volt, mv, rulesMv, mqttMv, engineMv, toldMv} \subseteq Readings /\ volt # None
    /\ padTask \in [at : {"wait", "look", "publish", "send", "sample", "rules", "mqtt"},
                    todo : SUBSET Pads, snap : Snaps, mv : Readings]
    /\ TaskAt("send") => padTask.todo # {}
    /\ told \in [Pads -> Snaps]

Clients ==
    [at : {"idle", "planned", "pads", "driver", "queue"}, req : Requests \union {NoRequest},
     answer : {"none", "ok", "busy", "illegal", "failure"}]
\* A client that is past the check for room has the queue to itself, one before its
\* change has moved nothing, and the driver works for the one that waits for it.
ClientsOk ==
    /\ client \in [Writers -> Clients] /\ moved \subseteq Writers
    /\ cmdMux \in Writers \union {Nobody}
    /\ \A c \in Writers :
        /\ At(c, "driver") <=> mux = c
        /\ client[c].at # "idle" => client[c].req \in Requests /\ client[c].answer = "none"
        /\ client[c].at \in {"pads", "driver", "queue"} =>
             cmdMux = c /\ (client[c].req.base # None => Len(cmdQ) < CmdDepth)
        /\ client[c].at \in {"planned", "pads", "driver"} => c \notin moved

\* The register reads the last queued command, or with none queued the last carried out.
ToRegisters(r) == r.outs = {}
ShadowFollows ==
    /\ cmdQ \in Seq(Requests) /\ Len(cmdQ) <= CmdDepth /\ {hrShadow, ran} \subseteq Bases \union {None}
    /\ \A i \in DOMAIN cmdQ : cmdQ[i].base # None
    /\ (\A i \in DOMAIN cmdQ : ~ToRegisters(cmdQ[i])) => ran = hrShadow
    /\ \A i \in DOMAIN cmdQ :
         ToRegisters(cmdQ[i]) /\ (\A j \in i + 1 .. Len(cmdQ) : ~ToRegisters(cmdQ[j]))
           => cmdQ[i].base = hrShadow

\* A set of pads with a member has a first one.
LEMMA FirstPad ==
    ASSUME NEW S, S \subseteq Nat, S # {}
    PROVE  First(S) \in S
<1>1. PICK m \in S : \A n \in S : ~ (<<n, m>> \in OpToRel(<, Nat))
  BY NatLessThanWellFounded, WFMin
<1>2. \A n \in S : ~ (n < m)
  BY <1>1 DEF OpToRel
<1>3. \A n \in S : m <= n
  BY <1>2
<1>4. QED
  BY <1>3 DEF First

LEMMA PadsAreNat == Pads \subseteq Nat /\ 1 \in Pads
  BY AuxPadsAssumption DEF Pads

\* One driver call on a PWM pad: all of the new setting, or the old one still there; only
\* a second failure leaves the channel with neither.
LEMMA PwmSetEnds ==
    ASSUME PadTypes, NEW a \in Pads, mode[a] = "pwm", NEW s \in Settings,
           NEW r \in PwmSet(a, s, FALSE)
    PROVE  /\ r.set \in Settings /\ r.chan \in Settings \union {Low} /\ r.ok \in BOOLEAN
           /\ r.set = IF r.ok THEN s ELSE set[a]
           /\ r.fails # 2 => r.chan = r.set
<1>1. set[a] \in Settings /\ chan[a] \in Settings \union {Low}
  BY DEF PadTypes
<1>2. \/ r = [ok |-> TRUE, set |-> s, chan |-> s, fails |-> 0]
      \/ r = [ok |-> FALSE, set |-> set[a], chan |-> set[a], fails |-> 1]
      \/ r = [ok |-> FALSE, set |-> set[a], fails |-> 2,
              chan |-> IF Held(a, s) THEN Low ELSE chan[a]]
  BY DEF PwmSet, Restored
<1>3. CASE r = [ok |-> TRUE, set |-> s, chan |-> s, fails |-> 0]
  <2>1. r.ok = TRUE /\ r.set = s /\ r.chan = s /\ r.fails = 0
    BY <1>3
  <2>2. QED
    BY <2>1
<1>4. CASE r = [ok |-> FALSE, set |-> set[a], chan |-> set[a], fails |-> 1]
  <2>1. r.ok = FALSE /\ r.set = set[a] /\ r.chan = set[a] /\ r.fails = 1
    BY <1>4
  <2>2. QED
    BY <1>1, <2>1
<1>5. CASE r = [ok |-> FALSE, set |-> set[a], fails |-> 2,
                chan |-> IF Held(a, s) THEN Low ELSE chan[a]]
  <2>1. r.ok = FALSE /\ r.set = set[a] /\ r.chan \in {Low, chan[a]} /\ r.fails = 2
    BY <1>5
  <2>2. QED
    BY <1>1, <2>1
<1>6. QED
  BY <1>2, <1>3, <1>4, <1>5

\* What a driver call does to its pad, marked as broken after a second failure.
LEMMA PwmKeepsPads ==
    ASSUME PadTypes, PadsAgree, NEW a \in Pads, mode[a] = "pwm", NEW s \in Settings,
           NEW r \in PwmSet(a, s, FALSE), TakePwm(a, r),
           broken' = broken \union {a} \/ (broken' = broken /\ r.fails # 2),
           UNCHANGED <<config, mode, out, inv, applied, level>>
    PROVE  PadTypes' /\ PadsAgree'
<1>1. /\ set' = [set EXCEPT ![a] = r.set] /\ chan' = [chan EXCEPT ![a] = r.chan]
      /\ r.set \in Settings /\ r.chan \in Settings \union {Low}
  BY PwmSetEnds DEF TakePwm
<1>2. PadTypes'
  BY <1>1 DEF PadTypes
<1>3. a \notin broken' => r.chan = r.set
  BY PwmSetEnds
<1>4. PadsAgree'
  BY <1>1, <1>3 DEF PadTypes, PadsAgree
<1>5. QED
  BY <1>2, <1>4

LEMMA OutSetKeepsPads ==
    ASSUME PadTypes, PadsAgree, NEW A \in SUBSET Pads, NEW on, OutSet(A, on)
    PROVE  PadTypes' /\ PadsAgree'
<1> DEFINE movedPads == {a \in A : out[a] # (a \in on)}
<1>1. /\ out' = [a \in Pads |-> IF a \in movedPads THEN a \in on ELSE out[a]]
      /\ level' = [a \in Pads |-> IF a \in movedPads THEN (a \in on) # inv[a] ELSE level[a]]
      /\ UNCHANGED <<config, mode, set, inv, applied, chan, broken>>
  BY DEF OutSet
<1>2. \A a \in Pads : out[a] \in BOOLEAN /\ level[a] \in BOOLEAN /\ inv[a] \in BOOLEAN
  BY DEF PadTypes
<1>3. out' \in [Pads -> BOOLEAN] /\ level' \in [Pads -> BOOLEAN]
  <2>1. \A a \in Pads : /\ (IF a \in movedPads THEN a \in on ELSE out[a]) \in BOOLEAN
                       /\ (IF a \in movedPads THEN (a \in on) # inv[a] ELSE level[a]) \in BOOLEAN
    <3> HIDE DEF movedPads
    <3>1. \A a \in Pads : (a \in on) \in BOOLEAN /\ ((a \in on) # inv[a]) \in BOOLEAN
      OBVIOUS
    <3>2. QED
      BY <1>2, <3>1
  <2>2. QED
    BY <1>1, <2>1
<1>4. PadTypes'
  BY <1>1, <1>3 DEF PadTypes
<1>5. \A a \in Pads : out'[a] = (IF a \in movedPads THEN a \in on ELSE out[a])
                   /\ level'[a] = (IF a \in movedPads THEN (a \in on) # inv[a] ELSE level[a])
  BY <1>1
<1>6. PadsAgree'
  <2> HIDE DEF movedPads
  <2>1. SUFFICES ASSUME NEW a \in Pads \ broken
                 PROVE  /\ chan[a] = IF mode[a] = "pwm" THEN set[a] ELSE Low
                        /\ mode[a] = "output" => level'[a] = (out'[a] # inv[a])
    BY <1>1 DEF PadsAgree
  <2>2. QED
    BY <1>5 DEF PadsAgree
<1>7. QED
  BY <1>4, <1>6

\* A pad that changes its mode is as it was asked to be, or in its standard function.
LEMMA EnterEnds ==
    ASSUME PadTypes, NEW a \in Pads, NEW m \in Modes, NEW c \in PadConfig, NEW r \in Enter(a, m, c)
    PROVE  /\ r.mode \in {m, "standard"} /\ r.ok \in BOOLEAN
           /\ r.mode = "pwm" => r.set = c.set /\ r.chan = c.set
           /\ r.mode # "pwm" => r.set = set[a] /\ r.chan = Low
<1>1. CASE m = "pwm"
  <2>1. \/ \E q \in PwmSet(a, c.set, TRUE) : q.ok /\ r = [mode |-> m, set |-> q.set,
                                         chan |-> q.chan, fails |-> q.fails, ok |-> TRUE]
        \/ r = [mode |-> "standard", set |-> set[a], chan |-> Low, fails |-> 1, ok |-> FALSE]
    BY <1>1 DEF Enter
  <2>2. \A q \in PwmSet(a, c.set, TRUE) : q.ok => q.set = c.set /\ q.chan = c.set
    BY DEF PwmSet, NewTimer
  <2>3. CASE r = [mode |-> "standard", set |-> set[a], chan |-> Low, fails |-> 1, ok |-> FALSE]
    BY <2>3
  <2>4. ASSUME NEW q \in PwmSet(a, c.set, TRUE), q.ok,
               r = [mode |-> m, set |-> q.set, chan |-> q.chan, fails |-> q.fails, ok |-> TRUE]
        PROVE  r.mode = "pwm" /\ r.ok = TRUE /\ r.set = c.set /\ r.chan = c.set
    BY <1>1, <2>2, <2>4
  <2>5. QED
    BY <1>1, <2>1, <2>3, <2>4
<1>2. CASE m # "pwm"
  <2>1. \/ r = [mode |-> m, set |-> set[a], chan |-> Low, fails |-> 0, ok |-> TRUE]
        \/ r = [mode |-> "standard", set |-> set[a], chan |-> Low, fails |-> 1, ok |-> FALSE]
    BY <1>2 DEF Enter
  <2>2. CASE r = [mode |-> m, set |-> set[a], chan |-> Low, fails |-> 0, ok |-> TRUE]
    <3>1. r.mode = m /\ r.ok = TRUE /\ r.set = set[a] /\ r.chan = Low
      BY <2>2
    <3>2. QED
      BY <1>2, <3>1
  <2>3. CASE r = [mode |-> "standard", set |-> set[a], chan |-> Low, fails |-> 1, ok |-> FALSE]
    <3>1. r.mode = "standard" /\ r.ok = FALSE /\ r.set = set[a] /\ r.chan = Low
      BY <2>3
    <3>2. QED
      BY <1>2, <3>1
  <2>4. QED
    BY <2>1, <2>2, <2>3
<1>3. QED
  BY <1>1, <1>2

LEMMA ApplyKeepsPads ==
    ASSUME PadTypes, PadsAgree, NEW a \in Pads, NEW m \in Modes, NEW c \in PadConfig,
           IF m = mode[a] THEN ApplySame(a, c) ELSE ApplyChange(a, m, c), UNCHANGED config
    PROVE  PadTypes' /\ PadsAgree'
<1>1. c.set \in Settings /\ c.inv \in BOOLEAN
  BY DEF PadConfig
<1>2. CASE m # mode[a]
  <2>1. PICK r \in Enter(a, m, c) :
          /\ mode' = [mode EXCEPT ![a] = r.mode]
          /\ set' = [set EXCEPT ![a] = r.set] /\ chan' = [chan EXCEPT ![a] = r.chan]
          /\ out' = [out EXCEPT ![a] = FALSE]
          /\ inv' = IF m = "output" THEN [inv EXCEPT ![a] = c.inv] ELSE inv
          /\ level' = [level EXCEPT ![a] = m = "output" /\ c.inv]
          /\ UNCHANGED broken
          /\ applied' = IF r.ok THEN [applied EXCEPT ![a] = c.set] ELSE applied
    BY <1>2 DEF ApplyChange
  <2>2. /\ r.mode \in {m, "standard"} /\ r.ok \in BOOLEAN
        /\ r.mode = "pwm" => r.set = c.set /\ r.chan = c.set
        /\ r.mode # "pwm" => r.set = set[a] /\ r.chan = Low
    BY EnterEnds
  <2>3. r.mode \in Modes /\ r.set \in Settings \union {None} /\ r.chan \in Settings \union {Low}
    BY <1>1, <2>2 DEF Modes, PadTypes
  <2>4. PadTypes'
    BY <1>1, <2>1, <2>2, <2>3 DEF PadTypes
  <2>5. PadsAgree'
    <3>1. SUFFICES ASSUME NEW b \in Pads \ broken
                   PROVE  /\ chan'[b] = IF mode'[b] = "pwm" THEN set'[b] ELSE Low
                          /\ mode'[b] = "output" => level'[b] = (out'[b] # inv'[b])
      BY <2>1 DEF PadsAgree
    <3>2. CASE b = a
      <4>1. mode'[b] = r.mode /\ set'[b] = r.set /\ chan'[b] = r.chan /\ out'[b] = FALSE
        BY <2>1, <3>2 DEF PadTypes
      <4>2. r.mode = "output" => m = "output"
        BY <2>2
      <4>3. m = "output" => inv'[b] = c.inv /\ level'[b] = c.inv
        BY <1>1, <2>1, <3>2 DEF PadTypes
      <4>4. QED
        BY <1>1, <2>2, <4>1, <4>2, <4>3
    <3>3. CASE b # a
      BY <2>1, <3>1, <3>3 DEF PadTypes, PadsAgree
    <3>4. QED
      BY <3>2, <3>3
  <2>6. QED
    BY <2>4, <2>5
<1>3. CASE m = mode[a]
  <2> DEFINE retune == mode[a] = "pwm" /\ c.set # applied[a]
  <2>1. PICK r \in IF retune THEN PwmSet(a, c.set, FALSE)
                   ELSE {[ok |-> TRUE, set |-> set[a], chan |-> chan[a], fails |-> 0]} :
          /\ TakePwm(a, r)
          /\ applied' = IF r.ok THEN [applied EXCEPT ![a] = c.set] ELSE applied
          /\ inv' = IF mode[a] = "output" THEN [inv EXCEPT ![a] = c.inv] ELSE inv
          /\ level' = Redriven(a, c)
          /\ broken' = IF r.fails = 2 THEN broken \union {a} ELSE broken
          /\ UNCHANGED <<mode, out>>
    BY <1>3 DEF ApplySame
  <2>2. set' = [set EXCEPT ![a] = r.set] /\ chan' = [chan EXCEPT ![a] = r.chan]
    BY <2>1 DEF TakePwm
  <2>3. /\ r.set \in Settings \union {None} /\ r.chan \in Settings \union {Low} /\ r.ok \in BOOLEAN
        /\ mode[a] = "pwm" => r.set \in Settings
        /\ a \notin broken' => r.chan = IF mode[a] = "pwm" THEN r.set ELSE Low
    <3>1. CASE retune
      <4>1. mode[a] = "pwm" /\ r \in PwmSet(a, c.set, FALSE)
        BY <2>1, <3>1
      <4>2. /\ r.set \in Settings /\ r.chan \in Settings \union {Low} /\ r.ok \in BOOLEAN
            /\ r.fails # 2 => r.chan = r.set
        BY <1>1, <4>1, PwmSetEnds
      <4>3. a \notin broken' => r.fails # 2
        BY <2>1
      <4>4. QED
        BY <4>1, <4>2, <4>3
    <3>2. CASE ~retune
      <4>1. r = [ok |-> TRUE, set |-> set[a], chan |-> chan[a], fails |-> 0]
        BY <2>1, <3>2
      <4>2. QED
        BY <2>1, <4>1 DEF PadTypes, PadsAgree
    <3>3. QED
      BY <3>1, <3>2
  <2>4. /\ inv' \in [Pads -> BOOLEAN] /\ applied' \in [Pads -> Settings \union {None}]
    BY <1>1, <2>1 DEF PadTypes
  <2>5. /\ \A b \in Pads \ {a} : level'[b] = level[b] /\ inv'[b] = inv[b]
        /\ mode[a] = "output" =>
             inv'[a] = c.inv /\ level'[a] = IF c.inv # inv[a] THEN out[a] # c.inv ELSE level[a]
    BY <2>1 DEF Redriven, PadTypes
  <2>6. level' \in [Pads -> BOOLEAN]
    <3>1. level \in [Pads -> BOOLEAN] /\ (out[a] # c.inv) \in BOOLEAN
      BY DEF PadTypes
    <3>2. QED
      BY <2>1, <3>1 DEF Redriven
  <2>7. PadTypes'
    BY <2>1, <2>2, <2>3, <2>4, <2>6 DEF PadTypes
  <2>8. PadsAgree'
    <3>1. SUFFICES ASSUME NEW b \in Pads \ broken'
                   PROVE  /\ chan'[b] = IF mode[b] = "pwm" THEN set'[b] ELSE Low
                          /\ mode[b] = "output" => level'[b] = (out[b] # inv'[b])
      BY <2>1 DEF PadsAgree
    <3>2. b \notin broken
      BY <2>1
    <3>3. chan'[b] = IF mode[b] = "pwm" THEN set'[b] ELSE Low
      BY <2>2, <2>3, <3>2 DEF PadTypes, PadsAgree
    <3>4. mode[b] = "output" => level'[b] = (out[b] # inv'[b])
      <4>1. mode[b] = "output" => level[b] = (out[b] # inv[b])
        BY <3>2 DEF PadsAgree
      <4>2. inv[b] \in BOOLEAN /\ out[b] \in BOOLEAN /\ c.inv \in BOOLEAN
        BY <1>1 DEF PadTypes
      <4>3. CASE b = a
        BY <2>5, <4>1, <4>2, <4>3
      <4>4. CASE b # a
        BY <2>5, <4>1, <4>4
      <4>5. QED
        BY <4>3, <4>4
    <3>5. QED
      BY <3>3, <3>4
  <2>9. QED
    BY <2>7, <2>8
<1>4. QED
  BY <1>2, <1>3

(* The mutex and the write or the apply under it.                          *)

LEMMA WritesHold ==
    ASSUME MuxOk, Writing
    PROVE  mux \in Writers /\ WriteTypes /\ WriteSoFar
<1>1. mux # Http
  <2>1. mux = Http => op.kind = "apply"
    BY DEF MuxOk
  <2>2. QED
    BY <2>1 DEF Writing
<1>2. QED
  BY <1>1 DEF MuxOk, Writing

LEMMA AppliesHold ==
    ASSUME MuxOk, mux # Nobody, op.kind = "apply"
    PROVE  mux = Http /\ op = [kind |-> "apply", next |-> op.next] /\ op.next \in 1 .. N + 1
<1>1. mux \notin Writers
  <2>1. mux \in Writers => op.kind = "write"
    BY DEF MuxOk, WriteTypes
  <2>2. QED
    BY <2>1
<1>2. QED
  BY <1>1 DEF MuxOk

\* As long as no write is on, what happens to the pads is no matter for the mutex.
LEMMA MuxOkStays ==
    ASSUME MuxOk, UNCHANGED muxVars, mux \notin Writers \/ UNCHANGED <<padVars>>
    PROVE  MuxOk'
<1>1. mux' = mux /\ op' = op
  BY DEF muxVars
<1>2. CASE mux \notin Writers
  BY <1>1, <1>2 DEF MuxOk
<1>3. CASE UNCHANGED <<padVars>>
  BY <1>1, <1>3 DEF MuxOk, WriteTypes, WriteSoFar, padVars
<1>4. QED
  BY <1>2, <1>3

LEMMA NobodyFree == Nobody \notin Writers /\ Http \notin Writers /\ Nobody # Http
  BY AuxPadsAssumption

\* What a request asks of a PWM output is a setting.
LEMMA WantedSet ==
    ASSUME PadTypes, NEW w \in PwmWrites \union {NoPwm}, NEW a \in Touched(w), mode[a] = "pwm"
    PROVE  a \in Pads /\ Wanted(w, a) \in Settings
<1>1. a \in Pads /\ set[a] \in Settings
  BY DEF Touched, PadTypes
<1>2. w[a].freq \in Freqs \union {Keep} /\ w[a].duty \in Duties \union {Keep}
  BY <1>1, AuxPadsAssumption DEF NoPwm
<1>3. QED
  BY <1>1, <1>2 DEF Wanted, Settings

LEMMA WriteBegins ==
    ASSUME PadTypes, NEW c \in Writers, NEW w \in PwmWrites \union {NoPwm}, WriteBegin(c, w)
    PROVE  MuxOk'
<1>1. \A a \in Touched(w) : a \in Pads /\ mode[a] = "pwm" /\ Wanted(w, a) \in Settings
  BY WantedSet DEF WriteBegin
<1>2. /\ mux' = c /\ UNCHANGED padVars
      /\ op' = [kind |-> "write", old |-> set, done |-> {}, failed |-> FALSE,
                plan |-> [a \in Pads |-> IF a \in Touched(w) THEN Wanted(w, a) ELSE set[a]]]
  BY DEF WriteBegin
<1>3. /\ op'.old = set /\ op'.done = {} /\ op'.failed = FALSE
      /\ op'.plan = [a \in Pads |-> IF a \in Touched(w) THEN Wanted(w, a) ELSE set[a]]
      /\ op' = [kind |-> "write", old |-> op'.old, done |-> op'.done, failed |-> op'.failed,
                plan |-> op'.plan]
  BY <1>2
<1>4. /\ set' = set /\ mode' = mode /\ set \in [Pads -> Settings \union {None}]
      /\ \A a \in Pads : mode[a] = "pwm" => set[a] \in Settings
  BY <1>2 DEF padVars, PadTypes
<1>5. op'.plan \in [Pads -> Settings \union {None}]
  BY <1>1, <1>3, <1>4
<1>6. WriteTypes'
  <2>1. ASSUME NEW a \in Pads
        PROVE  /\ set'[a] = op'.old[a]
               /\ op'.plan[a] # op'.old[a] => mode'[a] = "pwm" /\ {op'.old[a], op'.plan[a]} \subseteq Settings
    <3>1. op'.plan[a] = (IF a \in Touched(w) THEN Wanted(w, a) ELSE set[a]) /\ op'.old[a] = set[a]
      BY <1>3
    <3>2. QED
      BY <1>1, <1>4, <3>1
  <2>2. QED
    BY <1>3, <1>4, <1>5, <2>1 DEF WriteTypes
<1>7. WriteSoFar'
  BY <1>3, <1>4 DEF WriteSoFar
<1>8. QED
  BY <1>2, <1>6, <1>7, NobodyFree DEF MuxOk

\* What the steps of a write do to its record.
LEMMA OpChanges ==
    ASSUME NEW D, NEW f,
           op = [kind |-> "write", old |-> op.old, done |-> op.done, failed |-> op.failed,
                 plan |-> op.plan]
    PROVE  /\ [op EXCEPT !.done = D] =
                [kind |-> "write", old |-> op.old, done |-> D, failed |-> op.failed, plan |-> op.plan]
           /\ [op EXCEPT !.failed = f] =
                [kind |-> "write", old |-> op.old, done |-> op.done, failed |-> f, plan |-> op.plan]
  OBVIOUS

\* The step of a write at pad a, whose setting becomes the one asked for or stays.
LEMMA StepMoves ==
    ASSUME PadTypes, PadsAgree, MuxOk, Writing, NEW a \in Pads, op.plan[a] # op.old[a],
           NEW s \in {op.old[a], op.plan[a]}, NEW D, NEW f \in BOOLEAN,
           NEW r \in PwmSet(a, s, FALSE), TakePwm(a, r),
           broken' = broken \union {a} \/ (broken' = broken /\ r.fails # 2),
           UNCHANGED <<config, mode, out, inv, applied, level, mux>>,
           op' = [kind |-> "write", old |-> op.old, done |-> D, failed |-> f, plan |-> op.plan],
           D \subseteq op.done \union {a},
           broken' = {} => D = IF r.set = op.plan[a] THEN op.done \union {a} ELSE op.done \ {a}
    PROVE  PadTypes' /\ PadsAgree' /\ MuxOk'
<1>1. mux \in Writers /\ WriteTypes /\ WriteSoFar
  BY WritesHold
<1>2. mode[a] = "pwm" /\ s \in Settings /\ {op.old[a], op.plan[a]} \subseteq Settings
  BY <1>1 DEF WriteTypes
<1>3. PadTypes' /\ PadsAgree'
  BY <1>2, PwmKeepsPads
<1>4. set' = [set EXCEPT ![a] = r.set] /\ r.set \in {s, set[a]}
  <2>1. r.set = (IF r.ok THEN s ELSE set[a]) /\ r.ok \in BOOLEAN
    BY <1>2, PwmSetEnds
  <2>2. QED
    BY <2>1 DEF TakePwm
<1>5. /\ op'.old = op.old /\ op'.plan = op.plan /\ op'.done = D /\ op'.failed = f
      /\ op' = [kind |-> "write", old |-> op'.old, done |-> op'.done, failed |-> op'.failed,
                plan |-> op'.plan]
  OBVIOUS
<1>6. set[a] \in {op.old[a], op.plan[a]} /\ set \in [Pads -> Settings \union {None}]
  BY <1>1 DEF WriteTypes, PadTypes
<1>7. WriteTypes'
  BY <1>1, <1>4, <1>5, <1>6 DEF WriteTypes
<1>8. WriteSoFar'
  <2>1. SUFFICES ASSUME broken' = {}, NEW b \in Pads
                 PROVE  set'[b] = IF b \in D THEN op.plan[b] ELSE op.old[b]
    BY <1>5 DEF WriteSoFar
  <2>2. broken = {}
    BY <2>1
  <2>3. CASE b = a
    BY <1>4, <1>6, <2>1, <2>3
  <2>4. CASE b # a
    BY <1>1, <1>4, <1>6, <2>1, <2>2, <2>4 DEF WriteSoFar
  <2>5. QED
    BY <2>3, <2>4
<1>9. QED
  BY <1>1, <1>3, <1>7, <1>8, NobodyFree DEF MuxOk

LEMMA WriteNextKeeps ==
    ASSUME PadTypes, PadsAgree, MuxOk, WriteNext
    PROVE  PadTypes' /\ PadsAgree' /\ MuxOk'
<1> DEFINE a == First(Todo)
<1>1. mux \in Writers /\ WriteTypes /\ WriteSoFar /\ Writing /\ ~op.failed
  BY WritesHold DEF WriteNext
<1>2. a \in Pads /\ op.plan[a] # set[a]
  <2>1. Todo # {} /\ Todo \subseteq Nat
    BY PadsAreNat DEF WriteNext, Todo
  <2>2. First(Todo) \in Todo
    BY <2>1, FirstPad
  <2>3. QED
    BY <2>2 DEF Todo
<1> HIDE DEF a
<1>3. set[a] = op.old[a] /\ op.plan[a] # op.old[a]
  BY <1>1, <1>2 DEF WriteTypes
<1>4. PICK r \in PwmSet(a, op.plan[a], FALSE) :
        /\ TakePwm(a, r)
        /\ op' = IF r.ok THEN [op EXCEPT !.done = @ \union {a}] ELSE [op EXCEPT !.failed = TRUE]
        /\ broken' = IF r.fails = 2 \/ (op.failed /\ ~r.ok) THEN broken \union {a} ELSE broken
        /\ UNCHANGED <<config, mode, out, inv, applied, level, mux>>
  BY DEF WriteNext, PwmStep, a
<1>5. mode[a] = "pwm" /\ {op.plan[a], op.old[a]} \subseteq Settings
  BY <1>1, <1>2, <1>3 DEF WriteTypes
<1>6. r.set = (IF r.ok THEN op.plan[a] ELSE set[a]) /\ r.ok \in BOOLEAN
  BY <1>2, <1>5, PwmSetEnds
<1>7. broken = {} => a \notin op.done
  BY <1>1, <1>2, <1>3 DEF WriteSoFar
<1> DEFINE D == IF r.ok THEN op.done \union {a} ELSE op.done
           f == ~r.ok
<1>8. op' = [kind |-> "write", old |-> op.old, done |-> D, failed |-> f, plan |-> op.plan]
  <2>1. CASE r.ok
    <3>1. op' = [op EXCEPT !.done = op.done \union {a}]
      BY <1>4, <2>1
    <3>2. op' = [kind |-> "write", old |-> op.old, done |-> op.done \union {a},
                 failed |-> op.failed, plan |-> op.plan]
      BY <1>1, <3>1, OpChanges DEF WriteTypes
    <3>3. D = op.done \union {a} /\ f = FALSE /\ op.failed = FALSE
      BY <1>1, <2>1 DEF WriteTypes
    <3>4. QED
      BY <3>2, <3>3
  <2>2. CASE ~r.ok
    <3>1. op' = [op EXCEPT !.failed = TRUE]
      BY <1>4, <2>2
    <3>2. op' = [kind |-> "write", old |-> op.old, done |-> op.done, failed |-> TRUE,
                 plan |-> op.plan]
      BY <1>1, <3>1, OpChanges DEF WriteTypes
    <3>3. D = op.done /\ f = TRUE
      BY <2>2
    <3>4. QED
      BY <3>2, <3>3
  <2>3. QED
    BY <2>1, <2>2
<1>9. D \subseteq op.done \union {a} /\ f \in BOOLEAN
  OBVIOUS
<1>10. broken' = {} => D = IF r.set = op.plan[a] THEN op.done \union {a} ELSE op.done \ {a}
  BY <1>2, <1>3, <1>4, <1>6, <1>7
<1>11. broken' = broken \union {a} \/ (broken' = broken /\ r.fails # 2)
  BY <1>4
<1>12. QED
  <2> HIDE DEF D, f
  <2>1. op.plan[a] \in {op.old[a], op.plan[a]}
    OBVIOUS
  <2>2. QED
    BY <1>1, <1>2, <1>3, <1>4, <1>8, <1>9, <1>10, <1>11, <2>1, StepMoves

LEMMA WriteUndoKeeps ==
    ASSUME PadTypes, PadsAgree, MuxOk, WriteUndo
    PROVE  PadTypes' /\ PadsAgree' /\ MuxOk'
<1> DEFINE a == First(op.done)
<1>1. mux \in Writers /\ WriteTypes /\ WriteSoFar /\ Writing /\ op.failed
  BY WritesHold DEF WriteUndo
<1>2. a \in Pads /\ a \in op.done /\ op.plan[a] # op.old[a]
  <2>1. op.done # {} /\ op.done \subseteq Nat
    BY <1>1, PadsAreNat DEF WriteUndo, WriteTypes
  <2>2. First(op.done) \in op.done
    BY <2>1, FirstPad
  <2>3. QED
    BY <1>1, <2>2 DEF WriteTypes
<1> HIDE DEF a
<1>3. PICK r \in PwmSet(a, op.old[a], FALSE) :
        /\ TakePwm(a, r)
        /\ op' = [op EXCEPT !.done = @ \ {a}]
        /\ broken' = IF r.fails = 2 \/ (op.failed /\ ~r.ok) THEN broken \union {a} ELSE broken
        /\ UNCHANGED <<config, mode, out, inv, applied, level, mux>>
  BY DEF WriteUndo, PwmStep, Before, a
<1>4. mode[a] = "pwm" /\ {op.plan[a], op.old[a]} \subseteq Settings
  BY <1>1, <1>2 DEF WriteTypes
<1>5. r.set = (IF r.ok THEN op.old[a] ELSE set[a]) /\ r.ok \in BOOLEAN
  BY <1>2, <1>4, PwmSetEnds
<1> DEFINE D == op.done \ {a}
<1>6. /\ op' = [kind |-> "write", old |-> op.old, done |-> D, failed |-> op.failed, plan |-> op.plan]
      /\ op.failed \in BOOLEAN
  <2>1. op' = [op EXCEPT !.done = D]
    BY <1>3
  <2> HIDE DEF D
  <2>2. QED
    BY <1>1, <2>1, OpChanges DEF WriteTypes
<1>7. broken' = {} => r.set = op.old[a]
  BY <1>1, <1>3, <1>5
<1>8. broken' = {} => D = IF r.set = op.plan[a] THEN op.done \union {a} ELSE op.done \ {a}
  BY <1>2, <1>7
<1>9. QED
  <2> HIDE DEF D
  <2>1. D \subseteq op.done \union {a}
    BY DEF D
  <2>2. op.old[a] \in {op.old[a], op.plan[a]}
    OBVIOUS
  <2>3. broken' = broken \union {a} \/ (broken' = broken /\ r.fails # 2)
    BY <1>3
  <2>4. PICK f \in BOOLEAN : f = op.failed
    BY <1>6
  <2>5. op' = [kind |-> "write", old |-> op.old, done |-> D, failed |-> f, plan |-> op.plan]
    BY <1>6, <2>4
  <2>6. UNCHANGED <<config, mode, out, inv, applied, level, mux>> /\ TakePwm(a, r)
    BY <1>3
  <2>7. QED
    BY <1>1, <1>2, <1>3, <1>8, <2>1, <2>2, <2>3, <2>5, <2>6, StepMoves

(* The calls, the apply, and the end of a write.                           *)


LEMMA MarkedTyped ==
    ASSUME TaskTypes, NEW D, D \subseteq Pads, Marked(D), mv' \in {mv, None},
           UNCHANGED <<taskVars, outside>>
    PROVE  TaskTypes'
<1>1. dirty' \subseteq Pads /\ notified' \in BOOLEAN
  BY DEF Marked, TaskTypes
<1>2. mv' \in Readings
  BY DEF TaskTypes, Readings
<1>3. QED
  BY <1>1, <1>2 DEF TaskTypes, taskVars, outside, TaskAt

LEMMA OutSetKeeps ==
    ASSUME PadTypes, PadsAgree, MuxOk, TaskTypes, NEW A \in SUBSET Pads, NEW on, OutSet(A, on)
    PROVE  PadTypes' /\ PadsAgree' /\ MuxOk' /\ TaskTypes' /\ UNCHANGED <<mux, op, broken>>
<1>1. PadTypes' /\ PadsAgree'
  BY OutSetKeepsPads
<1>2. mux = Nobody /\ UNCHANGED muxVars /\ UNCHANGED <<mux, op, broken>>
  BY DEF OutSet, muxVars
<1>3. MuxOk'
  BY <1>2, NobodyFree, MuxOkStays
<1>4. TaskTypes'
  <2>1. Marked({a \in A : out[a] # (a \in on)}) /\ mv' = mv /\ UNCHANGED <<taskVars, outside>>
    BY DEF OutSet
  <2>2. QED
    BY <2>1, MarkedTyped
<1>5. QED
  BY <1>1, <1>2, <1>3, <1>4

LEMMA CallsKeep ==
    ASSUME PadTypes, PadsAgree, MuxOk, TaskTypes, AuxCalls
    PROVE  /\ PadTypes' /\ PadsAgree' /\ MuxOk' /\ TaskTypes'
           /\ mux = Nobody /\ mux' \notin Writers
<1>1. ASSUME NEW a \in Pads, OutSetOne(a)
      PROVE  PadTypes' /\ PadsAgree' /\ MuxOk' /\ TaskTypes' /\ mux = Nobody /\ mux' \notin Writers
  <2>1. PICK on \in SUBSET {a} : OutSet({a}, on)
    BY <1>1 DEF OutSetOne
  <2>2. mux = Nobody /\ {a} \in SUBSET Pads
    BY <2>1 DEF OutSet
  <2>3. QED
    BY <2>1, <2>2, OutSetKeeps, NobodyFree
<1>2. ASSUME NEW a \in Pads, NEW w \in PwmWrites, PwmSetOne(a, w)
      PROVE  PadTypes' /\ PadsAgree' /\ MuxOk' /\ TaskTypes' /\ mux = Nobody /\ mux' \notin Writers
  <2>1. mux = Nobody /\ mode[a] = "pwm" /\ a \in Touched(w) /\ UNCHANGED muxVars
    BY <1>2 DEF PwmSetOne, Calling
  <2>2. Wanted(w, a) \in Settings
    BY <2>1, WantedSet
  <2>3. PICK r \in PwmSet(a, Wanted(w, a), FALSE) :
          /\ TakePwm(a, r)
          /\ Marked(IF r.ok THEN {a} ELSE {})
          /\ broken' = IF r.fails = 2 THEN broken \union {a} ELSE broken
    BY <1>2 DEF PwmSetOne
  <2>4. /\ UNCHANGED <<config, mode, out, inv, applied, level>> /\ mv' = mv
        /\ UNCHANGED <<taskVars, outside>>
    BY <1>2 DEF PwmSetOne
  <2>5. PadTypes' /\ PadsAgree'
    BY <2>1, <2>2, <2>3, <2>4, PwmKeepsPads
  <2>6. MuxOk' /\ mux' = mux
    BY <2>1, NobodyFree, MuxOkStays DEF muxVars
  <2>7. TaskTypes'
    <3>1. (IF r.ok THEN {a} ELSE {}) \subseteq Pads
      OBVIOUS
    <3>2. QED
      BY <2>3, <2>4, <3>1, MarkedTyped
  <2>8. QED
    BY <2>1, <2>5, <2>6, <2>7, NobodyFree
<1>3. ASSUME NEW c \in Configs, SaveConfig(c)
      PROVE  PadTypes' /\ PadsAgree' /\ MuxOk' /\ TaskTypes' /\ mux = Nobody /\ mux' \notin Writers
  <2>1. /\ mux = Nobody /\ config' = c /\ mux' = Http /\ op' = [kind |-> "apply", next |-> 1]
        /\ UNCHANGED <<mode, set, out, inv, applied, chan, level, broken, dirty, notified, mv,
                       taskVars, outside>>
    BY <1>3 DEF SaveConfig
  <2>2. PadTypes' /\ PadsAgree'
    BY <2>1, AuxPadsAssumption DEF PadTypes, PadsAgree
  <2>3. MuxOk'
    <3>1. op'.next = 1 /\ 1 \in 1 .. N + 1
      BY <2>1, AuxPadsAssumption
    <3>2. QED
      BY <2>1, <3>1, NobodyFree DEF MuxOk
  <2>4. TaskTypes'
    BY <2>1 DEF TaskTypes, taskVars, outside, TaskAt
  <2>5. QED
    BY <2>1, <2>2, <2>3, <2>4, NobodyFree
<1>4. QED
  BY <1>1, <1>2, <1>3 DEF AuxCalls

LEMMA ApplyPadKeeps ==
    ASSUME PadTypes, PadsAgree, MuxOk, TaskTypes, ApplyPad
    PROVE  PadTypes' /\ PadsAgree' /\ MuxOk' /\ TaskTypes' /\ UNCHANGED mux /\ mux = Http
<1> DEFINE a == op.next
           c == config[a]
           m == Allowed(a, c.mode)
<1>1. mux = Http /\ op = [kind |-> "apply", next |-> op.next] /\ op.next \in 1 .. N + 1
  BY AppliesHold DEF ApplyPad
<1>2. a \in Pads /\ op.next + 1 \in 1 .. N + 1
  BY <1>1, AuxPadsAssumption DEF ApplyPad, Pads
<1>3. c \in PadConfig /\ m \in Modes
  BY <1>2 DEF PadTypes, PadConfig, Allowed, Modes
<1>4. /\ IF m = mode[a] THEN ApplySame(a, c) ELSE ApplyChange(a, m, c)
      /\ UNCHANGED <<config, mux, taskVars, outside>> /\ op' = [op EXCEPT !.next = @ + 1]
  BY DEF ApplyPad
<1> HIDE DEF a, c, m
<1>5. PadTypes' /\ PadsAgree'
  BY <1>2, <1>3, <1>4, ApplyKeepsPads
<1>6. MuxOk'
  <2>1. op' = [kind |-> "apply", next |-> op.next + 1]
    BY <1>1, <1>4
  <2>2. QED
    BY <1>1, <1>2, <1>4, <2>1, NobodyFree DEF MuxOk
<1>7. TaskTypes'
  <2>1. PICK D \in SUBSET Pads : Marked(D) /\ mv' \in {mv, None}
    <3>1. CASE m = mode[a]
      <4>1. ApplySame(a, c)
        BY <1>4, <3>1
      <4>2. Marked(IF mode[a] = "pwm" /\ c.set # applied[a] THEN {a} ELSE {}) /\ mv' = mv
        BY <4>1 DEF ApplySame
      <4>3. QED
        BY <1>2, <4>2
    <3>2. CASE m # mode[a]
      <4>1. ApplyChange(a, m, c)
        BY <1>4, <3>2
      <4>2. Marked({a}) /\ mv' \in {mv, None}
        BY <4>1 DEF ApplyChange
      <4>3. QED
        BY <1>2, <4>2
    <3>3. QED
      BY <3>1, <3>2
  <2>2. QED
    BY <1>4, <2>1, MarkedTyped
<1>8. QED
  BY <1>1, <1>4, <1>5, <1>6, <1>7

LEMMA ApplyEndKeeps ==
    ASSUME PadTypes, PadsAgree, MuxOk, TaskTypes, ApplyEnd
    PROVE  PadTypes' /\ PadsAgree' /\ MuxOk' /\ TaskTypes' /\ mux = Http /\ mux' = Nobody
<1>1. mux = Http
  BY AppliesHold DEF ApplyEnd
<1>2. /\ mux' = Nobody /\ op' = NoOp
      /\ UNCHANGED <<padVars, dirty, notified, mv, taskVars, outside>>
  BY DEF ApplyEnd
<1>3. PadTypes' /\ PadsAgree'
  BY <1>2 DEF PadTypes, PadsAgree, padVars
<1>4. MuxOk'
  BY <1>2, NobodyFree DEF MuxOk
<1>5. TaskTypes'
  BY <1>2 DEF TaskTypes, taskVars, outside, TaskAt
<1>6. QED
  BY <1>1, <1>2, <1>3, <1>4, <1>5

\* A write that ends is whole, one way or the other.
LEMMA WriteEndKeeps ==
    ASSUME PadTypes, PadsAgree, MuxOk, TaskTypes, WriteEnd
    PROVE  /\ PadTypes' /\ PadsAgree' /\ MuxOk' /\ TaskTypes'
           /\ mux \in Writers /\ mux' = Nobody /\ UNCHANGED <<set, broken>>
           /\ op.failed \in BOOLEAN
           /\ broken = {} => set = IF op.failed THEN op.old ELSE op.plan
<1>1. mux \in Writers /\ WriteTypes /\ WriteSoFar
  BY WritesHold DEF WriteEnd
<1>2. /\ mux' = Nobody /\ op' = NoOp /\ Marked(op.done)
      /\ UNCHANGED <<padVars, mv, taskVars, outside>>
      /\ IF op.failed THEN op.done = {} ELSE Todo = {}
  BY DEF WriteEnd
<1>3. PadTypes' /\ PadsAgree' /\ UNCHANGED <<set, broken>>
  BY <1>2 DEF PadTypes, PadsAgree, padVars
<1>4. MuxOk'
  BY <1>2, NobodyFree DEF MuxOk
<1>5. TaskTypes'
  <2>1. op.done \subseteq Pads /\ mv' \in {mv, None}
    BY <1>1, <1>2 DEF WriteTypes
  <2>2. QED
    BY <1>2, <2>1, MarkedTyped
<1>6. broken = {} => set = IF op.failed THEN op.old ELSE op.plan
  <2>1. /\ set \in [Pads -> Settings \union {None}] /\ op.old \in [Pads -> Settings \union {None}]
        /\ op.plan \in [Pads -> Settings \union {None}] /\ op.failed \in BOOLEAN
    BY <1>1 DEF PadTypes, WriteTypes
  <2>2. CASE op.failed
    <3>1. broken = {} => \A a \in Pads : set[a] = op.old[a]
      BY <1>1, <1>2, <2>2 DEF WriteSoFar
    <3>2. QED
      BY <2>1, <2>2, <3>1
  <2>3. CASE ~op.failed
    <3>1. \A a \in Pads : set[a] = op.plan[a]
      BY <1>2, <2>3 DEF Todo
    <3>2. QED
      BY <2>1, <2>3, <3>1
  <2>4. QED
    BY <2>1, <2>2, <2>3
<1>7. QED
  BY <1>1, <1>2, <1>3, <1>4, <1>5, <1>6 DEF WriteTypes

(* The pad task and the surroundings.                                      *)

LEMMA TaskKeeps ==
    ASSUME PadTypes, TaskTypes, TaskStep
    PROVE  TaskTypes' /\ UNCHANGED <<padVars, muxVars>>
<1> USE DEF TaskTypes, TaskAt, Readings, outside, taskVars
<1>1. CASE TaskWake
  BY <1>1 DEF TaskWake, quiet, Taken
<1>2. CASE TaskLook
  BY <1>2 DEF TaskLook, quiet
<1>3. CASE PubSnap
  <2>1. PICK a \in padTask.todo : a = First(padTask.todo)
    BY <1>3, FirstPad, PadsAreNat DEF PubSnap
  <2>2. a \in Pads /\ mode[a] \in Modes /\ set[a] \in Settings \union {None}
    BY <2>1 DEF PadTypes
  <2> DEFINE snap == [mode |-> mode[a],
                      pwm |-> IF mode[a] = "pwm" THEN set[a] ELSE None,
                      out |-> IF mode[a] # "output" THEN "none" ELSE IF out[a] THEN "on" ELSE "off"]
  <2>3. snap \in Snaps
    BY <2>2 DEF Snaps
  <2>4. padTask' = IF ~connected THEN [padTask EXCEPT !.todo = @ \ {a}]
                   ELSE [padTask EXCEPT !.at = "send", !.snap = snap,
                                        !.mv = IF a = 1 /\ Analog THEN mv ELSE None]
    BY <1>3, <2>1 DEF PubSnap
  <2>5. TaskAt("publish") /\ UNCHANGED <<quiet, dirty, notified, mv, sampleDue, rulesMv, mqttMv,
                                         engineMv, told, toldMv>>
    BY <1>3 DEF PubSnap
  <2> HIDE DEF snap
  <2>6. QED
    BY <2>1, <2>3, <2>4, <2>5 DEF quiet
<1>4. CASE PubSend
  <2>1. PICK a : a = First(padTask.todo)
    OBVIOUS
  <2>2. NoSnap \in Snaps
    BY DEF NoSnap, Snaps, Modes
  <2>3. QED
    BY <1>4, <2>1, <2>2 DEF PubSend, quiet
<1>5. CASE TaskClock
  BY <1>5 DEF TaskClock, quiet
<1>6. CASE TaskSample
  BY <1>6 DEF TaskSample
<1>7. CASE TaskRules
  BY <1>7 DEF TaskRules, Remembered
<1>8. CASE TaskMqtt
  BY <1>8 DEF TaskMqtt, quiet
<1>9. QED
  BY <1>1, <1>2, <1>3, <1>4, <1>5, <1>6, <1>7, <1>8 DEF TaskStep

Surroundings == SamplePeriod \/ (\E v \in Volts : VoltMoves(v)) \/ Connect \/ Disconnect

LEMMA SurroundingsKeep ==
    ASSUME TaskTypes, Surroundings
    PROVE  TaskTypes' /\ UNCHANGED <<padVars, muxVars>>
<1> USE DEF TaskTypes, TaskAt, Readings, outside, taskVars
<1>1. CASE SamplePeriod
  BY <1>1 DEF SamplePeriod
<1>2. ASSUME NEW v \in Volts, VoltMoves(v) PROVE TaskTypes' /\ UNCHANGED <<padVars, muxVars>>
  BY <1>2, AuxPadsAssumption DEF VoltMoves
<1>3. CASE Connect
  <2>1. told' \in [Pads -> Snaps]
    BY <1>3 DEF Connect, Snaps
  <2>2. dirty' \subseteq Pads /\ notified' \in BOOLEAN
    BY <1>3 DEF Connect, Marked
  <2>3. QED
    BY <1>3, <2>1, <2>2 DEF Connect
<1>4. CASE Disconnect
  BY <1>4 DEF Disconnect
<1>5. QED
  BY <1>1, <1>2, <1>3, <1>4 DEF Surroundings

LEMMA PadsStay ==
    ASSUME PadTypes, PadsAgree, MuxOk, UNCHANGED <<padVars, muxVars>>
    PROVE  PadTypes' /\ PadsAgree' /\ MuxOk'
<1>1. MuxOk'
  BY MuxOkStays
<1>2. QED
  BY <1>1 DEF PadTypes, PadsAgree, padVars

-----------------------------------------------------------------------------
(* The clients and the command queue.                                      *)

Refusals == {"busy", "illegal", "failure"}

\* One client moves: it leaves the others' turn alone, and has what its place asks for.
LEMMA ClientMoves ==
    ASSUME ClientsOk, RefusedMovesNothing, NEW c \in Writers, NEW e \in Clients,
           client' = [client EXCEPT ![c] = e], cmdMux' \in Writers \union {Nobody},
           \A d \in Writers \ {c} : /\ cmdMux = d => cmdMux' = d /\ cmdQ' = cmdQ
                                    /\ mux' = d <=> mux = d
                                    /\ d \in moved' <=> d \in moved,
           moved' \subseteq Writers, broken # {} => broken' # {},
           e.at = "driver" <=> mux' = c,
           e.at # "idle" => e.req \in Requests /\ e.answer = "none",
           e.at \in {"pads", "driver", "queue"} =>
             cmdMux' = c /\ (e.req.base # None => Len(cmdQ') < CmdDepth),
           e.at \in {"planned", "pads", "driver"} => c \notin moved',
           e.answer \in Refusals => c \notin moved' \/ broken' # {}
    PROVE  ClientsOk' /\ RefusedMovesNothing'
<1>1. client' \in [Writers -> Clients] /\ client'[c] = e
      /\ \A d \in Writers \ {c} : client'[d] = client[d]
  BY DEF ClientsOk
<1>2. ASSUME NEW d \in Writers
      PROVE  /\ client'[d].at = "driver" <=> mux' = d
             /\ client'[d].at # "idle" => client'[d].req \in Requests /\ client'[d].answer = "none"
             /\ client'[d].at \in {"pads", "driver", "queue"} =>
                  cmdMux' = d /\ (client'[d].req.base # None => Len(cmdQ') < CmdDepth)
             /\ client'[d].at \in {"planned", "pads", "driver"} => d \notin moved'
             /\ client'[d].answer \in Refusals => d \notin moved' \/ broken' # {}
  <2>1. CASE d = c
    BY <1>1, <2>1
  <2>2. CASE d # c
    <3>1. /\ client[d].at = "driver" <=> mux = d
          /\ client[d].at # "idle" => client[d].req \in Requests /\ client[d].answer = "none"
          /\ client[d].at \in {"pads", "driver", "queue"} =>
               cmdMux = d /\ (client[d].req.base # None => Len(cmdQ) < CmdDepth)
          /\ client[d].at \in {"planned", "pads", "driver"} => d \notin moved
          /\ client[d].answer \in Refusals => d \notin moved \/ broken # {}
      BY DEF ClientsOk, RefusedMovesNothing, At, Refusals
    <3>2. client'[d] = client[d] /\ d \in Writers \ {c}
      BY <1>1, <2>2
    <3>3. QED
      BY <3>1, <3>2
  <2>3. QED
    BY <2>1, <2>2
<1>3. QED
  BY <1>1, <1>2 DEF ClientsOk, RefusedMovesNothing, At, Refusals

\* Steps of others, which leave what Modbus has alone and the mutex with whom it is, or
\* free for no client.
LEMMA OthersMove ==
    ASSUME ClientsOk, ShadowFollows, RefusedMovesNothing, UNCHANGED padsVars,
           broken # {} => broken' # {}, mux' = mux \/ (mux \notin Writers /\ mux' \notin Writers)
    PROVE  ClientsOk' /\ ShadowFollows' /\ RefusedMovesNothing'
<1>1. \A c \in Writers : mux = c <=> mux' = c
  OBVIOUS
<1>2. QED
  BY <1>1 DEF ClientsOk, ShadowFollows, RefusedMovesNothing, padsVars, At

LEMMA CommandKeeps ==
    ASSUME ShadowFollows, Command
    PROVE  ShadowFollows' /\ Len(cmdQ') <= Len(cmdQ)
<1>1. cmdQ \in Seq(Requests) /\ Len(cmdQ) \in Nat /\ Len(cmdQ) >= 1 /\ DOMAIN cmdQ = 1 .. Len(cmdQ)
  BY LenProperties, EmptySeq DEF ShadowFollows, Command
<1>2. cmdQ' = SubSeq(cmdQ, 1, 0) \o SubSeq(cmdQ, 2, Len(cmdQ))
  BY DEF Command, Order, RemoveAt
<1>3. /\ SubSeq(cmdQ, 1, 0) = <<>>
      /\ SubSeq(cmdQ, 2, Len(cmdQ)) \in Seq(Requests) /\ Len(SubSeq(cmdQ, 2, Len(cmdQ))) = Len(cmdQ) - 1
      /\ \A i \in 1 .. Len(cmdQ) - 1 : SubSeq(cmdQ, 2, Len(cmdQ))[i] = cmdQ[i + 1]
  BY <1>1, SubSeqProperties
<1>4. /\ cmdQ' \in Seq(Requests) /\ Len(cmdQ') = Len(cmdQ) - 1 /\ DOMAIN cmdQ' = 1 .. Len(cmdQ) - 1
      /\ \A i \in 1 .. Len(cmdQ) - 1 : cmdQ'[i] = cmdQ[i + 1]
  <2>1. cmdQ' = SubSeq(cmdQ, 2, Len(cmdQ))
    BY <1>2, <1>3, ConcatEmptySeq
  <2>2. QED
    BY <1>1, <1>3, <2>1, LenProperties
<1>5. ran' = (IF cmdQ[1].outs = {} THEN cmdQ[1].base ELSE ran) /\ hrShadow' = hrShadow
  BY DEF Command, Order
<1>6. {hrShadow', ran'} \subseteq Bases \union {None}
  <2>1. cmdQ[1] \in Request
    BY <1>1, ElementOfSeq, ModbusPadsAssumption
  <2>2. cmdQ[1].base \in Bases \union {None}
    BY <2>1 DEF Request
  <2>3. QED
    BY <1>5, <2>2 DEF ShadowFollows
<1>7. (\A i \in DOMAIN cmdQ' : ~ToRegisters(cmdQ'[i])) => ran' = hrShadow'
  <2>1. SUFFICES ASSUME \A i \in 1 .. Len(cmdQ) - 1 : ~ToRegisters(cmdQ[i + 1])
                 PROVE  ran' = hrShadow
    BY <1>4, <1>5
  <2>2. \A j \in 2 .. Len(cmdQ) : ~ToRegisters(cmdQ[j])
    <3>1. \A j \in 2 .. Len(cmdQ) : j - 1 \in 1 .. Len(cmdQ) - 1 /\ (j - 1) + 1 = j
      BY <1>1
    <3>2. QED
      BY <2>1, <3>1
  <2>3. 1 \in DOMAIN cmdQ /\ DOMAIN cmdQ = {1} \union 2 .. Len(cmdQ) /\ 1 + 1 = 2
    BY <1>1
  <2>4. CASE ToRegisters(cmdQ[1])
    BY <1>5, <2>2, <2>3, <2>4 DEF ShadowFollows, ToRegisters
  <2>5. CASE ~ToRegisters(cmdQ[1])
    BY <1>5, <2>2, <2>3, <2>5 DEF ShadowFollows, ToRegisters
  <2>6. QED
    BY <2>4, <2>5
<1>8. \A i \in DOMAIN cmdQ' :
        ToRegisters(cmdQ'[i]) /\ (\A j \in i + 1 .. Len(cmdQ') : ~ToRegisters(cmdQ'[j]))
          => cmdQ'[i].base = hrShadow'
  <2>1. SUFFICES ASSUME NEW i \in 1 .. Len(cmdQ) - 1, ToRegisters(cmdQ'[i]),
                        \A j \in i + 1 .. Len(cmdQ) - 1 : ~ToRegisters(cmdQ'[j])
                 PROVE  cmdQ'[i].base = hrShadow
    BY <1>4, <1>5
  <2>2. i + 1 \in DOMAIN cmdQ /\ cmdQ'[i] = cmdQ[i + 1]
    BY <1>1, <1>4
  <2>3. ASSUME NEW j \in (i + 1) + 1 .. Len(cmdQ) PROVE ~ToRegisters(cmdQ[j])
    <3>1. j - 1 \in i + 1 .. Len(cmdQ) - 1 /\ j - 1 \in 1 .. Len(cmdQ) - 1 /\ (j - 1) + 1 = j
      BY <1>1
    <3>2. QED
      BY <1>4, <2>1, <3>1
  <2>4. QED
    BY <2>1, <2>2, <2>3 DEF ShadowFollows
<1>9. \A i \in DOMAIN cmdQ' : cmdQ'[i].base # None
  <2>1. \A i \in 1 .. Len(cmdQ) - 1 : i + 1 \in DOMAIN cmdQ
    BY <1>1
  <2>2. QED
    BY <1>4, <2>1 DEF ShadowFollows
<1>10. Len(cmdQ') <= CmdDepth /\ Len(cmdQ') <= Len(cmdQ)
  BY <1>1, <1>4, ModbusPadsAssumption DEF ShadowFollows
<1>11. QED
  BY <1>4, <1>6, <1>7, <1>8, <1>9, <1>10 DEF ShadowFollows

\* A command that is queued is the last one, and the register's if it is one for it.
LEMMA QueueGrows ==
    ASSUME ShadowFollows, NEW r \in Requests, r.base # None, Len(cmdQ) < CmdDepth,
           cmdQ' = Append(cmdQ, r), hrShadow' = (IF r.outs = {} THEN r.base ELSE hrShadow), ran' = ran
    PROVE  ShadowFollows'
<1>1. cmdQ \in Seq(Requests) /\ Len(cmdQ) \in Nat /\ DOMAIN cmdQ = 1 .. Len(cmdQ)
  BY LenProperties DEF ShadowFollows
<1>2. /\ cmdQ' \in Seq(Requests) /\ Len(cmdQ') = Len(cmdQ) + 1 /\ DOMAIN cmdQ' = 1 .. Len(cmdQ) + 1
      /\ cmdQ'[Len(cmdQ) + 1] = r /\ \A i \in 1 .. Len(cmdQ) : cmdQ'[i] = cmdQ[i]
  BY <1>1, AppendProperties, LenProperties
<1>3. r.base \in Bases \union {None}
  BY ModbusPadsAssumption DEF Request
<1>4. DOMAIN cmdQ' = DOMAIN cmdQ \union {Len(cmdQ) + 1} /\ Len(cmdQ) + 1 \notin DOMAIN cmdQ
  BY <1>1, <1>2
<1>5. (\A i \in DOMAIN cmdQ' : ~ToRegisters(cmdQ'[i])) => ran' = hrShadow'
  BY <1>1, <1>2, <1>4 DEF ShadowFollows, ToRegisters
<1>6. ASSUME NEW i \in DOMAIN cmdQ', ToRegisters(cmdQ'[i]),
             \A j \in i + 1 .. Len(cmdQ') : ~ToRegisters(cmdQ'[j])
      PROVE  cmdQ'[i].base = hrShadow'
  <2>1. CASE i = Len(cmdQ) + 1
    BY <1>2, <1>6, <2>1 DEF ToRegisters
  <2>2. CASE i \in DOMAIN cmdQ
    <3>1. Len(cmdQ) + 1 \in i + 1 .. Len(cmdQ')
      BY <1>1, <1>2, <2>2
    <3>2. ~ToRegisters(r)
      BY <1>2, <1>6, <3>1
    <3>3. \A j \in i + 1 .. Len(cmdQ) : j \in i + 1 .. Len(cmdQ') /\ j \in 1 .. Len(cmdQ)
      BY <1>1, <1>2, <2>2
    <3>4. \A j \in i + 1 .. Len(cmdQ) : ~ToRegisters(cmdQ[j])
      BY <1>2, <1>6, <3>3
    <3>5. ToRegisters(cmdQ[i]) /\ cmdQ'[i] = cmdQ[i]
      BY <1>1, <1>2, <1>6, <2>2
    <3>6. QED
      BY <2>2, <3>2, <3>4, <3>5 DEF ShadowFollows, ToRegisters
  <2>3. QED
    BY <1>4, <2>1, <2>2
<1>7. \A i \in DOMAIN cmdQ' : cmdQ'[i].base # None
  BY <1>1, <1>2, <1>4 DEF ShadowFollows
<1>8. Len(cmdQ') <= CmdDepth /\ {hrShadow', ran'} \subseteq Bases \union {None}
  BY <1>1, <1>2, <1>3, ModbusPadsAssumption DEF ShadowFollows
<1>9. QED
  BY <1>2, <1>5, <1>6, <1>7, <1>8 DEF ShadowFollows

\* A request in the model is one that may be made, or none.
LEMMA RequestTypes ==
    ASSUME NEW r \in Requests
    PROVE  /\ r.pwm \in PwmWrites \union {NoPwm} /\ r.outs \in SUBSET Pads
           /\ r.base \in Bases \union {None}
  BY ModbusPadsAssumption DEF Request

\* A client's record at another place, with the same request
LEMMA Goer ==
    ASSUME ClientsOk, NEW c \in Writers, NEW l \in {"pads", "driver", "queue"}, Goes(c, l)
    PROVE  LET e == [client[c] EXCEPT !.at = l] IN
           /\ e \in Clients /\ client' = [client EXCEPT ![c] = e]
           /\ e.at = l /\ e.req = client[c].req /\ e.answer = client[c].answer
<1>1. client[c] \in Clients
  BY DEF ClientsOk
<1>2. QED
  BY <1>1 DEF Goes, Clients

LEMMA Answerer ==
    ASSUME NEW c \in Writers, NEW x \in {"ok", "busy", "illegal", "failure"}, Answered(c, x)
    PROVE  LET e == [at |-> "idle", req |-> NoRequest, answer |-> x] IN
           /\ e \in Clients /\ client' = [client EXCEPT ![c] = e]
           /\ e.at = "idle" /\ e.answer = x
  BY DEF Answered, Clients

\* Nobody else holds s_cmd_mux while c does, or while nobody does.
LEMMA OthersOut ==
    ASSUME NEW c \in Writers, cmdMux \in {c, Nobody}
    PROVE  \A d \in Writers \ {c} : cmdMux # d
  BY NobodyFree

ClientPart == ClientsOk /\ ShadowFollows /\ RefusedMovesNothing
PadPart == PadTypes /\ PadsAgree /\ MuxOk /\ TaskTypes

LEMMA AuxStays ==
    ASSUME PadPart, UNCHANGED auxVars
    PROVE  PadPart' /\ mux' = mux /\ broken' = broken
  BY DEF auxVars, padVars, muxVars, taskVars, outside, PadPart, PadTypes, PadsAgree, MuxOk,
         WriteTypes, WriteSoFar, TaskTypes, TaskAt

LEMMA ArriveKeeps ==
    ASSUME PadPart, ClientPart, NEW c \in Writers, NEW r \in Requests, Arrive(c, r)
    PROVE  PadPart' /\ ClientPart'
<1> USE DEF ClientPart
<1>1. /\ At(c, "idle") /\ mux = Nobody /\ moved' = moved \ {c}
      /\ UNCHANGED <<padVars, muxVars, dirty, notified, mv, taskVars, outside, cmdMux, cmdQ,
                     hrShadow, ran>>
  BY DEF Arrive
<1>2. PadPart'
  <2>1. TaskTypes'
    BY <1>1 DEF PadPart, TaskTypes, taskVars, outside, TaskAt
  <2>2. QED
    BY <1>1, <2>1, PadsStay DEF PadPart
<1>3. mux' = Nobody /\ broken' = broken
  BY <1>1 DEF muxVars, padVars
<1> DEFINE e == IF PadsFit(r) THEN [at |-> "planned", req |-> r, answer |-> "none"]
                ELSE [at |-> "idle", req |-> NoRequest, answer |-> "illegal"]
<1>4. client' = [client EXCEPT ![c] = e]
  BY DEF Arrive
<1>5. /\ e \in Clients /\ e.at \in {"planned", "idle"}
      /\ e.at # "idle" => e.req \in Requests /\ e.answer = "none"
  BY DEF Clients
<1> HIDE DEF e
<1>6. ClientsOk' /\ RefusedMovesNothing'
  <2>1. moved' \subseteq Writers /\ cmdMux' \in Writers \union {Nobody} /\ c \notin moved'
    BY <1>1 DEF ClientsOk
  <2>2. \A d \in Writers \ {c} : /\ cmdMux = d => cmdMux' = d /\ cmdQ' = cmdQ
                                 /\ mux' = d <=> mux = d
                                 /\ d \in moved' <=> d \in moved
    BY <1>1, <1>3
  <2>3. e.at = "driver" <=> mux' = c
    BY <1>3, <1>5, NobodyFree
  <2>4. e.at \notin {"pads", "driver", "queue"}
    BY <1>5
  <2>5. QED
    BY <1>3, <1>4, <1>5, <2>1, <2>2, <2>3, <2>4, ClientMoves
<1>7. ShadowFollows'
  BY <1>1 DEF ShadowFollows
<1>8. QED
  BY <1>2, <1>6, <1>7

LEMMA LockKeeps ==
    ASSUME PadPart, ClientPart, NEW c \in Writers, Lock(c)
    PROVE  PadPart' /\ ClientPart'
<1> USE DEF ClientPart
<1>1. At(c, "planned") /\ cmdMux = Nobody /\ UNCHANGED <<auxVars, cmdQ, hrShadow, ran, moved>>
  BY DEF Lock
<1>2. PadPart' /\ mux' = mux /\ broken' = broken
  BY <1>1, AuxStays
<1>3. ShadowFollows'
  BY <1>1 DEF ShadowFollows
<1>4. /\ c \notin moved /\ client[c].req \in Requests /\ client[c].answer = "none" /\ mux # c
      /\ moved \subseteq Writers
  BY <1>1 DEF ClientsOk, At
<1>5. \A d \in Writers \ {c} : /\ cmdMux = d => cmdMux' = d /\ cmdQ' = cmdQ
                               /\ mux' = d <=> mux = d
                               /\ d \in moved' <=> d \in moved
  BY <1>1, <1>2, OthersOut
<1>6. ClientsOk' /\ RefusedMovesNothing'
  <2>1. CASE NoRoom(client[c].req)
    <3> DEFINE e == [at |-> "idle", req |-> NoRequest, answer |-> "busy"]
    <3>1. Answered(c, "busy") /\ cmdMux' = cmdMux
      BY <2>1 DEF Lock
    <3>2. e \in Clients /\ client' = [client EXCEPT ![c] = e] /\ e.at = "idle"
      BY <3>1, Answerer
    <3> HIDE DEF e
    <3>3. QED
      BY <1>1, <1>2, <1>4, <1>5, <3>1, <3>2, ClientMoves
  <2>2. CASE ~NoRoom(client[c].req)
    <3> DEFINE e == [client[c] EXCEPT !.at = "pads"]
    <3>1. Goes(c, "pads") /\ cmdMux' = c
      BY <2>2 DEF Lock
    <3>2. /\ e \in Clients /\ client' = [client EXCEPT ![c] = e]
          /\ e.at = "pads" /\ e.req = client[c].req /\ e.answer = client[c].answer
      BY <3>1, Goer
    <3>3. e.req.base # None => Len(cmdQ') < CmdDepth
      <4>1. Len(cmdQ) \in Nat
        BY LenProperties DEF ShadowFollows
      <4>2. QED
        BY <1>1, <2>2, <3>2, <4>1, ModbusPadsAssumption DEF NoRoom
    <3> HIDE DEF e
    <3>4. e.answer \notin Refusals
      BY <1>4, <3>2 DEF Refusals
    <3>5. QED
      BY <1>1, <1>2, <1>4, <1>5, <3>1, <3>2, <3>3, <3>4, ClientMoves
  <2>3. QED
    BY <2>1, <2>2
<1>7. QED
  BY <1>2, <1>3, <1>6

LEMMA SetPadsKeeps ==
    ASSUME PadPart, ClientPart, NEW c \in Writers, SetPads(c)
    PROVE  PadPart' /\ ClientPart'
<1> USE DEF ClientPart
<1> DEFINE r == client[c].req
<1>1. At(c, "pads") /\ UNCHANGED <<cmdQ, hrShadow, ran>>
  BY DEF SetPads
<1>2. /\ c \notin moved /\ r \in Requests /\ client[c].answer = "none" /\ mux # c /\ cmdMux = c
      /\ moved \subseteq Writers /\ (r.base # None => Len(cmdQ) < CmdDepth)
  BY <1>1 DEF ClientsOk, At
<1>3. r.pwm \in PwmWrites \union {NoPwm} /\ r.outs \in SUBSET Pads
  BY <1>2, RequestTypes
<1>4. ShadowFollows'
  BY <1>1 DEF ShadowFollows
<1>5. CASE PwmPads(r) = {} /\ r.outs = {}
  <2> DEFINE e == [client[c] EXCEPT !.at = "queue"]
  <2>1. Goes(c, "queue") /\ UNCHANGED <<auxVars, cmdMux, moved>>
    BY <1>5 DEF SetPads
  <2>2. /\ e \in Clients /\ client' = [client EXCEPT ![c] = e]
        /\ e.at = "queue" /\ e.req = r /\ e.answer = "none"
    BY <1>2, <2>1, Goer
  <2>3. PadPart' /\ mux' = mux /\ broken' = broken
    BY <2>1, AuxStays
  <2>4. \A d \in Writers \ {c} : /\ cmdMux = d => cmdMux' = d /\ cmdQ' = cmdQ
                                 /\ mux' = d <=> mux = d
                                 /\ d \in moved' <=> d \in moved
    BY <1>2, <2>1, <2>3, OthersOut
  <2> HIDE DEF e, r
  <2>5. e.answer \notin Refusals /\ moved' \subseteq Writers
    BY <1>2, <2>1, <2>2 DEF Refusals
  <2>6. ClientsOk' /\ RefusedMovesNothing'
    BY <1>1, <1>2, <2>1, <2>2, <2>3, <2>4, <2>5, ClientMoves
  <2>7. QED
    BY <1>4, <2>3, <2>6
<1>6. CASE ~(PwmPads(r) = {} /\ r.outs = {})
  <2>1. /\ mux = Nobody
        /\ IF ~PadsFit(r)
           THEN Answered(c, "illegal") /\ cmdMux' = Nobody /\ UNCHANGED <<auxVars, moved>>
           ELSE IF r.outs = {}
           THEN WriteBegin(c, r.pwm) /\ Goes(c, "driver") /\ UNCHANGED <<used, cmdMux, moved>>
           ELSE /\ OutSet(r.outs, r.on) /\ Goes(c, "queue") /\ UNCHANGED <<used, cmdMux>>
                /\ moved' = IF out' = out THEN moved ELSE moved \union {c}
    BY <1>6 DEF SetPads
  <2>2. CASE ~PadsFit(r)
    <3> DEFINE e == [at |-> "idle", req |-> NoRequest, answer |-> "illegal"]
    <3>1. Answered(c, "illegal") /\ cmdMux' = Nobody /\ UNCHANGED <<auxVars, moved>>
      BY <2>1, <2>2
    <3>2. e \in Clients /\ client' = [client EXCEPT ![c] = e] /\ e.at = "idle"
      BY <3>1, Answerer
    <3>3. PadPart' /\ mux' = mux /\ broken' = broken
      BY <3>1, AuxStays
    <3>4. \A d \in Writers \ {c} : /\ cmdMux = d => cmdMux' = d /\ cmdQ' = cmdQ
                                   /\ mux' = d <=> mux = d
                                   /\ d \in moved' <=> d \in moved
      BY <1>2, <3>1, <3>3, OthersOut
    <3> HIDE DEF e
    <3>5. ClientsOk' /\ RefusedMovesNothing'
      BY <1>2, <3>1, <3>2, <3>3, <3>4, ClientMoves
    <3>6. QED
      BY <1>4, <3>3, <3>5
  <2>3. CASE PadsFit(r) /\ r.outs = {}
    <3> DEFINE e == [client[c] EXCEPT !.at = "driver"]
    <3>1. WriteBegin(c, r.pwm) /\ Goes(c, "driver") /\ UNCHANGED <<used, cmdMux, moved>>
      BY <2>1, <2>3
    <3>2. /\ e \in Clients /\ client' = [client EXCEPT ![c] = e]
          /\ e.at = "driver" /\ e.req = r /\ e.answer = "none"
      BY <1>2, <3>1, Goer
    <3>3. mux' = c /\ UNCHANGED <<padVars, dirty, notified, mv, taskVars, outside>>
      BY <3>1 DEF WriteBegin
    <3>4. PadPart' /\ broken' = broken
      <4>1. MuxOk'
        BY <1>3, <3>1, WriteBegins DEF PadPart
      <4>2. PadTypes' /\ PadsAgree' /\ TaskTypes' /\ broken' = broken
        BY <3>3 DEF padVars, taskVars, outside, PadPart, PadTypes, PadsAgree, TaskTypes, TaskAt
      <4>3. QED
        BY <4>1, <4>2 DEF PadPart
    <3>5. \A d \in Writers \ {c} : /\ cmdMux = d => cmdMux' = d /\ cmdQ' = cmdQ
                                   /\ mux' = d <=> mux = d
                                   /\ d \in moved' <=> d \in moved
      BY <1>2, <2>1, <3>1, <3>3, OthersOut, NobodyFree
    <3> HIDE DEF e, r
    <3>6. e.answer \notin Refusals /\ moved' \subseteq Writers
      BY <1>2, <3>1, <3>2 DEF Refusals
    <3>7. ClientsOk' /\ RefusedMovesNothing'
      BY <1>1, <1>2, <3>1, <3>2, <3>3, <3>4, <3>5, <3>6, ClientMoves
    <3>8. QED
      BY <1>4, <3>4, <3>7
  <2>4. CASE PadsFit(r) /\ r.outs # {}
    <3> DEFINE e == [client[c] EXCEPT !.at = "queue"]
    <3>1. /\ OutSet(r.outs, r.on) /\ Goes(c, "queue") /\ UNCHANGED cmdMux
          /\ moved' = IF out' = out THEN moved ELSE moved \union {c}
      BY <2>1, <2>4
    <3>2. /\ e \in Clients /\ client' = [client EXCEPT ![c] = e]
          /\ e.at = "queue" /\ e.req = r /\ e.answer = "none"
      BY <1>2, <3>1, Goer
    <3>3. PadPart' /\ mux' = mux /\ broken' = broken
      BY <1>3, <3>1, OutSetKeeps DEF PadPart
    <3>4. \A d \in Writers \ {c} : /\ cmdMux = d => cmdMux' = d /\ cmdQ' = cmdQ
                                   /\ mux' = d <=> mux = d
                                   /\ d \in moved' <=> d \in moved
      BY <1>2, <3>1, <3>3, OthersOut
    <3> HIDE DEF e, r
    <3>5. e.answer \notin Refusals /\ moved' \subseteq Writers
      BY <1>2, <3>1, <3>2 DEF Refusals
    <3>6. ClientsOk' /\ RefusedMovesNothing'
      BY <1>1, <1>2, <3>1, <3>2, <3>3, <3>4, <3>5, ClientMoves
    <3>7. QED
      BY <1>4, <3>3, <3>6
  <2>5. QED
    BY <2>2, <2>3, <2>4
<1>7. QED
  BY <1>5, <1>6

LEMMA PadsSetKeeps ==
    ASSUME PadPart, ClientPart, NEW c \in Writers, PadsSet(c)
    PROVE  PadPart' /\ ClientPart'
<1> USE DEF ClientPart
<1>1. /\ At(c, "driver") /\ WriteEnd /\ UNCHANGED <<cmdQ, hrShadow, ran>>
      /\ IF op.failed THEN Answered(c, "failure") /\ cmdMux' = Nobody
                      ELSE Goes(c, "queue") /\ UNCHANGED cmdMux
      /\ moved' = IF set = op.old THEN moved ELSE moved \union {c}
  BY DEF PadsSet
<1>2. /\ c \notin moved /\ client[c].req \in Requests /\ client[c].answer = "none"
      /\ mux = c /\ cmdMux = c
      /\ moved \subseteq Writers /\ (client[c].req.base # None => Len(cmdQ) < CmdDepth)
  BY <1>1 DEF ClientsOk, At
<1>3. /\ PadPart' /\ mux' = Nobody /\ broken' = broken /\ op.failed \in BOOLEAN
      /\ broken = {} => set = IF op.failed THEN op.old ELSE op.plan
  BY <1>1, WriteEndKeeps DEF PadPart
<1>4. ShadowFollows'
  BY <1>1 DEF ShadowFollows
<1>5. \A d \in Writers \ {c} : /\ cmdMux = d => cmdMux' = d /\ cmdQ' = cmdQ
                               /\ mux' = d <=> mux = d
                               /\ d \in moved' <=> d \in moved
  BY <1>1, <1>2, <1>3, OthersOut, NobodyFree
<1>6. moved' \subseteq Writers /\ mux' # c
  BY <1>1, <1>2, <1>3, NobodyFree
<1>7. CASE op.failed
  <2> DEFINE e == [at |-> "idle", req |-> NoRequest, answer |-> "failure"]
  <2>1. Answered(c, "failure") /\ cmdMux' = Nobody
    BY <1>1, <1>7
  <2>2. e \in Clients /\ client' = [client EXCEPT ![c] = e] /\ e.at = "idle"
    BY <2>1, Answerer
  <2>3. c \notin moved' \/ broken' # {}
    BY <1>1, <1>2, <1>3, <1>7
  <2> HIDE DEF e
  <2>4. ClientsOk' /\ RefusedMovesNothing'
    BY <1>3, <1>5, <1>6, <2>1, <2>2, <2>3, ClientMoves
  <2>5. QED
    BY <1>3, <1>4, <2>4
<1>8. CASE ~op.failed
  <2> DEFINE e == [client[c] EXCEPT !.at = "queue"]
  <2>1. Goes(c, "queue") /\ cmdMux' = cmdMux
    BY <1>1, <1>8
  <2>2. /\ e \in Clients /\ client' = [client EXCEPT ![c] = e]
        /\ e.at = "queue" /\ e.req = client[c].req /\ e.answer = "none"
    BY <1>2, <2>1, Goer
  <2> HIDE DEF e
  <2>3. e.answer \notin Refusals
    BY <2>2 DEF Refusals
  <2>4. ClientsOk' /\ RefusedMovesNothing'
    BY <1>1, <1>2, <1>3, <1>5, <1>6, <2>1, <2>2, <2>3, ClientMoves
  <2>5. QED
    BY <1>3, <1>4, <2>4
<1>9. QED
  BY <1>3, <1>7, <1>8

\* There is room, so a request whose pads were changed is not refused any more.
LEMMA QueueKeeps ==
    ASSUME PadPart, ClientPart, NEW c \in Writers, Queue(c)
    PROVE  PadPart' /\ ClientPart'
<1> USE DEF ClientPart
<1> DEFINE r == client[c].req
           e == [at |-> "idle", req |-> NoRequest, answer |-> "ok"]
<1>1. At(c, "queue") /\ cmdMux' = Nobody /\ UNCHANGED <<auxVars, ran, moved>>
  BY DEF Queue
<1>2. /\ r \in Requests /\ mux # c /\ cmdMux = c /\ moved \subseteq Writers
      /\ r.base # None => Len(cmdQ) < CmdDepth
  BY <1>1 DEF ClientsOk, At
<1>3. Len(cmdQ) \in Nat
  BY LenProperties DEF ShadowFollows
<1>4. /\ Answered(c, "ok")
      /\ \/ r.base = None /\ UNCHANGED <<cmdQ, hrShadow>>
         \/ /\ r.base # None /\ Len(cmdQ) < CmdDepth /\ cmdQ' = Append(cmdQ, r)
            /\ hrShadow' = IF r.outs = {} THEN r.base ELSE hrShadow
  BY <1>2, <1>3, ModbusPadsAssumption DEF Queue
<1> HIDE DEF r
<1>5. ShadowFollows'
  <2>1. CASE r.base = None
    BY <1>1, <1>4, <2>1 DEF ShadowFollows
  <2>2. CASE r.base # None
    BY <1>1, <1>2, <1>4, <2>2, QueueGrows
  <2>3. QED
    BY <2>1, <2>2
<1>6. PadPart' /\ mux' = mux /\ broken' = broken
  BY <1>1, AuxStays
<1>7. e \in Clients /\ client' = [client EXCEPT ![c] = e] /\ e.at = "idle" /\ e.answer \notin Refusals
  BY <1>4, Answerer DEF Refusals
<1> HIDE DEF e
<1>8. \A d \in Writers \ {c} : /\ cmdMux = d => cmdMux' = d /\ cmdQ' = cmdQ
                               /\ mux' = d <=> mux = d
                               /\ d \in moved' <=> d \in moved
  BY <1>1, <1>2, <1>6, OthersOut
<1>9. ClientsOk' /\ RefusedMovesNothing'
  BY <1>1, <1>2, <1>6, <1>7, <1>8, ClientMoves
<1>10. QED
  BY <1>5, <1>6, <1>9

-----------------------------------------------------------------------------
(* The theorems.                                                           *)

PadsInv == PadPart /\ ClientPart

LEMMA PadsInvInit == MpInit => PadsInv
<1> SUFFICES ASSUME MpInit PROVE PadsInv
  OBVIOUS
<1>1. AuxInit /\ NoSnap \in Snaps
  BY DEF MpInit, NoSnap, Snaps, Modes
<1>2. PICK s \in Scenarios : config = s.start
  BY <1>1 DEF AuxInit
<1>3. config \in [Pads -> PadConfig] /\ volt \in Volts
  <2>1. s.start \in Configs /\ Configs \subseteq [Pads -> PadConfig]
    BY AuxPadsAssumption
  <2>2. volt = First(Volts)
    BY <1>1 DEF AuxInit
  <2>3. QED
    BY <1>2, <2>1, <2>2, FirstPad, AuxPadsAssumption
<1>4. PadTypes /\ PadsAgree
  BY <1>1, <1>3 DEF AuxInit, PadTypes, PadsAgree, Modes
<1>5. MuxOk
  <2>1. mux = Http /\ op = [kind |-> "apply", next |-> 1] /\ op.next = 1 /\ 1 \in 1 .. N + 1
    BY <1>1, AuxPadsAssumption DEF AuxInit
  <2>2. QED
    BY <2>1, NobodyFree DEF MuxOk
<1>6. TaskTypes
  BY <1>1, <1>3, AuxPadsAssumption DEF AuxInit, TaskTypes, TaskAt, Readings
<1>7. ClientsOk /\ RefusedMovesNothing
  <2>1. mux \notin Writers
    BY <1>1, NobodyFree DEF AuxInit
  <2>2. QED
    BY <2>1, NobodyFree DEF MpInit, ClientsOk, RefusedMovesNothing, Clients, At
<1>8. ShadowFollows
  BY ModbusPadsAssumption, EmptySeq DEF MpInit, ShadowFollows
<1>9. QED
  BY <1>4, <1>5, <1>6, <1>7, <1>8 DEF PadsInv, PadPart, ClientPart

LEMMA BrokenStays == ASSUME AuxCalls \/ Driver PROVE broken # {} => broken' # {}
  BY DEF AuxCalls, OutSetOne, OutSet, PwmSetOne, SaveConfig, Driver, WriteNext, WriteUndo, PwmStep,
         ApplyPad, ApplySame, ApplyChange, ApplyEnd, padVars

LEMMA PadsInvNext == PadsInv /\ [MpNext]_mpVars => PadsInv'
<1> SUFFICES ASSUME PadsInv, [MpNext]_mpVars PROVE PadsInv'
  OBVIOUS
<1> USE DEF PadsInv
<1>1. PadTypes /\ PadsAgree /\ MuxOk /\ TaskTypes /\ ClientsOk /\ ShadowFollows /\ RefusedMovesNothing
  BY DEF PadPart, ClientPart
<1>2. ASSUME NEW c \in Writers, ClientStep(c) PROVE PadsInv'
  BY <1>2, LockKeeps, SetPadsKeeps, PadsSetKeeps, QueueKeeps DEF ClientStep
<1>3. ASSUME NEW c \in Writers, NEW r \in Requests, Arrive(c, r) PROVE PadsInv'
  BY <1>3, ArriveKeeps
<1>4. CASE Command
  <2>1. ShadowFollows' /\ Len(cmdQ') <= Len(cmdQ)
    BY <1>1, <1>4, CommandKeeps
  <2>2. UNCHANGED <<auxVars, client, cmdMux, hrShadow, moved>>
    BY <1>4 DEF Command
  <2>3. PadPart' /\ mux' = mux /\ broken' = broken
    BY <2>2, AuxStays
  <2>4. Len(cmdQ) < CmdDepth => Len(cmdQ') < CmdDepth
    <3>1. Len(cmdQ) \in Nat /\ Len(cmdQ') \in Nat
      BY <1>1, <2>1, LenProperties DEF ShadowFollows
    <3>2. QED
      BY <2>1, <3>1, ModbusPadsAssumption
  <2>5. ClientsOk' /\ RefusedMovesNothing'
    BY <1>1, <2>2, <2>3, <2>4 DEF ClientsOk, RefusedMovesNothing, At
  <2>6. QED
    BY <2>1, <2>3, <2>5 DEF ClientPart
<1>5. CASE (AuxCalls \/ Driver) /\ UNCHANGED padsVars
  <2>1. PadPart' /\ (mux' = mux \/ (mux \notin Writers /\ mux' \notin Writers))
    <3>1. CASE AuxCalls
      BY <1>1, <3>1, CallsKeep, NobodyFree DEF PadPart
    <3>2. CASE WriteNext \/ WriteUndo
      <4>1. PadTypes' /\ PadsAgree' /\ MuxOk'
        BY <1>1, <3>2, WriteNextKeeps, WriteUndoKeeps
      <4>2. UNCHANGED <<mux, dirty, notified, mv, taskVars, outside>>
        BY <3>2 DEF WriteNext, WriteUndo, PwmStep
      <4>3. TaskTypes'
        BY <1>1, <4>2 DEF TaskTypes, taskVars, outside, TaskAt
      <4>4. QED
        BY <4>1, <4>2, <4>3 DEF PadPart
    <3>3. CASE ApplyPad
      BY <1>1, <3>3, ApplyPadKeeps DEF PadPart
    <3>4. CASE ApplyEnd
      BY <1>1, <3>4, ApplyEndKeeps, NobodyFree DEF PadPart
    <3>5. QED
      BY <1>5, <3>1, <3>2, <3>3, <3>4 DEF Driver
  <2>2. broken # {} => broken' # {}
    BY <1>5, BrokenStays
  <2>3. QED
    BY <1>1, <1>5, <2>1, <2>2, OthersMove DEF ClientPart
<1>6. CASE (TaskStep \/ Surroundings) /\ UNCHANGED padsVars
  <2>1. TaskTypes' /\ UNCHANGED <<padVars, muxVars>>
    BY <1>1, <1>6, TaskKeeps, SurroundingsKeep
  <2>2. PadTypes' /\ PadsAgree' /\ MuxOk'
    BY <1>1, <2>1, PadsStay
  <2>3. mux' = mux /\ broken' = broken
    BY <2>1 DEF padVars, muxVars
  <2>4. QED
    BY <1>1, <1>6, <2>1, <2>2, <2>3, OthersMove DEF PadPart, ClientPart
<1>7. CASE UNCHANGED mpVars
  <2>1. UNCHANGED auxVars /\ UNCHANGED padsVars
    BY <1>7 DEF mpVars
  <2>2. PadPart' /\ mux' = mux /\ broken' = broken
    BY <2>1, AuxStays
  <2>3. QED
    BY <1>1, <2>1, <2>2, OthersMove DEF ClientPart
<1>8. QED
  BY <1>2, <1>3, <1>4, <1>5, <1>6, <1>7 DEF MpNext, Surroundings

LEMMA PadsInvHolds == MpSpec => []PadsInv
  BY PadsInvInit, PadsInvNext, PTL DEF MpSpec

\* What status, Modbus and MQTT report of a pad is what its pin does, through driver calls
\* that fail, undone writes and saves; and the register reads the last command carried
\* out (pwm_set(), aux_io_apply(), command_task()).
THEOREM PadsDoAsReported == MpSpec => []PadInv
<1>1. PadsInv => PadInv
  <2>1. SUFFICES ASSUME PadsInv PROVE PadInv
    OBVIOUS
  <2>2. /\ PadTypes /\ PadsAgree /\ MuxOk /\ TaskTypes /\ ClientsOk /\ ShadowFollows
    BY <2>1 DEF PadsInv, PadPart, ClientPart
  <2>3. op.kind = (IF mux = Nobody THEN "none" ELSE IF mux = Http THEN "apply" ELSE "write")
    <3>1. CASE mux = Nobody
      BY <2>2, <3>1 DEF MuxOk, NoOp
    <3>2. CASE mux = Http
      BY <2>2, <3>2, AppliesHold, NobodyFree DEF MuxOk
    <3>3. CASE mux \in Writers
      BY <2>2, <3>3, NobodyFree DEF MuxOk, WriteTypes
    <3>4. QED
      BY <2>2, <3>1, <3>2, <3>3 DEF MuxOk
  <2>4. AuxTypeOK
    BY <2>2, <2>3 DEF AuxTypeOK, PadTypes, MuxOk, TaskTypes
  <2>5. MpTypeOK
    BY <2>2, <2>4 DEF MpTypeOK, ClientsOk, ShadowFollows, Clients
  <2>6. RunsAsReported
    BY <2>2 DEF RunsAsReported, PadsAgree
  <2>7. ShadowIsLast
    BY <2>2, EmptySeq DEF ShadowIsLast, ShadowFollows
  <2>8. QED
    BY <2>5, <2>6, <2>7 DEF PadInv
<1>2. QED
  BY <1>1, PadsInvHolds, PTL

\* A request answered with an exception has moved no pad, whatever saves, other clients and
\* the command task did between its checks and its changes (local_write_coils(),
\* local_write_holding()).
THEOREM RefusalsMoveNothing == MpSpec => []RefusedMovesNothing
<1>1. PadsInv => RefusedMovesNothing
  BY DEF PadsInv, ClientPart
<1>2. QED
  BY <1>1, PadsInvHolds, PTL

\* aux_io_pwm_write() is all or nothing, for any number of pads and any calls that fail.
THEOREM WritesAreWhole == MpSpec => PwmWhole
<1>1. PadsInv /\ [MpNext]_mpVars
        => [(Writing /\ mux' = Nobody /\ broken = {}) => set' = IF op.failed THEN op.old ELSE op.plan]_auxVars
  <2>1. SUFFICES ASSUME PadsInv, [MpNext]_mpVars, Writing, mux' = Nobody, broken = {}
                 PROVE  set' = IF op.failed THEN op.old ELSE op.plan
    OBVIOUS
  <2>2. PadTypes /\ PadsAgree /\ MuxOk /\ TaskTypes /\ mux \in Writers
    BY <2>1, WritesHold DEF PadsInv, PadPart
  <2>3. WriteEnd
    <3>1. mux # Nobody /\ mux' # mux
      BY <2>1, <2>2, NobodyFree
    <3>2. ASSUME NEW c \in Writers, ClientStep(c) PROVE WriteEnd
      BY <2>1, <3>1, <3>2, NobodyFree
         DEF ClientStep, Lock, SetPads, PadsSet, Queue, auxVars, muxVars, WriteBegin, OutSet
    <3>3. ASSUME NEW c \in Writers, NEW r \in Requests, Arrive(c, r) PROVE FALSE
      BY <3>1, <3>3 DEF Arrive
    <3>4. CASE Command
      BY <3>1, <3>4 DEF Command, auxVars, muxVars
    <3>5. CASE AuxCalls
      BY <2>2, <3>1, <3>5, CallsKeep
    <3>6. CASE Driver
      <4>1. CASE WriteNext \/ WriteUndo
        BY <3>1, <4>1 DEF WriteNext, WriteUndo, PwmStep
      <4>2. CASE ApplyPad \/ ApplyEnd
        BY <2>2, <4>2, ApplyPadKeeps, ApplyEndKeeps, NobodyFree
      <4>3. QED
        BY <3>6, <4>1, <4>2 DEF Driver
    <3>7. CASE TaskStep \/ Surroundings
      BY <2>2, <3>1, <3>7, TaskKeeps, SurroundingsKeep DEF muxVars
    <3>8. CASE UNCHANGED mpVars
      BY <3>1, <3>8 DEF mpVars, auxVars, muxVars
    <3>9. QED
      BY <2>1, <3>2, <3>3, <3>4, <3>5, <3>6, <3>7, <3>8 DEF MpNext, Surroundings
  <2>4. QED
    BY <2>1, <2>2, <2>3, WriteEndKeeps
<1>2. QED
  BY <1>1, PadsInvHolds, PTL DEF MpSpec, PwmWhole
====
