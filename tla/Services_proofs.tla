---------------------------- MODULE Services_proofs ----------------------------
(***************************************************************************)
(* Proofs about what is saved and what is subscribed.  Flash, for any      *)
(* outputs, names and whatever older firmware left there: no two outputs   *)
(* share a topic, and an answered save is kept.  The broker's filters, for *)
(* any topics and rules: those of the firmware's modules outlive whatever  *)
(* the rules do.                                                           *)
(***************************************************************************)
EXTENDS Services, FiniteSetTheorems, WellFoundedInduction, TLAPS

-----------------------------------------------------------------------------
(* Names as topics.                                                        *)

Bound == Cardinality(Outputs)

\* What io_space_normalize() has after each of its rounds, as the LET of Settled has it.
IsRounds(names, g) ==
    g = [n \in 0 .. Bound |-> IF n = 0 THEN Unreserved(names) ELSE Unclashed(g[n - 1])]

LEMMA BoundIsNat == Bound \in Nat
  BY ConfigAssumption, FS_CardinalityType DEF Bound


LEMMA SettledIsRounds ==
    ASSUME NEW names, NEW g, IsRounds(names, g)
    PROVE  \E h : IsRounds(names, h) /\ Settled(names) = h[Bound]
<1> DEFINE h == CHOOSE f : IsRounds(names, f)
<1>1. IsRounds(names, h)
  OBVIOUS
<1>2. Settled(names) = h[Bound]
  BY DEF Settled, IsRounds, Bound
<1>3. QED
  BY <1>1, <1>2

\* A set of numbers with a member has a least one.
LEMMA LeastIn ==
    ASSUME NEW S, S \subseteq Nat, S # {}
    PROVE  \E m \in S : \A n \in S : m <= n
<1>1. PICK m \in S : \A n \in S : ~ (<<n, m>> \in OpToRel(<, Nat))
  BY NatLessThanWellFounded, WFMin
<1>2. \A n \in S : ~ (n < m)
  BY <1>1 DEF OpToRel
<1>3. QED
  BY <1>2

LEMMA RoundsExist ==
    ASSUME NEW names
    PROVE  \E g : IsRounds(names, g)
<1> DEFINE UpTo(m, g) ==
             g = [n \in 0 .. m |-> IF n = 0 THEN Unreserved(names) ELSE Unclashed(g[n - 1])]
           Bad == {m \in Nat : ~ \E g : UpTo(m, g)}
<1>1. Bad = {}
  <2>1. SUFFICES ASSUME Bad # {} PROVE FALSE
    OBVIOUS
  <2>2. PICK m \in Bad : \A n \in Bad : m <= n
    <3> HIDE DEF UpTo
    <3>1. Bad \subseteq Nat
      OBVIOUS
    <3>2. QED
      BY <2>1, <3>1, LeastIn
  <2>3. CASE m = 0
    <3> DEFINE h == [n \in 0 .. m |-> Unreserved(names)]
    <3>1. UpTo(m, h)
      BY <2>3
    <3>2. QED
      BY <3>1
  <2>4. CASE m # 0
    <3>1. m \in Nat /\ m - 1 \in Nat /\ m - 1 \notin Bad
      <4>1. m \in Nat /\ m - 1 \in Nat /\ ~ (m <= m - 1)
        BY <2>4
      <4> HIDE DEF Bad
      <4>2. QED
        BY <2>2, <4>1
    <3>2. PICK g : UpTo(m - 1, g)
      BY <3>1
    <3> DEFINE h == [n \in 0 .. m |-> IF n = m THEN Unclashed(g[m - 1]) ELSE g[n]]
    <3>3. \A n \in 0 .. m : h[n] = IF n = 0 THEN Unreserved(names) ELSE Unclashed(h[n - 1])
      <4> SUFFICES ASSUME NEW n \in 0 .. m
                   PROVE  h[n] = IF n = 0 THEN Unreserved(names) ELSE Unclashed(h[n - 1])
        OBVIOUS
      <4>1. CASE n = m
        BY <2>4, <3>1, <4>1
      <4>2. CASE n # m
        <5>1. n \in 0 .. m - 1
          BY <3>1, <4>2
        <5>2. g[n] = IF n = 0 THEN Unreserved(names) ELSE Unclashed(g[n - 1])
          BY <3>2, <5>1
        <5>3. h[n] = g[n] /\ (n # 0 => n - 1 \in 0 .. m /\ h[n - 1] = g[n - 1])
          BY <3>1, <4>2, <5>1
        <5>4. QED
          BY <5>2, <5>3
      <4>3. QED
        BY <4>1, <4>2
    <3>4. UpTo(m, h)
      <4>1. h = [n \in 0 .. m |-> h[n]]
        OBVIOUS
      <4> HIDE DEF h
      <4>2. QED
        BY <3>3, <4>1
    <3>5. QED
      BY <3>4
  <2>5. QED
    BY <2>3, <2>4
<1>2. QED
  BY <1>1, BoundIsNat DEF IsRounds

\* Naming i, a round changes a name only to none, and only a name in a clash.
Named(names) == {i \in Outputs : names[i] # NoName}

LEMMA OneRound ==
    ASSUME NEW f \in [Outputs -> Names]
    PROVE  LET g == Unclashed(f) IN
           /\ g \in [Outputs -> Names]
           /\ \A i \in Outputs : g[i] \in {f[i], NoName}
           /\ Named(g) \subseteq Named(f)
           /\ g = f \/ Cardinality(Named(g)) < Cardinality(Named(f))
           /\ Cardinality(Named(f)) \in 0 .. Bound /\ Cardinality(Named(g)) \in Nat
<1> DEFINE g == Unclashed(f)
<1>1. g \in [Outputs -> Names] /\ \A i \in Outputs : g[i] \in {f[i], NoName}
  BY ConfigAssumption DEF Unclashed
<1>2. Named(g) \subseteq Named(f) /\ (g = f \/ Named(g) # Named(f))
  <2>1. Named(g) \subseteq Named(f)
    BY <1>1 DEF Named
  <2>2. ASSUME Named(g) = Named(f) PROVE g = f
    <3>1. \A i \in Outputs : g[i] = f[i]
      BY <1>1, <2>2 DEF Named
    <3>2. QED
      BY <1>1, <3>1
  <2>3. QED
    BY <2>1, <2>2
<1> HIDE DEF g
<1>3. IsFiniteSet(Named(f)) /\ IsFiniteSet(Named(g)) /\ Named(f) \subseteq Outputs
  BY ConfigAssumption, <1>2, FS_Subset DEF Named
<1>4. Cardinality(Named(f)) \in Nat /\ Cardinality(Named(g)) \in Nat /\ Cardinality(Named(f)) <= Bound
  BY ConfigAssumption, <1>3, FS_CardinalityType, FS_Subset DEF Bound
<1>5. g = f \/ Cardinality(Named(g)) < Cardinality(Named(f))
  BY <1>2, <1>3, <1>4, FS_Subset
<1>6. QED
  BY <1>1, <1>2, <1>4, <1>5, BoundIsNat DEF g

\* No name is left, then no clash is: without names the numbers differ.
LEMMA SettledStays ==
    ASSUME NEW f \in [Outputs -> Names], Unclashed(f) = f
    PROVE  \A i \in Outputs : ~Clash(f, i)
<1> SUFFICES ASSUME NEW i \in Outputs, NEW j \in Outputs \ {i}, Fragment(f, i) = Fragment(f, j)
             PROVE  FALSE
  BY DEF Clash
<1>1. Clash(f, i) /\ Clash(f, j)
  BY DEF Clash
<1>2. \A k \in Outputs : Clash(f, k) => f[k] = NoName
  <2>1. \A k \in Outputs : Unclashed(f)[k] = IF f[k] # NoName /\ Clash(f, k) THEN NoName ELSE f[k]
    BY DEF Unclashed
  <2>2. QED
    BY <2>1
<1>3. f[i] = NoName /\ f[j] = NoName
  BY <1>1, <1>2
<1>4. NumberOf[i] = NumberOf[j]
  BY <1>3 DEF Fragment
<1>5. QED
  BY <1>4, ConfigAssumption

\* Every round before the last has reached an end or takes a name away.
LEMMA RoundsSettle ==
    ASSUME NEW names \in [Outputs -> Names], NEW h, IsRounds(names, h)
    PROVE  \A n \in 0 .. Bound :
              /\ h[n] \in [Outputs -> Names] /\ \A i \in Outputs : h[n][i] \notin Reserved
              /\ Unclashed(h[n]) = h[n] \/ Cardinality(Named(h[n])) <= Bound - n
<1> DEFINE Good(n) == /\ h[n] \in [Outputs -> Names] /\ \A i \in Outputs : h[n][i] \notin Reserved
                      /\ Unclashed(h[n]) = h[n] \/ Cardinality(Named(h[n])) <= Bound - n
           Bad == {n \in 0 .. Bound : ~ Good(n)}
<1>1. \A n \in 0 .. Bound : h[n] = IF n = 0 THEN Unreserved(names) ELSE Unclashed(h[n - 1])
  BY DEF IsRounds
<1>2. 0 \notin Bad
  <2>1. h[0] = Unreserved(names)
    BY <1>1, BoundIsNat
  <2>2. h[0] \in [Outputs -> Names] /\ \A i \in Outputs : h[0][i] \notin Reserved
    BY <2>1, ConfigAssumption DEF Unreserved
  <2>3. Cardinality(Named(h[0])) <= Bound - 0
    BY <2>2, OneRound, BoundIsNat
  <2>4. QED
    BY <2>2, <2>3
<1>3. ASSUME NEW n \in 1 .. Bound, Good(n - 1) PROVE Good(n)
  <2> DEFINE f == h[n - 1]
  <2>1. h[n] = Unclashed(f) /\ n - 1 \in 0 .. Bound /\ n \in 0 .. Bound
    BY <1>1, BoundIsNat
  <2>2. f \in [Outputs -> Names] /\ \A i \in Outputs : f[i] \notin Reserved
    BY <1>3
  <2>3. Unclashed(f) = f \/ Cardinality(Named(f)) <= Bound - (n - 1)
    BY <1>3
  <2> HIDE DEF f
  <2>4. /\ h[n] \in [Outputs -> Names] /\ \A i \in Outputs : h[n][i] \in {f[i], NoName}
        /\ h[n] = f \/ Cardinality(Named(h[n])) < Cardinality(Named(f))
        /\ Cardinality(Named(f)) \in Nat /\ Cardinality(Named(h[n])) \in Nat
    BY <2>1, <2>2, OneRound
  <2>5. \A i \in Outputs : h[n][i] \notin Reserved
    BY <2>2, <2>4, ConfigAssumption
  <2>6. Unclashed(h[n]) = h[n] \/ Cardinality(Named(h[n])) <= Bound - n
    <3>1. CASE h[n] = f
      BY <2>1, <3>1
    <3>2. CASE h[n] # f
      <4>1. Cardinality(Named(h[n])) < Cardinality(Named(f)) /\ Cardinality(Named(f)) <= Bound - (n - 1)
        BY <2>1, <2>3, <2>4, <3>2
      <4>2. QED
        BY <2>4, <4>1, BoundIsNat
    <3>3. QED
      BY <3>1, <3>2
  <2>7. QED
    BY <2>4, <2>5, <2>6
<1>4. Bad = {}
  <2>1. SUFFICES ASSUME Bad # {} PROVE FALSE
    OBVIOUS
  <2>2. Bad \subseteq Nat
    BY BoundIsNat
  <2>3. PICK m \in Bad : \A n \in Bad : m <= n
    <3> HIDE DEF Bad
    <3>1. QED
      BY <2>1, <2>2, LeastIn
  <2>4. m \in 1 .. Bound /\ m - 1 \in 0 .. Bound /\ ~ (m <= m - 1)
    <3>1. m \in 0 .. Bound /\ m # 0
      BY <1>2, <2>3
    <3>2. QED
      BY <3>1, BoundIsNat
  <2>5. Good(m - 1)
    <3> HIDE DEF Good
    <3>1. QED
      BY <2>3, <2>4
  <2> HIDE DEF Good
  <2>6. QED
    BY <1>3, <2>3, <2>4, <2>5
<1>5. QED
  BY <1>4

LEMMA RoundsKeep ==
    ASSUME NEW names \in [Outputs -> Names], NamesOk(names), NEW h, IsRounds(names, h)
    PROVE  \A n \in 0 .. Bound : h[n] = names
<1> DEFINE Bad == {n \in 0 .. Bound : h[n] # names}
<1>1. Unreserved(names) = names /\ Unclashed(names) = names
  <2>1. \A i \in Outputs : names[i] \notin Reserved /\ ~Clash(names, i)
    BY DEF NamesOk
  <2>2. Unreserved(names) = [i \in Outputs |-> names[i]] /\ Unclashed(names) = [i \in Outputs |-> names[i]]
    BY <2>1 DEF Unreserved, Unclashed
  <2>3. QED
    BY <2>2
<1>2. \A n \in 0 .. Bound : h[n] = IF n = 0 THEN names ELSE Unclashed(h[n - 1])
  BY <1>1 DEF IsRounds
<1>3. Bad = {}
  <2>1. SUFFICES ASSUME Bad # {} PROVE FALSE
    OBVIOUS
  <2>2. Bad \subseteq Nat
    BY BoundIsNat
  <2>3. PICK m \in Bad : \A n \in Bad : m <= n
    <3> HIDE DEF Bad
    <3>1. QED
      BY <2>1, <2>2, LeastIn
  <2>4. m \in 0 .. Bound /\ m # 0 /\ h[m] # names
    BY <1>2, <2>3
  <2>5. m - 1 \in 0 .. Bound /\ ~ (m <= m - 1)
    BY <2>4, BoundIsNat
  <2>6. h[m - 1] = names
    BY <2>3, <2>5
  <2>7. QED
    BY <1>1, <1>2, <2>4, <2>6
<1>4. QED
  BY <1>3

\* Whatever was stored: after the settling no two outputs answer to one topic, and
\* names that were in order stay.
LEMMA SettledNames ==
    ASSUME NEW names \in [Outputs -> Names]
    PROVE  /\ Settled(names) \in [Outputs -> Names] /\ NamesOk(Settled(names))
           /\ NamesOk(names) => Settled(names) = names
<1>1. PICK h : IsRounds(names, h) /\ Settled(names) = h[Bound]
  BY RoundsExist, SettledIsRounds
<1> DEFINE f == h[Bound]
<1>2. Bound \in 0 .. Bound
  BY BoundIsNat
<1>3. /\ f \in [Outputs -> Names] /\ \A i \in Outputs : f[i] \notin Reserved
      /\ Unclashed(f) = f \/ Cardinality(Named(f)) <= Bound - Bound
  BY <1>1, <1>2, RoundsSettle
<1>4. NamesOk(names) => f = names
  BY <1>1, <1>2, RoundsKeep
<1> HIDE DEF f
<1>5. Unclashed(f) = f
  <2>1. SUFFICES ASSUME Cardinality(Named(f)) <= Bound - Bound PROVE Unclashed(f) = f
    BY <1>3
  <2>2. Cardinality(Named(f)) = 0
    BY <1>3, <2>1, OneRound, BoundIsNat
  <2>3. IsFiniteSet(Named(f))
    BY ConfigAssumption, FS_Subset DEF Named
  <2>4. Named(f) = {}
    BY <2>2, <2>3, FS_EmptySet
  <2>5. Cardinality(Named(Unclashed(f))) \in Nat
    BY <1>3, OneRound
  <2>6. QED
    BY <1>3, <2>2, <2>5, OneRound
<1>6. NamesOk(f)
  BY <1>3, <1>5, SettledStays DEF NamesOk
<1>7. QED
  BY <1>1, <1>3, <1>4, <1>6 DEF f

-----------------------------------------------------------------------------
(* The configuration in flash.                                             *)

KeysAre == KeySet = {"di", "dout", "modbus", "led", "auxMode", "auxOut", "mbm"}

LEMMA KeysKnown == KeysAre /\ Len(Keys) = 7 /\ \A k \in 1 .. 7 : Keys[k] \in KeySet
  BY DEF KeysAre, KeySet, Keys

\* Each value is one that may be stored, today's version of it, and passes the checks.
Fields(c) ==
    /\ c = [k \in KeySet |-> c[k]]
    /\ \A k \in KeySet : c[k] \in Value[k]
RowsOk(rows) == \A i \in 1 .. 2 : rows[i].on => rows[i].scale # 0
ConfigOk(c) ==
    /\ Fields(c) /\ c["modbus"].ver = 1 /\ RowsOk(c["mbm"])
    /\ NamesOk(NameOfOutput(c))

ConfigInv ==
    /\ FlashOk(nvs) /\ cfgUsed.names \subseteq Names
    /\ live # Off => ConfigOk(live) /\ live = saved
    /\ saving = NotSaving \/
          /\ live # Off /\ nvs.opened /\ torn
          /\ saving.at \in 1 .. 8 /\ saving = [at |-> saving.at, cfg |-> saving.cfg]
          /\ ConfigOk(saving.cfg)
          /\ \A k \in 1 .. saving.at - 1 : nvs.keys[Keys[k]] = saving.cfg[Keys[k]]
    /\ live # Off /\ ~torn => InUse(Started(nvs)) = InUse(saved)

LEMMA NamesTyped ==
    ASSUME NEW c, Fields(c)
    PROVE  NameOfOutput(c) \in [Outputs -> Names]
<1>1. c.dout \in [Relays -> Names] /\ c.auxOut \in [Pads -> Names]
  BY KeysKnown DEF Fields, Value, KeysAre
<1>2. QED
  BY <1>1 DEF NameOfOutput, Outputs

\* What is loaded is a configuration, its names and rows unchecked.
LEMMA DefaultFields ==
    /\ DOMAIN Defaults = KeySet /\ \A k \in KeySet : Defaults[k] \in Value[k]
    /\ Defaults["modbus"].ver = 1
    /\ \A i \in 1 .. 2 : ~Defaults["mbm"][i].on
<1>1. NoName \in Names /\ NoName \in RowNames
  BY ConfigAssumption
<1>2. DOMAIN Defaults = KeySet
  BY KeysKnown DEF KeysAre, Defaults
<1>3. /\ Defaults["di"] \in Value["di"] /\ Defaults["led"] \in Value["led"]
      /\ Defaults["auxMode"] \in Value["auxMode"] /\ Defaults["modbus"] \in Value["modbus"]
  BY DEF Defaults, Value, Modbus
<1>4. Defaults["dout"] \in Value["dout"] /\ Defaults["auxOut"] \in Value["auxOut"]
  BY <1>1 DEF Defaults, Value
<1>5. Defaults["mbm"] = [i \in 1 .. 2 |-> Blank] /\ Value["mbm"] = [1 .. 2 -> [on : BOOLEAN, name : RowNames, scale : Nat]]
  BY DEF Defaults, Value
<1>6. Defaults["mbm"] \in Value["mbm"] /\ \A i \in 1 .. 2 : ~Defaults["mbm"][i].on
  BY <1>1, <1>5 DEF Blank
<1>7. Defaults["modbus"].ver = 1
  BY DEF Defaults
<1>8. QED
  BY <1>2, <1>3, <1>4, <1>6, <1>7, KeysKnown DEF KeysAre

LEMMA LoadedFields ==
    ASSUME NEW f, FlashOk(f)
    PROVE  Fields(Loaded(f.keys)) /\ Loaded(f.keys)["modbus"].ver = 1
<1> DEFINE c == Loaded(f.keys)
<1>1. Fields(c) <=> \A k \in KeySet : c[k] \in Value[k]
  BY DEF Loaded, Fields
<1>2. ASSUME NEW k \in KeySet
      PROVE  c[k] = IF f.keys[k] # Missing THEN IF k = "modbus" THEN Migrated(f.keys[k]) ELSE f.keys[k]
                    ELSE CASE k = "led" -> "io"
                           [] k = "auxMode" -> IF f.keys["di"] = 11 THEN "input" ELSE Defaults[k]
                           [] OTHER -> Defaults[k]
  BY DEF Loaded
<1> HIDE DEF c
<1>3. ASSUME NEW m \in Value["modbus"] PROVE Migrated(m) \in Value["modbus"] /\ Migrated(m).ver = 1
  BY DEF Migrated, Value, Modbus
<1>4. ASSUME NEW k \in KeySet, f.keys[k] = Missing
      PROVE  c[k] \in Value[k] /\ (k = "modbus" => c[k].ver = 1)
  <2>1. CASE k = "led"
    BY <1>2, <1>4, <2>1 DEF Value
  <2>2. CASE k = "auxMode"
    <3>1. c[k] = IF f.keys["di"] = 11 THEN "input" ELSE Defaults[k]
      BY <1>2, <1>4, <2>2
    <3>2. "input" \in Value["auxMode"]
      BY DEF Value
    <3>3. QED
      BY <2>2, <3>1, <3>2, DefaultFields
  <2>3. CASE k \notin {"led", "auxMode"}
    BY <1>2, <1>4, <2>3, DefaultFields
  <2>4. QED
    BY <2>1, <2>2, <2>3
<1>5. ASSUME NEW k \in KeySet, f.keys[k] # Missing
      PROVE  c[k] \in Value[k] /\ (k = "modbus" => c[k].ver = 1)
  <2>1. f.keys[k] \in Value[k]
    BY <1>5 DEF FlashOk
  <2>2. c[k] = IF k = "modbus" THEN Migrated(f.keys[k]) ELSE f.keys[k]
    BY <1>2, <1>5
  <2>3. QED
    BY <1>3, <2>1, <2>2
<1>6. QED
  BY <1>1, <1>4, <1>5, KeysKnown DEF KeysAre, c

Row == [on : BOOLEAN, name : RowNames, scale : Nat]
NormalRow(r) == IF r.scale = 0 THEN [r EXCEPT !.scale = 1] ELSE r

LEMMA NormalRows ==
    ASSUME NEW r \in Row
    PROVE  /\ NormalRow(r) \in Row /\ NormalRow(r).scale # 0 /\ NormalRow(r).on = r.on
           /\ r.scale # 0 => NormalRow(r) = r
  BY DEF Row, NormalRow

\* What the settling after a load makes of a configuration ...
LEMMA NormalIs ==
    ASSUME NEW c, Fields(c)
    PROVE  LET d == Normal(c)
               names == Settled(NameOfOutput(c))
           IN  /\ d = [k \in KeySet |-> d[k]]
               /\ d["dout"] = [i \in Relays |-> names[i]] /\ d["auxOut"] = [i \in Pads |-> names[i]]
               /\ d["mbm"] = [i \in 1 .. 2 |-> NormalRow(c["mbm"][i])]
               /\ \A k \in KeySet \ {"dout", "auxOut", "mbm"} : d[k] = c[k]
<1> DEFINE names == Settled(NameOfOutput(c))
<1> HIDE DEF names
<1>1. Normal(c) = [c EXCEPT !["dout"] = [i \in Relays |-> names[i]], !["auxOut"] = [i \in Pads |-> names[i]],
                            !["mbm"] = [i \in 1 .. 2 |-> NormalRow(@[i])]]
  BY DEF Normal, NormalRow, names
<1>2. DOMAIN c = KeySet /\ {"dout", "auxOut", "mbm"} \subseteq KeySet
  BY KeysKnown DEF KeysAre, Fields
<1>3. QED
  BY <1>1, <1>2 DEF names

\* ... is one the checks accept; one they accept already means the same afterwards.
LEMMA NormalOk ==
    ASSUME NEW c, Fields(c), c["modbus"].ver = 1
    PROVE  /\ ConfigOk(Normal(c))
           /\ NamesOk(NameOfOutput(c)) /\ RowsOk(c["mbm"]) => InUse(Normal(c)) = InUse(c)
<1> DEFINE d == Normal(c)
           names == Settled(NameOfOutput(c))
<1>1. /\ d = [k \in KeySet |-> d[k]]
      /\ d["dout"] = [i \in Relays |-> names[i]] /\ d["auxOut"] = [i \in Pads |-> names[i]]
      /\ d["mbm"] = [i \in 1 .. 2 |-> NormalRow(c["mbm"][i])]
      /\ \A k \in KeySet \ {"dout", "auxOut", "mbm"} : d[k] = c[k]
  BY NormalIs
<1>2. NameOfOutput(c) \in [Outputs -> Names]
  BY NamesTyped
<1>3. /\ names \in [Outputs -> Names] /\ NamesOk(names)
      /\ NamesOk(NameOfOutput(c)) => names = NameOfOutput(c)
  BY <1>2, SettledNames
<1>4. \A i \in 1 .. 2 : c["mbm"][i] \in Row
  BY KeysKnown DEF KeysAre, Fields, Value, Row
<1>5. \A i \in 1 .. 2 : /\ d["mbm"][i] \in Row /\ d["mbm"][i].scale # 0 /\ d["mbm"][i].on = c["mbm"][i].on
                        /\ c["mbm"][i].scale # 0 => d["mbm"][i] = c["mbm"][i]
  BY <1>1, <1>4, NormalRows
<1> HIDE DEF d, names
<1>6. NameOfOutput(d) = names
  <2>1. \A i \in Relays : d.dout[i] = names[i]
    BY <1>1
  <2>2. \A i \in Pads : d.auxOut[i] = names[i]
    BY <1>1
  <2>3. NameOfOutput(d) = [i \in Outputs |-> names[i]]
    BY <2>1, <2>2 DEF NameOfOutput, Outputs
  <2>4. QED
    BY <1>3, <2>3
<1>7. \A k \in KeySet : d[k] \in Value[k]
  <2>1. d["dout"] \in Value["dout"] /\ d["auxOut"] \in Value["auxOut"]
    BY <1>1, <1>3 DEF Value, Outputs
  <2>2. d["mbm"] \in [1 .. 2 -> Row]
    BY <1>1, <1>5
  <2>3. d["mbm"] \in Value["mbm"]
    BY <2>2 DEF Value, Row
  <2>4. \A k \in KeySet \ {"dout", "auxOut", "mbm"} : d[k] \in Value[k]
    BY <1>1 DEF Fields
  <2>5. QED
    BY <2>1, <2>3, <2>4
<1>8. d["modbus"].ver = 1
  BY <1>1, KeysKnown DEF KeysAre
<1>9. ConfigOk(d)
  BY <1>1, <1>3, <1>5, <1>6, <1>7, <1>8 DEF ConfigOk, Fields, RowsOk
<1>10. ASSUME NamesOk(NameOfOutput(c)), RowsOk(c["mbm"])
       PROVE  InUse(d) = InUse(c)
  <2>1. \A i \in Relays : names[i] = c["dout"][i]
    BY <1>3, <1>10 DEF NameOfOutput, Outputs
  <2>2. \A i \in Pads : names[i] = c["auxOut"][i]
    BY <1>3, <1>10, ConfigAssumption DEF NameOfOutput, Outputs
  <2>3. c["dout"] \in [Relays -> Names] /\ c["auxOut"] \in [Pads -> Names]
    BY KeysKnown DEF KeysAre, Fields, Value
  <2>4. d["dout"] = c["dout"] /\ d["auxOut"] = c["auxOut"]
    <3>1. c["dout"] = [i \in Relays |-> c["dout"][i]] /\ c["auxOut"] = [i \in Pads |-> c["auxOut"][i]]
      BY <2>3
    <3>2. QED
      BY <1>1, <2>1, <2>2, <3>1
  <2>5. {d["mbm"][i] : i \in {j \in 1 .. 2 : d["mbm"][j].on}} = {c["mbm"][i] : i \in {j \in 1 .. 2 : c["mbm"][j].on}}
    BY <1>5, <1>10 DEF RowsOk
  <2>6. d = [c EXCEPT !["mbm"] = d["mbm"]]
    <3>1. \A k \in KeySet \ {"mbm"} : d[k] = c[k]
      BY <1>1, <2>4
    <3>2. QED
      BY <1>1, <3>1, KeysKnown DEF KeysAre, Fields
  <2>7. InUse(c) = [c EXCEPT !["mbm"] = {c["mbm"][i] : i \in {j \in 1 .. 2 : c["mbm"][j].on}}]
    BY DEF InUse, Fields
  <2>8. InUse(d) = [d EXCEPT !["mbm"] = {d["mbm"][i] : i \in {j \in 1 .. 2 : d["mbm"][j].on}}]
    BY DEF InUse
  <2>9. QED
    BY <2>5, <2>6, <2>7, <2>8, KeysKnown DEF KeysAre, Fields
<1>11. QED
  BY <1>9, <1>10 DEF d

\* Whatever is in flash, the board starts with a configuration the checks accept.
LEMMA StartedOk ==
    ASSUME NEW f, FlashOk(f)
    PROVE  ConfigOk(Started(f))
<1>1. ConfigOk(Defaults)
  <2>1. Fields(Defaults) /\ Defaults["modbus"].ver = 1 /\ RowsOk(Defaults["mbm"])
    <3>1. Defaults = [k \in KeySet |-> Defaults[k]]
      BY KeysKnown DEF KeysAre, Defaults
    <3>2. QED
      BY <3>1, DefaultFields DEF Fields, RowsOk
  <2>2. NameOfOutput(Defaults) = [i \in Outputs |-> NoName]
    BY DEF NameOfOutput, Defaults, Outputs
  <2>3. NamesOk([i \in Outputs |-> NoName])
    BY ConfigAssumption DEF NamesOk, Clash, Fragment
  <2>4. QED
    BY <2>1, <2>2, <2>3 DEF ConfigOk
<1>2. ConfigOk(Normal(Loaded(f.keys)))
  BY LoadedFields, NormalOk
<1>3. QED
  BY <1>1, <1>2 DEF Started

\* What a request makes of a configuration in order, its names checked, is in order.
LEMMA ChangesOk ==
    ASSUME ConfigOk(live), cfgUsed.names \subseteq Names, NEW kind \in Kinds,
           NEW c \in Changes(kind), NamesOk(NameOfOutput(c))
    PROVE  ConfigOk(c)
<1> USE DEF Fields
<1>1. KeySet = {"di", "dout", "modbus", "led", "auxMode", "auxOut", "mbm"} /\ Fields(live)
  BY KeysKnown DEF KeysAre, ConfigOk
<1>2. ASSUME NEW k \in KeySet, NEW v \in Value[k], c = [live EXCEPT ![k] = v],
             k = "modbus" => v.ver = 1, k = "mbm" => RowsOk(v)
      PROVE  ConfigOk(c)
  <2>1. DOMAIN c = KeySet /\ c[k] = v /\ \A l \in KeySet \ {k} : c[l] = live[l]
    BY <1>1, <1>2
  <2>2. Fields(c)
    BY <1>1, <1>2, <2>1
  <2>3. c["modbus"].ver = 1 /\ RowsOk(c["mbm"])
    BY <1>1, <1>2, <2>1 DEF ConfigOk
  <2>4. QED
    BY <2>2, <2>3 DEF ConfigOk
<1>3. CASE kind = "dout"
  <2>1. PICK n \in [Relays -> cfgUsed.names] : c = [live EXCEPT !["dout"] = n]
    BY <1>3 DEF Changes
  <2>2. n \in Value["dout"] /\ "dout" \in KeySet
    BY <1>1 DEF Value
  <2>3. QED
    BY <1>2, <2>1, <2>2
<1>4. CASE kind = "auxOut"
  <2>1. PICK n \in [Pads -> cfgUsed.names] : c = [live EXCEPT !["auxOut"] = n]
    BY <1>4 DEF Changes
  <2>2. n \in Value["auxOut"] /\ "auxOut" \in KeySet
    BY <1>1 DEF Value
  <2>3. QED
    BY <1>2, <2>1, <2>2
<1>5. CASE kind = "both"
  <2>1. PICK b \in [Relays -> cfgUsed.names] \X [Pads -> cfgUsed.names] :
           c = [live EXCEPT !["dout"] = b[1], !["auxOut"] = b[2]]
    BY <1>5 DEF Changes
  <2>2. b[1] \in Value["dout"] /\ b[2] \in Value["auxOut"]
    BY DEF Value
  <2>3. /\ c = [k \in KeySet |-> c[k]] /\ c["dout"] = b[1] /\ c["auxOut"] = b[2]
        /\ \A k \in KeySet \ {"dout", "auxOut"} : c[k] = live[k]
    BY <1>1, <2>1
  <2>4. QED
    BY <1>1, <2>2, <2>3 DEF ConfigOk
<1>6. CASE kind = "modbus"
  <2>1. PICK m \in Modbus({live.modbus.ver}) :
           c = [live EXCEPT !["modbus"] = m]
    BY <1>6 DEF Changes
  <2>2. live.modbus.ver = 1
    BY <1>1 DEF ConfigOk
  <2>3. m \in Value["modbus"] /\ m.ver = 1
    BY <2>2 DEF Value, Modbus
  <2>4. QED
    BY <1>1, <1>2, <2>1, <2>3
<1>7. CASE kind = "led"
  <2>1. PICK m \in {"io", "status"} : c = [live EXCEPT !["led"] = m]
    BY <1>7 DEF Changes
  <2>2. m \in Value["led"]
    BY DEF Value
  <2>3. QED
    BY <1>1, <1>2, <2>1, <2>2
<1>8. CASE kind = "auxMode"
  <2>1. PICK m \in {"standard", "input", "output"} : c = [live EXCEPT !["auxMode"] = m]
    BY <1>8 DEF Changes
  <2>2. m \in Value["auxMode"]
    BY DEF Value
  <2>3. QED
    BY <1>1, <1>2, <2>1, <2>2
<1>9. CASE kind = "mbm"
  <2> DEFINE Sent == UNION {[1 .. n -> [on : BOOLEAN, name : RowNames, scale : {0, 1}]] : n \in 0 .. 2}
  <2>1. PICK rows \in Sent : c = [live EXCEPT !["mbm"] = Table(rows)] /\ TableOk(c.mbm)
    BY <1>9 DEF Changes
  <2>2. PICK n \in 0 .. 2 : rows \in [1 .. n -> [on : BOOLEAN, name : RowNames, scale : {0, 1}]]
    OBVIOUS
  <2>3. Len(rows) = n /\ \A i \in 1 .. n : rows[i] \in [on : BOOLEAN, name : RowNames, scale : {0, 1}]
    BY <2>2
  <2>4. Blank \in Row
    BY ConfigAssumption DEF Blank, Row
  <2>5. \A i \in 1 .. 2 : Table(rows)[i] \in Row
    <3> SUFFICES ASSUME NEW i \in 1 .. 2 PROVE Table(rows)[i] \in Row
      OBVIOUS
    <3>1. Table(rows)[i] = IF i > Len(rows) THEN Blank
                           ELSE IF rows[i].scale = 0 /\ ~rows[i].on THEN [rows[i] EXCEPT !.scale = 1]
                           ELSE rows[i]
      BY DEF Table
    <3>2. i \in 1 .. n => rows[i] \in Row /\ [rows[i] EXCEPT !.scale = 1] \in Row
      BY <2>3 DEF Row
    <3>3. QED
      BY <2>3, <2>4, <3>1, <3>2
  <2>6. Table(rows) \in [1 .. 2 -> Row]
    BY <2>5 DEF Table
  <2>7. Table(rows) \in Value["mbm"]
    BY <2>6 DEF Value, Row
  <2>8. c["mbm"] = Table(rows)
    BY <1>1, <2>1
  <2>9. RowsOk(Table(rows))
    BY <2>1, <2>8 DEF TableOk, RowsOk
  <2>10. QED
    BY <1>1, <1>2, <2>1, <2>7, <2>9
<1>10. QED
  BY <1>3, <1>4, <1>5, <1>6, <1>7, <1>8, <1>9 DEF Kinds

LEMMA ConfigInvInit == ConfigInit => ConfigInv
<1> SUFFICES ASSUME ConfigInit PROVE ConfigInv
  OBVIOUS
<1>1. PICK s \in ConfigScenarios :
         /\ cfgUsed = [changes |-> s.changes, names |-> s.names, saves |-> s.saves, faults |-> s.faults]
         /\ nvs \in s.stored
  BY DEF ConfigInit
<1>2. live = Started(nvs) /\ saved = live /\ saving = NotSaving /\ torn = FALSE
  BY DEF ConfigInit
<1>3. FlashOk(nvs) /\ cfgUsed.names \subseteq Names
  BY <1>1, ConfigAssumption
<1>4. ConfigOk(live)
  BY <1>2, <1>3, StartedOk
<1>5. QED
  BY <1>2, <1>3, <1>4 DEF ConfigInv

\* A save that is through: the next start finds what was saved.
LEMMA SavedIsStarted ==
    ASSUME NEW f, NEW c, FlashOk(f), f.opened, ConfigOk(c),
           \A k \in 1 .. 7 : f.keys[Keys[k]] = c[Keys[k]]
    PROVE  InUse(Started(f)) = InUse(c)
<1>1. \A k \in KeySet : f.keys[k] = c[k]
  BY KeysKnown DEF KeySet
<1>2. \A k \in KeySet : c[k] # Missing /\ c[k] \in Value[k]
  BY ConfigAssumption DEF ConfigOk, Fields
<1>3. Migrated(c["modbus"]) = c["modbus"]
  BY DEF ConfigOk, Migrated
<1>4. \A k \in KeySet : Loaded(f.keys)[k] = c[k]
  BY <1>1, <1>2, <1>3 DEF Loaded
<1>5. Loaded(f.keys) = c
  <2>1. Loaded(f.keys) = [k \in KeySet |-> Loaded(f.keys)[k]]
    BY DEF Loaded
  <2>2. c = [k \in KeySet |-> c[k]]
    BY DEF ConfigOk, Fields
  <2>3. QED
    BY <1>4, <2>1, <2>2
<1>6. Started(f) = Normal(c)
  BY <1>5 DEF Started
<1>7. QED
  BY <1>6, NormalOk DEF ConfigOk

LEMMA ConfigInvNext == ConfigInv /\ [ConfigNext]_configVars => ConfigInv'
<1> SUFFICES ASSUME ConfigInv, [ConfigNext]_configVars PROVE ConfigInv'
  OBVIOUS
<1> DEFINE SavingOk == saving = NotSaving \/
              /\ live # Off /\ nvs.opened /\ torn
              /\ saving.at \in 1 .. 8 /\ saving = [at |-> saving.at, cfg |-> saving.cfg]
              /\ ConfigOk(saving.cfg)
              /\ \A k \in 1 .. saving.at - 1 : nvs.keys[Keys[k]] = saving.cfg[Keys[k]]
<1>1. /\ FlashOk(nvs) /\ cfgUsed.names \subseteq Names
      /\ live # Off => ConfigOk(live) /\ live = saved
      /\ SavingOk
      /\ live # Off /\ ~torn => InUse(Started(nvs)) = InUse(saved)
  BY DEF ConfigInv
<1>2. SUFFICES /\ FlashOk(nvs') /\ cfgUsed'.names \subseteq Names
               /\ live' # Off => ConfigOk(live') /\ live' = saved'
               /\ SavingOk'
               /\ live' # Off /\ ~torn' => InUse(Started(nvs')) = InUse(saved')
  BY DEF ConfigInv
<1>3. CASE Start
  <2>1. live' = Started(nvs) /\ saved' = live' /\ UNCHANGED <<nvs, saving, cfgUsed>> /\ live = Off
    BY <1>3 DEF Start
  <2>2. ConfigOk(live')
    BY <1>1, <2>1, StartedOk
  <2>3. saving = NotSaving
    BY <1>1, <2>1
  <2>4. QED
    BY <1>1, <2>1, <2>2, <2>3
<1>4. CASE PowerCut
  <2>1. live' = Off /\ saving' = NotSaving /\ nvs' = nvs /\ cfgUsed' = [cfgUsed EXCEPT !.faults = @ - 1]
    BY <1>4 DEF PowerCut
  <2>2. cfgUsed'.names = cfgUsed.names
    BY <2>1
  <2>3. QED
    BY <1>1, <2>1, <2>2
<1>5. CASE \E kind \in Kinds : Accept(kind)
  <2>1. PICK kind \in Kinds : Accept(kind)
    BY <1>5
  <2>2. PICK c \in Changes(kind) : NamesOk(NameOfOutput(c)) /\ saving' = [at |-> 1, cfg |-> c]
    BY <2>1 DEF Accept
  <2>3. /\ live # Off /\ nvs' = [nvs EXCEPT !.opened = TRUE] /\ torn' = TRUE /\ UNCHANGED <<live, saved>>
        /\ cfgUsed' = [cfgUsed EXCEPT !.saves = @ - 1]
    BY <2>1 DEF Accept
  <2>4. ConfigOk(c)
    BY <1>1, <2>2, <2>3, ChangesOk
  <2>5. FlashOk(nvs') /\ nvs'.opened /\ cfgUsed'.names = cfgUsed.names
    BY <1>1, <2>3 DEF FlashOk
  <2>6. SavingOk'
    BY <2>2, <2>3, <2>4, <2>5
  <2>7. QED
    BY <1>1, <2>3, <2>5, <2>6
<1>6. CASE Put
  <2> DEFINE k == Keys[saving.at]
             n == saving.at
  <2>1. /\ n \in 1 .. 7 /\ UNCHANGED <<live, cfgUsed, saved, torn>>
        /\ nvs' = [nvs EXCEPT !.keys[k] = saving.cfg[k]] /\ saving' = [saving EXCEPT !.at = n + 1]
    BY <1>6, KeysKnown DEF Put
  <2>2. /\ live # Off /\ nvs.opened /\ torn /\ saving = [at |-> n, cfg |-> saving.cfg] /\ ConfigOk(saving.cfg)
        /\ \A m \in 1 .. n - 1 : nvs.keys[Keys[m]] = saving.cfg[Keys[m]]
    BY <1>1, <2>1 DEF NotSaving
  <2>3. saving' = [at |-> n + 1, cfg |-> saving.cfg] /\ k \in KeySet
    BY <2>1, <2>2, KeysKnown
  <2>4. saving.cfg[k] \in Value[k]
    BY <2>2, <2>3 DEF ConfigOk, Fields
  <2> HIDE DEF k
  <2>5. /\ FlashOk(nvs') /\ nvs'.opened
        /\ nvs'.keys[k] = saving.cfg[k] /\ \A l \in KeySet \ {k} : nvs'.keys[l] = nvs.keys[l]
    <3>1. /\ DOMAIN nvs' = {"opened", "keys"} /\ nvs'.opened = nvs.opened
          /\ nvs'.keys = [nvs.keys EXCEPT ![k] = saving.cfg[k]]
      BY <1>1, <2>1 DEF FlashOk
    <3>2. DOMAIN nvs.keys = KeySet
      BY <1>1 DEF FlashOk
    <3>3. QED
      BY <1>1, <2>2, <2>3, <2>4, <3>1, <3>2 DEF FlashOk
  <2>6. ASSUME NEW m \in 1 .. n PROVE nvs'.keys[Keys[m]] = saving.cfg[Keys[m]]
    <3>1. CASE Keys[m] = k
      BY <2>5, <3>1
    <3>2. CASE Keys[m] # k
      <4>1. m \in 1 .. n - 1 /\ Keys[m] \in KeySet
        BY <2>1, <3>2, KeysKnown DEF k
      <4>2. QED
        BY <2>2, <2>5, <3>2, <4>1
    <3>3. QED
      BY <3>1, <3>2
  <2>7. /\ saving'.at \in 1 .. 8 /\ saving'.at - 1 = n /\ saving'.cfg = saving.cfg
        /\ saving' = [at |-> saving'.at, cfg |-> saving'.cfg]
    <3> HIDE DEF n
    <3>1. n \in 1 .. 7 /\ n + 1 \in 1 .. 8
      BY <2>1
    <3>2. saving'.at = n + 1 /\ saving'.cfg = saving.cfg
      BY <2>3
    <3>3. saving'.at - 1 = n
      BY <3>1, <3>2
    <3>4. saving'.at \in 1 .. 8
      BY <3>1, <3>2
    <3>5. saving' = [at |-> saving'.at, cfg |-> saving'.cfg]
      BY <2>3, <3>2
    <3>6. QED
      BY <3>2, <3>3, <3>4, <3>5
  <2>8. SavingOk'
    BY <2>1, <2>2, <2>5, <2>6, <2>7
  <2>9. QED
    BY <1>1, <2>1, <2>2, <2>5, <2>8
<1>7. CASE PutFails
  <2>1. saving' = NotSaving /\ UNCHANGED <<nvs, live, saved, torn>> /\ cfgUsed'.names = cfgUsed.names
    BY <1>7 DEF PutFails
  <2>2. QED
    BY <1>1, <2>1
<1>8. CASE Finish
  <2>1. /\ saving.at = 8 /\ live' = saving.cfg /\ saved' = saving.cfg /\ saving' = NotSaving
        /\ UNCHANGED <<nvs, cfgUsed>>
    BY <1>8, KeysKnown DEF Finish
  <2>2. /\ nvs.opened /\ ConfigOk(saving.cfg)
        /\ \A k \in 1 .. 7 : nvs.keys[Keys[k]] = saving.cfg[Keys[k]]
    BY <1>1, <2>1 DEF NotSaving
  <2>3. InUse(Started(nvs)) = InUse(saving.cfg)
    BY <1>1, <2>2, SavedIsStarted
  <2>4. QED
    BY <1>1, <2>1, <2>2, <2>3
<1>9. CASE EthOnly
  <2>1. live # Off /\ ~nvs.opened /\ nvs' = [nvs EXCEPT !.opened = TRUE] /\ torn' /\ UNCHANGED <<live, saving, cfgUsed, saved>>
    BY <1>9 DEF EthOnly
  <2>2. FlashOk(nvs') /\ saving = NotSaving
    BY <1>1, <2>1 DEF FlashOk
  <2>3. QED
    BY <1>1, <2>1, <2>2
<1>10. CASE UNCHANGED configVars
  BY <1>1, <1>10 DEF configVars
<1>11. QED
  BY <1>3, <1>4, <1>5, <1>6, <1>7, <1>8, <1>9, <1>10 DEF ConfigNext

\* However the flash came about and wherever a save was cut short, no two outputs
\* answer to one topic, and none to "output/set".
THEOREM OneTopicEach == Spec => []TopicsDistinct
<1>1. ConfigInv => TopicsDistinct
  BY ConfigAssumption DEF ConfigInv, ConfigOk, TopicsDistinct, NamesOk, Clash, Fragment
<1>2. Init => ConfigInv
  BY ConfigInvInit DEF Init
<1>3. ConfigInv /\ [Next]_vars => ConfigInv'
  BY ConfigInvNext DEF Next, vars
<1>4. QED
  BY <1>1, <1>2, <1>3, PTL DEF Spec

\* A configuration answered ok runs, and is what the next start runs; one that could
\* not be stored changes neither.
THEOREM SavesAreKept == Spec => []SavedIsKept
<1>1. ConfigInv => SavedIsKept
  BY DEF ConfigInv, SavedIsKept
<1>2. Init => ConfigInv
  BY ConfigInvInit DEF Init
<1>3. ConfigInv /\ [Next]_vars => ConfigInv'
  BY ConfigInvNext DEF Next, vars
<1>4. QED
  BY <1>1, <1>2, <1>3, PTL DEF Spec

-----------------------------------------------------------------------------
(* The firmware's filters.                                                 *)

\* The table has room for all filters there can be (SUBS_MAX is 64; the firmware's
\* modules and the rules together have fewer), or there is no broker.
RoomForAll == \A s \in SessionScenarios : s.subs = 0 \/ s.subs >= Cardinality(Topics)

Messages == [type : {"sub", "unsub", "health"}, topic : Topics]
Connecting == {"clear", "health", "firmware", "broken", "rules", "trying"}

SessionTypes ==
    /\ link \in {"up", "down"} /\ client \in {"init", "connected", "wait"}
    /\ mqtt \in [at : Connecting \union {"loop", "lost"}, todo : SUBSET FwTopics]
    /\ owners \in [Topics -> SUBSET {"fw", "rules"}] /\ outbox \in Seq(Messages)
    /\ DOMAIN engine = DOMAIN Idle /\ engine.topic \in Topics
    /\ broker = [subs |-> broker.subs, health |-> broker.health]
    /\ "scenario" \in DOMAIN used /\ used.scenario \in SessionScenarios

\* A handler runs with the lock; only a client with a broker has any.
HandlerOk ==
    /\ ~Configured => client = "init" /\ mqtt.at = "loop"
    /\ full => ~Configured
    /\ mqtt.at \in Connecting \union {"lost"} => lock = "mqtt"
    /\ mqtt.at = "lost" => client = "wait"

\* The firmware's filters that have had their turn in this session
Subscribed ==
    IF mqtt.at \in {"rules", "trying"} \/ (mqtt.at = "loop" /\ client = "connected") THEN FwTopics
    ELSE IF mqtt.at \in {"firmware", "broken"} THEN FwTopics \ mqtt.todo
    ELSE {}
FwOwns == \A t \in Subscribed : "fw" \in owners[t]

\* None of them is about to be given up, or was, with the message still under way.
NotGivenUp ==
    /\ engine.at = "unsub" => engine.topic \notin FwTopics
    /\ \A i \in DOMAIN outbox : outbox[i].type = "unsub" => outbox[i].topic \notin FwTopics
AtBroker == client = "connected" /\ link = "up" => Subscribed \ refused \subseteq broker.subs

SessionInv ==
    /\ SessionTypes /\ HandlerOk /\ FwOwns
    /\ raced \/ (NotGivenUp /\ AtBroker)

LEMMA SessionInvInit == TopicsInit => SessionInv
<1> SUFFICES ASSUME TopicsInit PROVE SessionInv
  OBVIOUS
<1>1. SessionInit /\ engine = Idle
  BY DEF TopicsInit
<1>2. SessionTypes
  BY <1>1 DEF SessionInit, SessionTypes, Connecting, Idle, Topics, Messages
<1>3. HandlerOk /\ Subscribed = {}
  BY <1>1 DEF SessionInit, HandlerOk, Connecting, Subscribed
<1>4. NotGivenUp
  BY <1>1 DEF SessionInit, NotGivenUp, Idle
<1>5. QED
  BY <1>2, <1>3, <1>4 DEF SessionInv, FwOwns, AtBroker

\* What a call of the library leaves, whoever makes it.
LEMMA Written ==
    ASSUME SessionTypes, NEW type \in {"sub", "unsub", "health"}, NEW t \in Topics, NEW took,
           Write(type, t, took)
    PROVE  /\ outbox' \in Seq(Messages) /\ broker' = [subs |-> broker'.subs, health |-> broker'.health]
           /\ "scenario" \in DOMAIN used' /\ used'.scenario = used.scenario
           /\ \A i \in DOMAIN outbox' :
                 \/ i \in DOMAIN outbox /\ outbox'[i] = outbox[i]
                 \/ outbox'[i].type = type /\ outbox'[i].topic = t
           /\ type \in {"sub", "health"} => broker.subs \subseteq broker'.subs
           /\ type = "sub" /\ link = "up" => t \in broker'.subs
           /\ type = "unsub" => broker.subs \ {t} \subseteq broker'.subs
<1> DEFINE m == [type |-> type, topic |-> t]
<1>1. m \in Messages /\ m.type = type /\ m.topic = t
  BY DEF Messages
<1>2. outbox' = Append(outbox, m) \/ outbox' = outbox
  BY DEF Write, m
<1> DEFINE Kept(i) == i \in DOMAIN outbox /\ outbox'[i] = outbox[i]
           New(i) == outbox'[i].type = type /\ outbox'[i].topic = t
<1>3. outbox' \in Seq(Messages) /\ \A i \in DOMAIN outbox' : Kept(i) \/ New(i)
  <2>1. CASE outbox' = outbox
    <3>1. \A i \in DOMAIN outbox' : Kept(i)
      BY <2>1
    <3> HIDE DEF Kept, New
    <3>2. QED
      BY <2>1, <3>1 DEF SessionTypes
  <2>2. CASE outbox' = Append(outbox, m)
    <3>1. outbox' \in Seq(Messages) /\ DOMAIN outbox' = 1 .. Len(outbox) + 1 /\ DOMAIN outbox = 1 .. Len(outbox)
      BY <1>1, <2>2 DEF SessionTypes
    <3>2. ASSUME NEW i \in DOMAIN outbox' PROVE Kept(i) \/ New(i)
      <4>1. outbox'[i] = IF i = Len(outbox) + 1 THEN m ELSE outbox[i]
        BY <1>1, <2>2, <3>1 DEF SessionTypes
      <4>2. CASE i = Len(outbox) + 1
        BY <1>1, <4>1, <4>2
      <4>3. CASE i # Len(outbox) + 1
        <5>1. i \in DOMAIN outbox
          BY <3>1, <4>3 DEF SessionTypes
        <5>2. QED
          BY <4>1, <4>3, <5>1
      <4>4. QED
        BY <4>2, <4>3
    <3> HIDE DEF Kept, New
    <3>3. QED
      BY <3>1, <3>2
  <2>3. QED
    BY <1>2, <2>1, <2>2
<1>4. "scenario" \in DOMAIN used' /\ used'.scenario = used.scenario
  <2>1. used' = used \/ used' = [used EXCEPT !["late"] = @ + 1]
    BY DEF Write, Spend
  <2>2. QED
    BY <2>1 DEF SessionTypes
<1>5. broker' = (IF link = "up" THEN After(broker, m) ELSE broker)
  BY DEF Write, m
<1>6. After(broker, m) = CASE type = "sub"   -> [broker EXCEPT !.subs = @ \union {t}]
                           [] type = "unsub" -> [broker EXCEPT !.subs = @ \ {t}]
                           [] OTHER          -> [broker EXCEPT !.health = "online"]
  BY <1>1 DEF After
<1>7. broker = [subs |-> broker.subs, health |-> broker.health]
  BY DEF SessionTypes
<1> HIDE DEF m
<1>8. CASE type = "sub"
  BY <1>3, <1>4, <1>5, <1>6, <1>7, <1>8
<1>9. CASE type = "unsub"
  BY <1>3, <1>4, <1>5, <1>6, <1>7, <1>9
<1>10. CASE type = "health"
  BY <1>3, <1>4, <1>5, <1>6, <1>7, <1>10
<1>11. QED
  BY <1>8, <1>9, <1>10

\* A limit that is used up says nothing else.
LEMMA Spent ==
    ASSUME SessionTypes, NEW k \in {"drops", "refusals", "reloads", "late"}, Spend(k)
    PROVE  "scenario" \in DOMAIN used' /\ used'.scenario = used.scenario
  BY DEF SessionTypes, Spend

\* A message put into the outbox only
LEMMA Waits ==
    ASSUME SessionTypes, NEW m \in Messages, outbox' = Append(outbox, m)
    PROVE  /\ outbox' \in Seq(Messages)
           /\ \A i \in DOMAIN outbox' :
                 \/ i \in DOMAIN outbox /\ outbox'[i] = outbox[i]
                 \/ outbox'[i] = m
<1>1. outbox' \in Seq(Messages) /\ DOMAIN outbox' = 1 .. Len(outbox) + 1 /\ DOMAIN outbox = 1 .. Len(outbox)
  BY DEF SessionTypes
<1>2. ASSUME NEW i \in DOMAIN outbox'
      PROVE  (i \in DOMAIN outbox /\ outbox'[i] = outbox[i]) \/ outbox'[i] = m
  <2>1. outbox'[i] = IF i = Len(outbox) + 1 THEN m ELSE outbox[i]
    BY <1>1 DEF SessionTypes
  <2>2. i # Len(outbox) + 1 => i \in DOMAIN outbox
    BY <1>1 DEF SessionTypes
  <2>3. QED
    BY <2>1, <2>2
<1>3. QED
  BY <1>1, <1>2

\* The health message, however its publishing ends
LEMMA Published ==
    ASSUME SessionTypes, Publishes
    PROVE  /\ outbox' \in Seq(Messages) /\ broker' = [subs |-> broker'.subs, health |-> broker'.health]
           /\ "scenario" \in DOMAIN used' /\ used'.scenario = used.scenario
           /\ \A i \in DOMAIN outbox' :
                 \/ i \in DOMAIN outbox /\ outbox'[i] = outbox[i]
                 \/ outbox'[i].type = "health"
           /\ broker.subs \subseteq broker'.subs
<1>1. Rules \in Topics /\ HealthMessage \in Messages /\ HealthMessage.type = "health"
  BY DEF Topics, Messages, HealthMessage
<1>2. CASE Write("health", Rules, TRUE)
  BY <1>1, <1>2, Written
<1>3. CASE outbox' = Append(outbox, HealthMessage) /\ UNCHANGED <<broker, used>>
  <2>1. /\ outbox' \in Seq(Messages)
        /\ \A i \in DOMAIN outbox' :
              (i \in DOMAIN outbox /\ outbox'[i] = outbox[i]) \/ outbox'[i] = HealthMessage
    BY <1>1, <1>3, Waits
  <2>2. QED
    BY <1>1, <1>3, <2>1 DEF SessionTypes
<1>4. CASE Refuse
  <2>1. UNCHANGED <<outbox, broker>> /\ "scenario" \in DOMAIN used' /\ used'.scenario = used.scenario
    BY <1>4, Spent DEF Refuse
  <2>2. QED
    BY <2>1 DEF SessionTypes
<1>5. QED
  BY <1>2, <1>3, <1>4 DEF Publishes

LEMMA Room ==
    ASSUME RoomForAll, SessionTypes, Configured, NEW t \in Topics, owners[t] = {}
    PROVE  ~Full
<1> DEFINE Known == {s \in Topics : owners[s] # {}}
<1>1. used.scenario.subs \in Nat /\ used.scenario.subs >= Cardinality(Topics)
  BY SessionAssumption DEF RoomForAll, SessionTypes, Configured
<1>2. IsFiniteSet(Topics) /\ Known \subseteq Topics /\ Known # Topics
  BY SessionAssumption
<1> HIDE DEF Known
<1>3. Cardinality(Known) < Cardinality(Topics) /\ Cardinality(Known) \in Nat /\ Cardinality(Topics) \in Nat
  BY <1>2, FS_Subset, FS_CardinalityType
<1>4. Cardinality(Known) >= used.scenario.subs => Cardinality(Known) >= Cardinality(Topics)
  BY <1>1, <1>3
<1>5. QED
  BY <1>3, <1>4 DEF Full, Known

LEMMA Added ==
    ASSUME RoomForAll, SessionTypes, HandlerOk,
           NEW owner \in {"fw", "rules"}, NEW t \in Topics, subs_add(owner, t)
    PROVE  /\ owners' \in [Topics -> SUBSET {"fw", "rules"}]
           /\ \A s \in Topics : owners[s] \subseteq owners'[s]
           /\ Configured => owner \in owners'[t]
           /\ full' => ~Configured
<1>1. CASE owners[t] = {} /\ Full
  <2>1. ~Configured
    BY <1>1, Room
  <2>2. QED
    BY <1>1, <2>1 DEF subs_add, SessionTypes
<1>2. CASE ~(owners[t] = {} /\ Full)
  <2>1. owners' = [owners EXCEPT ![t] = @ \union {owner}] /\ full' = full
    BY <1>2 DEF subs_add
  <2>2. owners \in [Topics -> SUBSET {"fw", "rules"}] /\ (full => ~Configured)
    BY DEF SessionTypes, HandlerOk
  <2>3. owners'[t] = owners[t] \union {owner} /\ \A s \in Topics \ {t} : owners'[s] = owners[s]
    BY <2>1, <2>2
  <2>4. owners' \in [Topics -> SUBSET {"fw", "rules"}]
    BY <2>1, <2>2
  <2>5. QED
    BY <2>1, <2>2, <2>3, <2>4
<1>3. QED
  BY <1>1, <1>2

\* The engine's own steps.
LEMMA EngineMoves ==
    ASSUME SessionInv, UNCHANGED <<link, broker, client, lock, outbox, mqtt, owners, full, refused, raced>>,
           "scenario" \in DOMAIN used', used'.scenario = used.scenario,
           DOMAIN engine' = DOMAIN Idle, engine'.topic \in Topics,
           engine'.at = "unsub" => engine.at = "unsub" /\ engine'.topic = engine.topic
    PROVE  SessionInv'
<1>1. SessionTypes'
  BY DEF SessionInv, SessionTypes
<1>2. HandlerOk' /\ Subscribed' = Subscribed
  BY DEF SessionInv, HandlerOk, Configured, Subscribed
<1>3. FwOwns'
  BY <1>2 DEF SessionInv, FwOwns
<1>4. NotGivenUp => NotGivenUp'
  BY DEF NotGivenUp
<1>5. AtBroker => AtBroker'
  BY <1>2 DEF AtBroker
<1>6. QED
  BY <1>1, <1>2, <1>3, <1>4, <1>5 DEF SessionInv

\* The engine's calls of the library: only one that unsubscribes takes a filter away.
LEMMA EngineWrites ==
    ASSUME SessionInv, NEW type \in {"sub", "unsub"}, NEW took, Write(type, engine.topic, took),
           type = "unsub" => engine.at = "unsub",
           UNCHANGED <<link, client, lock, mqtt, owners, full, refused, raced>>,
           DOMAIN engine' = DOMAIN Idle, engine'.topic \in Topics, engine'.at # "unsub"
    PROVE  SessionInv'
<1>1. SessionTypes /\ engine.topic \in Topics
  BY DEF SessionInv, SessionTypes
<1>2. /\ outbox' \in Seq(Messages) /\ broker' = [subs |-> broker'.subs, health |-> broker'.health]
      /\ "scenario" \in DOMAIN used' /\ used'.scenario = used.scenario
      /\ \A i \in DOMAIN outbox' :
            \/ i \in DOMAIN outbox /\ outbox'[i] = outbox[i]
            \/ outbox'[i].type = type /\ outbox'[i].topic = engine.topic
      /\ type = "sub" => broker.subs \subseteq broker'.subs
      /\ type = "unsub" => broker.subs \ {engine.topic} \subseteq broker'.subs
  BY <1>1, Written
<1>3. SessionTypes'
  BY <1>1, <1>2 DEF SessionTypes
<1>4. HandlerOk' /\ Subscribed' = Subscribed /\ Subscribed \subseteq FwTopics
  BY <1>1, <1>2 DEF SessionInv, HandlerOk, Configured, Subscribed
<1>5. FwOwns'
  BY <1>4 DEF SessionInv, FwOwns
<1>6. ASSUME NotGivenUp, AtBroker PROVE NotGivenUp' /\ AtBroker'
  <2>1. type = "unsub" => engine.topic \notin FwTopics
    BY <1>6 DEF NotGivenUp
  <2>2. NotGivenUp'
    <3>1. ASSUME NEW i \in DOMAIN outbox', outbox'[i].type = "unsub" PROVE outbox'[i].topic \notin FwTopics
      <4>1. CASE i \in DOMAIN outbox /\ outbox'[i] = outbox[i]
        BY <1>6, <3>1, <4>1 DEF NotGivenUp
      <4>2. CASE outbox'[i].type = type /\ outbox'[i].topic = engine.topic
        BY <2>1, <3>1, <4>2
      <4>3. QED
        BY <1>2, <4>1, <4>2
    <3>2. QED
      BY <3>1 DEF NotGivenUp
  <2>3. Subscribed \intersect broker.subs \subseteq broker'.subs
    BY <1>2, <1>4, <2>1
  <2>4. AtBroker'
    BY <1>4, <1>6, <2>3 DEF AtBroker
  <2>5. QED
    BY <2>2, <2>4
<1>7. QED
  BY <1>3, <1>4, <1>5, <1>6 DEF SessionInv

\* The engine's task.
LEMMA EngineKeeps ==
    ASSUME RoomForAll, SessionInv, Engine
    PROVE  SessionInv'
<1>1. /\ SessionTypes /\ HandlerOk /\ FwOwns /\ DOMAIN engine = DOMAIN Idle
      /\ "scenario" \in DOMAIN used /\ engine.topic \in Topics
  BY DEF SessionInv, SessionTypes
<1>2. Idle.topic \in Topics /\ Idle.at = "idle"
  BY DEF Idle, Topics
<1>3. CASE \/ List \/ Dropped \/ Marks \/ Done \/ RetryDue \/ \E t \in Topics : Offline(t)
  <2>1. UNCHANGED sessionVars /\ raced' = raced
    BY <1>3 DEF List, Dropped, Marks, Done, RetryDue, Offline, sessionVars
  <2>2. DOMAIN engine' = DOMAIN Idle /\ engine'.topic \in Topics /\ engine'.at # "unsub"
    <3>1. CASE List
      BY <1>1, <3>1 DEF List, Listed, Idle
    <3>2. CASE Dropped
      BY <1>1, <3>2 DEF Dropped, Idle
    <3>3. CASE Marks
      BY <1>1, <3>3 DEF Marks, Idle
    <3>4. CASE Done
      BY <1>2, <3>4 DEF Done
    <3>5. CASE RetryDue
      BY <1>2, <3>5 DEF RetryDue, Idle
    <3>6. CASE \E t \in Topics : Offline(t)
      BY <1>1, <3>6 DEF Offline, Idle
    <3>7. QED
      BY <1>3, <3>1, <3>2, <3>3, <3>4, <3>5, <3>6
  <2>3. QED
    BY <1>1, <2>1, <2>2, EngineMoves DEF sessionVars
<1>4. CASE Unsubscribe
  <2>1. /\ engine.at = "unsub" /\ engine' = [engine EXCEPT !.at = "drop"]
        /\ UNCHANGED <<link, client, lock, mqtt, owners, full, refused, raced>>
    BY <1>4 DEF Unsubscribe
  <2>2. DOMAIN engine' = DOMAIN Idle /\ engine'.topic \in Topics /\ engine'.at # "unsub"
    BY <1>1, <2>1 DEF Idle
  <2>3. CASE \E took \in BOOLEAN : Write("unsub", engine.topic, took)
    BY <2>1, <2>2, <2>3, EngineWrites
  <2>4. CASE Refuse
    <3>1. UNCHANGED <<outbox, broker>> /\ "scenario" \in DOMAIN used' /\ used'.scenario = used.scenario
      BY <1>1, <2>4, Spent DEF Refuse
    <3>2. QED
      BY <2>1, <2>2, <3>1, EngineMoves
  <2>5. QED
    BY <1>4, <2>3, <2>4 DEF Unsubscribe
<1>5. CASE Subscribe
  <2>1. UNCHANGED <<link, client, lock, mqtt, owners, full, refused, raced>>
    BY <1>5 DEF Subscribe
  <2>2. DOMAIN engine' = DOMAIN Idle /\ engine'.topic \in Topics /\ engine'.at # "unsub"
    BY <1>1, <1>5 DEF Subscribe, Idle
  <2>3. CASE \E took \in BOOLEAN : Write("sub", engine.topic, took)
    BY <2>1, <2>2, <2>3, EngineWrites
  <2>4. CASE Refuse
    <3>1. UNCHANGED <<outbox, broker>> /\ "scenario" \in DOMAIN used' /\ used'.scenario = used.scenario
      BY <1>1, <2>4, Spent DEF Refuse
    <3>2. QED
      BY <2>1, <2>2, <3>1, EngineMoves
  <2>5. QED
    BY <1>5, <2>3, <2>4 DEF Subscribe
<1>6. ASSUME NEW t \in Topics, Tries(t) PROVE SessionInv'
  <2>1. /\ subs_add("rules", t)
        /\ engine' = [engine EXCEPT !.try = @ \ {t}, !.topic = t, !.took = FALSE,
                        !.at = IF client = "connected" THEN "sub" ELSE "mark"]
        /\ UNCHANGED <<link, broker, client, lock, outbox, mqtt, used, refused, raced>>
    BY <1>6 DEF Tries
  <2>2. /\ owners' \in [Topics -> SUBSET {"fw", "rules"}]
        /\ \A s \in Topics : owners[s] \subseteq owners'[s]
        /\ full' => ~Configured
    BY <1>1, <2>1, Added
  <2>3. DOMAIN engine' = DOMAIN Idle /\ engine'.topic \in Topics /\ engine'.at # "unsub"
    BY <1>1, <2>1 DEF Idle
  <2>4. SessionTypes'
    BY <1>1, <2>1, <2>2, <2>3 DEF SessionTypes
  <2>5. HandlerOk' /\ Subscribed' = Subscribed /\ Subscribed \subseteq Topics
    BY <1>1, <2>1, <2>2 DEF HandlerOk, Configured, Subscribed, Topics
  <2>6. FwOwns'
    BY <1>1, <2>2, <2>5 DEF FwOwns
  <2>7. NotGivenUp /\ AtBroker => NotGivenUp' /\ AtBroker'
    BY <2>1, <2>3, <2>5 DEF NotGivenUp, AtBroker
  <2>8. QED
    BY <2>1, <2>4, <2>5, <2>6, <2>7 DEF SessionInv
\* What the firmware holds stays in the table, and with it at the broker.
<1>7. ASSUME NEW t \in Topics, Drops(t) PROVE SessionInv'
  <2>1. /\ owners' = [owners EXCEPT ![t] = @ \ {"rules"}]
        /\ engine' = [engine EXCEPT !.drop = @ \ {t}, !.topic = t,
                        !.at = IF Left("rules", t) = {} /\ client = "connected" THEN "unsub" ELSE "drop"]
        /\ raced' = (raced \/ (t \in FwTopics /\ mqtt.at \notin {"loop", "lost"}))
        /\ UNCHANGED <<link, broker, client, lock, outbox, mqtt, full, used, refused>>
    BY <1>7 DEF Drops, subs_remove
  <2>2. /\ owners' \in [Topics -> SUBSET {"fw", "rules"}]
        /\ \A s \in Topics : "fw" \in owners[s] => "fw" \in owners'[s]
    BY <1>1, <2>1 DEF SessionTypes
  <2>3. DOMAIN engine' = DOMAIN Idle /\ engine'.topic = t
    BY <1>1, <2>1 DEF Idle
  <2>4. SessionTypes'
    BY <1>1, <2>1, <2>2, <2>3 DEF SessionTypes
  <2>5. HandlerOk' /\ Subscribed' = Subscribed /\ Subscribed \subseteq Topics
    BY <1>1, <2>1 DEF HandlerOk, Configured, Subscribed, Topics
  <2>6. FwOwns'
    BY <1>1, <2>2, <2>5 DEF FwOwns
  <2>7. ASSUME t \in FwTopics, mqtt.at \in {"loop", "lost"} PROVE engine'.at # "unsub"
    <3>1. CASE client = "connected"
      <4>1. t \in Subscribed
        BY <1>1, <2>7, <3>1 DEF Subscribed, HandlerOk
      <4>2. "fw" \in Left("rules", t)
        BY <1>1, <4>1 DEF FwOwns, Left
      <4>3. engine'.at = "drop"
        BY <1>1, <2>1, <4>2 DEF Idle
      <4>4. QED
        BY <4>3
    <3>2. CASE client # "connected"
      <4>1. engine'.at = "drop"
        BY <1>1, <2>1, <3>2 DEF Idle
      <4>2. QED
        BY <4>1
    <3>3. QED
      BY <3>1, <3>2
  <2>8. ASSUME ~raced', NotGivenUp, AtBroker PROVE NotGivenUp' /\ AtBroker'
    <3>1. engine'.at = "unsub" => engine'.topic \notin FwTopics
      BY <2>1, <2>3, <2>7, <2>8
    <3>2. QED
      BY <2>1, <2>5, <2>8, <3>1 DEF NotGivenUp, AtBroker
  <2>9. QED
    BY <2>1, <2>4, <2>5, <2>6, <2>8 DEF SessionInv
<1>8. QED
  BY <1>3, <1>4, <1>5, <1>6, <1>7 DEF Engine

\* The health message that waits
LEMMA Beats ==
    ASSUME SessionTypes, outbox' = outbox \/ outbox' = Append(outbox, HealthMessage)
    PROVE  /\ outbox' \in Seq(Messages)
           /\ \A i \in DOMAIN outbox' :
                 (i \in DOMAIN outbox /\ outbox'[i] = outbox[i]) \/ outbox'[i].type = "health"
<1>1. HealthMessage \in Messages /\ HealthMessage.type = "health"
  BY DEF Topics, Messages, HealthMessage
<1>2. QED
  BY <1>1, Waits DEF SessionTypes

\* A connection given up, whoever notices
LEMMA GivesUp ==
    ASSUME SessionInv, GivenUp, Configured,
           outbox' = outbox \/ outbox' = Append(outbox, HealthMessage),
           "scenario" \in DOMAIN used', used'.scenario = used.scenario
    PROVE  SessionInv'
<1>1. SessionTypes /\ HandlerOk /\ mqtt = [at |-> mqtt.at, todo |-> mqtt.todo] /\ mqtt.todo \subseteq FwTopics
  BY DEF SessionInv, SessionTypes
<1>2. /\ client' = "wait" /\ lock' = "mqtt" /\ mqtt' = [mqtt EXCEPT !.at = "lost"]
      /\ UNCHANGED <<link, broker, owners, full, refused, engine, raced>>
  BY DEF GivenUp
<1>3. mqtt' = [at |-> "lost", todo |-> mqtt.todo]
  BY <1>1, <1>2
<1>4. /\ outbox' \in Seq(Messages)
      /\ \A i \in DOMAIN outbox' :
            (i \in DOMAIN outbox /\ outbox'[i] = outbox[i]) \/ outbox'[i].type = "health"
  BY <1>1, Beats
<1>5. SessionTypes'
  BY <1>1, <1>2, <1>3, <1>4 DEF SessionTypes
<1>6. HandlerOk' /\ Subscribed' = {}
  BY <1>1, <1>2, <1>3 DEF HandlerOk, Configured, Connecting, Subscribed
<1>7. NotGivenUp => NotGivenUp'
  BY <1>2, <1>4 DEF NotGivenUp
<1>8. QED
  BY <1>2, <1>5, <1>6, <1>7 DEF SessionInv, FwOwns, AtBroker

\* The handler of a new connection, and the client's other steps.
LEMMA HandlerKeeps ==
    ASSUME RoomForAll, SessionInv, Mqtt
    PROVE  SessionInv'
<1>1. SessionTypes /\ HandlerOk /\ FwOwns
  BY DEF SessionInv
<1>2. /\ DOMAIN mqtt = {"at", "todo"} /\ mqtt.todo \subseteq FwTopics
      /\ mqtt = [at |-> mqtt.at, todo |-> mqtt.todo]
      /\ "scenario" \in DOMAIN used /\ used.scenario \in SessionScenarios
  BY <1>1 DEF SessionTypes
<1>3. Subscribed \subseteq Topics /\ Subscribed \subseteq FwTopics /\ Rules \in Topics
  BY DEF Subscribed, Topics
<1>4. CASE Connect /\ Alone
  <2>1. /\ client = "init" /\ mqtt.at = "loop" /\ Configured
        /\ client' = "connected" /\ lock' = "mqtt" /\ link' = "up"
        /\ broker' = [broker EXCEPT !.subs = {}] /\ mqtt' = [mqtt EXCEPT !.at = "clear"]
        /\ UNCHANGED <<outbox, owners, full, used, refused, engine, raced>>
    BY <1>4 DEF Connect, Alone
  <2>2. mqtt' = [at |-> "clear", todo |-> mqtt.todo] /\ broker' = [subs |-> {}, health |-> broker.health]
    BY <1>1, <1>2, <2>1 DEF SessionTypes
  <2>3. SessionTypes'
    BY <1>1, <1>2, <2>1, <2>2 DEF SessionTypes, Connecting
  <2>4. HandlerOk' /\ Subscribed' = {}
    BY <1>1, <2>1, <2>2 DEF HandlerOk, Configured, Connecting, Subscribed
  <2>5. QED
    BY <2>1, <2>3, <2>4 DEF SessionInv, FwOwns, AtBroker, NotGivenUp
<1>5. CASE Clear /\ Alone
  <2>1. /\ mqtt.at = "clear" /\ mqtt' = [mqtt EXCEPT !.at = "health"]
        /\ owners' = [t \in Topics |-> {}] /\ full' = FALSE /\ refused' = {}
        /\ UNCHANGED <<link, broker, client, lock, outbox, used, engine, raced>>
    BY <1>5 DEF Clear, Alone
  <2>2. mqtt' = [at |-> "health", todo |-> mqtt.todo]
    BY <1>2, <2>1
  <2>3. SessionTypes'
    BY <1>1, <1>2, <2>1, <2>2 DEF SessionTypes, Connecting
  <2>4. HandlerOk' /\ Subscribed' = {}
    BY <1>1, <2>1, <2>2 DEF HandlerOk, Configured, Connecting, Subscribed
  <2>5. QED
    BY <2>1, <2>3, <2>4 DEF SessionInv, FwOwns, AtBroker, NotGivenUp
<1>6. CASE Health /\ Alone
  <2>1. /\ mqtt.at = "health" /\ mqtt' = [at |-> "firmware", todo |-> FwTopics]
        /\ Publishes \/ UNCHANGED <<outbox, broker, used>>
        /\ UNCHANGED <<link, client, lock, owners, full, refused, engine, raced>>
    BY <1>6 DEF Health, Alone
  <2>2. /\ outbox' \in Seq(Messages) /\ broker' = [subs |-> broker'.subs, health |-> broker'.health]
        /\ "scenario" \in DOMAIN used' /\ used'.scenario = used.scenario
        /\ \A i \in DOMAIN outbox' :
              \/ i \in DOMAIN outbox /\ outbox'[i] = outbox[i]
              \/ outbox'[i].type = "health"
    <3>1. CASE Publishes
      BY <1>1, <3>1, Published
    <3>2. CASE UNCHANGED <<outbox, broker, used>>
      BY <1>1, <1>2, <3>2 DEF SessionTypes
    <3>3. QED
      BY <2>1, <3>1, <3>2
  <2>3. SessionTypes'
    BY <1>1, <1>2, <2>1, <2>2 DEF SessionTypes, Connecting
  <2>4. HandlerOk' /\ Subscribed' = {}
    BY <1>1, <2>1, <2>2 DEF HandlerOk, Configured, Connecting, Subscribed
  <2>5. NotGivenUp => NotGivenUp'
    BY <2>1, <2>2 DEF NotGivenUp
  <2>6. QED
    BY <2>1, <2>3, <2>4, <2>5 DEF SessionInv, FwOwns, AtBroker
<1>7. CASE Reconnect /\ Alone
  <2>1. /\ mqtt.at = "loop" /\ client = "wait" /\ client' = "init"
        /\ UNCHANGED <<link, broker, lock, outbox, mqtt, owners, full, used, refused, engine, raced>>
    BY <1>7 DEF Reconnect, Alone
  <2>2. SessionTypes'
    BY <1>1, <2>1 DEF SessionTypes
  <2>3. HandlerOk' /\ Subscribed' = {}
    BY <1>1, <2>1 DEF HandlerOk, Configured, Connecting, Subscribed
  <2>4. QED
    BY <2>1, <2>2, <2>3 DEF SessionInv, FwOwns, AtBroker, NotGivenUp
<1>8. ASSUME NEW t \in FwTopics, FwSubscribes(t), Alone PROVE SessionInv'
  <2>1. /\ mqtt.at = "firmware" /\ subs_add("fw", t)
        /\ mqtt' = [at |-> IF mqtt.todo = {t} THEN "rules" ELSE "firmware", todo |-> mqtt.todo \ {t}]
        /\ UNCHANGED <<link, client, lock, engine, raced>>
    BY <1>8 DEF FwSubscribes, Alone
  <2>2. t \in Topics
    BY DEF Topics
  <2>3. /\ owners' \in [Topics -> SUBSET {"fw", "rules"}]
        /\ \A s \in Topics : owners[s] \subseteq owners'[s]
        /\ Configured => "fw" \in owners'[t]
        /\ full' => ~Configured
    BY <1>1, <2>1, <2>2, Added
  <2>4. /\ outbox' \in Seq(Messages) /\ broker' = [subs |-> broker'.subs, health |-> broker'.health]
        /\ "scenario" \in DOMAIN used' /\ used'.scenario = used.scenario
        /\ \A i \in DOMAIN outbox' :
              \/ i \in DOMAIN outbox /\ outbox'[i] = outbox[i]
              \/ outbox'[i].type = "sub" /\ outbox'[i].topic = t
        /\ broker.subs \subseteq broker'.subs /\ refused \subseteq refused'
        /\ client = "connected" /\ link = "up" => t \in broker'.subs \union refused'
    <3>1. CASE (\E took \in BOOLEAN : Write("sub", t, took)) /\ UNCHANGED refused
      BY <1>1, <2>2, <3>1, Written
    <3>2. CASE Refuse /\ refused' = refused \union {t}
      <4>1. UNCHANGED <<outbox, broker>> /\ "scenario" \in DOMAIN used' /\ used'.scenario = used.scenario
        BY <1>1, <3>2, Spent DEF Refuse
      <4>2. QED
        BY <1>1, <3>2, <4>1 DEF SessionTypes
    <3>3. CASE client # "connected" /\ UNCHANGED <<outbox, broker, used, refused>>
      BY <1>1, <1>2, <3>3 DEF SessionTypes
    <3>4. QED
      BY <1>8, <3>1, <3>2, <3>3 DEF FwSubscribes
  <2>5. SessionTypes'
    BY <1>1, <1>2, <2>1, <2>3, <2>4 DEF SessionTypes, Connecting
  <2>6. Configured /\ Subscribed = FwTopics \ mqtt.todo
    BY <1>1, <2>1 DEF HandlerOk, Connecting, Subscribed
  <2>7. HandlerOk'
    BY <1>1, <2>1, <2>3, <2>4, <2>6 DEF HandlerOk, Configured, Connecting
  <2>8. Subscribed' \subseteq Subscribed \union {t}
    BY <1>2, <2>1, <2>6 DEF Subscribed
  <2>9. FwOwns'
    BY <1>1, <1>3, <2>3, <2>6, <2>8 DEF FwOwns
  <2>10. NotGivenUp => NotGivenUp'
    BY <2>1, <2>4 DEF NotGivenUp
  <2>11. AtBroker => AtBroker'
    BY <2>1, <2>4, <2>8 DEF AtBroker
  <2>12. QED
    BY <2>1, <2>5, <2>7, <2>9, <2>10, <2>11 DEF SessionInv
<1>9. CASE OnConnected
  <2>1. /\ mqtt.at = "rules" /\ mqtt' = [mqtt EXCEPT !.at = "trying"]
        /\ UNCHANGED <<link, broker, client, lock, outbox, owners, full, used, refused, engine, raced>>
    BY <1>9 DEF OnConnected
  <2>2. mqtt' = [at |-> "trying", todo |-> mqtt.todo]
    BY <1>2, <2>1
  <2>3. SessionTypes'
    BY <1>1, <1>2, <2>1, <2>2 DEF SessionTypes, Connecting
  <2>4. HandlerOk' /\ Subscribed' = Subscribed
    BY <1>1, <2>1, <2>2 DEF HandlerOk, Configured, Connecting, Subscribed
  <2>5. QED
    BY <2>1, <2>3, <2>4 DEF SessionInv, FwOwns, AtBroker, NotGivenUp
<1>10. ASSUME NEW t \in Topics, OnConnectedTries(t) PROVE SessionInv'
  <2>1. /\ mqtt.at = "trying" /\ subs_add("rules", t)
        /\ UNCHANGED <<link, client, lock, mqtt, refused, engine, raced>>
    BY <1>10 DEF OnConnectedTries
  <2>2. /\ owners' \in [Topics -> SUBSET {"fw", "rules"}]
        /\ \A s \in Topics : owners[s] \subseteq owners'[s]
        /\ full' => ~Configured
    BY <1>1, <2>1, Added
  <2>3. /\ outbox' \in Seq(Messages) /\ broker' = [subs |-> broker'.subs, health |-> broker'.health]
        /\ "scenario" \in DOMAIN used' /\ used'.scenario = used.scenario
        /\ \A i \in DOMAIN outbox' :
              \/ i \in DOMAIN outbox /\ outbox'[i] = outbox[i]
              \/ outbox'[i].type = "sub" /\ outbox'[i].topic = t
        /\ broker.subs \subseteq broker'.subs
    <3>1. CASE \E took \in BOOLEAN : Write("sub", t, took)
      BY <1>1, <3>1, Written
    <3>2. CASE Refuse
      <4>1. UNCHANGED <<outbox, broker>> /\ "scenario" \in DOMAIN used' /\ used'.scenario = used.scenario
        BY <1>1, <3>2, Spent DEF Refuse
      <4>2. QED
        BY <1>1, <4>1 DEF SessionTypes
    <3>3. CASE UNCHANGED <<outbox, broker, used>>
      BY <1>1, <1>2, <3>3 DEF SessionTypes
    <3>4. QED
      BY <1>10, <3>1, <3>2, <3>3 DEF OnConnectedTries
  <2>4. SessionTypes'
    BY <1>1, <1>2, <2>1, <2>2, <2>3 DEF SessionTypes
  <2>5. HandlerOk' /\ Subscribed' = Subscribed
    BY <1>1, <2>1, <2>2, <2>3 DEF HandlerOk, Configured, Connecting, Subscribed
  <2>6. FwOwns'
    BY <1>1, <1>3, <2>2, <2>5 DEF FwOwns
  <2>7. NotGivenUp => NotGivenUp'
    BY <2>1, <2>3 DEF NotGivenUp
  <2>8. AtBroker => AtBroker'
    BY <2>1, <2>3, <2>5 DEF AtBroker
  <2>9. QED
    BY <2>1, <2>4, <2>5, <2>6, <2>7, <2>8 DEF SessionInv
<1>11. CASE Up
  <2>1. /\ mqtt.at = "trying" /\ mqtt' = [mqtt EXCEPT !.at = "loop"]
        /\ UNCHANGED <<link, broker, client, outbox, owners, full, used, refused, engine, raced>>
    BY <1>11 DEF Up
  <2>2. mqtt' = [at |-> "loop", todo |-> mqtt.todo]
    BY <1>2, <2>1
  <2>3. SessionTypes'
    BY <1>1, <1>2, <2>1, <2>2 DEF SessionTypes
  <2>4. HandlerOk' /\ Subscribed' \subseteq Subscribed
    BY <1>1, <2>1, <2>2 DEF HandlerOk, Configured, Connecting, Subscribed
  <2>5. QED
    BY <2>1, <2>3, <2>4 DEF SessionInv, FwOwns, AtBroker, NotGivenUp
<1>12. CASE Lost
  <2>1. Configured /\ outbox' = outbox /\ used' = used
    BY <1>1, <1>12 DEF Lost, HandlerOk
  <2>2. QED
    BY <1>1, <1>2, <1>12, <2>1, GivesUp DEF Lost, SessionTypes
<1>13. CASE Down
  <2>1. /\ UNCHANGED <<link, broker, client, outbox, owners, full, used, refused, engine, raced>>
        /\ \/ mqtt.at = "lost" /\ mqtt' = [mqtt EXCEPT !.at = "loop"]
           \/ mqtt.at = "broken" /\ mqtt' = [mqtt EXCEPT !.at = "firmware"] /\ lock' = lock
    BY <1>13 DEF Down
  <2>2. \/ mqtt.at = "lost" /\ mqtt' = [at |-> "loop", todo |-> mqtt.todo]
        \/ mqtt.at = "broken" /\ mqtt' = [at |-> "firmware", todo |-> mqtt.todo] /\ lock' = lock
    BY <1>2, <2>1
  <2>3. SessionTypes'
    BY <1>1, <1>2, <2>1, <2>2 DEF SessionTypes, Connecting
  <2>4. HandlerOk' /\ Subscribed' = Subscribed
    BY <1>1, <2>1, <2>2 DEF HandlerOk, Configured, Connecting, Subscribed
  <2>5. QED
    BY <2>1, <2>3, <2>4 DEF SessionInv, FwOwns, AtBroker, NotGivenUp
<1>14. CASE Breaks /\ UNCHANGED <<engine, raced>>
  <2>1. /\ mqtt.at \in {"health", "firmware"} /\ client' = "wait" /\ Configured
        /\ \/ mqtt.at = "health" /\ outbox' = Append(outbox, HealthMessage) /\ mqtt' = [at |-> "broken", todo |-> FwTopics]
           \/ mqtt.at = "firmware" /\ outbox' = outbox /\ mqtt' = [mqtt EXCEPT !.at = "broken"]
        /\ UNCHANGED <<link, broker, lock, owners, full, used, refused, engine, raced>>
    BY <1>1, <1>14 DEF Breaks, HandlerOk
  <2>2. \/ mqtt.at = "health" /\ mqtt' = [at |-> "broken", todo |-> FwTopics]
        \/ mqtt.at = "firmware" /\ mqtt' = [at |-> "broken", todo |-> mqtt.todo]
    BY <1>2, <2>1
  <2>3. /\ outbox' \in Seq(Messages)
        /\ \A i \in DOMAIN outbox' :
              (i \in DOMAIN outbox /\ outbox'[i] = outbox[i]) \/ outbox'[i].type = "health"
    BY <1>1, <2>1, Beats DEF SessionTypes
  <2>4. SessionTypes'
    BY <1>1, <1>2, <2>1, <2>2, <2>3 DEF SessionTypes, Connecting
  <2>5. HandlerOk' /\ Subscribed' = Subscribed
    <3>1. mqtt'.at = "broken" /\ lock = "mqtt" /\ ~full
      BY <1>1, <2>1, <2>2 DEF HandlerOk, Connecting
    <3>2. HandlerOk'
      BY <2>1, <3>1 DEF HandlerOk, Configured
    <3>3. Subscribed' = FwTopics \ mqtt'.todo
      BY <3>1 DEF Subscribed
    <3>4. QED
      BY <2>2, <3>2, <3>3 DEF Subscribed
  <2>6. NotGivenUp => NotGivenUp'
    BY <2>1, <2>3 DEF NotGivenUp
  <2>7. QED
    BY <2>1, <2>4, <2>5, <2>6 DEF SessionInv, FwOwns, AtBroker
<1>15. QED
  BY <1>4, <1>5, <1>6, <1>7, <1>8, <1>9, <1>10, <1>11, <1>12, <1>13, <1>14 DEF Mqtt

\* The health timer, what is sent again, what is dropped or expires, and a load of the
\* rules.
LEMMA OthersKeep ==
    ASSUME SessionInv,
           \/ Beat \/ Again \/ ConnectFails
           \/ \E topics \in SUBSET used.scenario.reads : Load(topics)
           \/ (Drop \/ Expire) /\ Alone
    PROVE  SessionInv'
<1>1. /\ SessionTypes /\ HandlerOk /\ FwOwns
      /\ "scenario" \in DOMAIN used /\ used.scenario \in SessionScenarios
      /\ DOMAIN engine = DOMAIN Idle /\ engine.topic \in Topics
  BY DEF SessionInv, SessionTypes
<1>2. CASE Again
  <2> DEFINE m == Head(outbox)
  <2>1. /\ outbox # <<>> /\ outbox' = Tail(outbox) /\ broker' = After(broker, m)
        /\ UNCHANGED <<link, client, lock, mqtt, owners, full, used, refused, engine, raced>>
    BY <1>2 DEF Again, Resend
  <2>2. /\ m \in Messages /\ m = outbox[1] /\ 1 \in DOMAIN outbox /\ outbox' \in Seq(Messages)
        /\ \A i \in DOMAIN outbox' : i + 1 \in DOMAIN outbox /\ outbox'[i] = outbox[i + 1]
    BY <1>1, <2>1 DEF SessionTypes
  <2>3. broker = [subs |-> broker.subs, health |-> broker.health]
    BY <1>1 DEF SessionTypes
  <2> HIDE DEF m
  <2>4. /\ broker' = [subs |-> broker'.subs, health |-> broker'.health]
        /\ broker.subs \subseteq broker'.subs \/ (m.type = "unsub" /\ broker.subs \ {m.topic} \subseteq broker'.subs)
    <3>1. CASE m.type = "sub"
      BY <2>1, <2>3, <3>1 DEF After
    <3>2. CASE m.type = "unsub"
      BY <2>1, <2>3, <3>2 DEF After
    <3>3. CASE m.type \notin {"sub", "unsub"}
      BY <2>1, <2>3, <3>3 DEF After
    <3>4. QED
      BY <3>1, <3>2, <3>3
  <2>5. SessionTypes'
    BY <1>1, <2>1, <2>2, <2>4 DEF SessionTypes
  <2>6. HandlerOk' /\ Subscribed' = Subscribed /\ Subscribed \subseteq FwTopics
    BY <1>1, <2>1 DEF HandlerOk, Configured, Subscribed
  <2>7. FwOwns'
    BY <1>1, <2>1, <2>6 DEF FwOwns
  <2>8. ASSUME NotGivenUp, AtBroker PROVE NotGivenUp' /\ AtBroker'
    <3>1. NotGivenUp'
      BY <2>1, <2>2, <2>8 DEF NotGivenUp
    <3>2. m.type = "unsub" => m.topic \notin FwTopics
      BY <2>2, <2>8 DEF NotGivenUp
    <3>3. AtBroker'
      BY <2>1, <2>4, <2>6, <2>8, <3>2 DEF AtBroker
    <3>4. QED
      BY <3>1, <3>3
  <2>9. QED
    BY <2>1, <2>5, <2>6, <2>7, <2>8 DEF SessionInv
<1>3. CASE \E topics \in SUBSET used.scenario.reads : Load(topics)
  <2>1. /\ Spend("reloads")
        /\ UNCHANGED <<link, broker, client, lock, outbox, mqtt, owners, full, refused, engine, raced>>
    BY <1>3 DEF Load
  <2>2. "scenario" \in DOMAIN used' /\ used'.scenario = used.scenario
    BY <1>1, <2>1, Spent
  <2>3. QED
    BY <1>1, <2>1, <2>2, EngineMoves
<1>4. CASE Drop /\ Alone
  <2>1. /\ Spend("drops") /\ link' = "down" /\ broker' = [subs |-> {}, health |-> "offline"]
        /\ UNCHANGED <<client, lock, outbox, mqtt, owners, full, refused, engine, raced>>
    BY <1>4 DEF Drop, Alone
  <2>2. "scenario" \in DOMAIN used' /\ used'.scenario = used.scenario
    BY <1>1, <2>1, Spent
  <2>3. SessionTypes'
    BY <1>1, <2>1, <2>2 DEF SessionTypes
  <2>4. HandlerOk' /\ Subscribed' = Subscribed
    BY <1>1, <2>1, <2>2 DEF HandlerOk, Configured, Subscribed
  <2>5. QED
    BY <1>1, <2>1, <2>3, <2>4 DEF SessionInv, FwOwns, NotGivenUp, AtBroker
<1>5. CASE Expire /\ Alone
  <2>1. /\ outbox' = <<>>
        /\ UNCHANGED <<link, broker, client, lock, mqtt, owners, full, used, refused, engine, raced>>
    BY <1>5 DEF Expire, Alone
  <2>2. SessionTypes'
    BY <1>1, <2>1 DEF SessionTypes
  <2>3. HandlerOk' /\ Subscribed' = Subscribed
    BY <1>1, <2>1 DEF HandlerOk, Configured, Subscribed
  <2>4. NotGivenUp => NotGivenUp'
    BY <2>1 DEF NotGivenUp
  <2>5. QED
    BY <1>1, <2>1, <2>2, <2>3, <2>4 DEF SessionInv, FwOwns, AtBroker
<1>6. CASE HealthLooks /\ Alone
  <2>1. UNCHANGED <<link, broker, client, lock, outbox, mqtt, owners, full, used, refused, engine, raced>>
    BY <1>6 DEF HealthLooks, Alone
  <2>2. QED
    BY <1>1, <2>1, EngineMoves DEF SessionTypes
<1>7. CASE HealthBeats /\ Alone
  <2>1. Publishes /\ UNCHANGED <<link, client, lock, mqtt, owners, full, refused, engine, raced>>
    BY <1>7 DEF HealthBeats, Alone
  <2>2. /\ outbox' \in Seq(Messages) /\ broker' = [subs |-> broker'.subs, health |-> broker'.health]
        /\ "scenario" \in DOMAIN used' /\ used'.scenario = used.scenario
        /\ \A i \in DOMAIN outbox' :
              \/ i \in DOMAIN outbox /\ outbox'[i] = outbox[i]
              \/ outbox'[i].type = "health"
        /\ broker.subs \subseteq broker'.subs
    BY <1>1, <2>1, Published
  <2>3. SessionTypes'
    BY <1>1, <2>1, <2>2 DEF SessionTypes
  <2>4. HandlerOk' /\ Subscribed' = Subscribed
    BY <1>1, <2>1, <2>2 DEF HandlerOk, Configured, Subscribed
  <2>5. NotGivenUp => NotGivenUp'
    BY <2>1, <2>2 DEF NotGivenUp
  <2>6. QED
    BY <1>1, <2>1, <2>2, <2>3, <2>4, <2>5 DEF SessionInv, FwOwns, AtBroker
<1>8. CASE BeatFails
  <2>1. GivenUp /\ Configured /\ outbox' = Append(outbox, HealthMessage) /\ used' = used
    BY <1>1, <1>8 DEF BeatFails, HandlerOk
  <2>2. QED
    BY <1>1, <2>1, GivesUp
<1>9. CASE ConnectFails
  <2>1. GivenUp /\ Configured /\ outbox' = outbox /\ Spend("drops")
    BY <1>9 DEF ConnectFails
  <2>2. "scenario" \in DOMAIN used' /\ used'.scenario = used.scenario
    BY <1>1, <2>1, Spent
  <2>3. QED
    BY <2>1, <2>2, GivesUp
<1>10. QED
  BY <1>2, <1>3, <1>4, <1>5, <1>6, <1>7, <1>8, <1>9 DEF Beat

LEMMA SessionInvNext ==
    ASSUME RoomForAll, SessionInv, [TopicsNext]_topicVars
    PROVE  SessionInv'
<1>1. CASE UNCHANGED topicVars
  <2>1. /\ UNCHANGED <<link, broker, client, lock, outbox, mqtt, owners, full, used, refused, engine, raced>>
    BY <1>1 DEF topicVars, sessionVars
  <2>2. QED
    BY <2>1, EngineMoves DEF SessionInv, SessionTypes
<1>2. QED
  BY <1>1, HandlerKeeps, EngineKeeps, OthersKeep DEF TopicsNext

\* With room in the table for all filters, one the firmware's modules hold stays at
\* the broker when the rules stop reading it, unless they stop while a connection is
\* made; through refusals, lost connections, late acknowledgements and reloads.
THEOREM FirmwareKeepsItsFilters ==
    ASSUME RoomForAll
    PROVE  Spec => []FwHeldUnlessRaced
<1>1. SessionInv => FwHeldUnlessRaced
  <2>1. SUFFICES ASSUME SessionInv, ~raced, client = "connected", link = "up",
                        mqtt.at \in {"rules", "trying", "loop"}
                 PROVE  FwTopics \ refused \subseteq broker.subs
    BY DEF FwHeldUnlessRaced, FwHeld
  <2>2. Subscribed = FwTopics
    BY <2>1 DEF Subscribed
  <2>3. QED
    BY <2>1, <2>2 DEF SessionInv, AtBroker
<1>2. Init => SessionInv
  BY SessionInvInit DEF Init
<1>3. SessionInv /\ [Next]_vars => SessionInv'
  BY SessionInvNext DEF Next, vars
<1>4. QED
  BY <1>1, <1>2, <1>3, PTL DEF Spec

=============================================================================
