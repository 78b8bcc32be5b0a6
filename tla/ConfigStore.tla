----------------------------- MODULE ConfigStore -----------------------------
(***************************************************************************)
(* The configuration in flash (components/board/app_config.c) and the web  *)
(* server's save.  Each part is a key of its own, written one after the    *)
(* other; power may be cut between two of them, and what the next start    *)
(* finds is settled once, after loading.  Firmware before this one wrote   *)
(* fewer keys, and names that today's check refuses.                       *)
(* Left out: parts read and written like these (broker, CAN, clock, PWM),  *)
(* the inputs' names, whose check is the outputs' with fewer reserved ones.*)
(***************************************************************************)
EXTENDS Integers, SequencesExt, FiniteSets

CONSTANTS
    Relays, Pads,     \* numbers of the outputs: relays, pads
    NumberOf,         \* an output's number as text
    Names,            \* what an output may be called, NoName among them
    NoName,           \* ""
    Reserved,         \* OUTPUT_RESERVED
    RowNames,         \* names of rows of the Modbus master's table
    Missing,          \* a key that is not in flash
    ConfigScenarios   \* bound: [stored, changes, names, saves, faults]

Outputs == Relays \union Pads

\* The keys in the order they are written.
Keys == <<"di", "dout", "modbus", "led", "auxMode", "auxOut", "mbm">>
KeySet == {Keys[k] : k \in 1 .. Len(Keys)}

Modbus(vers) ==
    [ver : vers, enable : BOOLEAN, role : {"slave", "master"}, tcp : BOOLEAN, gateway : BOOLEAN]

\* What may be stored under a key
Value ==
    [di |-> Nat, dout |-> [Relays -> Names], auxOut |-> [Pads -> Names],
     modbus |-> Modbus({0, 1}),
     led |-> {"io", "status"}, auxMode |-> {"standard", "input", "output"},
     mbm |-> [1 .. 2 -> [on : BOOLEAN, name : RowNames, scale : Nat]]]
FlashOk(f) ==
    /\ DOMAIN f = {"opened", "keys"} /\ f.opened \in BOOLEAN /\ DOMAIN f.keys = KeySet
    /\ \A k \in KeySet : f.keys[k] \in Value[k] \union {Missing}

ASSUME ConfigAssumption ==
    /\ IsFiniteSet(Outputs) /\ Relays \intersect Pads = {}
    /\ NumberOf \in [Outputs -> STRING] /\ NoName \in Names \intersect RowNames
    /\ NoName \notin Reserved /\ \A i \in Outputs : NumberOf[i] \notin Reserved
    /\ \A i, j \in Outputs : NumberOf[i] = NumberOf[j] => i = j
    /\ \A k \in KeySet : Missing \notin Value[k]
    /\ \A s \in ConfigScenarios : s.names \subseteq Names /\ \A f \in s.stored : FlashOk(f)

VARIABLES
    nvs,      \* the namespace in flash: [opened, keys]
    live,     \* s_cfg, Off while the board is
    saving,   \* app_config_update(): [at, cfg], at the key to be written next
    cfgUsed,  \* environment: what may still happen
    saved,    \* history: the last configuration that was answered ok, or loaded
    torn      \* history: since then something was written that is not a whole save

configVars == <<nvs, live, saving, cfgUsed, saved, torn>>

Off == [at |-> "off"]
NotSaving == [at |-> 0, cfg |-> Off]

\* A row of the table that was never filled in
Blank == [on |-> FALSE, name |-> NoName, scale |-> 0]

\* s_cfg before anything is read; "di" is how many inputs its blob has.
Defaults ==
    [di |-> 11, dout |-> [i \in Relays |-> NoName], auxOut |-> [i \in Pads |-> NoName],
     modbus |-> [ver |-> 1, enable |-> FALSE, role |-> "slave", tcp |-> FALSE, gateway |-> FALSE],
     led |-> "status", auxMode |-> "standard",
     mbm |-> [i \in 1 .. 2 |-> Blank]]

-----------------------------------------------------------------------------
\* Names as topics

NameOfOutput(c) == [i \in Outputs |-> IF i \in Relays THEN c.dout[i] ELSE c.auxOut[i]]

Fragment(names, i) == IF names[i] = NoName THEN NumberOf[i] ELSE names[i]
Clash(names, i) == \E j \in Outputs \ {i} : Fragment(names, i) = Fragment(names, j)

NamesOk_bug(names) == \A i \in Outputs : names[i] \notin Reserved /\
    \A j \in Outputs \ {i} : names[i] # NoName => names[i] # names[j]
\* app_config_io_names_ok()
NamesOk(names) == \A i \in Outputs : names[i] \notin Reserved /\ ~Clash(names, i)

Unreserved(names) == [i \in Outputs |-> IF names[i] \in Reserved THEN NoName ELSE names[i]]
\* Names in a clash are dropped all together: the numbers they leave may clash in turn.
Unclashed(names) ==
    [i \in Outputs |-> IF names[i] # NoName /\ Clash(names, i) THEN NoName ELSE names[i]]
Settled_bug(names) == Unclashed(Unreserved(names))
\* io_space_normalize(): as many rounds as there are outputs
Settled(names) ==
    LET after[n \in 0 .. Cardinality(Outputs)] ==
            IF n = 0 THEN Unreserved(names) ELSE Unclashed(after[n - 1])
    IN  after[Cardinality(Outputs)]

-----------------------------------------------------------------------------
\* A start

Migrated_bug(m) == IF m.ver = 0 THEN [m EXCEPT !.gateway = (m.role = "master")] ELSE m
\* Before the gateway was a setting of its own, a master was one.
Migrated(m) == IF m.ver = 0 THEN [m EXCEPT !.gateway = (m.role = "master"), !.ver = 1] ELSE m

\* What is read: an absent key leaves the default, but the LED's mode, which is then
\* "io", and the pads': inputs where an older firmware stored eleven of them.
Loaded(f) ==
    [k \in KeySet |->
        IF f[k] # Missing THEN IF k = "modbus" THEN Migrated(f[k]) ELSE f[k]
        ELSE CASE k = "led" -> "io"
               [] k = "auxMode" -> IF f["di"] = 11 THEN "input" ELSE Defaults[k]
               [] OTHER -> Defaults[k]]

Normal(c) ==
    LET names == Settled(NameOfOutput(c))
    IN  [c EXCEPT !.dout = [i \in Relays |-> names[i]], !.auxOut = [i \in Pads |-> names[i]],
                  !.mbm = [i \in 1 .. 2 |-> IF @[i].scale = 0 THEN [@[i] EXCEPT !.scale = 1] ELSE @[i]]]

\* app_config_init(): without the namespace nothing is read, nor settled.
Started(f) == IF f.opened THEN Normal(Loaded(f.keys)) ELSE Defaults

\* The board has started.
ConfigInit ==
    /\ \E s \in ConfigScenarios :
         /\ cfgUsed = [changes |-> s.changes, names |-> s.names, saves |-> s.saves, faults |-> s.faults]
         /\ nvs \in s.stored
    /\ live = Started(nvs) /\ saved = live /\ saving = NotSaving /\ torn = FALSE

Start ==
    /\ live = Off /\ live' = Started(nvs) /\ saved' = live' /\ torn' = FALSE
    /\ UNCHANGED <<nvs, saving, cfgUsed>>

PowerCut ==
    /\ live # Off /\ cfgUsed.faults > 0
    /\ cfgUsed' = [cfgUsed EXCEPT !.faults = @ - 1]
    /\ live' = Off /\ saving' = NotSaving
    /\ UNCHANGED <<nvs, saved, torn>>

-----------------------------------------------------------------------------
\* A save (api_config_post, then app_config_update)

\* A table sent: what it does not have is cleared, a row that is not polled keeps no
\* scale of zero.
Table(rows) ==
    [i \in 1 .. 2 |->
        IF i > Len(rows) THEN Blank
        ELSE IF rows[i].scale = 0 /\ ~rows[i].on THEN [rows[i] EXCEPT !.scale = 1]
        ELSE rows[i]]
TableOk(t) ==
    \A i \in 1 .. 2 : t[i].on =>
        /\ t[i].name # NoName /\ t[i].scale # 0
        /\ \A j \in 1 .. i - 1 : t[j].on => t[j].name # t[i].name
GatewayOk(m) == m.enable /\ m.gateway => m.role = "master" /\ m.tcp

Kinds == {"dout", "auxOut", "both", "modbus", "led", "auxMode", "mbm"}
\* What a request makes of the live configuration
Changes(kind) ==
    CASE kind = "dout" -> {[live EXCEPT !.dout = n] : n \in [Relays -> cfgUsed.names]}
      [] kind = "auxOut" -> {[live EXCEPT !.auxOut = n] : n \in [Pads -> cfgUsed.names]}
      [] kind = "both" -> {[live EXCEPT !.dout = b[1], !.auxOut = b[2]] :
              b \in [Relays -> cfgUsed.names] \X [Pads -> cfgUsed.names]}
      [] kind = "modbus" -> {[live EXCEPT !.modbus = m] :
              m \in {s \in Modbus({live.modbus.ver}) : GatewayOk(s)}}
      [] kind = "led" -> {[live EXCEPT !.led = m] : m \in {"io", "status"}}
      [] kind = "auxMode" -> {[live EXCEPT !.auxMode = m] : m \in {"standard", "input", "output"}}
      [] kind = "mbm" -> {c \in {[live EXCEPT !.mbm = Table(rows)] :
              rows \in UNION {[1 .. n -> [on : BOOLEAN, name : RowNames, scale : {0, 1}]] : n \in 0 .. 2}} :
                 TableOk(c.mbm)}

Accept(kind) ==
    /\ live # Off /\ saving.at = 0 /\ kind \in cfgUsed.changes
    /\ cfgUsed.saves > 0 /\ cfgUsed' = [cfgUsed EXCEPT !.saves = @ - 1]
    /\ \E c \in Changes(kind) :
         /\ NamesOk(NameOfOutput(c))
         /\ saving' = [at |-> 1, cfg |-> c]
    /\ nvs' = [nvs EXCEPT !.opened = TRUE] /\ torn' = TRUE
    /\ UNCHANGED <<live, saved>>

Put ==
    /\ saving.at \in 1 .. Len(Keys)
    /\ nvs' = [nvs EXCEPT !.keys[Keys[saving.at]] = saving.cfg[Keys[saving.at]]]
    /\ saving' = [saving EXCEPT !.at = @ + 1]
    /\ UNCHANGED <<live, cfgUsed, saved, torn>>

PutFails_bug ==
    /\ saving.at \in 1 .. Len(Keys) /\ cfgUsed.faults > 0
    /\ cfgUsed' = [cfgUsed EXCEPT !.faults = @ - 1]
    /\ saving' = [saving EXCEPT !.at = @ + 1]
    /\ UNCHANGED <<nvs, live, saved, torn>>
\* The rest is not written and the live configuration stays.
PutFails ==
    /\ saving.at \in 1 .. Len(Keys) /\ cfgUsed.faults > 0
    /\ cfgUsed' = [cfgUsed EXCEPT !.faults = @ - 1]
    /\ saving' = NotSaving
    /\ UNCHANGED <<nvs, live, saved, torn>>

Finish ==
    /\ saving.at = Len(Keys) + 1
    /\ live' = saving.cfg /\ saved' = saving.cfg /\ saving' = NotSaving /\ torn' = FALSE
    /\ UNCHANGED <<nvs, cfgUsed>>

\* "Ethernet only" is a key of the same namespace, set and erased by the portal, the web
\* server and the button: the first of them brings the namespace about.
EthOnly ==
    /\ live # Off /\ "eth" \in cfgUsed.changes /\ ~nvs.opened
    /\ nvs' = [nvs EXCEPT !.opened = TRUE] /\ torn' = TRUE
    /\ UNCHANGED <<live, saving, cfgUsed, saved>>

ConfigNext ==
    \/ Start \/ PowerCut \/ (\E kind \in Kinds : Accept(kind))
    \/ Put \/ PutFails \/ Finish \/ EthOnly

ConfigSpec == ConfigInit /\ [][ConfigNext]_configVars

-----------------------------------------------------------------------------
\* However the flash came about, by older firmware or by a save cut short, no two outputs
\* answer to one topic, and none to "output/set", which switches them all
\* (app_config.c:185-188).
TopicsDistinct ==
    live # Off => LET names == NameOfOutput(live) IN \A i \in Outputs :
        /\ Fragment(names, i) \notin Reserved
        /\ \A j \in Outputs \ {i} : Fragment(names, i) # Fragment(names, j)

\* What a configuration means: rows that are not polled do not count.
InUse(c) == [c EXCEPT !.mbm = {@[i] : i \in {j \in 1 .. 2 : @[j].on}}]

\* A save answered ok is what the device runs, and what the next start runs; one that
\* failed has changed neither (app_config.c:319-324), until a start that follows it finds
\* some new and some old values in flash.
SavedIsKept ==
    live # Off /\ saving.at = 0 =>
        /\ InUse(live) = InUse(saved)
        /\ ~torn => InUse(Started(nvs)) = InUse(saved)

\* The LED shows the device's state unless somebody chose otherwise: "status feedback on
\* by default" (app_config.c:46).
StatusByDefault ==
    (live # Off /\ nvs.keys["led"] = Missing) => live.led = "status"
=============================================================================
