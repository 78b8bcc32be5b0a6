-------------------------------- MODULE Buzzer --------------------------------
(***************************************************************************)
(* The buzzer (components/board/buzzer.c): commands of the rules, Modbus   *)
(* and MQTT meet in a queue of one, its task plays them.  A frequency is   *)
(* Silent or a tone; a command is a sequence of tones, or one tone that is *)
(* held until the next command.  Left out: clamping and parsing.           *)
(***************************************************************************)
EXTENDS Integers, SequencesExt

CONSTANTS
    Tones, Silent,
    Beeps,        \* the sequences of tones that are sent
    MaxCommands   \* bound: commands in one behaviour

ASSUME BuzzerAssumption ==
    /\ Silent \in Tones /\ Beeps \subseteq Seq(Tones) /\ <<>> \notin Beeps
    /\ MaxCommands \in Nat

VARIABLES
    pending,   \* s_queue, of one element
    play,      \* buzzer_task: where it is, its command, the next tone
    tone,      \* what the LEDC channel puts out
    asked,     \* history: the newest command
    commands   \* environment: commands still to come

buzzerVars == <<pending, play, tone, asked, commands>>

AtEase == [at |-> "idle", cmd |-> [tones |-> <<>>, hold |-> FALSE], i |-> 1]

BuzzerInit ==
    /\ pending = <<>> /\ play = AtEase /\ tone = Silent
    /\ asked = [tones |-> <<Silent>>, hold |-> TRUE] /\ commands \in {0, MaxCommands}

-----------------------------------------------------------------------------
Queue_bug(c) ==      \* a command waiting to be played is not replaced
    /\ commands > 0 /\ commands' = commands - 1
    /\ pending' = (IF pending = <<>> THEN <<c>> ELSE pending) /\ asked' = c
    /\ UNCHANGED <<play, tone>>
\* xQueueOverwrite(): a command not begun is replaced.
Queue(c) ==
    /\ commands > 0 /\ commands' = commands - 1
    /\ pending' = <<c>> /\ asked' = c
    /\ UNCHANGED <<play, tone>>

SetTone(f) == Queue([tones |-> <<f>>, hold |-> TRUE])    \* buzzer_set_tone()
Beep(s) == Queue([tones |-> s, hold |-> FALSE])          \* buzzer_beep_once(), buzzer/beep

Dequeue ==
    /\ play.at = "idle" /\ pending # <<>>
    /\ play' = [at |-> "play", cmd |-> Head(pending), i |-> 1] /\ pending' = <<>>
    /\ UNCHANGED <<tone, asked, commands>>

\* One tone; a held one stays on and the task waits for the next command.
PlayTone ==
    /\ play.at = "play" /\ tone' = play.cmd.tones[play.i]
    /\ play' = IF play.cmd.hold THEN AtEase ELSE [play EXCEPT !.at = "delay", !.i = @ + 1]
    /\ UNCHANGED <<pending, asked, commands>>

\* Its time is over: on with the next one, unless a newer command has come.
Delayed ==
    /\ play.at = "delay"
    /\ play' = [play EXCEPT !.at =
                  IF pending # <<>> \/ play.i > Len(play.cmd.tones) THEN "silence" ELSE "play"]
    /\ UNCHANGED <<pending, tone, asked, commands>>

Silence ==
    /\ play.at = "silence" /\ tone' = Silent /\ play' = AtEase
    /\ UNCHANGED <<pending, asked, commands>>

BuzzerNext ==
    \/ \E f \in Tones : SetTone(f)
    \/ \E s \in Beeps : Beep(s)
    \/ Dequeue \/ PlayTone \/ Delayed \/ Silence

BuzzerTask == WF_buzzerVars(Dequeue \/ PlayTone \/ Delayed \/ Silence)
BuzzerSpec == BuzzerInit /\ [][BuzzerNext]_buzzerVars /\ BuzzerTask

-----------------------------------------------------------------------------
(* Properties *)

Final(c) == IF c.hold THEN Last(c.tones) ELSE Silent

\* Once the task has nothing left to play, the buzzer does what the newest command
\* leaves it doing: a held tone sounds if and only if it was asked for last.
ToneIsNewest == play.at = "idle" /\ pending = <<>> => tone = Final(asked)
=============================================================================
