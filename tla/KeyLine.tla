------------------------------- MODULE KeyLine -------------------------------
(***************************************************************************)
(* What the keyboard driver promises, with no scan codes and no ring: each *)
(* stroke becomes one event, in the order of the strokes, and waits in a   *)
(* line until get_key takes it.  When the line is full the newest event is *)
(* lost, but never what it says about the modifier keys.  A driver that    *)
(* misses a byte of a stroke promises nothing from then on.                *)
(***************************************************************************)
EXTENDS Integers, SequencesExt

CONSTANTS
    Stroke,             \* what can be done to a key
    Updated(_, _),      \* the modifiers after a stroke, given those before
    EventOf(_, _),      \* the event of a stroke, given the modifiers before
    IsDebugChord(_, _), \* whether the stroke opens the debugger instead
    None,
    LineLength,         \* the most events that can wait
    MaxStrokes          \* bound: strokes on their way

VARIABLES
    strokes,        \* strokes made and not yet events
    modifiers,      \* the modifier keys held after the last event
    line,           \* the events that wait
    got,            \* what get_key returned last
    lost            \* has a byte been missed?

lineVars == <<strokes, modifiers, line, got, lost>>

Init ==
    /\ strokes = <<>> /\ modifiers = {}
    /\ line = <<>> /\ got = None /\ lost = FALSE

Strike ==
    /\ Len(strokes) < MaxStrokes
    /\ Len(strokes') = Len(strokes) + 1 /\ Front(strokes') = strokes
    /\ Last(strokes') \in Stroke
    /\ UNCHANGED <<modifiers, line, got, lost>>

Deliver ==
    /\ strokes # <<>> /\ ~lost
    /\ strokes' = Tail(strokes)
    /\ modifiers' = Updated(modifiers, Head(strokes))
    /\ line' = IF IsDebugChord(Head(strokes), modifiers) \/ Len(line) = LineLength
                THEN line ELSE Append(line, EventOf(Head(strokes), modifiers))
    /\ UNCHANGED <<got, lost>>

Take ==
    /\ IF line = <<>>
       THEN got' = None /\ UNCHANGED line
       ELSE got' = Head(line) /\ line' = Tail(line)
    /\ UNCHANGED <<strokes, modifiers, lost>>

Next ==
    \/ lost'
    \/ Strike \/ Deliver \/ Take

SafeSpec == Init /\ [][Next]_lineVars
Spec == SafeSpec /\ WF_lineVars(Deliver)
=============================================================================
