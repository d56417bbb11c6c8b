------------------------------ MODULE KeyEvents ------------------------------
(***************************************************************************)
(* Key events: libs/georgios/keyboard.zig (Modifiers, Event) and what      *)
(* keyboard_event_occured in kernel/platform/ps2.zig makes of a key        *)
(* that was recognized.                                                    *)
(***************************************************************************)
EXTENDS Keys

Shift == {"LeftShift", "RightShift"}
Alt == {"LeftAlt", "RightAlt"}
Control == {"LeftControl", "RightControl"}
Modifier == Shift \cup Alt \cup Control

Kind == {"Pressed", "Released", "Hit"}
Stroke == [key : Key, kind : Kind]
Event == [unshifted_key : Key, kind : Kind, modifiers : SUBSET Modifier,
          key : Key, char : {CharsTable[i] : i \in DOMAIN keys}]

(* Modifiers.update.                                                       *)
Updated(modifiers, s) ==
    IF s.key \notin Modifier THEN modifiers
    ELSE IF s.kind = "Pressed" THEN modifiers \cup {s.key}
    ELSE modifiers \ {s.key}

(* Event.key: what the key of entry e, [key, shifted_key, kind], means     *)
(* while the given modifiers are held.                                     *)
Meaning(e, modifiers) ==
    IF e.shifted_key # None /\ modifiers \cap Shift # {} THEN e.shifted_key ELSE e.key

(* Event.new, with the char that is filled in later.  Its modifiers are    *)
(* those from before the stroke.                                           *)
EventOf(e, modifiers) ==
    [unshifted_key |-> e.key, kind |-> e.kind, modifiers |-> modifiers,
     key |-> Meaning(e, modifiers),
     char |-> IF e.kind = "Pressed" THEN KeyToChar(Meaning(e, modifiers)) ELSE None]

(* The stroke that calls quick_debug and makes no event: Alt, Control and  *)
(* a capital D.                                                            *)
IsDebugChord(e, modifiers) ==
    /\ e.kind = "Pressed" /\ KeyToChar(Meaning(e, modifiers)) = "D"
    /\ Updated(modifiers, e) \cap Alt # {} /\ Updated(modifiers, e) \cap Control # {}
=============================================================================
