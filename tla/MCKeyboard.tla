----------------------------- MODULE MCKeyboard -----------------------------
(* Every key of the tables on its own, and those whose strokes change what *)
(* becomes of each other: a shift key next to a letter and next to each of *)
(* the two keys whose codes contain its own byte, and two letters.  Bytes  *)
(* of the longest codes may get lost, and of a modifier key's.  The ring   *)
(* has two slots, of which the oldest event may be in either, and two      *)
(* codes may be on their way: strokes overtake get_key.                    *)
EXTENDS Keyboard

EachKey == {{codes[i].key} : i \in DOMAIN codes}
LongCodes == {{"PrintScreen"}, {"Pause"}}
WithShift == {{"LeftShift", key} : key \in {"a", "PrintScreen", "Pause"}}
SomeTypings == EachKey \cup LongCodes \cup WithShift \cup {{"a", "b"}}
WithLosses == LongCodes \cup {{"LeftShift"}}
Events == Event
=============================================================================
