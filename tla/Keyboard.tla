------------------------------ MODULE Keyboard ------------------------------
(***************************************************************************)
(* The PS/2 keyboard driver, kernel/platform/ps2.zig: the interrupt        *)
(* handler that puts scan codes together byte by byte and pushes events    *)
(* into a circular buffer, and get_key that takes them out.  Both run with *)
(* interrupts off.  What the handler does to a waiting thread is in module *)
(* Threading.                                                              *)
(*                                                                         *)
(* The scan code tables are those of module ScanCodes.                     *)
(***************************************************************************)
EXTENDS KeyEvents, ScanCodes, CircularBuffer

CONSTANTS
    Typings,        \* bound: the sets of keys that are used together
    Lossy,          \* those of them with which bytes may get lost
    MaxStrokes      \* bound: codes the keyboard has not finished sending

Pattern == {"TwoBytePrintScreen", "PrintScreenPressed", "PrintScreenReleased", "Pause"}

PrintScreenPress == <<224, 42, 224, 55>>
PrintScreenRelease == <<224, 183, 224, 170>>
PausePress == <<225, 29, 69, 225, 157, 197>>

ASSUME KeyboardAssumption ==
    /\ Discard = "DiscardNewest" /\ Typings \subseteq SUBSET Key /\ Lossy \subseteq Typings
    /\ MaxStrokes \in Nat /\ Value = Event

(* The rows of the table for a key that goes down.                         *)
PressedRows == [key \in Key |->
    {i \in DOMAIN codes : codes[i].key = key /\ codes[i].kind = "Pressed"}]

(* What can be seen in the tables: the codes are told apart by their last  *)
(* bytes and do not look like those of PrintScreen and Pause; every key    *)
(* has one code, and the same one raised by 128 when it comes up.          *)
ASSUME TableAssumption ==
    /\ None \in {CharsTable[i] : i \in DOMAIN keys}
    /\ None \notin Key /\ Modifier \cup {"PrintScreen", "Pause"} \subseteq Key
    /\ codes \in Seq([code : Seq(Byte), key : Key \ {"PrintScreen", "Pause"},
                      shifted_key : Key \cup {None}, kind : {"Pressed", "Released"}])
    /\ \A i \in DOMAIN codes :
          LET row == codes[i]
              raised == [row.code EXCEPT ![Len(row.code)] = @ + 128]
          IN  /\ \/ \E b \in Byte \ {224, 225} : row.code = <<b>>
                 \/ \E b \in Byte \ {42, 183} : row.code = <<224, b>>
              /\ \A j \in DOMAIN codes : codes[j].code = row.code => j = i
              /\ row.kind = "Pressed" =>
                    /\ \A j \in PressedRows[row.key] : j = i
                    /\ \E j \in DOMAIN codes :
                          codes[j] = [row EXCEPT !.code = raised, !.kind = "Released"]

VARIABLES
    typed,          \* the keys that are used
    held,           \* the keys that are down
    wire,           \* the strokes whose codes are on their way, with the codes
    sent,           \* how many bytes of the first of them were handed over
    lost,           \* has a byte been lost?
    byteCount,      \* byte_count
    pattern,
    modifiers,
    buffer,
    got             \* what get_key returned last, as long as no byte is lost

vars == <<typed, held, wire, sent, lost, byteCount, pattern, modifiers, buffer, got>>

Init ==
    /\ typed \in Typings /\ held = {} /\ wire = <<>> /\ sent = 0 /\ lost = FALSE
    /\ byteCount = 0 /\ pattern \in Pattern     \* undefined in the code
    /\ modifiers = {} /\ buffer = EmptyBuffer /\ got = None

------------------------------------------------------------------------------
(* The keyboard.  A key sends the code of its pressed row when it goes     *)
(* down, and the same with its last byte raised by 128 when it comes up;   *)
(* PrintScreen and Pause have codes of their own.                          *)

OwnCodes(s) ==
    {c \in {PrintScreenPress} : s = [key |-> "PrintScreen", kind |-> "Pressed"]}
    \cup {c \in {PrintScreenRelease} : s = [key |-> "PrintScreen", kind |-> "Released"]}
    \cup {c \in {PausePress} : s = [key |-> "Pause", kind |-> "Hit"]}

MakeCodes(key) == {codes[i].code : i \in PressedRows[key]}

CodesOf(s) ==
    OwnCodes(s) \cup
    CASE s.kind = "Pressed" -> MakeCodes(s.key)
      [] s.kind = "Released" -> {[c EXCEPT ![Len(c)] = @ + 128] : c \in MakeCodes(s.key)}
      [] s.kind = "Hit" -> {}

(* A key goes down, repeats itself while it is down, or comes up.          *)
Strike(s) ==
    /\ Len(wire) < MaxStrokes
    /\ s.kind = "Released" => s.key \in held
    /\ held' = CASE s.kind = "Pressed" -> held \cup {s.key}
                 [] s.kind = "Released" -> held \ {s.key}
                 [] s.kind = "Hit" -> held
    /\ \E code \in CodesOf(s) : wire' = Append(wire, [stroke |-> s, code |-> code])
    /\ UNCHANGED <<typed, sent, lost, byteCount, pattern, modifiers, buffer, got>>

TheByte == wire[1].code[sent + 1]

TakeByte ==
    IF sent + 1 = Len(wire[1].code)
    THEN wire' = Tail(wire) /\ sent' = 0
    ELSE sent' = sent + 1 /\ UNCHANGED wire

LoseByte ==
    /\ typed \in Lossy /\ wire # <<>>
    /\ TakeByte /\ lost' = TRUE /\ got' = None
    /\ UNCHANGED <<typed, held, byteCount, pattern, modifiers, buffer>>

------------------------------------------------------------------------------
(* keyboard_event_occured.  n, p and b are byte_count, pattern and the     *)
(* byte.                                                                   *)

(* The byte belongs to the pattern and does not complete it.               *)
LeadsOn(n, p, b) ==
    \/ n = 0 /\ b \in {224, 225}
    \/ n = 1 /\ p = "TwoBytePrintScreen" /\ b \in {42, 183}
    \/ n = 2 /\ p \in {"PrintScreenPressed", "PrintScreenReleased"} /\ b = 224
    \/ n \in 1 .. 4 /\ p = "Pause" /\ b = PausePress[n + 1]

PatternAfterSlip(n, p, b) ==    \* the way to PrintScreen's release is not noted
    IF n = 0 /\ b = 224 THEN "TwoBytePrintScreen"
    ELSE IF n = 0 /\ b = 225 THEN "Pause"
    ELSE IF n = 1 /\ p = "TwoBytePrintScreen" /\ b = 42 THEN "PrintScreenPressed"
    ELSE p

PatternAfter(n, p, b) ==
    IF n = 0 /\ b = 224 THEN "TwoBytePrintScreen"
    ELSE IF n = 0 /\ b = 225 THEN "Pause"
    ELSE IF n = 1 /\ p = "TwoBytePrintScreen" /\ b = 42 THEN "PrintScreenPressed"
    ELSE IF n = 1 /\ p = "TwoBytePrintScreen" /\ b = 183 THEN "PrintScreenReleased"
    ELSE p

Unshifted(key, kind) == [key |-> key, shifted_key |-> None, kind |-> kind]

(* The entry that the byte completes; it has no key if there is none.      *)
Reached(n, p, b) ==
    CASE n = 0 /\ b \notin {224, 225} -> OneByte[b]
      [] n = 1 /\ p = "TwoBytePrintScreen" /\ b \notin {42, 183} -> TwoByte[b]
      [] n = 3 /\ p = "PrintScreenPressed" /\ b = 55 ->
            Unshifted("PrintScreen", "Pressed")
      [] n = 3 /\ p = "PrintScreenReleased" /\ b = 170 ->
            Unshifted("PrintScreen", "Released")
      [] n = 5 /\ p = "Pause" /\ b = 197 -> Unshifted("Pause", "Hit")
      [] OTHER -> NoEntry

(* The end of the handler, for a byte that completes the entry e.          *)
Handled(e) ==
    /\ modifiers' = Updated(modifiers, e)
    /\ buffer' = IF IsDebugChord(e, modifiers) THEN buffer
                 ELSE Pushed(buffer, EventOf(e, modifiers))

KeyboardEventOccured ==
    /\ wire # <<>>
    /\ TakeByte
    /\ byteCount' = IF LeadsOn(byteCount, pattern, TheByte) THEN byteCount + 1 ELSE 0
    /\ pattern' = PatternAfter(byteCount, pattern, TheByte)
    /\ LET e == Reached(byteCount, pattern, TheByte)
       IN  IF e.key = None THEN UNCHANGED <<modifiers, buffer>> ELSE Handled(e)
    /\ UNCHANGED <<typed, held, lost, got>>

GetKey ==
    /\ buffer' = IF buffer.len = 0 THEN buffer ELSE Popped(buffer)
    /\ got' = IF buffer.len = 0 \/ lost THEN None ELSE Get(buffer, 0)
    /\ UNCHANGED <<typed, held, wire, sent, lost, byteCount, pattern, modifiers>>

Next ==
    \/ \E key \in typed, kind \in Kind : Strike([key |-> key, kind |-> kind])
    \/ LoseByte \/ KeyboardEventOccured \/ GetKey

(* The controller repeats its interrupt request until it is served.        *)
Spec == Init /\ [][Next]_vars /\ WF_vars(KeyboardEventOccured)

------------------------------------------------------------------------------
TypeOK ==
    /\ typed \in Typings /\ held \subseteq typed
    /\ \A i \in 1 .. Len(wire) : wire[i].code \in CodesOf(wire[i].stroke)
    /\ Len(wire) <= MaxStrokes /\ lost \in BOOLEAN
    /\ byteCount \in 0 .. 5 /\ pattern \in Pattern
    /\ modifiers \subseteq Modifier /\ buffer \in Buffer
    /\ got \in Event \cup {None}

(* pattern is undefined until the first byte of a longer code arrives and  *)
(* stale after the last one.  Whatever bytes come, it is read only when it *)
(* was set for the code in progress: the arms of the handler's switch that *)
(* combine a byte_count with a foreign pattern are never taken.            *)
PatternFits ==
    TypeOK /\
    CASE byteCount = 0 -> TRUE
      [] byteCount = 1 -> pattern \in {"TwoBytePrintScreen", "Pause"}
      [] byteCount \in {2, 3} -> pattern \in Pattern \ {"TwoBytePrintScreen"}
      [] byteCount \in {4, 5} -> pattern = "Pause"

(* The driver's modifiers are the modifier keys that are down, once all    *)
(* codes have arrived whole, even if events were lost because the buffer   *)
(* was full.                                                               *)
ModifiersFollowKeys == wire = <<>> /\ ~lost => modifiers = held \cap Modifier

(* The driver keeps the promise of KeyLine: every stroke, however long its *)
(* code, becomes one event, in order, unless the buffer is full; and each  *)
(* one is dealt with some time.                                            *)
EntryOf(s) ==
    [key |-> s.key, kind |-> s.kind,
     shifted_key |-> IF PressedRows[s.key] = {} THEN None
                     ELSE codes[CHOOSE i \in PressedRows[s.key] : TRUE].shifted_key]
EventOfStroke(s, before) == EventOf(EntryOf(s), before)
StrokeIsDebugChord(s, before) == IsDebugChord(EntryOf(s), before)

Line == INSTANCE KeyLine WITH
    EventOf <- EventOfStroke, IsDebugChord <- StrokeIsDebugChord,
    LineLength <- MaxLen,
    strokes <- [i \in 1 .. Len(wire) |-> wire[i].stroke],
    line <- Elements(buffer)
ImplementsKeyLine == Line!Spec
=============================================================================
