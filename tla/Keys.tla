--------------------------------- MODULE Keys ---------------------------------
(***************************************************************************)
(* scripts/codegen/keys.py: the keys, and the characters of those that     *)
(* have one, of which it generates the enum Key (libs/georgios/keys.zig)   *)
(* and the table of key_to_char (kernel/keys.zig).                         *)
(***************************************************************************)
EXTENDS Integers, SequencesExt

CONSTANT None

LowerCase == <<
    "a", "b", "c", "d", "e", "f", "g", "h", "i", "j", "k", "l", "m", "n", "o",
    "p", "q", "r", "s", "t", "u", "v", "w", "x", "y", "z" >>
UpperCase == <<
    "A", "B", "C", "D", "E", "F", "G", "H", "I", "J", "K", "L", "M", "N", "O",
    "P", "Q", "R", "S", "T", "U", "V", "W", "X", "Y", "Z" >>
Digits == <<"0", "1", "2", "3", "4", "5", "6", "7", "8", "9">>

(* Keys with printable symbols.                                            *)
Symbols == <<
    <<"Enter", "\n">>, <<"KeypadEnter", "\n">>, <<"Tab", "\t">>,
    <<"Backspace", "backspace">>, <<"Space", " ">>, <<"Slash", "/">>,
    <<"KeypadSlash", "/">>, <<"Backslash", "\\">>, <<"Period", ".">>,
    <<"KeypadPeriod", ".">>, <<"Question", "?">>, <<"Exclamation", "!">>,
    <<"Comma", ",">>, <<"Colon", ":">>, <<"SemiColon", ";">>,
    <<"BackTick", "grave">>, <<"SingleQuote", "'">>, <<"DoubleQuote", "\"">>,
    <<"Asterisk", "*">>, <<"KeypadAsterisk", "*">>, <<"At", "@">>,
    <<"Ampersand", "&">>, <<"Percent", "%">>, <<"Caret", "^">>,
    <<"Pipe", "|">>, <<"Tilde", "~">>, <<"Underscore", "_">>,
    <<"Pound", "#">>, <<"Dollar", "$">>, <<"Plus", "+">>,
    <<"KeypadPlus", "+">>, <<"Minus", "-">>, <<"KeypadMinus", "-">>,
    <<"Equals", "=">>, <<"GreaterThan", ">">>, <<"LessThan", "<">>,
    <<"LeftBrace", "{">>, <<"RightBrace", "}">>, <<"LeftSquareBracket", "[">>,
    <<"RightSquareBracket", "]">>, <<"LeftParentheses", "(">>,
    <<"RightParentheses", ")">> >>

(* Keys with none.                                                         *)
NoSymbols == <<
    "Escape", "LeftShift", "RightShift", "LeftAlt", "RightAlt", "LeftControl",
    "RightControl", "CapsLock", "NumberLock", "ScrollLock", "F1", "F2", "F3",
    "F4", "F5", "F6", "F7", "F8", "F9", "F10", "F11", "F12", "CursorLeft",
    "CursorRight", "CursorUp", "CursorDown", "PageUp", "PageDown",
    "AcpiPower", "AcpiSleep", "AcpiWake", "Home", "End", "Insert", "Delete",
    "PrintScreen", "Pause" >>

keys ==
    LET Each(Pair(_), names) == [i \in DOMAIN names |-> Pair(names[i])]
        Same(c) == <<c, c>>
        Keypad(c) == <<"Keypad" \o c, c>>
        Silent(name) == <<name, None>>
    IN  Each(Same, LowerCase) \o Each(Same, UpperCase) \o Each(Same, Digits)
        \o Each(Keypad, Digits) \o Symbols \o Each(Silent, NoSymbols)

Key == {keys[i][1] : i \in DOMAIN keys}

(* The enum numbers the keys in order, and the table is indexed by number. *)
EnumToInt == [key \in Key |-> CHOOSE i \in DOMAIN keys : keys[i][1] = key]
CharsTable == [i \in DOMAIN keys |-> keys[i][2]]
KeyToChar(key) == CharsTable[EnumToInt[key]]
===============================================================================
