------------------------------ MODULE ScanCodes ------------------------------
(***************************************************************************)
(* scripts/codegen/scan_codes.py: the scan codes of the keys and the two   *)
(* tables of ps2_scan_codes.zig that it generates from them, from the last *)
(* byte of a code to the key, the key it stands for with shift held, and   *)
(* what happened to it.                                                    *)
(***************************************************************************)
EXTENDS Keys

K(key) == <<key, None>>     \* a key without a shifted one

(* The keys of the codes 1 to 83.                                          *)
OneBytePressed == <<
    K("Escape"), <<"1", "Exclamation">>, <<"2", "At">>, <<"3", "Pound">>,
    <<"4", "Dollar">>, <<"5", "Percent">>, <<"6", "Caret">>,
    <<"7", "Ampersand">>, <<"8", "Asterisk">>, <<"9", "LeftParentheses">>,
    <<"0", "RightParentheses">>, <<"Minus", "Underscore">>,
    <<"Equals", "Plus">>, K("Backspace"), K("Tab"), <<"q", "Q">>,
    <<"w", "W">>, <<"e", "E">>, <<"r", "R">>, <<"t", "T">>, <<"y", "Y">>,
    <<"u", "U">>, <<"i", "I">>, <<"o", "O">>, <<"p", "P">>,
    <<"LeftSquareBracket", "LeftBrace">>,
    <<"RightSquareBracket", "RightBrace">>, K("Enter"), K("LeftControl"),
    <<"a", "A">>, <<"s", "S">>, <<"d", "D">>, <<"f", "F">>, <<"g", "G">>,
    <<"h", "H">>, <<"j", "J">>, <<"k", "K">>, <<"l", "L">>,
    <<"SemiColon", "Colon">>, <<"SingleQuote", "DoubleQuote">>,
    <<"BackTick", "Tilde">>, K("LeftShift"), <<"Backslash", "Pipe">>,
    <<"z", "Z">>, <<"x", "X">>, <<"c", "C">>, <<"v", "V">>, <<"b", "B">>,
    <<"n", "N">>, <<"m", "M">>, <<"Comma", "LessThan">>,
    <<"Period", "GreaterThan">>, <<"Slash", "Question">>, K("RightShift"),
    K("KeypadAsterisk"), K("LeftAlt"), K("Space"), K("CapsLock"), K("F1"),
    K("F2"), K("F3"), K("F4"), K("F5"), K("F6"), K("F7"), K("F8"), K("F9"),
    K("F10"), K("NumberLock"), K("ScrollLock"), K("Keypad7"), K("Keypad8"),
    K("Keypad9"), K("KeypadMinus"), K("Keypad4"), K("Keypad5"), K("Keypad6"),
    K("KeypadPlus"), K("Keypad1"), K("Keypad2"), K("Keypad3"), K("Keypad0"),
    K("KeypadPeriod") >>

(* The keys of the codes 129 to 211.                                       *)
OneByteReleased == <<
    K("Escape"), <<"1", "Exclamation">>, <<"2", "At">>, <<"3", "Pound">>,
    <<"4", "Dollar">>, <<"5", "Percent">>, <<"6", "Caret">>,
    <<"7", "Ampersand">>, <<"8", "Asterisk">>, <<"9", "LeftParentheses">>,
    <<"0", "RightParentheses">>, <<"Minus", "Underscore">>,
    <<"Equals", "Plus">>, K("Backspace"), K("Tab"), <<"q", "Q">>,
    <<"w", "W">>, <<"e", "E">>, <<"r", "R">>, <<"t", "T">>, <<"y", "Y">>,
    <<"u", "U">>, <<"i", "I">>, <<"o", "O">>, <<"p", "P">>,
    <<"LeftSquareBracket", "LeftBrace">>,
    <<"RightSquareBracket", "RightBrace">>, K("Enter"), K("LeftControl"),
    <<"a", "A">>, <<"s", "S">>, <<"d", "D">>, <<"f", "F">>, <<"g", "G">>,
    <<"h", "H">>, <<"j", "J">>, <<"k", "K">>, <<"l", "L">>,
    <<"SemiColon", "Colon">>, <<"SingleQuote", "DoubleQuote">>,
    <<"BackTick", "Tilde">>, K("LeftShift"), <<"Backslash", "Pipe">>,
    <<"z", "Z">>, <<"x", "X">>, <<"c", "C">>, <<"v", "V">>, <<"b", "B">>,
    <<"n", "N">>, <<"m", "M">>, <<"Comma", "LessThan">>,
    <<"Period", "GreaterThan">>, <<"Slash", "Question">>, K("RightShift"),
    K("KeypadAsterisk"), K("LeftAlt"), K("Space"), K("CapsLock"), K("F1"),
    K("F2"), K("F3"), K("F4"), K("F5"), K("F6"), K("F7"), K("F8"), K("F9"),
    K("F10"), K("NumberLock"), K("ScrollLock"), K("Keypad7"), K("Keypad8"),
    K("Keypad9"), K("KeypadMinus"), K("Keypad4"), K("Keypad5"), K("Keypad6"),
    K("KeypadPlus"), K("Keypad1"), K("Keypad2"), K("Keypad3"), K("Keypad0"),
    K("KeypadPeriod") >>

(* What follows 224, and the key.                                          *)
TwoBytesPressed == <<
    <<28, "KeypadEnter">>, <<29, "RightControl">>, <<53, "KeypadSlash">>,
    <<56, "RightAlt">>, <<71, "Home">>, <<72, "CursorUp">>, <<73, "PageUp">>,
    <<75, "CursorLeft">>, <<77, "CursorRight">>, <<79, "End">>,
    <<80, "CursorDown">>, <<81, "PageDown">>, <<82, "Insert">>,
    <<83, "Delete">>, <<94, "AcpiPower">>, <<95, "AcpiSleep">>,
    <<99, "AcpiWake">> >>

TwoBytesReleased == <<
    <<156, "KeypadEnter">>, <<157, "RightControl">>, <<181, "KeypadSlash">>,
    <<184, "RightAlt">>, <<199, "Home">>, <<200, "CursorUp">>,
    <<201, "PageUp">>, <<203, "CursorLeft">>, <<205, "CursorRight">>,
    <<207, "End">>, <<208, "CursorDown">>, <<209, "PageDown">>,
    <<210, "Insert">>, <<211, "Delete">>, <<222, "AcpiPower">>,
    <<223, "AcpiSleep">>, <<227, "AcpiWake">> >>

Row(code, pair, kind) == [code |-> code, key |-> pair[1], shifted_key |-> pair[2], kind |-> kind]

OneByteRows(first, rows, kind) ==
    [i \in 1 .. Len(rows) |-> Row(<<first + i - 1>>, rows[i], kind)]
TwoByteRows(rows, kind) ==
    [i \in 1 .. Len(rows) |-> Row(<<224, rows[i][1]>>, K(rows[i][2]), kind)]

codes ==
    OneByteRows(1, OneBytePressed, "Pressed")
    \o OneByteRows(87, <<K("F11"), K("F12")>>, "Pressed")
    \o OneByteRows(129, OneByteReleased, "Released")
    \o OneByteRows(215, <<K("F11"), K("F12")>>, "Released")
    \o TwoByteRows(TwoBytesPressed, "Pressed") \o TwoByteRows(TwoBytesReleased, "Released")

Byte == 0 .. 255
NoEntry == [key |-> None, shifted_key |-> None, kind |-> None]
Entry(row) == [key |-> row.key, shifted_key |-> row.shifted_key, kind |-> row.kind]

MakeTableSlip(n) ==         \* by the first byte
    [byte \in Byte |->
        LET rows == {i \in DOMAIN codes : Len(codes[i].code) = n /\ codes[i].code[1] = byte}
        IN  IF rows = {} THEN NoEntry ELSE Entry(codes[Max(rows)])]

(* make_table, of the codes of n bytes: a row goes where its last byte     *)
(* says, over what earlier rows have put there.                            *)
MakeTable(n) ==
    [byte \in Byte |->
        LET rows == {i \in DOMAIN codes : Len(codes[i].code) = n /\ codes[i].code[n] = byte}
        IN  IF rows = {} THEN NoEntry ELSE Entry(codes[Max(rows)])]

OneByte == MakeTable(1)
TwoByte == MakeTable(2)
===============================================================================
