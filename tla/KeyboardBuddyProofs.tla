-------------------------- MODULE KeyboardBuddyProofs --------------------------
(***************************************************************************)
(* First the PS/2 keyboard driver, for every way the keys can be struck,   *)
(* bytes lost and events taken, and every length of its buffer: the ring   *)
(* of libs/utils/circular_buffer.zig, for any type, is a bounded sequence; *)
(* then what the scan code tables hold, and the driver.                    *)
(*                                                                         *)
(* Then the buddy allocator of kernel/buddy_allocator.zig, for every       *)
(* number of levels, size of the smallest block, sizes that are asked for  *)
(* and ranges that are reserved: its blocks are a tree, its lists the free *)
(* blocks of each level, and what it does is what Heap promises.           *)
(*                                                                         *)
(* The two share no state; they share what Induction says of folds.        *)
(***************************************************************************)
EXTENDS Keyboard, BuddyAllocator, SequenceTheorems, Induction

LEMMA Wrapping ==
    ASSUME NEW p \in Position, NEW k \in 0 .. MaxLen
    PROVE  /\ WrappedOffset(p, k) \in Position
           /\ WrappedOffset(p, k) = IF p + k < MaxLen THEN p + k ELSE p + k - MaxLen
<1> USE BufferAssumption DEF Position, WrappedOffset
<1>1. CASE p + k < MaxLen
    <2>1. p + k \in 0 .. MaxLen - 1
        BY <1>1
    <2>2. (p + k) % MaxLen = p + k
        BY <2>1
    <2> QED BY <1>1, <2>1, <2>2
<1>2. CASE p + k >= MaxLen
    <2>1. p + k \in MaxLen .. 2 * MaxLen - 1
        BY <1>2
    <2>2. (p + k) % MaxLen = p + k - MaxLen
        BY <2>1
    <2>3. p + k - MaxLen \in 0 .. MaxLen - 1
        BY <2>1
    <2> QED BY <1>2, <2>2, <2>3
<1> QED BY <1>1, <1>2

(* Two offsets less than the length are two positions.                     *)
LEMMA Apart ==
    ASSUME NEW p \in Position, NEW i \in Position, NEW j \in Position, i # j
    PROVE  WrappedOffset(p, i) # WrappedOffset(p, j)
<1>1. i \in 0 .. MaxLen /\ j \in 0 .. MaxLen
    BY BufferAssumption DEF Position
<1>2. WrappedOffset(p, i) = IF p + i < MaxLen THEN p + i ELSE p + i - MaxLen
    BY <1>1, Wrapping
<1>3. WrappedOffset(p, j) = IF p + j < MaxLen THEN p + j ELSE p + j - MaxLen
    BY <1>1, Wrapping
<1> QED BY <1>2, <1>3, BufferAssumption DEF Position

(* Going on from the next position is going on by one more.                *)
LEMMA GoingOn ==
    ASSUME NEW p \in Position, NEW i \in Position
    PROVE  WrappedOffset(WrappedOffset(p, 1), i) = WrappedOffset(p, i + 1)
<1> DEFINE q == WrappedOffset(p, 1)
<1>1. 1 \in 0 .. MaxLen /\ i \in 0 .. MaxLen /\ i + 1 \in 0 .. MaxLen
    BY BufferAssumption DEF Position
<1>2. q \in Position /\ q = IF p + 1 < MaxLen THEN p + 1 ELSE p + 1 - MaxLen
    BY <1>1, Wrapping
<1>3. WrappedOffset(p, i + 1) = IF p + (i + 1) < MaxLen THEN p + (i + 1) ELSE p + (i + 1) - MaxLen
    BY <1>1, Wrapping
<1> HIDE DEF q
<1>4. WrappedOffset(q, i) = IF q + i < MaxLen THEN q + i ELSE q + i - MaxLen
    BY <1>1, <1>2, Wrapping
<1>5. WrappedOffset(q, i) = WrappedOffset(p, i + 1)
    BY <1>2, <1>3, <1>4, BufferAssumption DEF Position
<1> QED BY <1>5 DEF q

------------------------------------------------------------------------------
(* Each of the first len elements has been written.                        *)
Written(b) == \A i \in 0 .. b.len - 1 : Get(b, i) \in Value

GoodBuffer(b) == b \in Buffer /\ Written(b)

LEMMA EmptyGood == GoodBuffer(EmptyBuffer) /\ Elements(EmptyBuffer) = <<>>
<1> USE BufferAssumption DEF EmptyBuffer
<1>1. EmptyBuffer \in Buffer
    BY DEF Buffer, Position
<1>2. Written(EmptyBuffer)
    BY DEF Written
<1>3. Elements(EmptyBuffer) = <<>>
    BY DEF Elements
<1> QED BY <1>1, <1>2, <1>3 DEF GoodBuffer

LEMMA ElementsSeq ==
    ASSUME NEW b, GoodBuffer(b)
    PROVE  /\ Elements(b) \in Seq(Value)
           /\ Len(Elements(b)) = b.len /\ b.len \in Nat
           /\ \A i \in 1 .. b.len : Elements(b)[i] = Get(b, i - 1)
<1>1. b.len \in Nat
    BY BufferAssumption DEF GoodBuffer, Buffer
<1>2. Elements(b) \in [1 .. b.len -> Value]
    <2>1. \A i \in 1 .. b.len : i - 1 \in 0 .. b.len - 1
        BY <1>1
    <2> QED BY <2>1 DEF GoodBuffer, Written, Elements
<1>3. Elements(b) \in Seq(Value)
    BY <1>1, <1>2, SeqDef
<1>4. DOMAIN Elements(b) = 1 .. b.len /\ DOMAIN Elements(b) = 1 .. Len(Elements(b))
    BY <1>3, LenProperties DEF Elements
<1>5. Len(Elements(b)) = b.len
    BY <1>1, <1>3, <1>4
<1> QED BY <1>1, <1>3, <1>5 DEF Elements

(* What push does to a buffer with room.                                   *)
LEMMA StoreGood ==
    ASSUME NEW b, GoodBuffer(b), b.len < MaxLen, NEW v \in Value
    PROVE  /\ GoodBuffer(Stored(b.contents, b.start, b.len, v))
           /\ Elements(Stored(b.contents, b.start, b.len, v)) = Append(Elements(b), v)
<1> DEFINE c == Stored(b.contents, b.start, b.len, v)
           w == WrappedOffset(b.start, b.len)
<1>1. b \in Buffer /\ b.start \in Position /\ b.len \in Position /\ b.len \in 0 .. MaxLen
    BY BufferAssumption DEF GoodBuffer, Buffer, Position
<1>2. w \in Position
    BY <1>1, Wrapping
<1>3. c = [contents |-> [b.contents EXCEPT ![w] = v], start |-> b.start, len |-> b.len + 1]
    BY DEF Stored
<1> HIDE DEF c
<1>4. c \in Buffer
    <2>1. b.len + 1 \in 0 .. MaxLen
        BY <1>1, BufferAssumption
    <2> QED BY <1>1, <1>2, <1>3, <2>1 DEF Buffer
<1>5. Get(c, b.len) = v
    BY <1>1, <1>2, <1>3 DEF Get, Buffer
<1>6. ASSUME NEW i \in 0 .. b.len - 1 PROVE Get(c, i) = Get(b, i)
    <2>1. i \in Position /\ i # b.len
        BY <1>1, BufferAssumption DEF Position
    <2>2. WrappedOffset(b.start, i) # w
        BY <1>1, <2>1, Apart
    <2> QED BY <1>1, <1>3, <2>2 DEF Get, Buffer
<1>7. GoodBuffer(c)
    <2>1. ASSUME NEW i \in 0 .. c.len - 1 PROVE Get(c, i) \in Value
        <3>1. i \in 0 .. b.len - 1 \/ i = b.len
            BY <1>1, <1>3, BufferAssumption
        <3> QED BY <1>5, <1>6, <3>1 DEF GoodBuffer, Written
    <2> QED BY <1>4, <2>1 DEF GoodBuffer, Written
<1>8. Elements(c) = Append(Elements(b), v)
    <2>1. /\ Elements(c) \in Seq(Value) /\ Append(Elements(b), v) \in Seq(Value)
          /\ Len(Elements(c)) = b.len + 1 /\ Len(Append(Elements(b), v)) = b.len + 1
        BY <1>3, <1>7, ElementsSeq
    <2>2. ASSUME NEW i \in 1 .. b.len + 1 PROVE Elements(c)[i] = Append(Elements(b), v)[i]
        <3>1. Elements(c)[i] = Get(c, i - 1)
            BY <1>3, <1>7, ElementsSeq
        <3>2. CASE i = b.len + 1
            <4>1. Append(Elements(b), v)[i] = v
                BY <3>2, ElementsSeq
            <4>2. i - 1 = b.len
                BY <1>1, <3>2
            <4> QED BY <1>5, <3>1, <4>1, <4>2
        <3>3. CASE i \in 1 .. b.len
            <4>1. Append(Elements(b), v)[i] = Get(b, i - 1)
                BY <3>3, ElementsSeq
            <4>2. i - 1 \in 0 .. b.len - 1
                BY <1>1, <3>3
            <4> QED BY <1>6, <3>1, <4>1, <4>2
        <3>4. i = b.len + 1 \/ i \in 1 .. b.len
            BY <1>1
        <3> QED BY <3>2, <3>3, <3>4
    <2> QED BY <2>1, <2>2, SeqEqual
<1> QED BY <1>7, <1>8 DEF c

(* pop.                                                                    *)
THEOREM PopTakesFirst ==
    ASSUME NEW b, GoodBuffer(b), b.len > 0
    PROVE  /\ GoodBuffer(Popped(b))
           /\ Elements(b) # <<>>
           /\ Get(b, 0) = Head(Elements(b))
           /\ Elements(Popped(b)) = Tail(Elements(b))
<1> DEFINE c == Popped(b)
           next == WrappedOffset(b.start, 1)
<1>1. b \in Buffer /\ b.start \in Position /\ b.len \in 1 .. MaxLen /\ 1 \in 0 .. MaxLen
    BY BufferAssumption DEF GoodBuffer, Buffer
<1>2. next \in Position
    BY <1>1, Wrapping
<1>3. c = [contents |-> b.contents, start |-> next, len |-> b.len - 1]
    BY DEF Popped
<1> HIDE DEF c
<1>4. c \in Buffer
    <2>1. b.len - 1 \in 0 .. MaxLen
        BY <1>1, BufferAssumption
    <2> QED BY <1>1, <1>2, <1>3, <2>1 DEF Buffer
<1>5. ASSUME NEW i \in 0 .. b.len - 2 PROVE Get(c, i) = Get(b, i + 1)
    <2>1. i \in Position
        BY <1>1, BufferAssumption DEF Position
    <2>2. WrappedOffset(next, i) = WrappedOffset(b.start, i + 1)
        BY <1>1, <2>1, GoingOn
    <2> QED BY <1>3, <2>2 DEF Get
<1>6. GoodBuffer(c)
    <2>1. ASSUME NEW i \in 0 .. b.len - 1 - 1 PROVE Get(c, i) \in Value
        <3>1. i \in 0 .. b.len - 2 /\ i + 1 \in 0 .. b.len - 1
            BY <1>1, BufferAssumption
        <3> QED BY <1>5, <3>1 DEF GoodBuffer, Written
    <2> QED BY <1>3, <1>4, <2>1 DEF GoodBuffer, Written
<1>7. /\ Elements(b) \in Seq(Value) /\ Len(Elements(b)) = b.len
      /\ Elements(b) # <<>> /\ Elements(b)[1] = Get(b, 0)
    <2>1. 1 \in 1 .. b.len /\ 1 - 1 = 0
        BY <1>1, BufferAssumption
    <2>2. /\ Elements(b) \in Seq(Value) /\ Len(Elements(b)) = b.len
          /\ Elements(b)[1] = Get(b, 1 - 1)
        BY <2>1, ElementsSeq
    <2>3. Elements(b) # <<>>
        BY <2>2
    <2> QED BY <2>1, <2>2, <2>3
<1>8. Elements(c) = Tail(Elements(b))
    <2>1. /\ Elements(c) \in Seq(Value) /\ Tail(Elements(b)) \in Seq(Value)
          /\ Len(Elements(c)) = b.len - 1 /\ Len(Tail(Elements(b))) = b.len - 1
        BY <1>3, <1>6, <1>7, ElementsSeq, HeadTailProperties
    <2>2. ASSUME NEW i \in 1 .. b.len - 1 PROVE Elements(c)[i] = Tail(Elements(b))[i]
        <3>1. Elements(c)[i] = Get(c, i - 1)
            BY <1>3, <1>6, ElementsSeq
        <3>2. Tail(Elements(b))[i] = Elements(b)[i + 1]
            BY <1>7, <2>1, HeadTailProperties
        <3>3. i - 1 \in 0 .. b.len - 2 /\ i + 1 \in 1 .. b.len /\ i - 1 + 1 = i /\ i + 1 - 1 = i
            BY <1>1, BufferAssumption
        <3>4. Elements(b)[i + 1] = Get(b, i)
            BY <3>3, ElementsSeq
        <3>5. Get(c, i - 1) = Get(b, i)
            BY <1>5, <3>3
        <3> QED BY <3>1, <3>2, <3>4, <3>5
    <2> QED BY <2>1, <2>2, SeqEqual
<1>9. Get(b, 0) = Head(Elements(b))
    BY <1>7
<1> QED BY <1>6, <1>7, <1>8, <1>9 DEF c

(* push: it appends while there is room, and after that discards the       *)
(* newest element or the oldest.                                           *)
THEOREM PushAppends ==
    ASSUME NEW b, GoodBuffer(b), NEW v \in Value
    PROVE  /\ GoodBuffer(Pushed(b, v))
           /\ b.len < MaxLen => Elements(Pushed(b, v)) = Append(Elements(b), v)
           /\ b.len = MaxLen /\ Discard = "DiscardNewest" => Pushed(b, v) = b
           /\ b.len = MaxLen /\ Discard = "DiscardOldest"
                => Elements(Pushed(b, v)) = Append(Tail(Elements(b)), v)
<1>1. b \in Buffer /\ b.start \in Position /\ b.len \in 0 .. MaxLen
    BY DEF GoodBuffer, Buffer
<1>2. CASE b.len < MaxLen
    <2>1. Pushed(b, v) = Stored(b.contents, b.start, b.len, v)
        BY <1>1, <1>2 DEF Pushed, IsFull
    <2> QED BY <1>1, <1>2, <2>1, StoreGood
<1>3. CASE b.len = MaxLen /\ Discard = "DiscardNewest"
    BY <1>1, <1>3, BufferAssumption DEF Pushed, IsFull
<1>4. CASE b.len = MaxLen /\ Discard = "DiscardOldest"
    <2> DEFINE c == Popped(b)
    <2>1. b.len > 0
        BY <1>4, BufferAssumption
    <2>2. GoodBuffer(c) /\ Elements(c) = Tail(Elements(b)) /\ c.len = b.len - 1
        BY <1>1, <2>1, PopTakesFirst DEF Popped, Buffer
    <2>3. c.len + 1 = b.len
        BY <1>1, <2>2
    <2>4. Pushed(b, v) = Stored(c.contents, c.start, c.len, v)
        BY <1>4, BufferAssumption DEF Pushed, IsFull, Popped
    <2>5. c.len < MaxLen
        BY <1>4, <2>2, BufferAssumption
    <2> HIDE DEF c
    <2>6. GoodBuffer(Pushed(b, v)) /\ Elements(Pushed(b, v)) = Append(Elements(c), v)
        BY <2>2, <2>4, <2>5, StoreGood
    <2>7. ~ (b.len < MaxLen) /\ Discard # "DiscardNewest"
        BY <1>4, BufferAssumption
    <2> QED BY <2>2, <2>6, <2>7
<1> QED BY <1>1, <1>2, <1>3, <1>4, BufferAssumption
------------------------------------------------------------------------------
(* The tables.                                                             *)

EntryType == [key : Key, shifted_key : Key \cup {None}, kind : Kind]

LEMMA CodesAre ==
    ASSUME NEW i \in DOMAIN codes
    PROVE  /\ i \in 1 .. Len(codes) /\ Len(codes) \in Nat
           /\ codes[i].code \in Seq(Byte) /\ codes[i].key \in Key \ {"PrintScreen", "Pause"}
           /\ codes[i].shifted_key \in Key \cup {None}
           /\ codes[i].kind \in {"Pressed", "Released"}
<1> DEFINE Rows == [code : Seq(Byte), key : Key \ {"PrintScreen", "Pause"},
                    shifted_key : Key \cup {None}, kind : {"Pressed", "Released"}]
<1>1. codes \in Seq(Rows)
  BY TableAssumption
<1>2. i \in 1 .. Len(codes) /\ Len(codes) \in Nat /\ codes[i] \in Rows
  <2> HIDE DEF Rows
  <2>1. QED BY <1>1
<1>3. QED BY <1>2

LEMMA CodeForms ==
    ASSUME NEW i \in DOMAIN codes
    PROVE  \/ \E b \in Byte \ {224, 225} :
                codes[i].code = <<b>> /\ Len(codes[i].code) = 1 /\ codes[i].code[1] = b
           \/ \E b \in Byte \ {42, 183} :
                codes[i].code = <<224, b>> /\ Len(codes[i].code) = 2 /\ codes[i].code[2] = b
<1>1. \/ \E b \in Byte \ {224, 225} : codes[i].code = <<b>>
      \/ \E b \in Byte \ {42, 183} : codes[i].code = <<224, b>>
  BY TableAssumption
<1>2. \A b : Len(<<b>>) = 1 /\ <<b>>[1] = b /\ Len(<<224, b>>) = 2 /\ <<224, b>>[2] = b
  OBVIOUS
<1>3. QED BY <1>1, <1>2

(* A table has the entry of the row whose code ends with the byte.         *)
LEMMA TableHasRow ==
    ASSUME NEW n \in {1, 2}, NEW i \in DOMAIN codes, Len(codes[i].code) = n,
           NEW byte \in Byte, codes[i].code[n] = byte
    PROVE  MakeTable(n)[byte] = Entry(codes[i])
<1> DEFINE rows == {j \in DOMAIN codes : Len(codes[j].code) = n /\ codes[j].code[n] = byte}
<1>1. ASSUME NEW j \in rows PROVE j = i
  <2>1. /\ codes[i].code = IF n = 1 THEN <<byte>> ELSE <<224, byte>>
        /\ codes[j].code = IF n = 1 THEN <<byte>> ELSE <<224, byte>>
    BY CodeForms
  <2>2. codes[j].code = codes[i].code
    BY <2>1
  <2>3. QED BY <2>2, TableAssumption
<1>2. rows = {i} /\ i \in Int
  BY <1>1, CodesAre
<1>3. Max({i}) = i
  BY <1>2 DEF Max
<1>4. MakeTable(n)[byte] = IF rows = {} THEN NoEntry ELSE Entry(codes[Max(rows)])
  BY DEF MakeTable
<1> HIDE DEF rows
<1>5. QED BY <1>2, <1>3, <1>4

LEMMA TableType ==
    ASSUME NEW n \in {1, 2}, NEW byte \in Byte
    PROVE  MakeTable(n)[byte] = NoEntry \/ MakeTable(n)[byte] \in EntryType
<1> DEFINE rows == {i \in DOMAIN codes : Len(codes[i].code) = n /\ codes[i].code[n] = byte}
<1>1. MakeTable(n)[byte] = IF rows = {} THEN NoEntry ELSE Entry(codes[Max(rows)])
  BY DEF MakeTable
<1>2. rows \in SUBSET (1 .. Len(codes)) /\ \A i \in rows : i \in DOMAIN codes
  BY CodesAre
<1> HIDE DEF rows
<1>3. CASE rows # {}
  <2>1. Len(codes) \in Nat
    BY <1>2, <1>3, CodesAre
  <2>2. Max(rows) \in DOMAIN codes
    BY <1>2, <1>3, <2>1, MaxIn
  <2>3. Entry(codes[Max(rows)]) \in EntryType
    BY <2>2, CodesAre DEF Entry, EntryType, Kind
  <2>4. QED BY <1>1, <1>3, <2>3
<1>4. QED BY <1>1, <1>3

------------------------------------------------------------------------------
(* Codes.                                                                  *)

(* The code is that of the stroke, as the driver will read it.             *)
Recognised(s, code) ==
    \/ \E b \in Byte \ {224, 225} : code = <<b>> /\ OneByte[b] = EntryOf(s)
    \/ \E b \in Byte \ {42, 183} : code = <<224, b>> /\ TwoByte[b] = EntryOf(s)
    \/ code = PrintScreenPress /\ EntryOf(s) = Unshifted("PrintScreen", "Pressed")
    \/ code = PrintScreenRelease /\ EntryOf(s) = Unshifted("PrintScreen", "Released")
    \/ code = PausePress /\ EntryOf(s) = Unshifted("Pause", "Hit")

LEMMA EntryOfType ==
    ASSUME NEW s \in Stroke
    PROVE  EntryOf(s) \in EntryType /\ EntryOf(s).key = s.key /\ EntryOf(s).kind = s.kind
<1> DEFINE rows == PressedRows[s.key]
           row == codes[CHOOSE i \in rows : TRUE]
<1>1. s.key \in Key /\ s.kind \in Kind
  BY DEF Stroke
<1>2. rows = {i \in DOMAIN codes : codes[i].key = s.key /\ codes[i].kind = "Pressed"}
  BY <1>1 DEF PressedRows
<1>3. rows # {} => row.shifted_key \in Key \cup {None}
  <2>1. rows # {} => (CHOOSE i \in rows : TRUE) \in DOMAIN codes
    BY <1>2
  <2>2. QED BY <2>1, CodesAre
<1>4. EntryOf(s) = [key |-> s.key, kind |-> s.kind,
                    shifted_key |-> IF rows = {} THEN None ELSE row.shifted_key]
  BY DEF EntryOf
<1> HIDE DEF rows, row
<1>5. QED BY <1>1, <1>3, <1>4 DEF EntryType

LEMMA RowRecognised ==
    ASSUME NEW s \in Stroke, NEW i \in PressedRows[s.key]
    PROVE  /\ s.kind = "Pressed" => Recognised(s, codes[i].code)
           /\ s.kind = "Released" =>
                Recognised(s, [codes[i].code EXCEPT ![Len(codes[i].code)] = @ + 128])
           /\ \A j \in PressedRows[s.key] : j = i
<1>1. /\ i \in DOMAIN codes /\ codes[i].key = s.key /\ codes[i].kind = "Pressed"
      /\ s.key \in Key /\ s.kind \in Kind
  BY DEF PressedRows, Stroke
<1>2. \A j \in PressedRows[s.key] : j = i
  BY <1>1, TableAssumption
<1>3. EntryOf(s) = [key |-> s.key, kind |-> s.kind, shifted_key |-> codes[i].shifted_key]
  BY <1>2 DEF EntryOf
<1>4. ASSUME NEW j \in DOMAIN codes, codes[j].key = s.key, codes[j].kind = s.kind,
             codes[j].shifted_key = codes[i].shifted_key
      PROVE  Recognised(s, codes[j].code)
  <2>1. Entry(codes[j]) = EntryOf(s)
    BY <1>3, <1>4 DEF Entry
  <2>2. CASE \E b \in Byte \ {224, 225} :
                 codes[j].code = <<b>> /\ Len(codes[j].code) = 1 /\ codes[j].code[1] = b
    <3>1. PICK b \in Byte \ {224, 225} :
              codes[j].code = <<b>> /\ Len(codes[j].code) = 1 /\ codes[j].code[1] = b
      BY <2>2
    <3>2. OneByte[b] = Entry(codes[j])
      BY <3>1, TableHasRow DEF OneByte
    <3>3. QED BY <2>1, <3>1, <3>2 DEF Recognised
  <2>3. CASE \E b \in Byte \ {42, 183} :
                 codes[j].code = <<224, b>> /\ Len(codes[j].code) = 2 /\ codes[j].code[2] = b
    <3>1. PICK b \in Byte \ {42, 183} :
              codes[j].code = <<224, b>> /\ Len(codes[j].code) = 2 /\ codes[j].code[2] = b
      BY <2>3
    <3>2. TwoByte[b] = Entry(codes[j])
      BY <3>1, TableHasRow, ZenonT(60) DEF TwoByte
    <3>3. QED BY <2>1, <3>1, <3>2 DEF Recognised
  <2>4. QED BY <2>2, <2>3, CodeForms
<1>5. CASE s.kind = "Released"
  <2> DEFINE raised == [codes[i].code EXCEPT ![Len(codes[i].code)] = @ + 128]
  <2>1. PICK j \in DOMAIN codes : codes[j] = [codes[i] EXCEPT !.code = raised, !.kind = "Released"]
    BY <1>1, TableAssumption
  <2> DEFINE Rows == [code : Seq(Byte), key : Key \ {"PrintScreen", "Pause"},
                      shifted_key : Key \cup {None}, kind : {"Pressed", "Released"}]
  <2>2. codes[i] \in Rows
    <3>1. codes \in Seq(Rows)
      BY TableAssumption
    <3> HIDE DEF Rows
    <3>2. QED BY <1>1, <3>1
  <2> HIDE DEF raised
  <2>3. /\ codes[j].code = raised /\ codes[j].kind = "Released"
        /\ codes[j].key = s.key /\ codes[j].shifted_key = codes[i].shifted_key
    BY <1>1, <2>1, <2>2
  <2>4. Recognised(s, raised)
    BY <1>4, <1>5, <2>3
  <2>5. QED BY <1>2, <1>5, <2>4 DEF raised
<1>6. CASE s.kind # "Released"
  BY <1>1, <1>2, <1>4, <1>6
<1>7. QED BY <1>5, <1>6

LEMMA CodesRecognised ==
    ASSUME NEW s \in Stroke, NEW code \in CodesOf(s)
    PROVE  /\ Recognised(s, code) /\ code \in Seq(Byte) /\ code # <<>>
           /\ s.kind = "Hit" => s.key = "Pause"
<1>1. ASSUME Recognised(s, code) PROVE code \in Seq(Byte) /\ code # <<>>
  <2>1. \A b \in Byte : <<b>> \in Seq(Byte) /\ <<b>> # <<>>
    OBVIOUS
  <2>2. \A b \in Byte : <<224, b>> \in Seq(Byte) /\ <<224, b>> # <<>>
    BY DEF Byte
  <2>3. \A c \in {PrintScreenPress, PrintScreenRelease, PausePress} : c \in Seq(Byte) /\ c # <<>>
    <3>1. PrintScreenPress \in Seq(Byte) /\ PrintScreenPress # <<>>
      BY DEF PrintScreenPress, Byte
    <3>2. PrintScreenRelease \in Seq(Byte) /\ PrintScreenRelease # <<>>
      BY DEF PrintScreenRelease, Byte
    <3>3. PausePress \in Seq(Byte) /\ PausePress # <<>>
      BY DEF PausePress, Byte
    <3>4. QED BY <3>1, <3>2, <3>3
  <2>4. CASE \E b \in Byte : code = <<b>>
    <3>1. PICK b \in Byte : code = <<b>>
      BY <2>4
    <3>2. QED BY ONLY <2>1, <3>1
  <2>5. CASE \E b \in Byte : code = <<224, b>>
    <3>1. PICK b \in Byte : code = <<224, b>>
      BY <2>5
    <3>2. QED BY ONLY <2>2, <3>1
  <2>6. CASE code \in {PrintScreenPress, PrintScreenRelease, PausePress}
    BY ONLY <2>3, <2>6
  <2>7. QED BY ONLY <1>1, <2>4, <2>5, <2>6, Zenon DEF Recognised
<1>2. CASE code \in OwnCodes(s)
  <2>1. \/ s = [key |-> "PrintScreen", kind |-> "Pressed"] /\ code = PrintScreenPress
        \/ s = [key |-> "PrintScreen", kind |-> "Released"] /\ code = PrintScreenRelease
        \/ s = [key |-> "Pause", kind |-> "Hit"] /\ code = PausePress
    BY <1>2 DEF OwnCodes
  <2>2. s.key \in {"PrintScreen", "Pause"} /\ s.key \in Key
    BY <2>1 DEF Stroke
  <2>3. PressedRows[s.key] = {}
    BY <2>2, CodesAre DEF PressedRows
  <2>4. EntryOf(s) = Unshifted(s.key, s.kind)
    BY <2>3 DEF EntryOf, Unshifted
  <2>5. QED BY <1>1, <2>1, <2>4 DEF Recognised
<1>3. CASE code \notin OwnCodes(s)
  <2>1. PICK i \in PressedRows[s.key] :
            \/ s.kind = "Pressed" /\ code = codes[i].code
            \/ s.kind = "Released" /\ code = [codes[i].code EXCEPT ![Len(codes[i].code)] = @ + 128]
    BY <1>3 DEF CodesOf, MakeCodes, Stroke, Kind
  <2>2. Recognised(s, code) /\ s.kind # "Hit"
    <3> DEFINE raised == [codes[i].code EXCEPT ![Len(codes[i].code)] = @ + 128]
    <3>1. /\ s.kind = "Pressed" => Recognised(s, codes[i].code)
          /\ s.kind = "Released" => Recognised(s, raised)
      BY RowRecognised
    <3> HIDE DEF raised
    <3>2. \/ s.kind = "Pressed" /\ code = codes[i].code
          \/ s.kind = "Released" /\ code = raised
      BY <2>1 DEF raised
    <3>3. QED BY <3>1, <3>2
  <2>3. QED BY <1>1, <2>2
<1>4. QED BY <1>2, <1>3

------------------------------------------------------------------------------
(* What the driver makes of the bytes of a code.                           *)

(* The driver has read the first n bytes of the code, and p is its pattern *)
Reads(code, n, p) ==
    /\ n \in 0 .. Len(code) - 1
    /\ n = 1 /\ code[1] = 224 => p = "TwoBytePrintScreen"
    /\ n \in {2, 3} /\ code = PrintScreenPress => p = "PrintScreenPressed"
    /\ n \in {2, 3} /\ code = PrintScreenRelease => p = "PrintScreenReleased"
    /\ n > 0 /\ code = PausePress => p = "Pause"

LEMMA ByteRead ==
    ASSUME NEW s, NEW code, Recognised(s, code), NEW n, NEW p, Reads(code, n, p)
    PROVE  /\ n + 1 = Len(code) =>
                ~ LeadsOn(n, p, code[n + 1]) /\ Reached(n, p, code[n + 1]) = EntryOf(s)
           /\ n + 1 # Len(code) =>
                /\ LeadsOn(n, p, code[n + 1]) /\ Reached(n, p, code[n + 1]) = NoEntry
                /\ Reads(code, n + 1, PatternAfter(n, p, code[n + 1]))
<1>1. CASE \E b \in Byte \ {224, 225} : code = <<b>> /\ OneByte[b] = EntryOf(s)
  <2>1. n = 0 /\ Len(code) = 1 /\ code[1] \in Byte \ {224, 225} /\ OneByte[code[1]] = EntryOf(s)
    BY <1>1 DEF Reads
  <2>2. QED BY <2>1 DEF LeadsOn, Reached
<1>2. CASE \E b \in Byte \ {42, 183} : code = <<224, b>> /\ TwoByte[b] = EntryOf(s)
  <2>1. /\ n \in {0, 1} /\ Len(code) = 2 /\ code[1] = 224 /\ code[2] \in Byte \ {42, 183}
        /\ TwoByte[code[2]] = EntryOf(s) /\ (n = 1 => p = "TwoBytePrintScreen")
        /\ code \notin {PrintScreenPress, PrintScreenRelease, PausePress}
    BY <1>2 DEF Reads, PrintScreenPress, PrintScreenRelease, PausePress
  <2>2. CASE n = 0
    <3>1. LeadsOn(n, p, 224) /\ Reached(n, p, 224) = NoEntry
      BY <2>2 DEF LeadsOn, Reached
    <3>2. PatternAfter(n, p, 224) = "TwoBytePrintScreen"
      BY <2>2 DEF PatternAfter
    <3>3. QED BY <2>1, <2>2, <3>1, <3>2 DEF Reads
  <2>3. CASE n = 1
    <3>1. ~ LeadsOn(1, p, code[2]) /\ Reached(1, p, code[2]) = TwoByte[code[2]]
      BY <2>1, <2>3 DEF LeadsOn, Reached
    <3>2. QED BY <2>1, <2>3, <3>1
  <2>4. QED BY <2>1, <2>2, <2>3
<1>3. CASE code = PrintScreenPress /\ EntryOf(s) = Unshifted("PrintScreen", "Pressed")
  BY <1>3 DEF Reads, LeadsOn, Reached, PatternAfter, PrintScreenPress, PrintScreenRelease, PausePress
<1>4. CASE code = PrintScreenRelease /\ EntryOf(s) = Unshifted("PrintScreen", "Released")
  BY <1>4 DEF Reads, LeadsOn, Reached, PatternAfter, PrintScreenPress, PrintScreenRelease, PausePress
<1>5. CASE code = PausePress /\ EntryOf(s) = Unshifted("Pause", "Hit")
  BY <1>5 DEF Reads, LeadsOn, Reached, PatternAfter, PrintScreenPress, PrintScreenRelease, PausePress
<1>6. QED BY <1>1, <1>2, <1>3, <1>4, <1>5 DEF Recognised

------------------------------------------------------------------------------
(* The invariant.                                                          *)

WireInv ==
    /\ wire \in Seq([stroke : Stroke, code : Seq(Byte)]) /\ Len(wire) <= MaxStrokes
    /\ \A i \in 1 .. Len(wire) : wire[i].code \in CodesOf(wire[i].stroke)
    /\ sent \in Nat /\ (wire = <<>> => sent = 0) /\ (wire # <<>> => sent < Len(wire[1].code))

PatternInv ==
    /\ byteCount \in 0 .. 5 /\ pattern \in Pattern
    /\ byteCount = 1 => pattern \in {"TwoBytePrintScreen", "Pause"}
    /\ byteCount \in {2, 3} => pattern # "TwoBytePrintScreen"
    /\ byteCount \in {4, 5} => pattern = "Pause"

BufferInv ==
    /\ typed \in Typings /\ held \subseteq typed /\ lost \in BOOLEAN
    /\ modifiers \subseteq Modifier /\ GoodBuffer(buffer) /\ got \in Event \cup {None}

(* As long as no byte is lost the driver has read what was sent.           *)
InStep ==
    ~ lost => /\ byteCount = sent
              /\ wire # <<>> => Reads(wire[1].code, sent, pattern)

(* The key will be down for the driver once the strokes of w are read, if  *)
(* those that are down for it now are m.                                   *)
WillBeDown(w, m, k) ==
    \/ \E i \in 1 .. Len(w) :
          /\ w[i].stroke.key = k /\ w[i].stroke.kind = "Pressed"
          /\ \A j \in 1 .. Len(w) : j > i => w[j].stroke.key # k
    \/ k \in m /\ \A i \in 1 .. Len(w) : w[i].stroke.key # k

ModifierInv == ~ lost => \A k \in Modifier : k \in held <=> WillBeDown(wire, modifiers, k)

KeyInv == WireInv /\ PatternInv /\ BufferInv /\ InStep /\ ModifierInv

LEMMA EventTyped ==
    ASSUME NEW e \in EntryType, NEW m \in SUBSET Modifier
    PROVE  EventOf(e, m) \in Value /\ Updated(m, e) \in SUBSET Modifier /\ e.key # None
<1>1. /\ e.key \in Key /\ e.shifted_key \in Key \cup {None} /\ e.kind \in Kind
      /\ e.key # None
  BY TableAssumption DEF EntryType
<1>2. Meaning(e, m) \in Key
  BY <1>1 DEF Meaning
<1> DEFINE chars == {CharsTable[i] : i \in DOMAIN keys}
<1>3. \A key \in Key : KeyToChar(key) \in chars
  <2>1. ASSUME NEW key \in Key PROVE EnumToInt[key] \in DOMAIN keys
    BY DEF Key, EnumToInt
  <2>2. QED BY <2>1 DEF KeyToChar
<1>4. None \in chars
  BY TableAssumption
<1> HIDE DEF chars
<1>5. (IF e.kind = "Pressed" THEN KeyToChar(Meaning(e, m)) ELSE None) \in chars
  BY <1>2, <1>3, <1>4
<1>6. EventOf(e, m) \in [unshifted_key : Key, kind : Kind, modifiers : SUBSET Modifier,
                         key : Key, char : chars]
  BY <1>1, <1>2, <1>5 DEF EventOf
<1>7. Updated(m, e) \in SUBSET Modifier
  BY DEF Updated
<1>8. QED BY <1>1, <1>6, <1>7, KeyboardAssumption DEF Event, chars

LEMMA ReachedType ==
    ASSUME NEW n, NEW p, NEW b \in Byte
    PROVE  Reached(n, p, b) = NoEntry \/ Reached(n, p, b) \in EntryType
<1>1. /\ OneByte[b] = NoEntry \/ OneByte[b] \in EntryType
      /\ TwoByte[b] = NoEntry \/ TwoByte[b] \in EntryType
  BY TableType DEF OneByte, TwoByte
<1>2. {"PrintScreen", "Pause"} \subseteq Key
  BY TableAssumption
<1>3. /\ Unshifted("PrintScreen", "Pressed") \in EntryType
      /\ Unshifted("PrintScreen", "Released") \in EntryType
      /\ Unshifted("Pause", "Hit") \in EntryType
  BY <1>2 DEF Unshifted, EntryType, Kind
<1> HIDE DEF NoEntry, EntryType, Unshifted
<1>4. QED BY <1>1, <1>3 DEF Reached

LEMMA InitKeyInv == Init => KeyInv
<1> SUFFICES ASSUME Init PROVE KeyInv
  OBVIOUS
<1>1. WireInv
  BY KeyboardAssumption DEF Init, WireInv
<1>2. PatternInv
  BY DEF Init, PatternInv
<1>3. BufferInv
  BY EmptyGood DEF Init, BufferInv
<1>4. InStep /\ ModifierInv
  BY DEF Init, InStep, ModifierInv, WillBeDown
<1>5. QED BY <1>1, <1>2, <1>3, <1>4 DEF KeyInv

------------------------------------------------------------------------------
(* A stroke is made.                                                       *)

LEMMA StrikeDown ==
    ASSUME NEW S, NEW w \in Seq(S), NEW x \in S, NEW m, NEW k
    PROVE  WillBeDown(Append(w, x), m, k) <=>
              IF x.stroke.key = k THEN x.stroke.kind = "Pressed" ELSE WillBeDown(w, m, k)
<1> DEFINE v == Append(w, x)
           n == Len(w)
<1>1. /\ n \in Nat /\ Len(v) = n + 1 /\ v[n + 1] = x /\ \A i \in 1 .. n : v[i] = w[i]
      /\ \A i \in 1 .. n + 1 : i \in 1 .. n \/ i = n + 1
      /\ \A i \in 1 .. n : i \in 1 .. n + 1 /\ i < n + 1
      /\ n + 1 \in 1 .. n + 1 /\ \A i \in 1 .. n + 1 : ~ (i > n + 1)
  OBVIOUS
<1> HIDE DEF v, n
<1>2. CASE x.stroke.key = k
  BY <1>1, <1>2 DEF WillBeDown, v, n
<1>3. CASE x.stroke.key # k
  BY <1>1, <1>3 DEF WillBeDown, v, n
<1>4. QED BY <1>2, <1>3

LEMMA StrikeStep ==
    ASSUME KeyInv, NEW s \in Stroke, s.key \in typed, Strike(s)
    PROVE  KeyInv'
<1>1. PICK code \in CodesOf(s) : wire' = Append(wire, [stroke |-> s, code |-> code])
  BY DEF Strike
<1> DEFINE x == [stroke |-> s, code |-> code]
           S == [stroke : Stroke, code : Seq(Byte)]
<1>2. /\ wire \in Seq(S) /\ x \in S /\ wire' = Append(wire, x) /\ code # <<>>
      /\ s.kind = "Hit" => s.key = "Pause"
  BY <1>1, CodesRecognised DEF KeyInv, WireInv
<1>3. /\ Len(wire') = Len(wire) + 1 /\ wire'[Len(wire) + 1] = x /\ wire' \in Seq(S)
      /\ \A i \in 1 .. Len(wire) : wire'[i] = wire[i]
  <2> HIDE DEF x, S
  <2>1. QED BY <1>2
<1>4. WireInv'
  <2>1. \A i \in 1 .. Len(wire') : wire'[i].code \in CodesOf(wire'[i].stroke)
    <3>1. \A i \in 1 .. Len(wire) : wire'[i].code \in CodesOf(wire'[i].stroke)
      BY <1>3 DEF KeyInv, WireInv
    <3>2. wire'[Len(wire) + 1].code \in CodesOf(wire'[Len(wire) + 1].stroke)
      BY <1>1, <1>3
    <3>3. QED BY <1>2, <1>3, <3>1, <3>2
  <2>2. Len(wire') <= MaxStrokes
    BY <1>2, <1>3, KeyboardAssumption DEF Strike
  <2>3. wire' # <<>> /\ sent' = sent /\ sent \in Nat
    <3>1. Len(wire) \in Nat
      BY DEF KeyInv, WireInv
    <3>2. Len(wire') # 0
      BY <1>3, <3>1
    <3>3. wire' # <<>>
      BY <3>2
    <3>4. sent' = sent
      BY DEF Strike
    <3>5. sent \in Nat
      BY DEF KeyInv, WireInv
    <3>6. QED BY <3>3, <3>4, <3>5
  <2>4. sent' < Len(wire'[1].code)
    <3>1. CASE wire = <<>>
      <4>1. sent = 0 /\ wire'[1] = x /\ Len(code) \in Nat \ {0}
        BY <1>2, <1>3, <3>1 DEF KeyInv, WireInv
      <4>2. QED BY <2>3, <4>1
    <3>2. CASE wire # <<>>
      <4>1. wire'[1] = wire[1]
        BY <1>2, <1>3, <3>2
      <4>2. QED BY <2>3, <3>2, <4>1 DEF KeyInv, WireInv
    <3>3. QED BY <3>1, <3>2
  <2>5. QED BY <1>3, <2>1, <2>2, <2>3, <2>4 DEF WireInv
<1>5. PatternInv'
  BY DEF Strike, KeyInv, PatternInv
<1>6. BufferInv'
  <2>1. held' \subseteq typed
    BY DEF Strike, KeyInv, BufferInv, Stroke, Kind
  <2>2. UNCHANGED <<typed, lost, modifiers, buffer, got>>
    BY DEF Strike
  <2>3. QED BY <2>1, <2>2 DEF KeyInv, BufferInv
<1>7. InStep'
  <2> SUFFICES ASSUME ~ lost PROVE byteCount = sent /\ Reads(wire'[1].code, sent, pattern)
    BY DEF Strike, InStep
  <2>1. CASE wire = <<>>
    <3>1. sent = 0 /\ byteCount = 0 /\ wire'[1].code = code
      BY <1>2, <1>3, <2>1 DEF KeyInv, WireInv, InStep
    <3>2. Len(code) \in Nat /\ Len(code) > 0
      BY CodesRecognised
    <3>3. QED BY <3>1, <3>2 DEF Reads
  <2>2. CASE wire # <<>>
    <3>1. wire'[1] = wire[1]
      BY <1>2, <1>3, <2>2
    <3>2. QED BY <2>2, <3>1 DEF KeyInv, InStep
  <2>3. QED BY <2>1, <2>2
<1>8. ModifierInv'
  <2> SUFFICES ASSUME ~ lost, NEW k \in Modifier
               PROVE  k \in held' <=> WillBeDown(wire', modifiers, k)
    BY DEF Strike, ModifierInv
  <2>1. k \in held <=> WillBeDown(wire, modifiers, k)
    BY DEF KeyInv, ModifierInv
  <2>2. WillBeDown(wire', modifiers, k) <=>
            IF s.key = k THEN s.kind = "Pressed" ELSE WillBeDown(wire, modifiers, k)
    <3>1. x.stroke = s
      OBVIOUS
    <3> HIDE DEF x, S
    <3>2. QED BY <1>2, <3>1, StrikeDown
  <2>3. k \in held' <=> IF s.key = k THEN s.kind = "Pressed" ELSE k \in held
    <3>1. s.kind = "Hit" => s.key # k
      BY <1>2 DEF Modifier, Shift, Alt, Control
    <3>2. QED BY <3>1 DEF Strike, Stroke, Kind
  <2>4. QED BY <2>1, <2>2, <2>3
<1>9. QED BY <1>4, <1>5, <1>6, <1>7, <1>8 DEF KeyInv

------------------------------------------------------------------------------
(* A byte is taken from the wire.                                          *)

LEMMA NextByte ==
    ASSUME KeyInv, wire # <<>>
    PROVE  /\ wire[1].stroke \in Stroke /\ wire[1].code \in CodesOf(wire[1].stroke)
           /\ TheByte \in Byte /\ sent \in Nat /\ sent + 1 <= Len(wire[1].code)
           /\ Recognised(wire[1].stroke, wire[1].code) /\ Len(wire[1].code) \in Nat
<1>1. wire \in Seq([stroke : Stroke, code : Seq(Byte)]) /\ 1 \in 1 .. Len(wire)
  BY DEF KeyInv, WireInv
<1>2. /\ wire[1].stroke \in Stroke /\ wire[1].code \in CodesOf(wire[1].stroke)
      /\ wire[1].code \in Seq(Byte) /\ sent \in Nat /\ sent < Len(wire[1].code)
  <2>1. wire[1] \in [stroke : Stroke, code : Seq(Byte)]
    BY <1>1, ElementOfSeq
  <2>2. QED BY <1>1, <2>1 DEF KeyInv, WireInv
<1>3. sent + 1 \in 1 .. Len(wire[1].code)
  BY <1>2
<1>4. QED BY <1>2, <1>3, CodesRecognised DEF TheByte

LEMMA TakeByteStep ==
    ASSUME KeyInv, wire # <<>>, TakeByte
    PROVE  WireInv'
<1>1. /\ wire \in Seq([stroke : Stroke, code : Seq(Byte)]) /\ Len(wire) <= MaxStrokes
      /\ \A i \in 1 .. Len(wire) : wire[i].code \in CodesOf(wire[i].stroke)
      /\ sent \in Nat /\ sent < Len(wire[1].code) /\ Len(wire[1].code) \in Nat
  BY NextByte DEF KeyInv, WireInv
<1>2. CASE sent + 1 = Len(wire[1].code)
  <2>1. wire' = Tail(wire) /\ sent' = 0
    BY <1>2 DEF TakeByte
  <2>2. /\ wire' \in Seq([stroke : Stroke, code : Seq(Byte)]) /\ Len(wire') = Len(wire) - 1
        /\ \A i \in 1 .. Len(wire') : i + 1 \in 1 .. Len(wire) /\ wire'[i] = wire[i + 1]
    BY <1>1, <2>1
  <2>3. Len(wire') <= MaxStrokes
    BY <1>1, <2>2, KeyboardAssumption
  <2>4. \A i \in 1 .. Len(wire') : wire'[i].code \in CodesOf(wire'[i].stroke)
    BY <1>1, <2>2
  <2>5. wire' # <<>> => 0 < Len(wire'[1].code)
    <3> SUFFICES ASSUME wire' # <<>> PROVE 0 < Len(wire'[1].code)
      OBVIOUS
    <3>1. 1 \in 1 .. Len(wire')
      BY <2>2
    <3>2. wire'[1] \in [stroke : Stroke, code : Seq(Byte)]
      BY <2>2, <3>1, ElementOfSeq
    <3>3. wire'[1].stroke \in Stroke /\ wire'[1].code \in CodesOf(wire'[1].stroke)
      BY <2>4, <3>1, <3>2
    <3>4. wire'[1].code \in Seq(Byte) /\ wire'[1].code # <<>>
      BY <3>3, CodesRecognised
    <3>5. QED BY <3>4
  <2>6. QED BY <2>1, <2>2, <2>3, <2>4, <2>5 DEF WireInv
<1>3. CASE sent + 1 # Len(wire[1].code)
  <2>1. wire' = wire /\ sent' = sent + 1
    BY <1>3 DEF TakeByte
  <2>2. QED BY <1>1, <1>3, <2>1 DEF KeyInv, WireInv
<1>4. QED BY <1>2, <1>3

LEMMA LoseByteStep ==
    ASSUME KeyInv, LoseByte
    PROVE  KeyInv'
<1>1. WireInv'
  BY TakeByteStep DEF LoseByte
<1>2. PatternInv'
  BY DEF LoseByte, KeyInv, PatternInv
<1>3. BufferInv'
  BY DEF LoseByte, KeyInv, BufferInv
<1>4. (InStep /\ ModifierInv)'
  BY DEF LoseByte, InStep, ModifierInv
<1>5. QED BY <1>1, <1>2, <1>3, <1>4 DEF KeyInv

LEMMA PatternStep ==
    ASSUME PatternInv, NEW b,
           byteCount' = IF LeadsOn(byteCount, pattern, b) THEN byteCount + 1 ELSE 0,
           pattern' = PatternAfter(byteCount, pattern, b)
    PROVE  PatternInv'
<1>1. CASE ~ LeadsOn(byteCount, pattern, b)
  BY <1>1 DEF PatternInv, PatternAfter, Pattern
<1>2. CASE LeadsOn(byteCount, pattern, b)
  <2>1. byteCount \in 0 .. 4 /\ byteCount' = byteCount + 1
    BY <1>2 DEF LeadsOn, PatternInv
  <2>2. CASE byteCount = 0
    BY <1>2, <2>1, <2>2 DEF PatternInv, LeadsOn, PatternAfter, Pattern
  <2>3. CASE byteCount = 1
    BY <1>2, <2>1, <2>3 DEF PatternInv, LeadsOn, PatternAfter, Pattern
  <2>4. CASE byteCount \in {2, 3, 4}
    BY <1>2, <2>1, <2>4 DEF PatternInv, LeadsOn, PatternAfter, Pattern
  <2>5. QED BY <2>1, <2>2, <2>3, <2>4
<1>3. QED BY <1>1, <1>2

(* Reading the first stroke is no news about any key.                      *)
LEMMA ReadDown ==
    ASSUME NEW w \in Seq([stroke : Stroke, code : Seq(Byte)]), w # <<>>, NEW m \in SUBSET Modifier,
           NEW e, e.key = w[1].stroke.key, e.kind = w[1].stroke.kind, NEW k \in Modifier
    PROVE  WillBeDown(Tail(w), Updated(m, e), k) <=> WillBeDown(w, m, k)
<1> DEFINE v == Tail(w)
           n == Len(v)
<1>1. /\ n \in Nat /\ Len(w) = n + 1 /\ \A i \in 1 .. n : v[i] = w[i + 1]
      /\ \A i \in 1 .. n : i + 1 \in 1 .. n + 1 /\ i + 1 > 1
      /\ \A i \in 1 .. n + 1 : i = 1 \/ (i - 1 \in 1 .. n /\ (i - 1) + 1 = i)
      /\ \A i, j \in 1 .. n : j > i <=> j + 1 > i + 1
      /\ \A i \in 1 .. n + 1 : ~ (1 > i)
  OBVIOUS
<1>2. \A i \in 1 .. n + 1 : i > 1 => i - 1 \in 1 .. n /\ w[i] = v[i - 1]
  <2>1. ASSUME NEW i \in 1 .. n + 1, i > 1 PROVE i - 1 \in 1 .. n /\ (i - 1) + 1 = i
    BY <1>1, <2>1
  <2>2. QED BY <1>1, <2>1
<1>3. k \in Updated(m, e) <=> IF w[1].stroke.key = k THEN w[1].stroke.kind = "Pressed" ELSE k \in m
  BY DEF Updated
<1> HIDE DEF v, n
<1> DEFINE Later == \E i \in 1 .. n : /\ v[i].stroke.key = k /\ v[i].stroke.kind = "Pressed"
                                      /\ \A j \in 1 .. n : j > i => v[j].stroke.key # k
           Others == \A i \in 1 .. n : v[i].stroke.key # k
<1>4. WillBeDown(v, Updated(m, e), k) <=> Later \/ (k \in Updated(m, e) /\ Others)
  BY DEF WillBeDown, n
<1>5. WillBeDown(w, m, k) <=>
          \/ Later
          \/ Others /\ IF w[1].stroke.key = k THEN w[1].stroke.kind = "Pressed" ELSE k \in m
  <2>1. ASSUME Later PROVE WillBeDown(w, m, k)
    <3>1. PICK i \in 1 .. n : /\ v[i].stroke.key = k /\ v[i].stroke.kind = "Pressed"
                              /\ \A j \in 1 .. n : j > i => v[j].stroke.key # k
      BY <2>1
    <3>2. w[i + 1].stroke.key = k /\ w[i + 1].stroke.kind = "Pressed" /\ i + 1 \in 1 .. Len(w)
      BY <1>1, <3>1
    <3>3. ASSUME NEW j \in 1 .. Len(w), j > i + 1 PROVE w[j].stroke.key # k
      <4>1. j - 1 \in 1 .. n /\ j - 1 > i /\ w[j] = v[j - 1]
        BY <1>1, <1>2, <3>3
      <4>2. QED BY <3>1, <4>1
    <3>4. QED BY <3>2, <3>3 DEF WillBeDown
  <2>2. ASSUME Others PROVE \A j \in 1 .. Len(w) : j > 1 => w[j].stroke.key # k
    <3>1. ASSUME NEW j \in 1 .. Len(w), j > 1 PROVE w[j].stroke.key # k
      <4>1. j - 1 \in 1 .. n /\ w[j] = v[j - 1]
        BY <1>1, <1>2, <3>1
      <4>2. QED BY <2>2, <4>1
    <3>2. QED BY <3>1
  <2>3. ASSUME Others, w[1].stroke.key = k, w[1].stroke.kind = "Pressed" PROVE WillBeDown(w, m, k)
    <3>1. 1 \in 1 .. Len(w)
      BY <1>1
    <3>2. QED BY <2>2, <2>3, <3>1 DEF WillBeDown
  <2>4. ASSUME Others, w[1].stroke.key # k, k \in m PROVE WillBeDown(w, m, k)
    <3>1. \A j \in 1 .. Len(w) : w[j].stroke.key # k
      BY <1>1, <2>2, <2>4
    <3>2. QED BY <2>4, <3>1 DEF WillBeDown
  <2>5. ASSUME WillBeDown(w, m, k)
        PROVE  \/ Later
               \/ Others /\ IF w[1].stroke.key = k THEN w[1].stroke.kind = "Pressed" ELSE k \in m
    <3>1. CASE k \in m /\ \A i \in 1 .. Len(w) : w[i].stroke.key # k
      BY <1>1, <3>1
    <3>2. CASE \E i \in 1 .. Len(w) :
                   /\ w[i].stroke.key = k /\ w[i].stroke.kind = "Pressed"
                   /\ \A j \in 1 .. Len(w) : j > i => w[j].stroke.key # k
      <4>1. PICK i \in 1 .. Len(w) :
                   /\ w[i].stroke.key = k /\ w[i].stroke.kind = "Pressed"
                   /\ \A j \in 1 .. Len(w) : j > i => w[j].stroke.key # k
        BY <3>2
      <4>2. CASE i = 1
        BY <1>1, <4>1, <4>2
      <4>3. CASE i > 1
        <5>1. i - 1 \in 1 .. n /\ v[i - 1] = w[i]
          BY <1>1, <1>2, <4>3
        <5>2. ASSUME NEW j \in 1 .. n, j > i - 1 PROVE v[j].stroke.key # k
          <6>1. j + 1 \in 1 .. Len(w) /\ j + 1 > i /\ v[j] = w[j + 1]
            BY <1>1, <5>2
          <6>2. QED BY <4>1, <6>1
        <5>3. QED BY <4>1, <5>1, <5>2
      <4>4. QED BY <1>1, <4>2, <4>3
    <3>3. QED BY <2>5, <3>1, <3>2 DEF WillBeDown
  <2> HIDE DEF Later, Others
  <2>6. QED BY <2>1, <2>3, <2>4, <2>5
<1> HIDE DEF Later, Others
<1>6. QED BY <1>3, <1>4, <1>5 DEF v

------------------------------------------------------------------------------
(* The driver reads a byte.                                                *)

(* A whole code makes an event of its stroke, and other bytes make none.   *)
LEMMA WholeCode ==
    ASSUME KeyInv, ~ lost, KeyboardEventOccured
    PROVE  /\ sent + 1 = Len(wire[1].code) =>
                /\ wire' = Tail(wire) /\ Handled(EntryOf(wire[1].stroke))
                /\ byteCount' = 0 /\ sent' = 0
           /\ sent + 1 # Len(wire[1].code) =>
                /\ UNCHANGED <<wire, modifiers, buffer>>
                /\ byteCount' = sent + 1 /\ sent' = sent + 1
                /\ Reads(wire[1].code, sent', pattern')
<1> DEFINE s == wire[1].stroke
           code == wire[1].code
<1>1. /\ wire # <<>> /\ s \in Stroke /\ Recognised(s, code) /\ byteCount = sent
      /\ Reads(code, sent, pattern) /\ TheByte = code[sent + 1]
  BY NextByte DEF KeyboardEventOccured, KeyInv, InStep, TheByte
<1>2. /\ sent + 1 = Len(code) =>
            ~ LeadsOn(sent, pattern, TheByte) /\ Reached(sent, pattern, TheByte) = EntryOf(s)
      /\ sent + 1 # Len(code) =>
            /\ LeadsOn(sent, pattern, TheByte) /\ Reached(sent, pattern, TheByte) = NoEntry
            /\ Reads(code, sent + 1, PatternAfter(sent, pattern, TheByte))
  BY <1>1, ByteRead, SMTT(40)
<1>3. EntryOf(s).key # None
  <2>1. \A x \in Stroke : EntryOf(x).key = x.key /\ x.key \in Key
    BY EntryOfType DEF Stroke
  <2>2. EntryOf(s).key \in Key
    BY <1>1, <2>1
  <2>3. QED BY <2>2, TableAssumption
<1>4. /\ TakeByte
      /\ byteCount' = IF LeadsOn(sent, pattern, TheByte) THEN sent + 1 ELSE 0
      /\ pattern' = PatternAfter(sent, pattern, TheByte)
      /\ IF Reached(sent, pattern, TheByte).key = None THEN UNCHANGED <<modifiers, buffer>>
         ELSE Handled(Reached(sent, pattern, TheByte))
  BY <1>1 DEF KeyboardEventOccured
<1>5. CASE sent + 1 = Len(code)
  BY <1>2, <1>3, <1>4, <1>5 DEF TakeByte
<1>6. CASE sent + 1 # Len(code)
  <2>1. NoEntry.key = None
    BY DEF NoEntry
  <2>2. QED BY <1>2, <1>4, <1>6, <2>1 DEF TakeByte
<1>7. QED BY <1>5, <1>6

LEMMA HandledGood ==
    ASSUME BufferInv, NEW e \in EntryType, Handled(e)
    PROVE  modifiers' \subseteq Modifier /\ GoodBuffer(buffer')
<1>1. EventOf(e, modifiers) \in Value /\ Updated(modifiers, e) \in SUBSET Modifier
  BY EventTyped DEF BufferInv
<1>2. QED BY <1>1, PushAppends DEF Handled, BufferInv

LEMMA ReadStep ==
    ASSUME KeyInv, KeyboardEventOccured
    PROVE  KeyInv'
<1>1. wire # <<>> /\ TakeByte /\ TheByte \in Byte /\ UNCHANGED <<typed, held, lost, got>>
  BY NextByte DEF KeyboardEventOccured
<1>2. WireInv'
  BY <1>1, TakeByteStep
<1>3. PatternInv'
  BY PatternStep DEF KeyboardEventOccured, KeyInv
<1>4. BufferInv'
  <2> DEFINE e == Reached(byteCount, pattern, TheByte)
  <2>1. e = NoEntry \/ e \in EntryType
    BY <1>1, ReachedType
  <2>2. IF e.key = None THEN UNCHANGED <<modifiers, buffer>> ELSE Handled(e)
    BY DEF KeyboardEventOccured
  <2> HIDE DEF e
  <2>3. modifiers' \subseteq Modifier /\ GoodBuffer(buffer')
    BY <2>1, <2>2, HandledGood DEF KeyInv, BufferInv, NoEntry
  <2>4. QED BY <1>1, <2>3 DEF KeyInv, BufferInv
<1>5. InStep'
  <2> SUFFICES ASSUME ~ lost
               PROVE  byteCount' = sent' /\ (wire' # <<>> => Reads(wire'[1].code, sent', pattern'))
    BY <1>1 DEF InStep
  <2>1. CASE sent + 1 = Len(wire[1].code)
    <3>1. byteCount' = 0 /\ sent' = 0
      BY <2>1, WholeCode
    <3>2. ASSUME wire' # <<>> PROVE Reads(wire'[1].code, 0, pattern')
      <4>1. 0 < Len(wire'[1].code) /\ Len(wire'[1].code) \in Nat
        <5>1. wire' \in Seq([stroke : Stroke, code : Seq(Byte)]) /\ 1 \in 1 .. Len(wire')
          BY <1>2, <3>2 DEF WireInv
        <5>2. wire'[1] \in [stroke : Stroke, code : Seq(Byte)]
          BY <5>1, ElementOfSeq
        <5>3. QED BY <1>2, <3>1, <3>2, <5>2 DEF WireInv
      <4>2. QED BY <4>1 DEF Reads
    <3>3. QED BY <3>1, <3>2
  <2>2. CASE sent + 1 # Len(wire[1].code)
    BY <2>2, WholeCode
  <2>3. QED BY <2>1, <2>2
<1>6. ModifierInv'
  <2> SUFFICES ASSUME ~ lost, NEW k \in Modifier
               PROVE  k \in held <=> WillBeDown(wire', modifiers', k)
    BY <1>1 DEF ModifierInv
  <2>1. k \in held <=> WillBeDown(wire, modifiers, k)
    BY DEF KeyInv, ModifierInv
  <2>2. CASE sent + 1 = Len(wire[1].code)
    <3> DEFINE e == EntryOf(wire[1].stroke)
    <3>1. wire' = Tail(wire) /\ modifiers' = Updated(modifiers, e)
      BY <2>2, WholeCode DEF Handled
    <3>2. e.key = wire[1].stroke.key /\ e.kind = wire[1].stroke.kind
      BY <1>1, NextByte, EntryOfType
    <3>3. /\ wire \in Seq([stroke : Stroke, code : Seq(Byte)]) /\ wire # <<>>
          /\ modifiers \in SUBSET Modifier
      BY <1>1 DEF KeyInv, WireInv, BufferInv
    <3> HIDE DEF e
    <3>4. WillBeDown(Tail(wire), Updated(modifiers, e), k) <=> WillBeDown(wire, modifiers, k)
      BY <3>2, <3>3, ReadDown
    <3>5. QED BY <2>1, <3>1, <3>4
  <2>3. CASE sent + 1 # Len(wire[1].code)
    BY <2>1, <2>3, WholeCode
  <2>4. QED BY <2>2, <2>3
<1>7. QED BY <1>2, <1>3, <1>4, <1>5, <1>6 DEF KeyInv

------------------------------------------------------------------------------
(* An event is taken.                                                      *)

LEMMA GetKeyStep ==
    ASSUME KeyInv, GetKey
    PROVE  KeyInv'
<1>1. UNCHANGED <<typed, held, wire, sent, lost, byteCount, pattern, modifiers>>
  BY DEF GetKey
<1>2. GoodBuffer(buffer') /\ got' \in Event \cup {None}
  <2>1. GoodBuffer(buffer) /\ buffer.len \in Nat
    BY ElementsSeq DEF KeyInv, BufferInv
  <2>2. CASE buffer.len = 0
    BY <2>1, <2>2 DEF GetKey
  <2>3. CASE buffer.len > 0
    <3>1. GoodBuffer(Popped(buffer))
      BY <2>1, <2>3, PopTakesFirst
    <3>2. Get(buffer, 0) \in Event
      BY <2>1, <2>3, KeyboardAssumption DEF GoodBuffer, Written
    <3>3. QED BY <2>3, <3>1, <3>2 DEF GetKey
  <2>4. QED BY <2>1, <2>2, <2>3
<1>3. WireInv' /\ PatternInv' /\ InStep' /\ ModifierInv'
  BY <1>1 DEF KeyInv, WireInv, PatternInv, InStep, ModifierInv
<1>4. BufferInv'
  BY <1>1, <1>2 DEF KeyInv, BufferInv
<1>5. QED BY <1>3, <1>4 DEF KeyInv

LEMMA KeyInvariance == Spec => []KeyInv
<1>1. KeyInv /\ [Next]_vars => KeyInv'
  <2> SUFFICES ASSUME KeyInv, [Next]_vars PROVE KeyInv'
    OBVIOUS
  <2>1. CASE \E key \in typed, does \in Kind : Strike([key |-> key, kind |-> does])
    <3>1. PICK key \in typed, does \in Kind : Strike([key |-> key, kind |-> does])
      BY <2>1
    <3>2. [key |-> key, kind |-> does] \in Stroke
      BY KeyboardAssumption DEF KeyInv, BufferInv, Stroke
    <3>3. QED BY <3>1, <3>2, StrikeStep
  <2>2. CASE LoseByte
    BY <2>2, LoseByteStep
  <2>3. CASE KeyboardEventOccured
    BY <2>3, ReadStep
  <2>4. CASE GetKey
    BY <2>4, GetKeyStep
  <2>5. CASE UNCHANGED vars
    BY <2>5 DEF vars, KeyInv, WireInv, PatternInv, BufferInv, InStep, ModifierInv
  <2>6. QED BY <2>1, <2>2, <2>3, <2>4, <2>5 DEF Next
<1>2. QED BY <1>1, InitKeyInv, PTL DEF Spec

(* The handler's variables are of their types, and pattern, which nothing  *)
(* initializes, is only read when it was set for the code in progress      *)
(* (keyboard_event_occured, ps2.zig lines 48-154), whatever bytes come    *)
(* and whichever of them are lost.                                         *)
THEOREM PatternAlwaysFits == Spec => []PatternFits
<1>1. KeyInv => PatternFits
  <2> SUFFICES ASSUME KeyInv PROVE PatternFits
    OBVIOUS
  <2>1. TypeOK
    BY DEF KeyInv, WireInv, PatternInv, BufferInv, GoodBuffer, TypeOK
  <2>2. byteCount \in 0 .. 5
    BY DEF KeyInv, PatternInv
  <2>3. CASE byteCount = 0
    BY <2>1, <2>3 DEF PatternFits
  <2>4. CASE byteCount = 1
    BY <2>1, <2>4 DEF KeyInv, PatternInv, PatternFits
  <2>5. CASE byteCount \in {2, 3}
    BY <2>1, <2>5 DEF KeyInv, PatternInv, PatternFits
  <2>6. CASE byteCount \in {4, 5}
    BY <2>1, <2>6 DEF KeyInv, PatternInv, PatternFits
  <2>7. QED BY <2>2, <2>3, <2>4, <2>5, <2>6
<1>2. QED BY <1>1, KeyInvariance, PTL

(* When every code has arrived whole the driver's modifiers are the        *)
(* modifier keys that are down (Modifiers.update, keyboard.zig), however   *)
(* the keys were struck and even if the buffer was full meanwhile.         *)
THEOREM ModifiersAlwaysFollowKeys == Spec => []ModifiersFollowKeys
<1>1. KeyInv => ModifiersFollowKeys
  <2> SUFFICES ASSUME KeyInv, wire = <<>>, ~ lost PROVE modifiers = held \cap Modifier
    BY DEF ModifiersFollowKeys
  <2>1. \A k \in Modifier : k \in held <=> k \in modifiers
    BY DEF KeyInv, ModifierInv, WillBeDown
  <2>2. modifiers \subseteq Modifier
    BY DEF KeyInv, BufferInv
  <2>3. QED BY <2>1, <2>2
<1>2. QED BY <1>1, KeyInvariance, PTL

------------------------------------------------------------------------------
(* The promise of KeyLine.                                                 *)

StrokesOf(w) == [i \in 1 .. Len(w) |-> w[i].stroke]

LEMMA StrokesAre ==
    ASSUME NEW w \in Seq([stroke : Stroke, code : Seq(Byte)])
    PROVE  /\ StrokesOf(w) \in Seq(Stroke) /\ Len(StrokesOf(w)) = Len(w)
           /\ \A i \in 1 .. Len(w) : StrokesOf(w)[i] = w[i].stroke
<1>1. \A i \in 1 .. Len(w) : w[i].stroke \in Stroke
  <2>1. ASSUME NEW i \in 1 .. Len(w) PROVE w[i].stroke \in Stroke
    <3>1. w[i] \in [stroke : Stroke, code : Seq(Byte)]
      BY ElementOfSeq
    <3>2. QED BY <3>1
  <2>2. QED BY <2>1
<1>2. /\ StrokesOf(w) \in Seq(Stroke) /\ Len(StrokesOf(w)) = Len(w)
      /\ \A i \in 1 .. Len(w) : StrokesOf(w)[i] = w[i].stroke
  BY <1>1 DEF StrokesOf
<1>3. QED BY <1>2

LEMMA StrokesTail ==
    ASSUME NEW w \in Seq([stroke : Stroke, code : Seq(Byte)]), w # <<>>
    PROVE  /\ StrokesOf(Tail(w)) = Tail(StrokesOf(w)) /\ StrokesOf(w) # <<>>
           /\ Head(StrokesOf(w)) = w[1].stroke
<1>1. /\ Tail(w) \in Seq([stroke : Stroke, code : Seq(Byte)])
      /\ Len(Tail(w)) = Len(w) - 1 /\ Len(w) \in Nat \ {0}
      /\ \A i \in 1 .. Len(w) - 1 : Tail(w)[i] = w[i + 1] /\ i + 1 \in 1 .. Len(w)
  BY SMTT(40)
<1>2. /\ StrokesOf(w) \in Seq(Stroke) /\ Len(StrokesOf(w)) = Len(w)
      /\ \A i \in 1 .. Len(w) : StrokesOf(w)[i] = w[i].stroke
      /\ StrokesOf(Tail(w)) \in Seq(Stroke) /\ Len(StrokesOf(Tail(w))) = Len(w) - 1
      /\ \A i \in 1 .. Len(w) - 1 : StrokesOf(Tail(w))[i] = Tail(w)[i].stroke
  BY <1>1, StrokesAre
<1>3. /\ Tail(StrokesOf(w)) \in Seq(Stroke) /\ Len(Tail(StrokesOf(w))) = Len(w) - 1
      /\ \A i \in 1 .. Len(w) - 1 : Tail(StrokesOf(w))[i] = StrokesOf(w)[i + 1]
  BY <1>1, <1>2
<1>4. ASSUME NEW i \in 1 .. Len(w) - 1 PROVE StrokesOf(Tail(w))[i] = Tail(StrokesOf(w))[i]
  <2>1. i + 1 \in 1 .. Len(w) /\ Tail(w)[i] = w[i + 1]
    BY <1>1
  <2>2. StrokesOf(Tail(w))[i] = w[i + 1].stroke
    BY <1>2, <2>1
  <2>3. QED BY <1>2, <1>3, <2>1, <2>2
<1>5. StrokesOf(Tail(w)) = Tail(StrokesOf(w))
  BY <1>2, <1>3, <1>4, SeqEqual
<1>6. 1 \in 1 .. Len(w) /\ StrokesOf(w) # <<>> /\ Head(StrokesOf(w)) = StrokesOf(w)[1]
  BY <1>1, <1>2
<1>7. QED BY <1>2, <1>5, <1>6

LEMMA InitLine == Init => Line!Init
<1> SUFFICES ASSUME Init PROVE Line!Init
  OBVIOUS
<1>1. wire = <<>> /\ modifiers = {} /\ got = None /\ lost = FALSE /\ Elements(buffer) = <<>>
  BY EmptyGood DEF Init
<1>2. [i \in 1 .. Len(wire) |-> wire[i].stroke] = <<>>
  BY <1>1
<1>3. QED BY <1>1, <1>2 DEF Line!Init

LEMMA StrikeLine ==
    ASSUME KeyInv, NEW s \in Stroke, Strike(s)
    PROVE  Line!Strike
<1>1. PICK code \in CodesOf(s) : wire' = Append(wire, [stroke |-> s, code |-> code])
  BY DEF Strike
<1> DEFINE x == [stroke |-> s, code |-> code]
           S == [stroke : Stroke, code : Seq(Byte)]
<1>2. wire \in Seq(S) /\ x \in S /\ wire' = Append(wire, x)
  BY <1>1, CodesRecognised DEF KeyInv, WireInv
<1>3. /\ wire' \in Seq(S) /\ Len(wire') = Len(wire) + 1 /\ wire'[Len(wire) + 1] = x
      /\ \A i \in 1 .. Len(wire) : wire'[i] = wire[i]
  <2> HIDE DEF x, S
  <2>1. QED BY <1>2
<1>4. /\ StrokesOf(wire) \in Seq(Stroke) /\ Len(StrokesOf(wire)) = Len(wire)
      /\ \A i \in 1 .. Len(wire) : StrokesOf(wire)[i] = wire[i].stroke
      /\ StrokesOf(wire') \in Seq(Stroke) /\ Len(StrokesOf(wire')) = Len(wire) + 1
      /\ \A i \in 1 .. Len(wire) + 1 : StrokesOf(wire')[i] = wire'[i].stroke
  BY <1>2, <1>3, StrokesAre
<1>5. Front(StrokesOf(wire')) = StrokesOf(wire)
  <2>1. /\ Front(StrokesOf(wire')) \in Seq(Stroke) /\ Len(Front(StrokesOf(wire'))) = Len(wire)
        /\ \A i \in 1 .. Len(wire) : Front(StrokesOf(wire'))[i] = StrokesOf(wire')[i]
    BY <1>2, <1>4 DEF Front
  <2>2. ASSUME NEW i \in 1 .. Len(wire) PROVE Front(StrokesOf(wire'))[i] = StrokesOf(wire)[i]
    <3>1. i \in 1 .. Len(wire) + 1 /\ wire'[i] = wire[i]
      BY <1>2, <1>3
    <3>2. StrokesOf(wire')[i] = wire'[i].stroke /\ StrokesOf(wire)[i] = wire[i].stroke
      BY <1>4, <3>1
    <3>3. QED BY <2>1, <3>1, <3>2
  <2>3. QED BY <1>4, <2>1, <2>2, SeqEqual
<1>6. Last(StrokesOf(wire')) = s
  BY <1>2, <1>3, <1>4 DEF Last
<1>7. Len(wire) < MaxStrokes /\ UNCHANGED <<modifiers, buffer, got, lost>>
  BY DEF Strike
<1>8. UNCHANGED <<modifiers, Elements(buffer), got, lost>>
  BY <1>7
<1>9. \A w : Line!Front(w) = Front(w) /\ Line!Last(w) = Last(w)
  BY DEF Line!Front, Front, Line!Last, Last
<1> HIDE DEF x, S
<1>10. /\ Len(StrokesOf(wire)) < MaxStrokes
       /\ Len(StrokesOf(wire')) = Len(StrokesOf(wire)) + 1
       /\ Line!Front(StrokesOf(wire')) = StrokesOf(wire) /\ Line!Last(StrokesOf(wire')) \in Stroke
  BY <1>4, <1>5, <1>6, <1>7, <1>9
<1>11. QED BY <1>8, <1>10 DEF Line!Strike, StrokesOf

LEMMA ReadLine ==
    ASSUME KeyInv, KeyboardEventOccured
    PROVE  Line!Deliver \/ Line!lineVars' = Line!lineVars \/ lost'
<1> SUFFICES ASSUME ~ lost PROVE Line!Deliver \/ Line!lineVars' = Line!lineVars
  BY DEF KeyboardEventOccured
<1> DEFINE s == wire[1].stroke
           e == EntryOf(s)
<1>1. /\ wire # <<>> /\ wire \in Seq([stroke : Stroke, code : Seq(Byte)])
      /\ s \in Stroke /\ UNCHANGED <<got, lost>>
  BY NextByte DEF KeyboardEventOccured, KeyInv, WireInv
<1>2. CASE sent + 1 = Len(wire[1].code)
  <2>1. wire' = Tail(wire) /\ Handled(e)
    BY <1>2, WholeCode
  <2>2. e \in EntryType /\ e.key = s.key /\ e.kind = s.kind
    BY <1>1, EntryOfType
  <2>3. /\ StrokesOf(wire') = Tail(StrokesOf(wire)) /\ StrokesOf(wire) # <<>>
        /\ Head(StrokesOf(wire)) = s
    BY <1>1, <2>1, StrokesTail
  <2>4. modifiers' = Updated(modifiers, s)
    BY <2>1, <2>2 DEF Handled, Updated
  <2>5. GoodBuffer(buffer) /\ EventOf(e, modifiers) \in Value
    BY <2>2, EventTyped DEF KeyInv, BufferInv
  <2>6. Len(Elements(buffer)) = buffer.len /\ buffer.len \in 0 .. MaxLen
    BY <2>5, ElementsSeq DEF GoodBuffer, Buffer
  <2>7. Elements(buffer') = IF IsDebugChord(e, modifiers) \/ Len(Elements(buffer)) = MaxLen
                            THEN Elements(buffer) ELSE Append(Elements(buffer), EventOf(e, modifiers))
    <3>1. CASE IsDebugChord(e, modifiers)
      BY <2>1, <3>1 DEF Handled
    <3>2. CASE ~ IsDebugChord(e, modifiers)
      <4>1. buffer' = Pushed(buffer, EventOf(e, modifiers))
        BY <2>1, <3>2 DEF Handled
      <4>2. CASE buffer.len = MaxLen
        BY <2>5, <2>6, <4>1, <4>2, PushAppends, KeyboardAssumption
      <4>3. CASE buffer.len # MaxLen
        <5>1. buffer.len < MaxLen
          BY <2>6, <4>3, BufferAssumption
        <5>2. QED BY <2>5, <2>6, <3>2, <4>1, <4>3, <5>1, PushAppends
      <4>4. QED BY <4>2, <4>3
    <3>3. QED BY <3>1, <3>2
  <2>8. Line!Deliver
    BY <1>1, <2>3, <2>4, <2>7
       DEF Line!Deliver, StrokesOf, EventOfStroke, StrokeIsDebugChord
  <2>9. QED BY <2>8
<1>3. CASE sent + 1 # Len(wire[1].code)
  BY <1>1, <1>3, WholeCode DEF Line!lineVars
<1>4. QED BY <1>2, <1>3

LEMMA GetKeyLine ==
    ASSUME KeyInv, GetKey
    PROVE  Line!Take \/ lost'
<1> SUFFICES ASSUME ~ lost PROVE Line!Take
  BY DEF GetKey
<1>1. UNCHANGED <<wire, modifiers, lost>>
  BY DEF GetKey
<1>2. GoodBuffer(buffer) /\ Len(Elements(buffer)) = buffer.len /\ buffer.len \in Nat
  BY ElementsSeq DEF KeyInv, BufferInv
<1>3. CASE buffer.len = 0
  <2>1. Elements(buffer) = <<>>
    BY <1>2, <1>3, ElementsSeq
  <2>2. got' = None /\ buffer' = buffer
    BY <1>3 DEF GetKey
  <2>3. QED BY <1>1, <2>1, <2>2 DEF Line!Take
<1>4. CASE buffer.len > 0
  <2>1. got' = Get(buffer, 0) /\ buffer' = Popped(buffer)
    BY <1>4 DEF GetKey
  <2>2. /\ Elements(buffer) # <<>> /\ Get(buffer, 0) = Head(Elements(buffer))
        /\ Elements(Popped(buffer)) = Tail(Elements(buffer))
    BY <1>2, <1>4, PopTakesFirst
  <2>3. QED BY <1>1, <2>1, <2>2 DEF Line!Take
<1>5. QED BY <1>2, <1>3, <1>4

(* The driver does as KeyLine promises: each stroke whose code arrives     *)
(* whole becomes one event, in order, which waits until get_key takes it   *)
(* or is lost because the buffer is full, and what it says of the          *)
(* modifiers never is (keyboard_event_occured and get_key of ps2.zig).     *)
(* That each one is dealt with some time, ImplementsKeyLine's fairness, is *)
(* left to the runs.                                                       *)
THEOREM DriverKeepsLine == Spec => Line!SafeSpec
<1>1. KeyInv /\ [Next]_vars => [Line!Next]_(Line!lineVars)
  <2> SUFFICES ASSUME KeyInv, [Next]_vars PROVE [Line!Next]_(Line!lineVars)
    OBVIOUS
  <2>1. CASE \E key \in typed, does \in Kind : Strike([key |-> key, kind |-> does])
    <3>1. PICK key \in typed, does \in Kind : Strike([key |-> key, kind |-> does])
      BY <2>1
    <3>2. [key |-> key, kind |-> does] \in Stroke
      BY KeyboardAssumption DEF KeyInv, BufferInv, Stroke
    <3>3. Line!Strike
      BY <3>1, <3>2, StrikeLine
    <3>4. QED BY <3>3 DEF Line!Next
  <2>2. CASE LoseByte
    BY <2>2 DEF LoseByte, Line!Next
  <2>3. CASE KeyboardEventOccured
    BY <2>3, ReadLine DEF Line!Next
  <2>4. CASE GetKey
    BY <2>4, GetKeyLine DEF Line!Next
  <2>5. CASE UNCHANGED vars
    BY <2>5 DEF vars, Line!lineVars
  <2>6. QED BY <2>1, <2>2, <2>3, <2>4, <2>5 DEF Next
<1>2. QED BY <1>1, InitLine, KeyInvariance, PTL DEF Spec, Line!SafeSpec

-----------------------------------------------------------------------------
(* Sizes.                                                                  *)

LEMMA PowIs ==
    /\ Levels \in Nat \ {0} /\ LastLevel \in Nat
    /\ Pow2 \in [0 .. Levels -> Nat \ {0}]
    /\ Pow2[0] = 1
    /\ \A n \in 1 .. Levels : Pow2[n] = 2 * Pow2[n - 1]
<1> DEFINE Is(f, m) == f[0] = 1 /\ \A n \in 1 .. m : f[n] = 2 * f[n - 1]
           Have == {m \in Nat : \E f \in [0 .. m -> Nat \ {0}] : Is(f, m)}
           Eq(f) == f = [n \in 0 .. Levels |-> IF n = 0 THEN 1 ELSE 2 * f[n - 1]]
<1>0. Levels \in Nat \ {0}
  BY BuddyAssumption
<1>1. 0 \in Have
  <2>1. [n \in 0 .. 0 |-> 1] \in [0 .. 0 -> Nat \ {0}] /\ Is([n \in 0 .. 0 |-> 1], 0)
    OBVIOUS
  <2> HIDE DEF Is
  <2>2. QED BY <2>1
<1>2. ASSUME NEW m \in Nat, m \in Have PROVE m + 1 \in Have
  <2>1. PICK f \in [0 .. m -> Nat \ {0}] : Is(f, m)
    BY <1>2
  <2> DEFINE g == [n \in 0 .. m + 1 |-> IF n = m + 1 THEN 2 * f[m] ELSE f[n]]
  <2>2. g \in [0 .. m + 1 -> Nat \ {0}]
    <3>1. 2 * f[m] \in Nat \ {0}
      <4>1. f[m] \in Nat \ {0}
        OBVIOUS
      <4>2. QED BY <4>1
    <3>2. \A n \in 0 .. m + 1 : n # m + 1 => f[n] \in Nat \ {0}
      OBVIOUS
    <3>3. QED BY <3>1, <3>2
  <2>3. g[0] = 1
    BY <2>1
  <2>4. ASSUME NEW n \in 1 .. m + 1 PROVE g[n] = 2 * g[n - 1]
    <3>1. CASE n = m + 1
      BY <3>1
    <3>2. CASE n \in 1 .. m
      BY <2>1, <3>2
    <3>3. QED BY <3>1, <3>2
  <2> HIDE DEF g
  <2>5. Is(g, m + 1)
    BY <2>3, <2>4
  <2> HIDE DEF Is
  <2>6. QED BY <2>2, <2>5, SMTT(40)
<1>3. PICK f \in [0 .. Levels -> Nat \ {0}] : Is(f, Levels)
  <2>1. Levels \in Have
    <3> HIDE DEF Have
    <3>1. QED BY <1>0, <1>1, <1>2, SetInduction
  <2>2. QED BY <2>1
<1>4. Eq(f)
  <2>1. \A n \in 0 .. Levels : f[n] = IF n = 0 THEN 1 ELSE 2 * f[n - 1]
    BY <1>0, <1>3
  <2>2. QED BY <2>1
<1>5. Eq(Pow2)
  <2> HIDE DEF Eq
  <2>1. Eq(CHOOSE p : Eq(p))
    BY <1>4
  <2>2. QED BY <2>1 DEF Pow2, Eq
<1>6. Pow2[0] = 1 /\ \A n \in 1 .. Levels : Pow2[n] = 2 * Pow2[n - 1]
  BY <1>0, <1>5
<1>7. \A n \in 0 .. Levels : Pow2[n] \in Nat \ {0}
  <2> DEFINE S == {n \in Nat : n <= Levels => Pow2[n] \in Nat \ {0}}
  <2>1. 0 \in S
    BY <1>6
  <2>2. ASSUME NEW n \in Nat, n \in S PROVE n + 1 \in S
    <3>1. CASE n + 1 <= Levels
      <4>1. Pow2[n + 1] = 2 * Pow2[n]
        BY <1>0, <1>6, <3>1
      <4>2. Pow2[n] \in Nat \ {0}
        BY <1>0, <2>2, <3>1
      <4>3. QED BY <4>1, <4>2
    <3>2. QED BY <3>1
  <2>3. Nat \subseteq S
    <3> HIDE DEF S
    <3>1. QED BY <2>1, <2>2, SetInduction
  <2>4. QED BY <1>0, <2>3
<1>8. Pow2 = [n \in 0 .. Levels |-> Pow2[n]]
  <2>1. DOMAIN Pow2 = 0 .. Levels
    BY <1>5
  <2>2. QED BY <1>5, <2>1
<1>9. QED BY <1>0, <1>6, <1>7, <1>8 DEF LastLevel

LEMMA PowSplits == \A l \in Level : Pow2[l] * Pow2[LastLevel - l] = Pow2[LastLevel]
<1> DEFINE S == {l \in Nat : l \in Level => Pow2[l] * Pow2[LastLevel - l] = Pow2[LastLevel]}
<1>1. Levels \in Nat \ {0} /\ LastLevel = Levels - 1
  BY PowIs DEF LastLevel
<1>2. 0 \in S
  <2>1. Pow2[0] = 1 /\ Pow2[LastLevel] \in Nat
    BY <1>1, PowIs
  <2>2. QED BY <1>1, <2>1
<1>3. ASSUME NEW l \in Nat, l \in S PROVE l + 1 \in S
  <2> SUFFICES ASSUME l + 1 \in Level PROVE Pow2[l + 1] * Pow2[LastLevel - (l + 1)] = Pow2[LastLevel]
    OBVIOUS
  <2>1. l \in Level /\ l + 1 \in 1 .. Levels /\ LastLevel - l \in 1 .. Levels
    BY <1>1 DEF Level
  <2>2. Pow2[l + 1] = 2 * Pow2[l] /\ Pow2[LastLevel - l] = 2 * Pow2[LastLevel - (l + 1)]
    <3>1. (l + 1) - 1 = l /\ (LastLevel - l) - 1 = LastLevel - (l + 1)
      BY <1>1
    <3>2. QED BY <2>1, <3>1, PowIs
  <2>3. Pow2[l] \in Nat /\ Pow2[LastLevel - (l + 1)] \in Nat
    <3>1. l \in 0 .. Levels /\ LastLevel - (l + 1) \in 0 .. Levels
      BY <1>1, <2>1 DEF Level
    <3>2. QED BY <3>1, PowIs
  <2>4. PICK a \in Nat, b \in Nat : a = Pow2[l] /\ b = Pow2[LastLevel - (l + 1)]
    BY <2>3
  <2>5. (2 * a) * b = a * (2 * b)
    BY ONLY a \in Nat, b \in Nat
  <2>6. Pow2[l] * Pow2[LastLevel - l] = Pow2[LastLevel]
    BY <1>3, <2>1
  <2>7. QED BY <2>2, <2>4, <2>5, <2>6
<1>4. Nat \subseteq S
  <2> HIDE DEF S
  <2>1. QED BY <1>2, <1>3, SetInduction
<1>5. QED BY <1>1, <1>4 DEF Level

LEMMA DivMul ==
    ASSUME NEW a \in Nat \ {0}, NEW b \in Nat
    PROVE  (a * b) \div a = b /\ (b * a) \div a = b /\ a * b \in Nat
<1>1. a * b \in Nat /\ b * a = a * b
  OBVIOUS
<1>2. (a * b) \div a = b
  OBVIOUS
<1>3. QED BY <1>1, <1>2

(* The widths of the levels: of a block, in bytes or in pointers.          *)
Widths(w) ==
    /\ w \in [Level -> Nat \ {0}]
    /\ \A l \in Level : l > 0 => w[l - 1] = 2 * w[l]
    /\ \A l \in Level : Pow2[l] * w[l] = w[0]

LEMMA WidthsIs ==
    ASSUME NEW m \in Nat \ {0}
    PROVE  Widths([l \in Level |-> m * Pow2[LastLevel - l]])
<1> DEFINE w == [l \in Level |-> m * Pow2[LastLevel - l]]
<1>1. Levels \in Nat \ {0} /\ LastLevel = Levels - 1 /\ 0 \in Level
  BY PowIs DEF LastLevel, Level
<1>2. ASSUME NEW l \in Level
      PROVE  l \in Nat /\ LastLevel - l \in 0 .. Levels /\ Pow2[LastLevel - l] \in Nat \ {0} /\ w[l] \in Nat \ {0}
  <2>1. l \in Nat /\ LastLevel - l \in 0 .. Levels
    BY <1>1 DEF Level
  <2>2. Pow2[LastLevel - l] \in Nat \ {0}
    BY <2>1, PowIs
  <2>3. PICK b \in Nat \ {0} : b = Pow2[LastLevel - l]
    BY <2>2
  <2>4. m * b \in Nat \ {0}
    BY ONLY m \in Nat \ {0}, b \in Nat \ {0}
  <2>5. QED BY <2>1, <2>2, <2>3, <2>4
<1>3. ASSUME NEW l \in Level, l > 0 PROVE w[l - 1] = 2 * w[l]
  <2>1. l - 1 \in Level /\ LastLevel - (l - 1) \in 1 .. Levels /\ (LastLevel - (l - 1)) - 1 = LastLevel - l
    BY <1>1, <1>3 DEF Level
  <2>2. Pow2[LastLevel - (l - 1)] = 2 * Pow2[LastLevel - l]
    BY <2>1, PowIs
  <2>3. PICK b \in Nat : b = Pow2[LastLevel - l]
    BY <1>2
  <2>4. m * (2 * b) = 2 * (m * b)
    BY ONLY m \in Nat \ {0}, b \in Nat
  <2>5. QED BY <2>1, <2>2, <2>3, <2>4
<1>4. ASSUME NEW l \in Level PROVE Pow2[l] * w[l] = w[0]
  <2>1. Pow2[l] * Pow2[LastLevel - l] = Pow2[LastLevel] /\ l \in 0 .. Levels
    BY <1>1, PowSplits DEF Level
  <2>2. PICK a \in Nat, b \in Nat : a = Pow2[l] /\ b = Pow2[LastLevel - l]
    BY <1>2, <2>1, PowIs
  <2>3. a * (m * b) = m * (a * b)
    BY ONLY m \in Nat \ {0}, a \in Nat, b \in Nat
  <2>4. w[0] = m * Pow2[LastLevel]
    BY <1>1
  <2>5. QED BY <2>1, <2>2, <2>3, <2>4
<1>5. w \in [Level -> Nat \ {0}]
  BY <1>2
<1> HIDE DEF w
<1>6. Widths(w)
  BY <1>3, <1>4, <1>5 DEF Widths
<1>7. QED BY <1>6 DEF w

(* Where a block begins, and which block of a level something is in.       *)
LEMMA BlockBegins ==
    ASSUME NEW w, Widths(w), NEW l \in Level, NEW i \in 0 .. Pow2[l] - 1
    PROVE  i * w[l] \in 0 .. w[0] - 1 /\ (i * w[l]) \div w[l] = i
<1>1. PICK a \in Nat \ {0} : a = w[l]
  BY DEF Widths
<1>2. PICK b \in Nat \ {0} : b = Pow2[l]
  <2>1. l \in 0 .. Levels
    BY PowIs DEF Level
  <2>2. QED BY <2>1, PowIs
<1>3. b * a = w[0] /\ i \in 0 .. b - 1 /\ i \in Nat
  BY <1>1, <1>2 DEF Widths
<1>4. (i * a) \div a = i /\ i * a \in Nat
  BY <1>3, DivMul
<1>5. i * a < b * a
  <2>1. i < b /\ i \in Nat
    BY <1>3
  <2>2. QED BY ONLY <2>1, a \in Nat \ {0}, b \in Nat \ {0}
<1>6. QED BY <1>1, <1>3, <1>4, <1>5

LEMMA BlockAround ==
    ASSUME NEW w, Widths(w), NEW l \in Level, NEW p \in 0 .. w[0] - 1
    PROVE  p \div w[l] \in 0 .. Pow2[l] - 1
<1>1. PICK a \in Nat \ {0} : a = w[l]
  BY DEF Widths
<1>2. PICK b \in Nat \ {0} : b = Pow2[l]
  <2>1. l \in 0 .. Levels
    BY PowIs DEF Level
  <2>2. QED BY <2>1, PowIs
<1>3. b * a = w[0] /\ p \in Nat /\ w[0] \in Nat
  <2>1. 0 \in Level
    BY PowIs DEF Level
  <2>2. QED BY <1>1, <1>2, <2>1 DEF Widths
<1>4. p < b * a
  BY <1>3
<1>5. p \div a \in Nat /\ p \div a < b
  BY ONLY p \in Nat, a \in Nat \ {0}, b \in Nat \ {0}, <1>4
<1>6. QED BY <1>1, <1>2, <1>5

LEMMA BlockAbove ==
    ASSUME NEW w, Widths(w), NEW l \in Level, l > 0, NEW p \in 0 .. w[0] - 1
    PROVE  (p \div w[l]) \div 2 = p \div w[l - 1]
<1>1. PICK a \in Nat \ {0} : a = w[l] /\ w[l - 1] = 2 * a
  BY DEF Widths
<1>2. p \in Nat
  OBVIOUS
<1>3. (p \div a) \div 2 = p \div (2 * a)
  BY ONLY p \in Nat, a \in Nat \ {0}
<1>4. QED BY <1>1, <1>3

-----------------------------------------------------------------------------
(* Blocks and the pointers to them.                                        *)

KindOK == kind \in {"InSelf", "InManagedArea"}

(* address_to_block finds the array's element of an address.               *)
PointersFit == kind = "InSelf" => MinSize = FreeBlockSize

LEMMA LevelIs ==
    /\ LastLevel \in Nat /\ LastLevel = Levels - 1 /\ Level = 0 .. LastLevel
    /\ 0 \in Level /\ LastLevel \in Level
    /\ \A l \in Level : Pow2[l] \in Nat \ {0} /\ LastLevel - l \in Level
    /\ Pow2[0] = 1
    /\ \A l \in Level : l < LastLevel => l + 1 \in Level /\ Pow2[l + 1] = 2 * Pow2[l]
<1>1. Levels \in Nat \ {0} /\ LastLevel = Levels - 1 /\ Level = 0 .. LastLevel
  BY PowIs DEF LastLevel, Level
<1>2. \A l \in Level : l \in 0 .. Levels /\ LastLevel - l \in Level
  BY <1>1
<1>3. ASSUME NEW l \in Level, l < LastLevel PROVE l + 1 \in Level /\ Pow2[l + 1] = 2 * Pow2[l]
  <2>1. l + 1 \in Level /\ l + 1 \in 1 .. Levels /\ (l + 1) - 1 = l
    BY <1>1, <1>3
  <2>2. QED BY <2>1, PowIs
<1>4. QED BY <1>1, <1>2, <1>3, PowIs

LEMMA BlockSizeIs ==
    /\ MaxSize = MinSize * Pow2[LastLevel] /\ MaxSize \in Nat \ {0}
    /\ \A l \in Level : BlockSize(l) = MinSize * Pow2[LastLevel - l]
<1>1. MaxSize = MinSize * Pow2[LastLevel] /\ MinSize \in Nat \ {0}
  BY BuddyAssumption DEF MaxSize, LastLevel
<1>2. MaxSize \in Nat \ {0}
  <2>1. PICK b \in Nat \ {0} : b = Pow2[LastLevel]
    BY LevelIs
  <2>2. MinSize * b \in Nat \ {0}
    BY ONLY <1>1, b \in Nat \ {0}
  <2>3. QED BY <1>1, <2>1, <2>2
<1>3. ASSUME NEW l \in Level PROVE BlockSize(l) = MinSize * Pow2[LastLevel - l]
  <2>1. Pow2[l] * Pow2[LastLevel - l] = Pow2[LastLevel]
    BY PowSplits
  <2>2. PICK a \in Nat \ {0}, b \in Nat \ {0} : a = Pow2[l] /\ b = Pow2[LastLevel - l]
    BY LevelIs
  <2>3. PICK m \in Nat \ {0} : m = MinSize
    BY <1>1
  <2>4. m * (a * b) = a * (m * b) /\ m * b \in Nat
    BY ONLY m \in Nat \ {0}, a \in Nat \ {0}, b \in Nat \ {0}
  <2>5. (a * (m * b)) \div a = m * b
    BY <2>4, DivMul
  <2>6. MaxSize = a * (m * b)
    BY <1>1, <2>1, <2>2, <2>3, <2>4
  <2>7. QED BY <2>2, <2>3, <2>5, <2>6 DEF BlockSize
<1>4. QED BY <1>1, <1>2, <1>3

LEMMA BytesAre == \E w : Widths(w) /\ (\A l \in Level : BlockSize(l) = w[l]) /\ w[0] = MaxSize
<1> DEFINE w == [l \in Level |-> MinSize * Pow2[LastLevel - l]]
<1>1. Widths(w)
  <2>1. MinSize \in Nat \ {0}
    BY BuddyAssumption
  <2> HIDE DEF w
  <2>2. QED BY <2>1, WidthsIs DEF w
<1>2. \A l \in Level : BlockSize(l) = w[l]
  BY BlockSizeIs
<1>3. w[0] = MaxSize
  <2>1. LastLevel - 0 = LastLevel /\ 0 \in Level
    BY LevelIs
  <2>2. QED BY <2>1, BlockSizeIs
<1>4. QED BY <1>1, <1>2, <1>3

LEMMA SpansAre ==
    ASSUME KindOK
    PROVE  \E w : Widths(w) /\ (\A l \in Level : Span(l) = w[l]) /\ Pointer = 0 .. w[0] - 1
<1>1. CASE kind = "InSelf"
  <2> DEFINE w == [l \in Level |-> 1 * Pow2[LastLevel - l]]
  <2>1. Widths(w)
    <3>1. 1 \in Nat \ {0}
      OBVIOUS
    <3>2. QED BY <3>1, WidthsIs
  <2>2. \A l \in Level : Span(l) = w[l]
    <3>1. ASSUME NEW l \in Level PROVE 1 * Pow2[LastLevel - l] = Pow2[LastLevel - l]
      <4>1. LastLevel - l \in Level
        BY LevelIs
      <4>2. PICK n \in Nat : n = Pow2[LastLevel - l]
        BY <4>1, LevelIs
      <4>3. QED BY <4>2
    <3>2. QED BY <1>1, <3>1 DEF Span
  <2>3. Pointer = 0 .. w[0] - 1
    <3>0. PICK n \in Nat, m \in Nat : n = Pow2[LastLevel] /\ m = LastLevel
      BY LevelIs
    <3>1. LastLevel - 0 = LastLevel /\ 0 \in Level /\ 1 * Pow2[LastLevel] = Pow2[LastLevel]
      <4>1. m - 0 = m /\ 1 * n = n
        OBVIOUS
      <4>2. QED BY <3>0, <4>1, LevelIs
    <3>2. w[0] = Pow2[LastLevel]
      BY <3>1
    <3>3. QED BY <1>1, <3>2 DEF Pointer
  <2>4. QED BY <2>1, <2>2, <2>3
<1>2. CASE kind # "InSelf"
  <2>1. PICK w : Widths(w) /\ (\A l \in Level : BlockSize(l) = w[l]) /\ w[0] = MaxSize
    BY BytesAre
  <2>2. (\A l \in Level : Span(l) = w[l]) /\ Pointer = 0 .. w[0] - 1
    BY <1>2, <2>1 DEF Span, Pointer
  <2>3. QED BY <2>1, <2>2
<1>3. QED BY <1>1, <1>2

LEMMA BlockIs ==
    /\ \A l, i : <<l, i>> \in Block <=> l \in Level /\ i \in 0 .. Pow2[l] - 1
    /\ \A b \in Block : b = <<b[1], b[2]>> /\ b[1] \in Level /\ b[2] \in 0 .. Pow2[b[1]] - 1
<1>1. ASSUME NEW l \in Level PROVE Pow2[l] \in Nat /\ Pow2[l] <= Pow2[LastLevel] /\ Pow2[LastLevel] \in Nat
  <2>1. PICK a \in Nat \ {0}, b \in Nat \ {0} : a = Pow2[l] /\ b = Pow2[LastLevel - l]
    BY LevelIs
  <2>2. a * b = Pow2[LastLevel] /\ Pow2[LastLevel] \in Nat
    BY <2>1, PowSplits, LevelIs
  <2>3. a <= a * b
    BY ONLY a \in Nat \ {0}, b \in Nat \ {0}
  <2>4. QED BY <2>1, <2>2, <2>3
<1>2. ASSUME NEW l \in Level, NEW i \in 0 .. Pow2[l] - 1 PROVE <<l, i>> \in Block
  BY <1>1 DEF Block
<1>3. ASSUME NEW b \in Block PROVE b = <<b[1], b[2]>> /\ b[1] \in Level /\ b[2] \in 0 .. Pow2[b[1]] - 1
  <2>1. b \in Level \X (0 .. Pow2[LastLevel] - 1) /\ b[2] < Pow2[b[1]]
    BY DEF Block
  <2>2. b = <<b[1], b[2]>> /\ b[1] \in Level /\ b[2] \in 0 .. Pow2[LastLevel] - 1
    BY <2>1
  <2>3. QED BY <1>1, <2>1, <2>2
<1>4. ASSUME NEW l, NEW i, <<l, i>> \in Block PROVE l \in Level /\ i \in 0 .. Pow2[l] - 1
  <2>1. <<l, i>>[1] = l /\ <<l, i>>[2] = i
    OBVIOUS
  <2>2. QED BY <1>3, <1>4, <2>1
<1>5. QED BY <1>2, <1>3, <1>4

LEMMA PointerIs ==
    ASSUME KindOK, NEW l \in Level, NEW i \in 0 .. Pow2[l] - 1
    PROVE  IndexToBlock(l, i) \in Pointer /\ BlockToIndex(l, IndexToBlock(l, i)) = i
<1>1. PICK w : Widths(w) /\ (\A k \in Level : Span(k) = w[k]) /\ Pointer = 0 .. w[0] - 1
  BY SpansAre
<1>2. i * w[l] \in 0 .. w[0] - 1 /\ (i * w[l]) \div w[l] = i
  BY <1>1, BlockBegins
<1>3. QED BY <1>1, <1>2 DEF IndexToBlock, BlockToIndex

LEMMA AroundIs ==
    ASSUME KindOK, NEW l \in Level, NEW p \in Pointer
    PROVE  /\ Around(l, p) \in Block /\ BlockToIndex(l, p) \in 0 .. Pow2[l] - 1
           /\ l > 0 => /\ Around(l - 1, p) = <<l - 1, BlockToIndex(l, p) \div 2>>
                       /\ BlockToIndex(l - 1, p) = BlockToIndex(l, p) \div 2
<1>1. PICK w : Widths(w) /\ (\A k \in Level : Span(k) = w[k]) /\ Pointer = 0 .. w[0] - 1
  BY SpansAre
<1>2. p \div w[l] \in 0 .. Pow2[l] - 1
  BY <1>1, BlockAround
<1>3. BlockToIndex(l, p) = p \div w[l]
  BY <1>1 DEF BlockToIndex
<1>4. ASSUME l > 0 PROVE BlockToIndex(l - 1, p) = BlockToIndex(l, p) \div 2
  <2>1. l - 1 \in Level
    BY <1>4, LevelIs
  <2>2. (p \div w[l]) \div 2 = p \div w[l - 1]
    BY <1>1, <1>4, BlockAbove
  <2>3. BlockToIndex(l - 1, p) = p \div w[l - 1]
    BY <1>1, <2>1 DEF BlockToIndex
  <2>4. QED BY <1>3, <2>2, <2>3
<1>5. QED BY <1>2, <1>3, <1>4, BlockIs DEF Around

LEMMA FirstHalf ==
    ASSUME KindOK, NEW l \in Level, l < LastLevel, NEW i \in 0 .. Pow2[l] - 1
    PROVE  /\ IndexToBlock(l + 1, 2 * i) = IndexToBlock(l, i)
           /\ l + 1 \in Level
           /\ 2 * i \in 0 .. Pow2[l + 1] - 1 /\ 2 * i + 1 \in 0 .. Pow2[l + 1] - 1
<1>1. PICK w : Widths(w) /\ (\A k \in Level : Span(k) = w[k]) /\ Pointer = 0 .. w[0] - 1
  BY SpansAre
<1>2. l + 1 \in Level /\ Pow2[l + 1] = 2 * Pow2[l] /\ Pow2[l] \in Nat /\ l \in Nat
  <2>1. l \in Nat
    BY ONLY l \in Level, LevelIs
  <2>2. l + 1 \in Level /\ Pow2[l + 1] = 2 * Pow2[l]
    BY ONLY l \in Level, l < LastLevel, LevelIs
  <2>3. QED BY <2>1, <2>2, LevelIs
<1>3. w[l] = 2 * w[l + 1] /\ w[l + 1] \in Nat
  <2>1. (l + 1) - 1 = l /\ l + 1 > 0
    BY <1>2
  <2>2. QED BY <1>1, <1>2, <2>1 DEF Widths
<1>4. (2 * i) * w[l + 1] = i * (2 * w[l + 1])
  <2>1. PICK a \in Nat, j \in Nat : a = w[l + 1] /\ j = i
    BY <1>3
  <2>2. (2 * j) * a = j * (2 * a)
    BY ONLY a \in Nat, j \in Nat
  <2>3. QED BY <2>1, <2>2
<1>5. IndexToBlock(l + 1, 2 * i) = IndexToBlock(l, i)
  BY <1>1, <1>2, <1>3, <1>4 DEF IndexToBlock
<1>6. QED BY <1>2, <1>5

LEMMA BuddyIs ==
    ASSUME NEW l \in Level, l > 0, NEW i \in 0 .. Pow2[l] - 1
    PROVE  /\ l - 1 \in Level /\ l - 1 < LastLevel /\ (l - 1) + 1 = l
           /\ i \div 2 \in 0 .. Pow2[l - 1] - 1
           /\ BuddyIndex(i) \in 0 .. Pow2[l] - 1 /\ BuddyIndex(i) # i
           /\ BuddyIndex(i) \div 2 = i \div 2 /\ BuddyIndex(BuddyIndex(i)) = i
           /\ {i, BuddyIndex(i)} = {2 * (i \div 2), 2 * (i \div 2) + 1}
<1>1. l - 1 \in Level /\ l - 1 < LastLevel /\ (l - 1) + 1 = l
  <2>1. Level = 0 .. LastLevel /\ LastLevel \in Nat
    BY LevelIs
  <2>2. QED BY <2>1
<1>2. Pow2[l] = 2 * Pow2[l - 1] /\ Pow2[l - 1] \in Nat
  BY <1>1, LevelIs
<1>3. PICK n \in Nat : n = Pow2[l - 1]
  BY <1>2
<1>4. i \in 0 .. 2 * n - 1
  BY <1>2, <1>3
<1>5. CASE i % 2 = 1
  <2>1. BuddyIndex(i) = i - 1
    BY <1>5 DEF BuddyIndex
  <2>2. i \div 2 \in 0 .. n - 1 /\ i = 2 * (i \div 2) + 1 /\ (i - 1) \div 2 = i \div 2 /\ (i - 1) % 2 = 0
    BY <1>4, <1>5
  <2>3. BuddyIndex(i - 1) = i
    BY <2>2 DEF BuddyIndex
  <2>4. QED BY <1>1, <1>2, <1>3, <1>4, <2>1, <2>2, <2>3
<1>6. CASE i % 2 # 1
  <2>1. BuddyIndex(i) = i + 1
    BY <1>6 DEF BuddyIndex
  <2>2. /\ i \div 2 \in 0 .. n - 1 /\ i = 2 * (i \div 2) /\ (i + 1) \div 2 = i \div 2
        /\ (i + 1) % 2 = 1 /\ i + 1 \in 0 .. 2 * n - 1
    BY <1>4, <1>6
  <2>3. BuddyIndex(i + 1) = i
    BY <2>2 DEF BuddyIndex
  <2>4. QED BY <1>1, <1>2, <1>3, <1>4, <2>1, <2>2, <2>3
<1>7. QED BY <1>5, <1>6

LEMMA HalvesAreBuddies ==
    ASSUME NEW i \in Nat
    PROVE  /\ (2 * i) \div 2 = i /\ (2 * i + 1) \div 2 = i
           /\ BuddyIndex(2 * i) = 2 * i + 1 /\ BuddyIndex(2 * i + 1) = 2 * i
<1>1. (2 * i) \div 2 = i /\ (2 * i + 1) \div 2 = i /\ (2 * i) % 2 = 0 /\ (2 * i + 1) % 2 = 1
  OBVIOUS
<1>2. QED BY <1>1 DEF BuddyIndex

LEMMA NullIs == ASSUME KindOK PROVE Null \notin Pointer
<1>1. PICK m \in Nat \ {0}, q \in Nat \ {0} : m = MinSize /\ q = Pow2[LastLevel]
  BY BuddyAssumption, LevelIs
<1>2. q <= m * q
  BY ONLY m \in Nat \ {0}, q \in Nat \ {0}
<1>3. MaxSize \in Nat /\ q <= MaxSize
  BY <1>1, <1>2, BlockSizeIs
<1>4. Pointer \subseteq 0 .. MaxSize
  <2>1. CASE kind = "InSelf"
    BY <1>1, <1>3, <2>1 DEF Pointer
  <2>2. CASE kind # "InSelf"
    BY <1>3, <2>2 DEF Pointer
  <2>3. QED BY <2>1, <2>2
<1>5. QED BY <1>4, BuddyAssumption

LEMMA AddressIs ==
    ASSUME KindOK, PointersFit, NEW l \in Level, NEW i \in 0 .. Pow2[l] - 1
    PROVE  Address(l, i) \in 0 .. MaxSize - 1 /\ AddressToBlock(Address(l, i)) = IndexToBlock(l, i)
<1>1. PICK w : Widths(w) /\ (\A k \in Level : BlockSize(k) = w[k]) /\ w[0] = MaxSize
  BY BytesAre
<1>2. i * w[l] \in 0 .. w[0] - 1
  BY <1>1, BlockBegins
<1>3. Address(l, i) = i * BlockSize(l) /\ Address(l, i) \in 0 .. MaxSize - 1
  BY <1>1, <1>2 DEF Address
<1>4. CASE kind = "InSelf"
  <2>1. PICK m \in Nat \ {0}, q \in Nat \ {0} : m = MinSize /\ q = Pow2[LastLevel - l]
    BY BuddyAssumption, LevelIs
  <2>2. PICK j \in Nat : j = i
    OBVIOUS
  <2>3. j * (m * q) = m * (j * q) /\ j * q \in Nat
    BY ONLY j \in Nat, m \in Nat \ {0}, q \in Nat \ {0}
  <2>4. (m * (j * q)) \div m = j * q
    BY <2>3, DivMul
  <2>5. BlockSize(l) = m * q
    BY <2>1, BlockSizeIs
  <2>6. AddressToBlock(Address(l, i)) = Address(l, i) \div m
    BY <1>4, <2>1 DEF AddressToBlock, PointersFit
  <2>7. IndexToBlock(l, i) = j * q
    BY <1>4, <2>1, <2>2 DEF IndexToBlock, Span
  <2>8. QED BY <1>3, <2>2, <2>3, <2>4, <2>5, <2>6, <2>7
<1>5. CASE kind # "InSelf"
  BY <1>3, <1>5 DEF AddressToBlock, IndexToBlock, Span
<1>6. QED BY <1>3, <1>4, <1>5

LEMMA AddressPoints ==
    ASSUME KindOK, PointersFit, NEW a \in 0 .. MaxSize - 1
    PROVE  AddressToBlock(a) \in Pointer
<1>1. CASE kind = "InSelf"
  <2>1. PICK m \in Nat \ {0}, q \in Nat \ {0} : m = MinSize /\ q = Pow2[LastLevel]
    BY BuddyAssumption, LevelIs
  <2>2. MaxSize = m * q /\ a \in Nat /\ a < m * q
    <3>1. MaxSize = m * q /\ MaxSize \in Nat
      BY <2>1, BlockSizeIs
    <3>2. QED BY <3>1
  <2>3. a \div m \in Nat /\ a \div m < q
    BY ONLY <2>2, m \in Nat \ {0}, q \in Nat \ {0}
  <2>4. AddressToBlock(a) = a \div m
    BY <1>1, <2>1 DEF AddressToBlock, PointersFit
  <2>5. Pointer = 0 .. q - 1
    BY <1>1, <2>1 DEF Pointer
  <2>6. QED BY <2>3, <2>4, <2>5
<1>2. CASE kind # "InSelf"
  BY <1>2 DEF AddressToBlock, Pointer
<1>3. QED BY <1>1, <1>2

(* The start of a block tells which one it is on its level.                *)
LEMMA PointerTells ==
    ASSUME KindOK, NEW l \in Level, NEW i \in 0 .. Pow2[l] - 1
    PROVE  Around(l, IndexToBlock(l, i)) = <<l, i>>
BY PointerIs DEF Around

-----------------------------------------------------------------------------
(* The lists.  P is the set of pointers.                                   *)

LinksOf(P) == [P -> [prev : P \cup {Null}, next : P \cup {Null}]]

(* The list that begins at x links the elements of s, both ways.           *)
Linked(P, L, x, s) ==
    /\ s \in Seq(P)
    /\ \A i, j \in 1 .. Len(s) : s[i] = s[j] => i = j
    /\ x = IF Len(s) = 0 THEN Null ELSE s[1]
    /\ \A i \in 1 .. Len(s) :
          /\ L[s[i]].next = IF i = Len(s) THEN Null ELSE s[i + 1]
          /\ L[s[i]].prev = IF i = 1 THEN Null ELSE s[i - 1]

(* M is L with p put before x; M is L without n, but for n's own links.    *)
PutBefore(P, L, M, p, x) ==
    /\ M[p].prev = Null /\ M[p].next = x
    /\ \A q \in P : q # p => /\ M[q].next = L[q].next
                             /\ M[q].prev = IF q = x THEN p ELSE L[q].prev
TakenOut(P, L, M, n) ==
    \A q \in P : q # n =>
        /\ M[q].next = IF q = L[n].prev THEN L[n].next ELSE L[q].next
        /\ M[q].prev = IF q = L[n].next THEN L[n].prev ELSE L[q].prev

LEMMA LinkedPush ==
    ASSUME NEW P, Null \notin P, NEW L \in LinksOf(P), NEW x, NEW s, Linked(P, L, x, s),
           NEW p \in P, \A i \in 1 .. Len(s) : s[i] # p,
           NEW M, PutBefore(P, L, M, p, x)
    PROVE  Linked(P, M, p, Consed(s, p))
<1>0. /\ M[p].prev = Null /\ M[p].next = x
      /\ \A q \in P : q # p => /\ M[q].next = L[q].next
                               /\ M[q].prev = IF q = x THEN p ELSE L[q].prev
  BY DEF PutBefore
<1> DEFINE t == Consed(s, p)
<1>1. /\ s \in Seq(P) /\ Len(s) \in Nat /\ \A i \in 1 .. Len(s) : s[i] \in P
      /\ x = IF Len(s) = 0 THEN Null ELSE s[1]
      /\ \A i, j \in 1 .. Len(s) : s[i] = s[j] => i = j
  BY DEF Linked
<1>2. /\ t \in Seq(P) /\ Len(t) = Len(s) + 1 /\ t[1] = p
      /\ \A i \in 2 .. Len(s) + 1 : t[i] = s[i - 1]
  BY <1>1, ConsedIs
<1> HIDE DEF t
<1>3. ASSUME NEW i \in 2 .. Len(t) PROVE i - 1 \in 1 .. Len(s) /\ t[i] = s[i - 1] /\ t[i] # p
  BY <1>1, <1>2
<1>4. ASSUME NEW i \in 1 .. Len(t), NEW j \in 1 .. Len(t), t[i] = t[j] PROVE i = j
  <2>1. CASE i = 1 \/ j = 1
    <3>1. i \in 2 .. Len(t) \/ i = 1
      BY <1>1, <1>2
    <3>2. j \in 2 .. Len(t) \/ j = 1
      BY <1>1, <1>2
    <3>3. QED BY <1>2, <1>3, <1>4, <2>1, <3>1, <3>2
  <2>2. CASE i # 1 /\ j # 1
    <3>1. i \in 2 .. Len(t) /\ j \in 2 .. Len(t)
      BY <1>1, <1>2, <2>2
    <3>2. i - 1 = j - 1
      BY <1>1, <1>3, <1>4, <3>1
    <3>3. QED BY <3>1, <3>2
  <2>3. QED BY <2>1, <2>2
<1>5. ASSUME NEW i \in 1 .. Len(t)
      PROVE  /\ M[t[i]].next = IF i = Len(t) THEN Null ELSE t[i + 1]
             /\ M[t[i]].prev = IF i = 1 THEN Null ELSE t[i - 1]
  <2>1. CASE i = 1
    <3>1. M[t[i]].next = x /\ M[t[i]].prev = Null
      BY <1>0, <1>2, <2>1
    <3>2. CASE Len(s) = 0
      BY <1>1, <1>2, <2>1, <3>1, <3>2
    <3>3. CASE Len(s) # 0
      <4>1. 2 \in 2 .. Len(t) /\ 2 - 1 = 1 /\ Len(t) # 1
        BY <1>1, <1>2, <3>3
      <4>2. t[2] = s[1]
        BY <1>3, <4>1
      <4>3. QED BY <1>1, <2>1, <3>1, <3>3, <4>1, <4>2
    <3>4. QED BY <3>2, <3>3
  <2>2. CASE i # 1
    <3>1. i \in 2 .. Len(t) /\ i - 1 \in 1 .. Len(s)
      BY <1>1, <1>2, <2>2
    <3>2. t[i] = s[i - 1] /\ t[i] # p /\ t[i] \in P
      BY <1>1, <1>3, <3>1
    <3>3. /\ L[s[i - 1]].next = IF i - 1 = Len(s) THEN Null ELSE s[(i - 1) + 1]
          /\ L[s[i - 1]].prev = IF i - 1 = 1 THEN Null ELSE s[(i - 1) - 1]
      BY <3>1 DEF Linked
    <3>4. M[t[i]].next = L[s[i - 1]].next /\ M[t[i]].prev = IF s[i - 1] = x THEN p ELSE L[s[i - 1]].prev
      BY <1>0, <3>2
    <3>5. M[t[i]].next = IF i = Len(t) THEN Null ELSE t[i + 1]
      <4>1. CASE i = Len(t)
        BY <1>1, <1>2, <3>1, <3>3, <3>4, <4>1
      <4>2. CASE i # Len(t)
        <5>1. i + 1 \in 2 .. Len(t) /\ (i + 1) - 1 = (i - 1) + 1 /\ i - 1 # Len(s)
          BY <1>1, <1>2, <3>1, <4>2
        <5>2. t[i + 1] = s[(i - 1) + 1]
          BY <1>3, <5>1
        <5>3. QED BY <3>3, <3>4, <4>2, <5>1, <5>2
      <4>3. QED BY <4>1, <4>2
    <3>6. M[t[i]].prev = t[i - 1]
      <4>1. CASE i = 2
        <5>1. s[i - 1] = x
          BY <1>1, <3>1, <4>1
        <5>2. i - 1 = 1
          BY <4>1
        <5>3. QED BY <1>2, <3>4, <5>1, <5>2
      <4>2. CASE i # 2
        <5>1. i - 1 \in 2 .. Len(t) /\ i - 1 # 1 /\ 1 \in 1 .. Len(s) /\ Len(s) # 0
          BY <1>1, <1>2, <3>1, <4>2
        <5>2. s[i - 1] # x
          BY <1>1, <3>1, <5>1
        <5>3. t[i - 1] = s[(i - 1) - 1]
          BY <1>3, <5>1
        <5>4. QED BY <3>3, <3>4, <5>1, <5>2, <5>3
      <4>3. QED BY <4>1, <4>2
    <3>7. QED BY <2>2, <3>5, <3>6
  <2>3. QED BY <2>1, <2>2
<1>6. p = IF Len(t) = 0 THEN Null ELSE t[1]
  BY <1>1, <1>2
<1>7. Linked(P, M, p, t)
  BY <1>2, <1>4, <1>5, <1>6 DEF Linked
<1>8. QED BY <1>7 DEF t

LEMMA LinkedRemove ==
    ASSUME NEW P, Null \notin P, NEW L \in LinksOf(P), NEW x, NEW s, Linked(P, L, x, s),
           NEW k \in 1 .. Len(s), NEW n, n = s[k],
           NEW M, TakenOut(P, L, M, n)
    PROVE  Linked(P, M, IF L[n].prev = Null THEN L[n].next ELSE x, Dropped(s, k))
<1> DEFINE m == Len(s)
           t == Dropped(s, k)
           y == IF L[n].prev = Null THEN L[n].next ELSE x
<1>1. /\ s \in Seq(P) /\ m \in Nat /\ k \in 1 .. m /\ m # 0
      /\ \A i \in 1 .. m : s[i] \in P /\ s[i] # Null
      /\ x = s[1]
      /\ \A i, j \in 1 .. m : s[i] = s[j] => i = j
  BY DEF Linked
<1>2. \A i \in 1 .. m : /\ L[s[i]].next = IF i = m THEN Null ELSE s[i + 1]
                        /\ L[s[i]].prev = IF i = 1 THEN Null ELSE s[i - 1]
  BY DEF Linked
<1>3. /\ t \in Seq(P) /\ Len(t) = m - 1
      /\ \A i \in 1 .. m - 1 : t[i] = IF i < k THEN s[i] ELSE s[i + 1]
  BY <1>1, DroppedIs
<1>4. /\ n \in P
      /\ L[n].next = IF k = m THEN Null ELSE s[k + 1]
      /\ L[n].prev = IF k = 1 THEN Null ELSE s[k - 1]
  BY <1>1, <1>2
<1> HIDE DEF t, m
<1>5. ASSUME NEW p \in 1 .. m, p # k
      PROVE  /\ s[p] = L[n].prev <=> p = k - 1
             /\ s[p] = L[n].next <=> p = k + 1
  <2>1. ASSUME p = k - 1 PROVE s[p] = L[n].prev
    <3>1. k # 1
      BY <1>1, <2>1
    <3>2. QED BY <1>4, <2>1, <3>1
  <2>2. ASSUME p = k + 1 PROVE s[p] = L[n].next
    <3>1. k # m
      BY <1>1, <2>2
    <3>2. QED BY <1>4, <2>2, <3>1
  <2>3. ASSUME s[p] = L[n].prev PROVE p = k - 1
    <3>1. k # 1
      BY <1>1, <1>4, <2>3
    <3>2. k - 1 \in 1 .. m /\ s[p] = s[k - 1]
      BY <1>1, <1>4, <2>3, <3>1
    <3>3. QED BY <1>1, <3>2
  <2>4. ASSUME s[p] = L[n].next PROVE p = k + 1
    <3>1. k # m
      BY <1>1, <1>4, <2>4
    <3>2. k + 1 \in 1 .. m /\ s[p] = s[k + 1]
      BY <1>1, <1>4, <2>4, <3>1
    <3>3. QED BY <1>1, <3>2
  <2>5. QED BY <2>1, <2>2, <2>3, <2>4
<1>6. ASSUME NEW p \in 1 .. m, p # k
      PROVE  /\ M[s[p]].next = IF p = k - 1 THEN L[n].next ELSE L[s[p]].next
             /\ M[s[p]].prev = IF p = k + 1 THEN L[n].prev ELSE L[s[p]].prev
  <2>1. s[p] \in P /\ s[p] # n
    BY <1>1, <1>6
  <2>2. /\ M[s[p]].next = IF s[p] = L[n].prev THEN L[n].next ELSE L[s[p]].next
        /\ M[s[p]].prev = IF s[p] = L[n].next THEN L[n].prev ELSE L[s[p]].prev
    BY <2>1 DEF TakenOut
  <2>3. QED BY <1>5, <1>6, <2>2
<1>7. ASSUME NEW i \in 1 .. m - 1, NEW j \in 1 .. m - 1, t[i] = t[j] PROVE i = j
  <2>1. i \in 1 .. m /\ i + 1 \in 1 .. m /\ j \in 1 .. m /\ j + 1 \in 1 .. m
    BY <1>1
  <2>2. CASE i < k /\ j < k
    <3>1. s[i] = s[j]
      BY <1>3, <1>7, <2>2
    <3>2. QED BY <1>1, <2>1, <3>1
  <2>3. CASE i < k /\ ~ (j < k)
    <3>1. s[i] = s[j + 1]
      BY <1>3, <1>7, <2>3
    <3>2. i = j + 1
      BY <1>1, <2>1, <3>1
    <3>3. QED BY <1>1, <2>1, <2>3, <3>2
  <2>4. CASE ~ (i < k) /\ j < k
    <3>1. s[i + 1] = s[j]
      BY <1>3, <1>7, <2>4
    <3>2. i + 1 = j
      BY <1>1, <2>1, <3>1
    <3>3. QED BY <1>1, <2>1, <2>4, <3>2
  <2>5. CASE ~ (i < k) /\ ~ (j < k)
    <3>1. s[i + 1] = s[j + 1]
      BY <1>3, <1>7, <2>5
    <3>2. i + 1 = j + 1
      BY <1>1, <2>1, <3>1
    <3>3. QED BY <2>1, <3>2
  <2>6. QED BY <2>2, <2>3, <2>4, <2>5
<1>8. ASSUME NEW i \in 1 .. m - 1
      PROVE  /\ M[t[i]].next = IF i = m - 1 THEN Null ELSE t[i + 1]
             /\ M[t[i]].prev = IF i = 1 THEN Null ELSE t[i - 1]
  <2>0. i \in Nat /\ k \in Nat /\ m \in Nat /\ i \in 1 .. m /\ i + 1 \in 1 .. m
    BY <1>1
  <2>1. CASE i < k
    <3>1. t[i] = s[i] /\ i # k /\ i # k + 1
      BY <1>3, <2>0, <2>1
    <3>2. M[t[i]].prev = IF i = 1 THEN Null ELSE s[i - 1]
      BY <1>2, <1>6, <2>0, <3>1
    <3>3. i # 1 => t[i - 1] = s[i - 1]
      <4>1. i # 1 => i - 1 \in 1 .. m - 1 /\ i - 1 < k
        BY <2>0, <2>1
      <4>2. QED BY <1>3, <4>1
    <3>4. CASE i = k - 1
      <4>1. M[t[i]].next = IF k = m THEN Null ELSE s[k + 1]
        BY <1>4, <1>6, <2>0, <3>1, <3>4
      <4>2. CASE k = m
        <5>1. i = m - 1
          BY <3>4, <4>2
        <5>2. QED BY <3>2, <3>3, <4>1, <4>2, <5>1
      <4>3. CASE k # m
        <5>1. i # m - 1 /\ i + 1 = k /\ i + 1 \in 1 .. m - 1
          BY <1>1, <2>0, <3>4, <4>3
        <5>2. t[i + 1] = s[k + 1]
          BY <1>3, <2>0, <5>1
        <5>3. QED BY <3>2, <3>3, <4>1, <4>3, <5>1, <5>2
      <4>4. QED BY <4>2, <4>3
    <3>5. CASE i # k - 1
      <4>1. i # m /\ i + 1 < k /\ i + 1 \in 1 .. m - 1 /\ i # m - 1
        BY <1>1, <2>0, <2>1, <3>5
      <4>2. M[t[i]].next = s[i + 1]
        BY <1>2, <1>6, <2>0, <3>1, <3>5, <4>1
      <4>3. t[i + 1] = s[i + 1]
        BY <1>3, <4>1
      <4>4. QED BY <3>2, <3>3, <4>1, <4>2, <4>3
    <3>6. QED BY <3>4, <3>5
  <2>2. CASE ~ (i < k)
    <3>1. t[i] = s[i + 1] /\ i + 1 # k /\ i + 1 # k - 1
      BY <1>3, <2>0, <2>2
    <3>2. M[t[i]].next = IF i + 1 = m THEN Null ELSE s[(i + 1) + 1]
      BY <1>2, <1>6, <2>0, <3>1
    <3>3. i # m - 1 => t[i + 1] = s[(i + 1) + 1]
      <4>1. i # m - 1 => i + 1 \in 1 .. m - 1 /\ ~ (i + 1 < k)
        BY <2>0, <2>2
      <4>2. QED BY <1>3, <4>1
    <3>4. i = m - 1 <=> i + 1 = m
      BY <2>0
    <3>5. CASE i = k
      <4>1. M[t[i]].prev = IF k = 1 THEN Null ELSE s[k - 1]
        BY <1>4, <1>6, <2>0, <3>1, <3>5
      <4>2. k # 1 => t[k - 1] = s[k - 1]
        <5>1. k # 1 => k - 1 \in 1 .. m - 1 /\ k - 1 < k
          BY <1>1, <2>0
        <5>2. QED BY <1>3, <5>1
      <4>3. QED BY <3>2, <3>3, <3>4, <3>5, <4>1, <4>2
    <3>6. CASE i # k
      <4>1. M[t[i]].prev = s[i]
        <5>1. (i + 1) - 1 = i /\ i + 1 # 1 /\ i + 1 # k + 1
          BY <2>0, <3>6
        <5>2. M[t[i]].prev = L[s[i + 1]].prev
          BY <1>6, <2>0, <3>1, <5>1
        <5>3. QED BY <1>2, <2>0, <5>1, <5>2
      <4>2. i - 1 \in 1 .. m - 1 /\ ~ (i - 1 < k) /\ (i - 1) + 1 = i /\ i # 1
        BY <1>1, <2>0, <2>2, <3>6
      <4>3. t[i - 1] = s[i]
        BY <1>3, <4>2
      <4>4. QED BY <3>2, <3>3, <3>4, <4>1, <4>2, <4>3
    <3>7. QED BY <3>5, <3>6
  <2>3. QED BY <2>1, <2>2
<1>9. y = IF m - 1 = 0 THEN Null ELSE t[1]
  <2>1. CASE k = 1
    <3>1. y = IF 1 = m THEN Null ELSE s[1 + 1]
      BY <1>4, <2>1
    <3>2. m - 1 # 0 => 1 \in 1 .. m - 1 /\ ~ (1 < k)
      BY <1>1, <2>1
    <3>3. QED BY <1>1, <1>3, <3>1, <3>2
  <2>2. CASE k # 1
    <3>1. y = x
      BY <1>1, <1>4, <2>2
    <3>2. 1 \in 1 .. m - 1 /\ 1 < k /\ m - 1 # 0
      BY <1>1, <2>2
    <3>3. QED BY <1>1, <1>3, <3>1, <3>2
  <2>3. QED BY <2>1, <2>2
<1> HIDE DEF y
<1>10. Linked(P, M, y, t)
  BY <1>3, <1>7, <1>8, <1>9 DEF Linked
<1>11. QED BY <1>10 DEF y, t

(* F is the set of what is in the list that begins at x.                   *)
ListOf(P, L, x, F) == \E s : Linked(P, L, x, s) /\ F = {s[i] : i \in 1 .. Len(s)}

LEMMA ListHead ==
    ASSUME NEW P, Null \notin P, NEW L, NEW x, NEW F, ListOf(P, L, x, F)
    PROVE  /\ F \subseteq P /\ (x = Null <=> F = {}) /\ (x # Null => x \in F)
           /\ x \in P \cup {Null}
<1>1. PICK s : Linked(P, L, x, s) /\ F = {s[i] : i \in 1 .. Len(s)}
  BY DEF ListOf
<1>2. s \in Seq(P) /\ Len(s) \in Nat /\ (\A i \in 1 .. Len(s) : s[i] \in P)
      /\ x = IF Len(s) = 0 THEN Null ELSE s[1]
  BY <1>1 DEF Linked
<1>3. CASE Len(s) = 0
  BY <1>1, <1>2, <1>3
<1>4. CASE Len(s) # 0
  <2>1. 1 \in 1 .. Len(s)
    BY <1>2, <1>4
  <2>2. QED BY <1>1, <1>2, <1>4, <2>1
<1>5. QED BY <1>3, <1>4

(* Links outside of a list do not matter to it.                            *)
LEMMA ListFrame ==
    ASSUME NEW P, NEW L, NEW x, NEW F, ListOf(P, L, x, F), NEW M, \A q \in F : M[q] = L[q]
    PROVE  ListOf(P, M, x, F)
<1>1. PICK s : Linked(P, L, x, s) /\ F = {s[i] : i \in 1 .. Len(s)}
  BY DEF ListOf
<1>2. \A i \in 1 .. Len(s) : M[s[i]] = L[s[i]]
  BY <1>1
<1>3. Linked(P, M, x, s)
  BY <1>1, <1>2 DEF Linked
<1>4. QED BY <1>1, <1>3 DEF ListOf

(* M is L with v as the one of x's two links, if there is an x.            *)
PrevIs(P, L, M, x, v) ==
    /\ M \in LinksOf(P)
    /\ \A q \in P : /\ M[q].next = L[q].next
                    /\ q = x => M[q].prev = v
                    /\ q # x => M[q] = L[q]
NextIs(P, L, M, x, v) ==
    /\ M \in LinksOf(P)
    /\ \A q \in P : /\ M[q].prev = L[q].prev
                    /\ q = x => M[q].next = v
                    /\ q # x => M[q] = L[q]

LEMMA PrevChanges ==
    ASSUME NEW P, Null \notin P, NEW L \in LinksOf(P), NEW x, x \in P \/ x = Null, NEW v \in P \cup {Null},
           NEW M, M = IF x = Null THEN L ELSE [L EXCEPT ![x].prev = v]
    PROVE  PrevIs(P, L, M, x, v)
<1>1. CASE x = Null
  <2>1. M = L
    BY <1>1
  <2>2. QED BY <1>1, <2>1 DEF PrevIs
<1>2. CASE x # Null
  <2>1. x \in P /\ M = [L EXCEPT ![x].prev = v]
    BY <1>2
  <2>2. L[x] \in [prev : P \cup {Null}, next : P \cup {Null}]
    BY <2>1 DEF LinksOf
  <2> DEFINE r == [L[x] EXCEPT !.prev = v]
  <2>3. r \in [prev : P \cup {Null}, next : P \cup {Null}] /\ r.next = L[x].next /\ r.prev = v
    BY <2>2
  <2>4. M = [L EXCEPT ![x] = r]
    BY <2>1
  <2> HIDE DEF r
  <2>5. M \in LinksOf(P) /\ M[x] = r /\ \A q \in P : q # x => M[q] = L[q]
    BY <2>1, <2>3, <2>4 DEF LinksOf
  <2>6. QED BY <2>3, <2>5 DEF PrevIs
<1>3. QED BY <1>1, <1>2

LEMMA NextChanges ==
    ASSUME NEW P, Null \notin P, NEW L \in LinksOf(P), NEW x, x \in P \/ x = Null, NEW v \in P \cup {Null},
           NEW M, M = IF x = Null THEN L ELSE [L EXCEPT ![x].next = v]
    PROVE  NextIs(P, L, M, x, v)
<1>1. CASE x = Null
  <2>1. M = L
    BY <1>1
  <2>2. QED BY <1>1, <2>1 DEF NextIs
<1>2. CASE x # Null
  <2>1. x \in P /\ M = [L EXCEPT ![x].next = v]
    BY <1>2
  <2>2. L[x] \in [prev : P \cup {Null}, next : P \cup {Null}]
    BY <2>1 DEF LinksOf
  <2> DEFINE r == [L[x] EXCEPT !.next = v]
  <2>3. r \in [prev : P \cup {Null}, next : P \cup {Null}] /\ r.prev = L[x].prev /\ r.next = v
    BY <2>2
  <2>4. M = [L EXCEPT ![x] = r]
    BY <2>1
  <2> HIDE DEF r
  <2>5. M \in LinksOf(P) /\ M[x] = r /\ \A q \in P : q # x => M[q] = L[q]
    BY <2>1, <2>3, <2>4 DEF LinksOf
  <2>6. QED BY <2>3, <2>5 DEF NextIs
<1>3. QED BY <1>1, <1>2

(* The links M differ from L in that a list of F is one of G, from y on.    *)
Became(P, L, F, M, y, G) ==
    /\ M \in LinksOf(P) /\ ListOf(P, M, y, G)
    /\ \A q \in P : q \notin F /\ q \notin G => M[q] = L[q]

LEMMA ListPush ==
    ASSUME NEW P, Null \notin P, NEW L \in LinksOf(P), NEW x, NEW F, ListOf(P, L, x, F),
           NEW p \in P, p \notin F,
           NEW back, back = IF x = Null THEN L ELSE [L EXCEPT ![x].prev = p],
           NEW M, M = [back EXCEPT ![p] = [prev |-> Null, next |-> x]]
    PROVE  Became(P, L, F, M, p, F \cup {p})
<1>1. PICK s : Linked(P, L, x, s) /\ F = {s[i] : i \in 1 .. Len(s)}
  BY DEF ListOf
<1>2. s \in Seq(P) /\ Len(s) \in Nat
  BY <1>1 DEF Linked
<1>3. x \in P \cup {Null} /\ (x # Null => x \in F)
  BY ListHead
<1>4. PrevIs(P, L, back, x, p)
  BY <1>3, PrevChanges
<1>5. M \in LinksOf(P) /\ M[p].prev = Null /\ M[p].next = x /\ \A q \in P : q # p => M[q] = back[q]
  <2> DEFINE r == [prev |-> Null, next |-> x]
  <2>1. r \in [prev : P \cup {Null}, next : P \cup {Null}] /\ r.prev = Null /\ r.next = x
    BY <1>3
  <2>2. M = [back EXCEPT ![p] = r]
    OBVIOUS
  <2> HIDE DEF r
  <2>3. M \in LinksOf(P) /\ M[p] = r /\ \A q \in P : q # p => M[q] = back[q]
    BY <1>4, <2>1, <2>2 DEF LinksOf, PrevIs
  <2>4. QED BY <2>1, <2>3
<1>6. Linked(P, M, p, Consed(s, p))
  <2>1. \A i \in 1 .. Len(s) : s[i] # p
    BY <1>1
  <2>2. PutBefore(P, L, M, p, x)
    BY ONLY <1>4, <1>5 DEF PutBefore, PrevIs
  <2>3. QED BY <1>1, <2>1, <2>2, LinkedPush
<1>7. F \cup {p} = {Consed(s, p)[i] : i \in 1 .. Len(Consed(s, p))}
  <2> DEFINE t == Consed(s, p)
  <2>1. Len(t) = Len(s) + 1 /\ t[1] = p /\ \A i \in 2 .. Len(s) + 1 : t[i] = s[i - 1]
    BY <1>2, ConsedIs
  <2> HIDE DEF t
  <2>2. ASSUME NEW i \in 1 .. Len(t) PROVE t[i] \in F \cup {p}
    <3>1. CASE i = 1
      BY <2>1, <3>1
    <3>2. CASE i # 1
      <4>1. i \in 2 .. Len(s) + 1 /\ i - 1 \in 1 .. Len(s)
        BY <1>2, <2>1, <3>2
      <4>2. QED BY <1>1, <2>1, <4>1
    <3>3. QED BY <3>1, <3>2
  <2>3. ASSUME NEW i \in 1 .. Len(s) PROVE s[i] \in {t[j] : j \in 1 .. Len(t)}
    <3>1. i + 1 \in 2 .. Len(s) + 1 /\ i + 1 \in 1 .. Len(t) /\ (i + 1) - 1 = i
      BY <1>2, <2>1
    <3>2. t[i + 1] = s[i]
      BY <2>1, <3>1
    <3>3. QED BY <3>1, <3>2
  <2>4. p \in {t[j] : j \in 1 .. Len(t)}
    <3>1. 1 \in 1 .. Len(t)
      BY <1>2, <2>1
    <3>2. QED BY <2>1, <3>1
  <2>5. F \cup {p} = {t[j] : j \in 1 .. Len(t)}
    BY <1>1, <2>2, <2>3, <2>4
  <2>6. QED BY <2>5 DEF t
<1>8. ListOf(P, M, p, F \cup {p})
  BY <1>6, <1>7 DEF ListOf
<1>9. \A q \in P : q \notin F \cup {p} => M[q] = L[q]
  BY <1>3, <1>4, <1>5 DEF PrevIs
<1>10. QED BY <1>5, <1>8, <1>9 DEF Became

(* The links L once p has been taken out.                                  *)
Without(L, p) ==
    LET a == L[p].prev
        b == L[p].next
        back == IF b = Null THEN L ELSE [L EXCEPT ![b].prev = a]
        both == IF a = Null THEN back ELSE [back EXCEPT ![a].next = b]
    IN  [both EXCEPT ![p] = Unlinked]

LEMMA ListRemove ==
    ASSUME NEW P, Null \notin P, NEW L \in LinksOf(P), NEW x, NEW F, ListOf(P, L, x, F),
           NEW p \in F
    PROVE  Became(P, L, F, Without(L, p), IF L[p].prev = Null THEN L[p].next ELSE x, F \ {p})
<1> DEFINE Link == [prev : P \cup {Null}, next : P \cup {Null}]
           a == L[p].prev
           b == L[p].next
           back == IF b = Null THEN L ELSE [L EXCEPT ![b].prev = a]
           both == IF a = Null THEN back ELSE [back EXCEPT ![a].next = b]
           M == Without(L, p)
<1>0. M = [both EXCEPT ![p] = Unlinked]
  BY DEF Without
<1> HIDE DEF M
<1>1. PICK s : Linked(P, L, x, s) /\ F = {s[i] : i \in 1 .. Len(s)}
  BY DEF ListOf
<1>2. /\ s \in Seq(P) /\ Len(s) \in Nat /\ \A i \in 1 .. Len(s) : s[i] \in P
      /\ \A i, j \in 1 .. Len(s) : s[i] = s[j] => i = j
  BY <1>1 DEF Linked
<1>3. PICK k \in 1 .. Len(s) : p = s[k]
  BY <1>1
<1>4. p \in P /\ L[p] \in Link /\ a \in P \cup {Null} /\ b \in P \cup {Null}
  BY <1>2, <1>3 DEF LinksOf
<1>5. (a # Null => a \in F) /\ (b # Null => b \in F)
  <2>1. b = IF k = Len(s) THEN Null ELSE s[k + 1]
    BY <1>1, <1>3 DEF Linked
  <2>2. a = IF k = 1 THEN Null ELSE s[k - 1]
    BY <1>1, <1>3 DEF Linked
  <2>3. k # Len(s) => k + 1 \in 1 .. Len(s)
    BY <1>2
  <2>4. k # 1 => k - 1 \in 1 .. Len(s)
    BY <1>2
  <2>5. QED BY <1>1, <2>1, <2>2, <2>3, <2>4
<1> HIDE DEF a, b, back, both
<1>6. PrevIs(P, L, back, b, a)
  <2>1. back = IF b = Null THEN L ELSE [L EXCEPT ![b].prev = a]
    BY DEF back
  <2>2. QED BY <1>4, <2>1, PrevChanges
<1>7. NextIs(P, back, both, a, b)
  <2>1. both = IF a = Null THEN back ELSE [back EXCEPT ![a].next = b]
    BY DEF both
  <2>2. back \in LinksOf(P)
    BY <1>6 DEF PrevIs
  <2>3. QED BY <1>4, <2>1, <2>2, NextChanges
<1>8. M \in LinksOf(P) /\ \A q \in P : q # p => M[q] = both[q]
  <2>1. Unlinked \in Link
    BY DEF Unlinked
  <2>2. M = [both EXCEPT ![p] = Unlinked]
    BY <1>0
  <2>3. both \in LinksOf(P) /\ p \in P
    BY <1>4, <1>7 DEF NextIs
  <2>4. QED BY ONLY <2>1, <2>2, <2>3 DEF LinksOf
<1>9. Linked(P, M, IF a = Null THEN b ELSE x, Dropped(s, k))
  <2>1. ASSUME NEW q \in P, q # p
        PROVE  /\ M[q].next = IF q = a THEN b ELSE L[q].next
               /\ M[q].prev = IF q = b THEN a ELSE L[q].prev
    BY ONLY q \in P, <1>6, <1>7, <1>8, <2>1 DEF PrevIs, NextIs
  <2>2. TakenOut(P, L, M, p)
    BY <2>1 DEF TakenOut, a, b
  <2>3. Linked(P, M, IF L[p].prev = Null THEN L[p].next ELSE x, Dropped(s, k))
    BY ONLY <1>1, <1>3, <2>2, Null \notin P, L \in LinksOf(P), LinkedRemove
  <2>4. QED BY <2>3 DEF a, b
<1>10. F \ {p} = {Dropped(s, k)[i] : i \in 1 .. Len(Dropped(s, k))}
  <2> DEFINE t == Dropped(s, k)
  <2>1. Len(t) = Len(s) - 1 /\ \A i \in 1 .. Len(s) - 1 : t[i] = IF i < k THEN s[i] ELSE s[i + 1]
    BY <1>2, DroppedIs
  <2> HIDE DEF t
  <2>2. ASSUME NEW i \in 1 .. Len(t) PROVE t[i] \in F \ {p}
    <3>1. i \in 1 .. Len(s) /\ i + 1 \in 1 .. Len(s)
      BY <1>2, <2>1
    <3>2. CASE i < k
      <4>1. t[i] = s[i] /\ i # k
        BY <1>2, <2>1, <3>2
      <4>2. QED BY <1>1, <1>2, <1>3, <3>1, <4>1
    <3>3. CASE ~ (i < k)
      <4>1. t[i] = s[i + 1] /\ i + 1 # k
        BY <1>2, <2>1, <3>3
      <4>2. QED BY <1>1, <1>2, <1>3, <3>1, <4>1
    <3>4. QED BY <3>2, <3>3
  <2>3. ASSUME NEW i \in 1 .. Len(s), i # k PROVE s[i] \in {t[j] : j \in 1 .. Len(t)}
    <3>1. CASE i < k
      <4>1. i \in 1 .. Len(t) /\ t[i] = s[i]
        BY <1>2, <2>1, <3>1
      <4>2. QED BY <4>1
    <3>2. CASE ~ (i < k)
      <4>1. i - 1 \in 1 .. Len(t) /\ ~ (i - 1 < k) /\ (i - 1) + 1 = i
        <5>1. Len(s) \in Nat /\ Len(t) = Len(s) - 1 /\ i \in 1 .. Len(s) /\ k \in 1 .. Len(s)
          BY <1>2, <2>1
        <5>2. QED BY ONLY <2>3, <3>2, <5>1
      <4>2. t[i - 1] = s[i]
        BY <2>1, <4>1
      <4>3. QED BY <4>1, <4>2
    <3>3. QED BY <3>1, <3>2
  <2>4. F \ {p} = {t[j] : j \in 1 .. Len(t)}
    BY <1>1, <1>3, <2>2, <2>3
  <2>5. QED BY <2>4 DEF t
<1>11. ListOf(P, M, IF a = Null THEN b ELSE x, F \ {p})
  BY <1>9, <1>10 DEF ListOf
<1>12. \A q \in P : q \notin F => M[q] = L[q]
  BY ONLY <1>3, <1>5, <1>6, <1>7, <1>8, p \in F, Null \notin P DEF PrevIs, NextIs
<1>13. QED BY <1>8, <1>11, <1>12 DEF a, b, M, Became

-----------------------------------------------------------------------------
(* The tree of statuses.                                                   *)

Parent(b) == <<b[1] - 1, b[2] \div 2>>

Tree(st) ==
    /\ st \in [Block -> Status] /\ st[<<0, 0>>] # "Invalid"
    /\ \A b \in Block : b[1] > 0 => (st[b] # "Invalid" <=> st[Parent(b)] = "Split")
    /\ \A b \in Block : st[b] = "Split" => b[1] < LastLevel

LEMMA RootIs == <<0, 0>> \in Block
<1>1. 0 \in Level /\ Pow2[0] = 1
  BY LevelIs
<1>2. 0 \in 0 .. Pow2[0] - 1
  BY <1>1
<1>3. QED BY <1>1, <1>2, BlockIs

LEMMA ParentIs ==
    ASSUME NEW b \in Block, b[1] > 0
    PROVE  /\ Parent(b) \in Block /\ Parent(b)[1] = b[1] - 1 /\ Parent(b)[2] = b[2] \div 2
           /\ Parent(b)[1] \in Level /\ Parent(b)[1] < LastLevel
<1>1. b[1] \in Level /\ b[2] \in 0 .. Pow2[b[1]] - 1
  BY BlockIs
<1>2. b[1] - 1 \in Level /\ b[1] - 1 < LastLevel /\ b[2] \div 2 \in 0 .. Pow2[b[1] - 1] - 1
  BY <1>1, BuddyIs
<1>3. Parent(b) \in Block
  BY <1>2, BlockIs DEF Parent
<1>4. QED BY <1>2, <1>3 DEF Parent

(* All that is around a block that is there is split.                      *)
LEMMA SplitAbove ==
    ASSUME KindOK, NEW st, Tree(st), NEW p \in Pointer, NEW l \in Level, NEW k \in Level, k < l,
           st[Around(l, p)] # "Invalid"
    PROVE  st[Around(k, p)] = "Split"
<1> DEFINE S == {d \in Nat : \A m \in Level : m > d /\ st[Around(m, p)] # "Invalid"
                                                  => st[Around(m - d - 1, p)] = "Split"}
<1>0. Level = 0 .. LastLevel /\ LastLevel \in Nat
  BY LevelIs
<1>1. ASSUME NEW m \in Level, m > 0, st[Around(m, p)] # "Invalid"
      PROVE  m - 1 \in Level /\ st[Around(m - 1, p)] = "Split"
  <2>1. /\ Around(m, p) \in Block
        /\ Around(m - 1, p) = <<m - 1, BlockToIndex(m, p) \div 2>>
    BY <1>1, AroundIs
  <2>2. Around(m, p)[1] = m /\ Parent(Around(m, p)) = Around(m - 1, p)
    BY <2>1 DEF Around, Parent
  <2>3. QED BY <1>0, <1>1, <2>1, <2>2 DEF Tree
<1>2. 0 \in S
  <2>1. ASSUME NEW m \in Level PROVE m - 0 - 1 = m - 1
    BY <1>0
  <2>2. QED BY <1>1, <2>1
<1>3. ASSUME NEW d \in Nat, d \in S PROVE d + 1 \in S
  <2> SUFFICES ASSUME NEW m \in Level, m > d + 1, st[Around(m, p)] # "Invalid"
               PROVE  st[Around(m - (d + 1) - 1, p)] = "Split"
    OBVIOUS
  <2>1. m - 1 \in Level /\ st[Around(m - 1, p)] # "Invalid"
    BY <1>0, <1>1
  <2>2. m - 1 > d /\ (m - 1) - d - 1 = m - (d + 1) - 1
    BY <1>0
  <2>3. QED BY <1>3, <2>1, <2>2
<1>4. Nat \subseteq S
  <2> HIDE DEF S
  <2>1. QED BY <1>2, <1>3, SetInduction
<1>5. l - k - 1 \in Nat /\ l > l - k - 1 /\ l - (l - k - 1) - 1 = k
  BY <1>0
<1>6. l - k - 1 \in S
  BY <1>4, <1>5
<1>7. QED BY <1>5, <1>6

IsLeaf(status) == status \in {"Free", "Used"}

(* One block around a place is free or in use.                             *)
LEMMA OneLeaf ==
    ASSUME KindOK, NEW st, Tree(st), NEW p \in Pointer, NEW l \in Level, NEW k \in Level,
           IsLeaf(st[Around(l, p)]), IsLeaf(st[Around(k, p)])
    PROVE  k = l
<1>1. /\ st[Around(l, p)] \notin {"Invalid", "Split"}
      /\ st[Around(k, p)] \notin {"Invalid", "Split"}
  BY DEF IsLeaf
<1>2. ~ (k < l)
  BY <1>1, SplitAbove
<1>3. ~ (l < k)
  BY <1>1, SplitAbove
<1>4. Level = 0 .. LastLevel /\ LastLevel \in Nat
  BY LevelIs
<1>5. QED BY <1>2, <1>3, <1>4

(* new is st with a block split, and with two halves merged.               *)
IsSplitOf(new, st, l, i) ==
    /\ new \in [Block -> Status]
    /\ new[<<l, i>>] = "Split" /\ new[<<l + 1, 2 * i>>] = "Free" /\ new[<<l + 1, 2 * i + 1>>] = "Free"
    /\ \A b \in Block : b \notin {<<l, i>>, <<l + 1, 2 * i>>, <<l + 1, 2 * i + 1>>} => new[b] = st[b]
IsMergeOf(new, st, l, i) ==
    /\ new \in [Block -> Status]
    /\ new[<<l, i>>] = "Free" /\ new[<<l + 1, 2 * i>>] = "Invalid" /\ new[<<l + 1, 2 * i + 1>>] = "Invalid"
    /\ \A b \in Block : b \notin {<<l, i>>, <<l + 1, 2 * i>>, <<l + 1, 2 * i + 1>>} => new[b] = st[b]
IsChangeOf(new, st, b, status) ==
    new \in [Block -> Status] /\ new[b] = status /\ \A c \in Block : c # b => new[c] = st[c]

(* The halves of a block and what else can be below it.                    *)
LEMMA HalvesAre ==
    ASSUME NEW l \in Level, l < LastLevel, NEW i \in 0 .. Pow2[l] - 1
    PROVE  /\ l + 1 \in Level /\ <<l, i>> \in Block
           /\ <<l + 1, 2 * i>> \in Block /\ <<l + 1, 2 * i + 1>> \in Block
           /\ Parent(<<l + 1, 2 * i>>) = <<l, i>> /\ Parent(<<l + 1, 2 * i + 1>>) = <<l, i>>
           /\ \A b \in Block : b[1] > 0 /\ Parent(b) = <<l, i>>
                 => b = <<l + 1, 2 * i>> \/ b = <<l + 1, 2 * i + 1>>
<1>0. Level = 0 .. LastLevel /\ LastLevel \in Nat /\ l \in Nat /\ i \in Nat
  BY LevelIs
<1>1. l + 1 \in Level /\ Pow2[l + 1] = 2 * Pow2[l] /\ Pow2[l] \in Nat
  BY LevelIs
<1>2. 2 * i \in 0 .. Pow2[l + 1] - 1 /\ 2 * i + 1 \in 0 .. Pow2[l + 1] - 1
  BY <1>1
<1>3. (l + 1) - 1 = l /\ (2 * i) \div 2 = i /\ (2 * i + 1) \div 2 = i
  BY <1>0, HalvesAreBuddies
<1>4. Parent(<<l + 1, 2 * i>>) = <<l, i>> /\ Parent(<<l + 1, 2 * i + 1>>) = <<l, i>>
  BY <1>3 DEF Parent
<1>5. ASSUME NEW b \in Block, b[1] > 0, Parent(b) = <<l, i>>
      PROVE  b = <<l + 1, 2 * i>> \/ b = <<l + 1, 2 * i + 1>>
  <2>1. b = <<b[1], b[2]>> /\ b[1] \in Level /\ b[2] \in 0 .. Pow2[b[1]] - 1 /\ Pow2[b[1]] \in Nat
    BY BlockIs, LevelIs
  <2>2. b[1] - 1 = l /\ b[2] \div 2 = i
    BY <1>5 DEF Parent
  <2>3. b[1] = l + 1 /\ b[2] \in Nat
    BY <1>0, <2>1, <2>2
  <2>4. b[2] = 2 * i \/ b[2] = 2 * i + 1
    BY <2>2, <2>3
  <2>5. QED BY <2>1, <2>3, <2>4
<1>6. QED BY <1>1, <1>2, <1>4, <1>5, BlockIs

LEMMA SplitsTree ==
    ASSUME NEW st, Tree(st), NEW l \in Level, l < LastLevel, NEW i \in 0 .. Pow2[l] - 1,
           st[<<l, i>>] = "Free", NEW new, IsSplitOf(new, st, l, i)
    PROVE  Tree(new)
<1> DEFINE this == <<l, i>>
           left == <<l + 1, 2 * i>>
           right == <<l + 1, 2 * i + 1>>
<1>0. Level = 0 .. LastLevel /\ LastLevel \in Nat /\ l \in Nat /\ i \in Nat
  BY LevelIs
<1>1. /\ l + 1 \in Level /\ this \in Block /\ left \in Block /\ right \in Block
      /\ Parent(left) = this /\ Parent(right) = this
      /\ \A b \in Block : b[1] > 0 /\ Parent(b) = this => b = left \/ b = right
  BY HalvesAre
<1>2. /\ new[this] = "Split" /\ new[left] = "Free" /\ new[right] = "Free"
      /\ \A b \in Block : b # this /\ b # left /\ b # right => new[b] = st[b]
  BY DEF IsSplitOf
<1>3. this[1] = l /\ left[1] = l + 1 /\ right[1] = l + 1 /\ st[this] = "Free"
  OBVIOUS
<1>4. st[left] = "Invalid" /\ st[right] = "Invalid"
  BY <1>0, <1>1, <1>3 DEF Tree
<1> HIDE DEF this, left, right
<1>5. ASSUME NEW b \in Block, b[1] > 0 PROVE new[b] # "Invalid" <=> new[Parent(b)] = "Split"
  <2>1. Parent(b) \in Block /\ Parent(b)[1] = b[1] - 1 /\ b[1] \in Nat
    BY <1>0, <1>5, ParentIs, BlockIs
  <2>2. st[b] # "Invalid" <=> st[Parent(b)] = "Split"
    BY <1>5 DEF Tree
  <2>3. CASE b = this
    <3>1. Parent(b) # this /\ Parent(b) # left /\ Parent(b) # right
      BY <1>0, <1>3, <2>1, <2>3
    <3>2. QED BY <1>2, <1>3, <2>1, <2>2, <2>3, <3>1
  <2>4. CASE b = left \/ b = right
    BY <1>1, <1>2, <2>4
  <2>5. CASE b # this /\ b # left /\ b # right
    <3>1. Parent(b) # this
      BY <1>1, <1>5, <2>5
    <3>2. QED BY <1>2, <1>4, <2>1, <2>2, <2>5, <3>1
  <2>6. QED BY <2>3, <2>4, <2>5
<1>6. ASSUME NEW b \in Block, new[b] = "Split" PROVE b[1] < LastLevel
  BY <1>2, <1>3, <1>6 DEF Tree
<1>7. new[<<0, 0>>] # "Invalid"
  <2>1. QED BY <1>2, RootIs DEF Tree
<1>8. QED BY <1>5, <1>6, <1>7 DEF Tree, IsSplitOf

LEMMA MergesTree ==
    ASSUME NEW st, Tree(st), NEW l \in Level, l < LastLevel, NEW i \in 0 .. Pow2[l] - 1,
           st[<<l + 1, 2 * i>>] = "Free", st[<<l + 1, 2 * i + 1>>] = "Free",
           NEW new, IsMergeOf(new, st, l, i)
    PROVE  Tree(new) /\ st[<<l, i>>] = "Split"
<1> DEFINE this == <<l, i>>
           left == <<l + 1, 2 * i>>
           right == <<l + 1, 2 * i + 1>>
<1>0. Level = 0 .. LastLevel /\ LastLevel \in Nat /\ l \in Nat /\ i \in Nat
  BY LevelIs
<1>1. /\ l + 1 \in Level /\ this \in Block /\ left \in Block /\ right \in Block
      /\ Parent(left) = this /\ Parent(right) = this
      /\ \A b \in Block : b[1] > 0 /\ Parent(b) = this => b = left \/ b = right
  BY HalvesAre
<1>2. /\ new[this] = "Free" /\ new[left] = "Invalid" /\ new[right] = "Invalid"
      /\ \A b \in Block : b # this /\ b # left /\ b # right => new[b] = st[b]
  BY DEF IsMergeOf
<1>3. /\ this[1] = l /\ left[1] = l + 1 /\ right[1] = l + 1
      /\ st[left] = "Free" /\ st[right] = "Free"
  OBVIOUS
<1> HIDE DEF this, left, right
<1>4. st[this] = "Split"
  BY <1>0, <1>1, <1>3 DEF Tree
<1>5. ASSUME NEW b \in Block, b[1] > 0 PROVE new[b] # "Invalid" <=> new[Parent(b)] = "Split"
  <2>1. Parent(b) \in Block /\ Parent(b)[1] = b[1] - 1 /\ b[1] \in Nat
    BY <1>0, <1>5, ParentIs, BlockIs
  <2>2. st[b] # "Invalid" <=> st[Parent(b)] = "Split"
    BY <1>5 DEF Tree
  <2>3. CASE b = this
    <3>1. Parent(b) # this /\ Parent(b) # left /\ Parent(b) # right
      BY <1>0, <1>3, <2>1, <2>3
    <3>2. QED BY <1>2, <1>4, <2>1, <2>2, <2>3, <3>1
  <2>4. CASE b = left \/ b = right
    BY <1>1, <1>2, <2>4
  <2>5. CASE b # this /\ b # left /\ b # right
    <3>1. Parent(b) # this
      BY <1>1, <1>5, <2>5
    <3>2. QED BY <1>2, <1>3, <2>1, <2>2, <2>5, <3>1
  <2>6. QED BY <2>3, <2>4, <2>5
<1>6. ASSUME NEW b \in Block, new[b] = "Split" PROVE b[1] < LastLevel
  BY <1>2, <1>6 DEF Tree
<1>7. new[<<0, 0>>] # "Invalid"
  <2>1. left # <<0, 0>> /\ right # <<0, 0>>
    BY <1>0, <1>3
  <2>2. QED BY <1>2, <2>1, RootIs DEF Tree
<1>8. QED BY <1>4, <1>5, <1>6, <1>7 DEF Tree, IsMergeOf, this

(* A block changes hands.                                                  *)
LEMMA ChangesTree ==
    ASSUME NEW st, Tree(st), NEW b \in Block, IsLeaf(st[b]),
           NEW status \in {"Free", "Used"}, NEW new, IsChangeOf(new, st, b, status)
    PROVE  Tree(new)
<1>1. /\ new[b] \notin {"Invalid", "Split"} /\ st[b] \notin {"Invalid", "Split"}
      /\ \A c \in Block : c # b => new[c] = st[c]
  BY DEF IsChangeOf, IsLeaf
<1>2. \A c \in Block : (new[c] = "Invalid" <=> st[c] = "Invalid") /\ (new[c] = "Split" <=> st[c] = "Split")
  BY <1>1
<1>3. <<0, 0>> \in Block
  BY RootIs
<1>4. ASSUME NEW c \in Block, c[1] > 0 PROVE new[c] # "Invalid" <=> new[Parent(c)] = "Split"
  <2>1. Parent(c) \in Block
    BY <1>4, ParentIs
  <2>2. QED BY <1>2, <1>4, <2>1 DEF Tree
<1>5. QED BY <1>2, <1>3, <1>4 DEF Tree, IsChangeOf

-----------------------------------------------------------------------------
(* The allocator: a status for each block, and in the list of each level   *)
(* the pointers to its free blocks.                                        *)

HeapType == [status : [Block -> Status], lists : [Level -> Pointer \cup {Null}],
             links : LinksOf(Pointer), phase : {"run", "panic"}]

Begins(l, p) == p = IndexToBlock(l, BlockToIndex(l, p))
FreePointers(st) ==
    [l \in Level |-> {p \in Pointer : st[Around(l, p)] = "Free" /\ Begins(l, p)}]

(* F is the set of what is in the list of each level.                      *)
Listed(h, F) ==
    /\ h \in HeapType /\ F \in [Level -> SUBSET Pointer]
    /\ \A l, k \in Level : l # k => F[l] \cap F[k] = {}
    /\ \A l \in Level : ListOf(Pointer, h.links, h.lists[l], F[l])

(* g is h but for its lists, which hold the pointers F.                    *)
Relisted(g, h, F) == Listed(g, F) /\ g.status = h.status /\ g.phase = h.phase

With(F, l, p) == [F EXCEPT ![l] = F[l] \cup {p}]
Less(F, l, p) == [F EXCEPT ![l] = F[l] \ {p}]

LEMMA PushLists ==
    ASSUME KindOK, NEW h, NEW F, Listed(h, F), NEW l \in Level, NEW p \in Pointer,
           \A k \in Level : p \notin F[k]
    PROVE  Relisted(Push(h, l, p), h, With(F, l, p)) /\ Push(h, l, p).lists[l] = p
<1> DEFINE G == With(F, l, p)
           x == h.lists[l]
           back == IF x = Null THEN h.links ELSE [h.links EXCEPT ![x].prev = p]
           M == [back EXCEPT ![p] = [prev |-> Null, next |-> x]]
           g == Push(h, l, p)
<1>1. /\ h \in HeapType /\ F \in [Level -> SUBSET Pointer]
      /\ \A j, k \in Level : j # k => F[j] \cap F[k] = {}
      /\ \A k \in Level : ListOf(Pointer, h.links, h.lists[k], F[k])
  BY DEF Listed
<1>2. /\ h.links \in LinksOf(Pointer) /\ h.lists \in [Level -> Pointer \cup {Null}]
      /\ h.status \in [Block -> Status] /\ h.phase \in {"run", "panic"}
      /\ h = [status |-> h.status, lists |-> h.lists, links |-> h.links, phase |-> h.phase]
  BY <1>1 DEF HeapType
<1>3. Null \notin Pointer
  BY NullIs
<1>4. g = [status |-> h.status, lists |-> [h.lists EXCEPT ![l] = p], links |-> M, phase |-> h.phase]
  <2>1. g = [h EXCEPT !.links = M, !.lists = [h.lists EXCEPT ![l] = p]]
    BY DEF Push
  <2> HIDE DEF M, g
  <2>2. QED BY <1>2, <2>1
<1> HIDE DEF g
<1>5. Became(Pointer, h.links, F[l], M, p, F[l] \cup {p})
  <2>1. ListOf(Pointer, h.links, x, F[l]) /\ p \notin F[l]
    BY <1>1
  <2>2. /\ back = IF x = Null THEN h.links ELSE [h.links EXCEPT ![x].prev = p]
        /\ M = [back EXCEPT ![p] = [prev |-> Null, next |-> x]]
    OBVIOUS
  <2> HIDE DEF x, back, M
  <2>3. QED BY <1>2, <1>3, <2>1, <2>2, ListPush
<1> HIDE DEF M
<1>a. /\ M \in LinksOf(Pointer) /\ ListOf(Pointer, M, p, F[l] \cup {p})
      /\ \A q \in Pointer : q \notin F[l] /\ q # p => M[q] = h.links[q]
  BY <1>5 DEF Became
<1>6. G \in [Level -> SUBSET Pointer] /\ G[l] = F[l] \cup {p} /\ \A k \in Level : k # l => G[k] = F[k]
  BY <1>1 DEF With
<1> HIDE DEF G
<1>7. \A j, k \in Level : j # k => G[j] \cap G[k] = {}
  BY <1>1, <1>6
<1>8. g.lists \in [Level -> Pointer \cup {Null}] /\ g.lists[l] = p /\ \A k \in Level : k # l => g.lists[k] = h.lists[k]
  BY <1>2, <1>4
<1>9. g \in HeapType
  BY <1>2, <1>4, <1>a, <1>8 DEF HeapType
<1>10. ASSUME NEW k \in Level PROVE ListOf(Pointer, g.links, g.lists[k], G[k])
  <2>1. CASE k = l
    BY <1>4, <1>a, <1>6, <1>8, <2>1
  <2>2. CASE k # l
    <3>1. \A q \in F[k] : M[q] = h.links[q]
      BY <1>1, <1>a, <2>2
    <3>2. ListOf(Pointer, M, h.lists[k], F[k])
      BY <1>1, <3>1, ListFrame
    <3>3. QED BY <1>4, <1>6, <1>8, <2>2, <3>2
  <2>3. QED BY <2>1, <2>2
<1>11. Relisted(g, h, G)
  <2>1. g.status = h.status /\ g.phase = h.phase
    BY <1>4
  <2>2. QED BY <1>6, <1>7, <1>9, <1>10, <2>1 DEF Relisted, Listed
<1>12. QED BY <1>8, <1>11 DEF g, G

LEMMA RemoveLists ==
    ASSUME KindOK, NEW h, NEW F, Listed(h, F), NEW l \in Level, NEW p \in F[l]
    PROVE  Relisted(RemoveBlock(h, l, p), h, Less(F, l, p))
<1> DEFINE G == Less(F, l, p)
           x == h.lists[l]
           a == h.links[p].prev
           b == h.links[p].next
           M == Without(h.links, p)
           y == IF a = Null THEN b ELSE x
           g == RemoveBlock(h, l, p)
<1>1. /\ h \in HeapType /\ F \in [Level -> SUBSET Pointer]
      /\ \A j, k \in Level : j # k => F[j] \cap F[k] = {}
      /\ \A k \in Level : ListOf(Pointer, h.links, h.lists[k], F[k])
  BY DEF Listed
<1>2. /\ h.links \in LinksOf(Pointer) /\ h.lists \in [Level -> Pointer \cup {Null}]
      /\ h.status \in [Block -> Status] /\ h.phase \in {"run", "panic"}
      /\ h = [status |-> h.status, lists |-> h.lists, links |-> h.links, phase |-> h.phase]
  BY <1>1 DEF HeapType
<1>3. Null \notin Pointer
  BY NullIs
<1>4. g = [status |-> h.status, lists |-> [h.lists EXCEPT ![l] = y], links |-> M, phase |-> h.phase]
  <2>1. g = [h EXCEPT !.links = M, !.lists = [h.lists EXCEPT ![l] = y]]
    BY DEF RemoveBlock, Without
  <2> HIDE DEF M, g, y
  <2>2. QED BY <1>2, <2>1
<1> HIDE DEF g
<1>5. Became(Pointer, h.links, F[l], M, y, F[l] \ {p})
  <2>1. ListOf(Pointer, h.links, x, F[l])
    BY <1>1
  <2>2. h.links \in LinksOf(Pointer) /\ p \in F[l]
    BY <1>2
  <2> HIDE DEF x
  <2>3. QED BY ONLY <1>3, <2>1, <2>2, ListRemove
<1> HIDE DEF M
<1>a. /\ M \in LinksOf(Pointer) /\ ListOf(Pointer, M, y, F[l] \ {p})
      /\ \A q \in Pointer : q \notin F[l] => M[q] = h.links[q]
  BY <1>5 DEF Became
<1>6. G \in [Level -> SUBSET Pointer] /\ G[l] = F[l] \ {p} /\ \A k \in Level : k # l => G[k] = F[k]
  BY <1>1 DEF Less
<1> HIDE DEF G
<1>7. \A j, k \in Level : j # k => G[j] \cap G[k] = {}
  BY <1>1, <1>6
<1> HIDE DEF y
<1>8. g.lists \in [Level -> Pointer \cup {Null}] /\ g.lists[l] = y /\ \A k \in Level : k # l => g.lists[k] = h.lists[k]
  <2>1. y \in Pointer \cup {Null}
    BY <1>3, <1>a, ListHead
  <2>2. QED BY <1>2, <1>4, <2>1
<1>9. g \in HeapType
  BY <1>2, <1>4, <1>a, <1>8 DEF HeapType
<1>10. ASSUME NEW k \in Level PROVE ListOf(Pointer, g.links, g.lists[k], G[k])
  <2>1. CASE k = l
    BY <1>4, <1>a, <1>6, <1>8, <2>1
  <2>2. CASE k # l
    <3>1. \A q \in F[k] : M[q] = h.links[q]
      BY <1>1, <1>a, <2>2
    <3>2. ListOf(Pointer, M, h.lists[k], F[k])
      BY <1>1, <3>1, ListFrame
    <3>3. QED BY <1>4, <1>6, <1>8, <2>2, <3>2
  <2>3. QED BY <2>1, <2>2
<1>11. Relisted(g, h, G)
  <2>1. g.status = h.status /\ g.phase = h.phase
    BY <1>4
  <2>2. QED BY <1>6, <1>7, <1>9, <1>10, <2>1 DEF Relisted, Listed
<1>12. QED BY <1>11 DEF g, G

Restated(st, l, i, s) == [st EXCEPT ![<<l, i>>] = s]

LEMMA MarkedLists ==
    ASSUME NEW h, NEW F, Listed(h, F), NEW l \in Level, NEW i \in 0 .. Pow2[l] - 1,
           NEW s \in Status
    PROVE  /\ Listed(Marked(h, l, i, s), F) /\ Marked(h, l, i, s).phase = h.phase
           /\ Marked(h, l, i, s).status = Restated(h.status, l, i, s)
           /\ Marked(h, l, i, s).lists = h.lists
<1> DEFINE g == Marked(h, l, i, s)
<1>1. h \in HeapType /\ <<l, i>> \in Block
  BY BlockIs DEF Listed
<1>2. /\ h.links \in LinksOf(Pointer) /\ h.lists \in [Level -> Pointer \cup {Null}]
      /\ h.status \in [Block -> Status] /\ h.phase \in {"run", "panic"}
      /\ h = [status |-> h.status, lists |-> h.lists, links |-> h.links, phase |-> h.phase]
  BY <1>1 DEF HeapType
<1> DEFINE st == [h.status EXCEPT ![<<l, i>>] = s]
<1>3. g = [status |-> st, lists |-> h.lists, links |-> h.links, phase |-> h.phase]
  <2>1. g = [h EXCEPT !.status = st]
    BY DEF Marked
  <2> HIDE DEF st, g
  <2>2. QED BY <1>2, <2>1
<1>4. st \in [Block -> Status]
  BY <1>1, <1>2
<1> HIDE DEF g, st
<1>5. g \in HeapType
  BY <1>2, <1>3, <1>4 DEF HeapType
<1>6. g.status = st /\ g.lists = h.lists /\ g.links = h.links /\ g.phase = h.phase
  BY <1>3
<1>7. Listed(g, F)
  BY <1>5, <1>6 DEF Listed
<1>8. QED BY <1>6, <1>7 DEF g, st, Restated

Good(h) == h.phase = "run" /\ Tree(h.status) /\ Listed(h, FreePointers(h.status))

LEMMA FreePointersAre ==
    ASSUME KindOK, NEW st, NEW l \in Level, NEW i \in 0 .. Pow2[l] - 1
    PROVE  IndexToBlock(l, i) \in FreePointers(st)[l] <=> st[<<l, i>>] = "Free"
<1>1. /\ IndexToBlock(l, i) \in Pointer /\ BlockToIndex(l, IndexToBlock(l, i)) = i
      /\ Around(l, IndexToBlock(l, i)) = <<l, i>>
  BY PointerIs, PointerTells
<1>2. QED BY <1>1 DEF FreePointers, Begins

LEMMA WithIs ==
    ASSUME NEW F \in [Level -> SUBSET Pointer], NEW l \in Level, NEW p \in Pointer
    PROVE  /\ With(F, l, p) \in [Level -> SUBSET Pointer] /\ With(F, l, p)[l] = F[l] \cup {p}
           /\ \A k \in Level : k # l => With(F, l, p)[k] = F[k]
           /\ Less(F, l, p) \in [Level -> SUBSET Pointer] /\ Less(F, l, p)[l] = F[l] \ {p}
           /\ \A k \in Level : k # l => Less(F, l, p)[k] = F[k]
BY DEF With, Less

LEMMA WithBoth ==
    ASSUME NEW F \in [Level -> SUBSET Pointer], NEW l \in Level, NEW p \in Pointer, NEW q \in Pointer
    PROVE  With(With(F, l, p), l, q) = With(With(F, l, q), l, p)
<1>1. With(With(F, l, p), l, q) = [F EXCEPT ![l] = F[l] \cup {p} \cup {q}]
  BY DEF With
<1>2. With(With(F, l, q), l, p) = [F EXCEPT ![l] = F[l] \cup {q} \cup {p}]
  BY DEF With
<1>3. F[l] \cup {p} \cup {q} = F[l] \cup {q} \cup {p}
  OBVIOUS
<1>4. QED BY <1>1, <1>2, <1>3

(* What a change of status does to the pointers of the free blocks.        *)
LEMMA FreeChanges ==
    ASSUME KindOK, NEW st \in [Block -> Status], NEW l \in Level, NEW i \in 0 .. Pow2[l] - 1,
           NEW s \in Status
    PROVE  /\ Restated(st, l, i, s) \in [Block -> Status]
           /\ s = "Free" => FreePointers(Restated(st, l, i, s))
                               = With(FreePointers(st), l, IndexToBlock(l, i))
           /\ s # "Free" => FreePointers(Restated(st, l, i, s))
                               = Less(FreePointers(st), l, IndexToBlock(l, i))
<1> DEFINE q == IndexToBlock(l, i)
           new == Restated(st, l, i, s)
           F == FreePointers(st)
<1>1. <<l, i>> \in Block /\ new \in [Block -> Status] /\ new[<<l, i>>] = s
      /\ \A b \in Block : b # <<l, i>> => new[b] = st[b]
  <2>1. <<l, i>> \in Block
    BY BlockIs
  <2>2. QED BY <2>1 DEF Restated
<1> HIDE DEF new
<1>2. q \in Pointer /\ BlockToIndex(l, q) = i /\ Around(l, q) = <<l, i>>
  BY PointerIs, PointerTells
<1>3. ASSUME NEW k \in Level, NEW p \in Pointer
      PROVE  /\ Around(k, p) \in Block /\ Around(k, p) = <<k, BlockToIndex(k, p)>>
             /\ p \in FreePointers(new)[k] <=> new[Around(k, p)] = "Free" /\ Begins(k, p)
             /\ p \in F[k] <=> st[Around(k, p)] = "Free" /\ Begins(k, p)
  BY AroundIs DEF Around, FreePointers
<1>4. ASSUME NEW k \in Level, k # l PROVE FreePointers(new)[k] = F[k]
  <2>1. \A p \in Pointer : p \in FreePointers(new)[k] <=> p \in F[k]
    <3>1. ASSUME NEW p \in Pointer PROVE p \in FreePointers(new)[k] <=> p \in F[k]
      <4>1. Around(k, p) # <<l, i>>
        BY <1>3, <1>4
      <4>2. QED BY <1>1, <1>3, <4>1
    <3>2. QED BY <3>1
  <2>2. FreePointers(new)[k] \subseteq Pointer /\ F[k] \subseteq Pointer
    BY DEF FreePointers
  <2>3. QED BY <2>1, <2>2
<1>5. FreePointers(new)[l] = IF s = "Free" THEN F[l] \cup {q} ELSE F[l] \ {q}
  <2>1. ASSUME NEW p \in Pointer, p # q
        PROVE  p \in FreePointers(new)[l] <=> p \in F[l]
    <3>1. CASE BlockToIndex(l, p) = i
      <4>1. ~ Begins(l, p)
        BY <2>1, <3>1 DEF Begins
      <4>2. QED BY <1>3, <4>1
    <3>2. CASE BlockToIndex(l, p) # i
      <4>1. Around(l, p) # <<l, i>>
        BY <1>3, <3>2
      <4>2. QED BY <1>1, <1>3, <4>1
    <3>3. QED BY <3>1, <3>2
  <2>2. q \in FreePointers(new)[l] <=> s = "Free"
    BY <1>1, FreePointersAre
  <2>3. FreePointers(new)[l] \subseteq Pointer /\ F[l] \subseteq Pointer
    BY DEF FreePointers
  <2>4. QED BY <1>2, <2>1, <2>2, <2>3
<1>6. FreePointers(new) = IF s = "Free" THEN With(F, l, q) ELSE Less(F, l, q)
  <2> DEFINE G == IF s = "Free" THEN With(F, l, q) ELSE Less(F, l, q)
  <2>1. F = [k \in Level |-> F[k]]
    BY DEF FreePointers
  <2>2. G = [k \in Level |-> G[k]] /\ \A k \in Level : FreePointers(new)[k] = G[k]
    BY <1>4, <1>5, <2>1 DEF With, Less
  <2>3. FreePointers(new) = [k \in Level |-> FreePointers(new)[k]]
    BY DEF FreePointers
  <2> HIDE DEF G
  <2>4. FreePointers(new) = G
    BY <2>2, <2>3
  <2>5. QED BY <2>4 DEF G
<1>7. QED BY <1>1, <1>6 DEF new

(* No other list has the pointer of a block that is free or in use.        *)
LEMMA ElsewhereNot ==
    ASSUME KindOK, NEW st, Tree(st), NEW l \in Level, NEW p \in Pointer, IsLeaf(st[Around(l, p)]),
           NEW k \in Level, k # l
    PROVE  p \notin FreePointers(st)[k]
<1> SUFFICES ASSUME p \in FreePointers(st)[k] PROVE FALSE
  OBVIOUS
<1>1. IsLeaf(st[Around(k, p)])
  BY DEF FreePointers, IsLeaf
<1>2. k = l
  BY <1>1, OneLeaf
<1>3. QED BY <1>2

(* Split, of a free block: the lists and the statuses still agree.         *)
LEMMA SplitGood ==
    ASSUME KindOK, NEW h, Good(h), NEW l \in Level, l < LastLevel, NEW i \in 0 .. Pow2[l] - 1,
           h.status[<<l, i>>] = "Free"
    PROVE  /\ Good(Split(h, l, i)) /\ IsSplitOf(Split(h, l, i).status, h.status, l, i)
           /\ Split(h, l, i).lists[l + 1] = IndexToBlock(l + 1, 2 * i)
<1> DEFINE st == h.status
           F == FreePointers(st)
           this == IndexToBlock(l, i)
           buddy == IndexToBlock(l + 1, 2 * i + 1)
           r1 == RemoveBlock(h, l, this)
           r2 == Push(r1, l + 1, buddy)
           r3 == Push(r2, l + 1, this)
           m1 == Marked(r3, l, i, "Split")
           m2 == Marked(m1, l + 1, 2 * i, "Free")
           m3 == Marked(m2, l + 1, 2 * i + 1, "Free")
           st1 == Restated(st, l, i, "Split")
           st2 == Restated(st1, l + 1, 2 * i, "Free")
           st3 == Restated(st2, l + 1, 2 * i + 1, "Free")
           F1 == Less(F, l, this)
           F2 == With(F1, l + 1, buddy)
           F3 == With(F2, l + 1, this)
<1>1. Split(h, l, i) = m3
  BY DEF Split
<1>2. /\ this = IndexToBlock(l + 1, 2 * i) /\ l + 1 \in Level /\ l + 1 > 0 /\ l + 1 # l /\ (l + 1) - 1 = l
      /\ 2 * i \in 0 .. Pow2[l + 1] - 1 /\ 2 * i + 1 \in 0 .. Pow2[l + 1] - 1 /\ 2 * i + 1 # 2 * i
      /\ (2 * i + 1) \div 2 = i
  <2>1. l \in Nat /\ i \in Nat
    BY LevelIs
  <2>2. QED BY <2>1, FirstHalf, HalvesAreBuddies
<1>3. Listed(h, F) /\ Tree(st) /\ h.phase = "run"
  BY DEF Good
<1>4. st \in [Block -> Status] /\ F \in [Level -> SUBSET Pointer]
  BY <1>3 DEF Tree, Listed
<1> HIDE DEF F, st, this, buddy
<1>5. /\ this \in Pointer /\ Around(l, this) = <<l, i>> /\ this \in F[l]
      /\ BlockToIndex(l + 1, this) = 2 * i
  BY <1>2, PointerIs, PointerTells, FreePointersAre DEF F, st, this
<1>6. /\ buddy \in Pointer /\ Around(l, buddy) = <<l, i>> /\ buddy # this
      /\ BlockToIndex(l + 1, buddy) = 2 * i + 1
  <2>1. buddy \in Pointer /\ BlockToIndex(l + 1, buddy) = 2 * i + 1
    BY <1>2, PointerIs DEF buddy
  <2>2. Around((l + 1) - 1, buddy) = <<(l + 1) - 1, BlockToIndex(l + 1, buddy) \div 2>>
    BY <1>2, <2>1, AroundIs
  <2>3. QED BY <1>2, <1>5, <2>1, <2>2
<1>7. st[<<l, i>>] = "Free" /\ IsLeaf(st[<<l, i>>])
  BY DEF IsLeaf, st
<1>8. \A k \in Level : k # l => this \notin F[k] /\ buddy \notin F[k]
  BY <1>3, <1>5, <1>6, <1>7, ElsewhereNot DEF F
<1>9. buddy \notin F[l]
  <2>1. BlockToIndex(l, buddy) = i
    BY <1>6 DEF Around
  <2>2. ~ Begins(l, buddy)
    BY <1>6, <2>1 DEF Begins, this
  <2>3. QED BY <2>2 DEF F, FreePointers
<1> HIDE DEF r1, r2, r3
<1>10. Relisted(r1, h, F1)
  BY <1>3, <1>5, RemoveLists DEF r1
<1>11. F1 \in [Level -> SUBSET Pointer] /\ F1[l] = F[l] \ {this} /\ \A k \in Level : k # l => F1[k] = F[k]
  BY <1>4, <1>5, WithIs
<1> HIDE DEF F1
<1>12. Relisted(r2, r1, F2)
  <2>1. \A k \in Level : buddy \notin F1[k]
    BY <1>8, <1>9, <1>11
  <2>2. Listed(r1, F1)
    BY <1>10 DEF Relisted
  <2>3. QED BY <1>2, <1>6, <2>1, <2>2, PushLists DEF r2
<1>13. F2 \in [Level -> SUBSET Pointer] /\ F2[l + 1] = F[l + 1] \cup {buddy} /\ F2[l] = F[l] \ {this}
       /\ \A k \in Level : k # l /\ k # l + 1 => F2[k] = F[k]
  <2>1. /\ F2 \in [Level -> SUBSET Pointer] /\ F2[l + 1] = F1[l + 1] \cup {buddy}
        /\ \A k \in Level : k # l + 1 => F2[k] = F1[k]
    BY <1>2, <1>6, <1>11, WithIs
  <2>2. QED BY <1>2, <1>11, <2>1
<1> HIDE DEF F2
<1>14. Relisted(r3, r2, F3) /\ r3.lists[l + 1] = this
  <2>1. \A k \in Level : this \notin F2[k]
    <3>1. ASSUME NEW k \in Level PROVE this \notin F2[k]
      <4>1. CASE k = l
        BY <1>13, <4>1
      <4>2. CASE k = l + 1
        BY <1>2, <1>6, <1>8, <1>13, <4>2
      <4>3. CASE k # l /\ k # l + 1
        BY <1>8, <1>13, <4>3
      <4>4. QED BY <4>1, <4>2, <4>3
    <3>2. QED BY <3>1
  <2>2. Listed(r2, F2)
    BY <1>12 DEF Relisted
  <2>3. QED BY <1>2, <1>5, <2>1, <2>2, PushLists DEF r3
<1> HIDE DEF F3, m1, m2, m3, st1, st2, st3
<1>15. Listed(r3, F3) /\ r3.status = st /\ r3.phase = "run"
  BY <1>3, <1>10, <1>12, <1>14 DEF Relisted, st
<1>16. Listed(m1, F3) /\ m1.status = st1 /\ m1.phase = "run" /\ m1.lists[l + 1] = this
  <2>1. "Split" \in Status
    BY DEF Status
  <2>2. QED BY <1>14, <1>15, <2>1, MarkedLists DEF m1, st1
<1>17. Listed(m2, F3) /\ m2.status = st2 /\ m2.phase = "run" /\ m2.lists[l + 1] = this
  <2>1. "Free" \in Status
    BY DEF Status
  <2>2. QED BY <1>2, <1>16, <2>1, MarkedLists DEF m2, st2
<1>18. Listed(m3, F3) /\ m3.status = st3 /\ m3.phase = "run" /\ m3.lists[l + 1] = this
  <2>1. "Free" \in Status
    BY DEF Status
  <2>2. QED BY <1>2, <1>17, <2>1, MarkedLists DEF m3, st3
<1>19. /\ <<l, i>> \in Block /\ <<l + 1, 2 * i>> \in Block /\ <<l + 1, 2 * i + 1>> \in Block
       /\ <<l + 1, 2 * i>> # <<l + 1, 2 * i + 1>> /\ <<l, i>> # <<l + 1, 2 * i>> /\ <<l, i>> # <<l + 1, 2 * i + 1>>
  BY <1>2, BlockIs
<1>20. IsSplitOf(st3, st, l, i)
  BY <1>4, <1>19 DEF IsSplitOf, st1, st2, st3, Status, Restated
<1>21. Tree(st3)
  BY <1>3, <1>7, <1>20, SplitsTree
<1>22. FreePointers(st1) = F1 /\ st1 \in [Block -> Status]
  <2>1. "Split" \in Status /\ "Split" # "Free"
    BY DEF Status
  <2>2. QED BY <1>4, <2>1, FreeChanges DEF st1, F, F1, this
<1>23. FreePointers(st2) = With(F1, l + 1, this) /\ st2 \in [Block -> Status]
  <2>1. "Free" \in Status
    BY DEF Status
  <2>2. QED BY <1>2, <1>22, <2>1, FreeChanges DEF st2
<1>24. FreePointers(st3) = F3
  <2>1. "Free" \in Status
    BY DEF Status
  <2>2. FreePointers(st3) = With(FreePointers(st2), l + 1, buddy)
    BY <1>2, <1>23, <2>1, FreeChanges DEF st3, buddy
  <2>3. QED BY <1>2, <1>5, <1>6, <1>11, <1>23, <2>2, WithBoth DEF F2, F3
<1>25. QED BY <1>1, <1>2, <1>18, <1>20, <1>21, <1>24 DEF Good, st

(* Merge, of a free block and its free buddy, whose halves below parent    *)
(* they are: likewise, and no assertion fails.                             *)
LEMMA MergeGood ==
    ASSUME KindOK, NEW h, Good(h), NEW m \in Level, m > 0, NEW i \in 0 .. Pow2[m] - 1,
           h.status[<<m, i>>] = "Free", h.status[<<m, BuddyIndex(i)>>] = "Free"
    PROVE  /\ Good(Merge(h, m, i)) /\ m - 1 \in Level /\ i \div 2 \in 0 .. Pow2[m - 1] - 1
           /\ IsMergeOf(Merge(h, m, i).status, h.status, m - 1, i \div 2)
<1> DEFINE st == h.status
           F == FreePointers(st)
           l == m - 1
           j == i \div 2
           bi == BuddyIndex(i)
           this == IndexToBlock(m, i)
           buddy == IndexToBlock(m, bi)
           whole == IndexToBlock(l, j)
           r1 == RemoveBlock(h, m, this)
           r2 == RemoveBlock(r1, m, buddy)
           r3 == Push(r2, l, whole)
           m1 == Marked(r3, m, i, "Invalid")
           m2 == Marked(m1, m, bi, "Invalid")
           m3 == Marked(m2, l, j, "Free")
           st1 == Restated(st, m, i, "Invalid")
           st2 == Restated(st1, m, bi, "Invalid")
           st3 == Restated(st2, l, j, "Free")
           F1 == Less(F, m, this)
           F2 == Less(F1, m, buddy)
           F3 == With(F2, l, whole)
<1>1. /\ l \in Level /\ l < LastLevel /\ l + 1 = m /\ l # m /\ j \in 0 .. Pow2[l] - 1
      /\ bi \in 0 .. Pow2[m] - 1 /\ bi # i /\ {i, bi} = {2 * j, 2 * j + 1}
  <2>1. /\ m - 1 \in Level /\ m - 1 < LastLevel /\ (m - 1) + 1 = m
        /\ i \div 2 \in 0 .. Pow2[m - 1] - 1
        /\ BuddyIndex(i) \in 0 .. Pow2[m] - 1 /\ BuddyIndex(i) # i
        /\ {i, BuddyIndex(i)} = {2 * (i \div 2), 2 * (i \div 2) + 1}
    BY BuddyIs
  <2>2. m \in Nat
    BY LevelIs
  <2>3. QED BY <2>1, <2>2
<1>2. Listed(h, F) /\ Tree(st) /\ h.phase = "run"
  BY DEF Good
<1>3. st \in [Block -> Status] /\ F \in [Level -> SUBSET Pointer]
  BY <1>2 DEF Tree, Listed
<1>4. Merge(h, m, i) = IF st[<<l, j>>] # "Split" THEN Panicked(h) ELSE m3
  BY DEF Merge
<1>5. st[<<m, i>>] = "Free" /\ st[<<m, bi>>] = "Free" /\ IsLeaf(st[<<m, i>>]) /\ IsLeaf(st[<<m, bi>>])
  BY DEF IsLeaf
<1> HIDE DEF st, F, this, buddy, whole, l, j, bi
<1>6. /\ this \in Pointer /\ this \in F[m] /\ buddy \in Pointer /\ buddy \in F[m] /\ this # buddy
      /\ Around(m, this) = <<m, i>> /\ Around(m, buddy) = <<m, bi>>
  <2>1. this \in Pointer /\ BlockToIndex(m, this) = i /\ Around(m, this) = <<m, i>>
    BY PointerIs, PointerTells DEF this
  <2>2. buddy \in Pointer /\ BlockToIndex(m, buddy) = bi /\ Around(m, buddy) = <<m, bi>>
    BY <1>1, PointerIs, PointerTells DEF buddy
  <2>3. this \in F[m] /\ buddy \in F[m]
    BY <1>1, <1>5, FreePointersAre DEF F, this, buddy
  <2>4. QED BY <1>1, <2>1, <2>2, <2>3
<1>7. whole \in Pointer /\ whole \in {this, buddy}
  <2>1. IndexToBlock(l + 1, 2 * j) = whole
    BY <1>1, FirstHalf DEF whole
  <2>2. 2 * j \in {i, bi}
    BY <1>1
  <2>3. QED BY <1>1, <1>6, <2>1, <2>2 DEF this, buddy
<1>8. \A k \in Level : k # m => this \notin F[k] /\ buddy \notin F[k]
  BY <1>2, <1>5, <1>6, ElsewhereNot DEF F
<1> HIDE DEF r1, r2, r3
<1>9. Relisted(r1, h, F1)
  BY <1>2, <1>6, RemoveLists DEF r1
<1>10. F1 \in [Level -> SUBSET Pointer] /\ F1[m] = F[m] \ {this} /\ \A k \in Level : k # m => F1[k] = F[k]
  BY <1>3, <1>6, WithIs
<1> HIDE DEF F1
<1>11. Relisted(r2, r1, F2)
  <2>1. buddy \in F1[m] /\ Listed(r1, F1)
    BY <1>6, <1>9, <1>10 DEF Relisted
  <2>2. QED BY <2>1, RemoveLists DEF r2
<1>12. F2 \in [Level -> SUBSET Pointer] /\ F2[m] = F1[m] \ {buddy} /\ \A k \in Level : k # m => F2[k] = F1[k]
  BY <1>6, <1>10, WithIs
<1> HIDE DEF F2
<1>13. Relisted(r3, r2, F3)
  <2>1. \A k \in Level : whole \notin F2[k]
    <3>1. ASSUME NEW k \in Level PROVE whole \notin F2[k]
      <4>1. CASE k = m
        BY <1>7, <1>10, <1>12, <4>1
      <4>2. CASE k # m
        BY <1>7, <1>8, <1>10, <1>12, <4>2
      <4>3. QED BY <4>1, <4>2
    <3>2. QED BY <3>1
  <2>2. Listed(r2, F2)
    BY <1>11 DEF Relisted
  <2>3. QED BY <1>1, <1>7, <2>1, <2>2, PushLists DEF r3
<1> HIDE DEF F3, m1, m2, m3, st1, st2, st3
<1>14. Listed(r3, F3) /\ r3.status = st /\ r3.phase = "run"
  BY <1>2, <1>9, <1>11, <1>13 DEF Relisted, st
<1>s. "Free" \in Status /\ "Invalid" \in Status /\ "Invalid" # "Free"
  BY DEF Status
<1>15. Listed(m1, F3) /\ m1.status = st1 /\ m1.phase = "run"
  BY <1>14, <1>s, MarkedLists DEF m1, st1
<1>16. Listed(m2, F3) /\ m2.status = st2 /\ m2.phase = "run"
  BY <1>1, <1>15, <1>s, MarkedLists DEF m2, st2
<1>17. Listed(m3, F3) /\ m3.status = st3 /\ m3.phase = "run"
  BY <1>1, <1>16, <1>s, MarkedLists DEF m3, st3
<1>18. /\ <<l, j>> \in Block /\ <<m, i>> \in Block /\ <<m, bi>> \in Block
       /\ <<m, i>> # <<m, bi>> /\ <<l, j>> # <<m, i>> /\ <<l, j>> # <<m, bi>>
       /\ {<<m, i>>, <<m, bi>>} = {<<l + 1, 2 * j>>, <<l + 1, 2 * j + 1>>}
  <2>1. <<l, j>> \in Block /\ <<m, i>> \in Block /\ <<m, bi>> \in Block
    BY <1>1, BlockIs
  <2>2. <<m, i>> # <<m, bi>> /\ <<l, j>> # <<m, i>> /\ <<l, j>> # <<m, bi>>
    BY <1>1
  <2>3. (i = 2 * j /\ bi = 2 * j + 1) \/ (i = 2 * j + 1 /\ bi = 2 * j)
    BY <1>1
  <2>4. QED BY <1>1, <2>1, <2>2, <2>3
<1>19. /\ st3 \in [Block -> Status] /\ st3[<<l, j>>] = "Free"
       /\ st3[<<m, i>>] = "Invalid" /\ st3[<<m, bi>>] = "Invalid"
       /\ \A b \in Block : b \notin {<<l, j>>, <<m, i>>, <<m, bi>>} => st3[b] = st[b]
  BY <1>3, <1>18, <1>s DEF st1, st2, st3, Restated
<1>20. IsMergeOf(st3, st, l, j)
  <2>1. \A b \in {<<m, i>>, <<m, bi>>} : st3[b] = "Invalid"
    BY <1>19
  <2>2. st3[<<l + 1, 2 * j>>] = "Invalid" /\ st3[<<l + 1, 2 * j + 1>>] = "Invalid"
    BY <1>18, <2>1
  <2>3. ASSUME NEW b \in Block, b \notin {<<l, j>>, <<l + 1, 2 * j>>, <<l + 1, 2 * j + 1>>}
        PROVE  st3[b] = st[b]
    BY <1>18, <1>19, <2>3
  <2>4. QED BY <1>19, <2>2, <2>3 DEF IsMergeOf
<1>21. Tree(st3) /\ st[<<l, j>>] = "Split"
  <2>1. \A b \in {<<m, i>>, <<m, bi>>} : st[b] = "Free"
    BY <1>5
  <2>2. st[<<l + 1, 2 * j>>] = "Free" /\ st[<<l + 1, 2 * j + 1>>] = "Free"
    BY <1>18, <2>1
  <2>3. QED BY <1>1, <1>2, <1>20, <2>2, MergesTree
<1>22. FreePointers(st1) = F1 /\ st1 \in [Block -> Status]
  BY <1>3, <1>s, FreeChanges DEF st1, F, F1, this
<1>23. FreePointers(st2) = F2 /\ st2 \in [Block -> Status]
  BY <1>1, <1>22, <1>s, FreeChanges DEF st2, F2, buddy
<1>24. FreePointers(st3) = F3
  BY <1>1, <1>23, <1>s, FreeChanges DEF st3, F3, whole
<1>25. Good(m3)
  BY <1>17, <1>21, <1>24 DEF Good
<1>26. QED BY <1>1, <1>4, <1>17, <1>20, <1>21, <1>25 DEF st, l, j

(* reserve_block, of a free block.                                         *)
LEMMA ReserveGood ==
    ASSUME KindOK, NEW h, Good(h), NEW l \in Level, NEW i \in 0 .. Pow2[l] - 1,
           h.status[<<l, i>>] = "Free", NEW p, p = IndexToBlock(l, i)
    PROVE  /\ Good(ReserveBlock(h, l, p))
           /\ IsChangeOf(ReserveBlock(h, l, p).status, h.status, <<l, i>>, "Used")
<1> DEFINE st == h.status
           F == FreePointers(st)
           r == RemoveBlock(h, l, p)
           m == Marked(r, l, i, "Used")
           new == Restated(st, l, i, "Used")
<1>1. p \in Pointer /\ BlockToIndex(l, p) = i /\ p \in F[l] /\ <<l, i>> \in Block
  BY PointerIs, FreePointersAre, BlockIs
<1>2. ReserveBlock(h, l, p) = m
  BY <1>1 DEF ReserveBlock
<1>3. Listed(h, F) /\ Tree(st) /\ h.phase = "run" /\ st \in [Block -> Status]
  BY DEF Good, Tree
<1>4. "Used" \in Status /\ "Used" # "Free"
  BY DEF Status
<1> HIDE DEF st, F, r
<1>5. Relisted(r, h, Less(F, l, p))
  BY <1>1, <1>3, RemoveLists DEF r
<1>6. Listed(r, Less(F, l, p)) /\ r.status = st /\ r.phase = "run"
  BY <1>3, <1>5 DEF Relisted, st
<1> HIDE DEF m, new
<1>7. Listed(m, Less(F, l, p)) /\ m.status = new /\ m.phase = "run"
  BY <1>4, <1>6, MarkedLists DEF m, new
<1>8. FreePointers(new) = Less(F, l, p)
  BY <1>3, <1>4, FreeChanges DEF new, F
<1>9. IsChangeOf(new, st, <<l, i>>, "Used")
  BY <1>1, <1>3, <1>4 DEF new, IsChangeOf, Restated
<1>10. Tree(new)
  <2>1. IsLeaf(st[<<l, i>>])
    BY DEF IsLeaf, st
  <2>2. QED BY <1>1, <1>3, <1>9, <2>1, ChangesTree
<1>11. QED BY <1>2, <1>7, <1>8, <1>9, <1>10 DEF Good, st

(* The beginning of free: a block that is in use is free again.            *)
LEMMA ListGood ==
    ASSUME KindOK, NEW h, Good(h), NEW l \in Level, NEW i \in 0 .. Pow2[l] - 1,
           h.status[<<l, i>>] = "Used", NEW p, p = IndexToBlock(l, i)
    PROVE  /\ Good(Marked(Push(h, l, p), l, i, "Free"))
           /\ IsChangeOf(Marked(Push(h, l, p), l, i, "Free").status, h.status, <<l, i>>, "Free")
<1> DEFINE st == h.status
           F == FreePointers(st)
           r == Push(h, l, p)
           m == Marked(r, l, i, "Free")
           new == Restated(st, l, i, "Free")
<1>1. p \in Pointer /\ p \notin F[l] /\ <<l, i>> \in Block /\ Around(l, p) = <<l, i>>
  BY PointerIs, PointerTells, FreePointersAre, BlockIs
<1>2. Listed(h, F) /\ Tree(st) /\ h.phase = "run" /\ st \in [Block -> Status]
  BY DEF Good, Tree
<1>3. "Free" \in Status
  BY DEF Status
<1>4. IsLeaf(st[<<l, i>>])
  BY DEF IsLeaf, st
<1> HIDE DEF st, F, r
<1>5. \A k \in Level : p \notin F[k]
  BY <1>1, <1>2, <1>4, ElsewhereNot DEF F
<1>6. Relisted(r, h, With(F, l, p))
  BY <1>1, <1>2, <1>5, PushLists DEF r
<1>7. Listed(r, With(F, l, p)) /\ r.status = st /\ r.phase = "run"
  BY <1>2, <1>6 DEF Relisted, st
<1> HIDE DEF m, new
<1>8. Listed(m, With(F, l, p)) /\ m.status = new /\ m.phase = "run"
  BY <1>3, <1>7, MarkedLists DEF m, new
<1>9. FreePointers(new) = With(F, l, p)
  BY <1>2, <1>3, FreeChanges DEF new, F
<1>10. IsChangeOf(new, st, <<l, i>>, "Free")
  BY <1>1, <1>2, <1>3 DEF new, IsChangeOf, Restated
<1>11. Tree(new)
  BY <1>1, <1>2, <1>4, <1>10, ChangesTree
<1>12. Good(m) /\ IsChangeOf(m.status, h.status, <<l, i>>, "Free")
  BY <1>8, <1>9, <1>10, <1>11 DEF Good, st
<1>13. QED BY <1>12 DEF m, r

-----------------------------------------------------------------------------
(* Free halves of the same block, and the blocks that are in use.          *)

BuddyOf(b) == <<b[1], BuddyIndex(b[2])>>
Pair(st, b) == b[1] > 0 /\ st[b] = "Free" /\ st[BuddyOf(b)] = "Free"
NoPair(st) == \A b \in Block : ~ Pair(st, b)
OnlyPair(st, c) == \A b \in Block : Pair(st, b) => b = c \/ b = BuddyOf(c)
UsedOf(st) == {b \in Block : st[b] = "Used"}

LEMMA BuddyOfIs ==
    ASSUME NEW b \in Block, b[1] > 0
    PROVE  BuddyOf(b) \in Block /\ BuddyOf(b)[1] = b[1] /\ BuddyOf(BuddyOf(b)) = b /\ BuddyOf(b) # b
<1>1. b = <<b[1], b[2]>> /\ b[1] \in Level /\ b[2] \in 0 .. Pow2[b[1]] - 1
  BY BlockIs
<1>2. /\ BuddyIndex(b[2]) \in 0 .. Pow2[b[1]] - 1 /\ BuddyIndex(b[2]) # b[2]
      /\ BuddyIndex(BuddyIndex(b[2])) = b[2]
  BY <1>1, BuddyIs
<1>3. BuddyOf(b) \in Block
  BY <1>1, <1>2, BlockIs DEF BuddyOf
<1>4. BuddyOf(b)[1] = b[1] /\ BuddyOf(b)[2] = BuddyIndex(b[2])
  BY DEF BuddyOf
<1>5. BuddyOf(BuddyOf(b)) = b
  BY <1>1, <1>2, <1>4 DEF BuddyOf
<1>6. QED BY <1>1, <1>2, <1>3, <1>4, <1>5

LEMMA SplitPair ==
    ASSUME NEW st, Tree(st), NEW l \in Level, l < LastLevel, NEW i \in 0 .. Pow2[l] - 1,
           st[<<l, i>>] = "Free", OnlyPair(st, <<l, i>>), NEW new, IsSplitOf(new, st, l, i)
    PROVE  /\ OnlyPair(new, <<l + 1, 2 * i>>) /\ OnlyPair(new, <<l + 1, 2 * i + 1>>)
           /\ UsedOf(new) = UsedOf(st)
<1> DEFINE this == <<l, i>>
           left == <<l + 1, 2 * i>>
           right == <<l + 1, 2 * i + 1>>
<1>0. Level = 0 .. LastLevel /\ LastLevel \in Nat /\ l \in Nat /\ i \in Nat
  BY LevelIs
<1>1. /\ this \in Block /\ left \in Block /\ right \in Block
      /\ Parent(left) = this /\ Parent(right) = this
  BY HalvesAre
<1>2. /\ new[this] = "Split" /\ new[left] = "Free" /\ new[right] = "Free"
      /\ \A b \in Block : b # this /\ b # left /\ b # right => new[b] = st[b]
  BY DEF IsSplitOf
<1>3. this[1] = l /\ left[1] = l + 1 /\ right[1] = l + 1 /\ st[this] = "Free"
  OBVIOUS
<1>4. BuddyOf(left) = right /\ BuddyOf(right) = left
  BY <1>0, HalvesAreBuddies DEF BuddyOf
<1>5. st[left] = "Invalid" /\ st[right] = "Invalid"
  BY <1>0, <1>1, <1>3 DEF Tree
<1>6. \A b \in Block : Pair(st, b) => b = this \/ b = BuddyOf(this)
  BY DEF OnlyPair
<1> HIDE DEF this, left, right
<1>7. ASSUME NEW b \in Block, Pair(new, b) PROVE b = left \/ b = right
  <2> SUFFICES ASSUME b # left, b # right PROVE FALSE
    OBVIOUS
  <2>1. BuddyOf(b) \in Block /\ BuddyOf(BuddyOf(b)) = b /\ b[1] > 0
        /\ new[b] = "Free" /\ new[BuddyOf(b)] = "Free"
    BY <1>7, BuddyOfIs DEF Pair
  <2>2. b # this /\ BuddyOf(b) # this /\ BuddyOf(b) # left /\ BuddyOf(b) # right
    BY <1>2, <1>4, <2>1
  <2>3. Pair(st, b)
    BY <1>2, <2>1, <2>2 DEF Pair
  <2>4. b = BuddyOf(this)
    BY <1>6, <2>2, <2>3
  <2>5. this[1] > 0
    BY <2>1, <2>4 DEF BuddyOf
  <2>6. BuddyOf(b) = this
    BY <1>1, <2>4, <2>5, BuddyOfIs
  <2>7. QED BY <2>2, <2>6
<1>8. UsedOf(new) = UsedOf(st)
  <2>1. \A b \in Block : new[b] = "Used" <=> st[b] = "Used"
    BY <1>2, <1>3, <1>5
  <2>2. QED BY <2>1 DEF UsedOf
<1>9. OnlyPair(new, left) /\ OnlyPair(new, right)
  BY <1>4, <1>7 DEF OnlyPair
<1>10. QED BY <1>8, <1>9 DEF left, right

LEMMA MergePair ==
    ASSUME NEW st, NEW m \in Level, m > 0, NEW i \in 0 .. Pow2[m] - 1,
           Tree(st), st[<<m, i>>] = "Free", st[<<m, BuddyIndex(i)>>] = "Free",
           OnlyPair(st, <<m, i>>), NEW new, IsMergeOf(new, st, m - 1, i \div 2)
    PROVE  OnlyPair(new, <<m - 1, i \div 2>>) /\ UsedOf(new) = UsedOf(st)
<1> DEFINE l == m - 1
           j == i \div 2
           this == <<l, j>>
           left == <<l + 1, 2 * j>>
           right == <<l + 1, 2 * j + 1>>
           one == <<m, i>>
<1>0. Level = 0 .. LastLevel /\ LastLevel \in Nat /\ m \in Nat /\ i \in Nat
  BY LevelIs
<1>1. /\ l \in Level /\ l < LastLevel /\ l + 1 = m /\ j \in 0 .. Pow2[l] - 1
      /\ {i, BuddyIndex(i)} = {2 * j, 2 * j + 1}
  BY <1>0, BuddyIs
<1>2. /\ this \in Block /\ left \in Block /\ right \in Block
      /\ Parent(left) = this /\ Parent(right) = this
  <2> HIDE DEF l, j
  <2>1. QED BY <1>1, HalvesAre
<1>3. /\ new[this] = "Free" /\ new[left] = "Invalid" /\ new[right] = "Invalid"
      /\ \A b \in Block : b # this /\ b # left /\ b # right => new[b] = st[b]
  BY DEF IsMergeOf
<1>4. (one = left /\ BuddyOf(one) = right) \/ (one = right /\ BuddyOf(one) = left)
  <2>1. (i = 2 * j /\ BuddyIndex(i) = 2 * j + 1) \/ (i = 2 * j + 1 /\ BuddyIndex(i) = 2 * j)
    <3>1. 2 * j # 2 * j + 1
      BY <1>0
    <3>2. QED BY <1>1, <3>1
  <2>2. QED BY <1>1, <2>1 DEF BuddyOf
<1>5. \A b \in Block : Pair(st, b) => b = one \/ b = BuddyOf(one)
  BY DEF OnlyPair
<1>6. st[left] = "Free" /\ st[right] = "Free"
  <2>1. st[one] = "Free" /\ st[BuddyOf(one)] = "Free"
    BY DEF BuddyOf
  <2>2. QED BY <1>4, <2>1
<1>7. left[1] > 0 /\ this[1] = l
  BY <1>0, <1>1
<1> HIDE DEF this, left, right, one, l, j
<1>8. st[this] = "Split"
  BY <1>2, <1>6, <1>7 DEF Tree
<1>9. ASSUME NEW b \in Block, Pair(new, b) PROVE b = this \/ b = BuddyOf(this)
  <2> SUFFICES ASSUME b # this, b # BuddyOf(this) PROVE FALSE
    OBVIOUS
  <2>1. BuddyOf(b) \in Block /\ BuddyOf(BuddyOf(b)) = b /\ b[1] > 0
        /\ new[b] = "Free" /\ new[BuddyOf(b)] = "Free"
    BY <1>9, BuddyOfIs DEF Pair
  <2>2. b # left /\ b # right /\ BuddyOf(b) # this /\ BuddyOf(b) # left /\ BuddyOf(b) # right
    BY <1>3, <2>1
  <2>3. Pair(st, b)
    BY <1>3, <2>1, <2>2 DEF Pair
  <2>4. QED BY <1>4, <1>5, <2>2, <2>3
<1>10. UsedOf(new) = UsedOf(st)
  <2>1. \A b \in Block : new[b] = "Used" <=> st[b] = "Used"
    BY <1>3, <1>6, <1>8
  <2>2. QED BY <2>1 DEF UsedOf
<1>11. OnlyPair(new, this)
  BY <1>9 DEF OnlyPair
<1>12. QED BY <1>10, <1>11 DEF this, l, j

LEMMA ChangePair ==
    ASSUME NEW st, NEW c \in Block, NEW status, NEW new, IsChangeOf(new, st, c, status)
    PROVE  /\ status = "Used" /\ OnlyPair(st, c) => NoPair(new)
           /\ NoPair(st) => OnlyPair(new, c)
           /\ status = "Used" => UsedOf(new) = UsedOf(st) \cup {c}
           /\ status # "Used" => UsedOf(new) = UsedOf(st) \ {c}
<1>1. new[c] = status /\ \A b \in Block : b # c => new[b] = st[b]
  BY DEF IsChangeOf
<1>2. ASSUME NEW b \in Block, Pair(new, b), b # c, b # BuddyOf(c) PROVE Pair(st, b)
  <2>1. BuddyOf(b) \in Block /\ BuddyOf(BuddyOf(b)) = b /\ b[1] > 0
        /\ new[b] = "Free" /\ new[BuddyOf(b)] = "Free"
    BY <1>2, BuddyOfIs DEF Pair
  <2>2. BuddyOf(b) # c
    BY <1>2, <2>1
  <2>3. QED BY <1>1, <1>2, <2>1, <2>2 DEF Pair
<1>3. ASSUME status = "Used", OnlyPair(st, c), NEW b \in Block, Pair(new, b) PROVE FALSE
  <2>1. BuddyOf(b) \in Block /\ BuddyOf(BuddyOf(b)) = b /\ b[1] > 0
        /\ new[b] = "Free" /\ new[BuddyOf(b)] = "Free"
    BY <1>3, BuddyOfIs DEF Pair
  <2>2. b # c /\ BuddyOf(b) # c
    BY <1>1, <1>3, <2>1
  <2>3. b # BuddyOf(c)
    <3>1. ASSUME b = BuddyOf(c) PROVE FALSE
      <4>1. c[1] > 0
        BY <2>1, <3>1 DEF BuddyOf
      <4>2. BuddyOf(BuddyOf(c)) = c
        BY <4>1, BuddyOfIs
      <4>3. QED BY <2>2, <3>1, <4>2
    <3>2. QED BY <3>1
  <2>4. Pair(st, b)
    BY <1>2, <1>3, <2>2, <2>3
  <2>5. QED BY <1>3, <2>2, <2>3, <2>4 DEF OnlyPair
<1>4. ASSUME NoPair(st) PROVE OnlyPair(new, c)
  BY <1>2, <1>4 DEF NoPair, OnlyPair
<1>5. QED BY <1>1, <1>3, <1>4 DEF NoPair, UsedOf

LEMMA NoPairIs ==
    ASSUME NEW st, NEW c
    PROVE  /\ NoPair(st) => OnlyPair(st, c)
           /\ OnlyPair(st, c) /\ ~ Pair(st, c) /\ ~ Pair(st, BuddyOf(c)) => NoPair(st)
BY DEF NoPair, OnlyPair

-----------------------------------------------------------------------------
(* alloc: the first block of each list is split, from one level down to    *)
(* another.                                                                *)

(* The first block of the list is free and, with its buddy, may be the     *)
(* only pair of free halves; U are the blocks in use.                      *)
FirstIsFree(h, l, U) ==
    /\ Good(h) /\ UsedOf(h.status) = U
    /\ \E i \in 0 .. Pow2[l] - 1 :
          /\ h.lists[l] = IndexToBlock(l, i) /\ h.status[<<l, i>>] = "Free"
          /\ OnlyPair(h.status, <<l, i>>)
Descending(U, target) ==
    {s \in [h : HeapType, level : Level] : s.level <= target /\ FirstIsFree(s.h, s.level, U)}

LEMMA FirstIs ==
    ASSUME KindOK, NEW h, Good(h), NoPair(h.status), NEW l \in Level, h.lists[l] # Null
    PROVE  FirstIsFree(h, l, UsedOf(h.status))
<1> DEFINE p == h.lists[l]
           i == BlockToIndex(l, p)
<1>1. p \in FreePointers(h.status)[l]
  <2>1. ListOf(Pointer, h.links, h.lists[l], FreePointers(h.status)[l])
    BY DEF Good, Listed
  <2>2. QED BY <2>1, NullIs, ListHead
<1>2. p \in Pointer /\ h.status[Around(l, p)] = "Free" /\ p = IndexToBlock(l, i)
  BY <1>1 DEF FreePointers, Begins
<1>3. i \in 0 .. Pow2[l] - 1 /\ Around(l, p) = <<l, i>>
  BY <1>2, AroundIs DEF Around
<1>4. OnlyPair(h.status, <<l, i>>)
  BY NoPairIs
<1> HIDE DEF i
<1>5. QED BY <1>2, <1>3, <1>4 DEF FirstIsFree

LEMMA SplitFirstStays ==
    ASSUME KindOK, NEW U, NEW target \in Level, NEW s \in Descending(U, target)
    PROVE  /\ SplitFirst(s, target) \in Descending(U, target)
           /\ s.level < target => SplitFirst(s, target).level = s.level + 1
<1>0. Level = 0 .. LastLevel /\ LastLevel \in Nat
  BY LevelIs
<1> DEFINE l == s.level
           h == s.h
<1>1. s = [h |-> h, level |-> l] /\ h \in HeapType /\ l \in Level /\ l <= target /\ FirstIsFree(h, l, U)
  BY DEF Descending
<1> HIDE DEF l, h
<1>2. CASE l = target
  <2>1. SplitFirst(s, target) = s
    BY <1>1, <1>2 DEF SplitFirst
  <2>2. s.level = l
    BY <1>1
  <2>3. QED BY <1>0, <1>2, <2>1, <2>2
<1>3. CASE l # target
  <2>1. l < LastLevel /\ l < target /\ l + 1 <= target /\ l + 1 \in Level
    BY <1>0, <1>1, <1>3
  <2>2. PICK i \in 0 .. Pow2[l] - 1 :
            /\ h.lists[l] = IndexToBlock(l, i) /\ h.status[<<l, i>>] = "Free"
            /\ OnlyPair(h.status, <<l, i>>)
    BY <1>1 DEF FirstIsFree
  <2>3. Good(h) /\ UsedOf(h.status) = U /\ Tree(h.status)
    BY <1>1 DEF FirstIsFree, Good
  <2> DEFINE g == Split(h, l, i)
  <2>4. SplitFirst(s, target) = [h |-> g, level |-> l + 1]
    <3>1. BlockToIndex(l, h.lists[l]) = i
      BY <1>1, <2>2, PointerIs
    <3>2. s.h = h /\ s.level = l
      BY <1>1
    <3>3. QED BY <1>3, <3>1, <3>2 DEF SplitFirst
  <2>5. Good(g) /\ IsSplitOf(g.status, h.status, l, i) /\ g.lists[l + 1] = IndexToBlock(l + 1, 2 * i)
    BY <1>1, <2>1, <2>2, <2>3, SplitGood
  <2> HIDE DEF g
  <2>6. OnlyPair(g.status, <<l + 1, 2 * i>>) /\ UsedOf(g.status) = U
    BY <1>1, <2>1, <2>2, <2>3, <2>5, SplitPair
  <2>7. 2 * i \in 0 .. Pow2[l + 1] - 1 /\ g.status[<<l + 1, 2 * i>>] = "Free"
    BY <1>1, <2>1, <2>5, FirstHalf DEF IsSplitOf
  <2>8. FirstIsFree(g, l + 1, U) /\ g \in HeapType
    BY <2>5, <2>6, <2>7 DEF FirstIsFree, Good, Listed
  <2>9. [h |-> g, level |-> l + 1] \in Descending(U, target)
    BY <2>1, <2>8 DEF Descending
  <2>10. s.level = l /\ [h |-> g, level |-> l + 1].level = l + 1
    BY <1>1
  <2>11. QED BY <2>4, <2>9, <2>10
<1>4. QED BY <1>2, <1>3

LEMMA SplitDownRuns ==
    ASSUME NEW l \in Nat, NEW target \in Nat, l <= target, NEW h, NEW V,
           [h |-> h, level |-> l] \in V, \A v \in V : SplitFirst(v, target) \in V
    PROVE  \E F \in [0 .. target - l -> V] :
              /\ F[0] = [h |-> h, level |-> l] /\ SplitDown(h, l, target) = F[target - l].h
              /\ \A k \in 1 .. target - l : F[k] = SplitFirst(F[k - 1], target)
<1> DEFINE n == target - l
           base == [h |-> h, level |-> l]
           seq == Up(l, target - 1)
           step == [x \in V \X (1 .. n) |-> SplitFirst(x[1], target)]
           Is(it) == it = [s \in SUBSET DOMAIN seq |->
                 IF s = {} THEN base ELSE SplitFirst(it[s \ {Max(s)}], target)]
           iter == CHOOSE it : Is(it)
<1>0. n \in Nat /\ DOMAIN seq = 1 .. n
  BY DEF Up
<1>1. SplitDown(h, l, target) = iter[DOMAIN seq].h
  BY DEF SplitDown, FoldLeft, MapThenFoldSet
<1> HIDE DEF seq, base
<1>2. \A v \in V, i \in 1 .. n : step[<<v, i>>] = SplitFirst(v, target) /\ step[<<v, i>>] \in V
  OBVIOUS
<1>b. base \in V
  BY DEF base
<1> HIDE DEF n, step
<1>3. PICK f : f \in [SUBSET (1 .. n) -> V] /\ Folds(f, SUBSET (1 .. n), base, step)
  BY <1>0, <1>2, <1>b, FoldExists
<1>4. Is(f)
  <2>1. ASSUME NEW s \in SUBSET (1 .. n), s # {} PROVE f[s] = SplitFirst(f[s \ {Max(s)}], target)
    <3>1. Max(s) \in 1 .. n /\ f[s \ {Max(s)}] \in V
      BY <1>0, <1>3, <2>1, MaxIn
    <3>2. f[s] = step[<<f[s \ {Max(s)}], Max(s)>>]
      BY <1>3, <2>1 DEF Folds
    <3>3. QED BY <1>2, <3>1, <3>2
  <2>2. \A s \in SUBSET DOMAIN seq :
            f[s] = IF s = {} THEN base ELSE SplitFirst(f[s \ {Max(s)}], target)
    BY <1>0, <1>3, <2>1 DEF Folds
  <2>3. f = [s \in SUBSET DOMAIN seq |-> f[s]]
    BY <1>0, <1>3
  <2>4. QED BY <2>2, <2>3
<1>5. Is(iter)
  <2> HIDE DEF Is
  <2>1. QED BY <1>4
<1>6. \A s \in SUBSET (1 .. n) : iter[s] = IF s = {} THEN base ELSE SplitFirst(iter[s \ {Max(s)}], target)
  BY <1>0, <1>5
<1> HIDE DEF iter, Is
<1>7. FoldsIn(iter, n, V, base, step)
  <2>1. ASSUME NEW s \in SUBSET (1 .. n), s # {}, iter[s \ {Max(s)}] \in V
        PROVE  iter[s] = step[<<iter[s \ {Max(s)}], Max(s)>>]
    <3>1. Max(s) \in 1 .. n
      BY <1>0, <2>1, MaxIn
    <3>2. QED BY <1>2, <1>6, <2>1, <3>1
  <2>2. iter[{}] = base
    BY <1>6
  <2>3. QED BY <2>1, <2>2 DEF FoldsIn
<1>8. PICK F : Runs(F, n, V, base, step, iter[1 .. n])
  BY <1>0, <1>2, <1>7, <1>b, FoldRuns
<1>9. F \in [0 .. n -> V] /\ F[0] = base /\ SplitDown(h, l, target) = F[n].h
  BY <1>0, <1>1, <1>8 DEF Runs
<1>10. ASSUME NEW k \in 1 .. n PROVE F[k] = SplitFirst(F[k - 1], target)
  <2>1. k - 1 \in 0 .. n
    BY <1>0
  <2>2. F[k - 1] \in V
    BY <1>9, <2>1
  <2>3. F[k] = step[<<F[k - 1], k>>]
    BY <1>8 DEF Runs
  <2>4. QED BY <1>2, <2>2, <2>3
<1>11. QED BY <1>9, <1>10 DEF n, base

LEMMA SplitDownGood ==
    ASSUME KindOK, NEW h, Good(h), NoPair(h.status), NEW l \in Level, NEW target \in Level,
           l <= target, h.lists[l] # Null
    PROVE  FirstIsFree(SplitDown(h, l, target), target, UsedOf(h.status))
<1> DEFINE U == UsedOf(h.status)
           n == target - l
           base == [h |-> h, level |-> l]
           V == Descending(U, target)
<1>0. Level = 0 .. LastLevel /\ LastLevel \in Nat /\ n \in Nat /\ l \in Nat /\ target \in Nat
  BY LevelIs
<1>1. base \in V
  <2>1. FirstIsFree(h, l, U) /\ h \in HeapType
    BY FirstIs DEF Good, Listed
  <2>2. QED BY <2>1 DEF Descending
<1>2. \A v \in V : SplitFirst(v, target) \in V /\ (v.level < target => SplitFirst(v, target).level = v.level + 1)
  BY SplitFirstStays
<1> HIDE DEF V
<1>3. PICK F \in [0 .. n -> V] :
          /\ F[0] = base /\ SplitDown(h, l, target) = F[n].h
          /\ \A k \in 1 .. n : F[k] = SplitFirst(F[k - 1], target)
  BY <1>0, <1>1, <1>2, SplitDownRuns
<1> DEFINE S == {k \in Nat : k <= n => F[k].level = l + k}
<1>4. n \in S
  <2>1. 0 \in S
    BY <1>0, <1>3
  <2>2. ASSUME NEW k \in Nat, k \in S PROVE k + 1 \in S
    <3>1. CASE k + 1 <= n
      <4>1. k + 1 \in 1 .. n /\ (k + 1) - 1 = k /\ k \in 0 .. n /\ l + k < target
        BY <1>0, <3>1
      <4>2. F[k].level = l + k /\ F[k] \in V /\ F[k + 1] = SplitFirst(F[k], target)
        BY <1>3, <2>2, <4>1
      <4>3. F[k + 1].level = (l + k) + 1
        BY <1>2, <4>1, <4>2
      <4>4. QED BY <1>0, <4>3
    <3>2. QED BY <3>1
  <2> HIDE DEF S
  <2>3. QED BY <1>0, <2>1, <2>2, SetInduction
<1>5. F[n].level = target /\ F[n] \in V
  BY <1>0, <1>3, <1>4
<1>6. FirstIsFree(F[n].h, target, U)
  BY <1>5 DEF V, Descending
<1>7. QED BY <1>3, <1>6

-----------------------------------------------------------------------------
(* free: a block is merged with its buddy for as long as that is free.     *)

Merging(U) ==
    {s \in [h : HeapType, level : Level, index : Nat, on : BOOLEAN] :
        /\ s.index \in 0 .. Pow2[s.level] - 1 /\ Good(s.h) /\ UsedOf(s.h.status) = U
        /\ s.h.status[<<s.level, s.index>>] = "Free" /\ OnlyPair(s.h.status, <<s.level, s.index>>)
        /\ s.on \/ NoPair(s.h.status)}

LEMMA MergeStepStays ==
    ASSUME KindOK, NEW U, NEW s \in Merging(U)
    PROVE  /\ MergeStep(s, 0) \in Merging(U)
           /\ MergeStep(s, 0).on => s.on /\ MergeStep(s, 0).level = s.level - 1
<1>0. Level = 0 .. LastLevel /\ LastLevel \in Nat
  BY LevelIs
<1> DEFINE l == s.level
           h == s.h
           i == s.index
           r == MergeStep(s, 0)
<1>1. /\ s = [h |-> h, level |-> l, index |-> i, on |-> s.on] /\ s.on \in BOOLEAN
      /\ h \in HeapType /\ l \in Level /\ i \in Nat
      /\ i \in 0 .. Pow2[l] - 1 /\ Good(h) /\ UsedOf(h.status) = U
      /\ h.status[<<l, i>>] = "Free" /\ OnlyPair(h.status, <<l, i>>)
      /\ s.on \/ NoPair(h.status)
  BY DEF Merging
<1>2. CASE ~ s.on \/ l = 0 \/ h.status[<<l, BuddyIndex(i)>>] # "Free"
  <2>1. r = [s EXCEPT !.on = FALSE]
    BY <1>2 DEF MergeStep
  <2> HIDE DEF r
  <2>2. /\ r \in [h : HeapType, level : Level, index : Nat, on : BOOLEAN]
        /\ r.h = s.h /\ r.level = s.level /\ r.index = s.index /\ r.on = FALSE
    <3>1. s \in [h : HeapType, level : Level, index : Nat, on : BOOLEAN]
      BY DEF Merging
    <3>2. QED BY <2>1, <3>1
  <2>3. NoPair(h.status)
    <3>1. CASE s.on
      <4>1. ~ Pair(h.status, <<l, i>>)
        BY <1>2, <3>1 DEF Pair, BuddyOf
      <4>2. ~ Pair(h.status, BuddyOf(<<l, i>>))
        <5>1. CASE l = 0
          BY <5>1 DEF Pair, BuddyOf
        <5>2. CASE l # 0
          BY <1>2, <3>1, <5>2 DEF Pair, BuddyOf
        <5>3. QED BY <5>1, <5>2
      <4> HIDE DEF h, l, i
      <4>3. QED BY <1>1, <4>1, <4>2, NoPairIs
    <3>2. QED BY <1>1, <3>1
  <2>4. r \in Merging(U)
    BY <1>1, <2>2, <2>3 DEF Merging
  <2>5. ~ r.on
    BY <2>2
  <2>6. QED BY <2>4, <2>5, Zenon DEF r
<1>3. CASE s.on /\ l # 0 /\ h.status[<<l, BuddyIndex(i)>>] = "Free"
  <2> DEFINE g == Merge(h, l, i)
             j == i \div 2
             k == l - 1
  <2>1. r = [h |-> g, level |-> k, index |-> j, on |-> TRUE]
    BY <1>3 DEF MergeStep
  <2> HIDE DEF h, l, i, r
  <2>2. l > 0 /\ h.status[<<l, BuddyIndex(i)>>] = "Free"
    BY <1>0, <1>1, <1>3
  <2>3. /\ Good(g) /\ k \in Level /\ j \in 0 .. Pow2[k] - 1
        /\ IsMergeOf(g.status, h.status, k, j)
    BY <1>1, <2>2, MergeGood
  <2>4. OnlyPair(g.status, <<k, j>>) /\ UsedOf(g.status) = U
    <3>1. Tree(h.status)
      BY <1>1 DEF Good
    <3>2. QED BY <1>1, <2>2, <2>3, <3>1, MergePair
  <2> HIDE DEF g, j, k
  <2>5. g \in HeapType /\ g.status[<<k, j>>] = "Free" /\ j \in Nat
    BY <2>3 DEF Good, Listed, IsMergeOf
  <2>6. [h |-> g, level |-> k, index |-> j, on |-> TRUE] \in Merging(U)
    BY <2>3, <2>4, <2>5 DEF Merging
  <2>7. r.level = k /\ s.level = l
    BY <2>1 DEF l
  <2>8. r \in Merging(U)
    BY <2>1, <2>6
  <2>9. r.level = s.level - 1 /\ s.on
    BY <1>3, <2>7 DEF k
  <2>10. r.on => s.on /\ r.level = s.level - 1
    BY <2>9
  <2>11. QED BY <2>8, <2>10, Zenon DEF r
<1>4. QED BY <1>2, <1>3

LEMMA MergeUpRuns ==
    ASSUME NEW n \in Nat, NEW i, NEW h, NEW V, NEW base,
           base = [h |-> h, level |-> n, index |-> i, on |-> TRUE],
           base \in V, \A v \in V : MergeStep(v, 0) \in V
    PROVE  \E F \in [0 .. n -> V] :
              /\ F[0] = base /\ MergeUp(h, n, i) = F[n].h
              /\ \A k \in 1 .. n : F[k] = MergeStep(F[k - 1], 0)
<1> DEFINE seq == Up(1, n)
           step == [x \in V \X (1 .. n) |-> MergeStep(x[1], 0)]
           Is(it) == it = [s \in SUBSET DOMAIN seq |->
                 IF s = {} THEN base ELSE MergeStep(it[s \ {Max(s)}], seq[Max(s)])]
           iter == CHOOSE it : Is(it)
<1>0. DOMAIN seq = 1 .. n
  BY DEF Up
<1>s. \A v, x : MergeStep(v, x) = MergeStep(v, 0)
  BY DEF MergeStep
<1>1. MergeUp(h, n, i) = iter[DOMAIN seq].h
  BY DEF MergeUp, FoldLeft, MapThenFoldSet
<1> HIDE DEF seq
<1>2. \A v \in V, k \in 1 .. n : step[<<v, k>>] = MergeStep(v, 0) /\ step[<<v, k>>] \in V
  OBVIOUS
<1> HIDE DEF step
<1>3. PICK f : f \in [SUBSET (1 .. n) -> V] /\ Folds(f, SUBSET (1 .. n), base, step)
  BY <1>0, <1>2, FoldExists
<1>4. Is(f)
  <2>1. ASSUME NEW s \in SUBSET (1 .. n), s # {} PROVE f[s] = MergeStep(f[s \ {Max(s)}], seq[Max(s)])
    <3>1. Max(s) \in 1 .. n /\ f[s \ {Max(s)}] \in V
      BY <1>0, <1>3, <2>1, MaxIn
    <3>2. f[s] = step[<<f[s \ {Max(s)}], Max(s)>>]
      BY <1>3, <2>1 DEF Folds
    <3>3. f[s] = MergeStep(f[s \ {Max(s)}], 0)
      BY <1>2, <3>1, <3>2
    <3>4. QED BY <1>s, <3>3
  <2>2. \A s \in SUBSET DOMAIN seq :
            f[s] = IF s = {} THEN base ELSE MergeStep(f[s \ {Max(s)}], seq[Max(s)])
    BY <1>0, <1>3, <2>1 DEF Folds
  <2>3. f = [s \in SUBSET DOMAIN seq |-> f[s]]
    BY <1>0, <1>3
  <2>4. QED BY <2>2, <2>3
<1>5. Is(iter)
  <2> HIDE DEF Is
  <2>1. QED BY <1>4
<1>6. \A s \in SUBSET (1 .. n) :
          iter[s] = IF s = {} THEN base ELSE MergeStep(iter[s \ {Max(s)}], seq[Max(s)])
  BY <1>0, <1>5
<1> HIDE DEF iter, Is
<1>7. FoldsIn(iter, n, V, base, step)
  <2>1. ASSUME NEW s \in SUBSET (1 .. n), s # {}, iter[s \ {Max(s)}] \in V
        PROVE  iter[s] = step[<<iter[s \ {Max(s)}], Max(s)>>]
    <3>1. Max(s) \in 1 .. n
      BY <1>0, <2>1, MaxIn
    <3>2. iter[s] = MergeStep(iter[s \ {Max(s)}], seq[Max(s)])
      BY <1>6, <2>1
    <3>3. iter[s] = MergeStep(iter[s \ {Max(s)}], 0)
      BY <1>s, <3>2
    <3>4. QED BY <1>2, <2>1, <3>1, <3>3
  <2>2. iter[{}] = base
    BY <1>6
  <2>3. QED BY <2>1, <2>2 DEF FoldsIn
<1>8. PICK F : Runs(F, n, V, base, step, iter[1 .. n])
  BY <1>0, <1>2, <1>7, FoldRuns
<1>9. F \in [0 .. n -> V] /\ F[0] = base /\ MergeUp(h, n, i) = F[n].h
  BY <1>0, <1>1, <1>8 DEF Runs
<1>10. ASSUME NEW k \in 1 .. n PROVE F[k] = MergeStep(F[k - 1], 0)
  <2>1. k - 1 \in 0 .. n
    BY <1>0
  <2>2. F[k - 1] \in V
    BY <1>9, <2>1
  <2>3. F[k] = step[<<F[k - 1], k>>]
    BY <1>8 DEF Runs
  <2>4. QED BY <1>2, <2>2, <2>3
<1>11. QED BY <1>9, <1>10

LEMMA MergeUpGood ==
    ASSUME KindOK, NEW h, Good(h), NEW l \in Level, NEW i \in 0 .. Pow2[l] - 1,
           h.status[<<l, i>>] = "Free", OnlyPair(h.status, <<l, i>>)
    PROVE  /\ Good(MergeUp(h, l, i)) /\ NoPair(MergeUp(h, l, i).status)
           /\ UsedOf(MergeUp(h, l, i).status) = UsedOf(h.status)
<1> DEFINE U == UsedOf(h.status)
           base == [h |-> h, level |-> l, index |-> i, on |-> TRUE]
           V == Merging(U)
<1>0. Level = 0 .. LastLevel /\ LastLevel \in Nat /\ l \in Nat /\ i \in Nat
  BY LevelIs
<1>1. base \in V
  <2>1. h \in HeapType
    BY DEF Good, Listed
  <2>2. QED BY <1>0, <2>1 DEF Merging
<1>2. \A v \in V : /\ MergeStep(v, 0) \in V
                   /\ MergeStep(v, 0).on => v.on /\ MergeStep(v, 0).level = v.level - 1
  BY MergeStepStays
<1>b. base.on /\ base.level = l
  OBVIOUS
<1>a. base = [h |-> h, level |-> l, index |-> i, on |-> TRUE]
  OBVIOUS
<1> HIDE DEF V, base
<1>3. PICK F \in [0 .. l -> V] :
          /\ F[0] = base /\ MergeUp(h, l, i) = F[l].h
          /\ \A k \in 1 .. l : F[k] = MergeStep(F[k - 1], 0)
  BY <1>0, <1>1, <1>2, <1>a, MergeUpRuns, SMTT(40)
<1> DEFINE S == {k \in Nat : k <= l => (F[k].on => F[k].level = l - k)}
<1>4. l \in S
  <2>1. 0 \in S
    BY <1>0, <1>3, <1>b
  <2>2. ASSUME NEW k \in Nat, k \in S PROVE k + 1 \in S
    <3>1. CASE k + 1 <= l /\ F[k + 1].on
      <4>1. k + 1 \in 1 .. l /\ (k + 1) - 1 = k /\ k \in 0 .. l
        BY <1>0, <3>1
      <4>2. F[k] \in V /\ F[k + 1] = MergeStep(F[k], 0)
        BY <1>3, <4>1
      <4>3. F[k].on /\ F[k + 1].level = F[k].level - 1
        BY <1>2, <3>1, <4>2
      <4>4. F[k].level = l - k
        BY <2>2, <4>1, <4>3
      <4>5. QED BY <1>0, <4>3, <4>4
    <3>2. QED BY <3>1
  <2> HIDE DEF S
  <2>3. QED BY <1>0, <2>1, <2>2, SetInduction
<1>5. F[l] \in V /\ (F[l].on => F[l].level = 0)
  BY <1>0, <1>3, <1>4
<1> DEFINE s == F[l]
<1>6. Good(s.h) /\ UsedOf(s.h.status) = U /\ OnlyPair(s.h.status, <<s.level, s.index>>)
      /\ (s.on \/ NoPair(s.h.status))
  BY <1>5 DEF V, Merging
<1>7. NoPair(s.h.status)
  <2>1. CASE s.on
    <3>1. s.level = 0
      BY <1>5, <2>1
    <3>2. ~ Pair(s.h.status, <<0, s.index>>) /\ ~ Pair(s.h.status, BuddyOf(<<0, s.index>>))
      BY DEF Pair, BuddyOf
    <3>3. QED BY <1>6, <3>1, <3>2, NoPairIs
  <2>2. QED BY <1>6, <2>1
<1>8. QED BY <1>3, <1>6, <1>7

-----------------------------------------------------------------------------
(* reserve: a free block is split until the range lies in no half of it,   *)
(* and is taken; then the block next to it.                                *)

Narrowing(U) ==
    {s \in [h : HeapType, level : Level, index : Nat] :
        /\ s.index \in 0 .. Pow2[s.level] - 1 /\ Good(s.h) /\ UsedOf(s.h.status) = U
        /\ s.h.status[<<s.level, s.index>>] = "Free"
        /\ OnlyPair(s.h.status, <<s.level, s.index>>)}

LEMMA NarrowStepStays ==
    ASSUME KindOK, NEW U, NEW r, NEW s \in Narrowing(U)
    PROVE  NarrowStep(s, r) \in Narrowing(U)
<1>0. Level = 0 .. LastLevel /\ LastLevel \in Nat
  BY LevelIs
<1> DEFINE l == s.level
           h == s.h
           i == s.index
           g == Split(h, l, i)
           right == AlignedStart(r) >= Address(l, i) + BlockSize(l) \div 2
           j == 2 * i + IF right THEN 1 ELSE 0
<1>1. /\ h \in HeapType /\ l \in Level /\ i \in Nat
      /\ i \in 0 .. Pow2[l] - 1 /\ Good(h) /\ UsedOf(h.status) = U
      /\ h.status[<<l, i>>] = "Free" /\ OnlyPair(h.status, <<l, i>>)
  BY DEF Narrowing
<1>2. \/ NarrowStep(s, r) = s
      \/ l # LastLevel /\ NarrowStep(s, r) = [h |-> g, level |-> l + 1, index |-> j]
  BY DEF NarrowStep
<1>3. CASE NarrowStep(s, r) = s
  BY <1>3
<1>4. CASE l # LastLevel /\ NarrowStep(s, r) = [h |-> g, level |-> l + 1, index |-> j]
  <2>1. j = 2 * i \/ j = 2 * i + 1
    <3> HIDE DEF right, i
    <3>1. QED BY <1>1
  <2> HIDE DEF h, l, i, j
  <2>2. l < LastLevel
    BY <1>0, <1>1, <1>4
  <2>3. Good(g) /\ IsSplitOf(g.status, h.status, l, i)
    BY <1>1, <2>2, SplitGood
  <2> HIDE DEF g
  <2>4. /\ OnlyPair(g.status, <<l + 1, 2 * i>>) /\ OnlyPair(g.status, <<l + 1, 2 * i + 1>>)
        /\ UsedOf(g.status) = U
    <3>1. Tree(h.status)
      BY <1>1 DEF Good
    <3>2. QED BY <1>1, <2>2, <2>3, <3>1, SplitPair
  <2>5. /\ l + 1 \in Level /\ 2 * i \in 0 .. Pow2[l + 1] - 1 /\ 2 * i + 1 \in 0 .. Pow2[l + 1] - 1
        /\ g.status[<<l + 1, 2 * i>>] = "Free" /\ g.status[<<l + 1, 2 * i + 1>>] = "Free"
    BY <1>1, <2>2, <2>3, FirstHalf DEF IsSplitOf
  <2>6. /\ j \in 0 .. Pow2[l + 1] - 1 /\ j \in Nat /\ g.status[<<l + 1, j>>] = "Free"
        /\ OnlyPair(g.status, <<l + 1, j>>)
    BY <1>1, <2>1, <2>4, <2>5
  <2>7. g \in HeapType
    BY <2>3 DEF Good, Listed
  <2>8. [h |-> g, level |-> l + 1, index |-> j] \in Narrowing(U)
    BY <2>3, <2>4, <2>5, <2>6, <2>7 DEF Narrowing
  <2>9. QED BY <1>4, <2>8
<1>5. QED BY <1>2, <1>3, <1>4

LEMMA NarrowedIn ==
    ASSUME NEW l \in Nat, NEW n \in Nat, n = LastLevel - l, LastLevel \in Nat,
           NEW r, NEW h, NEW i, NEW V,
           NEW base \in V, base = [h |-> h, level |-> l, index |-> i],
           \A v \in V : NarrowStep(v, r) \in V
    PROVE  Narrowed(h, r, l, i) \in V
<1> DEFINE seq == Up(l, LastLevel - 1)
           step == [x \in V \X (1 .. n) |-> NarrowStep(x[1], r)]
           Is(it) == it = [s \in SUBSET DOMAIN seq |->
                 IF s = {} THEN base ELSE NarrowStep(it[s \ {Max(s)}], r)]
           iter == CHOOSE it : Is(it)
<1>0. DOMAIN seq = 1 .. n
  BY DEF Up
<1>1. Narrowed(h, r, l, i) = iter[DOMAIN seq]
  BY DEF Narrowed, FoldLeft, MapThenFoldSet
<1> HIDE DEF seq
<1>2. \A v \in V, k \in 1 .. n : step[<<v, k>>] = NarrowStep(v, r) /\ step[<<v, k>>] \in V
  OBVIOUS
<1> HIDE DEF step
<1>3. PICK f : f \in [SUBSET (1 .. n) -> V] /\ Folds(f, SUBSET (1 .. n), base, step)
  BY <1>0, <1>2, FoldExists
<1>4. Is(f)
  <2>1. ASSUME NEW s \in SUBSET (1 .. n), s # {} PROVE f[s] = NarrowStep(f[s \ {Max(s)}], r)
    <3>1. Max(s) \in 1 .. n /\ f[s \ {Max(s)}] \in V
      BY <1>0, <1>3, <2>1, MaxIn
    <3>2. f[s] = step[<<f[s \ {Max(s)}], Max(s)>>]
      BY <1>3, <2>1 DEF Folds
    <3>3. QED BY <1>2, <3>1, <3>2
  <2>2. \A s \in SUBSET DOMAIN seq :
            f[s] = IF s = {} THEN base ELSE NarrowStep(f[s \ {Max(s)}], r)
    BY <1>0, <1>3, <2>1 DEF Folds
  <2>3. f = [s \in SUBSET DOMAIN seq |-> f[s]]
    BY <1>0, <1>3
  <2>4. QED BY <2>2, <2>3
<1>5. Is(iter)
  <2> HIDE DEF Is
  <2>1. QED BY <1>4
<1>6. \A s \in SUBSET (1 .. n) : iter[s] = IF s = {} THEN base ELSE NarrowStep(iter[s \ {Max(s)}], r)
  BY <1>0, <1>5
<1> HIDE DEF iter, Is
<1>7. FoldsIn(iter, n, V, base, step)
  <2>1. ASSUME NEW s \in SUBSET (1 .. n), s # {}, iter[s \ {Max(s)}] \in V
        PROVE  iter[s] = step[<<iter[s \ {Max(s)}], Max(s)>>]
    <3>1. Max(s) \in 1 .. n
      BY <1>0, <2>1, MaxIn
    <3>2. QED BY <1>2, <1>6, <2>1, <3>1
  <2>2. iter[{}] = base
    BY <1>6
  <2>3. QED BY <2>1, <2>2 DEF FoldsIn
<1>8. PICK F : Runs(F, n, V, base, step, iter[1 .. n])
  BY <1>0, <1>2, <1>7, FoldRuns
<1>9. F \in [0 .. n -> V] /\ Narrowed(h, r, l, i) = F[n]
  BY <1>0, <1>1, <1>8 DEF Runs
<1>10. QED BY <1>9

LEMMA NarrowedGood ==
    ASSUME KindOK, NEW h, Good(h), NEW l \in Level, NEW i \in 0 .. Pow2[l] - 1, NEW r,
           h.status[<<l, i>>] = "Free", OnlyPair(h.status, <<l, i>>)
    PROVE  Narrowed(h, r, l, i) \in Narrowing(UsedOf(h.status))
<1> DEFINE V == Narrowing(UsedOf(h.status))
           base == [h |-> h, level |-> l, index |-> i]
<1>0. Level = 0 .. LastLevel /\ LastLevel \in Nat /\ l \in Nat /\ i \in Nat /\ LastLevel - l \in Nat
  BY LevelIs
<1>1. base \in V
  <2>1. h \in HeapType
    BY DEF Good, Listed
  <2>2. QED BY <1>0, <2>1 DEF Narrowing
<1>2. \A v \in V : NarrowStep(v, r) \in V
  BY NarrowStepStays
<1>3. PICK n \in Nat : n = LastLevel - l
  BY <1>0
<1> HIDE DEF V, base
<1>4. Narrowed(h, r, l, i) \in V
  BY <1>0, <1>1, <1>2, <1>3, NarrowedIn DEF base
<1>5. QED BY <1>4 DEF V

(* Blocks that were in use stay in use.                                    *)
Reserving(U) ==
    {s \in [h : HeapType, address : Nat, done : BOOLEAN] :
        /\ Good(s.h) /\ NoPair(s.h.status) /\ U \subseteq UsedOf(s.h.status)
        /\ s.done \/ s.address < MaxSize}

LEMMA ReserveStepStays ==
    ASSUME KindOK, PointersFit, NEW U, NEW r, NEW s \in Reserving(U)
    PROVE  ReserveStep(s, r) \in Reserving(U)
<1> DEFINE h == s.h
           a == s.address
           l == CHOOSE k \in FreeLevels(h, a) : TRUE
           i == BlockToIndex(l, AddressToBlock(a))
           w == Narrowed(h, r, l, i)
           p == IndexToBlock(w.level, w.index)
           g == ReserveBlock(w.h, w.level, p)
           next == a + BlockSize(l)
<1>1. /\ s \in [h : HeapType, address : Nat, done : BOOLEAN]
      /\ h \in HeapType /\ a \in Nat /\ Good(h) /\ NoPair(h.status) /\ U \subseteq UsedOf(h.status)
      /\ s.done \/ a < MaxSize
  BY DEF Reserving
<1>2. \/ ReserveStep(s, r) = [s EXCEPT !.done = TRUE]
      \/ /\ ~ s.done /\ FreeLevels(h, a) # {}
         /\ ReserveStep(s, r) = [h |-> g, address |-> next, done |-> next >= MaxSize]
  BY DEF ReserveStep
<1>3. CASE ReserveStep(s, r) = [s EXCEPT !.done = TRUE]
  <2> DEFINE q == ReserveStep(s, r)
  <2> HIDE DEF q
  <2>0. q = [s EXCEPT !.done = TRUE]
    BY <1>3 DEF q
  <2> HIDE DEF h, a
  <2>1. /\ q \in [h : HeapType, address : Nat, done : BOOLEAN]
        /\ q.h = s.h /\ q.address = s.address /\ q.done = TRUE
    BY <1>1, <2>0
  <2>2. q \in Reserving(U)
    BY <1>1, <2>1 DEF Reserving, h, a
  <2>3. QED BY <2>2 DEF q
<1>4. CASE /\ ~ s.done /\ FreeLevels(h, a) # {}
           /\ ReserveStep(s, r) = [h |-> g, address |-> next, done |-> next >= MaxSize]
  <2>1. a \in 0 .. MaxSize - 1 /\ MaxSize \in Nat
    BY <1>1, <1>4, BlockSizeIs
  <2>2. AddressToBlock(a) \in Pointer
    BY <2>1, AddressPoints
  <2>3. l \in Level /\ h.status[Around(l, AddressToBlock(a))] = "Free"
    <3>1. l \in FreeLevels(h, a)
      BY <1>4
    <3>2. QED BY <3>1 DEF FreeLevels
  <2> HIDE DEF h, a, l
  <2>4. i \in 0 .. Pow2[l] - 1 /\ h.status[<<l, i>>] = "Free"
    BY <2>2, <2>3, AroundIs DEF Around
  <2>5. OnlyPair(h.status, <<l, i>>)
    BY <1>1, NoPairIs
  <2> HIDE DEF i
  <2>6. w \in Narrowing(UsedOf(h.status))
    BY <1>1, <2>3, <2>4, <2>5, NarrowedGood
  <2> HIDE DEF w
  <2>7. /\ w.level \in Level /\ w.index \in 0 .. Pow2[w.level] - 1 /\ Good(w.h)
        /\ UsedOf(w.h.status) = UsedOf(h.status)
        /\ w.h.status[<<w.level, w.index>>] = "Free" /\ OnlyPair(w.h.status, <<w.level, w.index>>)
    BY <2>6 DEF Narrowing
  <2>8. Good(g) /\ IsChangeOf(g.status, w.h.status, <<w.level, w.index>>, "Used")
    BY <2>7, ReserveGood
  <2> HIDE DEF g, p
  <2>9. <<w.level, w.index>> \in Block
    BY <2>7, BlockIs
  <2>10. NoPair(g.status) /\ U \subseteq UsedOf(g.status)
    BY <1>1, <2>7, <2>8, <2>9, ChangePair
  <2>11. next \in Nat
    <3>1. BlockSize(l) \in Nat
      <4>1. PICK v : Widths(v) /\ (\A k \in Level : BlockSize(k) = v[k])
        BY BytesAre
      <4>2. QED BY <2>3, <4>1 DEF Widths
    <3>2. QED BY <2>1, <3>1
  <2> HIDE DEF next
  <2>12. g \in HeapType
    BY <2>8 DEF Good, Listed
  <2>13. [h |-> g, address |-> next, done |-> next >= MaxSize] \in Reserving(U)
    <3>1. CASE next >= MaxSize
      <4>1. [h |-> g, address |-> next, done |-> TRUE] \in Reserving(U)
        BY <2>8, <2>10, <2>11, <2>12 DEF Reserving
      <4>2. (next >= MaxSize) = TRUE
        BY <3>1
      <4>3. QED BY <4>1, <4>2
    <3>2. CASE ~ (next >= MaxSize)
      <4>1. next < MaxSize
        BY <2>1, <2>11, <3>2
      <4>2. [h |-> g, address |-> next, done |-> FALSE] \in Reserving(U)
        BY <2>8, <2>10, <2>11, <2>12, <4>1 DEF Reserving
      <4>3. (next >= MaxSize) = FALSE
        BY <3>2
      <4>4. QED BY <4>2, <4>3
    <3>3. QED BY <3>1, <3>2
  <2>14. QED BY <1>4, <2>13
<1>5. QED BY <1>2, <1>3, <1>4

LEMMA ReservedRuns ==
    ASSUME NEW n \in Nat, n = Pow2[LastLevel] + 1,
           NEW r, NEW h, NEW V,
           NEW base \in V, base = [h |-> h, address |-> AlignedStart(r), done |-> FALSE],
           \A v \in V : ReserveStep(v, r) \in V
    PROVE  \E F \in [0 .. n -> V] :
              /\ F[0] = base /\ Reserved(h, r) = F[n].h
              /\ \A k \in 1 .. n : F[k] = ReserveStep(F[k - 1], r)
<1> DEFINE seq == Up(0, Pow2[LastLevel])
           step == [x \in V \X (1 .. n) |-> ReserveStep(x[1], r)]
           Is(it) == it = [s \in SUBSET DOMAIN seq |->
                 IF s = {} THEN base ELSE ReserveStep(it[s \ {Max(s)}], r)]
           iter == CHOOSE it : Is(it)
<1>0. DOMAIN seq = 1 .. n
  <2>1. PICK m \in Nat : m = Pow2[LastLevel]
    BY LevelIs
  <2>2. QED BY <2>1 DEF Up
<1>1. Reserved(h, r) = iter[DOMAIN seq].h
  BY DEF Reserved, FoldLeft, MapThenFoldSet
<1> HIDE DEF seq
<1>2. \A v \in V, k \in 1 .. n : step[<<v, k>>] = ReserveStep(v, r) /\ step[<<v, k>>] \in V
  OBVIOUS
<1> HIDE DEF step
<1>3. PICK f : f \in [SUBSET (1 .. n) -> V] /\ Folds(f, SUBSET (1 .. n), base, step)
  BY <1>0, <1>2, FoldExists
<1>4. Is(f)
  <2>1. ASSUME NEW s \in SUBSET (1 .. n), s # {} PROVE f[s] = ReserveStep(f[s \ {Max(s)}], r)
    <3>1. Max(s) \in 1 .. n /\ f[s \ {Max(s)}] \in V
      BY <1>0, <1>3, <2>1, MaxIn
    <3>2. f[s] = step[<<f[s \ {Max(s)}], Max(s)>>]
      BY <1>3, <2>1 DEF Folds
    <3>3. QED BY <1>2, <3>1, <3>2
  <2>2. \A s \in SUBSET DOMAIN seq :
            f[s] = IF s = {} THEN base ELSE ReserveStep(f[s \ {Max(s)}], r)
    BY <1>0, <1>3, <2>1 DEF Folds
  <2>3. f = [s \in SUBSET DOMAIN seq |-> f[s]]
    BY <1>0, <1>3
  <2>4. QED BY <2>2, <2>3
<1>5. Is(iter)
  <2> HIDE DEF Is
  <2>1. QED BY <1>4
<1>6. \A s \in SUBSET (1 .. n) : iter[s] = IF s = {} THEN base ELSE ReserveStep(iter[s \ {Max(s)}], r)
  BY <1>0, <1>5
<1> HIDE DEF iter, Is
<1>7. FoldsIn(iter, n, V, base, step)
  <2>1. ASSUME NEW s \in SUBSET (1 .. n), s # {}, iter[s \ {Max(s)}] \in V
        PROVE  iter[s] = step[<<iter[s \ {Max(s)}], Max(s)>>]
    <3>1. Max(s) \in 1 .. n
      BY <1>0, <2>1, MaxIn
    <3>2. QED BY <1>2, <1>6, <2>1, <3>1
  <2>2. iter[{}] = base
    BY <1>6
  <2>3. QED BY <2>1, <2>2 DEF FoldsIn
<1>8. PICK F : Runs(F, n, V, base, step, iter[1 .. n])
  BY <1>0, <1>2, <1>7, FoldRuns
<1>9. F \in [0 .. n -> V] /\ F[0] = base /\ Reserved(h, r) = F[n].h
  BY <1>0, <1>1, <1>8 DEF Runs
<1>10. ASSUME NEW k \in 1 .. n PROVE F[k] = ReserveStep(F[k - 1], r)
  <2>1. F[k - 1] \in V
    <3>1. k - 1 \in 0 .. n
      OBVIOUS
    <3>2. QED BY <1>9, <3>1
  <2>2. F[k] = step[<<F[k - 1], k>>]
    BY <1>8 DEF Runs
  <2>3. QED BY <1>2, <2>1, <2>2
<1>11. QED BY <1>9, <1>10

LEMMA ReservedGood ==
    ASSUME KindOK, PointersFit, NEW h, Good(h), NoPair(h.status), NEW r \in Reservable
    PROVE  /\ Good(Reserved(h, r)) /\ NoPair(Reserved(h, r).status)
           /\ UsedOf(h.status) \subseteq UsedOf(Reserved(h, r).status)
<1> DEFINE V == Reserving(UsedOf(h.status))
           base == [h |-> h, address |-> AlignedStart(r), done |-> FALSE]
<1>1. base \in V
  <2>1. h \in HeapType
    BY DEF Good, Listed
  <2>2. AlignedStart(r) \in Nat /\ AlignedStart(r) < MaxSize
    <3>1. PICK s \in Nat, n \in Nat \ {0}, m \in Nat, f \in Nat \ {0} :
              s = r.start /\ n = r.len /\ m = MaxSize /\ f = FreeBlockSize /\ s + n <= m
      BY BuddyAssumption, BlockSizeIs
    <3>2. s - (s % f) \in Nat /\ s - (s % f) <= s
      BY ONLY s \in Nat, f \in Nat \ {0}
    <3>3. AlignedStart(r) \in {s, s - (s % f)}
      BY <3>1 DEF AlignedStart
    <3>4. s < m
      BY <3>1
    <3>5. \A x \in {s, s - (s % f)} : x \in Nat /\ x < m
      BY <3>1, <3>2, <3>4
    <3>6. QED BY <3>1, <3>3, <3>5
  <2> HIDE DEF base
  <2>3. base \in [h : HeapType, address : Nat, done : BOOLEAN] /\ base.h = h /\ base.address < MaxSize
    BY <2>1, <2>2 DEF base
  <2>4. QED BY <2>3 DEF Reserving
<1>2. \A v \in V : ReserveStep(v, r) \in V
  BY ReserveStepStays
<1>3. PICK n \in Nat : n = Pow2[LastLevel] + 1
  <2>1. PICK m \in Nat : m = Pow2[LastLevel]
    BY LevelIs
  <2>2. QED BY <2>1
<1> HIDE DEF V
<1>4. PICK v \in V : Reserved(h, r) = v.h
  <2>1. PICK F \in [0 .. n -> V] : Reserved(h, r) = F[n].h
    BY <1>1, <1>2, <1>3, ReservedRuns
  <2>2. F[n] \in V
    OBVIOUS
  <2>3. QED BY <2>1, <2>2
<1>5. QED BY <1>4 DEF V, Reserving

-----------------------------------------------------------------------------
(* The inductive invariant.  What a client holds is a block that is in     *)
(* use, so that free finds that block and no other.                        *)

IsBlockOf(b, a) == b[1] = SizeToLevel(a.size) /\ a.start = Address(b[1], b[2])
AllocsHeld(st) ==
    /\ \A a \in allocs : a.size \in Sizes /\ a.size <= MaxSize /\ \E b \in UsedOf(st) : IsBlockOf(b, a)
    /\ \A a, c \in allocs : a.start = c.start => a = c

BuddyInv ==
    /\ KindOK /\ PointersFit /\ Good(ba) /\ NoPair(ba.status) /\ AllocsHeld(ba.status)
    /\ refused \subseteq Reservable \cup [start : {Null}, len : Sizes]

LEMMA SizeToLevelIs ==
    ASSUME NEW size \in Nat, size <= MaxSize
    PROVE  SizeToLevel(size) \in Level /\ BlockSize(SizeToLevel(size)) = RoundedSize(size)
<1>1. PICK w : Widths(w) /\ (\A l \in Level : BlockSize(l) = w[l]) /\ w[0] = MaxSize
  BY BytesAre
<1> DEFINE S == {BlockSize(l) : l \in Level}
           Fits == {s \in S : s >= size}
           Is(s) == s >= size /\ \A l \in Level : BlockSize(l) >= size => s <= BlockSize(l)
<1>2. \A l \in Level : BlockSize(l) \in Nat
  BY <1>1 DEF Widths
<1>3. BlockSize(0) \in Fits /\ Fits \in SUBSET Nat
  <2>1. 0 \in Level
    BY LevelIs
  <2>2. BlockSize(0) = MaxSize /\ MaxSize \in Nat
    BY <1>1, <2>1, BlockSizeIs
  <2>3. QED BY <1>2, <2>1, <2>2
<1>4. PICK s \in Fits : \A y \in Fits : s <= y
  BY <1>3, MinIn
<1>5. s \in S /\ Is(s)
  BY <1>4
<1>6. RoundedSize(size) \in S
  <2>1. RoundedSize(size) = CHOOSE x \in S : Is(x)
    BY DEF RoundedSize
  <2> HIDE DEF S, Is
  <2>2. QED BY <1>5, <2>1
<1>7. QED BY <1>6 DEF SizeToLevel

(* Two blocks that nothing divides do not begin at the same place.         *)
LEMMA OnePlace ==
    ASSUME KindOK, PointersFit, NEW st, Tree(st), NEW b \in Block, NEW c \in Block,
           IsLeaf(st[b]), IsLeaf(st[c]), Address(b[1], b[2]) = Address(c[1], c[2])
    PROVE  b = c
<1>1. /\ b = <<b[1], b[2]>> /\ b[1] \in Level /\ b[2] \in 0 .. Pow2[b[1]] - 1
      /\ c = <<c[1], c[2]>> /\ c[1] \in Level /\ c[2] \in 0 .. Pow2[c[1]] - 1
  BY BlockIs
<1> DEFINE p == AddressToBlock(Address(b[1], b[2]))
<1>2. p = IndexToBlock(b[1], b[2]) /\ p = IndexToBlock(c[1], c[2])
  BY <1>1, AddressIs
<1>3. p \in Pointer /\ Around(b[1], p) = b /\ Around(c[1], p) = c
  BY <1>1, <1>2, PointerIs, PointerTells
<1> HIDE DEF p
<1>4. b[1] = c[1]
  BY <1>1, <1>3, OneLeaf
<1>5. QED BY <1>3, <1>4

LEMMA EmptyList == ASSUME NEW P, NEW L PROVE ListOf(P, L, Null, {})
<1>1. Linked(P, L, Null, <<>>) /\ {} = {<<>>[i] : i \in 1 .. Len(<<>>)}
  BY DEF Linked
<1>2. QED BY <1>1 DEF ListOf

LEMMA InitGood == BuddyInit => Good(ba) /\ NoPair(ba.status)
<1> SUFFICES ASSUME BuddyInit PROVE Good(ba) /\ NoPair(ba.status)
  OBVIOUS
<1> DEFINE st == [b \in Block |-> IF b = <<0, 0>> THEN "Free" ELSE "Invalid"]
           empty == [status |-> st, lists |-> [l \in Level |-> Null],
                     links |-> [p \in Pointer |-> Unlinked], phase |-> "run"]
           F == [l \in Level |-> {}]
<1>1. KindOK /\ ba = Push(empty, 0, 0)
  BY DEF BuddyInit, KindOK
<1>2. st \in [Block -> Status]
  BY DEF Status
<1>3. Listed(empty, F)
  <2>1. [p \in Pointer |-> Unlinked] \in LinksOf(Pointer)
    BY DEF LinksOf, Unlinked
  <2> HIDE DEF st
  <2>2. empty \in HeapType
    BY <1>2, <2>1 DEF HeapType
  <2>3. \A l \in Level : ListOf(Pointer, empty.links, empty.lists[l], F[l])
    BY EmptyList
  <2>4. QED BY <2>2, <2>3 DEF Listed
<1>4. 0 \in Level /\ Level = 0 .. LastLevel /\ LastLevel \in Nat /\ Pow2[0] = 1
  BY LevelIs
<1>5. 0 \in Pointer /\ IndexToBlock(0, 0) = 0
  <2>1. PICK w : Widths(w) /\ (\A k \in Level : Span(k) = w[k]) /\ Pointer = 0 .. w[0] - 1
    BY <1>1, SpansAre
  <2>2. PICK n \in Nat \ {0} : n = w[0]
    BY <1>4, <2>1 DEF Widths
  <2>3. 0 * n = 0 /\ IndexToBlock(0, 0) = 0 * n
    BY <1>4, <2>1, <2>2 DEF IndexToBlock
  <2>4. QED BY <2>1, <2>2, <2>3
<1> HIDE DEF empty
<1>6. Relisted(ba, empty, With(F, 0, 0))
  BY <1>1, <1>3, <1>4, <1>5, PushLists
<1>7. ba.status = st /\ ba.phase = "run" /\ Listed(ba, With(F, 0, 0))
  BY <1>6 DEF Relisted, empty
<1>8. FreePointers(st) = With(F, 0, 0)
  <2>1. ASSUME NEW l \in Level, NEW p \in Pointer
        PROVE  (st[Around(l, p)] = "Free" /\ Begins(l, p)) <=> (l = 0 /\ p = 0)
    <3>1. Around(l, p) = <<l, BlockToIndex(l, p)>> /\ Around(l, p) \in Block
          /\ BlockToIndex(l, p) \in 0 .. Pow2[l] - 1
      BY <1>1, AroundIs DEF Around
    <3>2. st[Around(l, p)] = "Free" <=> Around(l, p) = <<0, 0>>
      BY <3>1
    <3>3. CASE l = 0
      <4>1. BlockToIndex(l, p) = 0
        BY <1>4, <3>1, <3>3
      <4>2. Begins(l, p) <=> p = 0
        BY <1>5, <3>3, <4>1 DEF Begins
      <4>3. QED BY <3>1, <3>2, <3>3, <4>1, <4>2
    <3>4. CASE l # 0
      BY <3>1, <3>2, <3>4
    <3>5. QED BY <3>3, <3>4
  <2> HIDE DEF st
  <2>2. FreePointers(st) = [l \in Level |-> IF l = 0 THEN {0} ELSE {}]
    <3>1. ASSUME NEW l \in Level
          PROVE  {p \in Pointer : st[Around(l, p)] = "Free" /\ Begins(l, p)} = IF l = 0 THEN {0} ELSE {}
      BY <1>5, <2>1
    <3>2. QED BY <3>1 DEF FreePointers
  <2>3. With(F, 0, 0) = [l \in Level |-> IF l = 0 THEN {0} ELSE {}]
    BY <1>4 DEF With
  <2>4. QED BY <2>2, <2>3
<1>9. Tree(st) /\ NoPair(st)
  <2>1. st[<<0, 0>>] = "Free" /\ \A b \in Block : b # <<0, 0>> => st[b] = "Invalid"
    BY RootIs
  <2> HIDE DEF st
  <2>2. ASSUME NEW b \in Block, b[1] > 0 PROVE st[b] = "Invalid" /\ st[Parent(b)] # "Split"
    <3>1. b # <<0, 0>> /\ Parent(b) \in Block
      BY <2>2, ParentIs
    <3>2. QED BY <2>1, <3>1
  <2>3. QED BY <1>2, <2>1, <2>2 DEF Tree, NoPair, Pair
<1>10. QED BY <1>7, <1>8, <1>9 DEF Good

LEMMA BuddyStarts == BuddyInit /\ PointersFit => BuddyInv
BY InitGood DEF BuddyInit, BuddyInv, KindOK, AllocsHeld

(* alloc either refuses, if there is no free block of the size or of more, *)
(* or takes a block that was not in use.                                   *)
Refuses(size) ==
    /\ size > MaxSize \/ \A l \in 0 .. SizeToLevel(size) : ba.lists[l] = Null
    /\ refused' = {[start |-> Null, len |-> size]} /\ UNCHANGED <<ba, allocs>>
Takes(c, size) ==
    /\ size <= MaxSize /\ c[1] = SizeToLevel(size)
    /\ Good(ba') /\ NoPair(ba'.status)
    /\ c \notin UsedOf(ba.status) /\ UsedOf(ba'.status) = UsedOf(ba.status) \cup {c}
    /\ allocs' = allocs \cup {[start |-> Address(c[1], c[2]), size |-> size]}
    /\ refused' = {}

LEMMA AllocDoes ==
    ASSUME BuddyInv, NEW size \in Sizes, Alloc(size)
    PROVE  Refuses(size) \/ \E c \in Block : Takes(c, size)
<1> DEFINE target == SizeToLevel(size)
           nonEmpty == {l \in 0 .. target : ba.lists[l] # Null}
           level == CHOOSE l \in nonEmpty : \A k \in nonEmpty : k <= l
           split == SplitDown(ba, level, target)
           block == split.lists[target]
           start == Address(target, BlockToIndex(target, block))
<1>1. KindOK /\ PointersFit /\ Good(ba) /\ NoPair(ba.status) /\ AllocsHeld(ba.status)
  BY DEF BuddyInv
<1>2. CASE /\ size > MaxSize \/ nonEmpty = {}
           /\ refused' = {[start |-> Null, len |-> size]} /\ UNCHANGED <<ba, allocs>>
  BY <1>2 DEF Refuses
<1>3. CASE /\ size <= MaxSize /\ nonEmpty # {}
           /\ ba' = ReserveBlock(split, target, block)
           /\ allocs' = allocs \cup {[start |-> start, size |-> size]}
           /\ refused' = {}
  <2>1. target \in Level /\ Level = 0 .. LastLevel /\ LastLevel \in Nat
    <3>1. size \in Nat
      BY BuddyAssumption
    <3>2. QED BY <1>3, <3>1, SizeToLevelIs, LevelIs
  <2> HIDE DEF target
  <2>2. level \in nonEmpty
    <3>1. \E l \in nonEmpty : \A k \in nonEmpty : k <= l
      <4> DEFINE S == {target - l : l \in nonEmpty}
      <4>1. S \in SUBSET Nat /\ S # {}
        BY <1>3, <2>1
      <4>2. PICK s \in S : \A y \in S : s <= y
        BY <4>1, MinIn
      <4>3. PICK l \in nonEmpty : s = target - l
        BY <4>2
      <4>4. ASSUME NEW k \in nonEmpty PROVE k <= l
        <5>1. target - k \in S
          OBVIOUS
        <5>2. target - l <= target - k
          BY <4>2, <4>3, <5>1
        <5>3. k \in Nat /\ l \in Nat /\ target \in Nat
          BY <2>1
        <5>4. QED BY <5>2, <5>3
      <4>5. QED BY <4>4
    <3> HIDE DEF nonEmpty
    <3>2. QED BY <3>1
  <2>3. level \in Level /\ level <= target /\ ba.lists[level] # Null
    BY <2>1, <2>2
  <2> HIDE DEF level, nonEmpty
  <2>4. FirstIsFree(split, target, UsedOf(ba.status))
    BY <1>1, <2>1, <2>3, SplitDownGood
  <2> HIDE DEF split, block
  <2>5. PICK i \in 0 .. Pow2[target] - 1 :
            /\ block = IndexToBlock(target, i) /\ split.status[<<target, i>>] = "Free"
            /\ OnlyPair(split.status, <<target, i>>)
    BY <2>4 DEF FirstIsFree, block
  <2>6. Good(split) /\ UsedOf(split.status) = UsedOf(ba.status)
    BY <2>4 DEF FirstIsFree
  <2>7. BlockToIndex(target, block) = i /\ <<target, i>> \in Block
    BY <1>1, <2>1, <2>5, PointerIs, BlockIs
  <2>8. /\ Good(ba') /\ IsChangeOf(ba'.status, split.status, <<target, i>>, "Used")
    BY <1>1, <1>3, <2>1, <2>5, <2>6, ReserveGood
  <2>9. NoPair(ba'.status) /\ UsedOf(ba'.status) = UsedOf(ba.status) \cup {<<target, i>>}
    BY <2>5, <2>6, <2>7, <2>8, ChangePair
  <2> DEFINE c == <<target, i>>
  <2>10. start = Address(c[1], c[2]) /\ c[1] = target /\ c \in Block
    BY <2>7
  <2>11. c \notin UsedOf(ba.status)
    BY <2>5, <2>6 DEF UsedOf
  <2> HIDE DEF c, start
  <2>12. allocs' = allocs \cup {[start |-> Address(c[1], c[2]), size |-> size]}
    BY <1>3, <2>10
  <2>13. c[1] = SizeToLevel(size)
    BY <2>10 DEF target
  <2>14. UsedOf(ba'.status) = UsedOf(ba.status) \cup {c}
    BY <2>9 DEF c
  <2>15. Takes(c, size)
    BY <1>3, <2>8, <2>9, <2>11, <2>12, <2>13, <2>14 DEF Takes
  <2>16. QED BY <2>10, <2>15
<1>4. QED
  <2>1. size \in Nat /\ MaxSize \in Nat
    BY BuddyAssumption, BlockSizeIs
  <2>2. \/ /\ size > MaxSize \/ nonEmpty = {}
           /\ refused' = {[start |-> Null, len |-> size]} /\ UNCHANGED <<ba, allocs>>
        \/ /\ ~ (size > MaxSize) /\ nonEmpty # {}
           /\ ba' = ReserveBlock(split, target, block)
           /\ allocs' = allocs \cup {[start |-> start, size |-> size]}
           /\ refused' = {}
    BY DEF Alloc
  <2> HIDE DEF start, block, split, nonEmpty, level, target
  <2>3. QED BY <1>2, <1>3, <2>1, <2>2

LEMMA AllocKeeps ==
    ASSUME BuddyInv, NEW size \in Sizes, Alloc(size)
    PROVE  /\ Good(ba') /\ NoPair(ba'.status) /\ AllocsHeld(ba.status)'
           /\ refused' \subseteq Reservable \cup [start : {Null}, len : Sizes]
<1>1. KindOK /\ PointersFit /\ Good(ba) /\ NoPair(ba.status) /\ AllocsHeld(ba.status)
  BY DEF BuddyInv
<1>2. CASE Refuses(size)
  BY <1>1, <1>2 DEF AllocsHeld, Refuses
<1>3. CASE \E c \in Block : Takes(c, size)
  <2>1. PICK c \in Block : Takes(c, size)
    BY <1>3
  <2> DEFINE start == Address(c[1], c[2])
             new == [start |-> start, size |-> size]
  <2>2. /\ size <= MaxSize /\ c[1] = SizeToLevel(size) /\ Good(ba') /\ NoPair(ba'.status)
        /\ c \notin UsedOf(ba.status) /\ UsedOf(ba'.status) = UsedOf(ba.status) \cup {c}
        /\ allocs' = allocs \cup {new} /\ refused' = {}
    BY <2>1 DEF Takes
  <2>3. new.start = start /\ new.size = size /\ start = Address(c[1], c[2])
    OBVIOUS
  <2> HIDE DEF new, start
  <2>4. ASSUME NEW a \in allocs PROVE a.start # start
    <3>1. PICK b \in UsedOf(ba.status) : IsBlockOf(b, a)
      BY <1>1 DEF AllocsHeld
    <3>2. b \in Block /\ ba'.status[b] = "Used" /\ c \in Block /\ ba'.status[c] = "Used" /\ b # c
      <4>1. b \in UsedOf(ba'.status) /\ c \in UsedOf(ba'.status) /\ b # c
        BY <2>2, <3>1
      <4>2. QED BY <4>1 DEF UsedOf
    <3>3. Tree(ba'.status)
      BY <2>2 DEF Good
    <3>4. a.start = start => b = c
      BY <1>1, <2>3, <3>1, <3>2, <3>3, OnePlace DEF IsLeaf, IsBlockOf
    <3>5. QED BY <3>2, <3>4
  <2>5. AllocsHeld(ba.status)'
    <3>1. ASSUME NEW a \in allocs'
          PROVE  a.size \in Sizes /\ a.size <= MaxSize /\ \E b \in UsedOf(ba'.status) : IsBlockOf(b, a)
      <4>1. CASE a = new
        <5>1. c \in UsedOf(ba'.status) /\ IsBlockOf(c, a)
          BY <2>2, <2>3, <4>1 DEF IsBlockOf
        <5>2. QED BY <2>2, <2>3, <4>1, <5>1
      <4>2. CASE a \in allocs
        BY <1>1, <2>2, <4>2 DEF AllocsHeld
      <4>3. QED BY <2>2, <4>1, <4>2
    <3>2. ASSUME NEW a \in allocs', NEW d \in allocs', a.start = d.start PROVE a = d
      BY <1>1, <2>2, <2>3, <2>4, <3>2 DEF AllocsHeld
    <3>3. QED BY <3>1, <3>2 DEF AllocsHeld
  <2>6. QED BY <2>2, <2>5
<1>4. QED BY <1>2, <1>3, AllocDoes

(* free gives back the block of the allocation.                            *)
GivesBack(b, a) ==
    /\ IsBlockOf(b, a)
    /\ Good(ba') /\ NoPair(ba'.status) /\ UsedOf(ba'.status) = UsedOf(ba.status) \ {b}
    /\ allocs' = allocs \ {a} /\ refused' = {}

LEMMA FreeDoes ==
    ASSUME BuddyInv, NEW a \in allocs, Free(a)
    PROVE  \E b \in UsedOf(ba.status) : GivesBack(b, a)
<1> DEFINE p == AddressToBlock(a.start)
           used == {l \in Level : ba.status[Around(l, p)] = "Used"}
           level == IF used = {} THEN 0 ELSE CHOOSE l \in used : \A k \in used : k <= l
           index == BlockToIndex(level, p)
           listed == Marked(Push(ba, level, p), level, index, "Free")
<1>1. KindOK /\ PointersFit /\ Good(ba) /\ NoPair(ba.status) /\ AllocsHeld(ba.status)
  BY DEF BuddyInv
<1>0. PICK b \in UsedOf(ba.status) : IsBlockOf(b, a)
  BY <1>1 DEF AllocsHeld
<1>2. a.start = Address(b[1], b[2])
  BY <1>0 DEF IsBlockOf
<1>3. b = <<b[1], b[2]>> /\ b \in Block /\ ba.status[b] = "Used" /\ b[1] \in Level /\ b[2] \in 0 .. Pow2[b[1]] - 1
  BY <1>2, BlockIs DEF UsedOf
<1>4. Tree(ba.status)
  BY <1>1 DEF Good
<1>5. /\ p = IndexToBlock(b[1], b[2]) /\ p \in Pointer
      /\ BlockToIndex(b[1], p) = b[2] /\ Around(b[1], p) = b
  <2>1. p = IndexToBlock(b[1], b[2])
    BY <1>1, <1>2, <1>3, AddressIs
  <2> HIDE DEF p
  <2>2. QED BY <1>1, <1>3, <2>1, PointerIs, PointerTells
<1>6. ba' = MergeUp(listed, level, index) /\ allocs' = allocs \ {a} /\ refused' = {}
  BY <1>5 DEF Free, Freed
<1> HIDE DEF p
<1>7. used = {b[1]}
  <2>1. b[1] \in used
    BY <1>3, <1>5
  <2>2. ASSUME NEW l \in used PROVE l = b[1]
    BY <1>1, <1>3, <1>4, <1>5, OneLeaf DEF IsLeaf
  <2> HIDE DEF used
  <2>3. QED BY <2>1, <2>2
<1>8. level = b[1]
  <2>1. b[1] \in Nat
    BY <1>3, LevelIs
  <2> HIDE DEF used
  <2>2. level = CHOOSE l \in {b[1]} : \A k \in {b[1]} : k <= l
    BY <1>7
  <2>3. \E l \in {b[1]} : \A k \in {b[1]} : k <= l
    BY <2>1
  <2> HIDE DEF level
  <2>4. QED BY <2>2, <2>3
<1> HIDE DEF level
<1>9. index = b[2]
  BY <1>5, <1>8
<1> HIDE DEF index
<1>10. Good(listed) /\ IsChangeOf(listed.status, ba.status, b, "Free")
  <2>1. ba.status[<<b[1], b[2]>>] = "Used"
    BY <1>3
  <2>2. /\ Good(Marked(Push(ba, b[1], p), b[1], b[2], "Free"))
        /\ IsChangeOf(Marked(Push(ba, b[1], p), b[1], b[2], "Free").status, ba.status, <<b[1], b[2]>>, "Free")
    BY <1>1, <1>3, <1>5, <2>1, ListGood
  <2>3. QED BY <1>3, <1>8, <1>9, <2>2
<1> HIDE DEF listed
<1>11. /\ listed.status[b] = "Free" /\ OnlyPair(listed.status, b)
       /\ UsedOf(listed.status) = UsedOf(ba.status) \ {b}
  <2>1. "Free" # "Used"
    OBVIOUS
  <2>2. OnlyPair(listed.status, b)
    BY ONLY <1>1, <1>3, <1>10, ChangePair
  <2>3. UsedOf(listed.status) = UsedOf(ba.status) \ {b}
    BY ONLY <1>3, <1>10, <2>1 DEF UsedOf, IsChangeOf
  <2>4. QED BY <1>10, <2>2, <2>3 DEF IsChangeOf
<1>12. Good(ba') /\ NoPair(ba'.status) /\ UsedOf(ba'.status) = UsedOf(ba.status) \ {b}
  <2>1. listed.status[<<b[1], b[2]>>] = "Free" /\ OnlyPair(listed.status, <<b[1], b[2]>>)
    BY <1>3, <1>11
  <2>2. ba' = MergeUp(listed, b[1], b[2])
    BY <1>6, <1>8, <1>9
  <2>3. QED BY <1>1, <1>3, <1>10, <1>11, <2>1, <2>2, MergeUpGood
<1>13. QED BY <1>0, <1>6, <1>12 DEF GivesBack

LEMMA FreeKeeps ==
    ASSUME BuddyInv, NEW a \in allocs, Free(a)
    PROVE  Good(ba') /\ NoPair(ba'.status) /\ AllocsHeld(ba.status)' /\ refused' = {}
<1>1. AllocsHeld(ba.status)
  BY DEF BuddyInv
<1>2. PICK b \in UsedOf(ba.status) : GivesBack(b, a)
  BY FreeDoes
<1>3. /\ a.start = Address(b[1], b[2]) /\ Good(ba') /\ NoPair(ba'.status)
      /\ UsedOf(ba'.status) = UsedOf(ba.status) \ {b} /\ allocs' = allocs \ {a} /\ refused' = {}
  BY <1>2 DEF GivesBack, IsBlockOf
<1>4. ASSUME NEW c \in allocs'
      PROVE  c.size \in Sizes /\ c.size <= MaxSize /\ \E d \in UsedOf(ba'.status) : IsBlockOf(d, c)
  <2>1. c \in allocs /\ c # a
    BY <1>3
  <2>2. PICK d \in UsedOf(ba.status) : IsBlockOf(d, c)
    BY <1>1, <2>1 DEF AllocsHeld
  <2>3. d # b
    BY <1>1, <1>3, <2>1, <2>2 DEF AllocsHeld, IsBlockOf
  <2>4. QED BY <1>1, <1>3, <2>1, <2>2, <2>3 DEF AllocsHeld
<1>5. ASSUME NEW c \in allocs', NEW d \in allocs', c.start = d.start PROVE c = d
  BY <1>1, <1>3, <1>5 DEF AllocsHeld
<1>6. AllocsHeld(ba.status)'
  BY <1>4, <1>5 DEF AllocsHeld
<1>7. QED BY <1>3, <1>6

LEMMA ReserveKeeps ==
    ASSUME BuddyInv, NEW r \in Reservable, Reserve(r)
    PROVE  /\ Good(ba') /\ NoPair(ba'.status) /\ AllocsHeld(ba.status)'
           /\ refused' \subseteq Reservable \cup [start : {Null}, len : Sizes]
<1>1. KindOK /\ PointersFit /\ Good(ba) /\ NoPair(ba.status) /\ AllocsHeld(ba.status)
  BY DEF BuddyInv
<1>2. CASE refused' = {r} /\ UNCHANGED <<ba, allocs>>
  BY <1>1, <1>2 DEF AllocsHeld
<1>3. CASE ba' = Reserved(ba, r) /\ refused' = {} /\ UNCHANGED allocs
  <2>1. Good(ba') /\ NoPair(ba'.status) /\ UsedOf(ba.status) \subseteq UsedOf(ba'.status)
    BY <1>1, <1>3, ReservedGood
  <2>2. AllocsHeld(ba.status)'
    BY <1>1, <1>3, <2>1 DEF AllocsHeld
  <2>3. QED BY <1>3, <2>1, <2>2
<1>4. QED BY <1>2, <1>3 DEF Reserve

(* Nothing about the blocks changes while the kind does not.               *)
LEMMA GoodStays == kind' = kind /\ Good(ba') => Good(ba)'
<1> SUFFICES ASSUME kind' = kind, Good(ba') PROVE Good(ba)'
  OBVIOUS
<1>1. Pointer' = Pointer
  BY DEF Pointer
<1>2. HeapType' = HeapType
  BY <1>1 DEF HeapType
<1>3. FreePointers(ba.status)' = FreePointers(ba'.status)
  <2>1. \A l, i : IndexToBlock(l, i)' = IndexToBlock(l, i)
    BY DEF IndexToBlock, Span
  <2>2. \A l, p : BlockToIndex(l, p)' = BlockToIndex(l, p)
    BY DEF BlockToIndex, Span
  <2>3. \A l, p : Begins(l, p)' = Begins(l, p) /\ Around(l, p)' = Around(l, p)
    BY <2>1, <2>2 DEF Begins, Around
  <2>4. QED BY <1>1, <2>3 DEF FreePointers
<1>4. Listed(ba', FreePointers(ba'.status)) /\ Tree(ba'.status) /\ ba'.phase = "run"
  BY DEF Good
<1>5. Listed(ba, FreePointers(ba.status))'
  BY <1>1, <1>2, <1>3, <1>4 DEF Listed
<1>6. QED BY <1>4, <1>5 DEF Good

LEMMA BuddyStep == BuddyInv /\ [BuddyNext]_buddyVars => BuddyInv'
<1> SUFFICES ASSUME BuddyInv, [BuddyNext]_buddyVars PROVE BuddyInv'
  OBVIOUS
<1>1. CASE UNCHANGED buddyVars
  <2>1. kind' = kind /\ ba' = ba /\ allocs' = allocs /\ refused' = refused
    BY <1>1 DEF buddyVars
  <2>2. Good(ba') /\ NoPair(ba'.status) /\ AllocsHeld(ba.status)'
    BY <2>1 DEF BuddyInv, AllocsHeld
  <2>3. Good(ba)'
    BY <2>1, <2>2, GoodStays
  <2>4. QED BY <2>1, <2>2, <2>3 DEF BuddyInv, KindOK, PointersFit
<1>2. CASE BuddyNext
  <2>1. kind' = kind
    BY <1>2 DEF BuddyNext
  <2>2. /\ Good(ba') /\ NoPair(ba'.status) /\ AllocsHeld(ba.status)'
        /\ refused' \subseteq Reservable \cup [start : {Null}, len : Sizes]
    BY <1>2, AllocKeeps, FreeKeeps, ReserveKeeps DEF BuddyNext
  <2>3. Good(ba)'
    BY <2>1, <2>2, GoodStays
  <2>4. KindOK' /\ PointersFit'
    BY <2>1 DEF BuddyInv, KindOK, PointersFit
  <2>5. QED BY <2>2, <2>3, <2>4 DEF BuddyInv
<1>3. QED BY <1>1, <1>2

-----------------------------------------------------------------------------
(* A list, walked along its links.                                         *)

LEMMA WalkRuns ==
    ASSUME NEW n \in Nat, n = Pow2[LastLevel] + 1, NEW l, NEW V,
           NEW base \in V, base = <<ba.lists[l]>>, \A v \in V : WalkStep(v, 0) \in V
    PROVE  \E F \in [0 .. n -> V] :
              /\ F[0] = base /\ WalkOf(l) = F[n]
              /\ \A k \in 1 .. n : F[k] = WalkStep(F[k - 1], 0)
<1> DEFINE seq == Up(0, Pow2[LastLevel])
           step == [x \in V \X (1 .. n) |-> WalkStep(x[1], 0)]
           Is(it) == it = [s \in SUBSET DOMAIN seq |->
                 IF s = {} THEN base ELSE WalkStep(it[s \ {Max(s)}], seq[Max(s)])]
           iter == CHOOSE it : Is(it)
<1>0. DOMAIN seq = 1 .. n
  <2>1. PICK m \in Nat : m = Pow2[LastLevel]
    BY LevelIs
  <2>2. QED BY <2>1 DEF Up
<1>s. \A v, x : WalkStep(v, x) = WalkStep(v, 0)
  BY DEF WalkStep
<1>1. WalkOf(l) = iter[DOMAIN seq]
  BY DEF WalkOf, FoldLeft, MapThenFoldSet
<1> HIDE DEF seq
<1>2. \A v \in V, k \in 1 .. n : step[<<v, k>>] = WalkStep(v, 0) /\ step[<<v, k>>] \in V
  OBVIOUS
<1> HIDE DEF step
<1>3. PICK f : f \in [SUBSET (1 .. n) -> V] /\ Folds(f, SUBSET (1 .. n), base, step)
  BY <1>0, <1>2, FoldExists
<1>4. Is(f)
  <2>1. ASSUME NEW s \in SUBSET (1 .. n), s # {} PROVE f[s] = WalkStep(f[s \ {Max(s)}], seq[Max(s)])
    <3>1. Max(s) \in 1 .. n /\ f[s \ {Max(s)}] \in V
      BY <1>0, <1>3, <2>1, MaxIn
    <3>2. f[s] = step[<<f[s \ {Max(s)}], Max(s)>>]
      BY <1>3, <2>1 DEF Folds
    <3>3. f[s] = WalkStep(f[s \ {Max(s)}], 0)
      BY <1>2, <3>1, <3>2
    <3>4. QED BY <1>s, <3>3
  <2>2. \A s \in SUBSET DOMAIN seq :
            f[s] = IF s = {} THEN base ELSE WalkStep(f[s \ {Max(s)}], seq[Max(s)])
    BY <1>0, <1>3, <2>1 DEF Folds
  <2>3. f = [s \in SUBSET DOMAIN seq |-> f[s]]
    BY <1>0, <1>3
  <2>4. QED BY <2>2, <2>3
<1>5. Is(iter)
  <2> HIDE DEF Is
  <2>1. QED BY <1>4
<1>6. \A s \in SUBSET (1 .. n) :
          iter[s] = IF s = {} THEN base ELSE WalkStep(iter[s \ {Max(s)}], seq[Max(s)])
  BY <1>0, <1>5
<1> HIDE DEF iter, Is
<1>7. FoldsIn(iter, n, V, base, step)
  <2>1. ASSUME NEW s \in SUBSET (1 .. n), s # {}, iter[s \ {Max(s)}] \in V
        PROVE  iter[s] = step[<<iter[s \ {Max(s)}], Max(s)>>]
    <3>1. Max(s) \in 1 .. n
      BY <1>0, <2>1, MaxIn
    <3>2. iter[s] = WalkStep(iter[s \ {Max(s)}], seq[Max(s)])
      BY <1>6, <2>1
    <3>3. iter[s] = WalkStep(iter[s \ {Max(s)}], 0)
      BY <1>s, <3>2
    <3>4. QED BY <1>2, <2>1, <3>1, <3>3
  <2>2. iter[{}] = base
    BY <1>6
  <2>3. QED BY <2>1, <2>2 DEF FoldsIn
<1>8. PICK F : Runs(F, n, V, base, step, iter[1 .. n])
  BY <1>0, <1>2, <1>7, FoldRuns
<1>9. F \in [0 .. n -> V] /\ F[0] = base /\ WalkOf(l) = F[n]
  BY <1>0, <1>1, <1>8 DEF Runs
<1>10. ASSUME NEW k \in 1 .. n PROVE F[k] = WalkStep(F[k - 1], 0)
  <2>1. k - 1 \in 0 .. n
    BY <1>0
  <2>2. F[k - 1] \in V
    BY <1>9, <2>1
  <2>3. F[k] = step[<<F[k - 1], k>>]
    BY <1>8 DEF Runs
  <2>4. QED BY <1>2, <2>2, <2>3
<1>11. QED BY <1>9, <1>10

Prefix(q, k) == [i \in 1 .. k |-> q[i]]

LEMMA PrefixIs ==
    ASSUME NEW S, NEW q \in Seq(S), NEW k \in 1 .. Len(q)
    PROVE  /\ Prefix(q, k) \in Seq(S) /\ Last(Prefix(q, k)) = q[k]
           /\ k < Len(q) => Append(Prefix(q, k), q[k + 1]) = Prefix(q, k + 1)
           /\ Prefix(q, Len(q)) = q
<1>1. \A i \in 1 .. Len(q) : q[i] \in S
  BY ElementOfSeq
<1>2. Prefix(q, k) \in Seq(S) /\ Len(Prefix(q, k)) = k /\ Prefix(q, k)[k] = q[k]
  BY <1>1 DEF Prefix
<1>3. Last(Prefix(q, k)) = q[k]
  BY <1>2 DEF Last
<1>4. ASSUME k < Len(q) PROVE Append(Prefix(q, k), q[k + 1]) = Prefix(q, k + 1)
  BY <1>1, <1>4 DEF Prefix
<1>5. Prefix(q, Len(q)) = q
  BY DEF Prefix
<1>6. QED BY <1>2, <1>3, <1>4, <1>5

LEMMA WalkIs ==
    ASSUME KindOK, NEW l \in Level, NEW s, Linked(Pointer, ba.links, ba.lists[l], s),
           Len(s) <= Pow2[LastLevel]
    PROVE  WalkOf(l) = Append(s, Null)
<1> DEFINE m == Len(s)
           full == Append(s, Null)
           S == Pointer \cup {Null}
           V == {Prefix(full, k) : k \in 1 .. m + 1}
           base == <<ba.lists[l]>>
<1>1. s \in Seq(Pointer) /\ m \in Nat /\ ba.lists[l] = (IF m = 0 THEN Null ELSE s[1])
  BY DEF Linked
<1>2. \A k \in 1 .. m : s[k] \in Pointer /\ s[k] # Null
                        /\ ba.links[s[k]].next = IF k = m THEN Null ELSE s[k + 1]
  BY <1>1, NullIs, ElementOfSeq DEF Linked
<1>3. /\ full \in Seq(S) /\ Len(full) = m + 1 /\ full[m + 1] = Null
      /\ \A k \in 1 .. m : full[k] = s[k]
  <2>1. s \in Seq(S) /\ Null \in S
    <3>1. \A k \in 1 .. m : s[k] \in S
      BY <1>2
    <3> HIDE DEF S
    <3>2. s = [k \in 1 .. m |-> s[k]]
      BY <1>1
    <3>3. s \in [1 .. m -> S]
      BY <3>1, <3>2
    <3>4. QED BY <1>1, <3>3 DEF S
  <2> HIDE DEF S
  <2>2. QED BY <2>1, AppendProperties
<1> HIDE DEF full, S
<1>4. base = Prefix(full, 1)
  <2>1. full[1] = ba.lists[l]
    <3>1. CASE m = 0
      BY <1>1, <1>3, <3>1
    <3>2. CASE m # 0
      BY <1>1, <1>3, <3>2
    <3>3. QED BY <3>1, <3>2
  <2>2. QED BY <2>1 DEF Prefix
<1>5. ASSUME NEW k \in 1 .. m
      PROVE  WalkStep(Prefix(full, k), 0) = Prefix(full, k + 1)
  <2>1. k \in 1 .. Len(full) /\ k < Len(full)
    BY <1>1, <1>3
  <2>2. Last(Prefix(full, k)) = s[k] /\ Append(Prefix(full, k), full[k + 1]) = Prefix(full, k + 1)
    BY <1>3, <2>1, PrefixIs
  <2>3. ba.links[s[k]].next = full[k + 1]
    <3>1. CASE k = m
      BY <1>2, <1>3, <3>1
    <3>2. CASE k # m
      <4>1. k + 1 \in 1 .. m
        BY <1>1, <3>2
      <4>2. QED BY <1>2, <1>3, <3>2, <4>1
    <3>3. QED BY <3>1, <3>2
  <2>4. QED BY <1>2, <2>2, <2>3 DEF WalkStep
<1>6. WalkStep(Prefix(full, m + 1), 0) = Prefix(full, m + 1)
  <2>1. m + 1 \in 1 .. Len(full)
    BY <1>1, <1>3
  <2>2. Last(Prefix(full, m + 1)) = Null
    BY <1>3, <2>1, PrefixIs
  <2>3. QED BY <2>2 DEF WalkStep
<1>7. \A v \in V : WalkStep(v, 0) \in V
  <2>1. ASSUME NEW k \in 1 .. m + 1 PROVE WalkStep(Prefix(full, k), 0) \in V
    <3>1. CASE k = m + 1
      BY <1>1, <1>6, <3>1
    <3>2. CASE k # m + 1
      <4>1. k \in 1 .. m /\ k + 1 \in 1 .. m + 1
        BY <1>1, <3>2
      <4>2. QED BY <1>5, <4>1
    <3>3. QED BY <3>1, <3>2
  <2>2. QED BY <2>1
<1>8. base \in V
  BY <1>1, <1>4
<1>9. PICK n \in Nat : n = Pow2[LastLevel] + 1 /\ m <= n
  <2>1. PICK q \in Nat : q = Pow2[LastLevel]
    BY LevelIs
  <2>2. QED BY <1>1, <2>1
<1>10. PICK F \in [0 .. n -> V] :
          /\ F[0] = base /\ WalkOf(l) = F[n]
          /\ \A k \in 1 .. n : F[k] = WalkStep(F[k - 1], 0)
  <2>1. base = <<ba.lists[l]>> /\ n = Pow2[LastLevel] + 1
    BY <1>9
  <2>2. PICK w : w = WalkOf(l)
    OBVIOUS
  <2> HIDE DEF V, base
  <2>3. QED BY <1>7, <1>8, <2>1, <2>2, WalkRuns, SMTT(40)
<1> DEFINE At(k) == IF k <= m THEN k + 1 ELSE m + 1
           T == {k \in Nat : k <= n => F[k] = Prefix(full, At(k))}
<1>11. n \in T
  <2>1. 0 \in T
    BY <1>1, <1>4, <1>10, SMTT(40)
  <2>2. ASSUME NEW k \in Nat, k \in T PROVE k + 1 \in T
    <3>1. CASE k + 1 <= n
      <4>1. k + 1 \in 1 .. n /\ (k + 1) - 1 = k /\ k <= n
        BY <1>9, <3>1
      <4>2. F[k] = Prefix(full, At(k)) /\ F[k + 1] = WalkStep(F[k], 0)
        BY <1>10, <2>2, <4>1
      <4>3. CASE k + 1 <= m
        <5>1. At(k) = k + 1 /\ At(k + 1) = (k + 1) + 1 /\ k + 1 \in 1 .. m
          BY <1>1, <4>3
        <5> HIDE DEF At
        <5>2. F[k + 1] = Prefix(full, At(k + 1))
          BY <1>5, <4>2, <5>1
        <5>3. QED BY <5>2
      <4>4. CASE ~ (k + 1 <= m)
        <5>1. At(k) = m + 1 /\ At(k + 1) = m + 1
          BY <1>1, <4>4
        <5> HIDE DEF At
        <5>2. F[k + 1] = Prefix(full, At(k + 1))
          BY <1>6, <4>2, <5>1
        <5>3. QED BY <5>2
      <4>5. QED BY <4>3, <4>4
    <3>2. QED BY <3>1
  <2> HIDE DEF T
  <2>3. QED BY <1>9, <2>1, <2>2, SetInduction
<1>12. At(n) = m + 1
  BY <1>1, <1>9
<1>13. WalkOf(l) = Prefix(full, m + 1)
  <2> HIDE DEF At
  <2>1. QED BY <1>9, <1>10, <1>11, <1>12
<1>14. Prefix(full, m + 1) = full
  <2>1. m + 1 \in 1 .. Len(full)
    BY <1>1, <1>3
  <2>2. QED BY <1>3, <2>1, PrefixIs
<1>15. QED BY <1>13, <1>14 DEF full

(* The free blocks of a level, as many as there are pointers to them.      *)
LEMMA FreeBlocksAre ==
    ASSUME KindOK, NEW st \in [Block -> Status], NEW l \in Level,
           NEW s \in Seq(Pointer), \A i, j \in 1 .. Len(s) : s[i] = s[j] => i = j,
           FreePointers(st)[l] = {s[i] : i \in 1 .. Len(s)},
           NEW free, free = {b \in Block : st[b] = "Free" /\ b[1] = l}
    PROVE  /\ Cardinality(free) = Len(s) /\ Len(s) <= Pow2[LastLevel]
           /\ {IndexToBlock(b[1], b[2]) : b \in free} = FreePointers(st)[l]
<1> DEFINE m == Len(s)
           f == [i \in 1 .. m |-> Around(l, s[i])]
<1>1. m \in Nat /\ \A i \in 1 .. m : s[i] \in Pointer
  BY ElementOfSeq
<1>2. ASSUME NEW p \in Pointer
      PROVE  Around(l, p) \in Block /\ Around(l, p) = <<l, BlockToIndex(l, p)>>
  BY <1>2, AroundIs DEF Around
<1>3. \A p \in FreePointers(st)[l] :
          /\ p \in Pointer /\ Around(l, p) \in free
          /\ p = IndexToBlock(Around(l, p)[1], Around(l, p)[2])
  <2>1. ASSUME NEW p \in FreePointers(st)[l]
        PROVE  /\ p \in Pointer /\ Around(l, p) \in free
               /\ p = IndexToBlock(Around(l, p)[1], Around(l, p)[2])
    <3>1. p \in Pointer /\ st[Around(l, p)] = "Free" /\ p = IndexToBlock(l, BlockToIndex(l, p))
      BY DEF FreePointers, Begins
    <3>2. Around(l, p) = <<l, BlockToIndex(l, p)>> /\ Around(l, p) \in Block
      BY <1>2, <3>1
    <3>3. Around(l, p)[1] = l /\ Around(l, p)[2] = BlockToIndex(l, p)
      BY <3>2
    <3>4. QED BY <3>1, <3>2, <3>3
  <2>2. QED BY <2>1
<1>4. ASSUME NEW b \in free
      PROVE  /\ IndexToBlock(b[1], b[2]) \in FreePointers(st)[l]
             /\ Around(l, IndexToBlock(b[1], b[2])) = b
  <2>1. b \in Block /\ b = <<b[1], b[2]>> /\ b[1] = l /\ b[2] \in 0 .. Pow2[l] - 1 /\ st[<<l, b[2]>>] = "Free"
    BY BlockIs
  <2>2. QED BY <2>1, FreePointersAre, PointerTells
<1>5. f \in Bijection(1 .. m, free)
  <2>1. f \in [1 .. m -> free]
    BY <1>3
  <2>2. ASSUME NEW i \in 1 .. m, NEW j \in 1 .. m, f[i] = f[j] PROVE i = j
    <3>1. s[i] = s[j]
      <4>1. s[i] \in FreePointers(st)[l] /\ s[j] \in FreePointers(st)[l]
        OBVIOUS
      <4>2. Around(l, s[i]) = Around(l, s[j])
        BY <2>2
      <4>3. QED BY <1>3, <4>1, <4>2
    <3>2. QED BY <3>1
  <2>3. ASSUME NEW b \in free PROVE \E i \in 1 .. m : f[i] = b
    <3>1. PICK i \in 1 .. m : s[i] = IndexToBlock(b[1], b[2])
      BY <1>4
    <3>2. f[i] = b
      BY <1>4, <3>1
    <3>3. QED BY <3>2
  <2> HIDE DEF f, m
  <2>4. QED BY <2>1, <2>2, <2>3 DEF Bijection, Injection, Surjection, IsInjective
<1>6. Cardinality(free) = m
  <2>1. ExistsBijection(1 .. m, free)
    BY <1>5 DEF ExistsBijection
  <2> HIDE DEF m
  <2>2. QED BY <1>1, <2>1, FS_CountingElements
<1>7. m <= Pow2[LastLevel]
  <2>1. PICK a \in Nat \ {0}, b \in Nat \ {0} : a = Pow2[l] /\ b = Pow2[LastLevel - l]
    BY LevelIs
  <2>2. a * b = Pow2[LastLevel]
    BY <2>1, PowSplits
  <2>3. a <= a * b
    BY ONLY a \in Nat \ {0}, b \in Nat \ {0}
  <2>4. m <= a
    <3> DEFINE g == [i \in 1 .. m |-> BlockToIndex(l, s[i])]
    <3>1. g \in [1 .. m -> 0 .. a - 1]
      BY <1>1, <2>1, AroundIs
    <3>2. ASSUME NEW i \in 1 .. m, NEW j \in 1 .. m, g[i] = g[j] PROVE i = j
      <4>1. s[i] \in FreePointers(st)[l] /\ s[j] \in FreePointers(st)[l]
        OBVIOUS
      <4>2. s[i] = IndexToBlock(l, g[i]) /\ s[j] = IndexToBlock(l, g[j])
        BY <4>1 DEF FreePointers, Begins
      <4>3. s[i] = s[j]
        BY <3>2, <4>2
      <4>4. QED BY <4>3
    <3>3. g \in Injection(1 .. m, 0 .. a - 1)
      <4> HIDE DEF g, m
      <4>1. QED BY <3>1, <3>2 DEF Injection, IsInjective
    <3>4. IsFiniteSet(0 .. a - 1) /\ Cardinality(0 .. a - 1) = a
      <4>1. 0 \in Int /\ a - 1 \in Int /\ (IF 0 > a - 1 THEN 0 ELSE (a - 1) - 0 + 1) = a
        OBVIOUS
      <4>2. QED BY ONLY <4>1, FS_Interval
    <3>5. IsFiniteSet(1 .. m) /\ Cardinality(1 .. m) = m
      <4>1. 1 \in Int /\ m \in Int /\ (IF 1 > m THEN 0 ELSE m - 1 + 1) = m
        BY <1>1
      <4>2. QED BY ONLY <4>1, FS_Interval
    <3> HIDE DEF g, m
    <3>6. QED BY <3>3, <3>4, <3>5, FS_Injection
  <2>5. QED BY <1>1, <2>2, <2>3, <2>4
<1>8. {IndexToBlock(b[1], b[2]) : b \in free} = FreePointers(st)[l]
  BY <1>3, <1>4
<1>9. QED BY <1>6, <1>7, <1>8

-----------------------------------------------------------------------------
(* The theorems, for any number of levels, any sizes and any ranges.       *)

LEMMA InvFits == BuddyInv => TreeFits
<1> SUFFICES ASSUME BuddyInv PROVE TreeFits
  OBVIOUS
<1>1. KindOK /\ PointersFit /\ Good(ba) /\ NoPair(ba.status) /\ AllocsHeld(ba.status)
  BY DEF BuddyInv
<1>2. Tree(ba.status) /\ ba \in HeapType /\ ba.phase = "run"
  BY <1>1 DEF Good, Listed
<1>3. \A a \in allocs : a.start \in 0 .. MaxSize - 1 /\ a.size \in Sizes
  <2>1. ASSUME NEW a \in allocs PROVE a.start \in 0 .. MaxSize - 1 /\ a.size \in Sizes
    <3>1. a.size \in Sizes
      BY <1>1 DEF AllocsHeld
    <3>2. PICK b \in UsedOf(ba.status) : a.start = Address(b[1], b[2])
      BY <1>1 DEF AllocsHeld, IsBlockOf
    <3>3. b[1] \in Level /\ b[2] \in 0 .. Pow2[b[1]] - 1
      BY BlockIs DEF UsedOf
    <3>4. QED BY <1>1, <3>1, <3>2, <3>3, AddressIs
  <2>2. QED BY <2>1
<1>4. BuddyTypeOK
  BY <1>1, <1>2, <1>3 DEF BuddyTypeOK, BuddyInv, KindOK, HeapType, LinksOf
<1>5. ASSUME NEW b \in Block, b[1] > 0
      PROVE  /\ ba.status[b] # "Invalid" <=> ba.status[<<b[1] - 1, b[2] \div 2>>] = "Split"
             /\ ~ (ba.status[b] = "Free" /\ ba.status[<<b[1], BuddyIndex(b[2])>>] = "Free")
  BY <1>1, <1>2, <1>5 DEF Tree, Parent, NoPair, Pair, BuddyOf
<1>6. ba.status[<<0, 0>>] # "Invalid" /\ \A b \in Block : ba.status[b] = "Split" => b[1] < LastLevel
  BY <1>2 DEF Tree
<1>7. QED BY <1>4, <1>5, <1>6 DEF TreeFits

LEMMA InvLists == BuddyInv => ListsHoldFreeBlocks
<1> SUFFICES ASSUME BuddyInv, NEW level \in Level
             PROVE  LET walk == WalkOf(level)
                        free == {b \in WithStatus("Free") : b[1] = level}
                    IN  /\ Last(walk) = Null /\ Len(walk) = Cardinality(free) + 1
                        /\ {walk[i] : i \in 1 .. Len(walk) - 1} = {IndexToBlock(b[1], b[2]) : b \in free}
                        /\ \A i \in 1 .. Len(walk) - 1 :
                              ba.links[walk[i]].prev = IF i = 1 THEN Null ELSE walk[i - 1]
  BY DEF ListsHoldFreeBlocks
<1> DEFINE walk == WalkOf(level)
           free == {b \in WithStatus("Free") : b[1] = level}
<1>1. KindOK /\ Listed(ba, FreePointers(ba.status)) /\ ba.status \in [Block -> Status]
  BY DEF BuddyInv, Good, Tree
<1>2. PICK s : /\ Linked(Pointer, ba.links, ba.lists[level], s)
               /\ FreePointers(ba.status)[level] = {s[i] : i \in 1 .. Len(s)}
  BY <1>1 DEF Listed, ListOf
<1>3. s \in Seq(Pointer) /\ \A i, j \in 1 .. Len(s) : s[i] = s[j] => i = j
  BY <1>2 DEF Linked
<1>4. free = {b \in Block : ba.status[b] = "Free" /\ b[1] = level}
  BY DEF WithStatus
<1> HIDE DEF free
<1>5. /\ Cardinality(free) = Len(s) /\ Len(s) <= Pow2[LastLevel]
      /\ {IndexToBlock(b[1], b[2]) : b \in free} = {s[i] : i \in 1 .. Len(s)}
  BY <1>1, <1>2, <1>3, <1>4, FreeBlocksAre
<1>6. walk = Append(s, Null)
  BY <1>1, <1>2, <1>5, WalkIs
<1> HIDE DEF walk
<1>7. Len(s) \in Nat /\ Len(walk) = Len(s) + 1 /\ walk[Len(s) + 1] = Null /\ \A i \in 1 .. Len(s) : walk[i] = s[i]
  BY <1>3, <1>6
<1>8. Last(walk) = Null
  BY <1>7 DEF Last
<1>9. {walk[i] : i \in 1 .. Len(walk) - 1} = {s[i] : i \in 1 .. Len(s)}
  BY <1>7
<1>10. ASSUME NEW i \in 1 .. Len(walk) - 1
       PROVE  ba.links[walk[i]].prev = IF i = 1 THEN Null ELSE walk[i - 1]
  <2>1. i \in 1 .. Len(s) /\ walk[i] = s[i] /\ (i # 1 => walk[i - 1] = s[i - 1])
    BY <1>7
  <2>2. ba.links[s[i]].prev = IF i = 1 THEN Null ELSE s[i - 1]
    BY <1>2, <2>1 DEF Linked
  <2>3. QED BY <2>1, <2>2
<1>11. QED BY <1>5, <1>7, <1>8, <1>9, <1>10 DEF walk, free

(* What alloc, free and reserve of kernel/buddy_allocator.zig keep,        *)
(* whatever is asked for, freed and reserved and in any order: the tree,   *)
(* the lists and their links, and that what a client holds is in use.      *)
THEOREM BuddyInvHolds == BuddySpec /\ PointersFit => []BuddyInv
<1>1. QED BY BuddyStarts, BuddyStep, PTL DEF BuddySpec

(* The statuses that split and merge set are those of a tree, and free     *)
(* never leaves two free halves of a block (its last loop, lines 446 to    *)
(* 459 of buddy_allocator.zig), however calls follow each other.           *)
THEOREM TreeAlwaysFits == BuddySpec /\ PointersFit => []TreeFits
<1>1. QED BY BuddyInvHolds, InvFits, PTL

(* push and remove_block (buddy_allocator.zig, lines 77 to 115) keep each  *)
(* level's list: walked along its links it holds the free blocks of the    *)
(* level, each once, and the links back are right.                         *)
THEOREM ListsAlwaysHoldFreeBlocks == BuddySpec /\ PointersFit => []ListsHoldFreeBlocks
<1>1. QED BY BuddyInvHolds, InvLists, PTL

(* No request makes split or merge meet a block of another status than     *)
(* they assert (WrongBlockStatus, which alloc, free and reserve declare    *)
(* unreachable), or free an address without a place for its links.         *)
THEOREM BuddyNeverPanics == BuddySpec /\ PointersFit => [](ba.phase = "run")
<1>1. BuddyInv => ba.phase = "run"
  BY DEF BuddyInv, Good
<1>2. QED BY <1>1, BuddyInvHolds, PTL

-----------------------------------------------------------------------------
(* The bytes of the blocks.  At each level one block is at a byte.          *)

At(l, x) == <<l, x \div BlockSize(l)>>

LEMMA BlockBytes ==
    ASSUME NEW b \in Block
    PROVE  /\ BlockSize(b[1]) \in Nat \ {0} /\ Address(b[1], b[2]) \in Nat
           /\ Address(b[1], b[2]) + BlockSize(b[1]) <= MaxSize
           /\ BytesOf(b) = Address(b[1], b[2]) .. Address(b[1], b[2]) + BlockSize(b[1]) - 1
           /\ BytesOf(b) \subseteq 0 .. MaxSize - 1
           /\ Address(b[1], b[2]) \in BytesOf(b)
           /\ \A x \in 0 .. MaxSize - 1 : x \in BytesOf(b) <=> b = At(b[1], x)
<1>1. PICK w : Widths(w) /\ (\A l \in Level : BlockSize(l) = w[l]) /\ w[0] = MaxSize
  BY BytesAre
<1>2. b = <<b[1], b[2]>> /\ b[1] \in Level /\ b[2] \in 0 .. Pow2[b[1]] - 1
  BY BlockIs
<1>3. PICK n \in Nat \ {0} : n = BlockSize(b[1]) /\ n = w[b[1]]
  BY <1>1, <1>2 DEF Widths
<1>4. PICK m \in Nat \ {0} : m = Pow2[b[1]]
  BY <1>2, LevelIs
<1>5. PICK i \in Nat : i = b[2]
  BY <1>2
<1>6. m * n = MaxSize /\ i < m
  BY <1>1, <1>2, <1>3, <1>4, <1>5 DEF Widths
<1>7. i * n \in Nat /\ i * n + n <= m * n
  BY ONLY i \in Nat, n \in Nat \ {0}, m \in Nat \ {0}, <1>6
<1>8. Address(b[1], b[2]) = i * n
  BY <1>3, <1>5 DEF Address
<1>9. BytesOf(b) = i * n .. i * n + n - 1
  BY <1>3, <1>8 DEF BytesOf
<1>10. BytesOf(b) \subseteq 0 .. MaxSize - 1 /\ i * n \in BytesOf(b)
  <2>1. PICK a \in Nat : a = i * n
    BY <1>7
  <2>2. a + n <= MaxSize /\ MaxSize \in Nat
    BY <1>6, <1>7, <2>1, BlockSizeIs
  <2>3. QED BY <1>9, <2>1, <2>2
<1>11. ASSUME NEW x \in 0 .. MaxSize - 1
       PROVE  x \in BytesOf(b) <=> b = At(b[1], x)
  <2>1. x \in Nat
    OBVIOUS
  <2>2. i * n <= x /\ x <= i * n + n - 1 <=> x \div n = i
    BY ONLY x \in Nat, i \in Nat, n \in Nat \ {0}
  <2>3. x \in BytesOf(b) <=> i * n <= x /\ x <= i * n + n - 1
    BY <1>7, <1>9, <2>1
  <2>4. At(b[1], x) = <<b[1], x \div n>>
    BY <1>3 DEF At
  <2>5. b = <<b[1], x \div n>> <=> x \div n = i
    BY <1>2, <1>5
  <2>6. QED BY <2>2, <2>3, <2>4, <2>5
<1>12. QED BY <1>3, <1>6, <1>7, <1>8, <1>9, <1>10, <1>11

LEMMA AtIs ==
    ASSUME NEW x \in 0 .. MaxSize - 1, NEW l \in Level
    PROVE  /\ At(l, x) \in Block /\ At(l, x)[1] = l /\ x \in BytesOf(At(l, x))
           /\ l > 0 => l - 1 \in Level /\ Parent(At(l, x)) = At(l - 1, x)
<1>1. PICK w : Widths(w) /\ (\A k \in Level : BlockSize(k) = w[k]) /\ w[0] = MaxSize
  BY BytesAre
<1>2. x \div w[l] \in 0 .. Pow2[l] - 1
  BY <1>1, BlockAround
<1>3. At(l, x) \in Block /\ At(l, x)[1] = l
  BY <1>1, <1>2, BlockIs DEF At
<1>4. x \in BytesOf(At(l, x))
  BY <1>3, BlockBytes
<1>5. ASSUME l > 0 PROVE l - 1 \in Level /\ Parent(At(l, x)) = At(l - 1, x)
  <2>1. l - 1 \in Level
    BY <1>5, LevelIs
  <2>2. (x \div w[l]) \div 2 = x \div w[l - 1]
    BY <1>1, <1>5, BlockAbove
  <2>3. QED BY <1>1, <2>1, <2>2 DEF At, Parent
<1>6. QED BY <1>3, <1>4, <1>5

(* One pointer is around the same blocks as the byte.                       *)
LEMMA ByteIsAround ==
    ASSUME KindOK, NEW x \in 0 .. MaxSize - 1
    PROVE  \E p \in Pointer : \A l \in Level : Around(l, p) = At(l, x)
<1>0. LastLevel \in Nat /\ Level = 0 .. LastLevel /\ LastLevel \in Level
  BY LevelIs
<1>1. PICK i : At(LastLevel, x) = <<LastLevel, i>> /\ i \in 0 .. Pow2[LastLevel] - 1
  BY <1>0, AtIs, BlockIs DEF At
<1> DEFINE p == IndexToBlock(LastLevel, i)
<1>2. p \in Pointer /\ Around(LastLevel, p) = At(LastLevel, x)
  BY <1>0, <1>1, PointerIs, PointerTells
<1> HIDE DEF p
<1> DEFINE S == {d \in Nat : d <= LastLevel => Around(LastLevel - d, p) = At(LastLevel - d, x)}
<1>3. 0 \in S
  BY <1>0, <1>2
<1>4. ASSUME NEW d \in Nat, d \in S PROVE d + 1 \in S
  <2> SUFFICES ASSUME d + 1 <= LastLevel
               PROVE  Around(LastLevel - (d + 1), p) = At(LastLevel - (d + 1), x)
    OBVIOUS
  <2>1. PICK k \in Level : k = LastLevel - d /\ k > 0 /\ k - 1 = LastLevel - (d + 1)
    BY <1>0
  <2>2. Around(k, p) = At(k, x)
    BY <1>0, <1>4, <2>1
  <2>3. Around(k - 1, p) = Parent(Around(k, p))
    BY <1>2, <2>1, AroundIs DEF Around, Parent
  <2>4. Parent(At(k, x)) = At(k - 1, x)
    BY <2>1, AtIs
  <2>5. QED BY <2>1, <2>2, <2>3, <2>4
<1>5. Nat \subseteq S
  <2> HIDE DEF S
  <2>1. QED BY <1>3, <1>4, SetInduction
<1>6. ASSUME NEW l \in Level PROVE Around(l, p) = At(l, x)
  <2>1. PICK d \in Nat : d = LastLevel - l
    BY <1>0
  <2>2. d <= LastLevel /\ LastLevel - d = l
    BY <1>0, <2>1
  <2>3. d \in S
    BY <1>5 DEF S
  <2>4. QED BY <2>2, <2>3
<1>7. QED BY <1>2, <1>6

(* Every byte is in just one block that is free or in use; what is around  *)
(* a block that is there is split.                                         *)
LEMMA LeavesApart ==
    ASSUME KindOK, NEW st, Tree(st), NEW b \in Block, NEW c \in Block, NEW x,
           IsLeaf(st[b]), IsLeaf(st[c]), x \in BytesOf(b), x \in BytesOf(c)
    PROVE  b = c
<1>1. x \in 0 .. MaxSize - 1 /\ b = At(b[1], x) /\ c = At(c[1], x) /\ b[1] \in Level /\ c[1] \in Level
  <2>1. x \in 0 .. MaxSize - 1
    BY BlockBytes
  <2>2. QED BY <2>1, BlockBytes, BlockIs
<1>2. PICK p \in Pointer : \A l \in Level : Around(l, p) = At(l, x)
  BY <1>1, ByteIsAround
<1>3. b = Around(b[1], p) /\ c = Around(c[1], p)
  BY <1>1, <1>2
<1>4. b[1] = c[1]
  BY <1>1, <1>3, OneLeaf
<1>5. QED BY <1>3, <1>4

LEMMA LeafThere ==
    ASSUME NEW st, Tree(st), NEW x \in 0 .. MaxSize - 1
    PROVE  \E b \in Block : IsLeaf(st[b]) /\ x \in BytesOf(b)
<1>0. LastLevel \in Nat /\ Level = 0 .. LastLevel /\ LastLevel \in Level
  BY LevelIs
<1> SUFFICES ASSUME \A b \in Block : x \in BytesOf(b) => ~ IsLeaf(st[b])
             PROVE  FALSE
  OBVIOUS
<1>1. ASSUME NEW l \in Level, st[At(l, x)] # "Invalid" PROVE st[At(l, x)] = "Split"
  <2>1. At(l, x) \in Block /\ x \in BytesOf(At(l, x))
    BY AtIs
  <2>2. st[At(l, x)] \in Status /\ ~ IsLeaf(st[At(l, x)])
    BY <2>1 DEF Tree
  <2>3. QED BY <1>1, <2>2 DEF Status, IsLeaf
<1> DEFINE S == {d \in Nat : d <= LastLevel => st[At(d, x)] = "Split"}
<1>2. 0 \in S
  <2>1. 0 \in Level
    BY <1>0
  <2>2. At(0, x) = <<0, 0>>
    <3>1. At(0, x) \in Block /\ At(0, x)[1] = 0
      BY <2>1, AtIs
    <3>2. At(0, x) = <<0, At(0, x)[2]>> /\ At(0, x)[2] \in 0 .. Pow2[0] - 1 /\ Pow2[0] = 1
      BY <3>1, BlockIs, LevelIs
    <3>3. At(0, x)[2] = 0
      BY <3>2
    <3>4. QED BY <3>2, <3>3
  <2>3. st[At(0, x)] # "Invalid"
    BY <2>2 DEF Tree
  <2>4. QED BY <1>1, <2>1, <2>3
<1>3. ASSUME NEW d \in Nat, d \in S PROVE d + 1 \in S
  <2> SUFFICES ASSUME d + 1 <= LastLevel PROVE st[At(d + 1, x)] = "Split"
    OBVIOUS
  <2>1. d + 1 \in Level /\ d + 1 > 0 /\ (d + 1) - 1 = d /\ st[At(d, x)] = "Split"
    BY <1>0, <1>3
  <2>2. /\ At(d + 1, x) \in Block /\ At(d + 1, x)[1] = d + 1
        /\ Parent(At(d + 1, x)) = At(d, x)
    BY <2>1, AtIs
  <2>3. st[At(d + 1, x)] # "Invalid"
    BY <2>1, <2>2 DEF Tree
  <2>4. QED BY <1>1, <2>1, <2>3
<1>4. LastLevel \in S
  <2> HIDE DEF S
  <2>1. QED BY <1>0, <1>2, <1>3, SetInduction
<1>5. st[At(LastLevel, x)] = "Split" /\ At(LastLevel, x) \in Block /\ At(LastLevel, x)[1] = LastLevel
  BY <1>0, <1>4, AtIs
<1>6. QED BY <1>0, <1>5 DEF Tree

LEMMA BytesAbove ==
    ASSUME KindOK, NEW st, Tree(st), NEW b \in Block, NEW c \in Block, NEW x,
           x \in BytesOf(b), x \in BytesOf(c), st[b] # "Invalid", c[1] < b[1]
    PROVE  st[c] = "Split"
<1>1. x \in 0 .. MaxSize - 1 /\ b = At(b[1], x) /\ c = At(c[1], x) /\ b[1] \in Level /\ c[1] \in Level
  <2>1. x \in 0 .. MaxSize - 1
    BY BlockBytes
  <2>2. QED BY <2>1, BlockBytes, BlockIs
<1>2. PICK p \in Pointer : \A l \in Level : Around(l, p) = At(l, x)
  BY <1>1, ByteIsAround
<1>3. b = Around(b[1], p) /\ c = Around(c[1], p)
  BY <1>1, <1>2
<1>4. st[Around(c[1], p)] = "Split"
  BY <1>1, <1>3, SplitAbove
<1>5. QED BY <1>3, <1>4

LEMMA ChildBytes ==
    ASSUME NEW b \in Block, b[1] > 0
    PROVE  BytesOf(b) \subseteq BytesOf(Parent(b))
<1> SUFFICES ASSUME NEW x \in BytesOf(b) PROVE x \in BytesOf(Parent(b))
  OBVIOUS
<1>1. x \in 0 .. MaxSize - 1 /\ b = At(b[1], x) /\ b[1] \in Level
  <2>1. x \in 0 .. MaxSize - 1
    BY BlockBytes
  <2>2. QED BY <2>1, BlockBytes, BlockIs
<1>2. Parent(b) = At(b[1] - 1, x) /\ b[1] - 1 \in Level
  BY <1>1, AtIs
<1>3. QED BY <1>1, <1>2, AtIs

(* Something is in use in every block that is split, for else its halves   *)
(* would have been merged.                                                 *)
LEMMA UsedBelow ==
    ASSUME NEW st, Tree(st), NoPair(st), NEW b \in Block, st[b] = "Split"
    PROVE  \E u \in UsedOf(st) : BytesOf(u) \subseteq BytesOf(b)
<1>0. LastLevel \in Nat /\ Level = 0 .. LastLevel
  BY LevelIs
<1> DEFINE Below(c) == \E u \in UsedOf(st) : BytesOf(u) \subseteq BytesOf(c)
           S == {d \in Nat : \A c \in Block : c[1] + d >= LastLevel /\ st[c] = "Split" => Below(c)}
<1>1. 0 \in S
  <2>1. ASSUME NEW c \in Block, c[1] + 0 >= LastLevel, st[c] = "Split" PROVE FALSE
    BY <1>0, <2>1, BlockIs DEF Tree
  <2>2. QED BY <2>1
<1>2. ASSUME NEW d \in Nat, d \in S PROVE d + 1 \in S
  <2> SUFFICES ASSUME NEW c \in Block, c[1] + (d + 1) >= LastLevel, st[c] = "Split" PROVE Below(c)
    OBVIOUS
  <2>1. c[1] < LastLevel /\ c = <<c[1], c[2]>> /\ c[1] \in Level /\ c[2] \in 0 .. Pow2[c[1]] - 1
    BY BlockIs DEF Tree
  <2> DEFINE left == <<c[1] + 1, 2 * c[2]>>
             right == <<c[1] + 1, 2 * c[2] + 1>>
  <2>2. left \in Block /\ right \in Block /\ Parent(left) = c /\ Parent(right) = c
    BY <2>1, HalvesAre
  <2>3. left[1] = c[1] + 1 /\ right[1] = c[1] + 1 /\ c[1] + 1 > 0 /\ (c[1] + 1) + d >= LastLevel
    BY <1>0, <2>1
  <2>4. BuddyOf(left) = right
    BY <2>1, HalvesAreBuddies DEF BuddyOf
  <2> HIDE DEF left, right
  <2>5. BytesOf(left) \subseteq BytesOf(c) /\ BytesOf(right) \subseteq BytesOf(c)
    BY <2>2, <2>3, ChildBytes
  <2>6. /\ st[left] \in Status /\ st[left] # "Invalid"
        /\ st[right] \in Status /\ st[right] # "Invalid"
    BY <2>2, <2>3 DEF Tree
  <2>7. CASE st[left] = "Split"
    BY <1>2, <2>2, <2>3, <2>5, <2>7
  <2>8. CASE st[right] = "Split"
    BY <1>2, <2>2, <2>3, <2>5, <2>8
  <2>9. CASE st[left] = "Used" \/ st[right] = "Used"
    BY <2>2, <2>5, <2>9 DEF UsedOf
  <2>10. ~ (st[left] = "Free" /\ st[right] = "Free")
    BY <2>2, <2>3, <2>4 DEF NoPair, Pair
  <2>11. QED BY <2>6, <2>7, <2>8, <2>9, <2>10 DEF Status
<1>3. LastLevel \in S
  <2> HIDE DEF S
  <2>1. QED BY <1>0, <1>1, <1>2, SetInduction
<1>4. b[1] + LastLevel >= LastLevel
  BY <1>0, BlockIs
<1>5. QED BY <1>3, <1>4

(* If no block as large as c or larger is free, c is not.                  *)
LEMMA NowhereElse ==
    ASSUME KindOK, NEW st, Tree(st), NoPair(st), NEW c \in Block,
           \A b \in Block : b[1] <= c[1] => st[b] # "Free"
    PROVE  \E u \in UsedOf(st) : \E x \in BytesOf(u) : x \in BytesOf(c)
<1>1. PICK x : x \in BytesOf(c) /\ x \in 0 .. MaxSize - 1
  BY BlockBytes
<1>2. PICK b \in Block : IsLeaf(st[b]) /\ x \in BytesOf(b)
  BY <1>1, LeafThere
<1>3. CASE b[1] <= c[1]
  BY <1>1, <1>2, <1>3 DEF IsLeaf, UsedOf
<1>4. CASE ~ (b[1] <= c[1])
  <2>1. c[1] < b[1]
    BY <1>4, BlockIs, LevelIs
  <2>2. st[b] # "Invalid"
    BY <1>2 DEF IsLeaf
  <2>3. st[c] = "Split"
    BY <1>1, <1>2, <2>1, <2>2, BytesAbove
  <2>4. PICK u \in UsedOf(st) : BytesOf(u) \subseteq BytesOf(c)
    BY <2>3, UsedBelow
  <2>5. u \in Block
    BY DEF UsedOf
  <2>6. QED BY <2>4, <2>5, BlockBytes
<1>5. QED BY <1>3, <1>4

LEMMA EmptyLists ==
    ASSUME KindOK, NEW h, Good(h), NEW l \in Level, h.lists[l] = Null, NEW b \in Block, b[1] = l
    PROVE  h.status[b] # "Free"
<1>1. ListOf(Pointer, h.links, h.lists[l], FreePointers(h.status)[l])
  BY DEF Good, Listed
<1>2. FreePointers(h.status)[l] = {}
  BY <1>1, NullIs, ListHead
<1>3. b = <<l, b[2]>> /\ b[2] \in 0 .. Pow2[l] - 1
  BY BlockIs
<1>4. QED BY <1>2, <1>3, FreePointersAre

-----------------------------------------------------------------------------
(* The allocator as a heap: its bytes in use, those that were handed out,  *)
(* and the others, which were withheld.                                    *)

BytesIn(U) == UNION {BytesOf(b) : b \in U}
TakenBy(A) == UNION {a.start .. a.start + RoundedSize(a.size) - 1 : a \in A}
Withheld == UsedBytes \ UNION {a.start .. a.start + RoundedSize(a.size) - 1 : a \in allocs}

LEMMA WithheldIs ==
    /\ UsedBytes = BytesIn(UsedOf(ba.status)) /\ Withheld = BytesIn(UsedOf(ba.status)) \ TakenBy(allocs)
    /\ Withheld' = BytesIn(UsedOf(ba'.status)) \ TakenBy(allocs')
<1>1. UsedBytes = BytesIn(UsedOf(ba.status)) /\ UsedBytes' = BytesIn(UsedOf(ba'.status))
  BY DEF UsedBytes, WithStatus, BytesIn, UsedOf
<1>2. QED BY <1>1 DEF Withheld, TakenBy

LEMMA HeapIs ==
    /\ H!Unused = (0 .. MaxSize - 1) \ (TakenBy(allocs) \cup Withheld)
    /\ \A size : H!Places(size) =
          {p \in 0 .. MaxSize - 1 : /\ p % RoundedSize(size) = 0
                                    /\ p .. p + RoundedSize(size) - 1 \subseteq H!Unused}
BY DEF H!Unused, H!Taken, H!Bytes, H!Places, TakenBy, Withheld

(* A block in use and the allocation that was given it.                    *)
LEMMA HeldBytes ==
    ASSUME NEW a, a.size \in Sizes, a.size <= MaxSize, NEW b \in Block, IsBlockOf(b, a)
    PROVE  a.start .. a.start + RoundedSize(a.size) - 1 = BytesOf(b)
<1>1. a.size \in Nat
  BY BuddyAssumption
<1>2. BlockSize(b[1]) = RoundedSize(a.size) /\ a.start = Address(b[1], b[2])
  BY <1>1, SizeToLevelIs DEF IsBlockOf
<1>3. QED BY <1>2 DEF BytesOf

LEMMA TakenInUse ==
    ASSUME AllocsHeld(ba.status)
    PROVE  TakenBy(allocs) \subseteq BytesIn(UsedOf(ba.status))
<1>1. ASSUME NEW a \in allocs
      PROVE  \E b \in UsedOf(ba.status) : a.start .. a.start + RoundedSize(a.size) - 1 = BytesOf(b)
  <2>1. PICK b \in UsedOf(ba.status) : IsBlockOf(b, a)
    BY DEF AllocsHeld
  <2>2. b \in Block /\ a.size \in Sizes /\ a.size <= MaxSize
    BY DEF UsedOf, AllocsHeld
  <2>3. QED BY <2>1, <2>2, HeldBytes
<1>2. QED BY <1>1 DEF TakenBy, BytesIn

(* A block's bytes leave with it.                                          *)
LEMMA BytesLess ==
    ASSUME KindOK, NEW st, Tree(st), NEW c \in UsedOf(st)
    PROVE  BytesIn(UsedOf(st) \ {c}) = BytesIn(UsedOf(st)) \ BytesOf(c)
<1>1. ASSUME NEW b \in UsedOf(st), b # c, NEW x, x \in BytesOf(b), x \in BytesOf(c) PROVE FALSE
  <2>1. b \in Block /\ c \in Block /\ IsLeaf(st[b]) /\ IsLeaf(st[c])
    BY DEF UsedOf, IsLeaf
  <2>2. QED BY <1>1, <2>1, LeavesApart
<1>2. QED BY <1>1 DEF BytesIn

LEMMA UnusedIs ==
    ASSUME AllocsHeld(ba.status)
    PROVE  H!Unused = (0 .. MaxSize - 1) \ BytesIn(UsedOf(ba.status))
BY TakenInUse, WithheldIs, HeapIs

(* A block of the size of a request and the place it is.                   *)
LEMMA PlaceOf ==
    ASSUME NEW size \in Nat, size <= MaxSize, NEW c \in Block, c[1] = SizeToLevel(size)
    PROVE  /\ Address(c[1], c[2]) \in 0 .. MaxSize - 1
           /\ Address(c[1], c[2]) % RoundedSize(size) = 0
           /\ BytesOf(c) = Address(c[1], c[2]) .. Address(c[1], c[2]) + RoundedSize(size) - 1
<1>1. PICK n \in Nat \ {0} : n = BlockSize(c[1]) /\ n = RoundedSize(size)
  BY SizeToLevelIs, BlockBytes
<1>2. PICK i \in Nat : i = c[2]
  BY BlockIs
<1>3. Address(c[1], c[2]) = i * n
  BY <1>1, <1>2 DEF Address
<1>4. (i * n) % n = 0
  BY ONLY i \in Nat, n \in Nat \ {0}
<1>5. Address(c[1], c[2]) \in 0 .. MaxSize - 1
  BY BlockBytes
<1>6. QED BY <1>1, <1>3, <1>4, <1>5 DEF BytesOf

LEMMA BlockAt ==
    ASSUME NEW size \in Nat, size <= MaxSize, NEW p \in 0 .. MaxSize - 1, p % RoundedSize(size) = 0
    PROVE  \E c \in Block : c[1] = SizeToLevel(size) /\ Address(c[1], c[2]) = p
<1>1. PICK l \in Level : l = SizeToLevel(size) /\ BlockSize(l) = RoundedSize(size)
  BY SizeToLevelIs
<1>2. At(l, p) \in Block /\ At(l, p)[1] = l
  BY AtIs
<1>3. PICK n \in Nat \ {0} : n = BlockSize(l)
  BY <1>2, BlockBytes
<1>4. PICK q \in Nat : q = p /\ q % n = 0
  BY <1>1, <1>3
<1>5. (q \div n) * n = q
  BY ONLY q \in Nat, n \in Nat \ {0}, <1>4
<1>6. At(l, p)[2] = q \div n
  BY <1>3, <1>4 DEF At
<1>7. Address(l, At(l, p)[2]) = p
  BY <1>3, <1>4, <1>5, <1>6 DEF Address
<1>8. QED BY <1>1, <1>2, <1>7

LEMMA AllocIsHeaps ==
    ASSUME BuddyInv, NEW size \in Sizes, Alloc(size)
    PROVE  H!Alloc(size)
<1>1. KindOK /\ PointersFit /\ Good(ba) /\ NoPair(ba.status) /\ AllocsHeld(ba.status) /\ Tree(ba.status)
  BY DEF BuddyInv, Good
<1>2. size \in Nat /\ MaxSize \in Nat
  BY BuddyAssumption, BlockSizeIs
<1>3. CASE Refuses(size)
  <2>1. refused' = {H!Anywhere(size)} /\ UNCHANGED <<ba, allocs>>
    BY <1>3 DEF Refuses, H!Anywhere
  <2>2. Withheld' = Withheld
    BY <2>1, WithheldIs
  <2>3. ASSUME size <= MaxSize, NEW p \in H!Places(size) PROVE FALSE
    <3>1. /\ p \in 0 .. MaxSize - 1 /\ p % RoundedSize(size) = 0
          /\ p .. p + RoundedSize(size) - 1 \subseteq H!Unused
      BY HeapIs
    <3>2. PICK c \in Block : c[1] = SizeToLevel(size) /\ Address(c[1], c[2]) = p
      BY <1>2, <2>3, <3>1, BlockAt
    <3>3. BytesOf(c) \subseteq H!Unused
      <4>1. /\ size \in Nat /\ size <= MaxSize
            /\ c \in Block /\ c[1] = SizeToLevel(size)
        BY <1>2, <2>3, <3>2
      <4>2. BytesOf(c) = Address(c[1], c[2]) .. Address(c[1], c[2]) + RoundedSize(size) - 1
        BY ONLY <4>1, PlaceOf
      <4>3. QED BY <3>1, <3>2, <4>2, Zenon
    <3>4. ASSUME NEW b \in Block, b[1] <= c[1] PROVE ba.status[b] # "Free"
      <4>1. b[1] \in Level /\ b[1] \in 0 .. SizeToLevel(size)
        BY <3>2, <3>4, BlockIs, LevelIs
      <4>2. ba.lists[b[1]] = Null
        BY <1>2, <1>3, <2>3, <4>1 DEF Refuses
      <4>3. QED BY <1>1, <4>1, <4>2, EmptyLists
    <3>5. PICK u \in UsedOf(ba.status) : \E x \in BytesOf(u) : x \in BytesOf(c)
      BY <1>1, <3>4, NowhereElse
    <3>6. BytesOf(u) \subseteq BytesIn(UsedOf(ba.status))
      BY DEF BytesIn
    <3>7. QED BY <1>1, <3>3, <3>5, <3>6, UnusedIs
  <2>4. size > MaxSize \/ H!Places(size) = {}
    BY <1>2, <2>3
  <2>5. QED BY <2>1, <2>2, <2>4 DEF H!Alloc, Withheld
<1>4. CASE \E c \in Block : Takes(c, size)
  <2>1. PICK c \in Block : Takes(c, size)
    BY <1>4
  <2> DEFINE p == Address(c[1], c[2])
             U == UsedOf(ba.status)
             V == UsedOf(ba'.status)
  <2>2. /\ size <= MaxSize /\ c[1] = SizeToLevel(size) /\ Tree(ba'.status)
        /\ c \notin U /\ V = U \cup {c} /\ refused' = {}
        /\ allocs' = allocs \cup {[start |-> p, size |-> size]}
    BY <2>1 DEF Takes, Good
  <2>3. BytesIn(U) = BytesIn(V) \ BytesOf(c) /\ BytesIn(V) = BytesIn(U) \cup BytesOf(c)
    <3>1. U = V \ {c} /\ c \in V
      BY <2>2
    <3>2. BytesIn(V \ {c}) = BytesIn(V) \ BytesOf(c)
      BY <1>1, <2>2, <3>1, BytesLess
    <3> HIDE DEF U, V
    <3>3. BytesIn(V) = BytesIn(U) \cup BytesOf(c)
      BY <2>2 DEF BytesIn
    <3>4. QED BY <3>1, <3>2, <3>3
  <2>4. /\ p \in 0 .. MaxSize - 1 /\ p % RoundedSize(size) = 0
        /\ BytesOf(c) = p .. p + RoundedSize(size) - 1
    BY <1>2, <2>2, PlaceOf
  <2>5. p \in H!Places(size)
    <3>1. BytesOf(c) \subseteq H!Unused
      <4>1. BytesOf(c) \subseteq 0 .. MaxSize - 1
        BY BlockBytes
      <4>2. H!Unused = (0 .. MaxSize - 1) \ BytesIn(U)
        BY <1>1, UnusedIs
      <4> HIDE DEF U, V
      <4>3. QED BY <2>3, <4>1, <4>2
    <3> HIDE DEF p
    <3>2. QED BY <2>4, <3>1, HeapIs
  <2>6. Withheld' = Withheld
    <3>1. TakenBy(allocs') = TakenBy(allocs) \cup BytesOf(c)
      <4> DEFINE new == [start |-> p, size |-> size]
      <4>1. new.start .. new.start + RoundedSize(new.size) - 1 = BytesOf(c)
        BY <2>4
      <4> HIDE DEF new, p
      <4>2. allocs' = allocs \cup {new}
        BY <2>2 DEF new
      <4>3. QED BY <4>1, <4>2 DEF TakenBy
    <3>2. /\ Withheld = BytesIn(U) \ TakenBy(allocs)
          /\ Withheld' = BytesIn(V) \ TakenBy(allocs')
      BY WithheldIs
    <3> HIDE DEF U, V
    <3>3. QED BY <2>3, <3>1, <3>2
  <2> HIDE DEF p
  <2>7. ~ (size > MaxSize) /\ H!Places(size) # {}
    BY <1>2, <2>2, <2>5
  <2>8. QED BY <2>2, <2>5, <2>6, <2>7 DEF H!Alloc, Withheld
<1>5. QED BY <1>3, <1>4, AllocDoes

LEMMA FreeIsHeaps ==
    ASSUME BuddyInv, NEW a \in allocs, Free(a)
    PROVE  H!Free(a)
<1>1. KindOK /\ AllocsHeld(ba.status) /\ Tree(ba.status)
  BY DEF BuddyInv, Good
<1> DEFINE U == UsedOf(ba.status)
           V == UsedOf(ba'.status)
<1>2. PICK b \in U : GivesBack(b, a)
  BY FreeDoes
<1>3. IsBlockOf(b, a) /\ V = U \ {b} /\ allocs' = allocs \ {a} /\ refused' = {}
  BY <1>2 DEF GivesBack
<1>4. BytesIn(V) = BytesIn(U) \ BytesOf(b)
  BY <1>1, <1>3, BytesLess
<1>5. a.start .. a.start + RoundedSize(a.size) - 1 = BytesOf(b)
  <2>1. b \in Block /\ a.size \in Sizes /\ a.size <= MaxSize
    BY <1>1 DEF UsedOf, AllocsHeld
  <2>2. QED BY <1>3, <2>1, HeldBytes
<1>6. TakenBy(allocs) = TakenBy(allocs') \cup BytesOf(b)
  BY <1>3, <1>5 DEF TakenBy
<1>7. /\ Withheld = BytesIn(U) \ TakenBy(allocs)
      /\ Withheld' = BytesIn(V) \ TakenBy(allocs')
  BY WithheldIs
<1> HIDE DEF U, V
<1>8. Withheld' = Withheld
  BY <1>4, <1>6, <1>7
<1>9. QED BY <1>3, <1>8 DEF H!Free, Withheld

-----------------------------------------------------------------------------
(* reserve, of a range that begins where the area does.                    *)

LEMMA FreeLevelsAre ==
    ASSUME KindOK, PointersFit, NEW h, Good(h), NEW c \in Block, IsLeaf(h.status[c]),
           NEW a, a = Address(c[1], c[2])
    PROVE  /\ h.status[c] = "Free" => FreeLevels(h, a) = {c[1]}
           /\ h.status[c] = "Used" => FreeLevels(h, a) = {}
           /\ BlockToIndex(c[1], AddressToBlock(a)) = c[2]
<1>1. Tree(h.status) /\ c = <<c[1], c[2]>> /\ c[1] \in Level /\ c[2] \in 0 .. Pow2[c[1]] - 1
  BY BlockIs DEF Good
<1> DEFINE p == AddressToBlock(a)
<1>2. p = IndexToBlock(c[1], c[2])
  BY <1>1, AddressIs
<1>3. p \in Pointer /\ Around(c[1], p) = c /\ BlockToIndex(c[1], p) = c[2]
  BY <1>1, <1>2, PointerIs, PointerTells
<1> HIDE DEF p
<1>4. ASSUME NEW l \in Level, h.status[Around(l, p)] = "Free" PROVE l = c[1]
  BY <1>1, <1>3, <1>4, OneLeaf DEF IsLeaf
<1>5. ASSUME NEW k \in c[1] + 1 .. LastLevel PROVE h.status[Around(k, p)] = "Invalid"
  <2>1. k \in Level /\ c[1] < k
    BY <1>1, LevelIs
  <2>2. h.status[c] # "Split"
    BY DEF IsLeaf
  <2>3. QED BY <1>1, <1>3, <2>1, <2>2, SplitAbove
<1>6. FreeLevels(h, a) = {l \in Level : /\ h.status[Around(l, p)] = "Free"
                                       /\ \A k \in l + 1 .. LastLevel : h.status[Around(k, p)] = "Invalid"}
  BY DEF FreeLevels, p
<1>7. ASSUME h.status[c] = "Free" PROVE FreeLevels(h, a) = {c[1]}
  BY <1>1, <1>3, <1>4, <1>5, <1>6, <1>7
<1>8. ASSUME h.status[c] = "Used" PROVE FreeLevels(h, a) = {}
  BY <1>1, <1>3, <1>4, <1>6, <1>8
<1>9. QED BY <1>3, <1>7, <1>8 DEF p

(* Where a block that nothing divides ends, the next one begins.           *)
LEMMA NextStart ==
    ASSUME KindOK, NEW st, Tree(st), NEW c \in Block, IsLeaf(st[c]),
           NEW n, n = Address(c[1], c[2]) + BlockSize(c[1]), n < MaxSize
    PROVE  \E d \in Block : IsLeaf(st[d]) /\ Address(d[1], d[2]) = n
<1>1. PICK a \in Nat, w \in Nat \ {0}, m \in Nat : 
          a = Address(c[1], c[2]) /\ w = BlockSize(c[1]) /\ m = MaxSize
  BY BlockBytes, BlockSizeIs
<1>2. n \in 0 .. MaxSize - 1 /\ n - 1 \in BytesOf(c) /\ n \notin BytesOf(c)
  <2>1. BytesOf(c) = a .. a + w - 1
    BY <1>1, BlockBytes
  <2>2. QED BY <1>1, <2>1
<1>3. PICK d \in Block : IsLeaf(st[d]) /\ n \in BytesOf(d)
  BY <1>2, LeafThere
<1>4. PICK b \in Nat, v \in Nat \ {0} : b = Address(d[1], d[2]) /\ BytesOf(d) = b .. b + v - 1
  BY BlockBytes
<1>5. n - 1 \notin BytesOf(d)
  BY <1>2, <1>3, LeavesApart
<1>6. b = n
  <2>1. PICK k \in Nat : k = n
    BY <1>1
  <2>2. k \in b .. b + v - 1 /\ k - 1 \notin b .. b + v - 1
    BY <1>3, <1>4, <1>5, <2>1
  <2>3. b = k
    BY ONLY k \in Nat, b \in Nat, v \in Nat \ {0}, <2>2
  <2>4. QED BY <2>1, <2>3
<1>7. QED BY <1>3, <1>4, <1>6

LEMMA SmallestIs ==
    ASSUME NEW l \in Level
    PROVE  BlockSize(l) \in Nat /\ MinSize \in Nat \ {0} /\ BlockSize(l) >= MinSize
<1>1. PICK m \in Nat \ {0}, q \in Nat \ {0} : m = MinSize /\ q = Pow2[LastLevel - l]
  BY BuddyAssumption, LevelIs
<1>2. m * q \in Nat /\ m * q >= m
  BY ONLY m \in Nat \ {0}, q \in Nat \ {0}
<1>3. QED BY <1>1, <1>2, BlockSizeIs

LEMMA StepsReach ==
    ASSUME NEW n \in Nat, n = Pow2[LastLevel] + 1
    PROVE  n * MinSize > MaxSize
<1>1. PICK m \in Nat \ {0}, q \in Nat : m = MinSize /\ q = Pow2[LastLevel] /\ MaxSize = m * q
  BY BuddyAssumption, LevelIs, BlockSizeIs
<1>2. (q + 1) * m > m * q
  BY ONLY m \in Nat \ {0}, q \in Nat
<1>3. QED BY <1>1, <1>2

(* is_free: there is nothing in use before the address it has come to.     *)
LEMMA LookRuns ==
    ASSUME NEW n \in Nat, n = Pow2[LastLevel] + 1,
           NEW r, NEW V,
           NEW base \in V, base = [address |-> AlignedStart(r), done |-> FALSE, free |-> TRUE],
           \A v \in V : LookStep(v, r) \in V
    PROVE  \E F \in [0 .. n -> V] :
              /\ F[0] = base /\ LookFurther(r) = F[n]
              /\ \A k \in 1 .. n : F[k] = LookStep(F[k - 1], r)
<1> DEFINE seq == Up(0, Pow2[LastLevel])
           step == [x \in V \X (1 .. n) |-> LookStep(x[1], r)]
           Is(it) == it = [s \in SUBSET DOMAIN seq |->
                 IF s = {} THEN base ELSE LookStep(it[s \ {Max(s)}], r)]
           iter == CHOOSE it : Is(it)
<1>0. DOMAIN seq = 1 .. n
  <2>1. PICK m \in Nat : m = Pow2[LastLevel]
    BY LevelIs
  <2>2. QED BY <2>1 DEF Up
<1>1. LookFurther(r) = iter[DOMAIN seq]
  BY DEF LookFurther, FoldLeft, MapThenFoldSet
<1> HIDE DEF seq
<1>2. \A v \in V, k \in 1 .. n : step[<<v, k>>] = LookStep(v, r) /\ step[<<v, k>>] \in V
  OBVIOUS
<1> HIDE DEF step
<1>3. PICK f : f \in [SUBSET (1 .. n) -> V] /\ Folds(f, SUBSET (1 .. n), base, step)
  BY <1>0, <1>2, FoldExists
<1>4. Is(f)
  <2>1. ASSUME NEW s \in SUBSET (1 .. n), s # {} PROVE f[s] = LookStep(f[s \ {Max(s)}], r)
    <3>1. Max(s) \in 1 .. n /\ f[s \ {Max(s)}] \in V
      BY <1>0, <1>3, <2>1, MaxIn
    <3>2. f[s] = step[<<f[s \ {Max(s)}], Max(s)>>]
      BY <1>3, <2>1 DEF Folds
    <3>3. QED BY <1>2, <3>1, <3>2
  <2>2. \A s \in SUBSET DOMAIN seq :
            f[s] = IF s = {} THEN base ELSE LookStep(f[s \ {Max(s)}], r)
    BY <1>0, <1>3, <2>1 DEF Folds
  <2>3. f = [s \in SUBSET DOMAIN seq |-> f[s]]
    BY <1>0, <1>3
  <2>4. QED BY <2>2, <2>3
<1>5. Is(iter)
  <2> HIDE DEF Is
  <2>1. QED BY <1>4
<1>6. \A s \in SUBSET (1 .. n) : iter[s] = IF s = {} THEN base ELSE LookStep(iter[s \ {Max(s)}], r)
  BY <1>0, <1>5
<1> HIDE DEF iter, Is
<1>7. FoldsIn(iter, n, V, base, step)
  <2>1. ASSUME NEW s \in SUBSET (1 .. n), s # {}, iter[s \ {Max(s)}] \in V
        PROVE  iter[s] = step[<<iter[s \ {Max(s)}], Max(s)>>]
    <3>1. Max(s) \in 1 .. n
      BY <1>0, <2>1, MaxIn
    <3>2. QED BY <1>2, <1>6, <2>1, <3>1
  <2>2. iter[{}] = base
    BY <1>6
  <2>3. QED BY <2>1, <2>2 DEF FoldsIn
<1>8. PICK F : Runs(F, n, V, base, step, iter[1 .. n])
  BY <1>0, <1>2, <1>7, FoldRuns
<1>9. F \in [0 .. n -> V] /\ F[0] = base /\ LookFurther(r) = F[n]
  BY <1>0, <1>1, <1>8 DEF Runs
<1>10. ASSUME NEW k \in 1 .. n PROVE F[k] = LookStep(F[k - 1], r)
  <2>1. F[k - 1] \in V
    <3>1. k - 1 \in 0 .. n
      OBVIOUS
    <3>2. QED BY <1>9, <3>1
  <2>2. F[k] = step[<<F[k - 1], k>>]
    BY <1>8 DEF Runs
  <2>3. QED BY <1>2, <2>1, <2>2
<1>11. QED BY <1>9, <1>10

Looking(r) ==
    {s \in [address : Nat, done : BOOLEAN, free : BOOLEAN] :
        /\ \A x \in Nat : x < s.address => x \notin BytesIn(UsedOf(ba.status))
        /\ ~ s.done => /\ s.free /\ s.address < End(r)
                       /\ \E c \in Block : IsLeaf(ba.status[c]) /\ Address(c[1], c[2]) = s.address
        /\ s.done /\ s.free => s.address >= End(r)
        /\ s.done /\ ~ s.free => s.address < End(r) /\ s.address \in BytesIn(UsedOf(ba.status))}

(* The bytes of a free block are not in use.                               *)
LEMMA FreeBytes ==
    ASSUME KindOK, NEW st, Tree(st), NEW c \in Block, st[c] = "Free", NEW x, x \in BytesOf(c)
    PROVE  x \notin BytesIn(UsedOf(st))
<1> SUFFICES ASSUME NEW b \in UsedOf(st), x \in BytesOf(b) PROVE FALSE
  BY DEF BytesIn
<1>1. b \in Block /\ st[b] = "Used"
  BY DEF UsedOf
<1>2. b = c
  BY <1>1, LeavesApart DEF IsLeaf
<1>3. QED BY <1>1, <1>2

LEMMA LookStepStays ==
    ASSUME KindOK, PointersFit, Good(ba), NEW r, End(r) \in Nat, End(r) <= MaxSize, NEW s \in Looking(r)
    PROVE  /\ LookStep(s, r) \in Looking(r)
           /\ ~ LookStep(s, r).done => ~ s.done /\ LookStep(s, r).address >= s.address + MinSize
<1> DEFINE U == BytesIn(UsedOf(ba.status))
           a == s.address
           t == LookStep(s, r)
<1>1. /\ s \in [address : Nat, done : BOOLEAN, free : BOOLEAN] /\ a \in Nat /\ Tree(ba.status)
      /\ \A x \in Nat : x < a => x \notin U
  BY DEF Looking, Good
<1>2. CASE s.done
  <2>1. t = s
    BY <1>2 DEF LookStep
  <2>2. QED BY <1>2, <2>1
<1>3. CASE ~ s.done
  <2>1. PICK c \in Block : IsLeaf(ba.status[c]) /\ Address(c[1], c[2]) = a /\ a < End(r) /\ s.free
    BY <1>3 DEF Looking
  <2>2. CASE ba.status[c] = "Used"
    <3>1. FreeLevels(ba, a) = {}
      BY <2>1, <2>2, FreeLevelsAre
    <3>2. t = [s EXCEPT !.done = TRUE, !.free = FALSE]
      BY <1>3, <3>1 DEF LookStep
    <3>3. a \in U
      BY <2>1, <2>2, BlockBytes, SMTT(40) DEF BytesIn, UsedOf
    <3> HIDE DEF t
    <3>4. /\ t \in [address : Nat, done : BOOLEAN, free : BOOLEAN]
          /\ t.address = a /\ t.done = TRUE /\ t.free = FALSE
      BY <1>1, <3>2
    <3> HIDE DEF a
    <3>5. t \in Looking(r)
      BY <1>1, <2>1, <3>3, <3>4 DEF Looking
    <3>6. QED BY <3>4, <3>5 DEF t
  <2>3. CASE ba.status[c] = "Free"
    <3> DEFINE next == a + BlockSize(c[1])
    <3>1. FreeLevels(ba, a) = {c[1]}
      BY <2>1, <2>3, FreeLevelsAre
    <3>2. t = [address |-> next, done |-> next >= End(r), free |-> TRUE]
      BY <1>3, <3>1 DEF LookStep
    <3>3. c[1] \in Level
      BY BlockIs
    <3>4. next \in Nat /\ next >= a + MinSize
      BY <1>1, <3>3, SmallestIs
    <3>5. \A x \in Nat : x < next => x \notin U
      <4> SUFFICES ASSUME NEW x \in Nat, x < next PROVE x \notin U
        OBVIOUS
      <4>1. CASE x < a
        BY <1>1, <4>1
      <4>2. CASE ~ (x < a)
        <5>1. x \in BytesOf(c)
          BY <1>1, <2>1, <3>3, <4>2, SmallestIs DEF BytesOf
        <5>2. QED BY <1>1, <2>3, <5>1, FreeBytes
      <4>3. QED BY <4>1, <4>2
    <3>6. CASE next >= End(r)
      <4>1. t = [address |-> next, done |-> TRUE, free |-> TRUE]
        BY <3>2, <3>6
      <4> HIDE DEF t, next
      <4>2. /\ t \in [address : Nat, done : BOOLEAN, free : BOOLEAN]
            /\ t.address = next /\ t.done = TRUE /\ t.free = TRUE
        BY <3>4, <4>1
      <4>3. t \in Looking(r)
        BY <3>5, <3>6, <4>2 DEF Looking
      <4>4. QED BY <4>2, <4>3 DEF t
    <3>7. CASE ~ (next >= End(r))
      <4>0. (next >= End(r)) = FALSE
        BY <3>4, <3>7
      <4>1. t = [address |-> next, done |-> FALSE, free |-> TRUE]
        BY <3>2, <4>0
      <4>2. next < End(r) /\ next < MaxSize
        BY <3>4, <3>7, BlockSizeIs
      <4>3. \E d \in Block : IsLeaf(ba.status[d]) /\ Address(d[1], d[2]) = next
        BY <1>1, <2>1, <4>2, NextStart
      <4> HIDE DEF t, next
      <4>4. /\ t \in [address : Nat, done : BOOLEAN, free : BOOLEAN]
            /\ t.address = next /\ t.done = FALSE /\ t.free = TRUE
        BY <3>4, <4>1
      <4>5. t \in Looking(r)
        BY <3>5, <4>2, <4>3, <4>4 DEF Looking
      <4>6. QED BY <1>3, <3>4, <4>4, <4>5 DEF t
    <3>8. QED BY <3>6, <3>7
  <2>4. QED BY <2>1, <2>2, <2>3 DEF IsLeaf
<1>4. QED BY <1>2, <1>3

LEMMA FromStart ==
    ASSUME NEW r, r.start = 0
    PROVE  AlignedStart(r) = 0
<1>1. PICK f \in Nat \ {0} : f = FreeBlockSize
  BY BuddyAssumption
<1>2. 0 - (0 % f) = 0
  BY ONLY f \in Nat \ {0}
<1>3. QED BY <1>1, <1>2 DEF AlignedStart

(* It looks at the whole range.                                            *)
LEMMA IsFreeIs ==
    ASSUME KindOK, PointersFit, Good(ba), NEW r \in Reservable, r.start = 0
    PROVE  IsFree(r) <=> 0 .. r.len - 1 \subseteq (0 .. MaxSize - 1) \ BytesIn(UsedOf(ba.status))
<1>1. PICK m \in Nat, e \in Nat \ {0} : m = MaxSize /\ e = r.len /\ End(r) = e /\ e <= m
  BY BuddyAssumption, BlockSizeIs DEF End
<1> DEFINE V == Looking(r)
           base == [address |-> AlignedStart(r), done |-> FALSE, free |-> TRUE]
           U == BytesIn(UsedOf(ba.status))
<1>2. base \in V
  <2>1. base = [address |-> 0, done |-> FALSE, free |-> TRUE]
    BY FromStart
  <2>2. \E c \in Block : IsLeaf(ba.status[c]) /\ Address(c[1], c[2]) = 0
    <3>1. PICK c \in Block : IsLeaf(ba.status[c]) /\ 0 \in BytesOf(c)
      <4>1. 0 \in 0 .. MaxSize - 1 /\ Tree(ba.status)
        BY <1>1 DEF Good
      <4>2. QED BY <4>1, LeafThere
    <3>2. PICK b \in Nat, v \in Nat \ {0} : b = Address(c[1], c[2]) /\ BytesOf(c) = b .. b + v - 1
      BY BlockBytes
    <3>3. b = 0
      BY <3>1, <3>2
    <3>4. QED BY <3>1, <3>2, <3>3
  <2> HIDE DEF base
  <2>3. /\ base \in [address : Nat, done : BOOLEAN, free : BOOLEAN]
        /\ base.address = 0 /\ base.done = FALSE /\ base.free = TRUE
    BY <2>1
  <2>4. QED BY <1>1, <2>2, <2>3 DEF Looking
<1>3. ASSUME NEW v \in V
      PROVE  /\ LookStep(v, r) \in V
             /\ ~ LookStep(v, r).done => ~ v.done /\ LookStep(v, r).address >= v.address + MinSize
  BY <1>1, LookStepStays
<1>4. PICK n \in Nat : n = Pow2[LastLevel] + 1
  <2>1. PICK k \in Nat : k = Pow2[LastLevel]
    BY LevelIs
  <2>2. QED BY <2>1
<1>5. \A v \in V : v.address \in Nat
  BY DEF Looking
<1> HIDE DEF V, base
<1>6. PICK F \in [0 .. n -> V] :
          /\ F[0] = base /\ LookFurther(r) = F[n]
          /\ \A k \in 1 .. n : F[k] = LookStep(F[k - 1], r)
  BY <1>2, <1>3, <1>4, LookRuns, SMTT(40) DEF base
<1>7. PICK w \in Nat \ {0} : w = MinSize
  BY BuddyAssumption
<1> DEFINE S == {k \in Nat : k <= n /\ ~ F[k].done => F[k].address >= k * w}
<1>8. 0 \in S
  <2>1. F[0] \in V /\ 0 * w = 0
    BY <1>4, <1>7
  <2>2. QED BY <1>5, <2>1
<1>9. ASSUME NEW k \in Nat, k \in S PROVE k + 1 \in S
  <2> SUFFICES ASSUME k + 1 <= n, ~ F[k + 1].done PROVE F[k + 1].address >= (k + 1) * w
    OBVIOUS
  <2>1. k \in 0 .. n /\ k + 1 \in 1 .. n /\ k + 1 \in 0 .. n /\ (k + 1) - 1 = k
    BY <1>4
  <2>2. F[k] \in V /\ F[k + 1] \in V /\ F[k + 1] = LookStep(F[k], r)
    BY <1>6, <2>1
  <2>3. ~ F[k].done /\ F[k + 1].address >= F[k].address + w
    BY <1>3, <1>7, <2>2
  <2>4. F[k].address >= k * w
    BY <1>9, <2>1, <2>3
  <2>5. PICK x \in Nat, y \in Nat : x = F[k].address /\ y = F[k + 1].address
    BY <1>5, <2>2
  <2>6. x >= k * w /\ y >= x + w
    BY <2>3, <2>4, <2>5
  <2>7. y >= (k + 1) * w
    BY ONLY x \in Nat, y \in Nat, k \in Nat, w \in Nat \ {0}, <2>6
  <2>8. QED BY <2>5, <2>7
<1>10. n \in S
  <2> HIDE DEF S
  <2>1. QED BY <1>4, <1>8, <1>9, SetInduction
<1>11. F[n] \in V
  BY <1>4
<1>12. F[n].done
  <2> SUFFICES ASSUME ~ F[n].done PROVE FALSE
    OBVIOUS
  <2>1. PICK x \in Nat : x = F[n].address
    BY <1>5, <1>11
  <2>2. x >= n * w
    BY <1>10, <2>1
  <2>3. n * w > m
    BY <1>1, <1>4, <1>7, StepsReach
  <2>4. x < e
    BY <1>1, <1>11, <2>1 DEF V, Looking
  <2>5. PICK q \in Int : q = n * w
    BY <1>7
  <2>6. QED BY <1>1, <2>2, <2>3, <2>4, <2>5
<1>13. PICK z \in V : z = F[n] /\ IsFree(r) = z.free
  BY <1>6, <1>11 DEF IsFree
<1>14. /\ z.address \in Nat /\ z.free \in BOOLEAN
       /\ \A x \in Nat : x < z.address => x \notin U
       /\ z.free => z.address >= e
       /\ ~ z.free => z.address < e /\ z.address \in U
  BY <1>1, <1>12, <1>13 DEF V, Looking
<1> HIDE DEF U
<1>15. CASE z.free
  <2>1. 0 .. e - 1 \subseteq (0 .. m - 1) \ U
    BY <1>1, <1>14, <1>15
  <2>2. QED BY <1>1, <1>13, <1>15, <2>1 DEF U
<1>16. CASE ~ z.free
  <2>1. ~ (0 .. e - 1 \subseteq (0 .. m - 1) \ U)
    BY <1>1, <1>14, <1>16
  <2>2. QED BY <1>1, <1>13, <1>14, <1>16, <2>1 DEF U
<1>17. QED BY <1>15, <1>16

(* The block that is split begins where the range does, and a half is only *)
(* taken when the range ends in it.                                        *)
Nearing(base, r) ==
    {s \in Narrowing(UsedOf(base.h.status)) :
        /\ Address(s.level, s.index) = Address(base.level, base.index)
        /\ s = base \/ LET a == Address(base.level, base.index)
                       IN  End(r) < a + BlockSize(s.level) /\ End(r) < a + BlockSize(base.level)}

LEMMA HalfIs ==
    ASSUME NEW l \in Level, l < LastLevel, NEW i \in Nat
    PROVE  /\ l + 1 \in Level /\ BlockSize(l + 1) \in Nat \ {0}
           /\ BlockSize(l) = 2 * BlockSize(l + 1) /\ BlockSize(l) \div 2 = BlockSize(l + 1)
           /\ Address(l, i) \in Nat /\ Address(l + 1, 2 * i) = Address(l, i)
<1>1. PICK w : Widths(w) /\ (\A k \in Level : BlockSize(k) = w[k])
  BY BytesAre
<1>2. l + 1 \in Level
  BY LevelIs
<1>3. PICK n \in Nat \ {0} : n = BlockSize(l + 1) /\ BlockSize(l) = 2 * n
  <2>1. w[l + 1] \in Nat \ {0} /\ w[l] = 2 * w[l + 1]
    <3>1. l + 1 > 0 /\ (l + 1) - 1 = l
      BY LevelIs
    <3>2. QED BY <1>1, <1>2, <3>1 DEF Widths
  <2>2. QED BY <1>1, <1>2, <2>1
<1>4. (2 * n) \div 2 = n /\ i * (2 * n) = (2 * i) * n /\ i * (2 * n) \in Nat
  BY ONLY n \in Nat \ {0}, i \in Nat
<1>5. QED BY <1>2, <1>3, <1>4 DEF Address

LEMMA NearingStays ==
    ASSUME KindOK, NEW base, NEW r, AlignedStart(r) = 0, End(r) \in Nat,
           base.level \in Level, base.index \in 0 .. Pow2[base.level] - 1, NEW s \in Nearing(base, r)
    PROVE  NarrowStep(s, r) \in Nearing(base, r)
<1> DEFINE t == NarrowStep(s, r)
           l == s.level
           i == s.index
           a == Address(base.level, base.index)
           middle == Address(l, i) + BlockSize(l) \div 2
<1>0. Level = 0 .. LastLevel /\ LastLevel \in Nat
  BY LevelIs
<1>1. s \in Narrowing(UsedOf(base.h.status)) /\ Address(l, i) = a
  BY DEF Nearing
<1>2. l \in Level /\ i \in Nat
  BY <1>1 DEF Narrowing
<1>3. t \in Narrowing(UsedOf(base.h.status))
  BY <1>1, NarrowStepStays
<1>4. CASE t = s
  BY <1>4
<1>5. CASE t # s
  <2>1. l # LastLevel /\ (AlignedStart(r) >= middle \/ End(r) < middle)
    BY <1>5 DEF NarrowStep
  <2>2. l < LastLevel
    BY <1>0, <1>2, <2>1
  <2>3. PICK n \in Nat \ {0}, b \in Nat :
            /\ n = BlockSize(l + 1) /\ b = Address(l, i) /\ BlockSize(l) = 2 * n
            /\ middle = b + n /\ Address(l + 1, 2 * i) = b
    BY <1>2, <2>2, HalfIs, ZenonT(60)
  <2>4. ~ (AlignedStart(r) >= middle)
    BY <2>3
  <2>5. End(r) < b + n
    BY <2>1, <2>3, <2>4
  <2>6. t.level = l + 1 /\ t.index = 2 * i
    <3>1. t = [h |-> Split(s.h, l, i), level |-> l + 1, index |-> 2 * i + IF AlignedStart(r) >= middle THEN 1 ELSE 0]
      BY <2>1 DEF NarrowStep
    <3>2. (IF AlignedStart(r) >= middle THEN 1 ELSE 0) = 0
      BY <2>4
    <3>3. t.level = l + 1 /\ t.index = 2 * i + IF AlignedStart(r) >= middle THEN 1 ELSE 0
      BY <3>1
    <3> HIDE DEF t, i, middle
    <3>4. t.index = 2 * i + 0
      BY <3>2, <3>3
    <3>5. QED BY <1>2, <3>3, <3>4
  <2>7. End(r) < a + BlockSize(base.level)
    <3>1. CASE s = base
      BY <1>1, <2>3, <2>5, <3>1
    <3>2. CASE s # base
      BY <3>2 DEF Nearing
    <3>3. QED BY <3>1, <3>2
  <2>8. Address(t.level, t.index) = a /\ End(r) < a + BlockSize(t.level)
    BY <1>1, <2>3, <2>5, <2>6
  <2> HIDE DEF t
  <2>9. t \in Nearing(base, r)
    BY <1>3, <2>7, <2>8 DEF Nearing
  <2>10. QED BY <2>9 DEF t
<1>6. QED BY <1>4, <1>5

(* The block that reserve takes, of the free block that it came to.        *)
LEMMA NarrowedIs ==
    ASSUME KindOK, NEW h, Good(h), NoPair(h.status), NEW l \in Level, NEW i \in 0 .. Pow2[l] - 1,
           NEW r, h.status[<<l, i>>] = "Free", AlignedStart(r) = 0, End(r) \in Nat
    PROVE  \E w \in Narrowing(UsedOf(h.status)) :
              /\ w = Narrowed(h, r, l, i) /\ Address(w.level, w.index) = Address(l, i)
              /\ \/ w = [h |-> h, level |-> l, index |-> i]
                 \/ /\ End(r) < Address(l, i) + BlockSize(w.level)
                    /\ End(r) < Address(l, i) + BlockSize(l)
<1> DEFINE base == [h |-> h, level |-> l, index |-> i]
           V == Nearing(base, r)
<1>0. LastLevel \in Nat /\ l \in Nat /\ i \in Nat /\ LastLevel - l \in Nat
  BY LevelIs
<1>1. base \in Narrowing(UsedOf(h.status))
  <2>1. h \in HeapType
    BY DEF Good, Listed
  <2>2. OnlyPair(h.status, <<l, i>>)
    BY NoPairIs
  <2>3. QED BY <1>0, <2>1, <2>2 DEF Narrowing
<1>2. base.h = h /\ base.level = l /\ base.index = i
  OBVIOUS
<1> HIDE DEF base
<1>3. base \in V
  BY <1>1, <1>2 DEF Nearing
<1>4. \A v \in V : NarrowStep(v, r) \in V
  BY <1>2, NearingStays
<1>5. PICK n \in Nat : n = LastLevel - l
  BY <1>0
<1> HIDE DEF V
<1>6. Narrowed(h, r, l, i) \in V
  BY <1>0, <1>3, <1>4, <1>5, NarrowedIn DEF base
<1>7. QED BY <1>2, <1>6 DEF V, Nearing, base

(* All of the range before the address that reserve has come to is in use; *)
(* what comes then is as it was.                                           *)
Taking(r) ==
    {s \in Reserving(UsedOf(ba.status)) :
        /\ \A x \in Nat : x < End(r) /\ x < s.address => x \in BytesIn(UsedOf(s.h.status))
        /\ s.address < End(r) =>
              /\ ~ s.done
              /\ \E c \in Block : IsLeaf(ba.status[c]) /\ Address(c[1], c[2]) = s.address
              /\ \A b \in Block : Address(b[1], b[2]) >= s.address => s.h.status[b] = ba.status[b]}

LEMMA TakingStays ==
    ASSUME KindOK, PointersFit, Good(ba), NEW r, AlignedStart(r) = 0, End(r) \in Nat, End(r) <= MaxSize,
           \A x \in Nat : x < End(r) => x \notin BytesIn(UsedOf(ba.status)), NEW s \in Taking(r)
    PROVE  /\ ReserveStep(s, r) \in Taking(r)
           /\ ReserveStep(s, r).address >= s.address
           /\ s.address < End(r) => ReserveStep(s, r).address >= s.address + MinSize
<1> DEFINE h == s.h
           a == s.address
           t == ReserveStep(s, r)
           B(x) == BytesIn(UsedOf(x))
<1>1. /\ s \in Reserving(UsedOf(ba.status)) /\ a \in Nat /\ Good(h) /\ NoPair(h.status)
      /\ UsedOf(ba.status) \subseteq UsedOf(h.status) /\ Tree(ba.status) /\ Tree(h.status)
      /\ \A x \in Nat : x < End(r) /\ x < a => x \in B(h.status)
  BY DEF Taking, Reserving, Good
<1>2. t \in Reserving(UsedOf(h.status)) /\ t \in Reserving(UsedOf(ba.status))
  <2>1. s \in Reserving(UsedOf(h.status))
    BY <1>1 DEF Reserving
  <2>2. QED BY <1>1, <2>1, ReserveStepStays
<1>3. t.address \in Nat /\ UsedOf(h.status) \subseteq UsedOf(t.h.status)
  BY <1>2 DEF Reserving
<1>4. B(h.status) \subseteq B(t.h.status)
  <2> HIDE DEF t, h
  <2>1. QED BY <1>3 DEF BytesIn
<1>5. MinSize \in Nat \ {0}
  BY BuddyAssumption
<1>6. CASE ~ (a < End(r))
  <2>1. t.address >= a
    <3> DEFINE l == CHOOSE k \in FreeLevels(h, a) : TRUE
    <3>1. t.address = a \/ (FreeLevels(h, a) # {} /\ t.address = a + BlockSize(l))
      <4>1. \/ t = [s EXCEPT !.done = TRUE]
            \/ /\ FreeLevels(h, a) # {}
               /\ \E g, d : t = [h |-> g, address |-> a + BlockSize(l), done |-> d]
        BY DEF ReserveStep
      <4>2. CASE t = [s EXCEPT !.done = TRUE]
        <5>1. s \in [h : HeapType, address : Nat, done : BOOLEAN]
          BY <1>1 DEF Reserving
        <5> HIDE DEF t
        <5>2. QED BY <4>2, <5>1
      <4>3. CASE /\ FreeLevels(h, a) # {}
                 /\ \E g, d : t = [h |-> g, address |-> a + BlockSize(l), done |-> d]
        <5> HIDE DEF t, l, h, a
        <5>1. QED BY <4>3
      <4>4. QED BY <4>1, <4>2, <4>3
    <3>2. FreeLevels(h, a) # {} => l \in Level
      BY DEF FreeLevels
    <3> HIDE DEF l, t
    <3>3. QED BY <1>1, <3>1, <3>2, SmallestIs
  <2>2. ~ (t.address < End(r))
    BY <1>1, <1>3, <1>6, <2>1
  <2>3. \A x \in Nat : x < End(r) /\ x < t.address => x \in B(t.h.status)
    BY <1>1, <1>4, <1>6
  <2> HIDE DEF t
  <2>4. t \in Taking(r)
    BY <1>2, <2>2, <2>3 DEF Taking
  <2>5. QED BY <1>6, <2>1, <2>4 DEF t
<1>7. CASE a < End(r)
  <2>1. /\ ~ s.done
        /\ \A b \in Block : Address(b[1], b[2]) >= a => h.status[b] = ba.status[b]
    BY <1>7 DEF Taking
  <2>2. PICK c \in Block : IsLeaf(ba.status[c]) /\ Address(c[1], c[2]) = a
    BY <1>7 DEF Taking
  <2>3. PICK l, i : c = <<l, i>> /\ l = c[1] /\ i = c[2] /\ l \in Level /\ i \in 0 .. Pow2[l] - 1
    BY BlockIs
  <2>4. ba.status[c] = "Free"
    <3>1. a \in BytesOf(c) /\ a \notin B(ba.status)
      BY <1>1, <1>7, <2>2, BlockBytes
    <3>2. c \notin UsedOf(ba.status)
      BY <3>1 DEF BytesIn
    <3>3. QED BY <2>2, <3>2 DEF UsedOf, IsLeaf
  <2>5. h.status[c] = "Free"
    BY <1>1, <2>1, <2>2, <2>4
  <2>6. FreeLevels(h, a) = {l} /\ BlockToIndex(l, AddressToBlock(a)) = i
    BY <1>1, <2>2, <2>3, <2>5, FreeLevelsAre DEF IsLeaf
  <2> DEFINE w == Narrowed(h, r, l, i)
             u == <<w.level, w.index>>
             g == ReserveBlock(w.h, w.level, IndexToBlock(w.level, w.index))
             next == a + BlockSize(l)
  <2>7. /\ w \in Narrowing(UsedOf(h.status)) /\ Address(w.level, w.index) = a
        /\ \/ w = [h |-> h, level |-> l, index |-> i]
           \/ End(r) < a + BlockSize(w.level) /\ End(r) < next
    BY <1>1, <2>2, <2>3, <2>5, NarrowedIs
  <2>8. t = [h |-> g, address |-> next, done |-> next >= MaxSize]
    <3>1. (CHOOSE k \in FreeLevels(h, a) : TRUE) = l /\ FreeLevels(h, a) # {}
      BY <2>6
    <3>2. Address(l, i) = a
      BY <2>2, <2>3
    <3>3. ~ (Address(l, i) >= End(r))
      BY <1>1, <1>7, <3>2
    <3>4. QED BY <2>1, <2>6, <3>1, <3>3 DEF ReserveStep
  <2> HIDE DEF w
  <2>9. /\ u \in Block /\ u[1] = w.level /\ u[2] = w.index
        /\ IsChangeOf(g.status, w.h.status, u, "Used") /\ Good(w.h)
    <3>1. /\ w.level \in Level /\ w.index \in 0 .. Pow2[w.level] - 1 /\ Good(w.h)
          /\ w.h.status[u] = "Free"
      BY <2>7 DEF Narrowing
    <3>2. QED BY <3>1, ReserveGood, BlockIs
  <2>10. u \in UsedOf(g.status)
    BY <2>9 DEF IsChangeOf, UsedOf
  <2>11. BytesOf(u) = a .. a + BlockSize(w.level) - 1 /\ BlockSize(w.level) \in Nat
    BY <2>7, <2>9, BlockBytes
  <2>12. t.h = g /\ t.address = next
    BY <2>8
  <2> HIDE DEF t, g, u
  <2>13. next \in Nat /\ next >= a + MinSize
    BY <1>1, <2>3, SmallestIs
  <2>14. \A x \in Nat : x < End(r) /\ x < next => x \in B(g.status)
    <3> SUFFICES ASSUME NEW x \in Nat, x < End(r), x < next PROVE x \in B(g.status)
      OBVIOUS
    <3>1. CASE x < a
      BY <1>1, <1>4, <2>12, <3>1
    <3>2. CASE ~ (x < a)
      <4>1. CASE w = [h |-> h, level |-> l, index |-> i]
        <5>1. w.level = l
          BY <4>1
        <5>2. x \in BytesOf(u)
          BY <1>1, <2>11, <3>2, <5>1
        <5>3. QED BY <2>10, <5>2 DEF BytesIn
      <4>2. CASE End(r) < a + BlockSize(w.level) /\ End(r) < next
        <5>2. x \in BytesOf(u)
          BY <1>1, <2>11, <3>2, <4>2
        <5>3. QED BY <2>10, <5>2 DEF BytesIn
      <4>3. QED BY <2>7, <4>1, <4>2
    <3>3. QED BY <3>1, <3>2
  <2>15. ASSUME next < End(r)
         PROVE  /\ ~ t.done
                /\ \E d \in Block : IsLeaf(ba.status[d]) /\ Address(d[1], d[2]) = next
                /\ \A b \in Block : Address(b[1], b[2]) >= next => g.status[b] = ba.status[b]
    <3>1. next < MaxSize
      BY <2>13, <2>15, BlockSizeIs
    <3>2. ~ t.done
      <4>1. (next >= MaxSize) = FALSE
        BY <2>13, <3>1, BlockSizeIs
      <4>2. t = [h |-> g, address |-> next, done |-> FALSE]
        BY <2>8, <4>1
      <4>3. QED BY <4>2
    <3>3. \E d \in Block : IsLeaf(ba.status[d]) /\ Address(d[1], d[2]) = next
      BY <1>1, <2>2, <2>3, <3>1, NextStart
    <3>4. w = [h |-> h, level |-> l, index |-> i]
      BY <2>7, <2>13, <2>15
    <3>5. w.h = h /\ u = c
      BY <2>3, <3>4 DEF u
    <3>6. ASSUME NEW b \in Block, Address(b[1], b[2]) >= next PROVE g.status[b] = ba.status[b]
      <4>1. Address(b[1], b[2]) \in Nat
        BY BlockBytes
      <4>2. Address(b[1], b[2]) >= a /\ Address(b[1], b[2]) # a
        BY <1>1, <1>5, <2>13, <3>6, <4>1
      <4>3. b # c
        BY <2>2, <4>2
      <4>4. QED BY <2>1, <2>9, <3>5, <4>2, <4>3 DEF IsChangeOf
    <3>7. QED BY <3>2, <3>3, <3>6
  <2>16. t \in Taking(r)
    BY <1>2, <2>12, <2>14, <2>15 DEF Taking
  <2> HIDE DEF next
  <2>17. t.address >= a + MinSize /\ t.address >= a
    BY <1>1, <1>5, <2>12, <2>13
  <2>18. QED BY <2>16, <2>17 DEF t
<1>8. QED BY <1>6, <1>7

(* It takes the whole range.                                               *)
LEMMA ReservedIs ==
    ASSUME KindOK, PointersFit, Good(ba), NoPair(ba.status), NEW r \in Reservable, r.start = 0,
           IsFree(r)
    PROVE  0 .. r.len - 1 \subseteq BytesIn(UsedOf(Reserved(ba, r).status))
<1>1. PICK m \in Nat, e \in Nat \ {0} : m = MaxSize /\ e = r.len /\ End(r) = e /\ e <= m
  BY BuddyAssumption, BlockSizeIs DEF End
<1> DEFINE V == Taking(r)
           base == [h |-> ba, address |-> AlignedStart(r), done |-> FALSE]
<1>2. AlignedStart(r) = 0
  BY FromStart
<1>3. 0 .. e - 1 \subseteq (0 .. MaxSize - 1) \ BytesIn(UsedOf(ba.status))
  BY <1>1, IsFreeIs
<1>4. base \in V
  <2>1. base = [h |-> ba, address |-> 0, done |-> FALSE]
    BY <1>2
  <2>2. \E c \in Block : IsLeaf(ba.status[c]) /\ Address(c[1], c[2]) = 0
    <3>1. PICK c \in Block : IsLeaf(ba.status[c]) /\ 0 \in BytesOf(c)
      <4>1. 0 \in 0 .. MaxSize - 1 /\ Tree(ba.status)
        BY <1>1 DEF Good
      <4>2. QED BY <4>1, LeafThere
    <3>2. PICK b \in Nat, v \in Nat \ {0} : b = Address(c[1], c[2]) /\ BytesOf(c) = b .. b + v - 1
      BY BlockBytes
    <3>3. b = 0
      BY <3>1, <3>2
    <3>4. QED BY <3>1, <3>2, <3>3
  <2> HIDE DEF base
  <2>3. ba \in HeapType
    BY DEF Good, Listed
  <2>4. /\ base \in [h : HeapType, address : Nat, done : BOOLEAN]
        /\ base.h = ba /\ base.address = 0 /\ base.done = FALSE
    BY <2>1, <2>3
  <2>5. base \in Reserving(UsedOf(ba.status))
    BY <1>1, <2>4 DEF Reserving
  <2>6. QED BY <1>1, <2>2, <2>4, <2>5 DEF Taking
<1>5. ASSUME NEW v \in V
      PROVE  /\ ReserveStep(v, r) \in V
             /\ ReserveStep(v, r).address >= v.address
             /\ v.address < e => ReserveStep(v, r).address >= v.address + MinSize
  <2>1. \A x \in Nat : x < End(r) => x \notin BytesIn(UsedOf(ba.status))
    BY <1>1, <1>3
  <2>2. QED BY <1>1, <1>2, <2>1, TakingStays
<1>6. PICK n \in Nat : n = Pow2[LastLevel] + 1
  <2>1. PICK k \in Nat : k = Pow2[LastLevel]
    BY LevelIs
  <2>2. QED BY <2>1
<1>7. \A v \in V : v.address \in Nat
  BY DEF Taking, Reserving
<1> HIDE DEF V, base
<1>8. PICK F \in [0 .. n -> V] :
          /\ F[0] = base /\ Reserved(ba, r) = F[n].h
          /\ \A k \in 1 .. n : F[k] = ReserveStep(F[k - 1], r)
  BY <1>4, <1>5, <1>6, ReservedRuns, SMTT(40) DEF base
<1>9. PICK w \in Nat \ {0} : w = MinSize
  BY BuddyAssumption
<1> DEFINE S == {k \in Nat : k <= n => F[k].address >= k * w \/ F[k].address >= e}
<1>10. 0 \in S
  <2>1. F[0] \in V /\ 0 * w = 0
    BY <1>6, <1>9
  <2>2. QED BY <1>7, <2>1
<1>11. ASSUME NEW k \in Nat, k \in S PROVE k + 1 \in S
  <2> SUFFICES ASSUME k + 1 <= n
               PROVE  F[k + 1].address >= (k + 1) * w \/ F[k + 1].address >= e
    OBVIOUS
  <2>1. k \in 0 .. n /\ k + 1 \in 1 .. n /\ k + 1 \in 0 .. n /\ (k + 1) - 1 = k
    BY <1>6
  <2>2. F[k] \in V /\ F[k + 1] \in V /\ F[k + 1] = ReserveStep(F[k], r)
    BY <1>8, <2>1
  <2>3. /\ F[k + 1].address >= F[k].address
        /\ F[k].address < e => F[k + 1].address >= F[k].address + w
    BY <1>5, <1>9, <2>2
  <2>4. F[k].address >= k * w \/ F[k].address >= e
    BY <1>11, <2>1
  <2>5. PICK x \in Nat, y \in Nat : x = F[k].address /\ y = F[k + 1].address
    BY <1>7, <2>2
  <2>6. (x >= k * w \/ x >= e) /\ y >= x /\ (x < e => y >= x + w)
    BY <2>3, <2>4, <2>5
  <2>7. y >= (k + 1) * w \/ y >= e
    BY ONLY x \in Nat, y \in Nat, k \in Nat, w \in Nat \ {0}, e \in Nat \ {0}, <2>6
  <2>8. QED BY <2>5, <2>7
<1>12. n \in S
  <2> HIDE DEF S
  <2>1. QED BY <1>6, <1>10, <1>11, SetInduction
<1>13. PICK z \in V : z = F[n]
  BY <1>6
<1>14. z.address >= e
  <2>1. PICK x \in Nat : x = z.address
    BY <1>7
  <2>2. x >= n * w \/ x >= e
    BY <1>12, <1>13, <2>1
  <2>3. n * w > m
    BY <1>1, <1>6, <1>9, StepsReach
  <2>4. PICK q \in Int : q = n * w
    BY <1>9
  <2>5. QED BY <1>1, <2>1, <2>2, <2>3, <2>4
<1>15. \A x \in Nat : x < e => x \in BytesIn(UsedOf(z.h.status))
  <2>1. \A x \in Nat : x < e /\ x < z.address => x \in BytesIn(UsedOf(z.h.status))
    BY <1>1 DEF V, Taking
  <2>2. QED BY <1>7, <1>14, <2>1
<1>16. QED BY <1>1, <1>8, <1>13, <1>15

LEMMA ReserveIsHeaps ==
    ASSUME BuddyInv, NEW r \in Reservable, r.start = 0, Reserve(r)
    PROVE  H!Reserve(r)
<1>1. KindOK /\ PointersFit /\ Good(ba) /\ NoPair(ba.status) /\ AllocsHeld(ba.status)
  BY DEF BuddyInv
<1> DEFINE B == 0 .. r.len - 1
           U == BytesIn(UsedOf(ba.status))
           V == BytesIn(UsedOf(ba'.status))
<1>2. H!Bytes(r.start, r.len) = B
  <2>1. r.len \in Nat
    BY BuddyAssumption
  <2>2. QED BY <2>1 DEF H!Bytes
<1>3. H!Unused = (0 .. MaxSize - 1) \ U
  BY <1>1, UnusedIs
<1>4. IsFree(r) <=> B \subseteq H!Unused
  BY <1>1, <1>3, IsFreeIs
<1>5. Withheld = U \ TakenBy(allocs) /\ Withheld' = V \ TakenBy(allocs')
  BY WithheldIs
<1>6. CASE ~ IsFree(r)
  <2>1. refused' = {r} /\ UNCHANGED <<ba, allocs>>
    BY <1>6 DEF Reserve
  <2>2. Withheld' = Withheld
    BY <1>5, <2>1
  <2>3. QED BY <1>2, <1>4, <1>6, <2>1, <2>2 DEF H!Reserve, Withheld
<1>7. CASE IsFree(r)
  <2>1. ba' = Reserved(ba, r) /\ refused' = {} /\ allocs' = allocs
    BY <1>7 DEF Reserve
  <2>2. UsedOf(ba.status) \subseteq UsedOf(ba'.status)
    BY <1>1, <2>1, ReservedGood
  <2>3. B \subseteq V
    BY <1>1, <1>7, <2>1, ReservedIs
  <2>4. V \subseteq 0 .. MaxSize - 1
    BY BlockBytes DEF BytesIn, UsedOf
  <2>5. U \subseteq V
    BY <2>2 DEF BytesIn
  <2>6. TakenBy(allocs) \subseteq U
    BY <1>1, TakenInUse
  <2> HIDE DEF B, U, V
  <2>7. B \cap TakenBy(allocs) = {}
    BY <1>3, <1>4, <1>7, <2>6
  <2>8. Withheld \cup B \subseteq Withheld' /\ Withheld' \subseteq (0 .. MaxSize - 1) \ TakenBy(allocs)
    BY <1>5, <2>1, <2>3, <2>4, <2>5, <2>7
  <2>9. H!Taken = TakenBy(allocs)
    BY DEF H!Taken, H!Bytes, TakenBy
  <2>10. QED BY <1>2, <1>4, <1>7, <2>1, <2>8, <2>9 DEF H!Reserve, Withheld
<1>8. QED BY <1>6, <1>7

LEMMA StartsAsHeap == BuddyInit => H!Init
<1> SUFFICES ASSUME BuddyInit PROVE H!Init
  OBVIOUS
<1>1. allocs = {} /\ refused = {} /\ kind \in {"InSelf", "InManagedArea"}
  BY DEF BuddyInit
<1>2. \A b \in Block : ba.status[b] # "Used"
  <2>1. ba.status = [b \in Block |-> IF b = <<0, 0>> THEN "Free" ELSE "Invalid"]
    <3>1. ASSUME NEW h, NEW l, NEW p PROVE Push(h, l, p).status = h.status
      BY DEF Push
    <3>2. QED BY <3>1 DEF BuddyInit
  <2>2. QED BY <2>1
<1>3. UsedBytes = {}
  BY <1>2 DEF UsedBytes, WithStatus
<1>4. QED BY <1>1, <1>3 DEF H!Init

(* The ranges begin where the area does, as the one that the kernel        *)
(* reserves (kernel/platform/memory.zig, line 307).                        *)
RangesFromStart == \A r \in Reservable : r.start = 0

(* Each alloc, free and reserve of kernel/buddy_allocator.zig is one of    *)
(* Heap: what alloc gives is aligned, as large as was asked for and no     *)
(* part of anything that is held or was reserved; OutOfMemory means that   *)
(* there was no such place, for free has merged all that it could; the     *)
(* range that reserve accepts was all unused and is withheld, and the one  *)
(* it refuses was not.                                                     *)
THEOREM AllocatorIsAHeap ==
    ASSUME RangesFromStart
    PROVE  BuddySpec /\ PointersFit => ImplementsHeap
<1>1. BuddyInv /\ [BuddyNext]_buddyVars => [H!Next]_(H!heapVars)
  <2> SUFFICES ASSUME BuddyInv, [BuddyNext]_buddyVars PROVE [H!Next]_(H!heapVars)
    OBVIOUS
  <2>1. CASE UNCHANGED buddyVars
    <3>1. ba' = ba /\ allocs' = allocs /\ refused' = refused
      BY <2>1 DEF buddyVars
    <3>2. Withheld' = Withheld
      BY <3>1, WithheldIs
    <3>3. QED BY <3>1, <3>2 DEF H!heapVars, Withheld
  <2>2. CASE BuddyNext
    <3>1. ASSUME NEW size \in Sizes, Alloc(size) PROVE H!Next
      BY <3>1, AllocIsHeaps DEF H!Next
    <3>2. ASSUME NEW a \in allocs, Free(a) PROVE H!Next
      BY <3>2, FreeIsHeaps DEF H!Next
    <3>3. ASSUME NEW r \in Reservable, Reserve(r) PROVE H!Next
      BY <3>3, ReserveIsHeaps DEF H!Next, RangesFromStart
    <3>4. QED BY <2>2, <3>1, <3>2, <3>3 DEF BuddyNext
  <2>3. QED BY <2>1, <2>2
<1>2. QED BY <1>1, StartsAsHeap, BuddyInvHolds, PTL DEF BuddySpec, ImplementsHeap, H!Spec

===============================================================================
