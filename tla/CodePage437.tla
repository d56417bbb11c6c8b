----------------------------- MODULE CodePage437 -----------------------------
(***************************************************************************)
(* scripts/codegen/code_page_437.py, and what the CGA console does with    *)
(* what it generates: Unicode code points are looked up in a few ranges of *)
(* them that have consecutive places in code page 437, and then in a hash  *)
(* table for the rest.                                                     *)
(***************************************************************************)
EXTENDS Integers, SequencesExt

CONSTANT LastCodePoint      \* bound: the last code point that is asked for

ASSUME CodePageAssumption == LastCodePoint \in Nat

(* The code points of the characters 1 to 255; character 0 is left out.    *)
Upwards(first, last) == [i \in 1 .. last - first + 1 |-> first + i - 1]

LowKeys == <<
    9786, 9787, 9829, 9830, 9827, 9824, 8226, 9688, 9675, 9689, 9794, 9792,
    9834, 9835, 9788, 9658, 9668, 8597, 8252, 182, 167, 9644, 8616, 8593,
    8595, 8594, 8592, 8735, 8596, 9650, 9660 >> \o Upwards(32, 126) \o <<8962>>

HighKeys == <<
    199, 252, 233, 226, 228, 224, 229, 231, 234, 235, 232, 239, 238, 236, 196,
    197, 201, 230, 198, 244, 246, 242, 251, 249, 255, 214, 220, 162, 163, 165,
    8359, 402, 225, 237, 243, 250, 241, 209, 170, 186, 191, 8976, 172, 189,
    188, 161, 171, 187, 9617, 9618, 9619, 9474, 9508, 9569, 9570, 9558, 9557,
    9571, 9553, 9559, 9565, 9564, 9563, 9488, 9492, 9524, 9516, 9500, 9472,
    9532, 9566, 9567, 9562, 9556, 9577, 9574, 9568, 9552, 9580, 9575, 9576,
    9572, 9573, 9561, 9560, 9554, 9555, 9579, 9578, 9496, 9484, 9608, 9604,
    9612, 9616, 9600, 945, 223, 915, 960, 931, 963, 181, 964, 934, 920, 937,
    948, 8734, 966, 949, 8745, 8801, 177, 8805, 8804, 8992, 8993, 247, 8776,
    176, 8729, 183, 8730, 8319, 178, 9632, 160 >>

keys == LowKeys \o HighKeys

------------------------------------------------------------------------------
(* The generator: pairs of a key and its value, in the order of the keys;  *)
(* the places where a range of consecutive keys starts, and the ranges.    *)

KeyValues == LET Before(a, b) == a.key < b.key
             IN  SortSeq([v \in DOMAIN keys |-> [key |-> keys[v], value |-> v]], Before)

Starts(kvs) == {i \in DOMAIN kvs : i = 1 \/ kvs[i].key # kvs[i - 1].key + 1}

Ranges(kvs, starts) ==
    LET EndOf(i) == Min({j \in i .. Len(kvs) : j = Len(kvs) \/ j + 1 \in starts})
    IN  {SubSeq(kvs, i, EndOf(i)) : i \in starts}

Offset(kv) == kv.key - kv.value
SameOffset(r) == \A i \in DOMAIN r : Offset(r[i]) = Offset(r[1])

ContiguousRanges(ranges) == {r \in ranges : SameOffset(r) /\ Len(r) > 1}

(* The pairs of the other ranges, the longer ranges first.                 *)
Hashed(kvs, ranges) ==
    LET RangeOf(kv) == CHOOSE r \in ranges : kv \in ToSet(r)
        IsHashed(kv) == RangeOf(kv) \notin ContiguousRanges(ranges)
        Before(a, b) ==
            LET longer == Len(RangeOf(a)) - Len(RangeOf(b))
            IN  longer > 0 \/ (longer = 0 /\ a.key < b.key)
    IN  SortSeq(SelectSeq(kvs, IsHashed), Before)

Buckets(hashed) == [hash \in 0 .. Len(hashed) - 1 |->
    LET IsHere(kv) == kv.key % Len(hashed) = hash IN SelectSeq(hashed, IsHere)]

MaxBucketLength(buckets) == Max({Len(buckets[h]) : h \in DOMAIN buckets})

MaxHashUsedSlip(buckets) == Cardinality({h \in DOMAIN buckets : buckets[h] # <<>>})  \* how many

MaxHashUsed(buckets) == Max({h \in DOMAIN buckets : buckets[h] # <<>>})

(* An entry has a byte that says there is one, the value and the key.      *)
Entry(kv) == 2 ^ 24 + kv.value * 2 ^ 16 + kv.key

HashTable(buckets, length) == [at \in 0 .. (MaxHashUsed(buckets) + 1) * length - 1 |->
    LET bucket == buckets[at \div length]
        i == (at % length) + 1
    IN  IF i <= Len(bucket) THEN Entry(bucket[i]) ELSE 0]

(* zig_file, with first and last code point and offset of each range.      *)
Generated(kvs, ranges, buckets) ==
    [bucket_count |-> Cardinality(DOMAIN buckets),
     max_bucket_length |-> MaxBucketLength(buckets),
     max_hash_used |-> MaxHashUsed(buckets),
     hash_table |-> HashTable(buckets, MaxBucketLength(buckets)),
     contiguous_ranges |->
        {[first |-> r[1].key, last |-> r[1].key + Len(r) - 1, offset |-> Offset(r[1])] :
            r \in ContiguousRanges(ranges)}]

------------------------------------------------------------------------------
(* The console, which looks code points up in the generated file.          *)

VARIABLES
    zig_file,       \* what has been generated, or NoFile
    asked,          \* the code point that was asked for last, or NoCodePoint
    character       \* the answer: no character or one

pageVars == <<zig_file, asked, character>>

NoFile == [bucket_count |-> 0]
NoCodePoint == -1

InContiguous(c) ==
    {c - r.offset : r \in {s \in zig_file.contiguous_ranges : c >= s.first /\ c <= s.last}}

Valid(entry) == entry \div 2 ^ 24 # 0
KeyIn(entry) == entry % 2 ^ 16
ValueIn(entry) == (entry \div 2 ^ 16) % 2 ^ 8

(* The bucket is read up to the first entry that is not valid.             *)
InBucket(c) ==
    LET length == zig_file.max_bucket_length
        At(i) == zig_file.hash_table[(c % zig_file.bucket_count) * length + i]
        found == {i \in 0 .. length - 1 : KeyIn(At(i)) = c /\ \A j \in 0 .. i : Valid(At(j))}
    IN  {ValueIn(At(i)) : i \in {i \in found : \A j \in found : i <= j}}

FromUnicode(c) ==
    IF c > 2 ^ 16 - 1 THEN {}
    ELSE IF InContiguous(c) # {} THEN InContiguous(c)
    ELSE IF c % zig_file.bucket_count > zig_file.max_hash_used THEN {}
    ELSE InBucket(c)

PageInit == zig_file = NoFile /\ asked = NoCodePoint /\ character = {}

Generate ==
    /\ zig_file = NoFile
    /\ \E kvs \in {KeyValues} : \E ranges \in {Ranges(kvs, Starts(kvs))} :
          zig_file' = Generated(kvs, ranges, Buckets(Hashed(kvs, ranges)))
    /\ UNCHANGED <<asked, character>>

(* Any code point first, then one after another.                           *)
Ask ==
    /\ zig_file # NoFile
    /\ asked' \in IF asked = NoCodePoint THEN 0 .. LastCodePoint
                  ELSE {(asked + 1) % (LastCodePoint + 1)}
    /\ character' = FromUnicode(asked')
    /\ UNCHANGED zig_file

PageNext == Generate \/ Ask

PageSpec == PageInit /\ [][PageNext]_pageVars

(* The two ways to look a code point up, the generated ranges and the      *)
(* generated buckets, answer together as the page itself: the character    *)
(* that stands for the code point, and none if there is none               *)
(* (code_page_437.py:332-425, cga_console.zig:180-206).                    *)
PageIsInverted ==
    asked # NoCodePoint => character = {v \in DOMAIN keys : keys[v] = asked}
===============================================================================
