------------------------------ MODULE PageFile ------------------------------
(***************************************************************************)
(* PageFile of kernel/fs/RamDisk.zig: the bytes of a file in pages that    *)
(* are appended to a list and never removed.  A page is the sequence of    *)
(* the bytes that were written to it.                                      *)
(***************************************************************************)
EXTENDS Naturals, SequencesExt

CONSTANT PageSize
ASSUME PageSizeAssumption == PageSize \in Nat \ {0}

IsPages(pages) == \A i \in 1 .. Len(pages) : Len(pages[i]) <= PageSize

Bytes(pages) == FlattenSeq(pages)

(* The member of a set that has one.                                       *)
TheOne(S) == CHOOSE x \in S : TRUE
Least(m, n) == IF m < n THEN m ELSE n

SeenBefore(pages, i) == Len(Bytes(SubSeq(pages, 1, i - 1)))

(* get_page: the page and the place in it where a position is found; no    *)
(* page is 0.                                                              *)
GetPage(pages, pos) ==
    SelectInSeq([i \in 1 .. Len(pages) |-> i], LAMBDA i :
        /\ SeenBefore(pages, i) + Len(pages[i]) >= pos
        /\ pos < SeenBefore(pages, i) + PageSize)

Offset(pages, pos) == pos - SeenBefore(pages, GetPage(pages, pos))

NeedsPageSlip(pages, pos) ==    \* a page with anything in it counts as full
    LET i == GetPage(pages, pos) IN IF i = 0 THEN TRUE ELSE pages[i] # <<>>

(* get_or_create_page appends a page when there is no page, or it is full. *)
NeedsPage(pages, pos) ==
    LET i == GetPage(pages, pos) IN IF i = 0 THEN TRUE ELSE Len(pages[i]) = PageSize

------------------------------------------------------------------------------
(* write_impl.  w has the pages, total_written, the position and the bytes *)
(* left to write.                                                          *)

Overwritten(s, pos, data) ==
    SubSeq(s, 1, pos) \o data \o SubSeq(s, pos + Len(data) + 1, Len(s))

(* One turn of the loop: get_or_create_page, then copy_from.               *)
CopiedFrom(w) ==
    LET fresh == NeedsPage(w.pages, w.pos)
        pages == IF fresh THEN Append(w.pages, <<>>) ELSE w.pages
        i == IF fresh THEN Len(pages) ELSE GetPage(pages, w.pos)
        offset == IF fresh THEN 0 ELSE Offset(pages, w.pos)
        n == Least(PageSize - offset, Len(w.left))
        page == Overwritten(pages[i], offset, SubSeq(w.left, 1, n))
    IN  [pages |-> [pages EXCEPT ![i] = page],
         total |-> w.total - Len(pages[i]) + Len(page),
         pos |-> w.pos + n, left |-> SubSeq(w.left, n + 1, Len(w.left))]

(* The loop after at most k turns; each writes a byte or more.             *)
Written(f, pos, data, k) ==
    LET after[j \in 0 .. k] ==
           IF j = 0 THEN {[pages |-> f.pages, total |-> f.total, pos |-> pos, left |-> data]}
           ELSE {IF w.left = <<>> THEN w ELSE CopiedFrom(w) : w \in after[j - 1]}
    IN  TheOne(after[k])

------------------------------------------------------------------------------
(* read_impl.  r has the position, the bytes read and the room left.       *)

AtEnd(pages, pos) ==
    LET i == GetPage(pages, pos) IN IF i = 0 THEN TRUE ELSE Offset(pages, pos) >= Len(pages[i])

CopiedTo(pages, r) ==
    LET page == pages[GetPage(pages, r.pos)]
        offset == Offset(pages, r.pos)
        n == Least(Len(page) - offset, r.left)
    IN  [pos |-> r.pos + n, got |-> r.got \o SubSeq(page, offset + 1, offset + n),
         left |-> r.left - n]

ReadFrom(pages, pos, n) ==
    LET after[j \in 0 .. n] ==
           IF j = 0 THEN {[pos |-> pos, got |-> <<>>, left |-> n]}
           ELSE {IF r.left = 0 \/ AtEnd(pages, r.pos) THEN r ELSE CopiedTo(pages, r) :
                    r \in after[j - 1]}
    IN  TheOne(after[n])
=============================================================================
