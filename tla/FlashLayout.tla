----------------------------- MODULE FlashLayout -----------------------------
(****************************************************************************)
(* The memory of the STM32 as its bootloader describes it (dfuse_mem.c),    *)
(* and the DfuSe files that are programmed into it (dfuse.c).  A file is a  *)
(* record: whether its suffix names DFU version 1.1a, and its elements, in  *)
(* order.  An element is "whole" when the file is as long as its header     *)
(* says.  The descriptor is the sequence of its regions, each an address    *)
(* and groups of equal pages.  The byte layout of the headers is left out.  *)
(****************************************************************************)
EXTENDS Integers, Sequences

CONSTANTS
  Descriptor,  \* the descriptor string of the interface
  Files,       \* the files the user may choose, a sequence
  XferSize     \* bytes of one DFU_DNLOAD

\* parse_memory_layout: the groups of a region follow one another in memory.
\* One without a valid type ends the parse, unless it is the last of its
\* region, because the comma after it is not skipped.
Skipped(group) == group.memtype = {}
Complete(region) ==
  \A i \in 1 .. Len(region.groups) - 1 : ~Skipped(region.groups[i])

End(region, i) ==
  LET at[k \in 0..i] ==
        IF k = 0 THEN region.address
        ELSE at[k - 1] + region.groups[k].sectors * region.groups[k].size
  IN  at[i] - 1

Segment(region, i) ==
  [start |-> End(region, i - 1) + 1, end |-> End(region, i),
   pagesize |-> region.groups[i].size, memtype |-> region.groups[i].memtype]

Layout ==
  UNION { { Segment(Descriptor[r], i) :
              i \in { j \in DOMAIN Descriptor[r].groups :
                       ~ \E k \in 1..j : Skipped(Descriptor[r].groups[k]) } } :
          r \in { q \in DOMAIN Descriptor : \A k \in 1 .. q - 1 : Complete(Descriptor[k]) } }

\* Pages are powers of two and aligned.  A transfer is at most a page of the host's
\* memory (getpagesize), and the bootloader asks for 2048; pages have 16 kB.
ASSUME LayoutAssumption ==
  /\ \A s \in Layout :
       /\ s.start \in Nat /\ s.end \in Nat
       /\ s.pagesize \in Nat \ {0, 1}
       /\ s.memtype \subseteq {"r", "e", "w"}
       /\ s.start % s.pagesize = 0 /\ (s.end + 1) % s.pagesize = 0
  /\ \A s, t \in Layout : s # t => s.end < t.start \/ t.end < s.start
  /\ XferSize \in Nat \ {0}
  /\ \A s \in Layout : "e" \in s.memtype => XferSize <= s.pagesize

\* What a file holds: 32-bit numbers, and an image for each element.
ASSUME FilesAssumption ==
  Files \in Seq([dfuse : BOOLEAN,
                 elements : Seq([alt : Nat, address : Nat, size : Nat, whole : BOOLEAN])])

Addresses == UNION {s.start .. s.end : s \in Layout}

Maps(s, a) == s.start <= a /\ a <= s.end

\* No segment has no type, so it can be neither erased nor written.
NoSegment == [start |-> 0, end |-> 0, pagesize |-> 2, memtype |-> {}]

find_segment(a) ==
  IF \E s \in Layout : Maps(s, a) THEN CHOOSE s \in Layout : Maps(s, a) ELSE NoSegment

Erasable(a) == "e" \in find_segment(a).memtype
Writeable(a) == "w" \in find_segment(a).memtype

\* address & ~(page_size - 1)
PageStart(a, size) == a - (a % size)

Page(a) ==
  LET s == find_segment(a)
  IN  {x \in Addresses : Maps(s, x) /\ PageStart(x, s.pagesize) = PageStart(a, s.pagesize)}

-----------------------------------------------------------------------------

Element(n, i) == Files[n].elements[i]

Bytes(e) == e.address .. e.address + e.size - 1

\* The elements of the alternate setting that was asked for, -a 0.
Targets(n) ==
  IF Files[n].dfuse
  THEN {i \in DOMAIN Files[n].elements : Element(n, i).alt = 0}
  ELSE {}

\* What a byte of memory holds: the byte of file n, element i, that belongs at
\* address a; what was there before; or what an erase, an interrupted command
\* or programming what is not erased leaves.
ByteFor(n, i, a) == << "byte", n, i, a - Element(n, i).address >>
Old     == << "old", 0, 0, 0 >>
Blank   == << "blank", 0, 0, 0 >>
TornByte == << "torn", 0, 0, 0 >>
Garbled == << "garbled", 0, 0, 0 >>

Holds(flash, n) ==
  \A i \in Targets(n) : \A a \in Bytes(Element(n, i)) : flash[a] = ByteFor(n, i, a)

\* The pages the elements lie in.
Region(n) == UNION {Page(a) : a \in UNION {Bytes(Element(n, i)) : i \in Targets(n)}}

\* last_erased_page remembers one page: an element that returns to an earlier
\* page erases what was written there.
Ascending(n) ==
  \A i, j \in Targets(n) :
    i < j => Element(n, i).address + Element(n, i).size <= Element(n, j).address

\* An element that covers a byte of an earlier one finds its page erased already.
Disjoint(n) ==
  \A i, j \in Targets(n) :
    i # j => Bytes(Element(n, i)) \cap Bytes(Element(n, j)) = {}

\* A chunk that begins in memory written without being erased is not looked at
\* again: no erasable memory begins within the reach of a transfer behind it.
Apart ==
  \A s, t \in Layout :
    "w" \in s.memtype /\ "e" \notin s.memtype /\ "e" \in t.memtype =>
      t.end < s.start \/ s.end + XferSize <= t.start

\* A hole in the memory is longer than a transfer: the program looks at the
\* first and the last byte of what it transfers.
Solid == \A a, b \in Addresses : b <= a + XferSize => a..b \subseteq Addresses
=============================================================================
