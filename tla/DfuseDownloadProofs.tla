------------------------- MODULE DfuseDownloadProofs -------------------------
(****************************************************************************)
(* DfuseDownload for every memory layout, every choice of files and every   *)
(* size of a transfer: nothing is programmed that has not been erased; and  *)
(* it implements FlashImage: nothing else is touched, and a success is the  *)
(* whole file.                                                              *)
(****************************************************************************)
EXTENDS DfuseDownload, SequenceTheorems, TLAPS

-----------------------------------------------------------------------------
(* Pages.                                                                   *)

\* Whole numbers keep their order when they are multiplied.
LEMMA Multiples ==
  ASSUME NEW a \in Nat, NEW b \in Nat, NEW n \in Nat
  PROVE  /\ a * n \in Nat /\ b * n \in Nat
         /\ a <= b => a * n <= b * n
         /\ (a + 1) * n = a * n + n
<1>1. a * n \in Nat /\ b * n \in Nat /\ (a + 1) * n = a * n + n
  OBVIOUS
<1>2. ASSUME a <= b PROVE a * n <= b * n
  <2>1. PICK k \in Nat : b = a + k
    <3>1. b - a \in Nat /\ b = a + (b - a)
      BY <1>2
    <3> QED BY <3>1
  <2>2. b * n = a * n + k * n /\ k * n \in Nat
    BY <2>1
  <2> QED BY <1>1, <2>2
<1> QED BY <1>1, <1>2

\* A page begins at a multiple of its size.
LEMMA PageIsMultiple ==
  ASSUME NEW m \in Nat \ {0}, NEW a \in Nat
  PROVE  /\ a \div m \in Nat
         /\ PageStart(a, m) = (a \div m) * m
         /\ PageStart(a, m) \in Nat
         /\ PageStart(a, m) <= a /\ a < PageStart(a, m) + m
<1>1. m \in Nat /\ m > 0
  OBVIOUS
<1>2. a \div m \in Nat
  BY <1>1
<1>3. a % m \in Nat
  BY <1>1
<1>4. a % m < m
  BY <1>1
<1>5. a = (a \div m) * m + (a % m)
  BY <1>1
<1>6. PageStart(a, m) = a - (a % m)
  BY DEF PageStart
<1> DEFINE q == a \div m
           r == a % m
<1>7. q \in Nat /\ r \in Nat /\ r < m /\ a = q * m + r /\ PageStart(a, m) = a - r
  BY <1>2, <1>3, <1>4, <1>5, <1>6
<1> HIDE DEF q, r
<1>8. q * m \in Nat
  BY <1>7
<1>9. PageStart(a, m) = q * m
  BY <1>7, <1>8
<1>10. PageStart(a, m) \in Nat /\ PageStart(a, m) <= a /\ a < PageStart(a, m) + m
  BY <1>7, <1>8, <1>9
<1> QED BY <1>7, <1>9, <1>10 DEF q

\* A number that leaves no remainder is a multiple.
LEMMA NoRemainder ==
  ASSUME NEW m \in Nat \ {0}, NEW a \in Nat, a % m = 0
  PROVE  \E i \in Nat : a = i * m
<1>1. PageStart(a, m) = a
  BY DEF PageStart
<1>2. a = (a \div m) * m /\ a \div m \in Nat
  BY <1>1, PageIsMultiple
<1> QED BY <1>2

\* Between multiples: the largest multiple up to a is not below any other.
LEMMA Between ==
  ASSUME NEW m \in Nat \ {0}, NEW a \in Nat, NEW i \in Nat
  PROVE  /\ i * m <= a => i * m <= PageStart(a, m)
         /\ a < i * m => PageStart(a, m) + m <= i * m
         /\ i * m <= a /\ a < i * m + m => PageStart(a, m) = i * m
<1>1. PICK q \in Nat : /\ PageStart(a, m) = q * m /\ q * m \in Nat
                       /\ q * m <= a /\ a < q * m + m
  <2> DEFINE page == PageStart(a, m)
  <2>1. PICK q \in Nat : page = q * m
    BY PageIsMultiple
  <2>2. page \in Nat /\ page <= a /\ a < page + m
    BY PageIsMultiple
  <2> HIDE DEF page
  <2>3. q * m \in Nat /\ q * m <= a /\ a < q * m + m
    BY <2>1, <2>2
  <2> QED BY <2>1, <2>3 DEF page
<1>2. i * m \in Nat /\ (q + 1) * m = q * m + m /\ (i + 1) * m = i * m + m
  BY Multiples
<1>3. (i <= q => i * m <= q * m) /\ (q <= i => q * m <= i * m)
  BY Multiples
<1>4. q + 1 <= i => (q + 1) * m <= i * m
  <2>1. q + 1 \in Nat
    OBVIOUS
  <2> QED BY <2>1, Multiples
<1>5. i + 1 <= q => (i + 1) * m <= q * m
  <2>1. i + 1 \in Nat
    OBVIOUS
  <2> QED BY <2>1, Multiples
<1> DEFINE im == i * m
           qm == q * m
<1>6. /\ im \in Nat /\ qm \in Nat /\ PageStart(a, m) = qm
      /\ qm <= a /\ a < qm + m
      /\ i <= q => im <= qm
      /\ q <= i => qm <= im
      /\ q + 1 <= i => qm + m <= im
      /\ i + 1 <= q => im + m <= qm
  BY <1>1, <1>2, <1>3, <1>4, <1>5
<1> HIDE DEF im, qm
<1>7. /\ im <= a => im <= PageStart(a, m)
      /\ a < im => PageStart(a, m) + m <= im
      /\ im <= a /\ a < im + m => PageStart(a, m) = im
  BY <1>6
<1> QED BY <1>7 DEF im

\* The start of the page a lies in.
Pg(a) == PageStart(a, find_segment(a).pagesize)

\* A byte lies in one segment at most, and what lies in none has no type.
LEMMA FindSegment ==
  ASSUME NEW a
  PROVE  /\ Erasable(a) \/ Writeable(a) => /\ find_segment(a) \in Layout
                                           /\ Maps(find_segment(a), a)
         /\ \A s \in Layout : Maps(s, a) => /\ find_segment(a) \in Layout
                                            /\ Maps(find_segment(a), a)
<1>1. ASSUME \E s \in Layout : Maps(s, a)
      PROVE  find_segment(a) \in Layout /\ Maps(find_segment(a), a)
  BY <1>1 DEF find_segment
<1>2. ASSUME ~ \E s \in Layout : Maps(s, a) PROVE ~Erasable(a) /\ ~Writeable(a)
  BY <1>2 DEF find_segment, NoSegment, Erasable, Writeable
<1> QED BY <1>1, <1>2

\* What LayoutAssumption says of a segment.
LEMMA SegmentType ==
  ASSUME NEW s \in Layout
  PROVE  /\ s.start \in Nat /\ s.end \in Nat
         /\ s.pagesize \in Nat \ {0} /\ s.pagesize # 1
         /\ s.start % s.pagesize = 0 /\ (s.end + 1) % s.pagesize = 0
         /\ "e" \in s.memtype => XferSize <= s.pagesize
         /\ \A t \in Layout : s # t => s.end < t.start \/ t.end < s.start
  BY LayoutAssumption

\* A byte of the memory: its segment, and its page, which lies in the segment.
LEMMA OnPage ==
  ASSUME NEW a \in Addresses
  PROVE  /\ a \in Nat
         /\ find_segment(a) \in Layout /\ Maps(find_segment(a), a)
         /\ find_segment(a).pagesize \in Nat \ {0}
         /\ Pg(a) \in Nat /\ Pg(a) # NoPage
         /\ Pg(a) <= a /\ a < Pg(a) + find_segment(a).pagesize
         /\ find_segment(a).start <= Pg(a)
         /\ Pg(a) + find_segment(a).pagesize <= find_segment(a).end + 1
<1> DEFINE s == find_segment(a)
           m == s.pagesize
<1>1. PICK t \in Layout : a \in t.start .. t.end
  BY DEF Addresses
<1>2. t.start \in Nat /\ t.end \in Nat
  BY SegmentType
<1>3. a \in Nat /\ Maps(t, a)
  BY <1>1, <1>2 DEF Maps
<1>4. s \in Layout /\ Maps(s, a)
  BY <1>3, FindSegment
<1>5. /\ s.start \in Nat /\ s.end \in Nat /\ m \in Nat \ {0} /\ m # 1
      /\ s.start % m = 0 /\ (s.end + 1) % m = 0
  BY <1>4, SegmentType
<1>6. s.start <= a /\ a < s.end + 1
  BY <1>3, <1>4, <1>5 DEF Maps
<1>7. Pg(a) = PageStart(a, m)
  BY DEF Pg
<1> HIDE DEF m
<1>8. Pg(a) \in Nat /\ Pg(a) <= a /\ a < Pg(a) + m
  BY <1>3, <1>5, <1>7, PageIsMultiple
<1>9. s.start <= Pg(a)
  <2>1. PICK i \in Nat : s.start = i * m
    BY <1>5, NoRemainder
  <2>2. i * m <= a => i * m <= PageStart(a, m)
    BY <1>3, <1>5, Between
  <2> QED BY <1>6, <1>7, <2>1, <2>2
<1>10. Pg(a) + m <= s.end + 1
  <2>1. s.end + 1 \in Nat
    BY <1>5
  <2>2. PICK i \in Nat : s.end + 1 = i * m
    BY <1>5, <2>1, NoRemainder
  <2>3. a < i * m => PageStart(a, m) + m <= i * m
    BY <1>3, <1>5, Between
  <2> QED BY <1>6, <1>7, <2>2, <2>3
<1>11. Pg(a) # NoPage
  <2>1. PICK q \in Nat : Pg(a) = q * m
    BY <1>3, <1>5, <1>7, PageIsMultiple
  <2>2. q = 0 \/ q >= 1
    OBVIOUS
  <2>3. CASE q = 0
    <3>1. q * m = 0
      BY <1>5, <2>3
    <3> QED BY <2>1, <3>1 DEF NoPage
  <2>4. CASE q >= 1
    <3>1. 1 * m <= q * m /\ q * m \in Nat
      BY <1>5, <2>4, Multiples
    <3>2. 1 * m = m
      BY <1>5
    <3>3. m >= 2
      BY <1>5
    <3> QED BY <1>5, <2>1, <3>1, <3>2, <3>3 DEF NoPage
  <2> QED BY <2>2, <2>3, <2>4
<1> QED BY <1>3, <1>4, <1>5, <1>8, <1>9, <1>10, <1>11 DEF m

\* Only what can be erased or written has an address of the memory.
LEMMA ErasableIsThere ==
  ASSUME NEW a \in Int, Erasable(a) \/ Writeable(a)
  PROVE  a \in Addresses
<1>1. find_segment(a) \in Layout /\ Maps(find_segment(a), a)
  BY FindSegment
<1>2. find_segment(a).start \in Nat /\ find_segment(a).end \in Nat
  BY <1>1, SegmentType
<1>3. a \in find_segment(a).start .. find_segment(a).end
  BY <1>1, <1>2 DEF Maps
<1> QED BY <1>1, <1>3 DEF Addresses

\* Every number within a page is a byte of it.
LEMMA SamePage ==
  ASSUME NEW a \in Addresses, NEW x \in Int,
         Pg(a) <= x, x < Pg(a) + find_segment(a).pagesize
  PROVE  x \in Addresses /\ find_segment(x) = find_segment(a) /\ Pg(x) = Pg(a)
<1> DEFINE s == find_segment(a)
           m == s.pagesize
<1>1. /\ a \in Nat /\ s \in Layout /\ m \in Nat \ {0} /\ Pg(a) \in Nat
      /\ s.start <= Pg(a) /\ Pg(a) + m <= s.end + 1
  BY OnPage
<1>2. s.start \in Nat /\ s.end \in Nat
  BY <1>1, SegmentType
<1> HIDE DEF m
<1>3. x \in Nat /\ s.start <= x /\ x <= s.end
  <2>1. x < Pg(a) + m
    BY DEF m
  <2> QED BY <1>1, <1>2, <2>1
<1>4. Maps(s, x) /\ x \in Addresses
  BY <1>1, <1>2, <1>3 DEF Maps, Addresses
<1>5. find_segment(x) = s
  <2>1. find_segment(x) \in Layout /\ Maps(find_segment(x), x)
    BY <1>1, <1>4, FindSegment
  <2>2. find_segment(x).start \in Nat /\ find_segment(x).end \in Nat
    BY <2>1, SegmentType
  <2>3. ~(s.end < find_segment(x).start) /\ ~(find_segment(x).end < s.start)
    BY <1>2, <1>3, <2>1, <2>2 DEF Maps
  <2> QED BY <1>1, <2>1, <2>3, SegmentType
<1>6. Pg(x) = Pg(a)
  <2>1. PICK q \in Nat : Pg(a) = q * m
    BY <1>1, PageIsMultiple DEF Pg, m
  <2>2. q * m <= x /\ x < q * m + m => PageStart(x, m) = q * m
    BY <1>1, <1>3, Between
  <2>3. q * m <= x /\ x < q * m + m
    BY <2>1 DEF m
  <2> QED BY <1>5, <2>1, <2>2, <2>3 DEF Pg, m
<1> QED BY <1>4, <1>5, <1>6

\* Pages with the same start are the same page.
LEMMA PagesAreApart ==
  ASSUME NEW a \in Addresses, NEW x \in Addresses, Pg(x) = Pg(a)
  PROVE  /\ find_segment(x) = find_segment(a)
         /\ x \in Page(a)
<1>1. /\ Pg(a) \in Nat
      /\ find_segment(a).pagesize \in Nat \ {0} /\ find_segment(x).pagesize \in Nat \ {0}
      /\ Maps(find_segment(x), x)
  BY OnPage
<1>2. find_segment(Pg(a)) = find_segment(a)
  BY <1>1, SamePage
<1>3. find_segment(Pg(x)) = find_segment(x)
  BY <1>1, SamePage
<1>4. find_segment(x) = find_segment(a)
  BY <1>2, <1>3
<1> QED BY <1>1, <1>4 DEF Page, Pg

\* The bytes of a page have the start of the page.
LEMMA PageMembers ==
  ASSUME NEW a \in Addresses, NEW x \in Page(a)
  PROVE  x \in Addresses /\ find_segment(x) = find_segment(a) /\ Pg(x) = Pg(a)
<1> DEFINE s == find_segment(a)
<1>1. /\ x \in Addresses /\ Maps(s, x)
      /\ PageStart(x, s.pagesize) = PageStart(a, s.pagesize)
  BY DEF Page
<1>2. x \in Nat /\ s \in Layout /\ s.pagesize \in Nat \ {0}
  BY <1>1, OnPage
<1>3. Pg(a) = PageStart(x, s.pagesize)
  BY <1>1 DEF Pg
<1>4. Pg(a) <= x /\ x < Pg(a) + s.pagesize
  BY <1>2, <1>3, PageIsMultiple
<1> QED BY <1>1, <1>2, <1>4, SamePage

\* A transfer that begins and ends in erasable memory touches, besides what
\* cannot be erased, the pages of its ends only.
LEMMA TwoPages ==
  ASSUME NEW a \in Addresses, NEW b \in Addresses, NEW x \in Addresses,
         a <= x, x <= b, b < a + XferSize, Erasable(x)
  PROVE  Pg(x) = Pg(a) \/ Pg(x) = Pg(b)
<1> DEFINE m == find_segment(x).pagesize
<1>1. /\ a \in Nat /\ b \in Nat /\ x \in Nat
      /\ Pg(x) \in Nat /\ Pg(x) <= x /\ x < Pg(x) + m
      /\ m \in Nat /\ find_segment(x) \in Layout
  BY OnPage
<1>2. XferSize \in Nat /\ XferSize <= m
  BY <1>1, SegmentType, LayoutAssumption DEF Erasable
<1> HIDE DEF m
<1>3. CASE Pg(x) <= a
  <2>1. a < Pg(x) + m
    BY <1>1
  <2> QED BY <1>1, <1>3, <2>1, SamePage DEF m
<1>4. CASE b < Pg(x) + m
  <2>1. Pg(x) <= b
    BY <1>1
  <2> QED BY <1>1, <1>4, <2>1, SamePage DEF m
<1>5. CASE a < Pg(x) /\ Pg(x) + m <= b
  BY <1>1, <1>2, <1>5
<1> QED BY <1>1, <1>3, <1>4, <1>5

\* An end that has the page start of the beginning, at the page size of the
\* beginning, leaves nothing outside that page.
LEMMA OnePage ==
  ASSUME NEW a \in Addresses, NEW b \in Nat, NEW x \in Nat, a <= x, x <= b,
         PageStart(b, find_segment(a).pagesize) = Pg(a)
  PROVE  x \in Addresses /\ find_segment(x) = find_segment(a) /\ Pg(x) = Pg(a)
<1> DEFINE m == find_segment(a).pagesize
<1>1. /\ a \in Nat /\ m \in Nat \ {0} /\ Pg(a) \in Nat /\ Pg(a) <= a
  BY OnPage
<1>2. b < PageStart(b, m) + m
  BY <1>1, PageIsMultiple
<1>3. b < Pg(a) + m
  BY <1>2
<1> HIDE DEF m
<1>4. Pg(a) <= x /\ x < Pg(a) + m
  BY <1>1, <1>3
<1> QED BY <1>4, SamePage DEF m

-----------------------------------------------------------------------------
(* The invariant.                                                           *)

Pass1 == {"erases", "erasing"}
Pass2 == {"writes", "addressing", "chunk", "writing"}
Loops == {"element"} \cup Pass1 \cup Pass2

last_byte == address + chunk_size - 1

\* Where the host is in its loops.
Where ==
  /\ elem \in Nat /\ p \in Nat /\ scan \in Nat
  /\ file \in DOMAIN Files \cup {0}
  /\ pc # "closed" => file \in DOMAIN Files
  /\ pc \in Loops => Files[file].dfuse /\ elem >= 1
  /\ pc \in Pass1 \cup Pass2 => elem \in Targets(file)
  /\ pc \in {"erasing", "addressing", "chunk", "writing"} => p < e.size

Scanned ==
  /\ pc \in Pass1 /\ scan # 0 =>
       /\ p < e.size /\ Erasable(address)
       /\ scan = find_segment(address).pagesize
  /\ pc = "erases" /\ scan # 0 => last_erased_page = Pg(address)
  /\ pc = "erasing" =>
       /\ Erasable(address) /\ Erasable(EraseAddress)
       /\ last_erased_page = Pg(EraseAddress)

\* What a command that the device has not executed will do.
Pend ==
  /\ pending # None => dstate \in {"dnSync", "dnBusy"}
  /\ pending.name = "data" =>
       \A a \in Addresses \cap (pointer .. pointer + Len(pending.bytes) - 1) :
         /\ Erasable(a) => flash[a] = Blank
         /\ pending.bytes[a - pointer + 1] # Garbled

\* The bytes of the element whose pages were seen to in the first pass, and those
\* still to be written in the second.
Seen(x) ==
  /\ x \in Bytes(e) /\ Erasable(x)
  /\ \/ /\ pc \in Pass1
        /\ \/ x < address
           \/ scan # 0 /\ x <= last_byte /\ Pg(x) = Pg(address)
     \/ pc \in {"writes", "addressing", "chunk"} /\ x >= address
     \/ pc = "writing" /\ x > last_byte

Used(x) ==
  \E i \in Targets(file) :
    /\ x \in Bytes(Element(file, i))
    /\ i < elem \/ (i = elem /\ pc \in Pass2)

Alive == linked /\ dstate # "error" /\ pc \in Loops

\* No command of this attempt has been accepted.
Untouched ==
  /\ last_erased_page = NoPage
  /\ pc \in {"element", "erases", "writes"}
  /\ pc # "element" => \A x \in Addresses : ~Seen(x)
  /\ \A i \in Targets(file) : i < elem => Element(file, i).size = 0
  /\ pc = "writes" => p = 0

Under ==
  /\ pc \in {"element", "erases", "writes", "chunk"} => pending = None
  /\ pc = "erasing" =>
       \/ dstate \in {"dnSync", "dnBusy"} /\ pending = Command("erase", EraseAddress, << >>)
       \/ pending = None /\ \A x \in Page(EraseAddress) : flash[x] = Blank
  /\ pc = "addressing" =>
       \/ dstate \in {"dnSync", "dnBusy"} /\ pending = Command("address", address, << >>)
       \/ pending = None /\ pointer = address
  /\ pc = "chunk" => pointer = address
  /\ pc = "writing" =>
       /\ pointer = address
       /\ pending = None \/ pending = Command("data", 0, Chunk)

\* What this attempt has made of the memory.
Prepared ==
  /\ pc # "element" => \A x \in Addresses : Seen(x) => flash[x] = Blank
  /\ \/ pc = "erasing" /\ pending # None
     \/ \A x \in Addresses : Pg(x) = last_erased_page => flash[x] = Blank \/ Used(x)

Progress == Alive => Untouched \/ (Under /\ Prepared)

DownloadInv == Where /\ Scanned /\ Pend /\ Progress /\ ErasedBeforeWritten
-----------------------------------------------------------------------------
(* The loops of the host.                                                   *)

\* What FilesAssumption says of a file and its elements.
LEMMA FileType ==
  ASSUME NEW n \in DOMAIN Files
  PROVE  /\ Files[n].elements \in Seq([alt : Nat, address : Nat, size : Nat, whole : BOOLEAN])
         /\ \A i \in Targets(n) : /\ i \in Nat /\ i >= 1
                                /\ Element(n, i).address \in Nat /\ Element(n, i).size \in Nat
<1>1. DOMAIN Files = 1..Len(Files)
  BY FilesAssumption, LenProperties
<1>2. Files[n] \in [dfuse : BOOLEAN, elements :
                      Seq([alt : Nat, address : Nat, size : Nat, whole : BOOLEAN])]
  BY <1>1, FilesAssumption, ElementOfSeq
<1>3. Files[n].elements \in Seq([alt : Nat, address : Nat, size : Nat, whole : BOOLEAN])
  BY <1>2
<1>4. DOMAIN Files[n].elements = 1..Len(Files[n].elements)
  BY <1>3, LenProperties
<1>5. ASSUME NEW i \in Targets(n)
      PROVE  /\ i \in Nat /\ i >= 1
             /\ Element(n, i).address \in Nat /\ Element(n, i).size \in Nat
  <2>1. i \in 1..Len(Files[n].elements)
    BY <1>4 DEF Targets
  <2>2. Element(n, i) \in [alt : Nat, address : Nat, size : Nat, whole : BOOLEAN]
    BY <1>3, <2>1, ElementOfSeq DEF Element
  <2> QED BY <1>3, <2>1, <2>2, LenProperties
<1> QED BY <1>3, <1>5

\* An element in hand has an address and a size.
LEMMA ElementType ==
  ASSUME Where, pc \in Pass1 \cup Pass2
  PROVE  /\ file \in DOMAIN Files /\ elem \in Targets(file) /\ elem \in Nat
         /\ e.address \in Nat /\ e.size \in Nat /\ p \in Nat /\ scan \in Nat
         /\ address = e.address + p
         /\ Bytes(e) = e.address .. e.address + e.size - 1
<1>1. /\ file \in DOMAIN Files /\ elem \in Targets(file)
      /\ elem \in Nat /\ p \in Nat /\ scan \in Nat
  BY DEF Where, Pass1, Pass2
<1>2. e.address \in Nat /\ e.size \in Nat
  BY <1>1, FileType DEF e
<1> QED BY <1>1, <1>2 DEF address, Bytes

LEMMA ElementTypeNext ==
  ASSUME Where', pc' \in Pass1 \cup Pass2
  PROVE  /\ file' \in DOMAIN Files /\ elem' \in Targets(file') /\ elem' \in Nat
         /\ e'.address \in Nat /\ e'.size \in Nat /\ p' \in Nat /\ scan' \in Nat
         /\ address' = e'.address + p'
         /\ Bytes(e)' = e'.address .. e'.address + e'.size - 1
<1>1. /\ file' \in DOMAIN Files /\ elem' \in Targets(file')
      /\ elem' \in Nat /\ p' \in Nat /\ scan' \in Nat
  BY DEF Where, Pass1, Pass2
<1>2. e'.address \in Nat /\ e'.size \in Nat
  BY <1>1, FileType DEF e
<1> QED BY <1>1, <1>2 DEF address, Bytes

\* Its numbers alone: an offset, the size of the element and of a transfer.
LEMMA ChunkNumbers ==
  ASSUME NEW a \in Nat, NEW size \in Nat, NEW q \in Nat, q < size,
         NEW x \in Nat, x > 0, NEW c, c = IF q + x > size THEN size - q ELSE x
  PROVE  /\ c \in Nat /\ 1 <= c /\ c <= x /\ q + c <= size
         /\ c = x \/ q + c = size
         /\ a + q \in Nat /\ a + q + c - 1 \in Nat
         /\ a + q <= a + q + c - 1
         /\ a <= a + q /\ a + q <= a + size - 1
         /\ a <= a + q + c - 1 /\ a + q + c - 1 <= a + size - 1
<1>1. CASE q + x > size
  BY <1>1
<1>2. CASE ~(q + x > size)
  BY <1>2
<1> QED BY <1>1, <1>2

\* A chunk is not empty, no longer than a transfer, and ends within the
\* element: at its end if it is shorter than a transfer.
LEMMA Chunks ==
  ASSUME Where, pc \in Pass1 \cup Pass2, p < e.size
  PROVE  /\ chunk_size \in Nat /\ 1 <= chunk_size /\ chunk_size <= XferSize
         /\ p + chunk_size <= e.size
         /\ chunk_size = XferSize \/ p + chunk_size = e.size
         /\ address \in Nat /\ last_byte \in Nat /\ address <= last_byte
         /\ last_byte = address + chunk_size - 1
         /\ address \in Bytes(e) /\ last_byte \in Bytes(e)
<1>1. /\ e.address \in Nat /\ e.size \in Nat /\ p \in Nat
      /\ address = e.address + p
      /\ Bytes(e) = e.address .. e.address + e.size - 1
  BY ElementType
<1>2. XferSize \in Nat /\ XferSize > 0
  BY LayoutAssumption
<1>n. /\ chunk_size \in Nat /\ 1 <= chunk_size /\ chunk_size <= XferSize
      /\ p + chunk_size <= e.size
      /\ chunk_size = XferSize \/ p + chunk_size = e.size
      /\ e.address + p \in Nat /\ e.address + p + chunk_size - 1 \in Nat
      /\ e.address + p <= e.address + p + chunk_size - 1
      /\ e.address <= e.address + p /\ e.address + p <= e.address + e.size - 1
      /\ e.address <= e.address + p + chunk_size - 1
      /\ e.address + p + chunk_size - 1 <= e.address + e.size - 1
  <2> DEFINE a == e.address
             size == e.size
             c == chunk_size
  <2>1. c = IF p + XferSize > size THEN size - p ELSE XferSize
    BY DEF chunk_size
  <2>2. a \in Nat /\ size \in Nat /\ p \in Nat /\ p < size
    BY <1>1
  <2> HIDE DEF a, size, c
  <2>3. /\ c \in Nat /\ 1 <= c /\ c <= XferSize /\ p + c <= size
        /\ c = XferSize \/ p + c = size
        /\ a + p \in Nat /\ a + p + c - 1 \in Nat
        /\ a + p <= a + p + c - 1
        /\ a <= a + p /\ a + p <= a + size - 1
        /\ a <= a + p + c - 1 /\ a + p + c - 1 <= a + size - 1
    BY ONLY <1>2, <2>1, <2>2, ChunkNumbers
  <2> QED BY <2>3, Zenon DEF a, size, c
<1>3. /\ chunk_size \in Nat /\ 1 <= chunk_size /\ chunk_size <= XferSize
      /\ p + chunk_size <= e.size
      /\ chunk_size = XferSize \/ p + chunk_size = e.size
  BY <1>n
<1>4. last_byte = address + chunk_size - 1
  BY DEF last_byte
<1>5. address \in Nat /\ last_byte \in Nat /\ address <= last_byte
  BY <1>1, <1>4, <1>n
<1>6. /\ e.address <= address /\ last_byte <= e.address + e.size - 1
  BY <1>1, <1>4, <1>n
<1>7. address \in Bytes(e) /\ last_byte \in Bytes(e)
  BY <1>1, <1>5, <1>6
<1> QED BY <1>3, <1>4, <1>5, <1>7

\* What is in the element and within the reach of a transfer is in the chunk.
LEMMA InChunk ==
  ASSUME NEW x \in Nat, NEW a \in Nat, NEW size \in Nat, NEW q \in Nat,
         NEW c \in Nat, NEW n \in Nat, c = n \/ q + c = size,
         x <= a + size - 1, x < a + q + n
  PROVE  x <= a + q + c - 1
<1>1. CASE c = n
  BY <1>1
<1>2. CASE q + c = size
  BY <1>2
<1> QED BY <1>1, <1>2

\* A chunk lies within its element.
LEMMA WithinElement ==
  ASSUME NEW x \in Nat, NEW a \in Nat, NEW size \in Nat, NEW q \in Nat, NEW c \in Nat,
         q + c <= size, x <= a + q + c - 1
  PROVE  x <= a + size - 1
  OBVIOUS

\* The first look is at the chunk's first byte, the second at its last.
LEMMA Looks ==
  ASSUME Where, Scanned, pc \in Pass1, p < e.size, Erasable(address)
  PROVE  /\ address \in Addresses
         /\ chunk_size <= find_segment(address).pagesize
         /\ find_segment(address).pagesize \in Nat \ {0}
         /\ scan = 0 => scan < chunk_size /\ EraseAddress = address
         /\ scan # 0 => ~(scan < chunk_size) /\ EraseAddress = last_byte
         /\ EraseAddress \in Nat
<1>1. /\ chunk_size \in Nat /\ 1 <= chunk_size /\ chunk_size <= XferSize
      /\ address \in Nat /\ last_byte \in Nat
      /\ last_byte = address + chunk_size - 1
  BY Chunks
<1>2. address \in Addresses
  BY <1>1, ErasableIsThere
<1>3. /\ find_segment(address) \in Layout
      /\ find_segment(address).pagesize \in Nat \ {0}
  BY <1>2, OnPage
<1>4. XferSize \in Nat /\ XferSize <= find_segment(address).pagesize
  BY <1>3, SegmentType, LayoutAssumption DEF Erasable
<1>5. scan # 0 => scan = find_segment(address).pagesize
  BY DEF Scanned
<1>6. scan = 0 => scan < chunk_size
  BY <1>1
<1>7. scan # 0 => ~(scan < chunk_size)
  BY <1>1, <1>3, <1>4, <1>5
<1>8. chunk_size <= find_segment(address).pagesize
  BY <1>1, <1>3, <1>4
<1>9. scan = 0 => EraseAddress = address
  BY <1>1, <1>6 DEF EraseAddress
<1>10. scan # 0 => EraseAddress = last_byte
  BY <1>1, <1>7 DEF EraseAddress
<1>11. EraseAddress \in Nat
  BY <1>1, <1>9, <1>10
<1> QED BY <1>2, <1>3, <1>6, <1>7, <1>8, <1>9, <1>10, <1>11

\* In the first pass over an element none of its bytes has been used.
LEMMA NotUsed ==
  ASSUME Where, Disjoint(file), pc \in Pass1, NEW x \in Bytes(e)
  PROVE  ~Used(x)
<1> SUFFICES ASSUME NEW i \in Targets(file), x \in Bytes(Element(file, i)),
                    i < elem \/ (i = elem /\ pc \in Pass2)
             PROVE  FALSE
  BY DEF Used
<1>1. pc \notin Pass2 /\ elem \in Targets(file) /\ elem \in Nat
  BY ElementType DEF Pass1, Pass2
<1>2. i < elem
  BY <1>1
<1>3. i # elem
  <2> SUFFICES ASSUME i = elem PROVE FALSE
    OBVIOUS
  <2> QED BY <1>1, <1>2
<1> QED BY <1>1, <1>3 DEF Disjoint, e

-----------------------------------------------------------------------------
(* Requests, and the steps outside the loops.                               *)

\* A request changes no memory, and leaves the device without a command, or
\* with the one it had and is to execute.
LEMMA PendKept ==
  ASSUME Pend, UNCHANGED << flash, pointer >>,
         \/ pending' = None
         \/ pending' = pending /\ (pending # None => dstate' \in {"dnSync", "dnBusy"})
  PROVE  Pend'
<1>1. CASE pending' = None
  BY <1>1 DEF Pend, None, Command
<1>2. CASE pending' = pending /\ (pending # None => dstate' \in {"dnSync", "dnBusy"})
  <2>1. pending' # None => dstate' \in {"dnSync", "dnBusy"}
    BY <1>2 DEF None, Command
  <2> QED BY <1>2, <2>1 DEF Pend
<1> QED BY <1>1, <1>2

LEMMA RefusedStep ==
  ASSUME Pend, UNCHANGED << flash, pointer >>, NEW expected, Refused(expected)
  PROVE  Pend' /\ pc' = "exited" /\ linked' = FALSE
<1>1. /\ pc' = "exited" /\ linked' = FALSE
      /\ dstate' = dstate \/ dstate' = "error"
      /\ pending' = IF dstate' = "error" THEN None ELSE pending
  BY DEF Refused, Quit
<1>2. pending' = None \/ (pending' = pending /\ dstate' = dstate)
  BY <1>1
<1>3. pending' = None \/ (pending' = pending /\ (pending # None => dstate' \in {"dnSync", "dnBusy"}))
  BY <1>2 DEF Pend
<1> QED BY <1>1, <1>3, PendKept

LEMMA StatusStep ==
  ASSUME Pend, UNCHANGED << flash, pointer >>, NEW state, GetStatus(state)
  PROVE  /\ Pend' /\ linked /\ dstate' = state /\ state \in Reported
         /\ pending' = None \/ (pending' = pending /\ state = "dnBusy")
<1>1. /\ linked /\ dstate' = state /\ state \in Reported
      /\ pending' = IF state \in {"dnBusy", "dnSync"} THEN pending ELSE None
  BY DEF GetStatus
<1>2. state = "dnSync" => FALSE
  BY <1>1 DEF Reported
<1>3. pending' = None \/ (pending' = pending /\ state = "dnBusy")
  BY <1>1, <1>2
<1>4. pending' = None \/ (pending' = pending /\ (pending # None => dstate' \in {"dnSync", "dnBusy"}))
  BY <1>1, <1>3
<1> QED BY <1>1, <1>3, <1>4, PendKept

LEMMA AbortStep ==
  ASSUME Pend, UNCHANGED << flash, pointer >>, NEW next, Abort(next)
  PROVE  Pend' /\ pc' \in {next, "exited"}
<1>1. CASE Refused(dstate \in {"idle", "dnIdle"})
  BY <1>1, RefusedStep
<1>2. CASE /\ dstate \in {"idle", "dnIdle"} /\ UNCHANGED pending
           /\ Answered(next)
  <2>1. pending = None
    BY <1>2 DEF Pend
  <2>2. pc' \in {next, "exited"}
    BY <1>2 DEF Answered, Proceed, Quit
  <2> QED BY <1>2, <2>1, <2>2, PendKept
<1> QED BY <1>1, <1>2 DEF Abort

\* A command that is accepted finds the device without one.
LEMMA DnloadStep ==
  ASSUME Pend, UNCHANGED << flash, pointer >>, NEW command, NEW next, Dnload(command, next)
  PROVE  \/ /\ linked /\ dstate \in {"idle", "dnIdle"} /\ pending = None
            /\ dstate' = "dnSync" /\ pending' = command
            /\ (pc' = next /\ linked' = linked) \/ (pc' = "exited" /\ linked' = FALSE)
         \/ Pend' /\ pc' = "exited" /\ linked' = FALSE
<1>1. CASE Refused(dstate \in {"idle", "dnIdle"})
  BY <1>1, RefusedStep
<1>2. CASE /\ dstate \in {"idle", "dnIdle"}
           /\ dstate' = "dnSync"
           /\ pending' = command
           /\ Answered(next)
  <2>1. pending = None
    BY <1>2 DEF Pend
  <2>2. linked /\ ((pc' = next /\ linked' = linked) \/ (pc' = "exited" /\ linked' = FALSE))
    BY <1>2 DEF Answered, Proceed, Quit
  <2> QED BY <1>2, <2>1, <2>2
<1> QED BY <1>1, <1>2 DEF Dnload

\* A step that ends outside the loops has little to keep.
LEMMA Outside ==
  ASSUME DownloadInv, file' \in DOMAIN Files, UNCHANGED flash, Pend',
         elem' \in Nat, p' \in Nat, scan' \in Nat, pc' \notin Loops
  PROVE  DownloadInv'
<1>1. Where'
  BY DEF Where, Loops, Pass1, Pass2
<1>2. Scanned'
  BY DEF Scanned, Loops, Pass1, Pass2
<1>3. Progress'
  BY DEF Progress, Alive
<1>4. ErasedBeforeWritten'
  BY DEF DownloadInv, ErasedBeforeWritten
<1> QED BY <1>1, <1>2, <1>3, <1>4 DEF DownloadInv

\* The types that every step of the host within an attempt starts from.
LEMMA HostTypes ==
  ASSUME DownloadInv
  PROVE  /\ Pend /\ elem \in Nat /\ p \in Nat /\ scan \in Nat
         /\ pc # "closed" => file \in DOMAIN Files
  BY DEF DownloadInv, Where

LEMMA StartStep ==
  ASSUME DownloadInv, NEW n \in DOMAIN Files, Start(n)
  PROVE  DownloadInv'
<1>1. /\ file' = n /\ pc' = "status"
      /\ UNCHANGED << elem, p, scan, dstate, pending, pointer, flash >>
  BY DEF Start, loopVars
<1>2. Pend'
  BY <1>1 DEF DownloadInv, Pend
<1>3. pc' \notin Loops
  BY <1>1 DEF Loops, Pass1, Pass2
<1> QED BY <1>1, <1>2, <1>3, HostTypes, Outside

LEMMA AskStatusStep == ASSUME DownloadInv, AskStatus PROVE DownloadInv'
<1>1. /\ pc = "status" /\ UNCHANGED << file, elem, p, scan, pointer, flash >>
  BY DEF AskStatus, hostVars, loopVars, historyVars
<1>2. Pend' /\ pc' \notin Loops
  <2>1. ASSUME NEW state \in Reported, GetStatus(state), Proceed(AfterStatus(state))
        PROVE  Pend' /\ pc' \notin Loops
    <3>1. Pend'
      BY <1>1, <2>1, HostTypes, StatusStep
    <3>2. pc' \in {"clears", "aborts", "downloads"}
      BY <2>1 DEF Proceed, AfterStatus
    <3> QED BY <3>1, <3>2 DEF Loops, Pass1, Pass2
  <2>2. CASE Refused(TRUE)
    <3>1. Pend' /\ pc' = "exited"
      BY <1>1, <2>2, HostTypes, RefusedStep
    <3> QED BY <3>1 DEF Loops, Pass1, Pass2
  <2> QED BY <2>1, <2>2 DEF AskStatus
<1> QED BY <1>1, <1>2, HostTypes, Outside

LEMMA ClearStatusStep == ASSUME DownloadInv, ClearStatus PROVE DownloadInv'
<1>1. /\ pc = "clears" /\ UNCHANGED << file, elem, p, scan, pointer, flash >>
  BY DEF ClearStatus, hostVars, loopVars, historyVars
<1>2. Pend' /\ pc' \notin Loops
  <2>1. CASE dstate = "error" /\ UNCHANGED pending /\ Answered("status")
    <3>1. pending = None
      BY <2>1, HostTypes DEF Pend
    <3>2. Pend'
      BY <1>1, <2>1, <3>1, HostTypes, PendKept
    <3>3. pc' \in {"status", "exited"}
      BY <2>1 DEF Answered, Proceed, Quit
    <3> QED BY <3>2, <3>3 DEF Loops, Pass1, Pass2
  <2>2. CASE Refused(dstate = "error")
    <3>1. Pend' /\ pc' = "exited"
      BY <1>1, <2>2, HostTypes, RefusedStep
    <3> QED BY <3>1 DEF Loops, Pass1, Pass2
  <2> QED BY <2>1, <2>2 DEF ClearStatus
<1> QED BY <1>1, <1>2, HostTypes, Outside

LEMMA AbortPreviousStep == ASSUME DownloadInv, AbortPrevious PROVE DownloadInv'
<1>1. /\ pc = "aborts" /\ UNCHANGED << file, elem, p, scan, pointer, flash >>
      /\ Abort("status")
  BY DEF AbortPrevious, hostVars, loopVars, historyVars
<1>2. Pend' /\ pc' \in {"status", "exited"}
  BY <1>1, HostTypes, AbortStep
<1>3. pc' \notin Loops
  BY <1>2 DEF Loops, Pass1, Pass2
<1> QED BY <1>1, <1>2, <1>3, HostTypes, Outside

LEMMA AbortToIdleStep == ASSUME DownloadInv, AbortToIdle PROVE DownloadInv'
<1>1. /\ pc = "leaves" /\ UNCHANGED << file, elem, p, scan, pointer, flash >>
      /\ Abort("idling")
  BY DEF AbortToIdle, hostVars, loopVars, historyVars
<1>2. Pend' /\ pc' \in {"idling", "exited"}
  BY <1>1, HostTypes, AbortStep
<1>3. pc' \notin Loops
  BY <1>2 DEF Loops, Pass1, Pass2
<1> QED BY <1>1, <1>2, <1>3, HostTypes, Outside

LEMMA CheckIdleStep == ASSUME DownloadInv, CheckIdle PROVE DownloadInv'
<1>1. /\ pc = "idling" /\ UNCHANGED << file, elem, p, scan, pointer, flash >>
  BY DEF CheckIdle, loopVars, historyVars
<1>2. Pend' /\ pc' \notin Loops
  <2>1. ASSUME NEW state \in Reported, GetStatus(state), pc' \in {"resets", "exited"}
        PROVE  Pend' /\ pc' \notin Loops
    <3>1. Pend'
      BY <1>1, <2>1, HostTypes, StatusStep
    <3> QED BY <2>1, <3>1 DEF Loops, Pass1, Pass2
  <2>2. CASE Refused(TRUE)
    <3>1. Pend' /\ pc' = "exited"
      BY <1>1, <2>2, HostTypes, RefusedStep
    <3> QED BY <3>1 DEF Loops, Pass1, Pass2
  <2> QED BY <2>1, <2>2 DEF CheckIdle, Proceed, Exit, Quit
<1> QED BY <1>1, <1>2, HostTypes, Outside

LEMMA FinalResetStep == ASSUME DownloadInv, FinalReset PROVE DownloadInv'
<1>1. /\ pc = "resets" /\ UNCHANGED << file, elem, p, scan, pointer, flash >>
      /\ pending' = None /\ pc' \in {"closed", "exited"}
  BY DEF FinalReset, Quit, hostVars, loopVars, historyVars
<1>2. Pend'
  BY <1>1, HostTypes, PendKept
<1>3. pc' \notin Loops
  BY <1>1 DEF Loops, Pass1, Pass2
<1> QED BY <1>1, <1>2, <1>3, HostTypes, Outside

\* The loops are entered with no page remembered.
LEMMA DownloadStep == ASSUME DownloadInv, dfuse_do_dnload PROVE DownloadInv'
<1>1. /\ pc = "downloads" /\ UNCHANGED << file, p, scan, dstate, pending, pointer, flash >>
      /\ elem' = 1 /\ last_erased_page' = NoPage
      /\ pc' = "exited" \/ (pc' = "element" /\ Files[file].dfuse)
  BY DEF dfuse_do_dnload, reset_dfuse_globals, Proceed, Exit, Quit, historyVars
<1>2. Pend'
  BY <1>1, HostTypes DEF Pend
<1>3. CASE pc' = "exited"
  <2>1. pc' \notin Loops
    BY <1>3 DEF Loops, Pass1, Pass2
  <2> QED BY <1>1, <1>2, <2>1, HostTypes, Outside
<1>4. CASE pc' = "element" /\ Files[file].dfuse
  <2>1. Where'
    BY <1>1, <1>4, HostTypes DEF Where, Pass1, Pass2
  <2>2. Scanned'
    BY <1>4 DEF Scanned, Pass1
  <2>3. \A i \in Targets(file) : ~(i < 1)
    BY <1>1, HostTypes, FileType
  <2>5. Progress'
    BY <1>1, <1>4, <2>3 DEF Progress, Untouched
  <2>4. ErasedBeforeWritten'
    BY <1>1 DEF DownloadInv, ErasedBeforeWritten
  <2> QED BY <1>2, <2>1, <2>2, <2>4, <2>5 DEF DownloadInv
<1> QED BY <1>1, <1>3, <1>4

-----------------------------------------------------------------------------
(* The first pass.                                                          *)

\* The bytes of elements that are done stay used.
LEMMA UsedGrows ==
  ASSUME Where, pc = "element", UNCHANGED file, NEW x,
         \/ elem' = elem + 1 /\ pc' = "element"
         \/ elem' = elem /\ pc' = "erases"
  PROVE  Used(x) => Used(x)'
<1> SUFFICES ASSUME NEW i \in Targets(file), x \in Bytes(Element(file, i)),
                    i < elem \/ (i = elem /\ pc \in Pass2)
             PROVE  Used(x)'
  BY DEF Used
<1>1. i < elem
  BY DEF Pass2
<1>2. i \in Nat /\ elem \in Nat
  <2>1. /\ file \in DOMAIN Files /\ elem \in Nat
    BY DEF Where
  <2>2. i \in DOMAIN Files[file].elements
    BY DEF Targets
  <2>3. Files[file].elements \in Seq([alt : Nat, address : Nat, size : Nat, whole : BOOLEAN])
    BY <2>1, FileType
  <2>4. DOMAIN Files[file].elements = 1..Len(Files[file].elements)
    BY <2>3, LenProperties
  <2> QED BY <2>1, <2>2, <2>4
<1>3. i < elem'
  BY <1>1, <1>2
<1> QED BY <1>3 DEF Used, Element

LEMMA NextElementStep == ASSUME DownloadInv, NextElement PROVE DownloadInv'
<1>1. /\ pc = "element" /\ UNCHANGED << file, last_erased_page, dstate, pending, pointer, flash >>
      /\ file \in DOMAIN Files /\ Files[file].dfuse /\ elem >= 1
      /\ elem \in Nat /\ p \in Nat /\ scan \in Nat
  BY DEF NextElement, historyVars, DownloadInv, Where, Loops
<1>2. Pend'
  BY <1>1 DEF DownloadInv, Pend
<1>3. \/ pc' \in {"leaves", "exited"} /\ UNCHANGED << elem, p, scan >>
      \/ /\ pc' = "element" /\ elem' = elem + 1 /\ UNCHANGED << p, scan, linked >>
         /\ e.alt # 0
      \/ /\ pc' = "erases" /\ UNCHANGED << elem, linked >> /\ p' = 0 /\ scan' = 0
         /\ elem <= Len(Files[file].elements) /\ e.alt = 0
  BY <1>1 DEF NextElement, Proceed, Exit, Quit, loopVars
<1>4. CASE pc' \in {"leaves", "exited"} /\ UNCHANGED << elem, p, scan >>
  <2>1. pc' \notin Loops
    BY <1>4 DEF Loops, Pass1, Pass2
  <2> QED BY <1>1, <1>2, <1>4, <2>1, Outside
<1>p. ErasedBeforeWritten'
  BY <1>1 DEF DownloadInv, ErasedBeforeWritten
<1>u. ASSUME Alive PROVE Untouched \/ (pending = None /\
               \A x \in Addresses : Pg(x) = last_erased_page => flash[x] = Blank \/ Used(x))
  <2>1. Untouched \/ (Under /\ Prepared)
    BY <1>u DEF DownloadInv, Progress
  <2> QED BY <1>1, <2>1 DEF Under, Prepared
<1>5. CASE /\ pc' = "element" /\ elem' = elem + 1 /\ UNCHANGED << p, scan, linked >>
           /\ e.alt # 0
  <2>1. Where'
    BY <1>1, <1>5 DEF Where, Pass1, Pass2
  <2>2. Scanned'
    BY <1>5 DEF Scanned, Pass1
  <2>3. Progress'
    <3> SUFFICES ASSUME Alive' PROVE Untouched' \/ (Under' /\ Prepared')
      BY DEF Progress
    <3>1. Alive
      BY <1>1, <1>5 DEF Alive, Loops
    <3>2. CASE Untouched
      <4>1. ASSUME NEW i \in Targets(file), i < elem + 1
            PROVE  Element(file, i).size = 0
        <5>1. i \in Nat
          BY <1>1, FileType
        <5>2. i # elem
          BY <1>5 DEF Targets, e
        <5>3. i < elem
          BY <1>1, <4>1, <5>1, <5>2
        <5> QED BY <3>2, <5>3 DEF Untouched
      <4>2. Untouched'
        BY <1>1, <1>5, <3>2, <4>1 DEF Untouched, Element
      <4> QED BY <4>2
    <3>3. CASE pending = None /\
               \A x \in Addresses : Pg(x) = last_erased_page => flash[x] = Blank \/ Used(x)
      <4>1. Under'
        BY <1>1, <1>5, <3>3 DEF Under
      <4>2. \A x \in Addresses : Used(x) => Used(x)'
        BY <1>1, <1>5, UsedGrows DEF DownloadInv
      <4>3. Prepared'
        BY <1>1, <1>5, <3>3, <4>2 DEF Prepared
      <4> QED BY <4>1, <4>3
    <3> QED BY <1>u, <3>1, <3>2, <3>3
  <2> QED BY <1>2, <1>p, <2>1, <2>2, <2>3 DEF DownloadInv
<1>6. CASE /\ pc' = "erases" /\ UNCHANGED << elem, linked >> /\ p' = 0 /\ scan' = 0
           /\ elem <= Len(Files[file].elements) /\ e.alt = 0
  <2>1. elem \in Targets(file)
    <3>1. DOMAIN Files[file].elements = 1..Len(Files[file].elements)
      BY <1>1, FileType, LenProperties
    <3>2. elem \in DOMAIN Files[file].elements
      BY <1>1, <1>6, <3>1
    <3> QED BY <1>1, <1>6, <3>2 DEF Targets, e
  <2>2. Where'
    BY <1>1, <1>6, <2>1 DEF Where, Pass1, Pass2, Loops
  <2>3. Scanned'
    BY <1>6 DEF Scanned
  <2>4. \A x \in Addresses : ~Seen(x)'
    <3> SUFFICES ASSUME NEW x \in Addresses, Seen(x)' PROVE FALSE
      OBVIOUS
    <3>1. /\ e'.address \in Nat /\ e'.size \in Nat /\ address' = e'.address + p'
          /\ Bytes(e)' = e'.address .. e'.address + e'.size - 1
      BY <1>6, <2>2, ElementTypeNext DEF Pass1
    <3>2. x \in Bytes(e)' /\ x < address'
      BY <1>6 DEF Seen, Pass2
    <3> QED BY <1>6, <3>1, <3>2
  <2>5. Progress'
    <3> SUFFICES ASSUME Alive' PROVE Untouched' \/ (Under' /\ Prepared')
      BY DEF Progress
    <3>1. Alive
      BY <1>1, <1>6 DEF Alive, Loops
    <3>2. CASE Untouched
      BY <1>1, <1>6, <2>4, <3>2 DEF Untouched
    <3>3. CASE pending = None /\
               \A x \in Addresses : Pg(x) = last_erased_page => flash[x] = Blank \/ Used(x)
      <4>1. Under'
        BY <1>1, <1>6, <3>3 DEF Under
      <4>2. \A x \in Addresses : Used(x) => Used(x)'
        BY <1>1, <1>6, UsedGrows DEF DownloadInv
      <4>3. Prepared'
        BY <1>1, <1>6, <2>4, <3>3, <4>2 DEF Prepared
      <4> QED BY <4>1, <4>3
    <3> QED BY <1>u, <3>1, <3>2, <3>3
  <2> QED BY <1>2, <1>p, <2>2, <2>3, <2>5 DEF DownloadInv
<1> QED BY <1>3, <1>4, <1>5, <1>6

\* The scan goes from the page of the chunk's first byte to the page of its last,
\* and then to the next chunk.  What it adds to the bytes that are seen to: of
\* the chunk, those on the first byte's page; then all.
LEMMA Advance ==
  ASSUME Where, Scanned, pc \in Pass1, p < e.size, Erasable(address),
         scan = 0 => last_erased_page = Pg(address),
         StepOn, pc' = "erases", UNCHANGED << file, elem, last_erased_page >>
  PROVE  /\ Where' /\ Scanned'
         /\ \A x \in Addresses : Seen(x)' =>
              \/ Seen(x)
              \/ /\ x \in Bytes(e) /\ Erasable(x) /\ address <= x /\ x <= last_byte
                 /\ scan = 0 => Pg(x) = Pg(address)
<1> DEFINE ps == find_segment(address).pagesize
<1>1. /\ file \in DOMAIN Files /\ elem \in Targets(file) /\ elem \in Nat
      /\ e.address \in Nat /\ e.size \in Nat /\ p \in Nat /\ scan \in Nat
      /\ address = e.address + p
      /\ Bytes(e) = e.address .. e.address + e.size - 1
  BY ElementType
<1>2. /\ ps \in Nat \ {0}
      /\ scan = 0 => scan < chunk_size
      /\ scan # 0 => ~(scan < chunk_size)
  BY Looks
<1>3. e' = e /\ Bytes(e)' = Bytes(e)
  BY DEF e, Bytes, Element
<1>4. /\ chunk_size \in Nat
      /\ chunk_size = XferSize \/ p + chunk_size = e.size
      /\ last_byte = address + chunk_size - 1 /\ address \in Nat
  BY Chunks
<1>5. XferSize \in Nat
  BY LayoutAssumption
<1>6. CASE scan = 0
  <2>1. scan' = ps /\ p' = p
    BY <1>1, <1>2, <1>6 DEF StepOn
  <2>2. address' = address /\ last_byte' = last_byte
    BY <1>3, <2>1 DEF address, last_byte, chunk_size
  <2>3. Where'
    BY <1>1, <1>2, <2>1 DEF Where, Pass1, Pass2, Loops
  <2>4. Scanned'
    BY <1>2, <1>3, <1>6, <2>1, <2>2 DEF Scanned
  <2>5. ASSUME NEW x \in Addresses, Seen(x)', ~Seen(x)
        PROVE  /\ x \in Bytes(e) /\ Erasable(x) /\ address <= x /\ x <= last_byte
               /\ Pg(x) = Pg(address)
    <3>1. /\ x \in Bytes(e) /\ Erasable(x)
          /\ x < address \/ (x <= last_byte /\ Pg(x) = Pg(address))
      BY <1>3, <2>2, <2>5 DEF Seen, Pass2
    <3>2. ~(x < address)
      BY <2>5, <3>1 DEF Seen
    <3>3. x \in Nat
      BY OnPage
    <3> QED BY <1>4, <3>1, <3>2, <3>3
  <2> QED BY <2>3, <2>4, <2>5
<1>7. CASE scan # 0
  <2>1. scan' = 0 /\ p' = p + XferSize
    BY <1>2, <1>7 DEF StepOn
  <2>2. address' = e.address + p'
    BY <1>3 DEF address
  <2>3. Where'
    BY <1>1, <1>5, <2>1 DEF Where, Pass1, Pass2, Loops
  <2>4. Scanned'
    BY <2>1 DEF Scanned
  <2>5. ASSUME NEW x \in Addresses, Seen(x)', ~Seen(x)
        PROVE  x \in Bytes(e) /\ Erasable(x) /\ address <= x /\ x <= last_byte
    <3>1. /\ x \in Bytes(e) /\ Erasable(x) /\ x < e.address + p'
      BY <1>3, <2>1, <2>2, <2>5 DEF Seen, Pass2
    <3>2. ~(x < address)
      BY <2>5, <3>1 DEF Seen
    <3>3. x \in Nat /\ x <= e.address + e.size - 1
      BY <1>1, <3>1, OnPage
    <3>4. x < e.address + p + XferSize
      BY <1>1, <1>5, <2>1, <3>1
    <3>5. address <= x
      BY <1>4, <3>2, <3>3
    <3>6. x <= e.address + p + chunk_size - 1
      BY <1>1, <1>4, <1>5, <3>3, <3>4, InChunk
    <3>7. x <= last_byte
      BY <1>1, <1>4, <3>6
    <3> QED BY <3>1, <3>5, <3>7
  <2> QED BY <1>7, <2>3, <2>4, <2>5
<1> QED BY <1>6, <1>7

\* A chunk that begins in memory written without an erase has nothing to erase.
LEMMA NothingToErase ==
  ASSUME Apart, Where, pc \in Pass1, p < e.size, Writeable(address), ~Erasable(address),
         NEW x \in Addresses, address <= x, x <= last_byte
  PROVE  ~Erasable(x)
<1> SUFFICES ASSUME Erasable(x) PROVE FALSE
  OBVIOUS
<1> DEFINE s == find_segment(address)
           t == find_segment(x)
<1>1. /\ chunk_size \in Nat /\ chunk_size <= XferSize
      /\ address \in Nat /\ last_byte = address + chunk_size - 1
      /\ XferSize \in Nat
  BY Chunks, LayoutAssumption
<1>2. s \in Layout /\ Maps(s, address) /\ "w" \in s.memtype /\ "e" \notin s.memtype
  BY FindSegment DEF Writeable, Erasable
<1>3. t \in Layout /\ Maps(t, x) /\ "e" \in t.memtype /\ x \in Nat
  BY OnPage DEF Erasable
<1>4. t.end < s.start \/ s.end + XferSize <= t.start
  BY <1>2, <1>3 DEF Apart
<1>5. /\ s.start \in Nat /\ s.end \in Nat /\ t.start \in Nat /\ t.end \in Nat
      /\ s.start <= address /\ address <= s.end /\ t.start <= x /\ x <= t.end
  BY <1>2, <1>3, SegmentType DEF Maps
<1> QED BY <1>1, <1>3, <1>4, <1>5

\* A page that is remembered was erased in this attempt.
LEMMA Remembered ==
  ASSUME Progress, Alive, last_erased_page # NoPage
  PROVE  Under /\ Prepared
  BY DEF Progress, Untouched

LEMMA EraseStep ==
  ASSUME Apart, \A n \in DOMAIN Files : Disjoint(n), DownloadInv, Erase
  PROVE  DownloadInv'
<1>1. /\ pc = "erases" /\ pc \in Pass1 /\ UNCHANGED << file, elem, pointer, flash >>
      /\ Where /\ Scanned /\ Pend /\ Progress
  BY DEF Erase, historyVars, DownloadInv, Pass1
<1>2. /\ file \in DOMAIN Files /\ elem \in Targets(file) /\ elem \in Nat
      /\ e.address \in Nat /\ e.size \in Nat /\ p \in Nat /\ scan \in Nat
      /\ address = e.address + p
      /\ Bytes(e) = e.address .. e.address + e.size - 1
      /\ Files[file].dfuse /\ elem >= 1
  <2>1. Files[file].dfuse /\ elem >= 1
    BY <1>1 DEF Where, Loops
  <2> QED BY <1>1, <2>1, ElementType
<1>3. /\ XferSize \in Nat
      /\ e' = e /\ Bytes(e)' = Bytes(e)
  BY <1>1, LayoutAssumption DEF e, Bytes, Element
<1>p. ErasedBeforeWritten'
  BY <1>1 DEF DownloadInv, ErasedBeforeWritten
<1>o. ASSUME pc' = "exited", UNCHANGED << p, scan >>, Pend' PROVE DownloadInv'
  <2>1. pc' \notin Loops
    BY <1>o DEF Loops, Pass1, Pass2
  <2> QED BY <1>1, <1>2, <1>o, <2>1, Outside
\* The element is done: what was seen to is what is to be written.
<1>4. CASE /\ p >= e.size
           /\ p' = 0 /\ Proceed("writes")
           /\ UNCHANGED << scan, last_erased_page, firstpoll, dstate, pending >>
  <2>1. /\ pc' = "writes" /\ linked' = linked
        /\ UNCHANGED << scan, last_erased_page, dstate, pending >>
    BY <1>4 DEF Proceed
  <2>2. Where' /\ Scanned'
    BY <1>1, <1>2, <1>4, <2>1 DEF Where, Scanned, Pass1, Pass2, Loops
  <2>3. Pend'
    BY <1>1, <2>1 DEF Pend
  <2>4. \A x \in Addresses : Seen(x)' => Seen(x)
    <3> SUFFICES ASSUME NEW x \in Addresses, Seen(x)' PROVE Seen(x)
      OBVIOUS
    <3>1. x \in Bytes(e) /\ Erasable(x)
      BY <1>3 DEF Seen
    <3>2. x \in Nat /\ x <= e.address + e.size - 1
      BY <1>2, <3>1, OnPage
    <3>3. x < address
      BY <1>2, <1>4, <3>2
    <3> QED BY <1>1, <3>1, <3>3 DEF Seen
  <2>5. \A x \in Addresses : Used(x) => Used(x)'
    BY <1>1, <2>1 DEF Used, Pass1, Pass2
  <2>6. Progress'
    <3> SUFFICES ASSUME Alive' PROVE Untouched' \/ (Under' /\ Prepared')
      BY DEF Progress
    <3>1. Alive
      BY <1>1, <2>1 DEF Alive, Loops
    <3>2. CASE Untouched
      BY <1>1, <1>4, <2>1, <2>4, <3>2 DEF Untouched
    <3>3. CASE Under /\ Prepared
      <4>1. Under'
        BY <1>1, <2>1, <3>3 DEF Under
      <4>2. Prepared'
        BY <1>1, <2>1, <2>4, <2>5, <3>3 DEF Prepared
      <4> QED BY <4>1, <4>2
    <3> QED BY <1>1, <3>1, <3>2, <3>3 DEF Progress
  <2> QED BY <1>p, <2>2, <2>3, <2>6 DEF DownloadInv
<1>5. CASE /\ p < e.size /\ ~Writeable(address)
           /\ Exit
           /\ UNCHANGED << p, scan, last_erased_page, firstpoll, dstate, pending >>
  <2>1. Pend'
    BY <1>1, <1>5 DEF Pend
  <2> QED BY <1>5, <1>o, <2>1 DEF Exit, Quit
\* The chunk needs no erase.
<1>6. CASE /\ p < e.size /\ Writeable(address) /\ ~Erasable(address)
           /\ p' = p + XferSize
           /\ UNCHANGED << pc, outcome, linked, scan, last_erased_page, firstpoll, dstate, pending >>
  <2>1. scan = 0
    BY <1>1, <1>6 DEF Scanned
  <2>2. Where' /\ Scanned'
    BY <1>1, <1>2, <1>3, <1>6, <2>1 DEF Where, Scanned, Pass1, Pass2, Loops
  <2>3. Pend'
    BY <1>1, <1>6 DEF Pend
  <2>4. \A x \in Addresses : Seen(x)' => Seen(x)
    <3> SUFFICES ASSUME NEW x \in Addresses, Seen(x)', ~Seen(x) PROVE FALSE
      OBVIOUS
    <3>1. address' = e.address + p'
      BY <1>3 DEF address
    <3>2. x \in Bytes(e) /\ Erasable(x) /\ x < e.address + p'
      BY <1>1, <1>3, <1>6, <2>1, <3>1 DEF Seen, Pass2
    <3>3. ~(x < address)
      BY <1>1, <3>2 DEF Seen
    <3>4. x \in Nat /\ x <= e.address + e.size - 1
      BY <1>2, <3>2, OnPage
    <3>5. /\ chunk_size \in Nat /\ address \in Nat
          /\ chunk_size = XferSize \/ p + chunk_size = e.size
          /\ last_byte = address + chunk_size - 1
      BY <1>1, <1>6, Chunks
    <3>6. x < e.address + p + XferSize
      BY <1>2, <1>3, <1>6, <3>2, <3>4
    <3>7. x <= e.address + p + chunk_size - 1
      BY <1>2, <1>3, <3>4, <3>5, <3>6, InChunk
    <3>8. address <= x /\ x <= last_byte
      BY <1>2, <3>3, <3>4, <3>5, <3>7
    <3> QED BY <1>1, <1>6, <3>2, <3>8, NothingToErase
  <2>5. \A x \in Addresses : Used(x) => Used(x)'
    BY <1>1, <1>6 DEF Used
  <2>6. Progress'
    <3> SUFFICES ASSUME Alive' PROVE Untouched' \/ (Under' /\ Prepared')
      BY DEF Progress
    <3>1. Alive
      BY <1>1, <1>6 DEF Alive, Loops
    <3>2. CASE Untouched
      BY <1>1, <1>6, <2>4, <3>2 DEF Untouched
    <3>3. CASE Under /\ Prepared
      <4>1. Under'
        BY <1>1, <1>6, <3>3 DEF Under
      <4>2. Prepared'
        BY <1>1, <1>6, <2>4, <2>5, <3>3 DEF Prepared
      <4> QED BY <4>1, <4>2
    <3> QED BY <1>1, <3>1, <3>2, <3>3 DEF Progress
  <2> QED BY <1>p, <2>2, <2>3, <2>6 DEF DownloadInv
\* The page was erased last.
<1>7. CASE /\ p < e.size /\ Erasable(address) /\ Erased /\ StepOn
           /\ UNCHANGED << pc, outcome, linked, last_erased_page, firstpoll, dstate, pending >>
  <2>1. /\ address \in Addresses
        /\ scan = 0 => EraseAddress = address
        /\ scan # 0 => EraseAddress = last_byte
    BY <1>1, <1>7, Looks
  <2>2. last_erased_page = Pg(address)
    <3>1. CASE scan = 0
      BY <1>7, <2>1, <3>1 DEF Erased, Pg
    <3>2. CASE scan # 0
      BY <1>1, <3>2 DEF Scanned
    <3> QED BY <3>1, <3>2
  <2>3. last_erased_page # NoPage
    BY <2>1, <2>2, OnPage
  <2>4. /\ Where' /\ Scanned'
        /\ \A x \in Addresses : Seen(x)' =>
              \/ Seen(x)
              \/ /\ x \in Bytes(e) /\ Erasable(x) /\ address <= x /\ x <= last_byte
                 /\ scan = 0 => Pg(x) = Pg(address)
    BY <1>1, <1>7, <2>2, Advance
  <2>5. ASSUME NEW x \in Addresses, Seen(x)', Under, Prepared PROVE flash[x] = Blank
    <3>1. CASE Seen(x)
      BY <1>1, <2>5, <3>1 DEF Prepared
    <3>2. CASE /\ x \in Bytes(e) /\ Erasable(x) /\ address <= x /\ x <= last_byte
               /\ scan = 0 => Pg(x) = Pg(address)
      <4>1. Pg(x) = Pg(address)
        <5>1. CASE scan = 0
          BY <3>2, <5>1
        <5>2. CASE scan # 0
          <6>1. PageStart(last_byte, find_segment(address).pagesize) = Pg(address)
            BY <1>7, <2>1, <2>2, <5>2 DEF Erased
          <6>2. last_byte \in Nat /\ x \in Nat
            BY <1>1, <1>7, Chunks, OnPage
          <6> QED BY <2>1, <3>2, <6>1, <6>2, OnePage
        <5> QED BY <5>1, <5>2
      <4>2. flash[x] = Blank \/ Used(x)
        BY <1>1, <2>2, <2>5, <4>1 DEF Prepared
      <4>3. ~Used(x)
        BY <1>1, <1>2, <3>2, NotUsed
      <4> QED BY <4>2, <4>3
    <3> QED BY <2>4, <2>5, <3>1, <3>2
  <2>6. Pend'
    BY <1>1, <1>7 DEF Pend
  <2>7. Progress'
    <3> SUFFICES ASSUME Alive' PROVE Untouched' \/ (Under' /\ Prepared')
      BY DEF Progress
    <3>1. Alive
      BY <1>1, <1>7 DEF Alive, Loops
    <3>2. Under /\ Prepared
      BY <1>1, <2>3, <3>1, Remembered
    <3>3. Under'
      BY <1>1, <1>7, <3>2 DEF Under
    <3>4. \A x \in Addresses : Used(x) => Used(x)'
      BY <1>1, <1>7 DEF Used
    <3>5. Prepared'
      BY <1>1, <1>7, <2>5, <3>2, <3>4 DEF Prepared
    <3> QED BY <3>3, <3>5
  <2> QED BY <1>p, <2>4, <2>6, <2>7 DEF DownloadInv
\* The page is to be erased.
<1>8. CASE p < e.size /\ Erasable(address) /\ ErasePage /\ UNCHANGED << p, scan >>
  <2>1. /\ address \in Addresses /\ EraseAddress \in Nat
    BY <1>1, <1>8, Looks
  <2>2. CASE ~Erasable(EraseAddress)
    <3>1. pc' = "exited" /\ UNCHANGED << dstate, pending >>
      BY <1>8, <2>2 DEF ErasePage, Exit, Quit
    <3>2. Pend'
      BY <1>1, <3>1 DEF Pend
    <3> QED BY <1>8, <1>o, <3>1, <3>2
  <2>3. CASE /\ Erasable(EraseAddress)
             /\ last_erased_page' = PageStart(EraseAddress, find_segment(EraseAddress).pagesize)
             /\ Dnload(Command("erase", EraseAddress, << >>), "erasing")
    <3> DEFINE command == Command("erase", EraseAddress, << >>)
    <3>1. command.name = "erase" /\ command # None
      BY DEF Command, None
    <3> HIDE DEF command
    <3>2. \/ /\ linked /\ dstate \in {"idle", "dnIdle"} /\ pending = None
             /\ dstate' = "dnSync" /\ pending' = command
             /\ (pc' = "erasing" /\ linked' = linked) \/ (pc' = "exited" /\ linked' = FALSE)
          \/ Pend' /\ pc' = "exited" /\ linked' = FALSE
      BY <1>1, <2>3, DnloadStep DEF command
    <3>3. pending' = command /\ dstate' = "dnSync" => Pend'
      BY <3>1 DEF Pend
    <3>4. CASE pc' = "exited"
      BY <1>8, <1>o, <3>2, <3>3, <3>4
    <3>5. CASE /\ linked /\ dstate \in {"idle", "dnIdle"} /\ pending = None
               /\ dstate' = "dnSync" /\ pending' = command
               /\ pc' = "erasing" /\ linked' = linked
      <4>1. address' = address /\ last_byte' = last_byte /\ EraseAddress' = EraseAddress
        BY <1>3, <1>8 DEF address, last_byte, chunk_size, EraseAddress
      <4>2. Where'
        BY <1>1, <1>2, <1>3, <1>8, <3>5 DEF Where, Pass1, Pass2, Loops
      <4>3. Scanned'
        BY <1>1, <1>3, <1>8, <2>3, <3>5, <4>1 DEF Scanned, Pg
      <4>4. \A x \in Addresses : Seen(x)' => Seen(x)
        BY <1>1, <1>3, <1>8, <3>5, <4>1 DEF Seen, Pass1
      <4>5. Alive
        BY <1>1, <3>5 DEF Alive, Loops
      <4>6. Untouched \/ Prepared
        BY <1>1, <4>5 DEF Progress
      <4>7. \A x \in Addresses : Seen(x)' => flash[x] = Blank
        BY <1>1, <4>4, <4>6 DEF Untouched, Prepared
      <4>8. Prepared'
        BY <1>1, <3>1, <3>5, <4>7 DEF Prepared
      <4>9. Under'
        <5>1. pending' = Command("erase", EraseAddress', << >>)
          BY <3>5, <4>1 DEF command
        <5> QED BY <3>5, <5>1 DEF Under
      <4> QED BY <1>p, <3>3, <3>5, <4>2, <4>3, <4>8, <4>9 DEF DownloadInv, Progress
    <3> QED BY <3>2, <3>4, <3>5
  <2> QED BY <1>8, <2>2, <2>3 DEF ErasePage
<1> QED BY <1>4, <1>5, <1>6, <1>7, <1>8 DEF Erase


-----------------------------------------------------------------------------
(* Polls, and the second pass.                                              *)

\* A poll goes on while the device is busy, and ends when it has no command.
LEMMA PollStep ==
  ASSUME Pend, UNCHANGED << flash, pointer >>, NEW done, Poll(done)
  PROVE  /\ Pend'
         /\ \/ pc' = "exited"
            \/ /\ pc' = pc /\ linked' = linked /\ dstate \in {"dnSync", "dnBusy"}
               /\ dstate' = "dnBusy" /\ pending' = pending
            \/ /\ pc' = done /\ linked' = linked /\ pending' = None
               /\ dstate \notin {"dnSync", "dnBusy", "error"}
<1>1. CASE Refused(TRUE)
  BY <1>1, RefusedStep
<1>2. ASSUME NEW state \in Reported, GetStatus(state),
             \/ state = "dnBusy" /\ UNCHANGED << pc, outcome, linked >>
             \/ state # "dnBusy" /\ ~firstpoll /\ state # "error" /\ Proceed(done)
             \/ state # "dnBusy" /\ (firstpoll \/ state = "error") /\ Exit
      PROVE  /\ Pend'
             /\ \/ pc' = "exited"
                \/ /\ pc' = pc /\ linked' = linked /\ dstate \in {"dnSync", "dnBusy"}
                   /\ dstate' = "dnBusy" /\ pending' = pending
                \/ /\ pc' = done /\ linked' = linked /\ pending' = None
                   /\ dstate \notin {"dnSync", "dnBusy", "error"}
  <2>1. /\ Pend' /\ dstate' = state
        /\ pending' = None \/ (pending' = pending /\ state = "dnBusy")
    BY <1>2, StatusStep
  <2>2. CASE state = "dnBusy" /\ UNCHANGED << pc, outcome, linked >>
    <3>1. dstate \in {"dnSync", "dnBusy"}
      BY <1>2, <2>2 DEF Reported
    <3>2. pending' = pending
      BY <1>2, <2>2 DEF GetStatus
    <3> QED BY <2>1, <2>2, <3>1, <3>2
  <2>3. CASE state # "dnBusy" /\ ~firstpoll /\ state # "error" /\ Proceed(done)
    <3>1. dstate \notin {"dnSync", "dnBusy", "error"}
      BY <1>2, <2>3 DEF Reported
    <3> QED BY <2>1, <2>3, <3>1 DEF Proceed
  <2>4. CASE Exit
    BY <2>1, <2>4 DEF Exit, Quit
  <2> QED BY <1>2, <2>2, <2>3, <2>4
<1> QED BY <1>1, <1>2 DEF Poll

LEMMA PollEraseStep ==
  ASSUME \A n \in DOMAIN Files : Disjoint(n), DownloadInv, PollErase
  PROVE  DownloadInv'
<1>1. /\ pc = "erasing" /\ pc \in Pass1
      /\ UNCHANGED << file, elem, last_erased_page, pointer, flash >>
      /\ Where /\ Scanned /\ Pend /\ Progress /\ Poll("erases")
  BY DEF PollErase, historyVars, DownloadInv, Pass1
<1>2. /\ file \in DOMAIN Files /\ elem \in Targets(file) /\ elem \in Nat
      /\ e.address \in Nat /\ e.size \in Nat /\ p \in Nat /\ scan \in Nat
  BY <1>1, ElementType
<1>3. /\ p < e.size /\ Erasable(address) /\ Erasable(EraseAddress)
      /\ last_erased_page = Pg(EraseAddress)
  BY <1>1 DEF Where, Scanned
<1>4. /\ address \in Addresses /\ EraseAddress \in Nat /\ EraseAddress \in Addresses
      /\ scan = 0 => EraseAddress = address
      /\ scan # 0 => EraseAddress = last_byte
  <2>1. EraseAddress \in Nat
    BY <1>1, <1>3, Looks
  <2>2. EraseAddress \in Addresses
    BY <1>3, <2>1, ErasableIsThere
  <2> QED BY <1>1, <1>3, <2>1, <2>2, Looks
<1>p. ErasedBeforeWritten'
  BY <1>1 DEF DownloadInv, ErasedBeforeWritten
<1>u. Alive => Under /\ Prepared
  BY <1>1 DEF Progress, Untouched
<1>5. /\ Pend'
      /\ \/ pc' = "exited"
         \/ /\ pc' = pc /\ linked' = linked /\ dstate \in {"dnSync", "dnBusy"}
            /\ dstate' = "dnBusy" /\ pending' = pending
         \/ /\ pc' = "erases" /\ linked' = linked /\ pending' = None
            /\ dstate \notin {"dnSync", "dnBusy", "error"}
  BY <1>1, PollStep
<1>6. CASE pc' = "exited"
  <2>1. UNCHANGED << p, scan >>
    BY <1>6 DEF PollErase
  <2>2. pc' \notin Loops
    BY <1>6 DEF Loops, Pass1, Pass2
  <2> QED BY <1>1, <1>2, <1>5, <2>1, <2>2, Outside
<1>7. CASE /\ pc' = pc /\ linked' = linked /\ dstate \in {"dnSync", "dnBusy"}
           /\ dstate' = "dnBusy" /\ pending' = pending
  <2>1. UNCHANGED << p, scan >>
    BY <1>1, <1>7 DEF PollErase
  <2>2. Where' /\ Scanned'
    BY <1>1, <1>7, <2>1 DEF Where, Scanned, e, address, EraseAddress, chunk_size, Element
  <2>3. ASSUME Alive' PROVE Under' /\ Prepared'
    <3>1. Alive
      BY <1>1, <1>7, <2>3 DEF Alive, Loops
    <3>2. Under'
      BY <1>1, <1>7, <1>u, <2>1, <3>1
         DEF Under, e, address, EraseAddress, chunk_size, Element
    <3>3. Prepared'
      BY <1>1, <1>7, <1>u, <2>1, <3>1
         DEF Prepared, Seen, Used, e, Bytes, address, last_byte, chunk_size, Element
    <3> QED BY <3>2, <3>3
  <2> QED BY <1>5, <1>p, <2>2, <2>3 DEF DownloadInv, Progress
<1>8. CASE /\ pc' = "erases" /\ linked' = linked /\ pending' = None
           /\ dstate \notin {"dnSync", "dnBusy", "error"}
  <2>1. StepOn
    BY <1>8 DEF PollErase
  <2>2. scan = 0 => last_erased_page = Pg(address)
    BY <1>3, <1>4
  <2>3. /\ Where' /\ Scanned'
        /\ \A x \in Addresses : Seen(x)' =>
              \/ Seen(x)
              \/ /\ x \in Bytes(e) /\ Erasable(x) /\ address <= x /\ x <= last_byte
                 /\ scan = 0 => Pg(x) = Pg(address)
    BY <1>1, <1>3, <1>8, <2>1, <2>2, Advance
  <2>4. ASSUME Alive' PROVE Under' /\ Prepared'
    <3>1. Under /\ Prepared
      BY <1>1, <1>8, <1>u, <2>4 DEF Alive, Loops
    <3>2. pending = None /\ \A x \in Page(EraseAddress) : flash[x] = Blank
      BY <1>1, <1>8, <3>1 DEF Under
    <3>3. ASSUME NEW x \in Addresses, Seen(x)' PROVE flash[x] = Blank
      <4>1. CASE Seen(x)
        BY <1>1, <3>1, <4>1 DEF Prepared
      <4>2. CASE Pg(x) = Pg(EraseAddress)
        BY <1>4, <3>2, <4>2, PagesAreApart
      <4>3. CASE /\ x \in Bytes(e) /\ Erasable(x) /\ address <= x /\ x <= last_byte
                 /\ scan # 0
        <5>1. last_byte \in Addresses /\ last_byte < address + XferSize
          <6>1. /\ chunk_size \in Nat /\ chunk_size <= XferSize /\ address \in Nat
                /\ last_byte = address + chunk_size - 1
            BY <1>1, <1>3, Chunks
          <6>2. XferSize \in Nat
            BY LayoutAssumption
          <6>3. last_byte < address + XferSize
            BY <6>1, <6>2
          <6> QED BY <1>4, <4>3, <6>3
        <5>2. Pg(x) = Pg(address) \/ Pg(x) = Pg(last_byte)
          BY <1>4, <4>3, <5>1, TwoPages
        <5>3. CASE Pg(x) = Pg(address)
          <6>1. Seen(x)
            BY <1>1, <4>3, <5>3 DEF Seen
          <6> QED BY <4>1, <6>1
        <5>4. CASE Pg(x) = Pg(last_byte)
          BY <1>4, <4>2, <4>3, <5>4
        <5> QED BY <5>2, <5>3, <5>4
      <4> QED BY <1>4, <2>3, <3>3, <4>1, <4>2, <4>3
    <3>4. \A x \in Addresses : Pg(x) = last_erased_page => flash[x] = Blank \/ Used(x)
      BY <3>1, <3>2 DEF Prepared
    <3>5. \A x \in Addresses : Used(x) => Used(x)'
      BY <1>1, <1>8 DEF Used, Pass1, Pass2
    <3>6. Prepared'
      BY <1>1, <3>3, <3>4, <3>5 DEF Prepared
    <3>7. Under'
      BY <1>8 DEF Under
    <3> QED BY <3>6, <3>7
  <2> QED BY <1>5, <1>p, <2>3, <2>4 DEF DownloadInv, Progress
<1> QED BY <1>5, <1>6, <1>7, <1>8

LEMMA SetAddressStep == ASSUME DownloadInv, SetAddress PROVE DownloadInv'
<1>1. /\ pc = "writes" /\ pc \in Pass2
      /\ UNCHANGED << file, p, scan, last_erased_page, pointer, flash >>
      /\ Where /\ Scanned /\ Pend /\ Progress
  BY DEF SetAddress, historyVars, DownloadInv, Pass2
<1>2. /\ file \in DOMAIN Files /\ elem \in Targets(file) /\ elem \in Nat
      /\ e.address \in Nat /\ e.size \in Nat /\ p \in Nat /\ scan \in Nat
      /\ Files[file].dfuse /\ elem >= 1
  <2>1. Files[file].dfuse /\ elem >= 1
    BY <1>1 DEF Where, Loops
  <2> QED BY <1>1, <2>1, ElementType
<1>p. ErasedBeforeWritten'
  BY <1>1 DEF DownloadInv, ErasedBeforeWritten
<1>3. CASE /\ p >= e.size
           /\ elem' = elem + 1
           /\ Proceed("element")
           /\ UNCHANGED << firstpoll, dstate, pending >>
  <2>1. pc' = "element" /\ linked' = linked /\ UNCHANGED << dstate, pending >>
    BY <1>3 DEF Proceed
  <2>2. Where' /\ Scanned'
    BY <1>1, <1>2, <1>3, <2>1 DEF Where, Scanned, Pass1, Pass2
  <2>3. Pend'
    BY <1>1, <2>1 DEF Pend
  <2>4. ASSUME NEW x \in Addresses, Used(x) PROVE Used(x)'
    <3>1. PICK i \in Targets(file) : x \in Bytes(Element(file, i)) /\ (i < elem \/ i = elem)
      BY <2>4 DEF Used
    <3>2. i \in Nat
      BY <1>2, FileType
    <3>3. i < elem'
      BY <1>2, <1>3, <3>1, <3>2
    <3> QED BY <1>1, <3>1, <3>3 DEF Used
  <2>5. ASSUME Alive' PROVE Untouched' \/ (Under' /\ Prepared')
    <3>1. Untouched \/ (Under /\ Prepared)
      BY <1>1, <2>1, <2>5 DEF Progress, Alive, Loops
    <3>2. CASE Untouched
      <4>1. ASSUME NEW i \in Targets(file), i < elem + 1
            PROVE  Element(file, i).size = 0
        <5>1. i \in Nat
          BY <1>2, FileType
        <5>2. CASE i = elem
          <6>1. p = 0
            BY <1>1, <3>2 DEF Untouched
          <6>2. e.size = 0
            BY <1>2, <1>3, <6>1
          <6> QED BY <5>2, <6>2 DEF e
        <5>3. CASE i < elem
          BY <3>2, <5>3 DEF Untouched
        <5> QED BY <1>2, <4>1, <5>1, <5>2, <5>3
      <4>2. Untouched'
        BY <1>1, <1>3, <2>1, <3>2, <4>1 DEF Untouched, Element
      <4> QED BY <4>2
    <3>3. CASE Under /\ Prepared
      BY <1>1, <2>1, <2>4, <3>3 DEF Under, Prepared
    <3> QED BY <3>1, <3>2, <3>3
  <2> QED BY <1>p, <2>2, <2>3, <2>5 DEF DownloadInv, Progress
<1>4. CASE p < e.size /\ Dnload(Command("address", address, << >>), "addressing") /\ UNCHANGED elem
  <2> DEFINE command == Command("address", address, << >>)
  <2>1. command.name = "address" /\ command # None
    BY DEF Command, None
  <2> HIDE DEF command
  <2>2. \/ /\ linked /\ dstate \in {"idle", "dnIdle"} /\ pending = None
           /\ dstate' = "dnSync" /\ pending' = command
           /\ (pc' = "addressing" /\ linked' = linked) \/ (pc' = "exited" /\ linked' = FALSE)
        \/ Pend' /\ pc' = "exited" /\ linked' = FALSE
    BY <1>1, <1>4, DnloadStep DEF command
  <2>3. pending' = command /\ dstate' = "dnSync" => Pend'
    BY <2>1 DEF Pend
  <2>4. CASE pc' = "exited"
    <3>1. pc' \notin Loops
      BY <2>4 DEF Loops, Pass1, Pass2
    <3> QED BY <1>1, <1>2, <1>4, <2>2, <2>3, <3>1, Outside
  <2>5. CASE /\ linked /\ dstate \in {"idle", "dnIdle"} /\ pending = None
             /\ dstate' = "dnSync" /\ pending' = command
             /\ pc' = "addressing" /\ linked' = linked
    <3>1. address' = address /\ e' = e /\ Bytes(e)' = Bytes(e)
      BY <1>1, <1>4 DEF address, e, Bytes, Element
    <3>2. Where' /\ Scanned'
      BY <1>1, <1>2, <1>4, <2>5, <3>1 DEF Where, Scanned, Pass1, Pass2, Loops
    <3>3. \A x \in Addresses : Seen(x)' => Seen(x)
      BY <1>1, <2>5, <3>1 DEF Seen, Pass1
    <3>4. Untouched \/ (Under /\ Prepared)
      BY <1>1, <2>5 DEF Progress, Alive, Loops
    <3>5. \A x \in Addresses : Seen(x)' => flash[x] = Blank
      BY <1>1, <3>3, <3>4 DEF Untouched, Prepared
    <3>6. ASSUME NEW x \in Addresses, Pg(x) = last_erased_page
          PROVE  flash[x] = Blank \/ Used(x)'
      <4>1. last_erased_page # NoPage
        BY <3>6, OnPage
      <4>2. flash[x] = Blank \/ Used(x)
        BY <1>1, <3>4, <3>6, <4>1 DEF Untouched, Prepared
      <4>3. Used(x) => Used(x)'
        BY <1>1, <1>4, <2>5 DEF Used, Pass2
      <4> QED BY <4>2, <4>3
    <3>7. Prepared'
      BY <1>1, <3>5, <3>6 DEF Prepared
    <3>8. Under'
      <4>1. pending' = Command("address", address', << >>)
        BY <2>5, <3>1 DEF command
      <4> QED BY <2>5, <4>1 DEF Under
    <3> QED BY <1>p, <2>3, <2>5, <3>2, <3>7, <3>8 DEF DownloadInv, Progress
  <2> QED BY <2>2, <2>4, <2>5
<1> QED BY <1>3, <1>4 DEF SetAddress

LEMMA PollAddressStep == ASSUME DownloadInv, PollAddress PROVE DownloadInv'
<1>1. /\ pc = "addressing" /\ pc \in Pass2
      /\ UNCHANGED << file, elem, p, scan, last_erased_page, pointer, flash >>
      /\ Where /\ Scanned /\ Pend /\ Progress /\ Poll("chunk")
  BY DEF PollAddress, loopVars, historyVars, DownloadInv, Pass2
<1>2. /\ file \in DOMAIN Files /\ elem \in Targets(file) /\ elem \in Nat
      /\ p \in Nat /\ scan \in Nat /\ p < e.size /\ Files[file].dfuse /\ elem >= 1
  <2>1. Files[file].dfuse /\ elem >= 1 /\ p < e.size
    BY <1>1 DEF Where, Loops
  <2> QED BY <1>1, <2>1, ElementType
<1>p. ErasedBeforeWritten'
  BY <1>1 DEF DownloadInv, ErasedBeforeWritten
<1>u. Alive => Under /\ Prepared
  BY <1>1 DEF Progress, Untouched
<1>3. e' = e /\ Bytes(e)' = Bytes(e) /\ address' = address
  BY <1>1 DEF e, Bytes, Element, address
<1>4. /\ Pend'
      /\ \/ pc' = "exited"
         \/ /\ pc' = pc /\ linked' = linked /\ dstate \in {"dnSync", "dnBusy"}
            /\ dstate' = "dnBusy" /\ pending' = pending
         \/ /\ pc' = "chunk" /\ linked' = linked /\ pending' = None
            /\ dstate \notin {"dnSync", "dnBusy", "error"}
  BY <1>1, PollStep
<1>5. CASE pc' = "exited"
  <2>1. pc' \notin Loops
    BY <1>5 DEF Loops, Pass1, Pass2
  <2> QED BY <1>1, <1>2, <1>4, <2>1, Outside
<1>6. CASE pc' \in {"addressing", "chunk"}
  <2>1. Where' /\ Scanned'
    BY <1>1, <1>2, <1>3, <1>6 DEF Where, Scanned, Pass1, Pass2, Loops
  <2>2. ASSUME Alive' PROVE Under' /\ Prepared'
    <3>1. Under /\ Prepared
      BY <1>1, <1>4, <1>6, <1>u, <2>2 DEF Alive, Loops
    <3>2. Under'
      BY <1>1, <1>3, <1>4, <1>6, <3>1 DEF Under
    <3>3. \A x \in Addresses : (Seen(x)' => Seen(x)) /\ (Used(x) => Used(x)')
      BY <1>1, <1>3, <1>6 DEF Seen, Used, Pass1, Pass2
    <3>4. Prepared'
      BY <1>1, <1>6, <3>1, <3>3 DEF Prepared
    <3> QED BY <3>2, <3>4
  <2> QED BY <1>4, <1>p, <2>1, <2>2 DEF DownloadInv, Progress
<1> QED BY <1>1, <1>4, <1>5, <1>6

\* Chunk: the bytes of the element from the address on.
LEMMA ChunkBytes ==
  ASSUME Where, pc \in Pass2, p < e.size
  PROVE  /\ Len(Chunk) = chunk_size
         /\ \A k \in 1..chunk_size : Chunk[k] # Garbled
<1>1. chunk_size \in Nat
  BY Chunks
<1>2. DOMAIN Chunk = 1..chunk_size
  BY DEF Chunk
<1>3. Chunk \in Seq({ByteFor(file, elem, address + k - 1) : k \in 1..chunk_size})
  <2> DEFINE S == {ByteFor(file, elem, address + k - 1) : k \in 1..chunk_size}
  <2>1. Chunk \in [1..chunk_size -> S]
    BY DEF Chunk
  <2> QED BY <1>1, <2>1, SeqDef
<1>4. Len(Chunk) = chunk_size
  BY <1>1, <1>2, <1>3, LenProperties
<1>5. \A k \in 1..chunk_size : Chunk[k] # Garbled
  BY DEF Chunk, ByteFor, Garbled
<1> QED BY <1>4, <1>5

LEMMA ChunkStep == ASSUME DownloadInv, dfuse_dnload_chunk PROVE DownloadInv'
<1>1. /\ pc = "chunk" /\ pc \in Pass2
      /\ UNCHANGED << file, elem, p, scan, last_erased_page, pointer, flash >>
      /\ Where /\ Scanned /\ Pend /\ Progress
      /\ Dnload(Command("data", 0, Chunk), "writing")
  BY DEF dfuse_dnload_chunk, hostVars, loopVars, historyVars, DownloadInv, Pass2
<1>2. /\ file \in DOMAIN Files /\ elem \in Targets(file) /\ elem \in Nat
      /\ e.address \in Nat /\ e.size \in Nat /\ p \in Nat /\ scan \in Nat
      /\ p < e.size /\ Files[file].dfuse /\ elem >= 1
      /\ Bytes(e) = e.address .. e.address + e.size - 1
      /\ address = e.address + p
  <2>1. Files[file].dfuse /\ elem >= 1 /\ p < e.size
    BY <1>1 DEF Where, Loops
  <2> QED BY <1>1, <2>1, ElementType
<1>3. /\ chunk_size \in Nat /\ 1 <= chunk_size /\ p + chunk_size <= e.size
      /\ last_byte = address + chunk_size - 1 /\ address \in Nat
  BY <1>1, <1>2, Chunks
<1>4. Len(Chunk) = chunk_size /\ \A k \in 1..chunk_size : Chunk[k] # Garbled
  BY <1>1, <1>2, ChunkBytes
<1>p. ErasedBeforeWritten'
  BY <1>1 DEF DownloadInv, ErasedBeforeWritten
<1> DEFINE command == Command("data", 0, Chunk)
<1>5. command.name = "data" /\ command.bytes = Chunk /\ command # None
  BY DEF Command, None
<1> HIDE DEF command
<1>6. \/ /\ linked /\ dstate \in {"idle", "dnIdle"} /\ pending = None
         /\ dstate' = "dnSync" /\ pending' = command
         /\ (pc' = "writing" /\ linked' = linked) \/ (pc' = "exited" /\ linked' = FALSE)
      \/ Pend' /\ pc' = "exited" /\ linked' = FALSE
  BY <1>1, DnloadStep DEF command
<1>7. ASSUME linked, dstate \in {"idle", "dnIdle"}, dstate' = "dnSync", pending' = command
      PROVE  Under /\ Prepared /\ pointer = address /\ Pend'
  <2>1. Under /\ Prepared
    BY <1>1, <1>7 DEF Progress, Untouched, Alive, Loops
  <2>2. pointer = address
    BY <1>1, <2>1 DEF Under
  <2>3. ASSUME NEW a \in Addresses, a \in pointer .. pointer + Len(Chunk) - 1
        PROVE  (Erasable(a) => flash[a] = Blank) /\ Chunk[a - pointer + 1] # Garbled
    <3>1. a \in Nat /\ address <= a /\ a <= address + chunk_size - 1
      BY <1>3, <1>4, <2>2, <2>3
    <3>2. a \in Bytes(e)
      <4>1. e.address <= a
        BY <1>2, <3>1
      <4>2. a <= e.address + p + chunk_size - 1
        BY <1>2, <3>1
      <4>3. a <= e.address + e.size - 1
        BY <1>2, <1>3, <3>1, <4>2, WithinElement
      <4> QED BY <1>2, <3>1, <4>1, <4>3
    <3>3. Erasable(a) => Seen(a)
      BY <1>1, <3>1, <3>2 DEF Seen
    <3>4. Erasable(a) => flash[a] = Blank
      BY <1>1, <2>1, <3>3 DEF Prepared
    <3>5. a - pointer + 1 \in 1..chunk_size
      BY <1>3, <2>2, <3>1
    <3> QED BY <1>4, <3>4, <3>5
  <2>4. Pend'
    BY <1>1, <1>5, <1>7, <2>3 DEF Pend
  <2> QED BY <2>1, <2>2, <2>4
<1>8. CASE pc' = "exited"
  <2>1. pc' \notin Loops
    BY <1>8 DEF Loops, Pass1, Pass2
  <2> QED BY <1>1, <1>2, <1>6, <1>7, <2>1, Outside
<1>9. CASE /\ linked /\ dstate \in {"idle", "dnIdle"} /\ pending = None
           /\ dstate' = "dnSync" /\ pending' = command
           /\ pc' = "writing" /\ linked' = linked
  <2>1. /\ address' = address /\ e' = e /\ Bytes(e)' = Bytes(e)
        /\ chunk_size' = chunk_size /\ last_byte' = last_byte
    BY <1>1 DEF address, e, Bytes, Element, chunk_size, last_byte
  <2>2. Where' /\ Scanned'
    BY <1>1, <1>2, <1>9, <2>1 DEF Where, Scanned, Pass1, Pass2, Loops
  <2>3. Under /\ Prepared /\ pointer = address /\ Pend'
    BY <1>7, <1>9
  <2>4. ASSUME NEW x \in Addresses, Seen(x)' PROVE Seen(x)
    <3>1. x \in Bytes(e) /\ Erasable(x) /\ x > last_byte
      BY <1>9, <2>1, <2>4 DEF Seen, Pass1
    <3>2. x >= address
      BY <1>2, <1>3, <3>1, OnPage
    <3> QED BY <1>1, <3>1, <3>2 DEF Seen
  <2>5. \A x \in Addresses : Used(x) => Used(x)'
    BY <1>1, <1>9 DEF Used, Pass2
  <2>6. Prepared'
    BY <1>1, <2>3, <2>4, <2>5 DEF Prepared
  <2>7. Under'
    <3>1. Chunk' = Chunk
      BY <1>1, <2>1 DEF Chunk
    <3>2. pending' = Command("data", 0, Chunk')
      BY <1>9, <3>1 DEF command
    <3> QED BY <1>1, <1>9, <2>1, <2>3, <3>2 DEF Under
  <2> QED BY <1>p, <2>2, <2>3, <2>6, <2>7 DEF DownloadInv, Progress
<1> QED BY <1>6, <1>8, <1>9

LEMMA PollChunkStep == ASSUME DownloadInv, PollChunk PROVE DownloadInv'
<1>1. /\ pc = "writing" /\ pc \in Pass2
      /\ UNCHANGED << file, elem, scan, last_erased_page, pointer, flash >>
      /\ Where /\ Scanned /\ Pend /\ Progress
  BY DEF PollChunk, historyVars, DownloadInv, Pass2
<1>2. /\ file \in DOMAIN Files /\ elem \in Targets(file) /\ elem \in Nat
      /\ e.address \in Nat /\ e.size \in Nat /\ p \in Nat /\ scan \in Nat
      /\ p < e.size /\ Files[file].dfuse /\ elem >= 1
      /\ Bytes(e) = e.address .. e.address + e.size - 1
      /\ address = e.address + p
  <2>1. Files[file].dfuse /\ elem >= 1 /\ p < e.size
    BY <1>1 DEF Where, Loops
  <2> QED BY <1>1, <2>1, ElementType
<1>3. /\ chunk_size \in Nat /\ chunk_size <= XferSize /\ XferSize \in Nat
      /\ last_byte = address + chunk_size - 1 /\ address \in Nat
  BY <1>1, <1>2, Chunks, LayoutAssumption
<1>4. e' = e /\ Bytes(e)' = Bytes(e)
  BY <1>1 DEF e, Bytes, Element
<1>p. ErasedBeforeWritten'
  BY <1>1 DEF DownloadInv, ErasedBeforeWritten
<1>u. Alive => Under /\ Prepared
  BY <1>1 DEF Progress, Untouched
<1>o. ASSUME pc' = "exited", UNCHANGED p, Pend' PROVE DownloadInv'
  <2>1. pc' \notin Loops
    BY <1>o DEF Loops, Pass1, Pass2
  <2> QED BY <1>1, <1>2, <1>o, <2>1, Outside
<1>5. CASE Refused(TRUE) /\ UNCHANGED p
  BY <1>1, <1>5, <1>o, RefusedStep
<1>6. ASSUME NEW state \in Reported, GetStatus(state),
             \/ state \notin {"dnIdle", "error"} /\ UNCHANGED << pc, outcome, linked, p >>
             \/ state = "dnIdle" /\ Proceed("writes") /\ p' = p + XferSize
             \/ state = "error" /\ Exit /\ UNCHANGED p
      PROVE  DownloadInv'
  <2>1. /\ Pend' /\ dstate' = state
        /\ pending' = None \/ (pending' = pending /\ state = "dnBusy")
    BY <1>1, <1>6, StatusStep
  <2>2. CASE state \notin {"dnIdle", "error"} /\ UNCHANGED << pc, outcome, linked, p >>
    <3>1. address' = address /\ chunk_size' = chunk_size /\ last_byte' = last_byte
      BY <1>4, <2>2 DEF address, chunk_size, last_byte
    <3>2. Where' /\ Scanned'
      BY <1>1, <1>2, <1>4, <2>2 DEF Where, Scanned, Pass1, Pass2, Loops
    <3>3. ASSUME Alive' PROVE Under' /\ Prepared'
      <4>1. dstate # "error"
        BY <1>6, <2>2 DEF Reported
      <4>2. Under /\ Prepared
        BY <1>1, <1>u, <2>2, <3>3, <4>1 DEF Alive, Loops
      <4>3. Under'
        <5>1. Chunk' = Chunk
          BY <1>1, <3>1 DEF Chunk
        <5> QED BY <1>1, <1>4, <2>1, <2>2, <3>1, <4>2, <5>1 DEF Under
      <4>4. \A x \in Addresses : (Seen(x)' => Seen(x)) /\ (Used(x) => Used(x)')
        BY <1>1, <1>4, <2>2, <3>1 DEF Seen, Used, Pass1, Pass2
      <4>5. Prepared'
        BY <1>1, <2>2, <4>2, <4>4 DEF Prepared
      <4> QED BY <4>3, <4>5
    <3> QED BY <1>p, <2>1, <3>2, <3>3 DEF DownloadInv, Progress
  <2>3. CASE state = "dnIdle" /\ Proceed("writes") /\ p' = p + XferSize
    <3>1. pc' = "writes" /\ linked' = linked /\ pending' = None
      BY <2>1, <2>3 DEF Proceed
    <3>2. Where' /\ Scanned'
      BY <1>1, <1>2, <1>3, <1>4, <2>3, <3>1 DEF Where, Scanned, Pass1, Pass2, Loops
    <3>3. ASSUME Alive' PROVE Under' /\ Prepared'
      <4>1. dstate # "error"
        BY <1>6, <2>3 DEF Reported
      <4>2. Under /\ Prepared
        BY <1>1, <1>u, <3>1, <3>3, <4>1 DEF Alive, Loops
      <4>3. ASSUME NEW x \in Addresses, Seen(x)' PROVE Seen(x)
        <5>1. x \in Bytes(e) /\ Erasable(x) /\ x >= address'
          BY <1>4, <3>1, <4>3 DEF Seen, Pass1
        <5>2. address' = e.address + p + XferSize
          BY <1>2, <1>3, <1>4, <2>3 DEF address
        <5>3. x > last_byte
          BY <1>2, <1>3, <5>1, <5>2, OnPage
        <5> QED BY <1>1, <5>1, <5>3 DEF Seen
      <4>4. \A x \in Addresses : Used(x) => Used(x)'
        BY <1>1, <3>1 DEF Used, Pass2
      <4>5. Prepared'
        BY <1>1, <3>1, <4>2, <4>3, <4>4 DEF Prepared
      <4>6. Under'
        BY <3>1 DEF Under
      <4> QED BY <4>5, <4>6
    <3> QED BY <1>p, <2>1, <3>2, <3>3 DEF DownloadInv, Progress
  <2>4. CASE state = "error" /\ Exit /\ UNCHANGED p
    BY <1>o, <2>1, <2>4 DEF Exit, Quit
  <2> QED BY <1>6, <2>2, <2>3, <2>4
<1> QED BY <1>5, <1>6 DEF PollChunk

-----------------------------------------------------------------------------
(* The bootloader.                                                          *)

\* Whether a command is done or interrupted, it garbles nothing.
LEMMA NothingGarbled ==
  ASSUME Pend, ErasedBeforeWritten, NEW a \in Addresses
  PROVE  Done[a] # Garbled /\ Torn[a] # Garbled
<1>1. flash[a] # Garbled
  BY DEF ErasedBeforeWritten
<1>2. Torn[a] # Garbled
  BY <1>1 DEF Torn, TornByte, Garbled
<1>3. CASE a \notin Affected
  BY <1>1, <1>2, <1>3 DEF Done
<1>4. CASE a \in Affected /\ pending.name = "erase"
  BY <1>2, <1>4 DEF Done, Stored, Blank, Garbled
<1>5. CASE a \in Affected /\ pending.name = "data"
  <2>1. a \in Addresses \cap (pointer .. pointer + Len(pending.bytes) - 1)
    BY <1>5 DEF Affected
  <2>2. (Erasable(a) => flash[a] = Blank) /\ pending.bytes[a - pointer + 1] # Garbled
    BY <1>5, <2>1 DEF Pend
  <2>3. Stored(a) = pending.bytes[a - pointer + 1]
    BY <1>5, <2>2 DEF Stored
  <2> QED BY <1>2, <1>5, <2>2, <2>3 DEF Done
<1>6. a \in Affected => pending.name \in {"erase", "data"}
  BY DEF Affected
<1> QED BY <1>3, <1>4, <1>5, <1>6

\* What is kept when only the device moves.
LEMMA HostAtRest ==
  ASSUME UNCHANGED << pc, file, elem, p, scan, last_erased_page >>
  PROVE  /\ e' = e /\ Bytes(e)' = Bytes(e) /\ address' = address
         /\ chunk_size' = chunk_size /\ last_byte' = last_byte
         /\ EraseAddress' = EraseAddress /\ Chunk' = Chunk
         /\ Where => Where'
         /\ Scanned => Scanned'
         /\ \A x : (Seen(x)' <=> Seen(x)) /\ (Used(x)' <=> Used(x))
<1>1. e' = e
  BY DEF e, Element
<1>2. Bytes(e)' = Bytes(e) /\ address' = address /\ chunk_size' = chunk_size
  BY <1>1 DEF Bytes, address, chunk_size
<1>3. last_byte' = last_byte /\ EraseAddress' = EraseAddress /\ Chunk' = Chunk
  BY <1>2 DEF last_byte, EraseAddress, Chunk
<1>4. Where => Where'
  BY <1>1 DEF Where
<1>5. Scanned => Scanned'
  BY <1>1, <1>2, <1>3 DEF Scanned
<1>6. \A x : (Seen(x)' <=> Seen(x)) /\ (Used(x)' <=> Used(x))
  BY <1>1, <1>2, <1>3 DEF Seen, Used
<1> QED BY <1>1, <1>2, <1>3, <1>4, <1>5, <1>6

LEMMA ExecuteStep == ASSUME DownloadInv, Execute PROVE DownloadInv'
<1>1. /\ UNCHANGED << pc, file, elem, p, scan, last_erased_page, linked >>
      /\ dstate = "dnBusy" /\ pending # None /\ pending' = None
      /\ Where /\ Scanned /\ Pend /\ Progress /\ ErasedBeforeWritten
  BY DEF Execute, hostVars, loopVars, historyVars, DownloadInv
<1>2. Where' /\ Scanned'
  BY <1>1, HostAtRest
<1>3. Pend'
  BY <1>1 DEF Pend, None, Command
<1>4. flash' \in {Done, Torn}
  BY DEF Execute
<1>5. ErasedBeforeWritten'
  BY <1>1, <1>4, NothingGarbled DEF ErasedBeforeWritten
<1>6. ASSUME Alive' PROVE Untouched' \/ (Under' /\ Prepared')
  <2>1. /\ flash' = Done
        /\ pointer' = IF pending.name = "address" THEN pending.at ELSE pointer
    BY <1>6 DEF Execute, Alive
  <2>2. Alive
    BY <1>1, <1>6 DEF Alive
  <2>3. CASE Untouched
    BY <1>1, <2>3, HostAtRest DEF Untouched
  <2>4. CASE Under /\ Prepared
    <3>1. pc \in {"erasing", "addressing", "writing"}
      BY <1>1, <2>2, <2>4 DEF Under, Alive, Loops, Pass1, Pass2
    <3>2. /\ e' = e /\ address' = address /\ chunk_size' = chunk_size
          /\ EraseAddress' = EraseAddress
          /\ \A x : (Seen(x)' <=> Seen(x)) /\ (Used(x)' <=> Used(x))
      BY <1>1, HostAtRest
    <3>3. CASE pc = "erasing"
      <4>1. pending.name = "erase" /\ pending.at = EraseAddress
        BY <1>1, <2>4, <3>3 DEF Under, Command
      <4>2. \A x \in Page(EraseAddress) : flash'[x] = Blank
        BY <2>1, <4>1 DEF Done, Affected, Stored, Page
      <4>3. \A x \in Addresses : flash[x] = Blank => flash'[x] = Blank
        BY <2>1, <4>1 DEF Done, Stored
      <4>4. EraseAddress \in Addresses /\ last_erased_page = Pg(EraseAddress)
        <5>1. Erasable(EraseAddress) /\ last_erased_page = Pg(EraseAddress) /\ Erasable(address)
          BY <1>1, <3>3 DEF Scanned
        <5>2. EraseAddress \in Nat
          BY <1>1, <3>3, <5>1, Looks DEF Pass1, Where
        <5> QED BY <5>1, <5>2, ErasableIsThere
      <4>5. \A x \in Addresses : Pg(x) = last_erased_page => flash'[x] = Blank
        BY <4>2, <4>4, PagesAreApart
      <4>6. Prepared'
        BY <1>1, <2>4, <3>2, <3>3, <4>3, <4>5 DEF Prepared
      <4>7. Under'
        <5>1. Page(EraseAddress)' = Page(EraseAddress)
          BY <3>2
        <5> QED BY <1>1, <3>2, <3>3, <4>2 DEF Under
      <4> QED BY <4>6, <4>7
    <3>4. CASE pc = "addressing"
      <4>1. pending.name = "address" /\ pending.at = address
        BY <1>1, <2>4, <3>4 DEF Under, Command
      <4>2. \A x \in Addresses : flash'[x] = flash[x]
        BY <2>1, <4>1 DEF Done, Affected
      <4>3. Prepared'
        BY <1>1, <2>4, <3>2, <3>4, <4>2 DEF Prepared
      <4>4. Under'
        BY <1>1, <2>1, <3>2, <3>4, <4>1 DEF Under
      <4> QED BY <4>3, <4>4
    <3>5. CASE pc = "writing"
      <4>2. p < e.size /\ pc \in Pass2 /\ elem \in Targets(file)
        BY <1>1, <3>5 DEF Where, Pass2
      <4>0. pending = Command("data", 0, Chunk) /\ pointer = address
        BY <1>1, <2>4, <3>5 DEF Under
      <4>1. /\ pending.name = "data" /\ Len(pending.bytes) = chunk_size
            /\ pointer = address /\ pointer' = address
        <5>1. pending.name = "data" /\ pending.bytes = Chunk
          BY <4>0 DEF Command
        <5>2. Len(Chunk) = chunk_size
          BY <1>1, <4>2, ChunkBytes
        <5> QED BY <2>1, <4>0, <5>1, <5>2
      <4>3. /\ last_byte = address + chunk_size - 1 /\ chunk_size \in Nat /\ address \in Nat
            /\ p + chunk_size <= e.size
        BY <1>1, <4>2, Chunks
      <4>4. /\ Bytes(e) = e.address .. e.address + e.size - 1
            /\ e.address \in Nat /\ e.size \in Nat /\ p \in Nat /\ address = e.address + p
        BY <1>1, <4>2, ElementType
      <4>5. ASSUME NEW x \in Addresses, x \in Affected
            PROVE  x \in Nat /\ x <= last_byte /\ Used(x)
        <5>1. x \in pointer .. pointer + Len(pending.bytes) - 1
          BY <4>1, <4>5 DEF Affected
        <5>2. x \in Nat /\ address <= x /\ x <= address + chunk_size - 1
          BY <4>1, <4>3, <5>1
        <5>4. x <= e.address + p + chunk_size - 1 /\ e.address <= x
          BY <4>3, <4>4, <5>2
        <5>5. x <= e.address + e.size - 1
          BY <4>3, <4>4, <5>2, <5>4, WithinElement
        <5>3. x \in Bytes(e)
          BY <4>4, <5>2, <5>4, <5>5
        <5> QED BY <4>2, <4>3, <5>2, <5>3 DEF Used, e
      <4>6. \A x \in Addresses : x \notin Affected => flash'[x] = flash[x]
        BY <2>1 DEF Done
      <4>7. \A x \in Addresses : Seen(x) => flash'[x] = Blank
        <5> SUFFICES ASSUME NEW x \in Addresses, Seen(x) PROVE flash'[x] = Blank
          OBVIOUS
        <5>1. x > last_byte /\ x \in Nat
          BY <3>5, OnPage DEF Seen, Pass1
        <5>2. x \notin Affected
          BY <4>3, <4>5, <5>1
        <5>3. flash[x] = Blank
          BY <2>4, <3>5 DEF Prepared
        <5> QED BY <4>6, <5>2, <5>3
      <4>8. \A x \in Addresses : Pg(x) = last_erased_page => flash'[x] = Blank \/ Used(x)
        BY <2>4, <3>5, <4>5, <4>6 DEF Prepared
      <4>9. Prepared'
        BY <1>1, <3>2, <4>7, <4>8 DEF Prepared
      <4>10. Under'
        BY <1>1, <3>2, <3>5, <4>1 DEF Under
      <4> QED BY <4>9, <4>10
    <3> QED BY <3>1, <3>3, <3>4, <3>5
  <2> QED BY <1>1, <2>2, <2>3, <2>4 DEF Progress
<1> QED BY <1>2, <1>3, <1>5, <1>6 DEF DownloadInv, Progress

LEMMA UnplugStep == ASSUME DownloadInv, Unplug PROVE DownloadInv'
<1>1. /\ UNCHANGED << pc, file, elem, p, scan, last_erased_page >>
      /\ pending' = None /\ linked' = FALSE /\ flash' \in {flash, Torn, Done}
      /\ Where /\ Scanned /\ Pend /\ ErasedBeforeWritten
  BY DEF Unplug, hostVars, loopVars, historyVars, DownloadInv
<1>2. Where' /\ Scanned'
  BY <1>1, HostAtRest
<1>3. Pend'
  BY <1>1 DEF Pend, None, Command
<1>4. ErasedBeforeWritten'
  BY <1>1, NothingGarbled DEF ErasedBeforeWritten
<1>5. Progress'
  BY <1>1 DEF Progress, Alive
<1> QED BY <1>2, <1>3, <1>4, <1>5 DEF DownloadInv

LEMMA Establishes == Init => DownloadInv
<1> SUFFICES ASSUME Init PROVE DownloadInv
  OBVIOUS
<1>1. Where /\ Scanned /\ Pend /\ Progress
  BY DEF Init, Where, Scanned, Pend, Progress, Alive, Loops, Pass1, Pass2, None, Command
<1>2. ErasedBeforeWritten
  BY DEF Init, ErasedBeforeWritten, Old, Garbled
<1> QED BY <1>1, <1>2 DEF DownloadInv

LEMMA Preserves ==
  ASSUME Apart, \A n \in DOMAIN Files : Disjoint(n), DownloadInv, [Next]_vars
  PROVE  DownloadInv'
<1>1. CASE Next
  BY <1>1, StartStep, AskStatusStep, ClearStatusStep, AbortPreviousStep, DownloadStep,
     NextElementStep, EraseStep, PollEraseStep, SetAddressStep, PollAddressStep,
     ChunkStep, PollChunkStep, AbortToIdleStep, CheckIdleStep, FinalResetStep,
     ExecuteStep, UnplugStep
     DEF Next, Host
<1>2. CASE UNCHANGED vars
  <2>1. UNCHANGED << pc, file, elem, p, scan, last_erased_page, linked,
                     dstate, pending, pointer, flash >>
    BY <1>2 DEF vars, hostVars, loopVars, historyVars
  <2>2. Where' /\ Scanned'
    BY <2>1, HostAtRest DEF DownloadInv
  <2>3. Pend' /\ ErasedBeforeWritten'
    BY <2>1 DEF DownloadInv, Pend, ErasedBeforeWritten
  <2>4. Progress'
    <3>1. Untouched => Untouched'
      BY <2>1, HostAtRest DEF Untouched
    <3>2. Under => Under'
      BY <2>1, HostAtRest DEF Under
    <3>3. Prepared => Prepared'
      BY <2>1, HostAtRest DEF Prepared
    <3> QED BY <2>1, <3>1, <3>2, <3>3 DEF DownloadInv, Progress, Alive
  <2> QED BY <2>2, <2>3, <2>4 DEF DownloadInv
<1> QED BY <1>1, <1>2

\* dfuse.c:408: no byte of flash is ever programmed that is not blank, for every
\* memory layout in which erasable memory does not begin within a transfer
\* behind memory that is written without an erase, and for files whose elements
\* do not overlap.
THEOREM NeverUnerased ==
  ASSUME Apart, \A n \in DOMAIN Files : Disjoint(n)
  PROVE  Spec => []ErasedBeforeWritten
<1>1. DownloadInv => ErasedBeforeWritten
  BY DEF DownloadInv
<1> QED BY <1>1, Establishes, Preserves, PTL DEF Spec

-----------------------------------------------------------------------------
(* The steps of the host, without the transfers they are made of.           *)

Closing == {"leaves", "idling", "resets"}

Stays ==
  /\ UNCHANGED << pc, file, elem, p, scan, last_erased_page, pending >>
  /\ pc \in Closing => UNCHANGED << linked, dstate >>

\* Up to the loops, and out of them.
Away == pc' \notin Loops \cup Closing

Enters ==
  /\ pc = "downloads" /\ pc' = "element"
  /\ elem' = 1 /\ last_erased_page' = NoPage
  /\ UNCHANGED file /\ file \in DOMAIN Files /\ Files[file].dfuse

\* From one element to the next.
Passes ==
  /\ pc = "element" /\ pc' = "element"
  /\ elem' = elem + 1 /\ elem \notin Targets(file)
  /\ UNCHANGED << file, p, scan, last_erased_page, pending >>

Opens ==
  /\ pc = "element" /\ pc' = "erases"
  /\ Writeable(e.address + e.size - 1)
  /\ p' = 0 /\ scan' = 0
  /\ UNCHANGED << file, elem, last_erased_page, pending >>

Finishes ==
  /\ pc = "writes" /\ pc' = "element"
  /\ p >= e.size
  /\ elem' = elem + 1
  /\ UNCHANGED << file, last_erased_page, pending >>

\* The first pass.
Skips ==
  /\ pc = "erases" /\ pc' = "erases"
  /\ p < e.size /\ Writeable(address) /\ ~Erasable(address)
  /\ scan = 0 /\ p' = p + XferSize
  /\ UNCHANGED << file, elem, scan, last_erased_page, pending >>

Begins ==
  /\ pc = "erases" /\ pc' = "erasing"
  /\ p < e.size /\ Erasable(address) /\ EraseAddress \in Addresses /\ ~Erased
  /\ last_erased_page' = Pg(EraseAddress)
  /\ pending' = Command("erase", EraseAddress, << >>)
  /\ UNCHANGED << file, elem, p, scan >>

Steps ==
  /\ pc \in Pass1 /\ pc' = "erases"
  /\ p < e.size /\ Erasable(address) /\ EraseAddress \in Addresses
  /\ last_erased_page = Pg(EraseAddress)
  /\ StepOn
  /\ pending' \in {pending, None}
  /\ UNCHANGED << file, elem, last_erased_page >>

Turns ==
  /\ pc = "erases" /\ pc' = "writes"
  /\ p >= e.size /\ p' = 0
  /\ UNCHANGED << file, elem, last_erased_page, pending >>

\* The second pass.
Points ==
  /\ pc = "writes" /\ pc' = "addressing" /\ p < e.size
  /\ pending' = Command("address", address, << >>)
  /\ UNCHANGED << file, elem, p, last_erased_page >>

Pointed ==
  /\ pc = "addressing" /\ pc' = "chunk"
  /\ pending' = None
  /\ UNCHANGED << file, elem, p, last_erased_page >>

Sends ==
  /\ pc = "chunk" /\ pc' = "writing"
  /\ pointer = address /\ pending' = Command("data", 0, Chunk)
  /\ UNCHANGED << file, elem, p, last_erased_page >>

Wrote ==
  /\ pc = "writing" /\ pc' = "writes"
  /\ pending = None /\ pending' = None
  /\ p' = p + XferSize
  /\ UNCHANGED << file, elem, last_erased_page >>

\* The end.
Ends ==
  /\ pc = "element" /\ pc' = "leaves"
  /\ elem > Len(Files[file].elements)
  /\ UNCHANGED << file, elem, last_erased_page, linked, dstate, pending >>

Closes ==
  /\ \/ pc = "leaves" /\ pc' = "idling"
     \/ pc = "idling" /\ pc' = "resets" /\ dstate = "idle"
  /\ linked /\ dstate # "error"
  /\ pending' \in {pending, None}
  /\ last_erased_page' \in {last_erased_page, NoPage}
  /\ UNCHANGED << file, elem >>

Move ==
  \/ Stays \/ Away \/ Enters
  \/ Passes \/ Opens \/ Finishes
  \/ Skips \/ Begins \/ Steps \/ Turns
  \/ Points \/ Pointed \/ Sends \/ Wrote
  \/ Ends \/ Closes

\* A request from within the loops is answered only while the attempt is alive.
HostStep ==
  /\ UNCHANGED << flash, pointer >>
  /\ pc \in Loops /\ Alive' => Alive
  /\ Move

LEMMA Classes ==
  /\ \A q \in Pass1 \cup Pass2 \cup {"element"} : q \in Loops
  /\ Loops \cap {"closed", "exited", "status", "clears", "aborts", "downloads",
                 "leaves", "idling", "resets"} = {}
  /\ Closing \cap {"closed", "exited", "status", "clears", "aborts", "downloads"} = {}
  /\ Closing \cap Loops = {} /\ Pass1 \cap Pass2 = {}
  /\ Pass1 = {"erases", "erasing"} /\ Pass2 = {"writes", "addressing", "chunk", "writing"}
  /\ Closing = {"leaves", "idling", "resets"}
  BY DEF Loops, Pass1, Pass2, Closing

\* The steps outside the loops.
LEMMA OutsideMove ==
  ASSUME DownloadInv,
         (\E n \in DOMAIN Files : Start(n)) \/ AskStatus \/ ClearStatus \/ AbortPrevious \/ FinalReset
  PROVE  HostStep
<1>1. UNCHANGED << flash, pointer >> /\ pc \notin Loops
  BY DEF Start, AskStatus, ClearStatus, AbortPrevious, FinalReset, Loops, Pass1, Pass2
<1>2. pc' \in {"closed", "exited", "status", "clears", "aborts", "downloads"}
  <2>1. CASE \E n \in DOMAIN Files : Start(n)
    BY <2>1 DEF Start
  <2>2. CASE AskStatus
    BY <2>2 DEF AskStatus, Proceed, AfterStatus, Refused, Quit
  <2>3. CASE ClearStatus
    BY <2>3 DEF ClearStatus, Answered, Proceed, Refused, Quit
  <2>4. CASE AbortPrevious
    BY <2>4 DEF AbortPrevious, Abort, Answered, Proceed, Refused, Quit
  <2>5. CASE FinalReset
    BY <2>5 DEF FinalReset, Quit
  <2> QED BY <2>1, <2>2, <2>3, <2>4, <2>5
<1>3. Away
  BY <1>2, Classes DEF Away
<1> QED BY <1>1, <1>3 DEF HostStep, Move

LEMMA DownloadMove == ASSUME DownloadInv, dfuse_do_dnload PROVE HostStep
<1>1. /\ pc = "downloads" /\ UNCHANGED << file, flash, pointer >>
      /\ elem' = 1 /\ last_erased_page' = NoPage
      /\ pc' = "exited" \/ (pc' = "element" /\ Files[file].dfuse)
  BY DEF dfuse_do_dnload, reset_dfuse_globals, Proceed, Exit, Quit, historyVars
<1>2. pc \notin Loops /\ file \in DOMAIN Files
  BY <1>1, HostTypes, Classes
<1>3. Away \/ Enters
  BY <1>1, <1>2, Classes DEF Away, Enters
<1> QED BY <1>1, <1>2, <1>3 DEF HostStep, Move

LEMMA NextElementMove == ASSUME DownloadInv, NextElement PROVE HostStep
<1>1. /\ pc = "element" /\ UNCHANGED << file, last_erased_page, dstate, pending, flash, pointer >>
  BY DEF NextElement, historyVars
<1>2. \/ pc' = "exited"
      \/ Passes
      \/ Opens
      \/ Ends
  <2>1. CASE elem > Len(Files[file].elements) /\ Proceed("leaves") /\ UNCHANGED loopVars
    BY <1>1, <2>1 DEF Ends, Proceed, loopVars
  <2>2. CASE /\ e.alt # 0 /\ elem' = elem + 1
             /\ UNCHANGED << pc, outcome, linked, p, scan >>
    BY <1>1, <2>2 DEF Passes, Targets, e
  <2>3. CASE /\ Writeable(e.address + e.size - 1)
             /\ p' = 0 /\ scan' = 0 /\ Proceed("erases") /\ UNCHANGED elem
    BY <1>1, <2>3 DEF Opens, Proceed
  <2>4. CASE Exit
    BY <2>4 DEF Exit, Quit
  <2> QED BY <1>1, <2>1, <2>2, <2>3, <2>4 DEF NextElement
<1>3. pc' = "exited" \/ linked' = linked
  BY <1>1 DEF NextElement, Exit, Quit, Proceed
<1>4. Alive' => Alive
  BY <1>1, <1>3, Classes DEF Alive
<1>5. pc' = "exited" => Away
  BY Classes DEF Away
<1> QED BY <1>1, <1>2, <1>4, <1>5 DEF HostStep, Move

\* A request that the host makes in its loops.
LEMMA DnloadAlive ==
  ASSUME Pend, UNCHANGED << flash, pointer >>, pc \in Loops,
         NEW command, NEW next \in Loops, Dnload(command, next)
  PROVE  \/ Away /\ ~Alive'
         \/ Alive /\ pc' = next /\ pending' = command
<1>1. \/ /\ linked /\ dstate \in {"idle", "dnIdle"}
         /\ pending' = command
         /\ (pc' = next /\ linked' = linked) \/ (pc' = "exited" /\ linked' = FALSE)
      \/ pc' = "exited" /\ linked' = FALSE
  BY DnloadStep
<1>2. pc' = "exited" => Away /\ ~Alive'
  BY Classes DEF Away, Alive
<1> QED BY <1>1, <1>2 DEF Alive

LEMMA EraseMove == ASSUME DownloadInv, Erase PROVE HostStep
<1>1. /\ pc = "erases" /\ pc \in Pass1 /\ pc \in Loops
      /\ UNCHANGED << file, elem, pointer, flash >>
      /\ Where /\ Scanned /\ Pend /\ Progress
  BY Classes DEF Erase, historyVars, DownloadInv
<1>x. pc' = "exited" => Away
  BY Classes DEF Away
<1>s. ASSUME UNCHANGED << linked, dstate >> PROVE Alive' => Alive
  BY <1>1, <1>s DEF Alive
<1>t. ASSUME pc' = "exited", linked' = FALSE PROVE HostStep
  BY <1>1, <1>t, <1>x DEF HostStep, Move, Alive
<1>2. CASE /\ p >= e.size
           /\ p' = 0 /\ Proceed("writes")
           /\ UNCHANGED << scan, last_erased_page, firstpoll, dstate, pending >>
  <2>1. Turns
    BY <1>1, <1>2 DEF Turns, Proceed
  <2> QED BY <1>1, <1>2, <1>s, <2>1 DEF HostStep, Move, Proceed
<1>3. CASE Exit
  BY <1>3, <1>t DEF Exit, Quit
<1>4. CASE /\ p < e.size /\ Writeable(address) /\ ~Erasable(address)
           /\ p' = p + XferSize
           /\ UNCHANGED << pc, outcome, linked, scan, last_erased_page, firstpoll, dstate, pending >>
  <2>1. Skips
    BY <1>1, <1>4 DEF Skips, Scanned
  <2> QED BY <1>1, <1>4, <1>s, <2>1 DEF HostStep, Move
<1>5. CASE /\ p < e.size /\ Erasable(address) /\ Erased /\ StepOn
           /\ UNCHANGED << pc, outcome, linked, last_erased_page, firstpoll, dstate, pending >>
  <2>1. /\ address \in Addresses
        /\ scan = 0 => EraseAddress = address
        /\ scan # 0 => EraseAddress = last_byte
    BY <1>1, <1>5, Looks
  <2>2. EraseAddress \in Addresses /\ last_erased_page = Pg(EraseAddress)
    <3>1. CASE scan = 0
      BY <1>5, <2>1, <3>1 DEF Erased, Pg
    <3>2. CASE scan # 0
      <4>1. last_erased_page = Pg(address)
        BY <1>1, <3>2 DEF Scanned
      <4>2. PageStart(last_byte, find_segment(address).pagesize) = Pg(address)
        BY <1>5, <2>1, <3>2, <4>1 DEF Erased
      <4>3. last_byte \in Nat /\ address <= last_byte
        BY <1>1, <1>5, Chunks
      <4>4. last_byte <= last_byte
        BY <4>3
      <4>5. last_byte \in Addresses /\ Pg(last_byte) = Pg(address)
        BY <2>1, <4>2, <4>3, <4>4, OnePage
      <4> QED BY <2>1, <3>2, <4>1, <4>5
    <3> QED BY <3>1, <3>2
  <2>3. Steps
    BY <1>1, <1>5, <2>2 DEF Steps
  <2> QED BY <1>1, <1>5, <1>s, <2>3 DEF HostStep, Move
<1>6. CASE p < e.size /\ Erasable(address) /\ ~Erased /\ ErasePage /\ UNCHANGED << p, scan >>
  <2>1. CASE Exit
    BY <2>1, <1>3
  <2>2. CASE /\ Erasable(EraseAddress)
             /\ last_erased_page' = PageStart(EraseAddress, find_segment(EraseAddress).pagesize)
             /\ Dnload(Command("erase", EraseAddress, << >>), "erasing")
    <3> DEFINE command == Command("erase", EraseAddress, << >>)
    <3>1. \/ Away /\ ~Alive'
          \/ Alive /\ pc' = "erasing" /\ pending' = command
      <4>1. "erasing" \in Loops /\ Dnload(command, "erasing")
        BY <2>2, Classes
      <4> HIDE DEF command
      <4> QED BY <1>1, <4>1, DnloadAlive
    <3>2. EraseAddress \in Addresses
      BY <1>1, <1>6, <2>2, Looks, ErasableIsThere
    <3>3. pc' = "erasing" /\ pending' = command => Begins
      BY <1>1, <1>6, <2>2, <3>2 DEF Begins, Pg
    <3> HIDE DEF command
    <3> QED BY <1>1, <3>1, <3>3 DEF HostStep, Move
  <2> QED BY <1>6, <2>1, <2>2 DEF ErasePage
<1> QED BY <1>2, <1>3, <1>4, <1>5, <1>6 DEF Erase

LEMMA PollEraseMove == ASSUME DownloadInv, PollErase PROVE HostStep
<1>1. /\ pc = "erasing" /\ pc \in Pass1 /\ pc \in Loops
      /\ UNCHANGED << file, elem, last_erased_page, pointer, flash >>
      /\ Where /\ Scanned /\ Pend /\ Poll("erases")
      /\ IF pc' = "erases" THEN StepOn ELSE UNCHANGED << p, scan >>
  BY Classes DEF PollErase, historyVars, DownloadInv
<1>2. /\ p < e.size /\ Erasable(address) /\ Erasable(EraseAddress)
      /\ last_erased_page = Pg(EraseAddress)
  BY <1>1 DEF Where, Scanned
<1>3. EraseAddress \in Addresses
  BY <1>1, <1>2, Looks, ErasableIsThere
<1>4. \/ pc' = "exited"
      \/ /\ pc' = pc /\ linked' = linked /\ dstate \in {"dnSync", "dnBusy"}
         /\ dstate' = "dnBusy" /\ pending' = pending
      \/ /\ pc' = "erases" /\ linked' = linked /\ pending' = None
         /\ dstate \notin {"dnSync", "dnBusy", "error"}
  BY <1>1, PollStep
<1>5. CASE pc' = "exited"
  BY <1>1, <1>5, Classes DEF HostStep, Move, Away, Alive
<1>6. CASE /\ pc' = pc /\ linked' = linked /\ dstate \in {"dnSync", "dnBusy"}
           /\ dstate' = "dnBusy" /\ pending' = pending
  <2>1. Stays
    BY <1>1, <1>6 DEF Stays, Closing
  <2> QED BY <1>1, <1>6, <2>1 DEF HostStep, Move, Alive
<1>7. CASE /\ pc' = "erases" /\ linked' = linked /\ pending' = None
           /\ dstate \notin {"dnSync", "dnBusy", "error"}
  <2>1. Steps
    BY <1>1, <1>2, <1>3, <1>7 DEF Steps
  <2> QED BY <1>1, <1>7, <2>1 DEF HostStep, Move, Alive
<1> QED BY <1>4, <1>5, <1>6, <1>7

LEMMA SetAddressMove == ASSUME DownloadInv, SetAddress PROVE HostStep
<1>1. /\ pc = "writes" /\ pc \in Loops /\ Pend
      /\ UNCHANGED << file, p, scan, last_erased_page, pointer, flash >>
  BY Classes DEF SetAddress, historyVars, DownloadInv
<1>2. CASE /\ p >= e.size /\ elem' = elem + 1 /\ Proceed("element")
           /\ UNCHANGED << firstpoll, dstate, pending >>
  <2>1. Finishes
    BY <1>1, <1>2 DEF Finishes, Proceed
  <2> QED BY <1>1, <1>2, <2>1 DEF HostStep, Move, Alive, Proceed
<1>3. CASE p < e.size /\ Dnload(Command("address", address, << >>), "addressing") /\ UNCHANGED elem
  <2> DEFINE command == Command("address", address, << >>)
  <2>1. \/ Away /\ ~Alive'
        \/ Alive /\ pc' = "addressing" /\ pending' = command
    <3>1. "addressing" \in Loops /\ Dnload(command, "addressing")
      BY <1>3, Classes
    <3> HIDE DEF command
    <3> QED BY <1>1, <3>1, DnloadAlive
  <2>2. pc' = "addressing" /\ pending' = command => Points
    BY <1>1, <1>3 DEF Points
  <2> HIDE DEF command
  <2> QED BY <1>1, <2>1, <2>2 DEF HostStep, Move
<1> QED BY <1>2, <1>3 DEF SetAddress

LEMMA PollAddressMove == ASSUME DownloadInv, PollAddress PROVE HostStep
<1>1. /\ pc = "addressing" /\ pc \in Loops /\ Pend /\ Poll("chunk")
      /\ UNCHANGED << file, elem, p, scan, last_erased_page, pointer, flash >>
  BY Classes DEF PollAddress, loopVars, historyVars, DownloadInv
<1>2. \/ pc' = "exited"
      \/ /\ pc' = pc /\ linked' = linked /\ dstate \in {"dnSync", "dnBusy"}
         /\ dstate' = "dnBusy" /\ pending' = pending
      \/ /\ pc' = "chunk" /\ linked' = linked /\ pending' = None
         /\ dstate \notin {"dnSync", "dnBusy", "error"}
  BY <1>1, PollStep
<1>3. CASE pc' = "exited"
  BY <1>1, <1>3, Classes DEF HostStep, Move, Away, Alive
<1>4. CASE /\ pc' = pc /\ linked' = linked /\ dstate \in {"dnSync", "dnBusy"}
           /\ dstate' = "dnBusy" /\ pending' = pending
  <2>1. Stays
    BY <1>1, <1>4 DEF Stays, Closing
  <2> QED BY <1>1, <1>4, <2>1 DEF HostStep, Move, Alive
<1>5. CASE /\ pc' = "chunk" /\ linked' = linked /\ pending' = None
           /\ dstate \notin {"dnSync", "dnBusy", "error"}
  <2>1. Pointed
    BY <1>1, <1>5 DEF Pointed
  <2> QED BY <1>1, <1>5, <2>1 DEF HostStep, Move, Alive
<1> QED BY <1>2, <1>3, <1>4, <1>5

LEMMA ChunkMove == ASSUME DownloadInv, dfuse_dnload_chunk PROVE HostStep
<1>1. /\ pc = "chunk" /\ pc \in Loops /\ Pend /\ Progress
      /\ UNCHANGED << file, elem, p, last_erased_page, pointer, flash >>
      /\ Dnload(Command("data", 0, Chunk), "writing")
  BY Classes DEF dfuse_dnload_chunk, hostVars, loopVars, historyVars, DownloadInv
<1> DEFINE command == Command("data", 0, Chunk)
<1>2. \/ Away /\ ~Alive'
      \/ Alive /\ pc' = "writing" /\ pending' = command
  <2>1. "writing" \in Loops /\ Dnload(command, "writing")
    BY <1>1, Classes
  <2> HIDE DEF command
  <2> QED BY <1>1, <2>1, DnloadAlive
<1>3. Alive => pointer = address
  BY <1>1 DEF Progress, Untouched, Under
<1>4. Alive /\ pc' = "writing" /\ pending' = command => Sends
  BY <1>1, <1>3 DEF Sends
<1> HIDE DEF command
<1> QED BY <1>1, <1>2, <1>4 DEF HostStep, Move

LEMMA PollChunkMove == ASSUME DownloadInv, PollChunk PROVE HostStep
<1>1. /\ pc = "writing" /\ pc \in Loops /\ Pend
      /\ UNCHANGED << file, elem, scan, last_erased_page, pointer, flash >>
  BY Classes DEF PollChunk, historyVars, DownloadInv
<1>2. CASE Refused(TRUE)
  <2>1. pc' = "exited"
    BY <1>2 DEF Refused, Quit
  <2> QED BY <1>1, <2>1, Classes DEF HostStep, Move, Away, Alive
<1>3. ASSUME NEW state \in Reported, GetStatus(state),
             \/ state \notin {"dnIdle", "error"} /\ UNCHANGED << pc, outcome, linked, p >>
             \/ state = "dnIdle" /\ Proceed("writes") /\ p' = p + XferSize
             \/ state = "error" /\ Exit /\ UNCHANGED p
      PROVE  HostStep
  <2>1. /\ dstate' = state /\ linked
        /\ pending' = IF state \in {"dnBusy", "dnSync"} THEN pending ELSE None
    BY <1>3 DEF GetStatus
  <2>2. CASE state \notin {"dnIdle", "error"} /\ UNCHANGED << pc, outcome, linked, p >>
    <3>1. state = "dnBusy" \/ (state = dstate /\ dstate \notin {"dnSync", "dnBusy"})
      BY <1>3, <2>2 DEF Reported
    <3>2. pending' = pending
      BY <1>1, <2>1, <3>1 DEF Pend
    <3>3. dstate # "error"
      BY <2>2, <3>1, <1>3 DEF Reported
    <3>4. Stays
      BY <1>1, <2>2, <3>2 DEF Stays, Closing
    <3> QED BY <1>1, <2>1, <3>3, <3>4 DEF HostStep, Move, Alive
  <2>3. CASE state = "dnIdle" /\ Proceed("writes") /\ p' = p + XferSize
    <3>1. dstate \in {"executed", "dnIdle"}
      BY <1>3, <2>3 DEF Reported
    <3>2. pending = None /\ pending' = None
      BY <1>1, <2>1, <2>3, <3>1 DEF Pend
    <3>3. Wrote
      BY <1>1, <2>3, <3>2 DEF Wrote, Proceed
    <3> QED BY <1>1, <2>1, <3>1, <3>3 DEF HostStep, Move, Alive
  <2>4. CASE Exit
    <3>1. pc' = "exited"
      BY <2>4 DEF Exit, Quit
    <3> QED BY <1>1, <3>1, Classes DEF HostStep, Move, Away, Alive
  <2> QED BY <1>3, <2>2, <2>3, <2>4
<1> QED BY <1>2, <1>3 DEF PollChunk

LEMMA AbortToIdleMove == ASSUME DownloadInv, AbortToIdle PROVE HostStep
<1>1. /\ pc = "leaves" /\ pc \notin Loops
      /\ UNCHANGED << file, elem, last_erased_page, pointer, flash >> /\ Abort("idling")
  BY Classes DEF AbortToIdle, hostVars, loopVars, historyVars
<1>2. CASE Refused(dstate \in {"idle", "dnIdle"})
  <2>1. pc' = "exited"
    BY <1>2 DEF Refused, Quit
  <2> QED BY <1>1, <2>1, Classes DEF HostStep, Move, Away
<1>3. CASE dstate \in {"idle", "dnIdle"} /\ UNCHANGED pending /\ Answered("idling")
  <2>1. linked /\ dstate # "error" /\ pc' \in {"idling", "exited"}
    BY <1>3 DEF Answered, Proceed, Quit
  <2>2. CASE pc' = "idling"
    BY <1>1, <1>3, <2>1, <2>2 DEF HostStep, Move, Closes
  <2>3. CASE pc' = "exited"
    BY <1>1, <2>3, Classes DEF HostStep, Move, Away
  <2> QED BY <2>1, <2>2, <2>3
<1> QED BY <1>1, <1>2, <1>3 DEF Abort

LEMMA CheckIdleMove == ASSUME DownloadInv, CheckIdle PROVE HostStep
<1>1. /\ pc = "idling" /\ pc \notin Loops
      /\ UNCHANGED << file, elem, pointer, flash >>
  BY Classes DEF CheckIdle, loopVars, historyVars
<1>2. ASSUME pc' = "exited" PROVE HostStep
  BY <1>1, <1>2, Classes DEF HostStep, Move, Away
<1>3. ASSUME NEW state \in Reported, GetStatus(state), state = "idle", Proceed("resets"),
             reset_dfuse_globals
      PROVE  HostStep
  <2>1. dstate = "idle" /\ linked
    BY <1>3 DEF Reported, GetStatus
  <2>2. Closes
    BY <1>1, <1>3, <2>1 DEF Closes, GetStatus, Proceed, reset_dfuse_globals
  <2> QED BY <1>1, <2>2 DEF HostStep, Move
<1> QED BY <1>2, <1>3 DEF CheckIdle, Refused, Exit, Quit

\* Every step is a move of the host, or a step of the device.
LEMMA Moves ==
  ASSUME DownloadInv, [Next]_vars
  PROVE  HostStep \/ Execute \/ Unplug
<1>1. CASE UNCHANGED vars
  <2>1. UNCHANGED << pc, file, elem, p, scan, last_erased_page, linked,
                     dstate, pending, pointer, flash >>
    BY <1>1 DEF vars, hostVars, loopVars, historyVars
  <2>2. Stays
    BY <2>1 DEF Stays
  <2> QED BY <2>1, <2>2 DEF HostStep, Move, Alive
<1>2. CASE (\E n \in DOMAIN Files : Start(n)) \/ Host
  BY <1>2, OutsideMove, DownloadMove, NextElementMove, EraseMove, PollEraseMove,
     SetAddressMove, PollAddressMove, ChunkMove, PollChunkMove, AbortToIdleMove, CheckIdleMove
     DEF Host
<1> QED BY <1>1, <1>2 DEF Next

-----------------------------------------------------------------------------
(* How an attempt begins and ends.                                          *)

States == {"idle", "dnSync", "dnBusy", "executed", "dnIdle", "error"}

Running == {"status", "clears", "aborts", "downloads"} \cup Loops \cup Closing

Phase ==
  /\ pc \in Running \cup {"closed", "exited"} /\ dstate \in States
  /\ firstpoll \in BOOLEAN /\ linked \in BOOLEAN
  /\ tried \subseteq DOMAIN Files
  /\ flash = [a \in Addresses |-> flash[a]]
  /\ pc = "closed" => outcome \in {"none", "done"}
  /\ pc = "exited" => outcome \in {"failed", "lost"}
  /\ pc \in Running => outcome = "running"
  /\ pc \in {"closed", "resets"} => dstate = "idle" /\ pending = None
  /\ pc # "closed" => file \in tried
  /\ pc \in Loops \cup Closing => Files[file].dfuse

\* What a step of the host within an attempt may change.
Within ==
  /\ pc \in Running
  /\ \/ pc' = "exited" /\ outcome' \in {"failed", "lost"} /\ linked' = FALSE
     \/ pc' \in Running /\ UNCHANGED << outcome, linked >>
  /\ dstate' \in States /\ firstpoll' \in BOOLEAN
  /\ pc' = "resets" => dstate' = "idle" /\ pending' = None
  /\ pc' \in Loops \cup Closing => pc \in Loops \cup Closing \/ Files[file].dfuse
  /\ UNCHANGED << file, tried, flash, pointer >>

LEMMA RunningSet ==
  Running = {"status", "clears", "aborts", "downloads", "element", "erases", "erasing",
             "writes", "addressing", "chunk", "writing", "leaves", "idling", "resets"}
  BY DEF Running, Loops, Pass1, Pass2, Closing

LEMMA WithinPhase == ASSUME Phase, Within PROVE Phase'
<1>1. pc # "closed" /\ pc \in Running /\ file \in tried
  BY RunningSet DEF Phase, Within
<1>2. /\ pc' \in Running \cup {"exited"} /\ dstate' \in States
      /\ firstpoll' \in BOOLEAN /\ linked' \in BOOLEAN
      /\ tried' \subseteq DOMAIN Files /\ file' \in tried'
      /\ flash' = [a \in Addresses |-> flash'[a]]
  BY <1>1 DEF Phase, Within
<1>3. pc' \in Running => outcome' = "running"
  BY <1>1, RunningSet DEF Phase, Within
<1>4. pc' = "exited" => outcome' \in {"failed", "lost"}
  BY RunningSet DEF Within
<1>5. pc' # "closed"
  BY RunningSet DEF Within
<1>6. pc' = "resets" => dstate' = "idle" /\ pending' = None
  BY DEF Within
<1>7. pc' \in Loops \cup Closing => Files[file'].dfuse
  BY DEF Phase, Within
<1> QED BY <1>2, <1>3, <1>4, <1>5, <1>6, <1>7 DEF Phase

\* Requests.
LEMMA DnloadWithin ==
  ASSUME dstate \in States, NEW command, NEW next, Dnload(command, next)
  PROVE  /\ dstate' \in States
         /\ \/ pc' = "exited" /\ outcome' \in {"failed", "lost"} /\ linked' = FALSE
            \/ pc' = next /\ UNCHANGED << outcome, linked >>
  BY DEF Dnload, Refused, Answered, Quit, Proceed, States

LEMMA AbortWithin ==
  ASSUME dstate \in States, NEW next, Abort(next)
  PROVE  /\ dstate' \in States
         /\ \/ pc' = "exited" /\ outcome' \in {"failed", "lost"} /\ linked' = FALSE
            \/ pc' = next /\ UNCHANGED << outcome, linked >>
  BY DEF Abort, Refused, Answered, Quit, Proceed, States

LEMMA RefusedWithin ==
  ASSUME dstate \in States, NEW expected, Refused(expected)
  PROVE  /\ dstate' \in States
         /\ pc' = "exited" /\ outcome' \in {"failed", "lost"} /\ linked' = FALSE
  BY DEF Refused, Quit, States

LEMMA StatusWithin ==
  ASSUME dstate \in States, NEW state, GetStatus(state)
  PROVE  dstate' \in States /\ dstate' = state
  BY DEF GetStatus, Reported, States

LEMMA PollWithin ==
  ASSUME dstate \in States, firstpoll \in BOOLEAN, NEW done, Poll(done)
  PROVE  /\ dstate' \in States /\ firstpoll' \in BOOLEAN
         /\ \/ pc' = "exited" /\ outcome' \in {"failed", "lost"} /\ linked' = FALSE
            \/ pc' \in {pc, done} /\ UNCHANGED << outcome, linked >>
<1>1. CASE Refused(TRUE) /\ UNCHANGED firstpoll
  BY <1>1, RefusedWithin
<1>2. ASSUME NEW state \in Reported, GetStatus(state), firstpoll' = FALSE,
             \/ state = "dnBusy" /\ UNCHANGED << pc, outcome, linked >>
             \/ state # "dnBusy" /\ ~firstpoll /\ state # "error" /\ Proceed(done)
             \/ state # "dnBusy" /\ (firstpoll \/ state = "error") /\ Exit
      PROVE  /\ dstate' \in States /\ firstpoll' \in BOOLEAN
             /\ \/ pc' = "exited" /\ outcome' \in {"failed", "lost"} /\ linked' = FALSE
                \/ pc' \in {pc, done} /\ UNCHANGED << outcome, linked >>
  BY <1>2, StatusWithin DEF Proceed, Exit, Quit
<1> QED BY <1>1, <1>2 DEF Poll

LEMMA HostWithin == ASSUME Phase, Host, ~FinalReset PROVE Within
<1>0. dstate \in States /\ firstpoll \in BOOLEAN
  BY DEF Phase
<1>1. CASE AskStatus
  <2>1. /\ pc = "status" /\ UNCHANGED << firstpoll, file, tried, flash, pointer >>
    BY <1>1 DEF AskStatus, hostVars, historyVars
  <2>2. /\ dstate' \in States
        /\ \/ pc' = "exited" /\ outcome' \in {"failed", "lost"} /\ linked' = FALSE
           \/ pc' \in {"clears", "aborts", "downloads"} /\ UNCHANGED << outcome, linked >>
    <3>1. CASE Refused(TRUE)
      BY <1>0, <3>1, RefusedWithin
    <3>2. ASSUME NEW state \in Reported, GetStatus(state), Proceed(AfterStatus(state))
          PROVE  /\ dstate' \in States
                 /\ pc' \in {"clears", "aborts", "downloads"} /\ UNCHANGED << outcome, linked >>
      BY <1>0, <3>2, StatusWithin DEF Proceed, AfterStatus
    <3> QED BY <1>1, <3>1, <3>2 DEF AskStatus
  <2> QED BY <1>0, <2>1, <2>2, RunningSet, Classes DEF Within
<1>2. CASE ClearStatus
  <2>1. /\ pc = "clears" /\ UNCHANGED << firstpoll, file, tried, flash, pointer >>
    BY <1>2 DEF ClearStatus, hostVars, historyVars
  <2>2. /\ dstate' \in States
        /\ \/ pc' = "exited" /\ outcome' \in {"failed", "lost"} /\ linked' = FALSE
           \/ pc' = "status" /\ UNCHANGED << outcome, linked >>
    BY <1>0, <1>2, RefusedWithin DEF ClearStatus, Answered, Proceed, Quit, States
  <2> QED BY <1>0, <2>1, <2>2, RunningSet, Classes DEF Within
<1>3. CASE AbortPrevious
  <2>1. /\ pc = "aborts" /\ UNCHANGED << firstpoll, file, tried, flash, pointer >>
        /\ Abort("status")
    BY <1>3 DEF AbortPrevious, hostVars, historyVars
  <2>2. /\ dstate' \in States
        /\ \/ pc' = "exited" /\ outcome' \in {"failed", "lost"} /\ linked' = FALSE
           \/ pc' = "status" /\ UNCHANGED << outcome, linked >>
    BY <1>0, <2>1, AbortWithin
  <2> QED BY <1>0, <2>1, <2>2, RunningSet, Classes DEF Within
<1>4. CASE dfuse_do_dnload
  <2>1. /\ pc = "downloads" /\ UNCHANGED << firstpoll, dstate, file, tried, flash, pointer >>
        /\ \/ pc' = "exited" /\ outcome' \in {"failed", "lost"} /\ linked' = FALSE
           \/ pc' = "element" /\ Files[file].dfuse /\ UNCHANGED << outcome, linked >>
    BY <1>4 DEF dfuse_do_dnload, historyVars, Proceed, Exit, Quit
  <2> QED BY <1>0, <2>1, RunningSet, Classes DEF Within
<1>5. CASE NextElement
  <2>1. /\ pc = "element" /\ UNCHANGED << firstpoll, dstate, file, tried, flash, pointer >>
        /\ \/ pc' = "exited" /\ outcome' \in {"failed", "lost"} /\ linked' = FALSE
           \/ pc' \in {"leaves", "element", "erases"} /\ UNCHANGED << outcome, linked >>
    BY <1>5 DEF NextElement, historyVars, Proceed, Exit, Quit
  <2> QED BY <1>0, <2>1, RunningSet, Classes DEF Within
<1>6. CASE Erase
  <2>1. pc = "erases" /\ UNCHANGED << file, tried, flash, pointer >>
    BY <1>6 DEF Erase, historyVars
  <2>2. /\ dstate' \in States /\ firstpoll' \in BOOLEAN
        /\ \/ pc' = "exited" /\ outcome' \in {"failed", "lost"} /\ linked' = FALSE
           \/ pc' \in {"writes", "erases", "erasing"} /\ UNCHANGED << outcome, linked >>
    <3>1. CASE ErasePage
      BY <1>0, <3>1, DnloadWithin DEF ErasePage, Exit, Quit
    <3>2. CASE ~ErasePage
      BY <1>0, <1>6, <2>1, <3>2 DEF Erase, Proceed, Exit, Quit
    <3> QED BY <3>1, <3>2
  <2> QED BY <2>1, <2>2, RunningSet, Classes DEF Within
<1>7. CASE PollErase
  <2>1. pc = "erasing" /\ UNCHANGED << file, tried, flash, pointer >> /\ Poll("erases")
    BY <1>7 DEF PollErase, historyVars
  <2>2. /\ dstate' \in States /\ firstpoll' \in BOOLEAN
        /\ \/ pc' = "exited" /\ outcome' \in {"failed", "lost"} /\ linked' = FALSE
           \/ pc' \in {pc, "erases"} /\ UNCHANGED << outcome, linked >>
    BY <1>0, <2>1, PollWithin
  <2> QED BY <2>1, <2>2, RunningSet, Classes DEF Within
<1>8. CASE SetAddress
  <2>1. pc = "writes" /\ UNCHANGED << file, tried, flash, pointer >>
    BY <1>8 DEF SetAddress, historyVars
  <2>2. /\ dstate' \in States /\ firstpoll' \in BOOLEAN
        /\ \/ pc' = "exited" /\ outcome' \in {"failed", "lost"} /\ linked' = FALSE
           \/ pc' \in {"element", "addressing"} /\ UNCHANGED << outcome, linked >>
    BY <1>0, <1>8, DnloadWithin DEF SetAddress, Proceed
  <2> QED BY <2>1, <2>2, RunningSet, Classes DEF Within
<1>9. CASE PollAddress
  <2>1. pc = "addressing" /\ UNCHANGED << file, tried, flash, pointer >> /\ Poll("chunk")
    BY <1>9 DEF PollAddress, historyVars
  <2>2. /\ dstate' \in States /\ firstpoll' \in BOOLEAN
        /\ \/ pc' = "exited" /\ outcome' \in {"failed", "lost"} /\ linked' = FALSE
           \/ pc' \in {pc, "chunk"} /\ UNCHANGED << outcome, linked >>
    BY <1>0, <2>1, PollWithin
  <2> QED BY <2>1, <2>2, RunningSet, Classes DEF Within
<1>10. CASE dfuse_dnload_chunk
  <2>1. /\ pc = "chunk" /\ UNCHANGED << firstpoll, file, tried, flash, pointer >>
        /\ Dnload(Command("data", 0, Chunk), "writing")
    BY <1>10 DEF dfuse_dnload_chunk, hostVars, historyVars
  <2>2. /\ dstate' \in States
        /\ \/ pc' = "exited" /\ outcome' \in {"failed", "lost"} /\ linked' = FALSE
           \/ pc' = "writing" /\ UNCHANGED << outcome, linked >>
    BY <1>0, <2>1, DnloadWithin
  <2> QED BY <1>0, <2>1, <2>2, RunningSet, Classes DEF Within
<1>11. CASE PollChunk
  <2>1. pc = "writing" /\ UNCHANGED << firstpoll, file, tried, flash, pointer >>
    BY <1>11 DEF PollChunk, historyVars
  <2>2. /\ dstate' \in States
        /\ \/ pc' = "exited" /\ outcome' \in {"failed", "lost"} /\ linked' = FALSE
           \/ pc' \in {"writing", "writes"} /\ UNCHANGED << outcome, linked >>
    <3>1. CASE Refused(TRUE)
      BY <1>0, <3>1, RefusedWithin
    <3>2. CASE ~Refused(TRUE)
      BY <1>0, <1>11, <2>1, <3>2, StatusWithin DEF PollChunk, Proceed, Exit, Quit
    <3> QED BY <3>1, <3>2
  <2> QED BY <1>0, <2>1, <2>2, RunningSet, Classes DEF Within
<1>12. CASE AbortToIdle
  <2>1. /\ pc = "leaves" /\ UNCHANGED << firstpoll, file, tried, flash, pointer >>
        /\ Abort("idling")
    BY <1>12 DEF AbortToIdle, hostVars, historyVars
  <2>2. /\ dstate' \in States
        /\ \/ pc' = "exited" /\ outcome' \in {"failed", "lost"} /\ linked' = FALSE
           \/ pc' = "idling" /\ UNCHANGED << outcome, linked >>
    BY <1>0, <2>1, AbortWithin
  <2> QED BY <1>0, <2>1, <2>2, RunningSet, Classes DEF Within
<1>13. CASE CheckIdle
  <2>1. pc = "idling" /\ UNCHANGED << firstpoll, file, tried, flash, pointer >>
    BY <1>13 DEF CheckIdle, historyVars
  <2>2. /\ dstate' \in States
        /\ \/ pc' = "exited" /\ outcome' \in {"failed", "lost"} /\ linked' = FALSE
           \/ /\ pc' = "resets" /\ UNCHANGED << outcome, linked >>
              /\ dstate' = "idle" /\ pending' = None
    <3>1. CASE Refused(TRUE)
      BY <1>0, <3>1, RefusedWithin
    <3>2. ASSUME NEW state \in Reported, GetStatus(state),
                 \/ state = "idle" /\ Proceed("resets")
                 \/ state # "idle" /\ Exit
          PROVE  /\ dstate' \in States
                 /\ \/ pc' = "exited" /\ outcome' \in {"failed", "lost"} /\ linked' = FALSE
                    \/ /\ pc' = "resets" /\ UNCHANGED << outcome, linked >>
                       /\ dstate' = "idle" /\ pending' = None
      BY <1>0, <3>2, StatusWithin DEF GetStatus, Proceed, Exit, Quit
    <3> QED BY <1>13, <3>1, <3>2 DEF CheckIdle
  <2> QED BY <1>0, <2>1, <2>2, RunningSet, Classes DEF Within
<1> QED BY <1>1, <1>2, <1>3, <1>4, <1>5, <1>6, <1>7, <1>8, <1>9, <1>10, <1>11,
           <1>12, <1>13 DEF Host

LEMMA PhaseStep == ASSUME Phase, DownloadInv, [Next]_vars PROVE Phase'
<1>1. CASE Host /\ ~FinalReset
  BY <1>1, HostWithin, WithinPhase
<1>2. CASE FinalReset
  <2>1. /\ pc = "resets" /\ dstate' = "idle" /\ pending' = None
        /\ UNCHANGED << firstpoll, file, tried, flash >> /\ linked' = FALSE
        /\ \/ pc' = "closed" /\ outcome' = "done"
           \/ pc' = "exited" /\ outcome' \in {"failed", "lost"}
    BY <1>2 DEF FinalReset, hostVars, historyVars, Quit
  <2> QED BY <2>1, RunningSet, Classes DEF Phase, States
<1>3. ASSUME NEW n \in DOMAIN Files, Start(n) PROVE Phase'
  <2>1. /\ pc' = "status" /\ file' = n /\ tried' = tried \cup {n} /\ outcome' = "running"
        /\ linked' = TRUE /\ UNCHANGED << firstpoll, dstate, pending, flash >>
    BY <1>3 DEF Start
  <2> QED BY <2>1, RunningSet, Classes DEF Phase
<1>4. CASE Execute
  <2>1. /\ UNCHANGED << pc, firstpoll, linked, file, tried, outcome >>
        /\ dstate = "dnBusy" /\ dstate' \in States /\ flash' \in {Done, Torn}
    BY <1>4 DEF Execute, hostVars, historyVars, States
  <2>2. pc \notin {"closed", "resets"}
    BY <2>1 DEF Phase
  <2>3. flash' = [a \in Addresses |-> flash'[a]]
    BY <2>1 DEF Done, Torn
  <2> QED BY <2>1, <2>2, <2>3 DEF Phase
<1>5. CASE Unplug
  <2>1. /\ UNCHANGED << pc, firstpoll, file, tried, outcome >> /\ linked' = FALSE
        /\ dstate' = "idle" /\ pending' = None /\ flash' \in {flash, Done, Torn}
    BY <1>5 DEF Unplug, hostVars, historyVars
  <2>2. flash' = [a \in Addresses |-> flash'[a]]
    <3>1. CASE flash' = flash
      BY <3>1 DEF Phase
    <3>2. CASE flash' \in {Done, Torn}
      BY <3>2 DEF Done, Torn
    <3> QED BY <2>1, <3>1, <3>2
  <2> QED BY <2>1, <2>2 DEF Phase, States
<1>6. CASE UNCHANGED vars
  BY <1>6 DEF Phase, vars, hostVars, historyVars
<1> QED BY <1>1, <1>2, <1>3, <1>4, <1>5, <1>6 DEF Next

-----------------------------------------------------------------------------
(* What an element covers is there.                                         *)

\* The bytes up to the beginning of the chunk before the one in hand.
Before(x) == x \in Bytes(e) /\ x <= address - XferSize

\* The program looks at the last byte of an element, and at the first of each
\* chunk, before it goes on.
Visited ==
  /\ pc \in Loops \cup Closing =>
       \A i \in Targets(file) : i < elem => Bytes(Element(file, i)) \subseteq Addresses
  /\ pc \in Pass1 =>
       /\ Writeable(e.address + e.size - 1)
       /\ p # 0 => p >= XferSize /\ p - XferSize < e.size
       /\ \A x : Before(x) => x \in Addresses
  /\ pc \in Pass2 => Bytes(e) \subseteq Addresses
  /\ pc \in Closing => \A i \in Targets(file) : i < elem

\* Numbers: where the chunk before the one at q begins.
LEMMA PriorChunk ==
  ASSUME NEW at \in Nat, NEW size \in Nat, NEW q \in Nat, NEW n \in Nat,
         q >= n, q - n < size
  PROVE  /\ at + q - n \in Nat
         /\ at <= at + q - n /\ at + q - n <= at + size - 1
  OBVIOUS

\* When the chunk in hand begins in the memory, so does all before it.
LEMMA UpToChunk ==
  ASSUME Solid, Where, Visited, pc \in Pass1, NEW b \in Addresses,
         p # 0 => b <= address - XferSize + XferSize,
         NEW x \in Bytes(e), x <= b, p = 0 => x = b
  PROVE  x \in Addresses
<1>1. /\ e.address \in Nat /\ e.size \in Nat /\ p \in Nat
      /\ address = e.address + p
      /\ Bytes(e) = e.address .. e.address + e.size - 1
  BY ElementType
<1>2. XferSize \in Nat /\ b \in Nat /\ x \in Nat
  BY <1>1, OnPage, LayoutAssumption
<1>3. p # 0 => p >= XferSize /\ p - XferSize < e.size
  BY DEF Visited
<1>4. CASE p = 0
  BY <1>4
<1>5. CASE p # 0
  <2> DEFINE a == address - XferSize
  <2>1. a \in Nat /\ e.address <= a /\ a <= e.address + e.size - 1
    <3> DEFINE at == e.address
               size == e.size
               n == XferSize
    <3>1. at \in Nat /\ size \in Nat /\ p \in Nat /\ n \in Nat /\ p >= n /\ p - n < size
      BY <1>1, <1>2, <1>3, <1>5
    <3>2. a = at + p - n
      BY <1>1, <1>2
    <3> HIDE DEF at, size, n
    <3>3. at + p - n \in Nat /\ at <= at + p - n /\ at + p - n <= at + size - 1
      BY ONLY <3>1, PriorChunk
    <3> QED BY <3>2, <3>3, Zenon DEF at, size
  <2>2. a \in Bytes(e) /\ a <= a
    BY <1>1, <2>1
  <2>3. a \in Addresses
    BY <2>2 DEF Visited, Before
  <2>4. CASE x <= a
    BY <2>4 DEF Visited, Before
  <2>5. CASE a <= x
    <3>1. b <= a + XferSize
      BY <1>5
    <3> HIDE DEF a
    <3>2. a..b \subseteq Addresses
      BY <2>3, <3>1 DEF Solid
    <3>3. x \in a..b
      BY <1>2, <2>1, <2>5
    <3> QED BY <3>2, <3>3
  <2> QED BY <1>2, <2>1, <2>4, <2>5
<1> QED BY <1>4, <1>5

\* Nothing of the host changes but where it is, within the same class of places.
LEMMA VisitedAtRest ==
  ASSUME Visited, UNCHANGED << pc, file, elem, p, scan, last_erased_page >>
  PROVE  Visited'
<1>1. e' = e /\ Bytes(e)' = Bytes(e) /\ address' = address
  BY HostAtRest
<1>2. \A x : Before(x)' <=> Before(x)
  BY <1>1 DEF Before
<1>3. \A i : Element(file, i)' = Element(file, i)
  BY DEF Element
<1> QED BY <1>1, <1>2 DEF Visited

\* The first pass goes to the next chunk.
LEMMA VisitedOn ==
  ASSUME Solid, Where, Visited, pc \in Pass1, pc' = "erases", p < e.size,
         address \in Addresses, p' = p + XferSize, UNCHANGED << file, elem >>
  PROVE  Visited'
<1>1. /\ e.address \in Nat /\ e.size \in Nat /\ p \in Nat
      /\ address = e.address + p
      /\ Bytes(e) = e.address .. e.address + e.size - 1
  BY ElementType
<1>2. XferSize \in Nat /\ XferSize > 0
  BY LayoutAssumption
<1>3. e' = e /\ Bytes(e)' = Bytes(e)
  BY DEF e, Bytes, Element
<1>4. address' = e.address + p + XferSize
  BY <1>1, <1>2, <1>3 DEF address
<1>5. address' - XferSize = address
  BY <1>1, <1>2, <1>4
<1>6. p' >= XferSize /\ p' - XferSize < e.size
  BY <1>1, <1>2
<1>7. ASSUME NEW x, Before(x)' PROVE x \in Addresses
  <2>1. x \in Bytes(e) /\ x <= address
    BY <1>3, <1>5, <1>7 DEF Before
  <2>2. x \in Nat /\ e.address <= x
    BY <1>1, <2>1
  <2>3. p = 0 => x = address
    BY <1>1, <2>1, <2>2
  <2>4. address <= address - XferSize + XferSize
    BY <1>1, <1>2
  <2> QED BY <2>1, <2>3, <2>4, UpToChunk
<1>8. pc' \in Pass1 /\ pc' \notin Pass2 /\ pc' \notin Closing /\ pc \in Loops
  BY Classes
<1> QED BY <1>3, <1>6, <1>7, <1>8 DEF Visited, Element

LEMMA VisitedStep ==
  ASSUME Solid, DownloadInv, DownloadInv', Visited, [Next]_vars
  PROVE  Visited'
<1>1. Where /\ Where'
  BY DEF DownloadInv
<1>2. CASE Execute \/ Unplug
  <2>1. UNCHANGED << pc, file, elem, p, scan, last_erased_page >>
    BY <1>2 DEF Execute, Unplug, hostVars, loopVars, historyVars
  <2> QED BY <2>1, VisitedAtRest
<1>3. CASE Stays
  BY <1>3, VisitedAtRest DEF Stays
<1>4. CASE Away
  BY <1>4, Classes DEF Away, Visited
<1>5. CASE Enters
  <2>1. \A i \in Targets(file) : ~(i < 1)
    BY <1>5, FileType DEF Enters
  <2> QED BY <1>5, <2>1, Classes DEF Enters, Visited
<1>6. CASE Passes
  <2>1. ASSUME NEW i \in Targets(file), i < elem + 1
        PROVE  Bytes(Element(file, i)) \subseteq Addresses
    <3>1. i \in Nat /\ elem \in Nat /\ i # elem
      BY <1>1, <1>6, Classes, FileType DEF Passes, Where
    <3>2. i < elem
      BY <2>1, <3>1
    <3> QED BY <1>6, <3>2, Classes DEF Passes, Visited
  <2> QED BY <1>6, <2>1, Classes DEF Passes, Visited, Element
<1>7. CASE Opens
  <2>1. e' = e /\ pc' \in Pass1 /\ pc' \notin Pass2 /\ pc' \notin Closing /\ pc \in Loops
    BY <1>7, Classes DEF Opens, e, Element
  <2>2. ASSUME NEW x, Before(x)' PROVE FALSE
    <3>1. /\ x \in Bytes(e)' /\ x <= address' - XferSize
      BY <2>2 DEF Before
    <3>2. /\ e'.address \in Nat /\ e'.size \in Nat /\ address' = e'.address + p'
          /\ Bytes(e)' = e'.address .. e'.address + e'.size - 1
      BY <1>1, <2>1, ElementTypeNext
    <3>3. p' = 0 /\ XferSize \in Nat /\ XferSize > 0
      BY <1>7, LayoutAssumption DEF Opens
    <3> QED BY <3>1, <3>2, <3>3
  <2> QED BY <1>7, <2>1, <2>2 DEF Opens, Visited, Element
<1>8. CASE Finishes
  <2>1. ASSUME NEW i \in Targets(file), i < elem + 1
        PROVE  Bytes(Element(file, i)) \subseteq Addresses
    <3>1. i \in Nat /\ elem \in Nat
      BY <1>1, <1>8, Classes, FileType DEF Finishes, Where
    <3>2. i < elem \/ i = elem
      BY <2>1, <3>1
    <3> QED BY <1>8, <3>2, Classes DEF Finishes, Visited, e
  <2> QED BY <1>8, <2>1, Classes DEF Finishes, Visited, Element
<1>9. CASE Skips
  <2>1. address \in Nat
    BY <1>1, <1>9, Classes, Chunks DEF Skips
  <2>2. address \in Addresses
    BY <1>9, <2>1, ErasableIsThere DEF Skips
  <2> QED BY <1>1, <1>9, <2>2, Classes, VisitedOn DEF Skips
<1>10. CASE Begins
  <2>1. e' = e /\ Bytes(e)' = Bytes(e) /\ address' = address
    BY <1>10 DEF Begins, e, Bytes, Element, address
  <2>2. \A x : Before(x)' <=> Before(x)
    BY <2>1 DEF Before
  <2> QED BY <1>10, <2>1, <2>2, Classes DEF Begins, Visited, Element
<1>11. CASE Steps
  <2>1. address \in Addresses
    BY <1>1, <1>11, Looks DEF Steps, DownloadInv
  <2>2. CASE p' = p + XferSize
    BY <1>1, <1>11, <2>1, <2>2, VisitedOn DEF Steps
  <2>3. CASE p' = p
    <3>1. e' = e /\ Bytes(e)' = Bytes(e) /\ address' = address
      BY <1>11, <2>3 DEF Steps, e, Bytes, Element, address
    <3>2. \A x : Before(x)' <=> Before(x)
      BY <3>1 DEF Before
    <3> QED BY <1>11, <2>3, <3>1, <3>2, Classes DEF Steps, Visited, Element
  <2> QED BY <1>11, <2>2, <2>3 DEF Steps, StepOn
<1>12. CASE Turns
  <2>1. pc \in Pass1 /\ pc \in Loops /\ pc' \in Pass2 /\ pc' \notin Pass1 /\ pc' \notin Closing
    BY <1>12, Classes DEF Turns
  <2>2. /\ e.address \in Nat /\ e.size \in Nat /\ p \in Nat
        /\ address = e.address + p
        /\ Bytes(e) = e.address .. e.address + e.size - 1
    BY <1>1, <2>1, ElementType
  <2>3. XferSize \in Nat /\ p >= e.size
    BY <1>12, LayoutAssumption DEF Turns
  <2>4. ASSUME NEW x \in Bytes(e) PROVE x \in Addresses
    <3> DEFINE b == e.address + e.size - 1
    <3>1. x \in Nat /\ x <= b /\ e.size > 0
      BY <2>2, <2>4
    <3>2. b \in Addresses
      BY <2>1, <2>2, ErasableIsThere DEF Visited
    <3>3. p # 0
      BY <2>2, <2>3, <3>1
    <3>4. b <= address - XferSize + XferSize
      BY <2>2, <2>3
    <3> HIDE DEF b
    <3> QED BY <1>1, <2>1, <3>1, <3>2, <3>3, <3>4, UpToChunk
  <2>5. e' = e /\ Bytes(e)' = Bytes(e)
    BY <1>12 DEF Turns, e, Bytes, Element
  <2> QED BY <1>12, <2>1, <2>4, <2>5 DEF Turns, Visited, Element
<1>13. CASE Points \/ Pointed \/ Sends \/ Wrote
  <2>1. /\ pc \in Pass2 /\ pc' \in Pass2 /\ UNCHANGED << file, elem >>
        /\ pc \in Loops /\ pc' \notin Pass1 /\ pc' \notin Closing
    BY <1>13, Classes DEF Points, Pointed, Sends, Wrote
  <2>2. e' = e /\ Bytes(e)' = Bytes(e)
    BY <2>1 DEF e, Bytes, Element
  <2> QED BY <2>1, <2>2 DEF Visited, Element
<1>14. CASE Ends
  <2>1. ASSUME NEW i \in Targets(file) PROVE i < elem
    <3>1. file \in DOMAIN Files /\ elem \in Nat
      BY <1>1, <1>14 DEF Ends, Where
    <3>2. DOMAIN Files[file].elements = 1..Len(Files[file].elements)
      BY <3>1, FileType, LenProperties
    <3>3. i \in 1..Len(Files[file].elements)
      BY <3>2 DEF Targets
    <3>4. Len(Files[file].elements) \in Nat
      BY <3>1, FileType, LenProperties
    <3> QED BY <1>14, <3>1, <3>3, <3>4 DEF Ends
  <2> QED BY <1>14, <2>1, Classes DEF Ends, Visited, Element
<1>15. CASE Closes
  BY <1>15, Classes DEF Closes, Visited, Element
<1> QED BY <1>2, <1>3, <1>4, <1>5, <1>6, <1>7, <1>8, <1>9, <1>10, <1>11, <1>12, <1>13,
           <1>14, <1>15, Moves DEF HostStep, Move

-----------------------------------------------------------------------------
(* One remembered page is enough for elements in ascending order.           *)

\* What is between two bytes of a page is on the page.
LEMMA PageConvex ==
  ASSUME NEW a \in Addresses, NEW b \in Addresses, Pg(a) = Pg(b),
         NEW x \in Nat, a <= x, x <= b
  PROVE  x \in Addresses /\ find_segment(x) = find_segment(a) /\ Pg(x) = Pg(a)
<1> DEFINE m == find_segment(a).pagesize
<1>1. find_segment(b) = find_segment(a)
  BY PagesAreApart
<1>2. Pg(a) \in Nat /\ a \in Nat /\ Pg(a) <= a
  BY OnPage
<1>3. m \in Nat /\ b \in Nat /\ b < Pg(a) + m
  <2>1. /\ find_segment(b).pagesize \in Nat \ {0} /\ b \in Nat
        /\ b < Pg(b) + find_segment(b).pagesize
    BY OnPage
  <2> QED BY <1>1, <2>1
<1> HIDE DEF m
<1>4. Pg(a) <= x /\ x < Pg(a) + m
  BY <1>2, <1>3
<1> QED BY <1>4, SamePage DEF m

\* The bytes that the passes have left behind.
Reached(x) == Used(x) \/ (pc \in Pass1 /\ x \in Bytes(e) /\ x < address)

\* What the passes have not come to yet.
Ahead(y) ==
  /\ \A z \in Addresses : Used(z) => z < y
  /\ pc \in Pass1 /\ e.size > 0 =>
       IF p < e.size THEN EraseAddress <= y ELSE e.address + e.size <= y

\* A page that is behind in part and ahead in part is the page erased last.
Tracked ==
  pc \in Loops /\ Ascending(file) =>
    \A x, y \in Addresses :
      Pg(x) = Pg(y) /\ Erasable(x) /\ Reached(x) /\ Ahead(y) => last_erased_page = Pg(x)

\* No page is erased that holds a byte of an element that is done.
Clear ==
  pc = "erasing" /\ Ascending(file) => \A x \in Page(EraseAddress) : ~Used(x)

\* Only at the end of the first pass over an element its bytes become used.
LEMMA UsedKept ==
  ASSUME Where, Stays \/ Passes \/ Opens \/ Finishes \/ Skips \/ Begins \/ Steps
                \/ Points \/ Pointed \/ Sends \/ Wrote,
         pc \in Loops
  PROVE  \A x : Used(x)' <=> Used(x)
<1>1. /\ UNCHANGED file /\ file \in DOMAIN Files /\ elem \in Nat
  BY Classes DEF Where, Stays, Passes, Opens, Finishes, Skips, Begins, Steps,
                 Points, Pointed, Sends, Wrote
<1>2. ASSUME NEW i \in Targets(file)
      PROVE  (i < elem' \/ (i = elem' /\ pc' \in Pass2)) <=> (i < elem \/ (i = elem /\ pc \in Pass2))
  <2>1. i \in Nat
    BY <1>1, FileType
  <2>2. CASE elem' = elem /\ (pc' \in Pass2 <=> pc \in Pass2)
    BY <2>2
  <2>3. CASE Passes
    <3>1. i # elem /\ elem' = elem + 1 /\ pc \notin Pass2 /\ pc' \notin Pass2
      BY <2>3, Classes DEF Passes
    <3> QED BY <1>1, <2>1, <3>1
  <2>4. CASE Finishes
    <3>1. elem' = elem + 1 /\ pc \in Pass2 /\ pc' \notin Pass2
      BY <2>4, Classes DEF Finishes
    <3> QED BY <1>1, <2>1, <3>1
  <2>5. Passes \/ Finishes \/ (elem' = elem /\ (pc' \in Pass2 <=> pc \in Pass2))
    BY Classes DEF Stays, Opens, Skips, Begins, Steps, Points, Pointed, Sends, Wrote
  <2> QED BY <2>2, <2>3, <2>4, <2>5
<1>3. \A i : Bytes(Element(file, i))' = Bytes(Element(file, i))
  BY <1>1 DEF Bytes, Element
<1> QED BY <1>1, <1>2, <1>3 DEF Used

\* In ascending order, the bytes that are done lie below the element in hand.
LEMMA UsedBelow ==
  ASSUME Where, Ascending(file), pc \in Pass1, NEW x, Used(x)
  PROVE  x \in Nat /\ x < e.address
<1>1. PICK i \in Targets(file) : x \in Bytes(Element(file, i)) /\ i < elem
  BY Classes DEF Used
<1>2. file \in DOMAIN Files /\ elem \in Targets(file) /\ e.address \in Nat
  BY ElementType
<1>3. Element(file, i).address + Element(file, i).size <= e.address
  BY <1>1, <1>2 DEF Ascending, e
<1>4. Element(file, i).address \in Nat /\ Element(file, i).size \in Nat
  BY <1>2, FileType
<1>5. x \in Element(file, i).address .. Element(file, i).address + Element(file, i).size - 1
  BY <1>1 DEF Bytes
<1> QED BY <1>2, <1>3, <1>4, <1>5

\* The first byte of a chunk is looked at first.
LEMMA LooksNext ==
  ASSUME Where', pc' \in Pass1, p' < e'.size, scan' = 0
  PROVE  EraseAddress' = address'
<1>1. /\ e'.address \in Nat /\ e'.size \in Nat /\ p' \in Nat
      /\ address' = e'.address + p'
  BY ElementTypeNext
<1>2. XferSize \in Nat /\ XferSize > 0
  BY LayoutAssumption
<1> DEFINE c == chunk_size'
           size == e'.size
           q == p'
<1>3. c = IF q + XferSize > size THEN size - q ELSE XferSize
  BY DEF chunk_size
<1>4. q \in Nat /\ size \in Nat /\ q < size
  BY <1>1
<1> HIDE DEF c, size, q
<1>5. c \in Nat /\ 1 <= c
  BY <1>2, <1>3, <1>4
<1>6. scan' < c
  BY <1>5
<1>7. EraseAddress' = address' + scan'
  BY <1>6 DEF EraseAddress, c
<1> QED BY <1>1, <1>7

\* Where the erase looks: within the chunk in hand.
LEMMA LooksWithin ==
  ASSUME Where, Scanned, pc \in Pass1, p < e.size, Erasable(address)
  PROVE  /\ EraseAddress \in Nat /\ address \in Nat
         /\ address <= EraseAddress /\ EraseAddress <= last_byte
<1>1. address \in Nat /\ last_byte \in Nat /\ address <= last_byte
  BY Chunks
<1>2. EraseAddress = address \/ EraseAddress = last_byte
  BY Looks
<1> QED BY <1>1, <1>2

LEMMA TrackedSame ==
  ASSUME Tracked, pc \in Loops, UNCHANGED << file, last_erased_page >>,
         \A x \in Addresses : Erasable(x) /\ Reached(x)' => Reached(x),
         \A y \in Addresses : Ahead(y)' => Ahead(y)
  PROVE  Tracked'
<1>1. Ascending(file') <=> Ascending(file)
  OBVIOUS
<1> QED BY <1>1 DEF Tracked

\* The page that was just looked at, when the rest is behind or ahead of it.
LEMMA TrackedHere ==
  ASSUME EraseAddress \in Addresses, last_erased_page' = Pg(EraseAddress),
         Ascending(file') =>
           /\ \A x \in Addresses : Reached(x)' => x <= EraseAddress
           /\ \A y \in Addresses : Ahead(y)' => EraseAddress <= y
  PROVE  Tracked'
<1> SUFFICES ASSUME Ascending(file'), NEW x \in Addresses, NEW y \in Addresses,
                    Pg(x) = Pg(y), Reached(x)', Ahead(y)'
             PROVE  last_erased_page' = Pg(x)
  BY DEF Tracked
<1>1. x <= EraseAddress /\ EraseAddress <= y /\ EraseAddress \in Nat
  BY OnPage
<1>2. Pg(EraseAddress) = Pg(x)
  BY <1>1, PageConvex
<1> QED BY <1>2

\* Numbers: what lies beyond the next chunk, or the element, lies beyond this
\* chunk.
LEMMA BeyondChunk ==
  ASSUME NEW a \in Nat, NEW q \in Nat, NEW c \in Nat, NEW n \in Nat, NEW size \in Nat,
         NEW y \in Nat, 1 <= c, c <= n, q + c <= size,
         a + (q + n) <= y \/ a + size <= y
  PROVE  (a + q) + c - 1 <= y
<1>1. (a + q) + c - 1 <= a + (q + c)
  OBVIOUS
<1>2. a + (q + c) <= a + (q + n) /\ a + (q + c) <= a + size
  OBVIOUS
<1> QED BY <1>1, <1>2

LEMMA TrackedSkips ==
  ASSUME Apart, Where, Where', Tracked, Skips, pc \in Loops
  PROVE  Tracked'
<1>1. /\ pc \in Pass1 /\ pc' \in Pass1 /\ p < e.size /\ Writeable(address) /\ ~Erasable(address)
      /\ scan = 0 /\ scan' = 0 /\ p' = p + XferSize
      /\ UNCHANGED << file, elem, last_erased_page >>
  BY Classes DEF Skips
<1>2. /\ e.address \in Nat /\ e.size \in Nat /\ p \in Nat
      /\ address = e.address + p /\ address \in Nat
      /\ Bytes(e) = e.address .. e.address + e.size - 1
  BY <1>1, ElementType
<1>3. XferSize \in Nat
  BY LayoutAssumption
<1>4. /\ chunk_size \in Nat /\ 1 <= chunk_size
      /\ chunk_size = XferSize \/ p + chunk_size = e.size
      /\ last_byte = address + chunk_size - 1
  BY <1>1, Chunks
<1>5. e' = e /\ Bytes(e)' = Bytes(e)
  BY <1>1 DEF e, Bytes, Element
<1>6. address' = e.address + p'
  BY <1>5 DEF address
<1>7. \A x : Used(x)' <=> Used(x)
  BY UsedKept
<1>8. ASSUME NEW x \in Addresses, Erasable(x), Reached(x)' PROVE Reached(x)
  <2>1. CASE Used(x)
    BY <2>1 DEF Reached
  <2>2. CASE x \in Bytes(e) /\ x < e.address + p'
    <3>1. x \in Nat /\ e.address <= x /\ x <= e.address + e.size - 1
      BY <1>2, <2>2
    <3>2. CASE x < address
      BY <1>1, <2>2, <3>2 DEF Reached
    <3>3. CASE address <= x
      <4>1. x < e.address + p + XferSize
        BY <1>1, <1>2, <1>3, <2>2
      <4>2. x <= e.address + p + chunk_size - 1
        BY <1>2, <1>3, <1>4, <3>1, <4>1, InChunk
      <4>3. x <= last_byte
        BY <1>2, <1>4, <4>2
      <4> QED BY <1>1, <1>8, <3>3, <4>3, NothingToErase
    <3> QED BY <1>2, <3>1, <3>2, <3>3
  <2> QED BY <1>5, <1>6, <1>7, <1>8, <2>1, <2>2 DEF Reached
<1>9. ASSUME NEW y \in Addresses, Ahead(y)' PROVE Ahead(y)
  <2>1. y \in Nat
    BY OnPage
  <2>2. EraseAddress = address
    <3>1. scan < chunk_size
      BY <1>1, <1>4
    <3> QED BY <1>1, <1>2, <3>1 DEF EraseAddress
  <2>3. IF p' < e.size THEN EraseAddress' <= y ELSE e.address + e.size <= y
    BY <1>1, <1>2, <1>5, <1>9 DEF Ahead
  <2>4. CASE p' < e.size
    <3>1. EraseAddress' = address'
      BY <1>1, <1>5, <2>4, LooksNext
    <3>2. e.address + p' <= y
      BY <1>6, <2>3, <2>4, <3>1
    <3> QED BY <1>1, <1>2, <1>3, <1>7, <1>9, <2>1, <2>2, <3>2 DEF Ahead
  <2>5. CASE ~(p' < e.size)
    <3>1. e.address + e.size <= y
      BY <2>3, <2>5
    <3>2. address <= y
      BY <1>1, <1>2, <2>1, <3>1
    <3> QED BY <1>1, <1>7, <1>9, <2>2, <3>2 DEF Ahead
  <2> QED BY <2>4, <2>5
<1> QED BY <1>1, <1>8, <1>9, TrackedSame

LEMMA TrackedBegins ==
  ASSUME Where, Scanned, Begins, pc \in Loops
  PROVE  Tracked'
<1>1. /\ pc \in Pass1 /\ pc' \in Pass1 /\ p < e.size /\ Erasable(address)
      /\ EraseAddress \in Addresses /\ last_erased_page' = Pg(EraseAddress)
      /\ UNCHANGED << file, elem, p, scan >>
  BY Classes DEF Begins
<1>2. /\ e' = e /\ Bytes(e)' = Bytes(e) /\ address' = address
      /\ EraseAddress' = EraseAddress
  BY <1>1 DEF e, Bytes, Element, address, EraseAddress, chunk_size
<1>3. \A x : Used(x)' <=> Used(x)
  BY UsedKept
<1>4. /\ EraseAddress \in Nat /\ address \in Nat /\ address <= EraseAddress
      /\ e.address \in Nat /\ e.size \in Nat /\ p \in Nat /\ address = e.address + p
  BY <1>1, LooksWithin, ElementType
<1>5. ASSUME Ascending(file), NEW x \in Addresses, Reached(x)' PROVE x <= EraseAddress
  <2>1. x \in Nat
    BY OnPage
  <2>2. CASE Used(x)
    <3>1. x < e.address
      BY <1>1, <1>5, <2>2, UsedBelow
    <3> QED BY <1>4, <2>1, <3>1
  <2>3. CASE x < address
    BY <1>4, <2>1, <2>3
  <2> QED BY <1>2, <1>3, <1>5, <2>2, <2>3 DEF Reached
<1>6. ASSUME NEW y \in Addresses, Ahead(y)' PROVE EraseAddress <= y
  <2>1. e.size > 0
    BY <1>1, <1>4
  <2> QED BY <1>1, <1>2, <1>6, <2>1 DEF Ahead
<1> QED BY <1>1, <1>5, <1>6, TrackedHere

LEMMA TrackedSteps ==
  ASSUME Where, Where', Scanned, Steps, pc \in Loops
  PROVE  Tracked'
<1>1. /\ pc \in Pass1 /\ pc' \in Pass1 /\ p < e.size /\ Erasable(address)
      /\ EraseAddress \in Addresses /\ last_erased_page' = Pg(EraseAddress)
      /\ UNCHANGED << file, elem >> /\ StepOn
  BY Classes DEF Steps
<1>2. e' = e /\ Bytes(e)' = Bytes(e) /\ address' = e.address + p'
  BY <1>1 DEF e, Bytes, Element, address
<1>3. \A x : Used(x)' <=> Used(x)
  BY UsedKept
<1>4. /\ EraseAddress \in Nat /\ address \in Nat /\ last_byte \in Nat
      /\ address <= EraseAddress /\ EraseAddress <= last_byte
      /\ e.address \in Nat /\ e.size \in Nat /\ p \in Nat /\ address = e.address + p
      /\ Bytes(e) = e.address .. e.address + e.size - 1
  BY <1>1, LooksWithin, ElementType, Chunks
<1>5. /\ chunk_size \in Nat /\ 1 <= chunk_size /\ p + chunk_size <= e.size
      /\ chunk_size = XferSize \/ p + chunk_size = e.size
      /\ last_byte = address + chunk_size - 1
  BY <1>1, Chunks
<1>6. XferSize \in Nat /\ e.size > 0
  BY <1>1, <1>4, LayoutAssumption
<1>7. /\ find_segment(address).pagesize \in Nat \ {0}
      /\ scan = 0 => scan < chunk_size /\ EraseAddress = address
      /\ scan # 0 => ~(scan < chunk_size) /\ EraseAddress = last_byte
      /\ chunk_size <= find_segment(address).pagesize
  BY <1>1, Looks
<1>8. CASE scan = 0
  <2>1. scan' = find_segment(address).pagesize /\ p' = p /\ EraseAddress = address
    <3>1. scan' = scan + find_segment(address).pagesize /\ p' = p
      BY <1>1, <1>7, <1>8 DEF StepOn
    <3> QED BY <1>7, <1>8, <3>1
  <2>2. address' = address /\ chunk_size' = chunk_size
    BY <1>2, <1>4, <2>1 DEF chunk_size
  <2>3. EraseAddress' = last_byte
    <3>1. ~(scan' < chunk_size')
      BY <1>5, <1>7, <2>1, <2>2
    <3> QED BY <1>5, <2>2, <3>1 DEF EraseAddress
  <2>4. ASSUME Ascending(file), NEW x \in Addresses, Reached(x)' PROVE x <= EraseAddress
    <3>1. x \in Nat
      BY OnPage
    <3>2. CASE Used(x)
      <4>1. x < e.address
        BY <1>1, <2>4, <3>2, UsedBelow
      <4> QED BY <1>4, <3>1, <4>1
    <3>3. CASE x < address
      BY <1>4, <3>1, <3>3
    <3> QED BY <1>3, <2>2, <2>4, <3>2, <3>3 DEF Reached
  <2>5. ASSUME NEW y \in Addresses, Ahead(y)' PROVE EraseAddress <= y
    <3>1. last_byte <= y
      BY <1>1, <1>2, <1>6, <2>1, <2>3, <2>5 DEF Ahead
    <3>2. y \in Nat
      BY OnPage
    <3> QED BY <1>4, <3>1, <3>2
  <2> QED BY <1>1, <2>4, <2>5, TrackedHere
<1>9. CASE scan # 0
  <2>1. scan' = 0 /\ p' = p + XferSize /\ EraseAddress = last_byte
    BY <1>1, <1>7, <1>9 DEF StepOn
  <2>2. ASSUME Ascending(file), NEW x \in Addresses, Reached(x)' PROVE x <= EraseAddress
    <3>1. x \in Nat
      BY OnPage
    <3>2. CASE Used(x)
      <4>1. x < e.address
        BY <1>1, <2>2, <3>2, UsedBelow
      <4> QED BY <1>4, <3>1, <4>1
    <3>3. CASE x \in Bytes(e) /\ x < e.address + p'
      <4>1. x <= e.address + e.size - 1
        BY <1>4, <3>3
      <4>2. x < e.address + p + XferSize
        BY <1>4, <1>6, <2>1, <3>1, <3>3
      <4>3. x <= e.address + p + chunk_size - 1
        BY <1>4, <1>5, <1>6, <3>1, <4>1, <4>2, InChunk
      <4> QED BY <1>4, <1>5, <2>1, <3>1, <4>3
    <3> QED BY <1>2, <1>3, <2>2, <3>2, <3>3 DEF Reached
  <2>3. ASSUME NEW y \in Addresses, Ahead(y)' PROVE EraseAddress <= y
    <3>1. y \in Nat
      BY OnPage
    <3>2. IF p' < e.size THEN EraseAddress' <= y ELSE e.address + e.size <= y
      BY <1>1, <1>2, <1>6, <2>3 DEF Ahead
    <3>3. e.address + (p + XferSize) <= y \/ e.address + e.size <= y
      <4>1. p' < e.size => EraseAddress' = address'
        BY <1>1, <1>2, <2>1, LooksNext
      <4>2. e.address + p' <= y \/ e.address + e.size <= y
        BY <1>2, <3>2, <4>1
      <4> QED BY <2>1, <4>2
    <3>4. last_byte = (e.address + p) + chunk_size - 1 /\ chunk_size <= XferSize
      BY <1>1, <1>4, <1>5, Chunks
    <3> DEFINE a == e.address
               size == e.size
               c == chunk_size
               n == XferSize
    <3>5. /\ a \in Nat /\ p \in Nat /\ c \in Nat /\ n \in Nat /\ size \in Nat
          /\ 1 <= c /\ c <= n /\ p + c <= size
      BY <1>4, <1>5, <1>6, <3>4
    <3>6. (a + (p + n) <= y \/ a + size <= y) /\ last_byte = (a + p) + c - 1
      BY <3>3, <3>4
    <3> HIDE DEF a, size, c, n
    <3>7. (a + p) + c - 1 <= y
      BY ONLY <3>1, <3>5, <3>6, BeyondChunk
    <3> QED BY <2>1, <3>6, <3>7
  <2> QED BY <1>1, <2>2, <2>3, TrackedHere
<1> QED BY <1>8, <1>9

LEMMA TrackedTurns ==
  ASSUME Where, Visited, Tracked, Turns, pc \in Loops
  PROVE  Tracked'
<1>1. /\ pc \in Pass1 /\ pc' \notin Pass1 /\ pc' \in Pass2 /\ pc \notin Pass2
      /\ p >= e.size /\ UNCHANGED << file, elem, last_erased_page >>
  BY Classes DEF Turns
<1>2. /\ e.address \in Nat /\ e.size \in Nat /\ p \in Nat
      /\ address = e.address + p
      /\ Bytes(e) = e.address .. e.address + e.size - 1 /\ elem \in Targets(file)
  BY <1>1, ElementType
<1>3. \A x : Used(x)' <=> Used(x) \/ x \in Bytes(e)
  <2>1. \A i : Bytes(Element(file, i))' = Bytes(Element(file, i))
    BY <1>1 DEF Bytes, Element
  <2> QED BY <1>1, <1>2, <2>1 DEF Used, e
<1>4. ASSUME NEW x \in Addresses, Reached(x)' PROVE Reached(x)
  <2>1. CASE Used(x)
    BY <2>1 DEF Reached
  <2>2. CASE x \in Bytes(e)
    <3>1. x < address
      BY <1>1, <1>2, <2>2
    <3> QED BY <1>1, <2>2, <3>1 DEF Reached
  <2> QED BY <1>1, <1>3, <1>4, <2>1, <2>2 DEF Reached
<1>5. ASSUME NEW y \in Addresses, Ahead(y)' PROVE Ahead(y)
  <2>1. \A z \in Addresses : Used(z) \/ z \in Bytes(e) => z < y
    BY <1>3, <1>5 DEF Ahead
  <2>2. ASSUME e.size > 0 PROVE e.address + e.size <= y
    <3>1. Writeable(e.address + e.size - 1)
      BY <1>1 DEF Visited
    <3>2. e.address + e.size - 1 \in Addresses /\ e.address + e.size - 1 \in Bytes(e)
      BY <1>2, <2>2, <3>1, ErasableIsThere
    <3>3. e.address + e.size - 1 < y /\ y \in Nat
      BY <2>1, <3>2, OnPage
    <3> QED BY <1>2, <3>3
  <2>3. ~(p < e.size)
    BY <1>1, <1>2
  <2> QED BY <2>1, <2>2, <2>3 DEF Ahead
<1> QED BY <1>1, <1>4, <1>5, TrackedSame

LEMMA TrackedStep ==
  ASSUME Apart, DownloadInv, DownloadInv', Visited, Tracked, [Next]_vars
  PROVE  Tracked'
<1>1. Where /\ Where' /\ Scanned
  BY DEF DownloadInv
<1>2. ASSUME UNCHANGED << pc, file, elem, p, scan, last_erased_page >> PROVE Tracked'
  <2>1. /\ e' = e /\ Bytes(e)' = Bytes(e) /\ address' = address /\ EraseAddress' = EraseAddress
        /\ \A x : Used(x)' <=> Used(x)
    BY <1>2, HostAtRest
  <2>2. \A x : (Reached(x)' <=> Reached(x)) /\ (Ahead(x)' <=> Ahead(x))
    BY <1>2, <2>1 DEF Reached, Ahead
  <2>3. CASE pc \in Loops
    BY <1>2, <2>2, <2>3, TrackedSame
  <2>4. CASE pc \notin Loops
    BY <1>2, <2>4 DEF Tracked
  <2> QED BY <2>3, <2>4
<1>3. CASE Execute \/ Unplug
  BY <1>2, <1>3 DEF Execute, Unplug, hostVars, loopVars, historyVars
<1>4. CASE Stays
  BY <1>2, <1>4 DEF Stays
<1>5. CASE Away \/ Ends \/ Closes
  BY <1>5, Classes DEF Away, Ends, Closes, Tracked
<1>6. CASE Enters
  <2>1. \A i \in Targets(file') : ~(i < 1)
    BY <1>6, FileType DEF Enters
  <2>2. \A x : ~Used(x)'
    BY <1>6, <2>1, Classes DEF Enters, Used
  <2>3. \A x : ~Reached(x)'
    BY <1>6, <2>2, Classes DEF Enters, Reached
  <2> QED BY <2>3 DEF Tracked
<1>7. CASE Passes \/ Finishes \/ Points \/ Pointed \/ Sends \/ Wrote
  <2>1. /\ pc \in Loops /\ pc \notin Pass1 /\ pc' \notin Pass1
        /\ UNCHANGED << file, last_erased_page >>
    BY <1>7, Classes DEF Passes, Finishes, Points, Pointed, Sends, Wrote
  <2>2. \A x : Used(x)' <=> Used(x)
    BY <1>1, <1>7, <2>1, UsedKept
  <2>3. \A x : (Reached(x)' => Reached(x)) /\ (Ahead(x)' => Ahead(x))
    BY <2>1, <2>2 DEF Reached, Ahead
  <2> QED BY <2>1, <2>3, TrackedSame
<1>8. CASE Opens
  <2>1. /\ pc \in Loops /\ pc \notin Pass1 /\ pc' \in Pass1 /\ p' = 0
        /\ UNCHANGED << file, last_erased_page >>
    BY <1>8, Classes DEF Opens
  <2>2. \A x : Used(x)' <=> Used(x)
    BY <1>1, <1>8, <2>1, UsedKept
  <2>3. ASSUME NEW x, x \in Bytes(e)', x < address' PROVE FALSE
    <3>1. /\ e'.address \in Nat /\ e'.size \in Nat /\ address' = e'.address + p'
          /\ Bytes(e)' = e'.address .. e'.address + e'.size - 1
      BY <1>1, <2>1, ElementTypeNext
    <3> QED BY <2>1, <2>3, <3>1
  <2>4. \A x : (Reached(x)' => Reached(x)) /\ (Ahead(x)' => Ahead(x))
    BY <2>1, <2>2, <2>3 DEF Reached, Ahead
  <2> QED BY <2>1, <2>4, TrackedSame
<1>9. CASE Skips
  BY <1>1, <1>9, Classes, TrackedSkips DEF Skips
<1>10. CASE Begins
  BY <1>1, <1>10, Classes, TrackedBegins DEF Begins
<1>11. CASE Steps
  BY <1>1, <1>11, Classes, TrackedSteps DEF Steps
<1>12. CASE Turns
  BY <1>1, <1>12, Classes, TrackedTurns DEF Turns
<1> QED BY <1>3, <1>4, <1>5, <1>6, <1>7, <1>8, <1>9, <1>10, <1>11, <1>12, Moves
           DEF HostStep, Move

LEMMA ClearStep ==
  ASSUME DownloadInv, Visited, Tracked, Clear, [Next]_vars
  PROVE  Clear'
<1>1. Where /\ Scanned
  BY DEF DownloadInv
<1>2. ASSUME UNCHANGED << pc, file, elem, p, scan, last_erased_page >> PROVE Clear'
  BY <1>2, HostAtRest DEF Clear
<1>3. CASE Execute \/ Unplug
  BY <1>2, <1>3 DEF Execute, Unplug, hostVars, loopVars, historyVars
<1>4. CASE Stays
  BY <1>2, <1>4 DEF Stays
<1>5. CASE pc' # "erasing"
  BY <1>5 DEF Clear
<1>6. CASE Begins
  <2>1. /\ pc \in Pass1 /\ pc \in Loops /\ p < e.size /\ Erasable(address)
        /\ EraseAddress \in Addresses /\ ~Erased
        /\ UNCHANGED << file, elem, p, scan >>
    BY <1>6, Classes DEF Begins
  <2>2. EraseAddress' = EraseAddress
    BY <2>1 DEF EraseAddress, address, chunk_size, e, Element
  <2>3. \A x : Used(x)' <=> Used(x)
    BY <1>1, <1>6, <2>1, UsedKept
  <2>4. /\ EraseAddress \in Nat /\ address \in Nat /\ address <= EraseAddress
        /\ e.address \in Nat /\ e.size \in Nat /\ p \in Nat /\ address = e.address + p
    BY <1>1, <2>1, LooksWithin, ElementType
  <2>5. ASSUME Ascending(file), NEW x \in Page(EraseAddress), Used(x) PROVE FALSE
    <3>1. x \in Addresses /\ Pg(x) = Pg(EraseAddress) /\ x \in Nat
      BY <2>1, PageMembers, OnPage
    <3>2. x < e.address
      BY <1>1, <2>1, <2>5, UsedBelow
    <3>3. x <= address
      BY <2>4, <3>1, <3>2
    <3>4. /\ find_segment(address) = find_segment(x)
          /\ find_segment(EraseAddress) = find_segment(x)
      BY <2>1, <2>4, <3>1, <3>3, PageConvex, PagesAreApart
    <3>5. Erasable(x)
      BY <2>1, <3>4 DEF Erasable
    <3>6. \A z \in Addresses : Used(z) => z < EraseAddress
      <4> SUFFICES ASSUME NEW z \in Addresses, Used(z) PROVE z < EraseAddress
        OBVIOUS
      <4>1. z \in Nat /\ z < e.address
        BY <1>1, <2>1, <2>5, UsedBelow
      <4> QED BY <2>4, <4>1
    <3>7. Ahead(EraseAddress)
      BY <2>1, <2>4, <3>6 DEF Ahead
    <3>8. last_erased_page = Pg(x)
      BY <2>1, <2>5, <3>1, <3>5, <3>7 DEF Tracked, Reached
    <3> QED BY <2>1, <3>1, <3>4, <3>8 DEF Erased, Pg
  <2>6. Page(EraseAddress)' = Page(EraseAddress)
    BY <2>2
  <2> QED BY <2>1, <2>3, <2>5, <2>6 DEF Clear
<1> QED BY <1>3, <1>4, <1>5, <1>6, Moves
           DEF HostStep, Move, Away, Enters, Passes, Opens, Finishes, Skips, Steps, Turns,
               Points, Pointed, Sends, Wrote, Ends, Closes, Loops, Pass1

-----------------------------------------------------------------------------
(* What the device may be told to do.                                       *)

Touched == UNION {Region(n) : n \in tried}

\* Data is taken from the files that were tried.
Sourced(bytes) ==
  \A k \in DOMAIN bytes :
    \E n \in tried : \E i \in Targets(n) : \E a \in Bytes(Element(n, i)) :
      bytes[k] = ByteFor(n, i, a)

Commanded ==
  \/ pending = None
  \/ \E a \in Addresses : pending = Command("erase", a, << >>) /\ Page(a) \subseteq Touched
  \/ \E a \in Addresses : pending = Command("address", a, << >>)
  \/ \E bytes : /\ pending = Command("data", 0, bytes)
                /\ Len(bytes) <= XferSize /\ Sourced(bytes)
                /\ Addresses \cap (pointer .. pointer + Len(bytes) - 1) \subseteq Touched

Typed ==
  /\ last_erased_page \in {NoPage} \cup Addresses
  /\ pointer \in Addresses \cup {0}
  /\ Commanded

\* The bytes of the element in hand lie on pages of its file.
LEMMA OnRegion ==
  ASSUME Where, Phase, pc \in Pass1 \cup Pass2, NEW a \in Bytes(e)
  PROVE  /\ Page(a) \subseteq Touched
         /\ a \in Addresses => a \in Touched
<1>1. file \in tried /\ elem \in Targets(file)
  <2>1. pc # "closed"
    BY Classes
  <2> QED BY <2>1, ElementType DEF Phase
<1>2. Page(a) \subseteq Region(file)
  BY <1>1 DEF Region, e
<1>3. Page(a) \subseteq Touched
  BY <1>1, <1>2 DEF Touched
<1>4. ASSUME a \in Addresses PROVE a \in Page(a)
  BY <1>4, PagesAreApart
<1> QED BY <1>3, <1>4

\* What was commanded stays in order while it is pending.
LEMMA TypedKept ==
  ASSUME Typed, tried \subseteq tried', pending' \in {pending, None},
         pointer' \in Addresses \cup {0}, pending' # None => pointer' = pointer,
         last_erased_page' \in {last_erased_page, NoPage} \cup Addresses
  PROVE  Typed'
<1>1. Touched \subseteq Touched'
  BY DEF Touched
<1>2. \A bytes : Sourced(bytes) => Sourced(bytes)'
  <2> SUFFICES ASSUME NEW bytes, Sourced(bytes), NEW k \in DOMAIN bytes
               PROVE  \E n \in tried' : \E i \in Targets(n) : \E a \in Bytes(Element(n, i)) :
                        bytes[k] = ByteFor(n, i, a)
    BY DEF Sourced
  <2> QED BY DEF Sourced
<1>3. Commanded'
  <2>1. CASE pending' = None
    BY <2>1 DEF Commanded
  <2>2. CASE pending' # None
    <3>1. pending' = pending /\ pointer' = pointer /\ pending # None
      BY <2>2
    <3>2. CASE \E a \in Addresses : pending = Command("erase", a, << >>) /\ Page(a) \subseteq Touched
      BY <1>1, <3>1, <3>2 DEF Commanded
    <3>3. CASE \E a \in Addresses : pending = Command("address", a, << >>)
      BY <3>1, <3>3 DEF Commanded
    <3>4. CASE \E bytes : /\ pending = Command("data", 0, bytes)
                          /\ Len(bytes) <= XferSize /\ Sourced(bytes)
                          /\ Addresses \cap (pointer .. pointer + Len(bytes) - 1) \subseteq Touched
      <4>1. PICK bytes : /\ pending = Command("data", 0, bytes)
                         /\ Len(bytes) <= XferSize /\ Sourced(bytes)
                         /\ Addresses \cap (pointer .. pointer + Len(bytes) - 1) \subseteq Touched
        BY <3>4
      <4>2. /\ pending' = Command("data", 0, bytes)
            /\ Len(bytes) <= XferSize /\ Sourced(bytes)'
            /\ Addresses \cap (pointer' .. pointer' + Len(bytes) - 1) \subseteq Touched'
        BY <1>1, <1>2, <3>1, <4>1
      <4> QED BY <4>2 DEF Commanded
    <3> QED BY <3>1, <3>2, <3>3, <3>4 DEF Typed, Commanded
  <2> QED BY <2>1, <2>2
<1> QED BY <1>3 DEF Typed

LEMMA TypedErase ==
  ASSUME Phase, DownloadInv, Typed, Erase
  PROVE  Typed'
<1>1. /\ pc = "erases" /\ pc \in Pass1 /\ Where /\ Scanned
      /\ UNCHANGED << tried, pointer >>
      /\ pointer \in Addresses \cup {0} /\ last_erased_page \in {NoPage} \cup Addresses
  BY Classes DEF Erase, historyVars, DownloadInv, Typed
<1>2. CASE UNCHANGED << last_erased_page, pending >>
  BY <1>1, <1>2, TypedKept
<1>3. CASE /\ p < e.size /\ Erasable(address) /\ Erasable(EraseAddress)
           /\ last_erased_page' = PageStart(EraseAddress, find_segment(EraseAddress).pagesize)
           /\ Dnload(Command("erase", EraseAddress, << >>), "erasing")
  <2>1. EraseAddress \in Addresses
    BY <1>1, <1>3, Looks, ErasableIsThere
  <2>2. last_erased_page' \in Addresses
    <3>1. Pg(EraseAddress) \in Nat /\ find_segment(EraseAddress).pagesize \in Nat \ {0}
      BY <2>1, OnPage
    <3>2. Pg(EraseAddress) < Pg(EraseAddress) + find_segment(EraseAddress).pagesize
      BY <3>1
    <3>3. Pg(EraseAddress) \in Addresses
      BY <2>1, <3>1, <3>2, SamePage
    <3> QED BY <1>3, <3>3 DEF Pg
  <2>3. Page(EraseAddress) \subseteq Touched
    <3>1. EraseAddress \in Bytes(e)
      BY <1>1, <1>3, Looks, Chunks
    <3> QED BY <1>1, <3>1, OnRegion
  <2> DEFINE command == Command("erase", EraseAddress, << >>)
  <2>4. pending' \in {pending, None, command}
    <3>1. Dnload(command, "erasing")
      BY <1>3
    <3> HIDE DEF command
    <3> QED BY <3>1 DEF Dnload, Refused
  <2>5. CASE pending' = command
    <3>1. Touched' = Touched
      BY <1>1 DEF Touched
    <3>2. Commanded'
      BY <2>1, <2>3, <2>5, <3>1 DEF Commanded
    <3> QED BY <1>1, <2>2, <3>2 DEF Typed
  <2>6. CASE pending' \in {pending, None}
    <3> HIDE DEF command
    <3> QED BY <1>1, <2>2, <2>6, TypedKept
  <2> QED BY <2>4, <2>5, <2>6
<1> QED BY <1>1, <1>2, <1>3 DEF Erase, ErasePage, Exit, Quit, Proceed

LEMMA TypedSetAddress ==
  ASSUME Phase, DownloadInv, Visited, Typed, SetAddress
  PROVE  Typed'
<1>1. /\ pc = "writes" /\ pc \in Pass2 /\ Where
      /\ UNCHANGED << tried, pointer, last_erased_page >>
      /\ pointer \in Addresses \cup {0} /\ last_erased_page \in {NoPage} \cup Addresses
  BY Classes DEF SetAddress, historyVars, DownloadInv, Typed
<1>2. CASE UNCHANGED pending
  BY <1>1, <1>2, TypedKept
<1>3. CASE p < e.size /\ Dnload(Command("address", address, << >>), "addressing")
  <2>1. address \in Addresses
    BY <1>1, <1>3, Chunks DEF Visited
  <2> DEFINE command == Command("address", address, << >>)
  <2>2. pending' \in {pending, None, command}
    <3>1. Dnload(command, "addressing")
      BY <1>3
    <3> HIDE DEF command
    <3> QED BY <3>1 DEF Dnload, Refused
  <2>3. CASE pending' = command
    <3>1. Commanded'
      BY <2>1, <2>3 DEF Commanded
    <3> QED BY <1>1, <3>1 DEF Typed
  <2>4. CASE pending' \in {pending, None}
    <3> HIDE DEF command
    <3> QED BY <1>1, <2>4, TypedKept
  <2> QED BY <2>2, <2>3, <2>4
<1> QED BY <1>2, <1>3 DEF SetAddress

LEMMA TypedChunk ==
  ASSUME Phase, DownloadInv, Visited, Typed, dfuse_dnload_chunk
  PROVE  Typed'
<1>1. /\ pc = "chunk" /\ pc \in Pass2 /\ pc \in Loops /\ Where /\ Pend /\ Progress
      /\ UNCHANGED << file, elem, p, tried, pointer, last_erased_page, flash >>
      /\ pointer \in Addresses \cup {0} /\ last_erased_page \in {NoPage} \cup Addresses
      /\ Dnload(Command("data", 0, Chunk), "writing") /\ p < e.size
  BY Classes DEF dfuse_dnload_chunk, hostVars, loopVars, historyVars, DownloadInv, Typed, Where
<1> DEFINE command == Command("data", 0, Chunk)
<1>2. \/ /\ linked /\ dstate \in {"idle", "dnIdle"} /\ pending' = command
      \/ pending' \in {pending, None}
  <2>1. Dnload(command, "writing")
    BY <1>1
  <2> HIDE DEF command
  <2> QED BY <2>1 DEF Dnload, Refused, Answered
<1>3. CASE linked /\ dstate \in {"idle", "dnIdle"} /\ pending' = command
  <2>1. pointer = address
    BY <1>1, <1>3 DEF Progress, Alive, Untouched, Under
  <2>2. /\ chunk_size \in Nat /\ 1 <= chunk_size /\ chunk_size <= XferSize
        /\ p + chunk_size <= e.size /\ address \in Nat
    BY <1>1, Chunks
  <2>3. Len(Chunk) = chunk_size
    BY <1>1, ChunkBytes
  <2>4. /\ file \in DOMAIN Files /\ elem \in Targets(file)
        /\ e.address \in Nat /\ e.size \in Nat /\ p \in Nat
        /\ address = e.address + p /\ Bytes(e) = e.address .. e.address + e.size - 1
    BY <1>1, ElementType
  <2>5. ASSUME NEW a \in Nat, address <= a, a <= address + chunk_size - 1
        PROVE  a \in Bytes(e)
    <3>1. e.address <= a /\ a <= e.address + p + chunk_size - 1
      BY <2>2, <2>4, <2>5
    <3>2. a <= e.address + e.size - 1
      BY <2>2, <2>4, <2>5, <3>1, WithinElement
    <3> QED BY <2>4, <3>1, <3>2
  <2>6. Addresses \cap (pointer .. pointer + Len(Chunk) - 1) \subseteq Touched
    <3> SUFFICES ASSUME NEW a \in Addresses, a \in pointer .. pointer + Len(Chunk) - 1
                 PROVE  a \in Touched
      OBVIOUS
    <3>1. a \in Bytes(e)
      BY <2>1, <2>2, <2>3, <2>5
    <3> QED BY <1>1, <3>1, OnRegion
  <2>7. Sourced(Chunk)
    <3> SUFFICES ASSUME NEW k \in 1..chunk_size
                 PROVE  \E n \in tried : \E i \in Targets(n) : \E a \in Bytes(Element(n, i)) :
                          Chunk[k] = ByteFor(n, i, a)
      BY DEF Sourced, Chunk
    <3>1. Chunk[k] = ByteFor(file, elem, address + k - 1)
      BY DEF Chunk
    <3>2. address + k - 1 \in Bytes(e)
      <4>1. address + k - 1 \in Nat /\ address <= address + k - 1
            /\ address + k - 1 <= address + chunk_size - 1
        BY <2>2
      <4> QED BY <2>5, <4>1
    <3>3. file \in tried
      BY <1>1 DEF Phase
    <3> QED BY <2>4, <3>1, <3>2, <3>3 DEF e
  <2>8. Touched' = Touched /\ (Sourced(Chunk) => Sourced(Chunk)')
    <3>1. UNCHANGED Chunk
      BY <1>1 DEF Chunk, chunk_size, address, e, Element
    <3> QED BY <1>1, <3>1 DEF Touched, Sourced
  <2>9. Commanded'
    <3> DEFINE bytes == Chunk
    <3>1. /\ pending' = Command("data", 0, bytes) /\ Len(bytes) <= XferSize /\ Sourced(Chunk)'
          /\ Addresses \cap (pointer' .. pointer' + Len(bytes) - 1) \subseteq Touched'
      BY <1>1, <1>3, <2>2, <2>3, <2>6, <2>7, <2>8
    <3>2. Sourced(bytes)'
      BY <3>1
    <3>3. bytes' = bytes
      BY <1>1 DEF Chunk, chunk_size, address, e, Element
    <3> HIDE DEF bytes
    <3> QED BY <3>1, <3>2, <3>3 DEF Commanded, Sourced
  <2> QED BY <1>1, <2>9 DEF Typed
<1>4. CASE pending' \in {pending, None}
  <2> HIDE DEF command
  <2> QED BY <1>1, <1>4, TypedKept
<1> QED BY <1>2, <1>3, <1>4

LEMMA TypedStep ==
  ASSUME Phase, DownloadInv, Visited, Typed, [Next]_vars
  PROVE  Typed'
<1>0. pointer \in Addresses \cup {0} /\ last_erased_page \in {NoPage} \cup Addresses
  BY DEF Typed
<1>k. ASSUME tried \subseteq tried', pending' \in {pending, None}, UNCHANGED pointer,
             last_erased_page' \in {last_erased_page, NoPage}
      PROVE  Typed'
  BY <1>0, <1>k, TypedKept
<1>1. ASSUME NEW n \in DOMAIN Files, Start(n) PROVE Typed'
  BY <1>1, <1>k DEF Start
<1>2. CASE AskStatus \/ ClearStatus \/ AbortPrevious \/ AbortToIdle
  BY <1>2, <1>k DEF AskStatus, ClearStatus, AbortPrevious, AbortToIdle, GetStatus, Abort, Refused,
                    hostVars, historyVars
<1>3. CASE dfuse_do_dnload \/ NextElement \/ FinalReset
  BY <1>3, <1>k DEF dfuse_do_dnload, reset_dfuse_globals, NextElement, FinalReset,
                    hostVars, historyVars
<1>4. CASE PollErase \/ PollAddress \/ PollChunk \/ CheckIdle
  BY <1>4, <1>k DEF PollErase, PollAddress, PollChunk, CheckIdle, Poll, GetStatus, Refused,
                    reset_dfuse_globals, hostVars, historyVars
<1>5. CASE Execute
  <2>1. /\ UNCHANGED << tried, last_erased_page >> /\ pending' = None /\ pending # None
        /\ pointer' \in {pointer, IF pending.name = "address" THEN pending.at ELSE pointer}
    BY <1>5 DEF Execute, hostVars, historyVars
  <2>2. pending.name = "address" => pending.at \in Addresses
    BY <2>1 DEF Typed, Commanded, Command
  <2> QED BY <1>0, <2>1, <2>2, TypedKept
<1>6. CASE Unplug
  BY <1>0, <1>6, TypedKept DEF Unplug, hostVars, historyVars
<1>7. CASE UNCHANGED vars
  BY <1>7, <1>k DEF vars, hostVars, historyVars
<1> QED BY <1>1, <1>2, <1>3, <1>4, <1>5, <1>6, <1>7, TypedErase, TypedSetAddress, TypedChunk
           DEF Next, Host

-----------------------------------------------------------------------------
(* What is written stays written.                                           *)

\* The second pass has been here.
Wrought(i, x) ==
  \/ i < elem
  \/ /\ i = elem /\ pc \in Pass2
     /\ x < address \/ (pc = "writing" /\ pending = None /\ x <= last_byte)

InPlace ==
  \A i \in Targets(file) : \A x \in Bytes(Element(file, i)) :
    Wrought(i, x) => flash[x] = ByteFor(file, i, x)

Written == Alive /\ Ascending(file) => InPlace

\* Numbers: what lies before the next chunk lies before this one, or in it.
LEMMA BehindChunk ==
  ASSUME NEW a \in Nat, NEW q \in Nat, NEW c \in Nat, NEW n \in Nat, NEW size \in Nat,
         NEW x \in Nat, c = n \/ q + c = size, x <= a + size - 1, x < a + (q + n)
  PROVE  x <= (a + q) + c - 1
<1>1. CASE c = n
  BY <1>1
<1>2. CASE q + c = size
  BY <1>2
<1> QED BY <1>1, <1>2

\* No step of the host adds to it but by leaving a chunk that is done.
LEMMA WroughtMove ==
  ASSUME Where, Where', Move, pc \in Loops, pc' \in Loops,
         NEW i \in Targets(file), NEW x \in Bytes(Element(file, i)), Wrought(i, x)'
  PROVE  file' = file /\ Wrought(i, x)
<1>1. file \in DOMAIN Files /\ elem \in Nat /\ p \in Nat
  <2>1. pc # "closed"
    BY Classes
  <2> QED BY <2>1 DEF Where
<1>2. i \in Nat
  BY <1>1, FileType
<1>a. ASSUME pc' \notin Pass2, elem' = elem, file' = file PROVE file' = file /\ Wrought(i, x)
  BY <1>a DEF Wrought
<1>3. CASE Stays
  BY <1>3, HostAtRest DEF Stays, Wrought
<1>4. CASE Away \/ Enters \/ Ends \/ Closes
  BY <1>4, Classes DEF Away, Enters, Ends, Closes
<1>5. CASE Passes
  <2>1. i < elem + 1 /\ i # elem
    BY <1>5, Classes DEF Passes, Wrought
  <2> QED BY <1>1, <1>2, <1>5, <2>1 DEF Passes, Wrought
<1>6. CASE Opens \/ Skips \/ Begins
  BY <1>6, <1>a, Classes DEF Opens, Skips, Begins
<1>7. CASE Steps
  BY <1>7, <1>a, Classes DEF Steps
<1>8. CASE Finishes
  <2>1. i < elem + 1 /\ pc \in Pass2 /\ p >= e.size
    BY <1>8, Classes DEF Finishes, Wrought
  <2>2. CASE i = elem
    <3>1. x \in Bytes(e)
      BY <2>2 DEF e
    <3>2. x < address
      BY <2>1, <3>1, ElementType
    <3> QED BY <1>8, <2>1, <2>2, <3>2 DEF Finishes, Wrought
  <2>3. CASE i # elem
    BY <1>1, <1>2, <1>8, <2>1, <2>3 DEF Finishes, Wrought
  <2> QED BY <2>2, <2>3
<1>9. CASE Turns
  <2>1. /\ pc \in Pass1 /\ pc' \in Pass2 /\ pc' # "writing" /\ p' = 0
        /\ UNCHANGED << file, elem >>
    BY <1>9, Classes DEF Turns
  <2>2. CASE i = elem
    <3>1. x \in Bytes(e)
      BY <2>2 DEF e
    <3>2. e.address \in Nat /\ e.size \in Nat /\ Bytes(e) = e.address .. e.address + e.size - 1
      BY <2>1, ElementType
    <3>3. e' = e /\ address' = e'.address + p'
      BY <2>1 DEF e, Element, address
    <3>4. ~(x < address')
      BY <2>1, <3>1, <3>2, <3>3
    <3>5. ~(elem' < elem')
      BY <1>1, <2>1
    <3> QED BY <2>1, <2>2, <3>4, <3>5 DEF Wrought
  <2>3. CASE i # elem
    BY <2>1, <2>3 DEF Wrought
  <2> QED BY <2>2, <2>3
<1>10. CASE Points \/ Pointed \/ Sends
  <2>1. /\ pc \in Pass2 /\ pc' \in Pass2 /\ UNCHANGED << file, elem, p >>
        /\ pc' = "writing" => pending' # None
    BY <1>10, Classes DEF Points, Pointed, Sends, Command, None
  <2>2. address' = address
    BY <2>1 DEF address, e, Element
  <2> QED BY <2>1, <2>2 DEF Wrought
<1>11. CASE Wrote
  <2>1. /\ pc = "writing" /\ pc \in Pass2 /\ pc' = "writes" /\ pending = None
        /\ p' = p + XferSize /\ p < e.size
        /\ UNCHANGED << file, elem >>
    BY <1>11, Classes DEF Wrote, Where
  <2>2. CASE i < elem
    BY <2>1, <2>2 DEF Wrought
  <2>3. CASE i = elem /\ x < address'
    <3>1. /\ e.address \in Nat /\ e.size \in Nat /\ address = e.address + p
          /\ x \in e.address .. e.address + e.size - 1
      <4>1. x \in Bytes(e)
        BY <2>3 DEF e
      <4> QED BY <2>1, <4>1, ElementType
    <3>2. /\ chunk_size \in Nat /\ (chunk_size = XferSize \/ p + chunk_size = e.size)
          /\ last_byte = address + chunk_size - 1
      BY <2>1, Chunks
    <3>3. address' = e.address + (p + XferSize)
      BY <2>1 DEF address, e, Element
    <3>4. XferSize \in Nat
      BY LayoutAssumption
    <3>5. x <= last_byte
      <4> DEFINE a == e.address
                 c == chunk_size
                 size == e.size
                 n == XferSize
      <4>1. /\ a \in Nat /\ p \in Nat /\ c \in Nat /\ n \in Nat /\ size \in Nat /\ x \in Nat
            /\ c = n \/ p + c = size
            /\ x <= a + size - 1 /\ x < a + (p + n)
        BY <1>1, <2>3, <3>1, <3>2, <3>3, <3>4
      <4>2. last_byte = (a + p) + c - 1
        BY <3>1, <3>2
      <4> HIDE DEF a, c, size, n
      <4>3. x <= (a + p) + c - 1
        BY ONLY <4>1, BehindChunk
      <4> QED BY <4>2, <4>3
    <3> QED BY <2>1, <2>3, <3>5 DEF Wrought
  <2> QED BY <2>1, <2>2, <2>3 DEF Wrought
<1> QED BY <1>3, <1>4, <1>5, <1>6, <1>7, <1>8, <1>9, <1>10, <1>11 DEF Move

\* Before the first command there is nothing to keep.
LEMMA NothingWrought ==
  ASSUME Where, Untouched, pc \in Loops,
         NEW i \in Targets(file), NEW x \in Bytes(Element(file, i))
  PROVE  ~Wrought(i, x)
<1>1. file \in DOMAIN Files
  <2>1. pc # "closed"
    BY Classes
  <2> QED BY <2>1 DEF Where
<1>2. i \in Nat /\ Element(file, i).address \in Nat /\ Element(file, i).size \in Nat
  BY <1>1, FileType
<1>3. ~(i < elem)
  <2> SUFFICES ASSUME i < elem PROVE FALSE
    OBVIOUS
  <2>1. Element(file, i).size = 0
    BY DEF Untouched
  <2> QED BY <1>2, <2>1 DEF Bytes
<1>4. ASSUME i = elem, pc \in Pass2, x < address PROVE FALSE
  <2>1. p = 0 /\ x \in Bytes(e)
    BY <1>4, Classes DEF Untouched, e
  <2>2. /\ e.address \in Nat /\ e.size \in Nat /\ address = e.address + p
        /\ Bytes(e) = e.address .. e.address + e.size - 1
    BY <1>4, ElementType
  <2> QED BY <1>4, <2>1, <2>2
<1>5. pc # "writing"
  BY DEF Untouched
<1> QED BY <1>3, <1>4, <1>5 DEF Wrought

\* The bytes that a command of data is about.
LEMMA ChunkInHand ==
  ASSUME Where, Pend, pc = "writing", pointer = address, pending = Command("data", 0, Chunk),
         NEW x \in Addresses
  PROVE  /\ x \in Affected => x \in Bytes(e)
         /\ x \in Affected <=> address <= x /\ x <= last_byte
         /\ x \in Affected => Done[x] = ByteFor(file, elem, x)
<1>1. p < e.size /\ pc \in Pass2
  BY Classes DEF Where
<1>2. /\ chunk_size \in Nat /\ address \in Nat /\ last_byte = address + chunk_size - 1
      /\ p + chunk_size <= e.size
  BY <1>1, Chunks
<1>3. /\ e.address \in Nat /\ e.size \in Nat /\ p \in Nat /\ address = e.address + p
      /\ Bytes(e) = e.address .. e.address + e.size - 1
  BY <1>1, ElementType
<1>4. pending.name = "data" /\ Len(pending.bytes) = chunk_size /\ pending.bytes = Chunk
  BY <1>1, ChunkBytes DEF Command
<1>5. x \in Nat
  BY OnPage
<1>6. x \in Affected <=> address <= x /\ x <= last_byte
  BY <1>2, <1>4, <1>5 DEF Affected
<1>7. ASSUME x \in Affected PROVE x \in Bytes(e)
  <2>1. x <= e.address + p + chunk_size - 1 /\ e.address <= x
    BY <1>2, <1>3, <1>5, <1>6, <1>7
  <2>2. x <= e.address + e.size - 1
    BY <1>2, <1>3, <1>5, <2>1, WithinElement
  <2> QED BY <1>3, <1>5, <2>1, <2>2
<1>8. ASSUME x \in Affected PROVE Done[x] = ByteFor(file, elem, x)
  <2>1. x \in Addresses \cap (pointer .. pointer + Len(pending.bytes) - 1)
    BY <1>2, <1>4, <1>5, <1>6, <1>8
  <2>2. Erasable(x) => flash[x] = Blank
    BY <1>4, <2>1 DEF Pend
  <2>3. Done[x] = Chunk[x - address + 1]
    BY <1>4, <1>8, <2>2 DEF Done, Stored
  <2>4. x - address + 1 \in 1..chunk_size
    BY <1>2, <1>5, <1>6, <1>8
  <2>5. Chunk[x - address + 1] = ByteFor(file, elem, address + (x - address + 1) - 1)
    BY <2>4 DEF Chunk
  <2>6. address + (x - address + 1) - 1 = x
    BY <1>2, <1>5
  <2> QED BY <2>3, <2>5, <2>6
<1> QED BY <1>6, <1>7, <1>8

LEMMA WrittenExecute ==
  ASSUME DownloadInv, Visited, Clear, Written, Execute, Alive', Ascending(file')
  PROVE  InPlace'
<1>1. /\ UNCHANGED << pc, file, elem, p, scan, last_erased_page, linked >>
      /\ dstate = "dnBusy" /\ pending # None /\ pending' = None
      /\ Where /\ Scanned /\ Pend /\ Progress
  BY DEF Execute, hostVars, loopVars, historyVars, DownloadInv
<1>2. flash' = Done
  BY DEF Execute, Alive
<1>3. Alive /\ pc \in Loops
  BY <1>1 DEF Alive
<1>4. InPlace /\ Ascending(file)
  BY <1>1, <1>3 DEF Written
<1>5. address' = address /\ last_byte' = last_byte
  BY <1>1, HostAtRest
<1>6. file \in DOMAIN Files /\ elem \in Nat
  BY <1>1, <1>3, Classes DEF Where
<1> SUFFICES ASSUME NEW i \in Targets(file), NEW x \in Bytes(Element(file, i)), Wrought(i, x)'
             PROVE  flash'[x] = ByteFor(file, i, x)
  BY <1>1 DEF InPlace
<1>7. /\ i \in Nat /\ Element(file, i).address \in Nat /\ Element(file, i).size \in Nat
      /\ Bytes(Element(file, i)) =
           Element(file, i).address .. Element(file, i).address + Element(file, i).size - 1
  BY <1>6, FileType DEF Bytes
<1>8. x \in Addresses
  <2>1. CASE i < elem
    BY <1>3, <2>1 DEF Visited
  <2>2. CASE i = elem /\ pc \in Pass2
    BY <2>2 DEF Visited, e
  <2> QED BY <1>1, <2>1, <2>2 DEF Wrought
<1>9. ASSUME Wrought(i, x), x \notin Affected PROVE flash'[x] = ByteFor(file, i, x)
  BY <1>2, <1>4, <1>8, <1>9 DEF InPlace, Done
<1>10. CASE Untouched
  <2>1. ~Wrought(i, x)
    BY <1>1, <1>3, <1>10, NothingWrought
  <2>2. pc # "writing"
    BY <1>10 DEF Untouched
  <2> QED BY <1>1, <1>5, <2>1, <2>2 DEF Wrought
<1>11. CASE Under
  <2>1. pc \in {"erasing", "addressing", "writing"}
    BY <1>1, <1>3, <1>11 DEF Under, Loops, Pass1, Pass2
  <2>2. CASE pc = "erasing"
    <3>1. i < elem
      BY <1>1, <2>2 DEF Wrought, Pass2
    <3>2. Wrought(i, x) /\ Used(x)
      BY <3>1 DEF Wrought, Used
    <3>3. x \notin Page(EraseAddress)
      BY <1>4, <2>2, <3>2 DEF Clear
    <3>4. pending = Command("erase", EraseAddress, << >>)
      BY <1>1, <1>11, <2>2 DEF Under
    <3>5. Affected = Page(EraseAddress)
      BY <3>4 DEF Affected, Command
    <3> QED BY <1>9, <3>2, <3>3, <3>5
  <2>3. CASE pc = "addressing"
    <3>1. Wrought(i, x)
      BY <1>1, <1>5, <2>3 DEF Wrought
    <3>2. pending = Command("address", address, << >>)
      BY <1>1, <1>11, <2>3 DEF Under
    <3>3. x \notin Affected
      BY <3>2 DEF Affected, Command
    <3> QED BY <1>9, <3>1, <3>3
  <2>4. CASE pc = "writing"
    <3>1. pointer = address /\ pending = Command("data", 0, Chunk)
      BY <1>1, <1>11, <2>4 DEF Under
    <3>2. /\ x \in Affected => x \in Bytes(e)
          /\ x \in Affected <=> address <= x /\ x <= last_byte
          /\ x \in Affected => Done[x] = ByteFor(file, elem, x)
      BY <1>1, <1>8, <2>4, <3>1, ChunkInHand
    <3>3. /\ elem \in Targets(file) /\ e.address \in Nat /\ e.size \in Nat
          /\ Bytes(e) = e.address .. e.address + e.size - 1
      <4>1. pc \in Pass2
        BY <2>4, Classes
      <4> QED BY <1>1, <4>1, ElementType
    <3>4. CASE i < elem
      <4>1. Element(file, i).address + Element(file, i).size <= e.address
        BY <1>4, <3>3, <3>4 DEF Ascending, e
      <4>2. x \notin Bytes(e)
        BY <1>7, <3>3, <4>1
      <4>3. Wrought(i, x)
        BY <3>4 DEF Wrought
      <4> QED BY <1>9, <3>2, <4>2, <4>3
    <3>5. CASE i = elem /\ x \in Affected
      BY <1>2, <3>2, <3>5
    <3>6. CASE i = elem /\ x \notin Affected
      <4>1. x < address
        <5>1. x < address \/ x <= last_byte
          BY <1>1, <1>5, <3>6, <1>6 DEF Wrought
        <5>2. address \in Nat /\ x \in Nat
          <6>1. pc \in Pass2 /\ p < e.size
            BY <1>1, <2>4, Classes DEF Where
          <6> QED BY <1>1, <1>7, <6>1, Chunks
        <5> QED BY <3>2, <3>6, <5>1, <5>2
      <4>2. Wrought(i, x)
        BY <2>4, <3>6, <4>1, Classes DEF Wrought
      <4> QED BY <1>9, <3>6, <4>2
    <3>7. i < elem \/ i = elem
      BY <1>1 DEF Wrought
    <3> QED BY <3>4, <3>5, <3>6, <3>7
  <2> QED BY <2>1, <2>2, <2>3, <2>4
<1> QED BY <1>1, <1>3, <1>10, <1>11 DEF Progress

LEMMA WrittenStep ==
  ASSUME DownloadInv, DownloadInv', Visited, Clear, Written, [Next]_vars
  PROVE  Written'
<1> SUFFICES ASSUME Alive', Ascending(file') PROVE InPlace'
  BY DEF Written
<1>1. Where /\ Where' /\ pc' \in Loops
  BY DEF DownloadInv, Alive
<1>2. CASE Execute
  BY <1>2, WrittenExecute
<1>3. CASE Unplug
  BY <1>3 DEF Unplug, Alive
<1>4. CASE HostStep /\ pc \in Loops
  <2>1. Alive /\ Move /\ flash' = flash
    BY <1>4 DEF HostStep
  <2>2. CASE file' = file
    <3>1. InPlace
      BY <2>1, <2>2 DEF Written
    <3>2. ASSUME NEW i \in Targets(file), NEW x \in Bytes(Element(file, i)), Wrought(i, x)'
          PROVE  flash'[x] = ByteFor(file, i, x)
      <4>1. Wrought(i, x)
        BY <1>1, <1>4, <2>1, <3>2, WroughtMove
      <4> QED BY <2>1, <3>1, <4>1 DEF InPlace
    <3> QED BY <2>2, <3>2 DEF InPlace
  <2>3. file' = file
    BY <1>1, <1>4, <2>1, Classes
       DEF Move, Stays, Away, Enters, Passes, Opens, Finishes, Skips, Begins, Steps, Turns,
           Points, Pointed, Sends, Wrote, Ends, Closes
  <2> QED BY <2>2, <2>3
<1>5. CASE HostStep /\ pc \notin Loops
  <2>1. Enters
    BY <1>1, <1>5, Classes
       DEF HostStep, Move, Stays, Away, Enters, Passes, Opens, Finishes, Skips, Begins, Steps,
           Turns, Points, Pointed, Sends, Wrote, Ends, Closes
  <2>2. \A i \in Targets(file) : ~(i < 1)
    BY <2>1, FileType DEF Enters
  <2>3. pc' \notin Pass2 /\ file' = file /\ elem' = 1
    BY <2>1, Classes DEF Enters
  <2> QED BY <2>2, <2>3 DEF InPlace, Wrought
<1> QED BY <1>2, <1>3, <1>4, <1>5, Moves

-----------------------------------------------------------------------------
(* What is in place at the end stays, until the reset.                      *)

\* Nothing was sent for a file without bytes: a command of an earlier attempt may
\* still be under way.
Kept ==
  /\ pc \in {"leaves", "idling"} /\ linked /\ dstate # "error" =>
       \/ \A i \in Targets(file) : Element(file, i).size = 0
       \/ pending = None /\ (Ascending(file) => Holds(flash, file))
  /\ pc = "resets" /\ Ascending(file) => Holds(flash, file)

LEMMA NothingToHold ==
  ASSUME file \in DOMAIN Files, \A i \in Targets(file) : Element(file, i).size = 0
  PROVE  Holds(flash, file)
<1>1. \A i \in Targets(file) : Bytes(Element(file, i)) = {}
  <2> SUFFICES ASSUME NEW i \in Targets(file) PROVE Bytes(Element(file, i)) = {}
    OBVIOUS
  <2>1. Element(file, i).address \in Nat /\ Element(file, i).size = 0
    BY FileType
  <2> QED BY <2>1 DEF Bytes
<1> QED BY <1>1 DEF Holds

LEMMA KeptStep ==
  ASSUME Phase, DownloadInv, Visited, Visited', Written, Kept, [Next]_vars
  PROVE  Kept'
<1>1. CASE pc' \notin Closing
  BY <1>1, Classes DEF Kept
<1>2. CASE Execute
  <2>1. /\ UNCHANGED << pc, file, linked >> /\ dstate = "dnBusy" /\ pending # None
    BY <1>2 DEF Execute, hostVars, historyVars
  <2>2. pc # "resets"
    BY <2>1 DEF Phase
  <2> QED BY <2>1, <2>2 DEF Kept
<1>3. CASE Unplug
  <2>1. UNCHANGED << pc, file >> /\ linked' = FALSE
    BY <1>3 DEF Unplug, hostVars, historyVars
  <2>2. pc = "resets" => flash' = flash
    BY <1>3 DEF Unplug, Phase
  <2> QED BY <2>1, <2>2 DEF Kept
<1>4. CASE Stays /\ UNCHANGED flash /\ pc' \in Closing
  BY <1>4 DEF Stays, Kept
<1>5. CASE Ends /\ UNCHANGED flash
  <2>1. /\ pc = "element" /\ pc' = "leaves" /\ pc \in Loops /\ pc' \in Closing
        /\ UNCHANGED << file, elem, linked, dstate, pending >>
    BY <1>5, Classes DEF Ends
  <2>2. \A i \in Targets(file) : i < elem
    BY <2>1 DEF Visited
  <2> SUFFICES ASSUME linked, dstate # "error"
               PROVE  \/ \A i \in Targets(file) : Element(file, i).size = 0
                      \/ pending = None /\ (Ascending(file) => Holds(flash, file))
    BY <1>5, <2>1 DEF Kept
  <2>3. Alive
    BY <2>1 DEF Alive
  <2>4. CASE Untouched
    BY <2>2, <2>4 DEF Untouched
  <2>5. CASE Under
    <3>1. pending = None
      BY <2>1, <2>5 DEF Under
    <3>2. Ascending(file) => InPlace
      BY <2>3 DEF Written
    <3>3. Ascending(file) => Holds(flash, file)
      BY <2>2, <3>2 DEF InPlace, Wrought, Holds
    <3> QED BY <3>1, <3>3
  <2> QED BY <2>3, <2>4, <2>5 DEF DownloadInv, Progress
<1>6. CASE Closes /\ UNCHANGED flash
  <2>1. /\ pc \in {"leaves", "idling"} /\ linked /\ dstate # "error"
        /\ pending' \in {pending, None} /\ UNCHANGED file
        /\ file \in DOMAIN Files
    BY <1>6, HostTypes DEF Closes
  <2>2. \/ \A i \in Targets(file) : Element(file, i).size = 0
        \/ pending = None /\ (Ascending(file) => Holds(flash, file))
    BY <2>1 DEF Kept
  <2>3. Ascending(file) => Holds(flash, file)
    BY <2>1, <2>2, NothingToHold
  <2> QED BY <1>6, <2>1, <2>2, <2>3 DEF Kept
<1> QED BY <1>1, <1>2, <1>3, <1>4, <1>5, <1>6, Moves, Classes
           DEF HostStep, Move, Away, Enters, Passes, Opens, Finishes, Skips, Begins, Steps,
               Turns, Points, Pointed, Sends, Wrote

-----------------------------------------------------------------------------
(* All of it.                                                               *)

ImageInv ==
  /\ DownloadInv /\ Phase /\ Visited /\ Tracked /\ Clear /\ Typed /\ Written /\ Kept

LEMMA ImageInit == Init => ImageInv
<1> SUFFICES ASSUME Init PROVE ImageInv
  OBVIOUS
<1>1. DownloadInv
  BY Establishes
<1>2. Phase
  BY Classes DEF Init, Phase, States, Running
<1>3. /\ pc \notin Loops \cup Closing \cup Pass1 \cup Pass2
      /\ pc \notin {"erasing", "leaves", "idling", "resets"}
  BY Classes DEF Init
<1>4. Visited /\ Tracked /\ Clear /\ Written /\ Kept
  BY <1>3 DEF Visited, Tracked, Clear, Written, Alive, Kept
<1>5. Typed
  BY DEF Init, Typed, Commanded
<1> QED BY <1>1, <1>2, <1>4, <1>5 DEF ImageInv

LEMMA ImageKept ==
  ASSUME Apart, Solid, \A n \in DOMAIN Files : Disjoint(n), ImageInv, [Next]_vars
  PROVE  ImageInv'
<1>1. DownloadInv'
  BY Preserves DEF ImageInv
<1>2. Phase' /\ Typed'
  BY PhaseStep, TypedStep DEF ImageInv
<1>3. Visited'
  BY <1>1, VisitedStep DEF ImageInv
<1>4. Tracked' /\ Clear'
  BY <1>1, TrackedStep, ClearStep DEF ImageInv
<1>5. Written'
  BY <1>1, WrittenStep DEF ImageInv
<1>6. Kept'
  BY <1>3, KeptStep DEF ImageInv
<1> QED BY <1>1, <1>2, <1>3, <1>4, <1>5, <1>6 DEF ImageInv

-----------------------------------------------------------------------------
(* The layout and the files of FlashImage are those of this module.         *)

LEMMA SameEnd == \A region, i : Image!End(region, i) = End(region, i)
  BY DEF Image!End, End

LEMMA SameLayout == Image!Layout = Layout
<1>1. \A group : Image!Skipped(group) <=> Skipped(group)
  BY DEF Image!Skipped, Skipped
<1>2. \A region : Image!Complete(region) <=> Complete(region)
  BY <1>1 DEF Image!Complete, Complete
<1>3. \A region, i : Image!Segment(region, i) = Segment(region, i)
  BY SameEnd DEF Image!Segment, Segment
<1> QED BY <1>1, <1>2, <1>3 DEF Image!Layout, Layout

LEMMA SameAddresses == Image!Addresses = Addresses
  BY SameLayout DEF Image!Addresses, Addresses

LEMMA SameFiles ==
  /\ \A n, i : Image!Element(n, i) = Element(n, i)
  /\ \A n : Image!Targets(n) = Targets(n)
  /\ \A x : Image!Bytes(x) = Bytes(x)
<1>1. \A n, i : Image!Element(n, i) = Element(n, i)
  BY DEF Image!Element, Element
<1> QED BY <1>1 DEF Image!Targets, Targets, Image!Bytes, Bytes

LEMMA SameHolds ==
  /\ \A n : Image!Ascending(n) <=> Ascending(n)
  /\ \A n : Image!Holds(flash, n) <=> Holds(flash, n)
<1>1. \A n, i, a : Image!ByteFor(n, i, a) = ByteFor(n, i, a)
  BY SameFiles DEF Image!ByteFor, ByteFor
<1> QED BY <1>1, SameFiles DEF Image!Ascending, Ascending, Image!Holds, Holds

LEMMA SameRegion == \A n : Image!Region(n) = Region(n)
<1>1. \A a : Image!find_segment(a) = find_segment(a)
  BY SameLayout DEF Image!find_segment, find_segment, Image!Maps, Maps, Image!NoSegment, NoSegment
<1>2. \A a : Image!Page(a) = Page(a)
  BY <1>1, SameAddresses DEF Image!Page, Page, Image!Maps, Maps, Image!PageStart, PageStart
<1> QED BY <1>2, SameFiles DEF Image!Region, Region

-----------------------------------------------------------------------------
(* The program does what FlashImage allows.                                 *)

\* A command affects nothing but the pages of the files that were tried.
LEMMA AffectedTouched ==
  ASSUME Typed, NEW a \in Addresses \ Touched
  PROVE  a \notin Affected
<1>1. CASE pending = None
  BY <1>1 DEF Affected, None, Command
<1>2. ASSUME NEW at \in Addresses, pending = Command("erase", at, << >>), Page(at) \subseteq Touched
      PROVE  a \notin Affected
  BY <1>2 DEF Affected, Command
<1>3. ASSUME NEW at \in Addresses, pending = Command("address", at, << >>)
      PROVE  a \notin Affected
  BY <1>3 DEF Affected, Command
<1>4. ASSUME NEW bytes, pending = Command("data", 0, bytes),
             Addresses \cap (pointer .. pointer + Len(bytes) - 1) \subseteq Touched
      PROVE  a \notin Affected
  <2>1. pending.name = "data" /\ pending.bytes = bytes
    BY <1>4 DEF Command
  <2>2. Affected = Addresses \cap (pointer .. pointer + Len(bytes) - 1)
    BY <2>1 DEF Affected
  <2> QED BY <1>4, <2>2
<1> QED BY <1>1, <1>2, <1>3, <1>4 DEF Typed, Commanded

\* The outcome that the user sees.
Shown == IF outcome = "lost" THEN "failed" ELSE outcome

LEMMA ImageTouch ==
  ASSUME Phase, Typed, dstate = "dnBusy", flash' \in {Done, Torn},
         UNCHANGED << outcome, file, tried >>
  PROVE  Image!Touch
<1>1. Shown \in {"running", "failed"}
  <2>1. pc # "closed"
    BY DEF Phase
  <2> QED BY <2>1 DEF Phase, Shown
<1>2. ASSUME NEW a \in Addresses \ Touched PROVE flash'[a] = flash[a]
  BY <1>2, AffectedTouched DEF Done, Torn
<1>3. Touched = UNION {Image!Region(n) : n \in tried}
  BY SameRegion DEF Touched
<1>4. Shown' = Shown
  BY DEF Shown
<1> QED BY <1>1, <1>2, <1>3, <1>4, SameAddresses DEF Image!Touch, Shown

LEMMA ImageStep ==
  ASSUME ImageInv, [Next]_vars
  PROVE  [Image!Next]_(Image!vars)
<1>1. Phase /\ Typed /\ Kept
  BY DEF ImageInv
<1>2. ASSUME UNCHANGED << flash, outcome, file, tried >> PROVE UNCHANGED Image!vars
  BY <1>2 DEF Image!vars
<1>3. ASSUME NEW n \in DOMAIN Files, Start(n) PROVE Image!Next
  <2>1. /\ pc \in {"closed", "exited"}
        /\ outcome' = "running" /\ file' = n /\ tried' = tried \cup {n} /\ UNCHANGED flash
    BY <1>3 DEF Start
  <2>2. Shown # "running" /\ Shown' = "running"
    BY <1>1, <2>1 DEF Phase, Shown
  <2>3. Image!Begin(n)
    BY <2>1, <2>2 DEF Image!Begin, Shown
  <2> QED BY <2>3 DEF Image!Next
<1>4. ASSUME UNCHANGED << flash, file, tried >>, outcome = "running", outcome' \in {"failed", "lost"}
      PROVE  Image!Next
  <2>1. Shown = "running" /\ Shown' = "failed"
    BY <1>4 DEF Shown
  <2>2. Image!Fail
    BY <1>4, <2>1 DEF Image!Fail, Shown
  <2> QED BY <2>2 DEF Image!Next
<1>5. CASE Host /\ ~FinalReset
  <2>1. Within
    BY <1>1, <1>5, HostWithin
  <2>2. outcome = "running" /\ UNCHANGED << flash, file, tried >>
        /\ outcome' \in {outcome, "failed", "lost"}
    BY <1>1, <2>1 DEF Within, Phase
  <2> QED BY <1>2, <1>4, <2>2
<1>6. CASE FinalReset
  <2>1. /\ pc = "resets" /\ UNCHANGED << flash, file, tried >>
        /\ outcome' = "done" \/ outcome' \in {"failed", "lost"}
    BY <1>6 DEF FinalReset, historyVars, Quit
  <2>2. pc \in Running /\ pc \in Closing
    BY <2>1, RunningSet, Classes
  <2>3. outcome = "running" /\ Files[file].dfuse
    BY <1>1, <2>2 DEF Phase
  <2>4. CASE outcome' = "done"
    <3>1. Ascending(file) => Holds(flash, file)
      BY <1>1, <2>1 DEF Kept
    <3>2. Shown = "running" /\ Shown' = "done"
      BY <2>3, <2>4 DEF Shown
    <3>3. Image!Succeed
      BY <2>1, <2>3, <3>1, <3>2, SameHolds DEF Image!Succeed, Shown
    <3> QED BY <3>3 DEF Image!Next
  <2> QED BY <1>4, <2>1, <2>3, <2>4
<1>7. CASE Execute
  <2>1. dstate = "dnBusy" /\ flash' \in {Done, Torn} /\ UNCHANGED << outcome, file, tried >>
    BY <1>7 DEF Execute, historyVars
  <2> QED BY <1>1, <2>1, ImageTouch DEF Image!Next
<1>8. CASE Unplug
  <2>1. /\ UNCHANGED << outcome, file, tried >>
        /\ flash' = flash \/ (dstate = "dnBusy" /\ flash' \in {Done, Torn})
    BY <1>8 DEF Unplug, historyVars
  <2> QED BY <1>1, <1>2, <2>1, ImageTouch DEF Image!Next
<1>9. CASE UNCHANGED vars
  BY <1>2, <1>9 DEF vars, historyVars
<1> QED BY <1>3, <1>5, <1>6, <1>7, <1>8, <1>9 DEF Next

LEMMA ImageBegins == Init => Image!Init
  BY SameAddresses DEF Init, Image!Init, Image!Old, Old

\* What the user is promised: whatever fails, and however often it is tried again,
\* nothing but the pages of the files that were tried is touched, and an attempt
\* that ends in success has put every byte of its file in place, where no other
\* attempt has to finish it.
THEOREM ImplementsImage ==
  ASSUME Apart, Solid, \A n \in DOMAIN Files : Disjoint(n)
  PROVE  Spec => UpgradeIsImage
<1>1. ImageInv /\ [Next]_vars => [Image!Next]_(Image!vars)
  BY ImageStep
<1>2. ImageInv /\ [Next]_vars => ImageInv'
  BY ImageKept
<1> QED BY <1>1, <1>2, ImageInit, ImageBegins, PTL DEF Spec, UpgradeIsImage, Image!Spec

\* The variables have their types; data that is sent comes from a file that was
\* tried, and no more of it than a transfer holds.
THEOREM DownloadTypes ==
  ASSUME Apart, Solid, \A n \in DOMAIN Files : Disjoint(n)
  PROVE  Spec => []TypeOK
<1>1. ASSUME ImageInv PROVE TypeOK
  <2>1. Where /\ Phase /\ Typed
    BY <1>1 DEF ImageInv, DownloadInv
  <2>2. /\ pc \in {"closed", "exited", "status", "clears", "aborts", "downloads", "element",
                   "erases", "erasing", "writes", "addressing", "chunk", "writing",
                   "leaves", "idling", "resets"}
        /\ outcome \in {"none", "running", "done", "failed", "lost"}
    BY <2>1, RunningSet DEF Phase
  <2>3. XferSize \in Nat
    BY LayoutAssumption
  <2>4. /\ pending.name \in {"none", "erase", "address", "data"}
        /\ pending.at \in Addresses \cup {0}
        /\ Len(pending.bytes) <= XferSize
        /\ Sourced(pending.bytes)
    <3>1. Len(<< >>) = 0 /\ DOMAIN << >> = {}
      OBVIOUS
    <3>2. CASE pending = None
      BY <2>3, <3>1, <3>2 DEF None, Command, Sourced
    <3>3. CASE \E a \in Addresses : pending = Command("erase", a, << >>)
      BY <2>3, <3>1, <3>3 DEF Command, Sourced
    <3>4. CASE \E a \in Addresses : pending = Command("address", a, << >>)
      BY <2>3, <3>1, <3>4 DEF Command, Sourced
    <3>5. ASSUME NEW bytes, pending = Command("data", 0, bytes), Len(bytes) <= XferSize,
                 Sourced(bytes)
          PROVE  /\ pending.name = "data" /\ pending.at = 0
                 /\ Len(pending.bytes) <= XferSize /\ Sourced(pending.bytes)
      <4>1. pending.name = "data" /\ pending.at = 0 /\ pending.bytes = bytes
        BY <3>5 DEF Command
      <4> QED BY <3>5, <4>1
    <3> QED BY <2>1, <3>2, <3>3, <3>4, <3>5 DEF Typed, Commanded
  <2>5. DOMAIN flash = Addresses
    BY <2>1 DEF Phase
  <2> QED BY <2>1, <2>2, <2>4, <2>5 DEF TypeOK, Where, Phase, Typed, States, Sourced
<1>2. ImageInv /\ [Next]_vars => ImageInv'
  BY ImageKept
<1> QED BY <1>1, <1>2, ImageInit, PTL DEF Spec
=============================================================================
