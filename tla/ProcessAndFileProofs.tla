------------------------ MODULE ProcessAndFileProofs -------------------------
(***************************************************************************)
(* Theorems about FileSys, for any disk, any names and lengths of files    *)
(* and any number of exits, and about Processes, for any number of         *)
(* processes and threads.                                                  *)
(*                                                                         *)
(* An operation of the file system changes the disk by up to four writes   *)
(* in the order that the code issues them, so what is on the disk is in    *)
(* order only at rest.  The invariant of the first part says which writes  *)
(* are left of a Create (Creating) and of a Remove (Removing), and that    *)
(* all files but the one that comes or goes are in order meanwhile.        *)
(***************************************************************************)
EXTENDS FileSys, Processes, QueueTheorems, FiniteSetTheorems

(***************************************************************************)
(* The file system                                                         *)
(***************************************************************************)

-----------------------------------------------------------------------------
(* The files of the entries O, all of them whole: a header outside of the    *)
(* sectors of the system, no two with a name or a sector in common, and no   *)
(* header within the data of its own file.                                   *)

Directories ==
    {d \in [Entries -> [inUse : BOOLEAN, name : Names \cup {None}, sector : Sectors]] :
        \A i \in Entries : d[i].inUse => d[i].sector \notin SystemSectors}

FileSectors == Sectors \ SystemSectors

HeadersOf(n) ==
    [kind : {"Header"}, numBytes : {n},
     dataSectors : [1..DivRoundUp(n, SectorSize) -> FileSectors]]

Headers == UNION {HeadersOf(n) : n \in Nat}

Datas == [kind : {"Bytes"}, bytes : [0..(SectorSize - 1) -> Bytes]]

Maps == {m \in SUBSET Sectors : SystemSectors \subseteq m}

SectorWriteSet == [to : {"Sector"}, sector : FileSectors, contents : Headers \cup Datas]

WriteSet ==
    SectorWriteSet \cup [to : {"FreeMap"}, map : Maps]
                   \cup [to : {"FirstHalf", "SecondHalf"}, dir : Directories]

Handles == [name : Names, hdr : Headers, seekPosition : Nat]

Shape ==
    /\ disk \in [Sectors -> Headers \cup Datas]
    /\ freeMap \in Maps
    /\ directory \in Directories
    /\ pending \in Seq(WriteSet)
    /\ fileTable \in [Ids -> {None} \cup Handles]
    /\ \A i \in Ids :
          fileTable[i] # None => fileTable[i].seekPosition <= fileTable[i].hdr.numBytes
    /\ boots \in 1..MaxBoots
    /\ aborted \in BOOLEAN

-----------------------------------------------------------------------------
InUse == {i \in Entries : directory[i].inUse}

DataOf(i) == Range(disk[directory[i].sector].dataSectors)

FileOf(i) == {directory[i].sector} \cup DataOf(i)

(* The files of the entries O are whole: each has a header outside of its    *)
(* own data, and no two have a name or a sector in common.                   *)
FilesWhole(O) ==
    \A i \in O :
       /\ disk[directory[i].sector] \in Headers
       /\ directory[i].sector \notin DataOf(i)
       /\ \A j \in O \ {i} :
             /\ directory[i].name # directory[j].name
             /\ FileOf(i) \cap FileOf(j) = {}

TakenBy(O) == {s \in Sectors : s \in SystemSectors \/ \E i \in O : s \in FileOf(i)}

(* What is open is one of them, with the header that the disk has.           *)
OpenedOf(O) ==
    \A i \in Ids : fileTable[i] # None =>
       \E e \in O : /\ directory[e].name = fileTable[i].name
                    /\ disk[directory[e].sector] = fileTable[i].hdr

OrderOf(O) == FilesWhole(O) /\ OpenedOf(O)

(* No operation, or the rest of a write of data.                             *)
Resting ==
    /\ OrderOf(InUse) /\ freeMap = TakenBy(InUse)
    /\ \A k \in DOMAIN pending :
          /\ pending[k].to = "Sector" /\ pending[k].contents \in Datas
          /\ \E e \in InUse : pending[k].sector \in DataOf(e)

First(d)  == ToDirectory(d)[1]
Second(d) == ToDirectory(d)[2]

Creates(k, sector, hdr, name, map, d) ==
    LET O == InUse \ {k} IN
    /\ OrderOf(O) /\ freeMap = TakenBy(O)
    /\ sector \in Sectors \ freeMap
    /\ Range(hdr.dataSectors) \cap freeMap = {}
    /\ sector \notin Range(hdr.dataSectors)
    /\ map = freeMap \cup {sector} \cup Range(hdr.dataSectors)
    /\ \A j \in O : directory[j].name # name
    /\ \A j \in Entries \ {k} : d[j] = directory[j]
    /\ d[k] = [inUse |-> TRUE, name |-> name, sector |-> sector]
    /\ \/ pending = <<ToSector(sector, hdr), First(d), Second(d), ToMap(map)>>
       \/ /\ disk[sector] = hdr
          /\ \/ pending = <<First(d), Second(d), ToMap(map)>>
             \/ /\ pending = <<Second(d), ToMap(map)>>
                /\ Half("SecondHalf", directory, d) = d
             \/ pending = <<ToMap(map)>> /\ directory = d

Creating ==
    \E k \in Entries, sector \in Sectors, name \in Names, map \in Maps,
      d \in Directories, hdr \in Headers : Creates(k, sector, hdr, name, map, d)

Removes(k, map, d) ==
    LET O == InUse \ {k} IN
    /\ OrderOf(O) /\ map = TakenBy(O)
    /\ \A j \in Entries \ {k} : d[j] = directory[j]
    /\ ~d[k].inUse
    /\ \/ /\ FilesWhole(InUse) /\ freeMap \subseteq TakenBy(InUse)
          /\ pending = <<ToMap(map), First(d), Second(d)>>
       \/ freeMap = map /\ pending = <<First(d), Second(d)>>
       \/ /\ freeMap = map /\ pending = <<Second(d)>>
          /\ Half("SecondHalf", directory, d) = d

Removing ==
    \E k \in Entries, map \in Maps, d \in Directories : Removes(k, map, d)

InOrder == ~aborted /\ (Resting \/ Creating \/ Removing)

Sound == Shape /\ (boots = 1 => InOrder)

-----------------------------------------------------------------------------
(* Lemmas: numbers, the free map *)

LEMMA Constants ==
    /\ NumSectors \in Nat /\ NumSectors >= 5
    /\ SectorSize \in Nat /\ SectorSize > 0 /\ NumDirEntries \in Nat
    /\ MaxBoots \in Nat /\ MaxBoots > 0
    /\ Straddling \subseteq Entries /\ SecondSector \subseteq Entries \ Straddling
    /\ Ids \subseteq Nat /\ Sizes \subseteq Nat /\ Lengths \subseteq Nat
    /\ Writings \subseteq Seq(Bytes) /\ HeaderByte \in Bytes
  BY FileSysAssumption DEF FileSysAssumption

LEMMA MinInSet ==
    ASSUME NEW S \in SUBSET Nat, S # {}
    PROVE  Min(S) \in S /\ \A y \in S : Min(S) <= y
  <1>1. \E x \in S : \A y \in S : x <= y
    BY SmallestMember
  <1> QED
    BY <1>1 DEF Min

LEMMA MinOfTwo ==
    ASSUME NEW a \in Int, NEW b \in Int
    PROVE  Min({a, b}) \in Int /\ Min({a, b}) <= a /\ Min({a, b}) <= b /\ Min({a, b}) \in {a, b}
  <1>1. \E x \in {a, b} : \A y \in {a, b} : x =< y
    OBVIOUS
  <1> QED
    BY <1>1 DEF Min

LEMMA SectorsFinite ==
    /\ IsFiniteSet(Sectors) /\ Cardinality(Sectors) = NumSectors
    /\ Sectors \subseteq Nat /\ Entries \subseteq Nat
    /\ \A map : IsFiniteSet(Sectors \ map) /\ NumClear(map) \in Nat
  <1>1. IsFiniteSet(Sectors) /\ Cardinality(Sectors) = NumSectors
    BY Constants, FS_Interval DEF Sectors
  <1>2. ASSUME NEW map PROVE IsFiniteSet(Sectors \ map) /\ NumClear(map) \in Nat
    <2>1. IsFiniteSet(Sectors \ map)
      BY <1>1, FS_Subset
    <2> QED
      BY <2>1, FS_CardinalityType DEF NumClear
  <1> QED
    BY <1>1, <1>2, Constants DEF Sectors, Entries

LEMMA BelowIs ==
    ASSUME NEW map, NEW s \in Nat
    PROVE  /\ IsFiniteSet(ClearBelow(map, s)) /\ Cardinality(ClearBelow(map, s)) \in Nat
           /\ \A r : r \in ClearBelow(map, s) <=> r \in Sectors \ map /\ r < s
  <1>1. ClearBelow(map, s) \in SUBSET (Sectors \ map)
    BY DEF ClearBelow
  <1>2. IsFiniteSet(ClearBelow(map, s))
    BY <1>1, SectorsFinite, FS_Subset
  <1> QED
    BY <1>2, FS_CardinalityType DEF ClearBelow

(* There is a k-th clear sector as long as k sectors are clear. *)
LEMMA ClearSector ==
    ASSUME NEW map, NEW k \in 1..NumClear(map)
    PROVE  \E s \in Sectors \ map : Cardinality(ClearBelow(map, s)) = k - 1
  <1> DEFINE A   == Sectors \ map
             Bad == {j \in 1..NumClear(map) : ~\E s \in A : Cardinality(ClearBelow(map, s)) = j - 1}
  <1>1. IsFiniteSet(A) /\ NumClear(map) \in Nat /\ A \in SUBSET Nat /\ Cardinality(A) = NumClear(map)
    BY SectorsFinite DEF NumClear
  <1>2. \A s \in A : \A r : r \in ClearBelow(map, s) <=> r \in A /\ r < s
    BY <1>1, BelowIs
  <1> SUFFICES ASSUME Bad # {} PROVE FALSE
    OBVIOUS
  <1>3. PICK j \in Bad : \A i \in Bad : j <= i
    <2>1. Bad \in SUBSET Nat
      BY <1>1
    <2> QED
      BY <2>1, SmallestMember
  <1>4. j \in 1..NumClear(map) /\ \A s \in A : Cardinality(ClearBelow(map, s)) # j - 1
    BY <1>3
  <1>5. j - 1 \in 1..NumClear(map) => \E s \in A : Cardinality(ClearBelow(map, s)) = j - 2
    <2>1. SUFFICES ASSUME j - 1 \in 1..NumClear(map)
                   PROVE  j - 1 \notin Bad
      BY <1>1, <1>4
    <2> QED
      BY <1>1, <1>3, <1>4
  <1> HIDE DEF A, Bad
  <1>6. CASE j = 1
    <2>1. A # {}
      BY <1>1, <1>4, <1>6, FS_EmptySet
    <2>2. PICK s \in A : \A r \in A : s <= r
      BY <1>1, <2>1, SmallestMember
    <2>3. \A r \in A : ~(r < s)
      BY <1>1, <2>2
    <2>4. ClearBelow(map, s) = {}
      BY <1>2, <2>3
    <2> QED
      BY <1>4, <1>6, <2>4, FS_EmptySet
  <1>7. CASE j # 1
    <2>1. PICK s \in A : Cardinality(ClearBelow(map, s)) = j - 2
      BY <1>1, <1>4, <1>5, <1>7
    <2> DEFINE B     == ClearBelow(map, s) \cup {s}
               above == {r \in A : s < r}
    <2>2. IsFiniteSet(ClearBelow(map, s)) /\ s \notin ClearBelow(map, s) /\ s \in Nat
      BY <1>1, <1>2, BelowIs
    <2>3. IsFiniteSet(B) /\ Cardinality(B) = j - 1
      <3>1. Cardinality(B) = Cardinality(ClearBelow(map, s)) + 1 /\ IsFiniteSet(B)
        BY <2>2, FS_AddElement
      <3> QED
        BY <1>1, <1>4, <2>1, <3>1
    <2>4. above \in SUBSET Nat /\ \A r \in A : r \notin B => r \in above
      <3>1. ASSUME NEW r \in A, r \notin B PROVE s < r
        <4>1. r # s /\ ~(r < s) /\ r \in Nat
          BY <1>1, <1>2, <3>1
        <4> QED
          BY <2>2, <4>1
      <3> QED
        BY <1>1, <3>1
    <2>5. above # {}
      <3> SUFFICES ASSUME above = {} PROVE FALSE
        OBVIOUS
      <3>1. A = B
        BY <1>2, <2>4
      <3> QED
        BY <1>1, <1>4, <2>3, <3>1
    <2>6. PICK next \in above : \A r \in above : next <= r
      BY <2>4, <2>5, SmallestMember
    <2>7. ASSUME NEW r PROVE r \in ClearBelow(map, next) <=> r \in B
      <3>1. next \in A /\ s < next /\ next \in Nat /\ s \in A
        BY <1>1, <2>6
      <3>2. r \in ClearBelow(map, next) <=> r \in A /\ r < next
        BY <1>2, <3>1
      <3>3. r \in B <=> r \in A /\ r <= s
        <4>1. r \in ClearBelow(map, s) <=> r \in A /\ r < s
          BY <1>2
        <4>2. CASE r \in A
          <5>1. r \in Nat
            BY <1>1, <4>2
          <5> QED
            BY <2>2, <4>1, <4>2, <5>1
        <4> QED
          BY <4>1, <4>2, <3>1
      <3>4. r \in A /\ r < next => r <= s
        <4>1. SUFFICES ASSUME r \in A, r < next, ~(r <= s) PROVE FALSE
          OBVIOUS
        <4>2. r \in above
          BY <1>1, <2>2, <4>1
        <4> QED
          BY <1>1, <2>6, <3>1, <4>1, <4>2
      <3> QED
        <4>1. CASE r \in A
          <5>1. r \in Nat /\ next \in Nat /\ s \in Nat /\ s < next
            BY <1>1, <2>2, <3>1, <4>1
          <5>2. r <= s => r < next
            BY <5>1
          <5> QED
            BY <3>2, <3>3, <3>4, <4>1, <5>2
        <4> QED
          BY <3>2, <3>3, <4>1
    <2>8. ClearBelow(map, next) = B
      BY <2>7
    <2>9. next \in A
      BY <2>6
    <2> QED
      BY <1>4, <2>3, <2>8, <2>9
  <1> QED
    BY <1>6, <1>7

LEMMA FirstClearIs ==
    ASSUME NEW map, NEW n \in 0..NumClear(map)
    PROVE  FirstClear(map, n) \in [1..n -> Sectors \ map]
  <1>1. \A k \in 1..n : \E s \in Sectors \ map : Cardinality(ClearBelow(map, s)) = k - 1
    <2>1. NumClear(map) \in Nat
      BY SectorsFinite
    <2>2. \A k \in 1..n : k \in 1..NumClear(map)
      BY <2>1
    <2> QED
      BY <2>2, ClearSector
  <1> QED
    BY <1>1 DEF FirstClear

LEMMA OneClear ==
    ASSUME NEW map, Sectors \ map # {}
    PROVE  FirstClear(map, 1)[1] \in Sectors \ map
  <1>1. NumClear(map) \in Nat /\ NumClear(map) # 0
    BY SectorsFinite, FS_EmptySet DEF NumClear
  <1>2. FirstClear(map, 1) \in [1..1 -> Sectors \ map]
    <2>1. 1 \in 0..NumClear(map)
      BY <1>1
    <2> QED
      BY <2>1, FirstClearIs
  <1> QED
    BY <1>2

LEMMA SystemSectorsTyped == SystemSectors \in SUBSET Sectors
  <1> DEFINE headers == {FreeMapSector, DirectorySector}
             one     == FirstClear(headers, 1)
             both    == headers \cup Range(one)
  <1>1. 0 \in Sectors /\ 1 \in Sectors /\ headers = {0, 1}
    BY Constants DEF Sectors, FreeMapSector, DirectorySector
  <1>2. Sectors \ headers = (Sectors \ {0}) \ {1}
    BY <1>1
  <1>3. IsFiniteSet(Sectors \ {0}) /\ Cardinality(Sectors \ {0}) = NumSectors - 1
    BY <1>1, SectorsFinite, FS_RemoveElement
  <1>4. IsFiniteSet(Sectors \ headers) /\ NumClear(headers) = NumSectors - 2
    <2>1. 1 \in Sectors \ {0}
      BY <1>1
    <2>2. /\ IsFiniteSet((Sectors \ {0}) \ {1})
          /\ Cardinality((Sectors \ {0}) \ {1}) = NumSectors - 1 - 1
      BY <1>3, <2>1, FS_RemoveElement
    <2>3. NumClear(headers) = Cardinality((Sectors \ {0}) \ {1})
      BY <1>2 DEF NumClear
    <2>4. IsFiniteSet(Sectors \ headers)
      BY <1>2, <2>2
    <2> HIDE DEF headers
    <2> QED
      BY <2>2, <2>3, <2>4, Constants
  <1>5. one \in [1..1 -> Sectors \ headers]
    <2>1. 1 \in 0..NumClear(headers)
      BY <1>4, Constants
    <2> HIDE DEF headers
    <2> QED
      BY <2>1, FirstClearIs
  <1>6. Range(one) = {one[1]} /\ one[1] \in Sectors \ headers
    <2> HIDE DEF one, headers
    <2> QED
      BY <1>5 DEF Range
  <1>7. Sectors \ both = (Sectors \ headers) \ {one[1]}
    BY <1>6
  <1>8. NumClear(both) = NumSectors - 3
    <2> DEFINE A == Sectors \ headers
    <2>1. Cardinality(A \ {one[1]}) = NumSectors - 2 - 1
      <3>1. IsFiniteSet(A) /\ one[1] \in A /\ Cardinality(A) = NumSectors - 2
        BY <1>4, <1>6 DEF NumClear
      <3> HIDE DEF A, one
      <3> QED
        BY <3>1, FS_RemoveElement
    <2>2. NumClear(both) = Cardinality(A \ {one[1]})
      <3> HIDE DEF one, headers, both
      <3> QED
        BY <1>7 DEF NumClear
    <2> HIDE DEF one, headers, both, A
    <2> QED
      BY <2>1, <2>2, Constants
  <1>9. FirstClear(both, 2) \in [1..2 -> Sectors \ both]
    <2>1. 2 \in 0..NumClear(both)
      BY <1>8, Constants
    <2> HIDE DEF both
    <2> QED
      BY <2>1, FirstClearIs
  <1>10. Range(FirstClear(both, 2)) \subseteq Sectors
    <2> HIDE DEF both
    <2> QED
      BY <1>9 DEF Range
  <1>11. SystemSectors = both \cup Range(FirstClear(both, 2))
    BY DEF SystemSectors
  <1> QED
    BY <1>1, <1>6, <1>10, <1>11

LEMMA Quotient == \A a \in Nat, b \in Nat \ {0} : a \div b \in Nat
  OBVIOUS

LEMMA Product == \A a, b \in Nat : a * b \in Nat
  OBVIOUS

(* How many sectors the bytes of a file take. *)
LEMMA Rounding ==
    ASSUME NEW n \in Nat
    PROVE  /\ DivRoundUp(n, SectorSize) \in Nat
           /\ \A o \in Nat : o < n => o \div SectorSize + 1 \in 1..DivRoundUp(n, SectorSize)
  <1> DEFINE s == SectorSize
  <1>1. s \in Nat /\ s > 0
    BY Constants
  <1> HIDE DEF s
  <1>2. (n + s - 1) \div s \in Nat
    BY <1>1, Quotient
  <1>3. ASSUME NEW o \in Nat, o < n
        PROVE  o \div s + 1 \in 1..((n + s - 1) \div s)
    <2>1. o \div s \in Nat /\ (o + s) \div s = o \div s + 1
      BY <1>1
    <2>2. o + s <= n + s - 1
      BY <1>1, <1>3
    <2>3. \A a, b \in Nat : a <= b => a \div s <= b \div s
      BY <1>1
    <2> QED
      BY <1>1, <1>2, <2>1, <2>2, <2>3
  <1> QED
    BY <1>2, <1>3 DEF DivRoundUp, s

(* The first byte of a sector, and the bytes in it. *)
LEMMA SectorStarts ==
    \A k \in Nat : k * SectorSize \in Nat /\ (k * SectorSize) \div SectorSize = k
  BY Constants

LEMMA Offsets == \A o \in Nat : o % SectorSize \in 0..(SectorSize - 1)
  BY Constants

-----------------------------------------------------------------------------
(* Lemmas: headers and directories *)

LEMMA HeaderIs ==
    ASSUME NEW h \in Headers
    PROVE  /\ IsHeader(h) /\ h.numBytes \in Nat
           /\ h.dataSectors \in [1..DivRoundUp(h.numBytes, SectorSize) -> FileSectors]
           /\ Range(h.dataSectors) \subseteq FileSectors
  <1>1. PICK n \in Nat : h \in HeadersOf(n)
    BY DEF Headers
  <1>2. h.kind = "Header" /\ h.numBytes = n /\ h.dataSectors \in [1..DivRoundUp(n, SectorSize) -> FileSectors]
    BY <1>1 DEF HeadersOf
  <1> QED
    BY <1>2 DEF IsHeader, Range

LEMMA DataIs ==
    ASSUME NEW c \in Datas
    PROVE  ~IsHeader(c) /\ c.bytes \in [0..(SectorSize - 1) -> Bytes]
  BY DEF Datas, IsHeader

LEMMA HeaderMade ==
    ASSUME NEW map, SystemSectors \subseteq map, NEW n \in Nat, HasSpace(map, n)
    PROVE  /\ Header(map, n) \in Headers
           /\ Range(Header(map, n).dataSectors) \subseteq Sectors \ map
  <1> DEFINE size == DivRoundUp(n, SectorSize)
             ds   == FirstClear(map, size)
  <1>1. size \in 0..NumClear(map)
    BY Rounding, SectorsFinite DEF HasSpace
  <1>2. ds \in [1..size -> Sectors \ map]
    BY <1>1, FirstClearIs
  <1>3. Header(map, n) = [kind |-> "Header", numBytes |-> n, dataSectors |-> ds]
    BY DEF Header
  <1> HIDE DEF ds
  <1>4. ds \in [1..size -> FileSectors] /\ Range(ds) \subseteq Sectors \ map
    BY <1>2 DEF FileSectors, Range
  <1>5. Header(map, n) \in HeadersOf(n)
    BY <1>3, <1>4 DEF HeadersOf
  <1> QED
    BY <1>3, <1>4, <1>5 DEF Headers

LEMMA EntryIs ==
    ASSUME NEW d \in Directories, NEW i \in Entries
    PROVE  /\ d[i] \in [inUse : BOOLEAN, name : Names \cup {None}, sector : Sectors]
           /\ d[i].inUse \in BOOLEAN /\ d[i].name \in Names \cup {None} /\ d[i].sector \in Sectors
           /\ d[i].inUse => d[i].sector \in FileSectors
           /\ d[i] = [inUse |-> d[i].inUse, name |-> d[i].name, sector |-> d[i].sector]
  BY DEF Directories, FileSectors

(* The first sector of the directory has what counts of an entry, up to those *)
(* that lie in the second.                                                   *)
LEMMA HalfIs ==
    ASSUME NEW d \in Directories, NEW old \in Directories, NEW w \in {"FirstHalf", "SecondHalf"}
    PROVE  /\ Half(w, old, d) \in Directories
           /\ \A i \in Entries : d[i] = old[i] => Half(w, old, d)[i] = d[i]
           /\ \A i \in Entries : \/ /\ Half(w, old, d)[i].inUse = d[i].inUse
                                   /\ Half(w, old, d)[i].sector = d[i].sector
                                \/ /\ Half(w, old, d)[i].inUse = old[i].inUse
                                   /\ Half(w, old, d)[i].sector = old[i].sector
  <1> DEFINE new == Half(w, old, d)
  <1>1. DOMAIN new = Entries /\ new = [i \in Entries |-> new[i]]
    BY DEF Half
  <1>2. ASSUME NEW i \in Entries
        PROVE  /\ new[i] \in [inUse : BOOLEAN, name : Names \cup {None}, sector : Sectors]
               /\ \/ new[i].inUse = d[i].inUse /\ new[i].sector = d[i].sector
                  \/ new[i].inUse = old[i].inUse /\ new[i].sector = old[i].sector
               /\ d[i] = old[i] => new[i] = d[i]
    <2>1. PICK e \in {d[i], old[i]}, n \in {d[i], old[i]} :
              new[i] = [inUse |-> e.inUse, name |-> n.name, sector |-> e.sector]
      BY DEF Half
    <2> HIDE DEF new
    <2>2. \A r \in {d[i], old[i]} :
             /\ r.inUse \in BOOLEAN /\ r.name \in Names \cup {None} /\ r.sector \in Sectors
             /\ r = [inUse |-> r.inUse, name |-> r.name, sector |-> r.sector]
      BY EntryIs
    <2>3. new[i] \in [inUse : BOOLEAN, name : Names \cup {None}, sector : Sectors]
      BY <2>1, <2>2
    <2>4. new[i].inUse = e.inUse /\ new[i].sector = e.sector
      BY <2>1
    <2>5. ASSUME d[i] = old[i] PROVE new[i] = d[i]
      <3>1. e = d[i] /\ n = d[i]
        BY <2>5
      <3> QED
        BY <2>1, <2>2, <3>1
    <2> QED
      BY <2>3, <2>4, <2>5
  <1> HIDE DEF new
  <1>3. new \in Directories
    BY <1>1, <1>2, EntryIs DEF Directories, FileSectors
  <1> QED
    BY <1>2, <1>3 DEF new

LEMMA BothHalves ==
    ASSUME NEW d \in Directories, NEW old \in Directories
    PROVE  Half("SecondHalf", Half("FirstHalf", old, d), d) = d
  <1> DEFINE one == Half("FirstHalf", old, d)
             two == Half("SecondHalf", one, d)
  <1>1. two = [i \in Entries |-> two[i]] /\ d = [i \in Entries |-> d[i]]
    BY DEF Half, Directories
  <1>2. ASSUME NEW i \in Entries PROVE two[i] = d[i]
    <2>1. /\ i \notin SecondSector => one[i].inUse = d[i].inUse /\ one[i].sector = d[i].sector
          /\ i \notin SecondSector \cup Straddling => one[i].name = d[i].name
      BY DEF Half
    <2> HIDE DEF one
    <2>2. /\ two[i] = [inUse |-> two[i].inUse, name |-> two[i].name, sector |-> two[i].sector]
          /\ i \in SecondSector => two[i].inUse = d[i].inUse /\ two[i].sector = d[i].sector
          /\ i \notin SecondSector => two[i].inUse = one[i].inUse /\ two[i].sector = one[i].sector
          /\ i \in SecondSector \cup Straddling => two[i].name = d[i].name
          /\ i \notin SecondSector \cup Straddling => two[i].name = one[i].name
      BY DEF Half
    <2> HIDE DEF two
    <2> QED
      BY <2>1, <2>2, EntryIs
  <1> HIDE DEF one, two
  <1>3. two = d
    BY <1>1, <1>2
  <1> QED
    BY <1>3 DEF one, two

LEMMA Searched ==
    ASSUME NEW d \in Directories, NEW name, FindIndex(d, name) # {}
    PROVE  LET k == Min(FindIndex(d, name))
           IN  /\ k \in Entries /\ d[k].inUse /\ d[k].name = name
               /\ Find(d, name) = d[k].sector /\ d[k].sector \in FileSectors
               /\ DirRemove(d, name) \in Directories
               /\ ~DirRemove(d, name)[k].inUse
               /\ \A j \in Entries \ {k} : DirRemove(d, name)[j] = d[j]
  <1> DEFINE k == Min(FindIndex(d, name))
  <1>1. FindIndex(d, name) \in SUBSET Nat
    BY SectorsFinite DEF FindIndex
  <1>2. k \in FindIndex(d, name)
    BY <1>1, MinInSet
  <1>3. k \in Entries /\ d[k].inUse /\ d[k].name = name
    BY <1>2 DEF FindIndex
  <1>4. Find(d, name) = d[k].sector /\ DirRemove(d, name) = [d EXCEPT ![k].inUse = FALSE]
    BY DEF Find, DirRemove
  <1> HIDE DEF k
  <1> DEFINE new == DirRemove(d, name)
  <1>5. DOMAIN d = Entries /\ d = [i \in Entries |-> d[i]]
    BY DEF Directories
  <1>6. /\ new[k] = [d[k] EXCEPT !.inUse = FALSE]
        /\ \A j \in Entries \ {k} : new[j] = d[j]
        /\ DOMAIN new = Entries /\ new = [i \in Entries |-> new[i]]
    BY <1>3, <1>4, <1>5
  <1> HIDE DEF new
  <1>7. /\ new[k] \in [inUse : BOOLEAN, name : Names \cup {None}, sector : Sectors]
        /\ ~new[k].inUse
    BY <1>3, <1>6, EntryIs
  <1>8. new \in Directories
    BY <1>6, <1>7, EntryIs DEF Directories, FileSectors
  <1> QED
    BY <1>3, <1>4, <1>6, <1>7, <1>8, EntryIs DEF k, new

LEMMA Added ==
    ASSUME NEW d \in Directories, NEW name \in Names, NEW sector \in FileSectors,
           FreeEntries(d) # {}
    PROVE  LET k == Min(FreeEntries(d))
               new == Add(d, name, sector)
           IN  /\ k \in Entries /\ ~d[k].inUse
               /\ new \in Directories
               /\ new[k] = [inUse |-> TRUE, name |-> name, sector |-> sector]
               /\ \A j \in Entries \ {k} : new[j] = d[j]
  <1> DEFINE k == Min(FreeEntries(d))
  <1>1. FreeEntries(d) \in SUBSET Nat
    BY SectorsFinite DEF FreeEntries
  <1>2. k \in FreeEntries(d)
    BY <1>1, MinInSet
  <1>3. k \in Entries /\ ~d[k].inUse
    BY <1>2 DEF FreeEntries
  <1>4. Add(d, name, sector) = [d EXCEPT ![k] = [inUse |-> TRUE, name |-> name, sector |-> sector]]
    BY DEF Add
  <1> HIDE DEF k
  <1> DEFINE new == Add(d, name, sector)
  <1>5. DOMAIN d = Entries /\ d = [i \in Entries |-> d[i]]
    BY DEF Directories
  <1>6. /\ new[k] = [inUse |-> TRUE, name |-> name, sector |-> sector]
        /\ \A j \in Entries \ {k} : new[j] = d[j]
        /\ DOMAIN new = Entries /\ new = [i \in Entries |-> new[i]]
    BY <1>3, <1>4, <1>5
  <1> HIDE DEF new
  <1>7. /\ new[k] \in [inUse : BOOLEAN, name : Names \cup {None}, sector : Sectors]
        /\ new[k].sector \in FileSectors
    BY <1>6 DEF FileSectors
  <1>8. new \in Directories
    <2>1. \A j \in Entries : /\ new[j] \in [inUse : BOOLEAN, name : Names \cup {None}, sector : Sectors]
                             /\ new[j].inUse => new[j].sector \in FileSectors
      BY <1>6, <1>7, EntryIs
    <2> QED
      BY <1>6, <2>1 DEF Directories, FileSectors
  <1> QED
    BY <1>3, <1>6, <1>8 DEF k, new

-----------------------------------------------------------------------------
(* Lemmas: the writes of an operation *)

LEMMA SameSequence ==
    ASSUME NEW X, NEW s \in Seq(X), NEW u \in Seq(X), Len(s) = Len(u),
           \A i \in 1..Len(s) : s[i] = u[i]
    PROVE  s = u
  OBVIOUS

LEMMA Concatenated ==
    ASSUME NEW X, NEW s \in Seq(X), NEW u \in Seq(X), NEW r \in Seq(X),
           Len(r) = Len(s) + Len(u),
           \A i \in 1..Len(s) : r[i] = s[i], \A i \in 1..Len(u) : r[i + Len(s)] = u[i]
    PROVE  s \o u = r
  <1>1. s \o u \in Seq(X) /\ Len(s \o u) = Len(r)
    OBVIOUS
  <1>2. ASSUME NEW i \in 1..Len(r) PROVE (s \o u)[i] = r[i]
    <2>1. CASE i <= Len(s)
      BY <2>1
    <2>2. CASE i > Len(s)
      <3>1. i - Len(s) \in 1..Len(u)
        BY <2>2
      <3>2. r[(i - Len(s)) + Len(s)] = u[i - Len(s)]
        BY <3>1
      <3>3. (i - Len(s)) + Len(s) = i
        OBVIOUS
      <3>4. (s \o u)[i] = u[i - Len(s)]
        BY <2>2
      <3> QED
        BY <3>2, <3>3, <3>4
    <2> QED
      BY <2>1, <2>2
  <1> QED
    BY <1>1, <1>2, SameSequence

LEMMA FourthWrite ==
    ASSUME NEW X, NEW a \in X, NEW b \in X, NEW c \in X, NEW e \in X
    PROVE  <<a, b, c>> \o <<e>> = <<a, b, c, e>>
  <1>1. /\ <<a, b, c>> \in Seq(X) /\ <<e>> \in Seq(X) /\ <<a, b, c, e>> \in Seq(X)
        /\ Len(<<a, b, c, e>>) = Len(<<a, b, c>>) + Len(<<e>>)
        /\ \A i \in 1..Len(<<a, b, c>>) : <<a, b, c, e>>[i] = <<a, b, c>>[i]
        /\ \A i \in 1..Len(<<e>>) : <<a, b, c, e>>[i + Len(<<a, b, c>>)] = <<e>>[i]
    OBVIOUS
  <1> QED
    BY <1>1, Concatenated

LEMMA FourWrites ==
    ASSUME NEW X, NEW a \in X, NEW b \in X, NEW c \in X, NEW e \in X
    PROVE  /\ <<a, b, c, e>> \in Seq(X) /\ <<a, b, c, e>> # << >>
           /\ Head(<<a, b, c, e>>) = a /\ Tail(<<a, b, c, e>>) = <<b, c, e>>
  OBVIOUS

LEMMA ThreeWrites ==
    ASSUME NEW X, NEW a \in X, NEW b \in X, NEW c \in X
    PROVE  /\ <<a>> \o <<b, c>> = <<a, b, c>>
           /\ <<a, b, c>> \in Seq(X) /\ <<a, b, c>> # << >>
           /\ Head(<<a, b, c>>) = a /\ Tail(<<a, b, c>>) = <<b, c>>
  <1>1. /\ <<a>> \in Seq(X) /\ <<b, c>> \in Seq(X) /\ <<a, b, c>> \in Seq(X)
        /\ Len(<<a, b, c>>) = Len(<<a>>) + Len(<<b, c>>)
        /\ \A i \in 1..Len(<<a>>) : <<a, b, c>>[i] = <<a>>[i]
        /\ \A i \in 1..Len(<<b, c>>) : <<a, b, c>>[i + Len(<<a>>)] = <<b, c>>[i]
    OBVIOUS
  <1>2. <<a>> \o <<b, c>> = <<a, b, c>>
    BY <1>1, Concatenated
  <1>3. <<a, b, c>> # << >> /\ Head(<<a, b, c>>) = a /\ Tail(<<a, b, c>>) = <<b, c>>
    OBVIOUS
  <1> QED
    BY <1>1, <1>2, <1>3

LEMMA TwoWrites ==
    ASSUME NEW X, NEW a \in X, NEW b \in X
    PROVE  /\ <<a, b>> \in Seq(X) /\ <<a, b>> # << >>
           /\ Head(<<a, b>>) = a /\ Tail(<<a, b>>) = <<b>>
           /\ <<b>> \in Seq(X) /\ <<b>> # << >>
           /\ Head(<<b>>) = b /\ Tail(<<b>>) = << >>
  OBVIOUS

LEMMA WritesTyped ==
    ASSUME NEW s \in FileSectors, NEW c \in Headers \cup Datas, NEW m \in Maps,
           NEW d \in Directories
    PROVE  /\ ToSector(s, c) \in WriteSet /\ ToMap(m) \in WriteSet
           /\ ToDirectory(d) = <<First(d), Second(d)>>
           /\ First(d) \in WriteSet /\ Second(d) \in WriteSet
           /\ ToSector(s, c).to = "Sector" /\ ToSector(s, c).sector = s /\ ToSector(s, c).contents = c
           /\ ToMap(m).to = "FreeMap" /\ ToMap(m).map = m
           /\ First(d).to = "FirstHalf" /\ First(d).dir = d
           /\ Second(d).to = "SecondHalf" /\ Second(d).dir = d
  BY DEF ToSector, ToMap, ToDirectory, First, Second, WriteSet, SectorWriteSet

LEMMA WriteIs ==
    ASSUME Shape, WriteSector
    PROVE  LET w == Head(pending)
           IN  /\ w \in WriteSet /\ pending # << >>
               /\ pending' = Tail(pending) /\ pending' \in Seq(WriteSet)
               /\ UNCHANGED <<fileTable, answer, boots, aborted>>
               /\ \/ /\ w.to = "Sector" /\ w.sector \in FileSectors /\ w.contents \in Headers \cup Datas
                     /\ disk' = [disk EXCEPT ![w.sector] = w.contents]
                     /\ UNCHANGED <<freeMap, directory>>
                  \/ /\ w.to = "FreeMap" /\ w.map \in Maps
                     /\ freeMap' = w.map
                     /\ UNCHANGED <<disk, directory>>
                  \/ /\ w.to \in {"FirstHalf", "SecondHalf"} /\ w.dir \in Directories
                     /\ directory' = Half(w.to, directory, w.dir)
                     /\ UNCHANGED <<disk, freeMap>>
  <1> DEFINE w == Head(pending)
             new == Written(State, w)
  <1>1. w \in WriteSet /\ Tail(pending) \in Seq(WriteSet)
    BY DEF Shape, WriteSector
  <1>2. /\ pending' = Tail(pending) /\ pending # << >>
        /\ disk' = new.disk /\ freeMap' = new.freeMap /\ directory' = new.directory
        /\ UNCHANGED <<fileTable, answer, boots, aborted>>
    BY DEF WriteSector
  <1> HIDE DEF w
  <1>3. \/ w.to = "Sector" /\ w.sector \in FileSectors /\ w.contents \in Headers \cup Datas
        \/ w.to = "FreeMap" /\ w.map \in Maps
        \/ w.to \in {"FirstHalf", "SecondHalf"} /\ w.dir \in Directories
    BY <1>1 DEF WriteSet, SectorWriteSet
  <1>4. /\ w.to = "Sector" => /\ new.disk = [disk EXCEPT ![w.sector] = w.contents]
                              /\ new.freeMap = freeMap /\ new.directory = directory
        /\ w.to = "FreeMap" => new.disk = disk /\ new.freeMap = w.map /\ new.directory = directory
        /\ w.to \in {"FirstHalf", "SecondHalf"} =>
              /\ new.disk = disk /\ new.freeMap = freeMap
              /\ new.directory = Half(w.to, directory, w.dir)
    BY DEF Written, State
  <1> HIDE DEF new
  <1> QED
    BY <1>1, <1>2, <1>3, <1>4 DEF w

(* The byte of a file at an offset, and the sector that it is in. *)
LEMMA DataSector ==
    ASSUME NEW hdr \in Headers, NEW q \in Nat, NEW offset \in Nat,
           offset < hdr.numBytes, q <= offset \div SectorSize
    PROVE  /\ hdr.dataSectors[q + 1] \in Range(hdr.dataSectors)
           /\ hdr.dataSectors[q + 1] \in FileSectors
  <1> DEFINE size == DivRoundUp(hdr.numBytes, SectorSize)
             last == offset \div SectorSize
  <1>1. hdr.numBytes \in Nat /\ hdr.dataSectors \in [1..size -> FileSectors]
    BY HeaderIs
  <1>2. size \in Nat /\ last + 1 \in 1..size /\ last \in Nat
    <2>1. last \in Nat
      BY Constants, Quotient
    <2> QED
      BY <1>1, <2>1, Rounding
  <1> HIDE DEF last, size
  <1>3. q <= last
    BY DEF last
  <1>4. q + 1 \in 1..size
    BY <1>2, <1>3
  <1> QED
    BY <1>1, <1>4 DEF Range

LEMMA ByteTyped ==
    ASSUME Shape, NEW hdr \in Headers, NEW offset \in Nat, offset < hdr.numBytes
    PROVE  Byte(disk, hdr, offset) \in Bytes
  <1> DEFINE q == offset \div SectorSize
             s == ByteToSector(hdr, offset)
             o == offset % SectorSize
  <1>1. q \in Nat /\ q <= q
    BY Constants, Quotient
  <1>2. s \in Sectors
    <2>1. hdr.dataSectors[q + 1] \in FileSectors
      BY <1>1, DataSector
    <2> QED
      BY <2>1 DEF ByteToSector, FileSectors
  <1>3. o \in 0..(SectorSize - 1)
    BY Offsets
  <1>4. Byte(disk, hdr, offset) = IF IsHeader(disk[s]) THEN HeaderByte ELSE disk[s].bytes[o]
    BY DEF Byte
  <1> HIDE DEF s, o
  <1>5. disk[s] \in Headers \cup Datas
    BY <1>2 DEF Shape
  <1>6. CASE IsHeader(disk[s])
    BY <1>4, <1>6, Constants
  <1>7. CASE ~IsHeader(disk[s])
    <2>1. disk[s] \in Datas
      BY <1>5, <1>7, HeaderIs
    <2> QED
      BY <1>3, <1>4, <1>7, <2>1, DataIs
  <1> QED
    BY <1>6, <1>7

LEMMA BufferTyped ==
    ASSUME Shape, NEW hdr \in Headers, NEW q \in Nat, NEW position \in Nat,
           NEW from \in Seq(Bytes), NEW c \in Bytes
    PROVE  Buffer(hdr, q, position, from, c) \in [0..(SectorSize - 1) -> Bytes]
  <1>1. ASSUME NEW o \in 0..(SectorSize - 1)
        PROVE  LET offset == q * SectorSize + o
               IN  (IF offset - position \in 0..(Len(from) - 1) THEN from[offset - position + 1]
                    ELSE IF IsRead(q, position, Len(from)) /\ offset < hdr.numBytes
                         THEN Byte(disk, hdr, offset) ELSE c) \in Bytes
    <2> DEFINE offset == q * SectorSize + o
    <2>1. offset \in Nat
      <3>1. q * SectorSize \in Nat
        BY SectorStarts
      <3> HIDE DEF offset
      <3>2. o \in Nat
        BY Constants
      <3> QED
        BY <3>1, <3>2 DEF offset
    <2> HIDE DEF offset
    <2>2. offset < hdr.numBytes => Byte(disk, hdr, offset) \in Bytes
      BY <2>1, ByteTyped
    <2>3. offset - position \in 0..(Len(from) - 1) => from[offset - position + 1] \in Bytes
      <3>1. SUFFICES ASSUME offset - position \in 0..(Len(from) - 1)
                     PROVE  offset - position + 1 \in 1..Len(from)
        OBVIOUS
      <3> QED
        BY <2>1, <3>1
    <2> QED
      BY <2>2, <2>3 DEF offset
  <1> QED
    BY <1>1 DEF Buffer

LEMMA Growing ==
    ASSUME NEW a \in Nat, NEW b \in Nat, a <= b
    PROVE  a \div SectorSize <= b \div SectorSize
  BY Constants

(* A write is one of data, and goes to sectors of the file. *)
LEMMA SectorWritesAre ==
    ASSUME Shape, NEW hdr \in Headers, NEW position \in Nat, NEW from \in Seq(Bytes), NEW c \in Bytes,
           Len(from) > 0, position + Len(from) <= hdr.numBytes
    PROVE  LET ws == SectorWrites(hdr, position, from, c)
           IN  /\ ws \in Seq(WriteSet)
               /\ \A k \in DOMAIN ws : /\ ws[k].to = "Sector" /\ ws[k].contents \in Datas
                                       /\ ws[k].sector \in Range(hdr.dataSectors)
  <1> DEFINE first == position \div SectorSize
             last  == (position + Len(from) - 1) \div SectorSize
             end   == position + Len(from) - 1
             ws    == SectorWrites(hdr, position, from, c)
             w(k)  == ToSector(ByteToSector(hdr, (first + k - 1) * SectorSize),
                               Data(Buffer(hdr, first + k - 1, position, from, c)))
  <1>1. end \in Nat /\ end < hdr.numBytes /\ position <= end
    BY HeaderIs
  <1>2. first \in Nat /\ last \in Nat /\ first <= last /\ last = end \div SectorSize
    BY <1>1, Constants, Quotient, Growing
  <1>3. ws = [k \in 1..(last - first + 1) |-> w(k)]
    BY DEF SectorWrites
  <1> HIDE DEF first, last, end
  <1>4. ASSUME NEW k \in 1..(last - first + 1)
        PROVE  /\ w(k) \in WriteSet /\ w(k).to = "Sector" /\ w(k).contents \in Datas
               /\ w(k).sector \in Range(hdr.dataSectors)
    <2> DEFINE q == first + k - 1
               s == ByteToSector(hdr, q * SectorSize)
               b == Data(Buffer(hdr, q, position, from, c))
    <2>1. q \in Nat /\ q <= last
      BY <1>2
    <2> HIDE DEF q
    <2>2. s = hdr.dataSectors[q + 1]
      BY <2>1, SectorStarts DEF ByteToSector
    <2>3. s \in Range(hdr.dataSectors) /\ s \in FileSectors
      BY <1>1, <1>2, <2>1, <2>2, DataSector
    <2>4. Buffer(hdr, q, position, from, c) \in [0..(SectorSize - 1) -> Bytes]
      BY <2>1, BufferTyped
    <2>5. b \in Datas
      BY <2>4 DEF Data, Datas
    <2>6. w(k) = ToSector(s, b)
      BY DEF q
    <2> HIDE DEF w, s, b
    <2>7. w(k) = [to |-> "Sector", sector |-> s, contents |-> b]
      BY <2>6 DEF ToSector
    <2> QED
      BY <2>3, <2>5, <2>7 DEF WriteSet, SectorWriteSet
  <1> HIDE DEF w, ws
  <1>5. last - first + 1 \in Nat
    BY <1>2
  <1>6. ws \in Seq(WriteSet) /\ DOMAIN ws = 1..(last - first + 1)
    BY <1>3, <1>4, <1>5
  <1> QED
    BY <1>3, <1>4, <1>6 DEF ws

-----------------------------------------------------------------------------
(* The operations *)

(* What Create decides to write. *)
Decides(name, k, sector, hdr, d, map) ==
    /\ ~directory[k].inUse
    /\ FindIndex(directory, name) = {}
    /\ \A j \in Entries \ {k} : d[j] = directory[j]
    /\ d[k] = [inUse |-> TRUE, name |-> name, sector |-> sector]
    /\ Range(hdr.dataSectors) \subseteq Sectors \ freeMap
    /\ sector \notin Range(hdr.dataSectors)
    /\ map = freeMap \cup {sector} \cup Range(hdr.dataSectors)
    /\ pending' = <<ToSector(sector, hdr), First(d), Second(d), ToMap(map)>>

LEMMA CreateIs ==
    ASSUME Shape, NEW name \in Names, NEW n \in Nat, Create(name, n)
    PROVE  /\ pending = << >> /\ ~aborted
           /\ UNCHANGED <<disk, freeMap, directory, fileTable, boots, aborted>>
           /\ \/ pending' = pending
              \/ \E k \in Entries, sector \in Sectors \ freeMap, map \in Maps,
                    d \in Directories, hdr \in Headers :
                    /\ Decides(name, k, sector, hdr, d, map)
                    /\ pending' \in Seq(WriteSet)
  <1> DEFINE sector == FirstClear(freeMap, 1)[1]
             map1   == freeMap \cup {sector}
             hdr    == Header(map1, n)
             d      == Add(directory, name, sector)
             map    == map1 \cup Range(hdr.dataSectors)
             k      == Min(FreeEntries(directory))
             fails  == \/ FindIndex(directory, name) # {}
                       \/ Sectors \ freeMap = {}
                       \/ FreeEntries(directory) = {}
                       \/ ~HasSpace(map1, n)
  <1>1. /\ Running /\ UNCHANGED fileTable
        /\ IF fails THEN Returns(<<"Create", FALSE>>)
           ELSE Writes(<<"Create", TRUE>>, CreateWrites(sector, hdr, d, map))
    BY DEF Create
  <1> HIDE DEF sector, hdr, d, fails
  <1>2. /\ pending = << >> /\ ~aborted
        /\ UNCHANGED <<disk, freeMap, directory, fileTable, boots, aborted>>
        /\ fails => pending' = pending
        /\ ~fails => pending' = CreateWrites(sector, hdr, d, map)
    BY <1>1 DEF Running, Returns, Writes
  <1>3. SUFFICES ASSUME ~fails
                 PROVE  /\ k \in Entries /\ sector \in Sectors \ freeMap /\ map \in Maps
                        /\ d \in Directories /\ hdr \in Headers
                        /\ Decides(name, k, sector, hdr, d, map) /\ pending' \in Seq(WriteSet)
    <2> HIDE DEF k, map
    <2> QED
      BY <1>2
  <1>4. /\ FindIndex(directory, name) = {} /\ Sectors \ freeMap # {}
        /\ FreeEntries(directory) # {} /\ HasSpace(map1, n)
    BY <1>3 DEF fails
  <1>5. freeMap \in SUBSET Sectors /\ SystemSectors \subseteq freeMap /\ directory \in Directories
    BY DEF Shape, Maps
  <1>6. sector \in Sectors \ freeMap /\ sector \in FileSectors
    BY <1>4, <1>5, OneClear DEF sector, FileSectors
  <1>7. /\ k \in Entries /\ ~directory[k].inUse /\ d \in Directories
        /\ \A j \in Entries \ {k} : d[j] = directory[j]
        /\ d[k] = [inUse |-> TRUE, name |-> name, sector |-> sector]
    BY <1>4, <1>5, <1>6, Added DEF d
  <1>8. hdr \in Headers /\ Range(hdr.dataSectors) \subseteq Sectors \ map1
    <2>1. SystemSectors \subseteq map1
      BY <1>5
    <2> HIDE DEF map1
    <2> QED
      BY <1>4, <2>1, HeaderMade DEF hdr
  <1>9. map \in Maps
    BY <1>5, <1>6, <1>8 DEF Maps
  <1>13. map = freeMap \cup {sector} \cup Range(hdr.dataSectors) /\ sector \notin Range(hdr.dataSectors)
    BY <1>8
  <1> HIDE DEF map
  <1>10. /\ ToSector(sector, hdr) \in WriteSet /\ First(d) \in WriteSet /\ Second(d) \in WriteSet
         /\ ToMap(map) \in WriteSet /\ ToDirectory(d) = <<First(d), Second(d)>>
    BY <1>6, <1>7, <1>8, <1>9, WritesTyped
  <1>11. CreateWrites(sector, hdr, d, map) = <<ToSector(sector, hdr)>> \o <<First(d), Second(d)>> \o <<ToMap(map)>>
    BY <1>10 DEF CreateWrites
  <1>12. /\ CreateWrites(sector, hdr, d, map) = <<ToSector(sector, hdr), First(d), Second(d), ToMap(map)>>
         /\ CreateWrites(sector, hdr, d, map) \in Seq(WriteSet)
    <2> DEFINE w1 == ToSector(sector, hdr)
               w2 == First(d)
               w3 == Second(d)
               w4 == ToMap(map)
    <2>1. w1 \in WriteSet /\ w2 \in WriteSet /\ w3 \in WriteSet /\ w4 \in WriteSet
      BY <1>10
    <2> HIDE DEF w1, w2, w3, w4
    <2>2. <<w1>> \o <<w2, w3>> \o <<w4>> = <<w1, w2, w3, w4>>
      <3>1. <<w1>> \o <<w2, w3>> = <<w1, w2, w3>>
        BY <2>1, ThreeWrites
      <3>2. <<w1, w2, w3>> \o <<w4>> = <<w1, w2, w3, w4>>
        BY <2>1, FourthWrite
      <3> QED
        BY <3>1, <3>2
    <2>3. <<w1, w2, w3, w4>> \in Seq(WriteSet)
      BY <2>1
    <2> QED
      BY <1>11, <2>2, <2>3 DEF w1, w2, w3, w4
  <1> HIDE DEF k
  <1>14. Decides(name, k, sector, hdr, d, map)
    BY <1>2, <1>3, <1>4, <1>7, <1>8, <1>12, <1>13 DEF Decides
  <1> QED
    BY <1>2, <1>3, <1>6, <1>7, <1>8, <1>9, <1>12, <1>14

(* What Remove finds, and decides to write. *)
Unmarks(k, d, map) ==
    /\ map = freeMap \ (Range(disk[directory[k].sector].dataSectors) \cup {directory[k].sector})
    /\ ~d[k].inUse
    /\ \A j \in Entries \ {k} : d[j] = directory[j]
    /\ pending' = <<ToMap(map), First(d), Second(d)>>

LEMMA RemoveIs ==
    ASSUME Shape, NEW name \in Names, Remove(name)
    PROVE  LET k   == Min(FindIndex(directory, name))
               hdr == disk[directory[k].sector]
           IN  /\ pending = << >> /\ ~aborted
               /\ UNCHANGED <<disk, freeMap, directory, fileTable, boots>>
               /\ \/ pending' = pending /\ aborted' = aborted
                  \/ /\ FindIndex(directory, name) # {} /\ k \in Entries
                     /\ directory[k].inUse /\ directory[k].name = name /\ ~IsOpen(name)
                     /\ \/ /\ aborted' = TRUE /\ pending' = pending
                           /\ ~IsHeader(hdr) \/ ~(Range(hdr.dataSectors) \subseteq freeMap)
                        \/ /\ aborted' = aborted /\ hdr \in Headers
                           /\ pending' \in Seq(WriteSet)
                           /\ \E map \in Maps, d \in Directories : Unmarks(k, d, map)
  <1> DEFINE sector == Find(directory, name)
             hdr    == disk[sector]
             k      == Min(FindIndex(directory, name))
             d      == DirRemove(directory, name)
             map    == Deallocated(freeMap, hdr, sector)
             found  == FindIndex(directory, name) # {}
             marked == Range(hdr.dataSectors) \subseteq freeMap
  <1>1. /\ Running /\ ~IsOpen(name)
        /\ \/ ~found /\ Returns(<<"Remove", FALSE>>) /\ UNCHANGED fileTable
           \/ found /\ ~IsHeader(hdr) /\ Abort
           \/ found /\ IsHeader(hdr) /\ ~marked /\ Abort
           \/ /\ found /\ IsHeader(hdr) /\ marked /\ UNCHANGED fileTable
              /\ Writes(<<"Remove", TRUE>>, <<ToMap(map)>> \o ToDirectory(d))
    BY DEF Remove
  <1>2. pending = << >> /\ ~aborted /\ UNCHANGED <<disk, freeMap, directory, fileTable, boots>>
    BY <1>1 DEF Running, Abort, Returns, Writes
  <1>3. CASE ~found
    <2>1. pending' = pending /\ aborted' = aborted
      BY <1>1, <1>3 DEF Returns
    <2> QED
      BY <1>2, <2>1
  <1>4. CASE found
    <2>1. /\ directory \in Directories
          /\ freeMap \in SUBSET Sectors /\ SystemSectors \subseteq freeMap
      BY DEF Shape, Maps
    <2>2. /\ k \in Entries /\ directory[k].inUse /\ directory[k].name = name
          /\ sector = directory[k].sector /\ sector \in FileSectors
          /\ d \in Directories /\ ~d[k].inUse
          /\ \A j \in Entries \ {k} : d[j] = directory[j]
      BY <1>4, <2>1, Searched
    <2> HIDE DEF k, d, sector
    <2>3. ASSUME Abort, ~IsHeader(hdr) \/ ~marked
          PROVE  /\ aborted' = TRUE /\ pending' = pending
                 /\ ~IsHeader(hdr) \/ ~marked
      BY <2>3 DEF Abort
    <2>4. ASSUME IsHeader(hdr), Writes(<<"Remove", TRUE>>, <<ToMap(map)>> \o ToDirectory(d))
          PROVE  /\ aborted' = aborted /\ hdr \in Headers
                 /\ pending' \in Seq(WriteSet)
                 /\ \E m \in Maps, e \in Directories : Unmarks(k, e, m)
      <3>1. hdr \in Headers
        <4>1. sector \in Sectors
          BY <2>2 DEF FileSectors
        <4>2. hdr \in Headers \cup Datas
          BY <4>1 DEF Shape
        <4> QED
          BY <2>4, <4>2, DataIs
      <3>2. map = freeMap \ (Range(hdr.dataSectors) \cup {sector})
        BY DEF Deallocated
      <3>3. Range(hdr.dataSectors) \subseteq FileSectors
        BY <3>1, HeaderIs
      <3> HIDE DEF hdr, map
      <3>4. map \in Maps
        BY <2>1, <2>2, <3>2, <3>3 DEF Maps, FileSectors
      <3>5. /\ ToMap(map) \in WriteSet /\ First(d) \in WriteSet /\ Second(d) \in WriteSet
            /\ ToDirectory(d) = <<First(d), Second(d)>>
        BY <2>2, <3>1, <3>4, WritesTyped
      <3>6. pending' = <<ToMap(map)>> \o <<First(d), Second(d)>> /\ aborted' = aborted
        BY <2>4, <3>5 DEF Writes
      <3>7. pending' = <<ToMap(map), First(d), Second(d)>> /\ pending' \in Seq(WriteSet)
        <4> DEFINE w1 == ToMap(map)
                   w2 == First(d)
                   w3 == Second(d)
        <4>1. w1 \in WriteSet /\ w2 \in WriteSet /\ w3 \in WriteSet
          BY <3>5
        <4> HIDE DEF w1, w2, w3
        <4>2. <<w1>> \o <<w2, w3>> = <<w1, w2, w3>> /\ <<w1, w2, w3>> \in Seq(WriteSet)
          BY <4>1, ThreeWrites
        <4> QED
          BY <3>6, <4>2 DEF w1, w2, w3
      <3>8. Unmarks(k, d, map)
        BY <2>2, <3>2, <3>7 DEF Unmarks, hdr
      <3> QED
        BY <2>2, <3>1, <3>4, <3>6, <3>7, <3>8
    <2> QED
      BY <1>1, <1>2, <1>4, <2>2, <2>3, <2>4 DEF k, sector, d
  <1> QED
    BY <1>3, <1>4

LEMMA AmountIs ==
    ASSUME NEW f \in Handles, f.seekPosition <= f.hdr.numBytes, NEW m \in Nat
    PROVE  /\ Amount(f, m) \in Nat /\ Amount(f, m) <= m
           /\ f.seekPosition + Amount(f, m) <= f.hdr.numBytes
  <1>1. f.hdr \in Headers /\ f.seekPosition \in Nat
    BY DEF Handles
  <1>2. f.hdr.numBytes \in Nat
    BY <1>1, HeaderIs
  <1> DEFINE rest == f.hdr.numBytes - f.seekPosition
  <1>3. rest \in Nat
    BY <1>1, <1>2
  <1> HIDE DEF rest
  <1>4. Min({m, rest}) \in {m, rest} /\ Min({m, rest}) <= m /\ Min({m, rest}) <= rest
    BY <1>3, MinOfTwo
  <1>5. Amount(f, m) = 0 \/ Amount(f, m) = Min({m, rest})
    BY DEF Amount, rest
  <1>6. Amount(f, m) \in Nat /\ Amount(f, m) <= m /\ Amount(f, m) <= rest
    BY <1>3, <1>4, <1>5
  <1> QED
    BY <1>1, <1>2, <1>6 DEF rest

(* Moving on in a file changes nothing of it but the position. *)
LEMMA SeekIs ==
    ASSUME Shape, NEW i \in Ids, fileTable[i] # None, NEW m \in Nat,
           Seek(i, Amount(fileTable[i], m))
    PROVE  /\ fileTable' \in [Ids -> {None} \cup Handles]
           /\ \A j \in Ids : fileTable'[j] # None =>
                 /\ fileTable[j] # None
                 /\ fileTable'[j].name = fileTable[j].name /\ fileTable'[j].hdr = fileTable[j].hdr
                 /\ fileTable'[j].seekPosition <= fileTable'[j].hdr.numBytes
  <1> DEFINE f == fileTable[i]
             n == Amount(f, m)
             g == [name |-> f.name, hdr |-> f.hdr, seekPosition |-> f.seekPosition + n]
  <1>1. f \in Handles /\ f.seekPosition <= f.hdr.numBytes
    BY DEF Shape
  <1>2. n \in Nat /\ f.seekPosition + n <= f.hdr.numBytes
    BY <1>1, AmountIs
  <1>3. f = [name |-> f.name, hdr |-> f.hdr, seekPosition |-> f.seekPosition]
        /\ f.name \in Names /\ f.hdr \in Headers /\ f.seekPosition \in Nat
    BY <1>1 DEF Handles
  <1>4. fileTable' = [fileTable EXCEPT ![i].seekPosition = f.seekPosition + n]
    BY DEF Seek
  <1>5. fileTable \in [Ids -> {None} \cup Handles]
    BY DEF Shape
  <1> HIDE DEF n
  <1>6. fileTable'[i] = g /\ \A j \in Ids \ {i} : fileTable'[j] = fileTable[j]
    BY <1>3, <1>4, <1>5
  <1>7. DOMAIN fileTable' = Ids /\ fileTable' = [j \in Ids |-> fileTable'[j]]
    BY <1>4, <1>5
  <1>8. g \in Handles
    BY <1>2, <1>3 DEF Handles
  <1>9. fileTable' \in [Ids -> {None} \cup Handles]
    BY <1>5, <1>6, <1>7, <1>8
  <1>10. ASSUME NEW j \in Ids, fileTable'[j] # None
         PROVE  /\ fileTable[j] # None
                /\ fileTable'[j].name = fileTable[j].name /\ fileTable'[j].hdr = fileTable[j].hdr
                /\ fileTable'[j].seekPosition <= fileTable'[j].hdr.numBytes
    <2>1. CASE j = i
      BY <1>2, <1>6, <2>1
    <2>2. CASE j # i
      BY <1>6, <1>10, <2>2 DEF Shape
    <2> QED
      BY <2>1, <2>2
  <1> QED
    BY <1>9, <1>10

LEMMA ReadIs ==
    ASSUME Shape, NEW i \in Ids, NEW n \in Lengths, Read(i, n)
    PROVE  /\ pending = << >> /\ ~aborted
           /\ UNCHANGED <<disk, freeMap, directory, pending, boots, aborted>>
           /\ fileTable[i] # None /\ n \in Nat /\ Seek(i, Amount(fileTable[i], n))
  BY Constants DEF Read, Running, Returns

LEMMA WriteOpIs ==
    ASSUME Shape, NEW i \in Ids, NEW from \in Writings, Write(i, from)
    PROVE  /\ pending = << >> /\ ~aborted
           /\ UNCHANGED <<disk, freeMap, directory, boots, aborted>>
           /\ fileTable[i] # None /\ Len(from) \in Nat /\ Seek(i, Amount(fileTable[i], Len(from)))
           /\ \/ pending' = pending
              \/ /\ pending' \in Seq(WriteSet)
                 /\ \A k \in DOMAIN pending' :
                       /\ pending'[k].to = "Sector" /\ pending'[k].contents \in Datas
                       /\ pending'[k].sector \in Range(fileTable[i].hdr.dataSectors)
  <1> DEFINE f    == fileTable[i]
             n    == Amount(f, Len(from))
             some == SubSeq(from, 1, n)
  <1>1. /\ Running /\ f # None /\ Seek(i, n)
        /\ \/ n = 0 /\ Returns(<<"Write", 0>>)
           \/ n # 0 /\ \E c \in Bytes :
                 Writes(<<"Write", n>>, SectorWrites(f.hdr, f.seekPosition, some, c))
    BY DEF Write
  <1>2. from \in Seq(Bytes) /\ Len(from) \in Nat
    BY Constants
  <1>3. f \in Handles /\ f.seekPosition <= f.hdr.numBytes
    BY <1>1 DEF Shape
  <1>4. n \in Nat /\ n <= Len(from) /\ f.seekPosition + n <= f.hdr.numBytes
    BY <1>2, <1>3, AmountIs
  <1>5. pending = << >> /\ ~aborted /\ UNCHANGED <<disk, freeMap, directory, boots, aborted>>
    BY <1>1 DEF Running, Returns, Writes
  <1> HIDE DEF n
  <1>6. CASE n = 0
    <2>1. pending' = pending
      BY <1>1, <1>6 DEF Returns
    <2> QED
      BY <1>1, <1>2, <1>5, <2>1 DEF n
  <1>7. CASE n # 0
    <2>1. PICK c \in Bytes : Writes(<<"Write", n>>, SectorWrites(f.hdr, f.seekPosition, some, c))
      BY <1>1, <1>7
    <2>2. pending' = SectorWrites(f.hdr, f.seekPosition, some, c)
      BY <2>1 DEF Writes
    <2>3. some \in Seq(Bytes) /\ Len(some) = n
      BY <1>2, <1>4
    <2>4. f.hdr \in Headers /\ f.seekPosition \in Nat
      BY <1>3 DEF Handles
    <2> HIDE DEF some
    <2>5. Len(some) > 0 /\ f.seekPosition + Len(some) <= f.hdr.numBytes
      BY <1>4, <1>7, <2>3
    <2>6. /\ pending' \in Seq(WriteSet)
          /\ \A k \in DOMAIN pending' :
                /\ pending'[k].to = "Sector" /\ pending'[k].contents \in Datas
                /\ pending'[k].sector \in Range(f.hdr.dataSectors)
      BY <2>2, <2>3, <2>4, <2>5, SectorWritesAre
    <2> QED
      BY <1>1, <1>2, <1>5, <2>6 DEF n
  <1> QED
    BY <1>6, <1>7

LEMMA OpenIs ==
    ASSUME Shape, NEW name \in Names, Open(name)
    PROVE  LET k   == Min(FindIndex(directory, name))
               hdr == disk[directory[k].sector]
           IN  /\ pending = << >> /\ ~aborted
               /\ UNCHANGED <<disk, freeMap, directory, pending, boots>>
               /\ \/ UNCHANGED <<fileTable, aborted>>
                  \/ /\ FindIndex(directory, name) # {} /\ k \in Entries
                     /\ directory[k].inUse /\ directory[k].name = name
                     /\ \/ ~IsHeader(hdr) /\ aborted' = TRUE /\ UNCHANGED fileTable
                        \/ /\ hdr \in Headers /\ UNCHANGED aborted
                           /\ \E i \in Ids : fileTable' = [fileTable EXCEPT ![i] =
                                   [name |-> name, hdr |-> hdr, seekPosition |-> 0]]
  <1> DEFINE k   == Min(FindIndex(directory, name))
             f   == OpenFile(name)
             found == FindIndex(directory, name) # {}
  <1>1. /\ Running
        /\ \/ ~found /\ Returns(<<"Open", -1>>) /\ UNCHANGED fileTable
           \/ found /\ ~IsHeader(f.hdr) /\ Abort
           \/ found /\ IsHeader(f.hdr) /\ Returns(<<"Open", -1>>) /\ UNCHANGED fileTable
           \/ /\ found /\ IsHeader(f.hdr) /\ FreeIds # {} /\ Returns(<<"Open", Min(FreeIds)>>)
              /\ fileTable' = [fileTable EXCEPT ![Min(FreeIds)] = f]
    BY DEF Open
  <1>2. pending = << >> /\ ~aborted /\ UNCHANGED <<disk, freeMap, directory, pending, boots>>
    BY <1>1 DEF Running, Returns, Abort
  <1>3. CASE ~found
    BY <1>1, <1>2, <1>3 DEF Returns
  <1>4. CASE found
    <2>1. directory \in Directories
      BY DEF Shape
    <2>2. /\ k \in Entries /\ directory[k].inUse /\ directory[k].name = name
          /\ Find(directory, name) = directory[k].sector /\ directory[k].sector \in FileSectors
      BY <1>4, <2>1, Searched
    <2> HIDE DEF k
    <2>3. f = [name |-> name, hdr |-> disk[directory[k].sector], seekPosition |-> 0]
      BY <2>2 DEF OpenFile
    <2> HIDE DEF f
    <2>4. f.hdr = disk[directory[k].sector]
      BY <2>3
    <2>5. CASE ~IsHeader(f.hdr)
      BY <1>1, <1>2, <1>4, <2>2, <2>4, <2>5 DEF Abort, k
    <2>6. CASE IsHeader(f.hdr)
      <3>1. disk[directory[k].sector] \in Headers
        <4>1. directory[k].sector \in Sectors
          BY <2>2 DEF FileSectors
        <4>2. disk[directory[k].sector] \in Headers \cup Datas
          BY <4>1 DEF Shape
        <4> QED
          BY <2>4, <2>6, <4>2, DataIs
      <3>2. CASE UNCHANGED fileTable /\ Returns(<<"Open", -1>>)
        BY <1>2, <3>2 DEF Returns
      <3>3. CASE FreeIds # {} /\ Returns(<<"Open", Min(FreeIds)>>)
                 /\ fileTable' = [fileTable EXCEPT ![Min(FreeIds)] = f]
        <4>1. FreeIds \in SUBSET Nat
          BY Constants DEF FreeIds
        <4>2. Min(FreeIds) \in Ids
          BY <3>3, <4>1, MinInSet DEF FreeIds
        <4>3. UNCHANGED aborted
          BY <3>3 DEF Returns
        <4> QED
          BY <1>2, <1>4, <2>2, <2>3, <3>1, <3>3, <4>2, <4>3 DEF k
      <3> QED
        BY <1>1, <1>4, <2>6, <3>2, <3>3
    <2> QED
      BY <2>5, <2>6
  <1> QED
    BY <1>3, <1>4

-----------------------------------------------------------------------------
(* Shape: every step keeps the types *)

LEMMA InitShape == FileSysInit => Shape
  <1> SUFFICES ASSUME FileSysInit PROVE Shape
    OBVIOUS
  <1>1. disk \in [Sectors -> Headers \cup Datas]
    <2>1. PICK b \in Bytes : disk = [s \in Sectors |-> Data([o \in 0..(SectorSize - 1) |-> b])]
      BY DEF FileSysInit
    <2>2. Data([o \in 0..(SectorSize - 1) |-> b]) \in Datas
      BY DEF Data, Datas
    <2> QED
      BY <2>1, <2>2
  <1>2. freeMap \in Maps
    BY SystemSectorsTyped DEF FileSysInit, Maps
  <1>3. directory \in Directories
    <2>1. 0 \in Sectors
      BY Constants DEF Sectors
    <2> QED
      BY <2>1 DEF FileSysInit, Free, Directories
  <1>4. boots \in 1..MaxBoots
    BY Constants DEF FileSysInit
  <1>5. /\ fileTable \in [Ids -> {None} \cup Handles]
        /\ \A i \in Ids : fileTable[i] = None
    BY DEF FileSysInit
  <1>6. pending \in Seq(WriteSet) /\ aborted \in BOOLEAN
    <2>1. pending = << >> /\ aborted = FALSE
      BY DEF FileSysInit
    <2>2. pending \in Seq(WriteSet)
      BY <2>1
    <2>3. aborted \in BOOLEAN
      BY <2>1
    <2> QED
      BY <2>2, <2>3
  <1> QED
    BY <1>1, <1>2, <1>3, <1>4, <1>5, <1>6 DEF Shape

LEMMA WriteSectorShape == ASSUME Shape, WriteSector PROVE Shape'
  <1> DEFINE w == Head(pending)
  <1>1. /\ pending' \in Seq(WriteSet) /\ UNCHANGED <<fileTable, boots, aborted>>
        /\ \/ /\ w.to = "Sector" /\ w.sector \in FileSectors /\ w.contents \in Headers \cup Datas
              /\ disk' = [disk EXCEPT ![w.sector] = w.contents]
              /\ UNCHANGED <<freeMap, directory>>
           \/ w.map \in Maps /\ freeMap' = w.map /\ UNCHANGED <<disk, directory>>
           \/ /\ w.to \in {"FirstHalf", "SecondHalf"} /\ w.dir \in Directories
              /\ directory' = Half(w.to, directory, w.dir)
              /\ UNCHANGED <<disk, freeMap>>
    BY WriteIs
  <1> HIDE DEF w
  <1>2. disk' \in [Sectors -> Headers \cup Datas]
    BY <1>1 DEF Shape, FileSectors
  <1>3. freeMap' \in Maps
    BY <1>1 DEF Shape
  <1>4. directory' \in Directories
    BY <1>1, HalfIs DEF Shape
  <1> QED
    BY <1>1, <1>2, <1>3, <1>4 DEF Shape

LEMMA RebootShape == ASSUME Shape, Reboot PROVE Shape'
  <1>1. /\ UNCHANGED <<disk, freeMap, directory, aborted>>
        /\ boots' = boots + 1 /\ boots < MaxBoots /\ pending' = << >>
        /\ fileTable' = [i \in Ids |-> None]
    BY DEF Reboot
  <1>2. boots' \in 1..MaxBoots
    BY <1>1, Constants DEF Shape
  <1>3. pending' \in Seq(WriteSet)
    BY <1>1
  <1>4. /\ fileTable' \in [Ids -> {None} \cup Handles]
        /\ \A i \in Ids : fileTable'[i] = None
    BY <1>1
  <1> QED
    BY <1>1, <1>2, <1>3, <1>4 DEF Shape

LEMMA CreateShape == ASSUME Shape, NEW name \in Names, NEW n \in Nat, Create(name, n) PROVE Shape'
  <1>1. /\ UNCHANGED <<disk, freeMap, directory, fileTable, boots, aborted>>
        /\ pending' = pending \/ pending' \in Seq(WriteSet)
    BY CreateIs
  <1> QED
    BY <1>1 DEF Shape

LEMMA RemoveShape == ASSUME Shape, NEW name \in Names, Remove(name) PROVE Shape'
  <1>1. /\ UNCHANGED <<disk, freeMap, directory, fileTable, boots>>
        /\ pending' = pending \/ pending' \in Seq(WriteSet)
        /\ aborted' = aborted \/ aborted' = TRUE
    BY RemoveIs
  <1> QED
    BY <1>1 DEF Shape

LEMMA OpenShape == ASSUME Shape, NEW name \in Names, Open(name) PROVE Shape'
  <1> DEFINE hdr == disk[directory[Min(FindIndex(directory, name))].sector]
             f   == [name |-> name, hdr |-> hdr, seekPosition |-> 0]
  <1>1. /\ UNCHANGED <<disk, freeMap, directory, pending, boots>>
        /\ aborted' = aborted \/ aborted' = TRUE
        /\ \/ UNCHANGED fileTable
           \/ hdr \in Headers /\ \E i \in Ids : fileTable' = [fileTable EXCEPT ![i] = f]
    BY OpenIs
  <1> HIDE DEF hdr
  <1>2. /\ fileTable' \in [Ids -> {None} \cup Handles]
        /\ \A i \in Ids : fileTable'[i] # None => fileTable'[i].seekPosition <= fileTable'[i].hdr.numBytes
    <2>1. CASE UNCHANGED fileTable
      BY <2>1 DEF Shape
    <2>2. CASE hdr \in Headers /\ \E i \in Ids : fileTable' = [fileTable EXCEPT ![i] = f]
      <3>1. PICK i \in Ids : fileTable' = [fileTable EXCEPT ![i] = f]
        BY <2>2
      <3>2. f \in Handles
        BY <2>2 DEF Handles
      <3>3. f.seekPosition <= f.hdr.numBytes
        <4>1. hdr.numBytes \in Nat
          BY <2>2, HeaderIs
        <4> QED
          BY <4>1
      <3> HIDE DEF f
      <3>4. fileTable \in [Ids -> {None} \cup Handles]
        BY DEF Shape
      <3>5. fileTable'[i] = f /\ \A j \in Ids \ {i} : fileTable'[j] = fileTable[j]
        BY <3>1, <3>4
      <3>6. fileTable' \in [Ids -> {None} \cup Handles]
        BY <3>1, <3>2, <3>4
      <3> QED
        BY <3>3, <3>5, <3>6 DEF Shape
    <2> QED
      BY <1>1, <2>1, <2>2
  <1> QED
    BY <1>1, <1>2 DEF Shape

LEMMA CloseIs ==
    ASSUME Shape, NEW i \in Ids, Close(i)
    PROVE  /\ pending = << >> /\ ~aborted
           /\ UNCHANGED <<disk, freeMap, directory, pending, boots, aborted>>
           /\ fileTable' \in [Ids -> {None} \cup Handles]
           /\ \A j \in Ids : fileTable'[j] # None => fileTable'[j] = fileTable[j] /\ fileTable[j] # None
  <1>1. fileTable' = [fileTable EXCEPT ![i] = None] /\ fileTable \in [Ids -> {None} \cup Handles]
    BY DEF Close, Shape
  <1>2. fileTable'[i] = None /\ \A j \in Ids \ {i} : fileTable'[j] = fileTable[j]
    BY <1>1
  <1>3. /\ pending = << >> /\ ~aborted
        /\ UNCHANGED <<disk, freeMap, directory, pending, boots, aborted>>
    BY DEF Close, Running, Returns
  <1>4. fileTable' \in [Ids -> {None} \cup Handles]
    BY <1>1
  <1> QED
    BY <1>2, <1>3, <1>4

LEMMA CloseShape == ASSUME Shape, NEW i \in Ids, Close(i) PROVE Shape'
  <1>1. /\ UNCHANGED <<disk, freeMap, directory, pending, boots, aborted>>
        /\ fileTable' \in [Ids -> {None} \cup Handles]
        /\ \A j \in Ids : fileTable'[j] # None => fileTable'[j] = fileTable[j] /\ fileTable[j] # None
    BY CloseIs
  <1> QED
    BY <1>1 DEF Shape

LEMMA ReadShape == ASSUME Shape, NEW i \in Ids, NEW n \in Lengths, Read(i, n) PROVE Shape'
  <1>1. /\ UNCHANGED <<disk, freeMap, directory, pending, boots, aborted>>
        /\ fileTable[i] # None /\ n \in Nat /\ Seek(i, Amount(fileTable[i], n))
    BY ReadIs
  <1>2. /\ fileTable' \in [Ids -> {None} \cup Handles]
        /\ \A j \in Ids : fileTable'[j] # None => fileTable'[j].seekPosition <= fileTable'[j].hdr.numBytes
    BY <1>1, SeekIs
  <1> QED
    BY <1>1, <1>2 DEF Shape

LEMMA WriteShape == ASSUME Shape, NEW i \in Ids, NEW from \in Writings, Write(i, from) PROVE Shape'
  <1>1. /\ UNCHANGED <<disk, freeMap, directory, boots, aborted>>
        /\ fileTable[i] # None /\ Len(from) \in Nat /\ Seek(i, Amount(fileTable[i], Len(from)))
        /\ pending' = pending \/ pending' \in Seq(WriteSet)
    BY WriteOpIs
  <1>2. /\ fileTable' \in [Ids -> {None} \cup Handles]
        /\ \A j \in Ids : fileTable'[j] # None => fileTable'[j].seekPosition <= fileTable'[j].hdr.numBytes
    BY <1>1, SeekIs
  <1> QED
    BY <1>1, <1>2 DEF Shape

-----------------------------------------------------------------------------
(* Lemmas: what the files have in common with the disk *)

LEMMA FilesStay ==
    ASSUME NEW O, FilesWhole(O),
           \A i \in O : directory'[i] = directory[i],
           \A i \in O : disk'[directory[i].sector] = disk[directory[i].sector]
    PROVE  /\ FilesWhole(O)' /\ TakenBy(O)' = TakenBy(O)
           /\ \A i \in O : DataOf(i)' = DataOf(i)
  <1>1. \A i \in O : DataOf(i)' = DataOf(i) /\ FileOf(i)' = FileOf(i)
    BY DEF DataOf, FileOf
  <1>2. TakenBy(O)' = TakenBy(O)
    BY <1>1 DEF TakenBy
  <1>3. FilesWhole(O)'
    BY <1>1 DEF FilesWhole
  <1> QED
    BY <1>1, <1>2, <1>3

(* The open files stay what they are, up to those that are closed.           *)
LEMMA OpenedStay ==
    ASSUME NEW O, OpenedOf(O),
           \A i \in O : directory'[i] = directory[i],
           \A i \in O : disk'[directory[i].sector] = disk[directory[i].sector],
           \A j \in Ids : fileTable'[j] # None =>
              /\ fileTable[j] # None
              /\ fileTable'[j].name = fileTable[j].name /\ fileTable'[j].hdr = fileTable[j].hdr
    PROVE  OpenedOf(O)'
  BY DEF OpenedOf

LEMMA OrderStays ==
    ASSUME NEW O, OrderOf(O),
           \A i \in O : directory'[i] = directory[i],
           \A i \in O : disk'[directory[i].sector] = disk[directory[i].sector],
           UNCHANGED fileTable
    PROVE  OrderOf(O)' /\ TakenBy(O)' = TakenBy(O) /\ \A i \in O : DataOf(i)' = DataOf(i)
  BY FilesStay, OpenedStay DEF OrderOf

(* With fewer files. *)
LEMMA Fewer ==
    ASSUME NEW O, FilesWhole(O), NEW P \in SUBSET O
    PROVE  FilesWhole(P) /\ TakenBy(P) \subseteq TakenBy(O)
  BY DEF FilesWhole, TakenBy

(* A file has its sectors, and they are the disk's. *)
LEMMA FileTaken ==
    ASSUME Shape, NEW O \in SUBSET InUse, FilesWhole(O), NEW i \in O
    PROVE  /\ disk[directory[i].sector] \in Headers
           /\ FileOf(i) \subseteq TakenBy(O) /\ FileOf(i) \subseteq FileSectors
           /\ directory[i].sector \in TakenBy(O) /\ directory[i].sector \in FileSectors
  <1>1. i \in Entries /\ directory[i].inUse /\ directory \in Directories
    BY DEF InUse, Shape
  <1>2. directory[i].sector \in FileSectors
    BY <1>1, EntryIs
  <1>3. disk[directory[i].sector] \in Headers
    BY DEF FilesWhole
  <1>4. DataOf(i) \subseteq FileSectors
    BY <1>3, HeaderIs DEF DataOf
  <1> QED
    BY <1>2, <1>3, <1>4 DEF FileOf, TakenBy, FileSectors

(* When no operation is in progress, the disk is in order.                   *)
LEMMA AtRest ==
    ASSUME Shape, InOrder, pending = << >>
    PROVE  Resting
  <1>1. ~Creating
    BY DEF Creating, Creates
  <1>2. ~Removing
    BY DEF Removing, Removes
  <1> QED
    BY <1>1, <1>2 DEF InOrder

-----------------------------------------------------------------------------
(* InOrder: the operations *)

LEMMA InitInOrder == FileSysInit => InOrder
  <1> SUFFICES ASSUME FileSysInit PROVE InOrder
    OBVIOUS
  <1>1. InUse = {}
    BY DEF FileSysInit, InUse, Free
  <1>2. \A i \in Ids : fileTable[i] = None
    BY DEF FileSysInit
  <1>3. OrderOf(InUse)
    BY <1>1, <1>2 DEF OrderOf, FilesWhole, OpenedOf
  <1>4. freeMap = TakenBy(InUse)
    BY <1>1, SystemSectorsTyped DEF FileSysInit, TakenBy
  <1>5. \A k \in DOMAIN pending : FALSE
    BY DEF FileSysInit
  <1> QED
    BY <1>3, <1>4, <1>5 DEF FileSysInit, InOrder, Resting

LEMMA SameDisk ==
    ASSUME UNCHANGED <<disk, directory>>
    PROVE  /\ InUse' = InUse /\ TakenBy(InUse)' = TakenBy(InUse)
           /\ FilesWhole(InUse) => FilesWhole(InUse)'
           /\ \A i : DataOf(i)' = DataOf(i)
  <1>1. InUse' = InUse
    BY DEF InUse
  <1>2. \A i : DataOf(i)' = DataOf(i) /\ FileOf(i)' = FileOf(i)
    BY DEF DataOf, FileOf
  <1>3. TakenBy(InUse)' = TakenBy(InUse)
    BY <1>1, <1>2 DEF TakenBy
  <1>4. FilesWhole(InUse) => FilesWhole(InUse)'
    BY <1>1, <1>2 DEF FilesWhole
  <1> QED
    BY <1>1, <1>2, <1>3, <1>4

(* An operation that changes nothing on the disk and nothing of what is open. *)
LEMMA RestGoesOn ==
    ASSUME Shape, Resting, ~aborted, pending = << >>,
           UNCHANGED <<disk, freeMap, directory, pending, aborted>>,
           \A j \in Ids : fileTable'[j] # None =>
              /\ fileTable[j] # None
              /\ fileTable'[j].name = fileTable[j].name /\ fileTable'[j].hdr = fileTable[j].hdr
    PROVE  InOrder'
  <1>1. InUse' = InUse
    BY DEF InUse
  <1>2. FilesWhole(InUse)' /\ TakenBy(InUse)' = TakenBy(InUse)
    BY SameDisk DEF Resting, OrderOf
  <1>5. OpenedOf(InUse)'
    BY <1>1 DEF Resting, OrderOf, OpenedOf
  <1>3. freeMap' = TakenBy(InUse)'
    BY <1>2 DEF Resting
  <1>4. \A k \in DOMAIN pending' : FALSE
    OBVIOUS
  <1> QED
    BY <1>2, <1>3, <1>4, <1>5 DEF InOrder, Resting, OrderOf

LEMMA CreateInOrder ==
    ASSUME Shape, InOrder, NEW name \in Names, NEW n \in Nat, Create(name, n)
    PROVE  InOrder'
  <1>1. /\ pending = << >> /\ ~aborted
        /\ UNCHANGED <<disk, freeMap, directory, fileTable, boots, aborted>>
    BY CreateIs
  <1>2. Resting
    BY <1>1, AtRest
  <1>3. CASE pending' = pending
    BY <1>1, <1>2, <1>3, RestGoesOn
  <1>4. ASSUME NEW k \in Entries, NEW sector \in Sectors \ freeMap, NEW map \in Maps,
               NEW d \in Directories, NEW hdr \in Headers, Decides(name, k, sector, hdr, d, map)
        PROVE  InOrder'
    <2> DEFINE O == InUse \ {k}
    <2>1. O = InUse /\ O' = O
      BY <1>1, <1>4 DEF InUse, Decides
    <2>2. OrderOf(O) /\ freeMap = TakenBy(O)
      BY <1>2, <2>1 DEF Resting
    <2>3. \A j \in O : directory[j].name # name
      BY <1>4 DEF FindIndex, InUse, Decides
    <2> HIDE DEF O
    <2>4. OrderOf(O)' /\ TakenBy(O)' = TakenBy(O)
      <3>1. \A i \in O : directory'[i] = directory[i] /\ disk'[directory[i].sector] = disk[directory[i].sector]
        BY <1>1
      <3>2. UNCHANGED fileTable
        BY <1>1
      <3> QED
        BY <2>1, <2>2, <3>1, <3>2 DEF OrderOf, FilesWhole, OpenedOf, TakenBy, FileOf, DataOf
    <2>5. Creates(k, sector, hdr, name, map, d)'
      BY <1>1, <1>4, <2>1, <2>2, <2>3, <2>4 DEF Creates, O, Decides
    <2> QED
      BY <1>1, <1>4, <2>5 DEF InOrder, Creating
  <1>5. CASE pending' # pending
    <2>1. PICK k \in Entries, sector \in Sectors \ freeMap, map \in Maps, d \in Directories, hdr \in Headers :
             Decides(name, k, sector, hdr, d, map)
      BY <1>5, CreateIs
    <2> QED
      BY <1>4, <2>1
  <1> QED
    BY <1>3, <1>5

LEMMA OpenInOrder ==
    ASSUME Shape, InOrder, NEW name \in Names, Open(name)
    PROVE  InOrder'
  <1> DEFINE k   == Min(FindIndex(directory, name))
             hdr == disk[directory[k].sector]
             f   == [name |-> name, hdr |-> hdr, seekPosition |-> 0]
  <1>1. /\ pending = << >> /\ ~aborted
        /\ UNCHANGED <<disk, freeMap, directory, pending, boots>>
        /\ \/ UNCHANGED <<fileTable, aborted>>
           \/ /\ k \in Entries /\ directory[k].inUse /\ directory[k].name = name
              /\ \/ ~IsHeader(hdr)
                 \/ UNCHANGED aborted /\ \E i \in Ids : fileTable' = [fileTable EXCEPT ![i] = f]
    BY OpenIs
  <1> HIDE DEF k
  <1>2. Resting
    BY <1>1, AtRest
  <1>3. CASE UNCHANGED <<fileTable, aborted>>
    BY <1>1, <1>2, <1>3, RestGoesOn
  <1>4. CASE k \in Entries /\ directory[k].inUse /\ directory[k].name = name
    <2>1. k \in InUse
      BY <1>4 DEF InUse
    <2>2. hdr \in Headers
      BY <1>2, <2>1 DEF Resting, OrderOf, FilesWhole
    <2>3. IsHeader(hdr)
      BY <2>2, HeaderIs
    <2>4. ASSUME UNCHANGED aborted, NEW i \in Ids, fileTable' = [fileTable EXCEPT ![i] = f]
          PROVE  InOrder'
      <3>1. InUse' = InUse
        BY <1>1 DEF InUse
      <3>2. FilesWhole(InUse)' /\ TakenBy(InUse)' = TakenBy(InUse)
        BY <1>1, <1>2, SameDisk DEF Resting, OrderOf
      <3>3. fileTable'[i] = f /\ \A j \in Ids \ {i} : fileTable'[j] = fileTable[j]
        BY <2>4 DEF Shape
      <3>4. f.name = name /\ f.hdr = hdr
        OBVIOUS
      <3> HIDE DEF f
      <3>5. OpenedOf(InUse)'
        <4> SUFFICES ASSUME NEW j \in Ids, fileTable'[j] # None
                     PROVE  \E e \in InUse : /\ directory[e].name = fileTable'[j].name
                                            /\ disk[directory[e].sector] = fileTable'[j].hdr
          BY <1>1, <3>1 DEF OpenedOf
        <4>1. CASE j = i
          BY <1>4, <2>1, <3>3, <3>4, <4>1
        <4>2. CASE j # i
          BY <1>2, <3>3, <4>2 DEF Resting, OrderOf, OpenedOf
        <4> QED
          BY <4>1, <4>2
      <3>6. freeMap' = TakenBy(InUse)'
        BY <1>1, <1>2, <3>2 DEF Resting
      <3>7. \A m \in DOMAIN pending' : FALSE
        BY <1>1
      <3> QED
        BY <1>1, <2>4, <3>2, <3>5, <3>6, <3>7 DEF InOrder, Resting, OrderOf
    <2> QED
      BY <1>1, <1>3, <2>3, <2>4
  <1> QED
    BY <1>1, <1>3, <1>4

LEMMA CloseInOrder == ASSUME Shape, InOrder, NEW i \in Ids, Close(i) PROVE InOrder'
  <1>1. /\ pending = << >> /\ ~aborted
        /\ UNCHANGED <<disk, freeMap, directory, pending, aborted>>
        /\ \A j \in Ids : fileTable'[j] # None =>
              /\ fileTable[j] # None
              /\ fileTable'[j].name = fileTable[j].name /\ fileTable'[j].hdr = fileTable[j].hdr
    BY CloseIs
  <1>2. Resting
    BY <1>1, AtRest
  <1> QED
    BY <1>1, <1>2, RestGoesOn

LEMMA ReadInOrder == ASSUME Shape, InOrder, NEW i \in Ids, NEW n \in Lengths, Read(i, n) PROVE InOrder'
  <1>1. /\ pending = << >> /\ ~aborted
        /\ UNCHANGED <<disk, freeMap, directory, pending, aborted>>
        /\ fileTable[i] # None /\ n \in Nat /\ Seek(i, Amount(fileTable[i], n))
    BY ReadIs
  <1>2. \A j \in Ids : fileTable'[j] # None =>
           /\ fileTable[j] # None
           /\ fileTable'[j].name = fileTable[j].name /\ fileTable'[j].hdr = fileTable[j].hdr
    BY <1>1, SeekIs
  <1>3. Resting
    BY <1>1, AtRest
  <1> QED
    BY <1>1, <1>2, <1>3, RestGoesOn

LEMMA WriteInOrder ==
    ASSUME Shape, InOrder, NEW i \in Ids, NEW from \in Writings, Write(i, from)
    PROVE  InOrder'
  <1>1. /\ pending = << >> /\ ~aborted
        /\ UNCHANGED <<disk, freeMap, directory, aborted>>
        /\ fileTable[i] # None /\ Len(from) \in Nat /\ Seek(i, Amount(fileTable[i], Len(from)))
        /\ \/ pending' = pending
           \/ \A k \in DOMAIN pending' :
                 /\ pending'[k].to = "Sector" /\ pending'[k].contents \in Datas
                 /\ pending'[k].sector \in Range(fileTable[i].hdr.dataSectors)
    BY WriteOpIs
  <1>2. \A j \in Ids : fileTable'[j] # None =>
           /\ fileTable[j] # None
           /\ fileTable'[j].name = fileTable[j].name /\ fileTable'[j].hdr = fileTable[j].hdr
    BY <1>1, SeekIs
  <1>3. Resting
    BY <1>1, AtRest
  <1>4. CASE pending' = pending
    BY <1>1, <1>2, <1>3, <1>4, RestGoesOn
  <1>5. CASE \A k \in DOMAIN pending' :
                 /\ pending'[k].to = "Sector" /\ pending'[k].contents \in Datas
                 /\ pending'[k].sector \in Range(fileTable[i].hdr.dataSectors)
    <2>1. PICK e \in InUse : disk[directory[e].sector] = fileTable[i].hdr
      BY <1>1, <1>3 DEF Resting, OrderOf, OpenedOf
    <2>2. InUse' = InUse
      BY <1>1 DEF InUse
    <2>3. FilesWhole(InUse)' /\ TakenBy(InUse)' = TakenBy(InUse)
      BY <1>1, <1>3, SameDisk DEF Resting, OrderOf
    <2>4. OpenedOf(InUse)'
      BY <1>1, <1>2, <1>3, <2>2 DEF Resting, OrderOf, OpenedOf
    <2>5. DataOf(e)' = Range(fileTable[i].hdr.dataSectors)
      BY <1>1, <2>1 DEF DataOf
    <2>6. freeMap' = TakenBy(InUse)'
      BY <1>1, <1>3, <2>3 DEF Resting
    <2>7. \A k \in DOMAIN pending' :
             /\ pending'[k].to = "Sector" /\ pending'[k].contents \in Datas
             /\ \E a \in InUse' : pending'[k].sector \in DataOf(a)'
      BY <1>5, <2>2, <2>5
    <2> QED
      BY <1>1, <2>3, <2>4, <2>6, <2>7 DEF InOrder, Resting, OrderOf
  <1> QED
    BY <1>1, <1>4, <1>5

LEMMA RemoveInOrder ==
    ASSUME Shape, InOrder, NEW name \in Names, Remove(name)
    PROVE  InOrder'
  <1> DEFINE k   == Min(FindIndex(directory, name))
             hdr == disk[directory[k].sector]
  <1>1. /\ pending = << >> /\ ~aborted
        /\ UNCHANGED <<disk, freeMap, directory, fileTable>>
    BY RemoveIs
  <1>2. Resting
    BY <1>1, AtRest
  <1>3. CASE pending' = pending /\ aborted' = aborted
    BY <1>1, <1>2, <1>3, RestGoesOn
  <1>4. CASE ~(pending' = pending /\ aborted' = aborted)
    <2>1. /\ k \in Entries /\ directory[k].inUse /\ directory[k].name = name /\ ~IsOpen(name)
          /\ \/ ~IsHeader(hdr) \/ ~(Range(hdr.dataSectors) \subseteq freeMap)
             \/ /\ aborted' = aborted
                /\ \E map \in Maps, d \in Directories : Unmarks(k, d, map)
      BY <1>4, RemoveIs
    <2> HIDE DEF k
    <2>2. PICK a \in Entries : a = k
      BY <2>1
    <2>3. a \in InUse
      BY <2>1, <2>2 DEF InUse
    <2>4. PICK whole : whole = InUse
      OBVIOUS
    <2>5. FilesWhole(whole) /\ OpenedOf(whole) /\ freeMap = TakenBy(whole) /\ whole \in SUBSET InUse
      BY <1>2, <2>4 DEF Resting, OrderOf
    <2>6. hdr \in Headers /\ FileOf(a) \subseteq freeMap /\ hdr = disk[directory[a].sector]
      BY <2>2, <2>3, <2>4, <2>5, FileTaken
    <2>7. IsHeader(hdr) /\ Range(hdr.dataSectors) = DataOf(a) /\ DataOf(a) \subseteq freeMap
      BY <2>6, HeaderIs DEF FileOf, DataOf
    <2>8. PICK map \in Maps, d \in Directories :
             /\ map = freeMap \ (Range(hdr.dataSectors) \cup {directory[k].sector})
             /\ ~d[k].inUse
             /\ \A j \in Entries \ {k} : d[j] = directory[j]
             /\ pending' = <<ToMap(map), First(d), Second(d)>>
      BY <2>1, <2>7 DEF Unmarks
    <2>9. aborted' = aborted
      BY <2>1, <2>7
    <2> DEFINE O == whole \ {a}
    <2>10. map = TakenBy(O)
      <3>1. map = freeMap \ FileOf(a)
        BY <2>2, <2>7, <2>8 DEF FileOf
      <3>2. FileOf(a) \cap SystemSectors = {}
        BY <2>3, <2>4, <2>5, FileTaken DEF FileSectors
      <3>3. \A j \in O : FileOf(j) \cap FileOf(a) = {}
        BY <2>3, <2>4, <2>5 DEF FilesWhole
      <3>4. map \subseteq TakenBy(O)
        BY <2>5, <3>1 DEF TakenBy
      <3>5. TakenBy(O) \subseteq map
        BY <2>5, <3>1, <3>2, <3>3 DEF TakenBy
      <3> QED
        BY <3>4, <3>5
    <2>11. FilesWhole(O)
      BY <2>5, Fewer
    <2>12. OpenedOf(O)
      <3> SUFFICES ASSUME NEW i \in Ids, fileTable[i] # None
                   PROVE  \E e \in O : /\ directory[e].name = fileTable[i].name
                                       /\ disk[directory[e].sector] = fileTable[i].hdr
        BY DEF OpenedOf
      <3>1. PICK e \in whole : /\ directory[e].name = fileTable[i].name
                              /\ disk[directory[e].sector] = fileTable[i].hdr
        BY <2>5 DEF OpenedOf
      <3>2. directory[a].name = name /\ ~IsOpen(name)
        BY <2>1, <2>2
      <3>3. e # a
        BY <3>1, <3>2 DEF IsOpen
      <3> QED
        BY <3>1, <3>3
    <2>13. InUse' = whole
      BY <1>1, <2>4 DEF InUse
    <2> HIDE DEF O
    <2>14. OrderOf(O)' /\ TakenBy(O)' = TakenBy(O)
      <3>1. /\ \A i \in O : directory'[i] = directory[i]
            /\ \A i \in O : disk'[directory[i].sector] = disk[directory[i].sector]
        BY <1>1
      <3> QED
        BY <1>1, <2>11, <2>12, <3>1, OrderStays DEF OrderOf
    <2>15. FilesWhole(InUse)' /\ freeMap' \subseteq TakenBy(InUse)'
      BY <1>1, <2>4, <2>5, SameDisk
    <2>16. O = InUse' \ {a}
      BY <2>13 DEF O
    <2>17. OrderOf(InUse \ {a})' /\ TakenBy(InUse \ {a})' = TakenBy(O)
      <3>1. (InUse \ {a})' = O
        BY <2>16
      <3> QED
        BY <2>14, <3>1 DEF OrderOf, FilesWhole, OpenedOf, TakenBy
    <2>18. Removes(a, map, d)'
      BY <2>2, <1>1, <2>8, <2>10, <2>15, <2>17 DEF Removes
    <2> QED
      BY <1>1, <2>9, <2>18 DEF InOrder, Removing
  <1> QED
    BY <1>3, <1>4

-----------------------------------------------------------------------------
(* InOrder: the writes of an operation *)

(* A sector of data is written. *)
LEMMA DataWritten ==
    ASSUME Shape, Resting, ~aborted, WriteSector
    PROVE  InOrder'
  <1> DEFINE w == Head(pending)
  <1>1. /\ w \in WriteSet /\ pending # << >> /\ pending \in Seq(WriteSet)
        /\ pending' = Tail(pending) /\ UNCHANGED <<fileTable, aborted>>
    BY WriteIs DEF Shape
  <1>2. w = pending[1] /\ 1 \in DOMAIN pending
    BY <1>1
  <1>3. /\ w.to = "Sector"
        /\ \E e \in InUse : w.sector \in DataOf(e)
    BY <1>2 DEF Resting
  <1>4. /\ disk' = [disk EXCEPT ![w.sector] = w.contents] /\ UNCHANGED <<freeMap, directory>>
        /\ disk \in [Sectors -> Headers \cup Datas]
    BY <1>3, WriteIs DEF Shape
  <1> HIDE DEF w
  <1>5. PICK e \in InUse : w.sector \in DataOf(e)
    BY <1>3
  <1>6. PICK O : O = InUse
    OBVIOUS
  <1>7. FilesWhole(O) /\ OpenedOf(O) /\ freeMap = TakenBy(O) /\ O \in SUBSET InUse
    BY <1>6 DEF Resting, OrderOf
  <1>8. \A i \in O : w.sector # directory[i].sector
    <2> SUFFICES ASSUME NEW i \in O, w.sector = directory[i].sector PROVE FALSE
      OBVIOUS
    <2>1. CASE i = e
      BY <1>5, <1>7, <2>1 DEF FilesWhole
    <2>2. CASE i # e
      <3>1. FileOf(i) \cap FileOf(e) = {}
        BY <1>6, <1>7, <2>2 DEF FilesWhole
      <3> QED
        BY <1>5, <3>1 DEF FileOf
    <2> QED
      BY <2>1, <2>2
  <1>9. \A i \in O : directory'[i] = directory[i] /\ disk'[directory[i].sector] = disk[directory[i].sector]
    <2> SUFFICES ASSUME NEW i \in O
                 PROVE  disk'[directory[i].sector] = disk[directory[i].sector]
      BY <1>4
    <2>1. directory[i].sector \in Sectors
      BY <1>7, FileTaken DEF FileSectors
    <2> QED
      BY <1>4, <1>8, <2>1
  <1>10. OrderOf(O)' /\ TakenBy(O)' = TakenBy(O) /\ \A i \in O : DataOf(i)' = DataOf(i)
    BY <1>1, <1>7, <1>9, OrderStays DEF OrderOf
  <1>11. InUse' = O
    BY <1>4, <1>6 DEF InUse
  <1>12. OrderOf(InUse)' /\ freeMap' = TakenBy(InUse)'
    BY <1>4, <1>7, <1>10, <1>11 DEF OrderOf, FilesWhole, OpenedOf, TakenBy
  <1>13. ASSUME NEW k \in DOMAIN pending'
         PROVE  /\ pending'[k].to = "Sector" /\ pending'[k].contents \in Datas
                /\ \E i \in InUse' : pending'[k].sector \in DataOf(i)'
    <2>1. k + 1 \in DOMAIN pending /\ pending'[k] = pending[k + 1]
      BY <1>1
    <2>2. /\ pending[k + 1].to = "Sector" /\ pending[k + 1].contents \in Datas
          /\ \E i \in InUse : pending[k + 1].sector \in DataOf(i)
      BY <2>1 DEF Resting
    <2> QED
      BY <1>6, <1>10, <1>11, <2>1, <2>2
  <1> QED
    BY <1>1, <1>12, <1>13 DEF InOrder, Resting

(* The next write of Create.                                                 *)
LEMMA CreateGoesOn ==
    ASSUME Shape, Creating, ~aborted, WriteSector
    PROVE  InOrder'
  <1> DEFINE w == Head(pending)
  <1>1. PICK k \in Entries, sector \in Sectors, name \in Names, map \in Maps,
             d \in Directories, hdr \in Headers : Creates(k, sector, hdr, name, map, d)
    BY DEF Creating
  <1>2. PICK O : O = InUse \ {k}
    OBVIOUS
  <1>3. /\ FilesWhole(O) /\ OpenedOf(O) /\ freeMap = TakenBy(O) /\ O \in SUBSET InUse /\ k \notin O
        /\ sector \in Sectors \ freeMap
        /\ Range(hdr.dataSectors) \cap freeMap = {}
        /\ sector \notin Range(hdr.dataSectors)
        /\ map = freeMap \cup {sector} \cup Range(hdr.dataSectors)
        /\ \A j \in O : directory[j].name # name
        /\ \A j \in Entries \ {k} : d[j] = directory[j]
        /\ d[k] = [inUse |-> TRUE, name |-> name, sector |-> sector]
    BY <1>1, <1>2 DEF Creates, OrderOf
  <1> DEFINE w1 == ToSector(sector, hdr)
             w2 == First(d)
             w3 == Second(d)
             w4 == ToMap(map)
  <1>4. \/ pending = <<w1, w2, w3, w4>>
        \/ disk[sector] = hdr /\ pending = <<w2, w3, w4>>
        \/ disk[sector] = hdr /\ pending = <<w3, w4>> /\ Half("SecondHalf", directory, d) = d
        \/ disk[sector] = hdr /\ pending = <<w4>> /\ directory = d
    BY <1>1 DEF Creates
  <1>5. sector \in FileSectors /\ hdr \in Headers \cup Datas
    BY <1>3 DEF Shape, Maps, FileSectors
  <1>6. /\ w1 \in WriteSet /\ w2 \in WriteSet /\ w3 \in WriteSet /\ w4 \in WriteSet
        /\ w1.to = "Sector" /\ w1.sector = sector /\ w1.contents = hdr
        /\ w2.to = "FirstHalf" /\ w2.dir = d /\ w3.to = "SecondHalf" /\ w3.dir = d
        /\ w4.to = "FreeMap" /\ w4.map = map
    BY <1>5, WritesTyped
  <1> HIDE DEF w1, w2, w3, w4
  <1>7. /\ pending' = Tail(pending) /\ UNCHANGED <<fileTable, aborted>>
        /\ w.to = "Sector" => disk' = [disk EXCEPT ![w.sector] = w.contents] /\ UNCHANGED <<freeMap, directory>>
        /\ w.to = "FreeMap" => freeMap' = w.map /\ UNCHANGED <<disk, directory>>
        /\ w.to \in {"FirstHalf", "SecondHalf"} =>
              directory' = Half(w.to, directory, w.dir) /\ UNCHANGED <<disk, freeMap>>
    BY WriteIs
  <1>8. directory \in Directories /\ disk \in [Sectors -> Headers \cup Datas]
    BY DEF Shape
  <1>9. \A i \in O : directory[i].sector \in Sectors /\ directory[i].sector \in freeMap /\ i \in Entries
    BY <1>3, FileTaken DEF FileSectors, InUse
  (* Until the map is written, the files in O and the map stay what they are. *)
  <1>10. ASSUME UNCHANGED freeMap, disk'[sector] = hdr,
                \A s \in Sectors \ {sector} : disk'[s] = disk[s],
                \A j \in Entries \ {k} : directory'[j] = directory[j],
                \/ pending' = <<w2, w3, w4>>
                \/ pending' = <<w3, w4>> /\ Half("SecondHalf", directory', d) = d
                \/ pending' = <<w4>> /\ directory' = d
         PROVE  InOrder'
    <2>1. \A i \in O : directory'[i] = directory[i] /\ disk'[directory[i].sector] = disk[directory[i].sector]
      BY <1>3, <1>9, <1>10
    <2>2. OrderOf(O)' /\ TakenBy(O)' = TakenBy(O)
      BY <1>3, <1>7, <2>1, OrderStays DEF OrderOf
    <2>3. (InUse \ {k})' = O
      BY <1>2, <1>10 DEF InUse
    <2>4. OrderOf(InUse \ {k})' /\ freeMap' = TakenBy(InUse \ {k})'
      BY <1>3, <1>10, <2>2, <2>3 DEF OrderOf, FilesWhole, OpenedOf, TakenBy
    <2>5. \A j \in O : directory'[j].name # name
      BY <1>3, <2>1
    <2>6. \A j \in Entries \ {k} : d[j] = directory'[j]
      BY <1>3, <1>10
    <2>7. Creates(k, sector, hdr, name, map, d)'
      BY <1>3, <1>10, <2>3, <2>4, <2>5, <2>6 DEF Creates, w1, w2, w3, w4
    <2> QED
      BY <1>1, <1>7, <2>7 DEF InOrder, Creating
  <1>11. CASE pending = <<w1, w2, w3, w4>>
    <2>1. w = w1 /\ pending' = <<w2, w3, w4>>
      BY <1>6, <1>7, <1>11, FourWrites
    <2>2. disk' = [disk EXCEPT ![sector] = hdr] /\ UNCHANGED <<freeMap, directory>>
      BY <1>6, <1>7, <2>1
    <2> QED
      BY <1>8, <1>10, <2>1, <2>2
  <1>12. CASE disk[sector] = hdr /\ pending = <<w2, w3, w4>>
    <2>1. w = w2 /\ pending' = <<w3, w4>>
      BY <1>6, <1>7, <1>12, ThreeWrites
    <2>2. directory' = Half("FirstHalf", directory, d) /\ UNCHANGED <<freeMap, disk>>
      BY <1>6, <1>7, <2>1
    <2>3. \A j \in Entries \ {k} : directory'[j] = directory[j]
      BY <1>3, <1>8, <2>2, HalfIs
    <2>4. Half("SecondHalf", directory', d) = d
      BY <1>8, <2>2, BothHalves
    <2> QED
      BY <1>10, <1>12, <2>1, <2>2, <2>3, <2>4
  <1>13. CASE disk[sector] = hdr /\ pending = <<w3, w4>> /\ Half("SecondHalf", directory, d) = d
    <2>1. w = w3 /\ pending' = <<w4>>
      BY <1>6, <1>7, <1>13, TwoWrites
    <2>2. directory' = d /\ UNCHANGED <<freeMap, disk>>
      BY <1>6, <1>7, <1>13, <2>1
    <2> QED
      BY <1>3, <1>10, <1>13, <2>1, <2>2
  <1>14. CASE disk[sector] = hdr /\ pending = <<w4>> /\ directory = d
    <2>1. w = w4 /\ pending' = << >>
      BY <1>6, <1>7, <1>14, TwoWrites
    <2>2. freeMap' = map /\ UNCHANGED <<disk, directory, fileTable, aborted>>
      BY <1>6, <1>7, <2>1
    <2>3. /\ k \in InUse /\ InUse = O \cup {k}
          /\ directory[k].sector = sector /\ directory[k].name = name
          /\ DataOf(k) = Range(hdr.dataSectors)
      BY <1>2, <1>3, <1>14 DEF InUse, DataOf
    <2>4. \A i \in O : FileOf(i) \cap FileOf(k) = {}
      <3>1. \A i \in O : FileOf(i) \subseteq freeMap
        BY <1>3, FileTaken
      <3> QED
        BY <1>3, <2>3, <3>1 DEF FileOf
    <2>5. FilesWhole(InUse)
      <3> SUFFICES ASSUME NEW i \in InUse
                   PROVE  /\ disk[directory[i].sector] \in Headers
                          /\ directory[i].sector \notin DataOf(i)
                          /\ \A j \in InUse \ {i} :
                                /\ directory[i].name # directory[j].name
                                /\ FileOf(i) \cap FileOf(j) = {}
        BY DEF FilesWhole
      <3>1. CASE i = k
        BY <1>1, <1>3, <1>14, <2>3, <2>4, <3>1
      <3>2. CASE i # k
        BY <1>3, <2>3, <2>4, <3>2 DEF FilesWhole
      <3> QED
        BY <3>1, <3>2
    <2>6. OpenedOf(InUse)
      BY <1>3, <2>3 DEF OpenedOf
    <2>7. map = TakenBy(InUse)
      <3>1. map \subseteq Sectors
        BY DEF Maps
      <3> QED
        BY <1>3, <2>3, <3>1 DEF TakenBy, FileOf
    <2>8. OpenedOf(InUse)' /\ FilesWhole(InUse)' /\ freeMap' = TakenBy(InUse)'
      BY <2>2, <2>5, <2>6, <2>7, SameDisk DEF OpenedOf
    <2>9. \A m \in DOMAIN pending' : FALSE
      BY <2>1
    <2> QED
      BY <2>2, <2>8, <2>9 DEF InOrder, Resting, OrderOf
  <1> QED
    BY <1>4, <1>11, <1>12, <1>13, <1>14

(* The next write of Remove.                                                 *)
LEMMA RemoveGoesOn ==
    ASSUME Shape, Removing, ~aborted, WriteSector
    PROVE  InOrder'
  <1> DEFINE w == Head(pending)
  <1>1. PICK k \in Entries, map \in Maps, d \in Directories : Removes(k, map, d)
    BY DEF Removing
  <1>2. PICK O : O = InUse \ {k}
    OBVIOUS
  <1>3. /\ FilesWhole(O) /\ OpenedOf(O) /\ map = TakenBy(O) /\ O \in SUBSET InUse /\ k \notin O
        /\ \A j \in Entries \ {k} : d[j] = directory[j]
        /\ ~d[k].inUse
    BY <1>1, <1>2 DEF Removes, OrderOf
  <1> DEFINE w1 == ToMap(map)
             w2 == First(d)
             w3 == Second(d)
  <1>4. \/ pending = <<w1, w2, w3>>
        \/ freeMap = map /\ pending = <<w2, w3>>
        \/ freeMap = map /\ pending = <<w3>> /\ Half("SecondHalf", directory, d) = d
    BY <1>1 DEF Removes
  <1>5. /\ w1 \in WriteSet /\ w2 \in WriteSet /\ w3 \in WriteSet
        /\ w1.to = "FreeMap" /\ w1.map = map
        /\ w2.to = "FirstHalf" /\ w2.dir = d /\ w3.to = "SecondHalf" /\ w3.dir = d
    BY DEF ToMap, First, Second, ToDirectory, WriteSet
  <1> HIDE DEF w1, w2, w3
  <1>6. /\ pending' = Tail(pending) /\ UNCHANGED <<fileTable, aborted>>
        /\ w.to = "FreeMap" => freeMap' = w.map /\ UNCHANGED <<disk, directory>>
        /\ w.to \in {"FirstHalf", "SecondHalf"} =>
              directory' = Half(w.to, directory, w.dir) /\ UNCHANGED <<disk, freeMap>>
    BY WriteIs
  <1>7. directory \in Directories
    BY DEF Shape
  <1>8. \A i \in O : i \in Entries
    BY <1>3 DEF InUse
  (* Until the name is gone, the files in O and the map stay what they are.  *)
  <1>9. ASSUME UNCHANGED disk, freeMap' = map,
               \A j \in Entries \ {k} : directory'[j] = directory[j]
        PROVE  /\ OrderOf(O)' /\ freeMap' = TakenBy(O)'
               /\ (InUse \ {k})' = O
    <2>1. \A i \in O : directory'[i] = directory[i] /\ disk'[directory[i].sector] = disk[directory[i].sector]
      BY <1>3, <1>8, <1>9
    <2>2. OrderOf(O)' /\ TakenBy(O)' = TakenBy(O)
      BY <1>3, <1>6, <2>1, OrderStays DEF OrderOf
    <2>3. (InUse \ {k})' = O
      BY <1>2, <1>9 DEF InUse
    <2> QED
      BY <1>3, <1>9, <2>2, <2>3
  <1>10. ASSUME UNCHANGED disk, freeMap' = map,
                \A j \in Entries \ {k} : directory'[j] = directory[j],
                \/ pending' = <<w2, w3>>
                \/ pending' = <<w3>> /\ Half("SecondHalf", directory', d) = d
         PROVE  InOrder'
    <2>1. OrderOf(O)' /\ freeMap' = TakenBy(O)' /\ (InUse \ {k})' = O
      BY <1>9, <1>10
    <2>2. OrderOf(InUse \ {k})' /\ map = TakenBy(InUse \ {k})'
      BY <1>10, <2>1 DEF OrderOf, FilesWhole, OpenedOf, TakenBy
    <2>3. \A j \in Entries \ {k} : d[j] = directory'[j]
      BY <1>3, <1>10
    <2>4. Removes(k, map, d)'
      BY <1>3, <1>10, <2>2, <2>3 DEF Removes, w1, w2, w3
    <2> QED
      BY <1>6, <2>4 DEF InOrder, Removing
  <1>11. CASE pending = <<w1, w2, w3>>
    <2>1. w = w1 /\ pending' = <<w2, w3>>
      BY <1>5, <1>6, <1>11, ThreeWrites
    <2>2. freeMap' = map /\ UNCHANGED <<disk, directory>>
      BY <1>5, <1>6, <2>1
    <2> QED
      BY <1>10, <2>1, <2>2
  <1>12. CASE freeMap = map /\ pending = <<w2, w3>>
    <2>1. w = w2 /\ pending' = <<w3>>
      BY <1>5, <1>6, <1>12, TwoWrites
    <2>2. directory' = Half("FirstHalf", directory, d) /\ UNCHANGED <<freeMap, disk>>
      BY <1>5, <1>6, <2>1
    <2>3. \A j \in Entries \ {k} : directory'[j] = directory[j]
      BY <1>3, <1>7, <2>2, HalfIs
    <2>4. Half("SecondHalf", directory', d) = d
      BY <1>7, <2>2, BothHalves
    <2> QED
      BY <1>10, <1>12, <2>1, <2>2, <2>3, <2>4
  <1>13. CASE freeMap = map /\ pending = <<w3>> /\ Half("SecondHalf", directory, d) = d
    <2>1. w = w3 /\ pending' = << >>
      BY <1>5, <1>6, <1>13, TwoWrites
    <2>2. directory' = d /\ UNCHANGED <<freeMap, disk>>
      BY <1>5, <1>6, <1>13, <2>1
    <2>3. OrderOf(O)' /\ freeMap' = TakenBy(O)' /\ (InUse \ {k})' = O
      BY <1>3, <1>9, <1>13, <2>2
    <2>4. InUse' = O
      BY <1>3, <2>2, <2>3 DEF InUse
    <2>5. OrderOf(InUse)' /\ freeMap' = TakenBy(InUse)'
      BY <2>3, <2>4 DEF OrderOf, FilesWhole, OpenedOf, TakenBy
    <2>6. \A m \in DOMAIN pending' : FALSE
      BY <2>1
    <2> QED
      BY <1>6, <2>5, <2>6 DEF InOrder, Resting
  <1> QED
    BY <1>4, <1>11, <1>12, <1>13

LEMMA WriteSectorInOrder == ASSUME Shape, InOrder, WriteSector PROVE InOrder'
  BY DataWritten, CreateGoesOn, RemoveGoesOn DEF InOrder

-----------------------------------------------------------------------------
(* The theorems *)

LEMMA FileSysSoundInit == FileSysInit => Sound
  BY InitShape, InitInOrder DEF Sound

LEMMA FileSysSoundStep == Sound /\ [FileSysNext]_fileSysVars => Sound'
  <1> SUFFICES ASSUME Sound, [FileSysNext]_fileSysVars PROVE Sound'
    OBVIOUS
  <1>1. Shape
    BY DEF Sound
  <1>2. CASE UNCHANGED fileSysVars
    <2>1. Shape'
      BY <1>1, <1>2 DEF Shape, fileSysVars
    <2>2. UNCHANGED <<disk, directory, freeMap, fileTable, pending, aborted>>
      BY <1>2 DEF fileSysVars
    <2>3. /\ InUse' = InUse
          /\ \A O : /\ FilesWhole(O)' <=> FilesWhole(O)
                    /\ OpenedOf(O)' <=> OpenedOf(O)
                    /\ TakenBy(O)' = TakenBy(O)
          /\ \A i : DataOf(i)' = DataOf(i)
      BY <2>2 DEF InUse, FilesWhole, OpenedOf, TakenBy, FileOf, DataOf
    <2>4. Resting => Resting'
      BY <2>2, SameDisk DEF Resting, OrderOf, OpenedOf
    <2>5. \A k, sector, hdr, name, map, d :
             Creates(k, sector, hdr, name, map, d) => Creates(k, sector, hdr, name, map, d)'
      BY <2>2 DEF Creates, InUse, OrderOf, FilesWhole, OpenedOf, TakenBy, FileOf, DataOf
    <2>6. \A k, map, d : Removes(k, map, d) => Removes(k, map, d)'
      <3> SUFFICES ASSUME NEW k, NEW map, NEW d, Removes(k, map, d)
                   PROVE  Removes(k, map, d)'
        OBVIOUS
      <3>1. PICK O : O = InUse \ {k}
        OBVIOUS
      <3>2. O = (InUse \ {k})'
        BY <2>3, <3>1
      <3>3. OrderOf(O) /\ map = TakenBy(O)
        BY <3>1 DEF Removes
      <3>4. OrderOf(O)' /\ map = TakenBy(O)'
        BY <2>3, <3>3 DEF OrderOf
      <3>5. FilesWhole(InUse) /\ freeMap \subseteq TakenBy(InUse)
            => (FilesWhole(InUse) /\ freeMap \subseteq TakenBy(InUse))'
        BY <2>2, SameDisk
      <3>6. OrderOf(InUse \ {k})' /\ map = TakenBy(InUse \ {k})'
        BY <3>2, <3>4
      <3> QED
        BY <2>2, <3>5, <3>6 DEF Removes
    <2>7. InOrder => InOrder'
      BY <2>2, <2>4, <2>5, <2>6 DEF InOrder, Creating, Removing
    <2> QED
      BY <1>2, <2>1, <2>7 DEF Sound, fileSysVars
  <1>3. CASE WriteSector
    <2>1. boots' = boots
      BY <1>1, <1>3, WriteIs
    <2> QED
      BY <1>1, <1>3, <2>1, WriteSectorShape, WriteSectorInOrder DEF Sound
  <1>4. CASE Reboot
    <2>1. boots' # 1
      BY <1>1, <1>4, Constants DEF Reboot, Shape
    <2> QED
      BY <1>1, <1>4, <2>1, RebootShape DEF Sound
  <1>5. ASSUME NEW name \in Names, NEW n \in Nat, Create(name, n) PROVE Sound'
    <2>1. boots' = boots
      BY <1>1, <1>5, CreateIs
    <2> QED
      BY <1>1, <1>5, <2>1, CreateShape, CreateInOrder DEF Sound
  <1>6. ASSUME NEW name \in Names, Open(name) PROVE Sound'
    <2>1. boots' = boots
      BY <1>1, <1>6, OpenIs
    <2> QED
      BY <1>1, <1>6, <2>1, OpenShape, OpenInOrder DEF Sound
  <1>7. ASSUME NEW name \in Names, Remove(name) PROVE Sound'
    <2>1. boots' = boots
      BY <1>1, <1>7, RemoveIs
    <2> QED
      BY <1>1, <1>7, <2>1, RemoveShape, RemoveInOrder DEF Sound
  <1>8. ASSUME NEW i \in Ids, Close(i) PROVE Sound'
    <2>1. boots' = boots
      BY <1>1, <1>8, CloseIs
    <2> QED
      BY <1>1, <1>8, <2>1, CloseShape, CloseInOrder DEF Sound
  <1>9. ASSUME NEW i \in Ids, NEW n \in Lengths, Read(i, n) PROVE Sound'
    <2>1. boots' = boots
      BY <1>1, <1>9, ReadIs
    <2> QED
      BY <1>1, <1>9, <2>1, ReadShape, ReadInOrder DEF Sound
  <1>10. ASSUME NEW i \in Ids, NEW from \in Writings, Write(i, from) PROVE Sound'
    <2>1. boots' = boots
      BY <1>1, <1>10, WriteOpIs
    <2> QED
      BY <1>1, <1>10, <2>1, WriteShape, WriteInOrder DEF Sound
  <1>11. ASSUME NEW name \in Names, Create_Syscall(name) PROVE Sound'
    BY <1>5, <1>11 DEF Create_Syscall
  <1>12. \A n \in Sizes : n \in Nat
    BY Constants
  <1> QED
    BY <1>2, <1>3, <1>4, <1>5, <1>6, <1>7, <1>8, <1>9, <1>10, <1>11, <1>12 DEF FileSysNext

(* The inductive invariant: whatever operations, sector writes and exits of   *)
(* Nachos there were, disk, directory and open files have their shape, and up *)
(* to the first exit what is on the disk is in order but for the writes that  *)
(* the running Create or Remove still has to do.                              *)
THEOREM FileSysSound == FileSysSpec => []Sound
  BY FileSysSoundInit, FileSysSoundStep, PTL DEF FileSysSpec

LEMMA OwnedIs ==
    ASSUME Shape, NEW O \in SUBSET InUse, FilesWhole(O)
    PROVE  /\ Named(State) = InUse
           /\ \A i \in O : /\ SectorsOf(State, i) = FileOf(i)
                           /\ IsHeader(disk[directory[i].sector])
                           /\ FileOf(i) \cap SystemSectors = {}
           /\ TakenBy(O) \subseteq Owned(State)
           /\ O = InUse => TakenBy(O) = Owned(State)
  <1>1. Named(State) = InUse
    BY DEF Named, State, InUse
  <1>2. ASSUME NEW i \in O
        PROVE  /\ SectorsOf(State, i) = FileOf(i)
               /\ IsHeader(disk[directory[i].sector])
               /\ FileOf(i) \subseteq FileSectors
    <2>1. disk[directory[i].sector] \in Headers /\ FileOf(i) \subseteq FileSectors
      BY FileTaken
    <2>2. IsHeader(disk[directory[i].sector])
      BY <2>1, HeaderIs
    <2>3. SectorsOf(State, i) = FileOf(i)
      BY <2>2 DEF SectorsOf, State, FileOf, DataOf
    <2> QED
      BY <2>1, <2>2, <2>3
  <1>3. TakenBy(O) \subseteq Owned(State)
    <2> SUFFICES ASSUME NEW s \in TakenBy(O) PROVE s \in Owned(State)
      OBVIOUS
    <2>1. CASE s \in SystemSectors
      BY <2>1 DEF Owned
    <2>2. ASSUME NEW i \in O, s \in FileOf(i) PROVE s \in Owned(State)
      <3>1. i \in Named(State) /\ s \in SectorsOf(State, i)
        BY <1>1, <1>2, <2>2
      <3> QED
        BY <3>1 DEF Owned
    <2> QED
      BY <2>1, <2>2 DEF TakenBy
  <1>4. ASSUME O = InUse PROVE Owned(State) \subseteq TakenBy(O)
    <2> SUFFICES ASSUME NEW s \in Owned(State) PROVE s \in TakenBy(O)
      OBVIOUS
    <2>1. CASE s \in SystemSectors
      BY <2>1, SystemSectorsTyped DEF TakenBy
    <2>2. ASSUME NEW i \in Named(State), s \in SectorsOf(State, i) PROVE s \in TakenBy(O)
      <3>1. i \in O /\ s \in FileOf(i) /\ s \in Sectors
        BY <1>1, <1>2, <1>4, <2>2 DEF FileSectors
      <3> QED
        BY <3>1 DEF TakenBy
    <2> QED
      BY <2>1, <2>2 DEF Owned
  <1> QED
    BY <1>1, <1>2, <1>3, <1>4 DEF FileSectors

LEMMA ShapeIsTyped == Shape => FileSysTypeOK
  <1> SUFFICES ASSUME Shape PROVE FileSysTypeOK
    OBVIOUS
  <1>1. freeMap \in SUBSET Sectors /\ SystemSectors \subseteq freeMap
    BY DEF Shape, Maps
  <1>2. directory \in [Entries -> [inUse : BOOLEAN, name : Names \cup {None}, sector : Sectors]]
    BY DEF Shape, Directories
  <1>3. ASSUME NEW s \in Sectors
        PROVE  IF IsHeader(disk[s])
               THEN disk[s].numBytes \in Nat /\ Range(disk[s].dataSectors) \subseteq Sectors
               ELSE disk[s].bytes \in [0..(SectorSize - 1) -> Bytes]
    <2>1. disk[s] \in Headers \/ disk[s] \in Datas
      BY DEF Shape
    <2> QED
      BY <2>1, HeaderIs, DataIs DEF FileSectors
  <1>4. ASSUME NEW i \in Ids, fileTable[i] # None
        PROVE  fileTable[i].seekPosition \in 0..fileTable[i].hdr.numBytes
    <2>1. fileTable[i] \in Handles /\ fileTable[i].seekPosition <= fileTable[i].hdr.numBytes
      BY <1>4 DEF Shape
    <2>2. fileTable[i].hdr \in Headers /\ fileTable[i].seekPosition \in Nat
      BY <2>1 DEF Handles
    <2>3. fileTable[i].hdr.numBytes \in Nat
      BY <2>2, HeaderIs
    <2> QED
      BY <2>1, <2>2, <2>3
  <1>5. \A w \in Range(pending) : w.to \in {"Sector", "FreeMap", "FirstHalf", "SecondHalf"}
    <2>1. \A w \in WriteSet : w.to \in {"Sector", "FreeMap", "FirstHalf", "SecondHalf"}
      BY DEF WriteSet, SectorWriteSet
    <2>2. \A k \in DOMAIN pending : pending[k] \in WriteSet
      BY DEF Shape
    <2> QED
      BY <2>1, <2>2 DEF Range
  <1>6. boots \in 1..MaxBoots
    BY DEF Shape
  <1>7. aborted \in BOOLEAN
    BY DEF Shape
  <1> QED
    BY <1>1, <1>2, <1>3, <1>4, <1>5, <1>6, <1>7 DEF FileSysTypeOK

LEMMA SoundInOrder == Sound => MapInOrder
  <1> SUFFICES ASSUME Sound PROVE MapInOrder
    OBVIOUS
  <1>1. Shape /\ FileSysTypeOK
    BY ShapeIsTyped DEF Sound
  <1>2. ASSUME boots = 1, pending = << >>
        PROVE  /\ ~aborted
               /\ freeMap = Owned(State)
               /\ \A i \in Named(State) :
                     /\ IsHeader(disk[directory[i].sector])
                     /\ SectorsOf(State, i) \cap SystemSectors = {}
                     /\ \A j \in Named(State) \ {i} :
                           /\ directory[i].name # directory[j].name
                           /\ SectorsOf(State, i) \cap SectorsOf(State, j) = {}
    <2>1. InOrder /\ Resting
      BY <1>1, <1>2, AtRest DEF Sound
    <2>2. FilesWhole(InUse) /\ freeMap = TakenBy(InUse)
      BY <2>1 DEF Resting, OrderOf
    <2>3. /\ Named(State) = InUse /\ freeMap = Owned(State)
          /\ \A i \in InUse : /\ SectorsOf(State, i) = FileOf(i)
                              /\ IsHeader(disk[directory[i].sector])
                              /\ FileOf(i) \cap SystemSectors = {}
      BY <1>1, <2>2, OwnedIs
    <2> QED
      BY <2>1, <2>2, <2>3 DEF InOrder, FilesWhole
  <1>3. ASSUME boots = 1 PROVE freeMap \subseteq Owned(State)
    <2>1. InOrder
      BY <1>3 DEF Sound
    <2>2. CASE Resting
      <3>1. FilesWhole(InUse) /\ freeMap = TakenBy(InUse)
        BY <2>2 DEF Resting, OrderOf
      <3> QED
        BY <1>1, <3>1, OwnedIs
    <2>3. CASE Creating
      <3>1. PICK k \in Entries, sector \in Sectors, name \in Names, map \in Maps,
                 d \in Directories, hdr \in Headers : Creates(k, sector, hdr, name, map, d)
        BY <2>3 DEF Creating
      <3>2. FilesWhole(InUse \ {k}) /\ freeMap = TakenBy(InUse \ {k})
        BY <3>1 DEF Creates, OrderOf
      <3> QED
        BY <1>1, <3>2, OwnedIs
    <2>4. CASE Removing
      <3>1. PICK k \in Entries, map \in Maps, d \in Directories : Removes(k, map, d)
        BY <2>4 DEF Removing
      <3>2. \/ FilesWhole(InUse \ {k}) /\ freeMap = TakenBy(InUse \ {k})
            \/ FilesWhole(InUse) /\ freeMap \subseteq TakenBy(InUse)
        BY <3>1 DEF Removes, OrderOf
      <3> QED
        BY <1>1, <3>2, OwnedIs
    <2> QED
      BY <2>1, <2>2, <2>3, <2>4 DEF InOrder
  <1> QED
    BY <1>1, <1>2, <1>3 DEF MapInOrder, Consistent, NoSpaceLost

(* Up to the first exit of Nachos the free map, the directory and the headers *)
(* agree between operations: the sectors of the system and of the files that  *)
(* Create made and Remove left are marked, no others, and no two files share  *)
(* a name or a sector. Within an operation nothing is marked that belongs to  *)
(* no file with a name, since Create writes the map last and Remove first.    *)
THEOREM DiskInOrder == FileSysSpec => []MapInOrder
  BY FileSysSound, SoundInOrder, PTL

(***************************************************************************)
(* Processes and their threads                                             *)
(***************************************************************************)

USE ProcessesAssumption DEF ProcessesAssumption

-----------------------------------------------------------------------------
(* The inductive invariant. *)

LockRecord == [owner : Threads \cup {NoThread}, queue : Seq(Threads)]
Places     == Counting \cup Over \cup {"None"}

(* TypeOK without the numbers that only the counts bound. *)
TypesSound ==
    /\ numProcesses \in Nat /\ numProcessesExited \in Int
    /\ DOMAIN threadCount = 1..numProcesses
    /\ locks \in [LockNames -> LockRecord]
    /\ DOMAIN processLock = 1..numProcesses
    /\ \A p \in 1..numProcesses : processLock[p] \in LockRecord
    /\ mailboxCount \in Nat
    /\ space \in [Threads -> Nat \cup {NoSpace}]
    /\ mailbox \in [Threads -> 0..MaxThreads \cup {NoMailbox}]
    /\ parent \in [Threads -> Threads \cup {NoThread}]
    /\ pc \in [Threads -> Places]
    /\ halted \in BOOLEAN /\ up \in BOOLEAN

(* Thread 0 alone is in the first process; one with an ID from nowhere does  *)
(* not survive its Exit.                                                     *)
SpacesSound ==
    /\ space[0] \in FirstIDs /\ pc[0] \notin {"None", "New"}
    /\ pc[0] = "Leaving" => ~up
    /\ pc[0] \in Over => space[0] = 0
    /\ \A t \in Threads \ {0} : pc[t] # "None" => space[t] \in 1..numProcesses

(* Where a thread has or awaits a lock, and where it may await it. *)
PlacesOf(l) == IF l = "forkLock" THEN {"Forking", "Forked"}
               ELSE {"Execing", "Execed", "Exiting", "Leaving", "LeftLast", "Left"}
EntryOf(l)  == IF l = "forkLock" THEN {"Forking"} ELSE {"Execing", "Exiting"}

LockSound(l) ==
    /\ Distinct(locks[l].queue)
    /\ \A t \in Threads :
          /\ pc[t] \in PlacesOf(l) <=> locks[l].owner = t \/ Queued(locks[l].queue, t)
          /\ Queued(locks[l].queue, t) => locks[l].owner # t /\ pc[t] \in EntryOf(l)
    /\ locks[l].owner = NoThread => locks[l].queue = << >>

(* The lock of a process is only taken inside the execLock: nobody waits.    *)
ProcessLockSound ==
    \A p \in 1..numProcesses :
        /\ processLock[p].queue = << >>
        /\ \A t \in Threads :
              processLock[p].owner = t <=> pc[t] = "Leaving" /\ space[t] = p

(* There is a thread, and a number of a process, for every call that began   *)
(* to make one.                                                              *)
Askers  == {t \in Threads : pc[t] \in {"Forking", "Execing"}}
Execers == {t \in Threads : pc[t] = "Execing"}

RoomSound ==
    /\ Cardinality(Askers) <= Cardinality(Unborn)
    /\ numProcesses + Cardinality(Execers) <= MaxProcesses - 1
    /\ mailboxCount + Cardinality(Unborn) <= MaxThreads - 1

Alive(p) == {t \in Threads : space[t] = p /\ pc[t] \in Counting}
Ended    == {p \in 1..numProcesses : Alive(p) = {}} \cup {p \in {0} : pc[0] \in Over}

Counts ==
    /\ \A p \in 1..numProcesses : threadCount[p] = Cardinality(Alive(p))
    /\ numProcessesExited + 1 = Cardinality(Ended)

(* Once a thread has decided to halt, nobody else has anything left to do.   *)
Idle == {"None", "Finishing", "Gone"}

HaltSound ==
    /\ halted => \A t \in Threads : pc[t] \in Idle
    /\ \A t \in Threads : pc[t] \in {"LeftLast", "Halting"} =>
           \A u \in Threads \ {t} : pc[u] \in Idle

IInv == /\ TypesSound /\ SpacesSound /\ (\A l \in LockNames : LockSound(l))
        /\ ProcessLockSound /\ RoomSound /\ Counts /\ HaltSound

-----------------------------------------------------------------------------
(* Counting threads. *)

LEMMA Members ==
    ASSUME NEW A \in SUBSET Threads
    PROVE  /\ IsFiniteSet(A)
           /\ Cardinality(A) \in 0..MaxThreads
           /\ A = {} <=> Cardinality(A) = 0
           /\ \A B \in SUBSET A : Cardinality(B) <= Cardinality(A)
           /\ \A x \in A : Cardinality(A \ {x}) = Cardinality(A) - 1
           /\ \A x \in Threads \ A : Cardinality(A \cup {x}) = Cardinality(A) + 1
  <1>1. IsFiniteSet(Threads) /\ Cardinality(Threads) = MaxThreads
    <2>1. 0 \in Int /\ MaxThreads - 1 \in Int /\ 0 <= MaxThreads - 1
      OBVIOUS
    <2> QED
      BY <2>1, FS_Interval DEF Threads
  <1>2. IsFiniteSet(A) /\ Cardinality(A) <= MaxThreads
    BY <1>1, FS_Subset
  <1>3. Cardinality(A) \in Nat /\ (A = {} <=> Cardinality(A) = 0)
    BY <1>2, FS_CardinalityType, FS_EmptySet
  <1>4. \A B \in SUBSET A : Cardinality(B) <= Cardinality(A)
    BY <1>2, FS_Subset
  <1>5. \A x \in A : Cardinality(A \ {x}) = Cardinality(A) - 1
    BY <1>2, FS_RemoveElement
  <1>6. \A x \in Threads \ A : Cardinality(A \cup {x}) = Cardinality(A) + 1
    BY <1>2, FS_AddElement
  <1> QED
    BY <1>2, <1>3, <1>4, <1>5, <1>6

LEMMA NewestUnborn ==
    ASSUME Unborn # {}
    PROVE  Newest \in Unborn
  <1>1. Unborn \in SUBSET Nat
    BY DEF Unborn, Threads
  <1>2. \E t \in Unborn : \A u \in Unborn : t <= u
    BY <1>1, SmallestMember
  <1> QED
    BY <1>2 DEF Newest

(* When as many processes have ended as there are, everybody is over. *)
LEMMA AllOver ==
    TypesSound /\ SpacesSound /\ Counts /\ numProcessesExited = numProcesses
        => \A t \in Threads : pc[t] \in Over \cup {"None"}
  <1> SUFFICES ASSUME TypesSound, SpacesSound, Counts, numProcessesExited = numProcesses
               PROVE  \A t \in Threads : pc[t] \in Over \cup {"None"}
    OBVIOUS
  <1>1. numProcesses \in Nat /\ pc \in [Threads -> Places]
    BY DEF TypesSound
  <1>2. IsFiniteSet(0..numProcesses) /\ Cardinality(0..numProcesses) = numProcesses + 1
    <2>1. 0 \in Int /\ numProcesses \in Int /\ 0 <= numProcesses
      BY <1>1
    <2> QED
      BY <2>1, FS_Interval
  <1>3. Ended \subseteq 0..numProcesses
    BY <1>1 DEF Ended
  <1>4. Ended = 0..numProcesses
    BY <1>1, <1>2, <1>3, FS_Subset DEF Counts
  <1>5. pc[0] \in Over
    BY <1>1, <1>4 DEF Ended
  <1>6. ASSUME NEW t \in Threads \ {0}, pc[t] # "None"
        PROVE  pc[t] \in Over
    <2>1. PICK p \in 1..numProcesses : p = space[t]
      BY <1>6 DEF SpacesSound
    <2>2. Alive(p) = {}
      BY <1>4, <2>1 DEF Ended
    <2>3. pc[t] \notin Counting
      BY <2>1, <2>2 DEF Alive
    <2> QED
      BY <1>1, <1>6, <2>3 DEF Places
  <1> QED
    BY <1>5, <1>6

-----------------------------------------------------------------------------
(* Locks. *)

(* A lock that a step leaves alone: those that move are not asleep. *)
LEMMA LockFrame ==
    ASSUME NEW l \in LockNames, LockSound(l), locks'[l] = locks[l],
           \A u \in Threads : \/ pc'[u] = pc[u]
                              \/ /\ ~Asleep(u)
                                 /\ pc'[u] \in PlacesOf(l) <=> pc[u] \in PlacesOf(l)
    PROVE  LockSound(l)'
  BY DEF LockSound, Asleep

(* Lock::Acquire: t has the lock, or is the last in its queue. *)
LEMMA TakeSound ==
    ASSUME TypesSound, NEW l \in LockNames, LockSound(l), NEW t \in Threads,
           pc[t] \notin PlacesOf(l), pc'[t] \in EntryOf(l),
           \A u \in Threads \ {t} : pc'[u] = pc[u],
           TakesLock(t, l)
    PROVE  /\ locks' \in [LockNames -> LockRecord] /\ LockSound(l)'
           /\ \A k \in LockNames \ {l} : locks'[k] = locks[k]
  <1> DEFINE L == locks[l]
             q == Append(L.queue, t)
  <1>1. /\ locks \in [LockNames -> LockRecord]
        /\ L \in LockRecord /\ L.queue \in Seq(Threads) /\ L.owner \in Threads \cup {NoThread}
    BY DEF TypesSound, LockRecord
  <1>2. Distinct(L.queue) /\ ~Queued(L.queue, t) /\ L.owner # t
    BY DEF LockSound
  <1>3. /\ q \in Seq(Threads) /\ Distinct(q)
        /\ \A u \in Threads : Queued(q, u) <=> Queued(L.queue, u) \/ u = t
    BY <1>1, <1>2, QueueAppend
  <1>4. /\ locks'[l] = IF L.owner = NoThread THEN [L EXCEPT !.owner = t]
                       ELSE [L EXCEPT !.queue = q]
        /\ locks' = [locks EXCEPT ![l] = locks'[l]]
    BY <1>1 DEF TakesLock, Taken
  <1>5. EntryOf(l) \subseteq PlacesOf(l)
    BY DEF EntryOf, PlacesOf
  <1>6. LockSound(l) /\ \A u \in Threads : Queued(L.queue, u) => u # t
    BY <1>2
  <1> HIDE DEF q
  <1>7. CASE L.owner = NoThread
    <2>1. /\ locks'[l] \in LockRecord /\ locks'[l].owner = t /\ locks'[l].queue = L.queue
      BY <1>1, <1>4, <1>7 DEF LockRecord
    <2>2. L.queue = << >>
      BY <1>7 DEF LockSound
    <2>3. t # NoThread
      BY DEF Threads, NoThread
    <2>4. \A u \in Threads : ~Queued(L.queue, u)
      BY <2>2, <1>1, QueueEmpty
    <2>5. LockSound(l)'
      <3>1. \A u \in Threads : pc'[u] \in PlacesOf(l) <=> locks'[l].owner = u
        <4>1. \A u \in Threads : pc[u] \notin PlacesOf(l)
          BY <1>6, <1>7, <2>4 DEF LockSound, Threads, NoThread
        <4> QED
          BY <1>5, <2>1, <4>1
      <3> QED
        BY <1>2, <2>1, <2>3, <2>4, <3>1 DEF LockSound
    <2> QED
      BY <1>1, <1>4, <2>1, <2>5
  <1>8. CASE L.owner # NoThread
    <2>1. /\ locks'[l] \in LockRecord /\ locks'[l].owner = L.owner /\ locks'[l].queue = q
      BY <1>1, <1>3, <1>4, <1>8 DEF LockRecord
    <2>2. LockSound(l)'
      <3>1. \A u \in Threads : pc'[u] \in PlacesOf(l) <=> locks'[l].owner = u \/ Queued(q, u)
        BY <1>3, <1>5, <1>6, <2>1 DEF LockSound
      <3>2. \A u \in Threads : Queued(q, u) => locks'[l].owner # u /\ pc'[u] \in EntryOf(l)
        BY <1>2, <1>3, <1>6, <2>1 DEF LockSound
      <3> QED
        BY <1>3, <1>8, <2>1, <3>1, <3>2 DEF LockSound
    <2> QED
      BY <1>1, <1>4, <2>1, <2>2
  <1> QED
    BY <1>7, <1>8

(* A thread that is not asleep where the lock is needed is its owner. *)
LEMMA Owns ==
    ASSUME NEW l \in LockNames, LockSound(l), NEW t \in Threads,
           pc[t] \in PlacesOf(l), ~Asleep(t)
    PROVE  locks[l].owner = t
  BY DEF LockSound, Asleep

(* Lock::Release: the first in the queue has the lock. *)
LEMMA ReleaseSound ==
    ASSUME TypesSound, NEW l \in LockNames, LockSound(l), NEW t \in Threads,
           pc[t] \in PlacesOf(l), ~Asleep(t), pc'[t] \notin PlacesOf(l),
           \A u \in Threads \ {t} : pc'[u] = pc[u],
           ReleasesLock(t, l)
    PROVE  /\ locks' \in [LockNames -> LockRecord] /\ LockSound(l)'
           /\ \A k \in LockNames \ {l} : locks'[k] = locks[k]
  <1> DEFINE L == locks[l]
             h == Head(L.queue)
             q == Tail(L.queue)
  <1>1. /\ locks \in [LockNames -> LockRecord]
        /\ L \in LockRecord /\ L.queue \in Seq(Threads)
    BY DEF TypesSound, LockRecord
  <1>2. LockSound(l) /\ Distinct(L.queue) /\ L.owner = t
    BY Owns DEF LockSound
  <1>3. /\ locks'[l] = IF L.queue = << >> THEN [L EXCEPT !.owner = NoThread]
                       ELSE [L EXCEPT !.owner = h, !.queue = q]
        /\ locks' = [locks EXCEPT ![l] = locks'[l]]
    BY <1>1 DEF ReleasesLock, Released
  <1>4. NoThread \notin Threads
    BY DEF Threads, NoThread
  <1>5. CASE L.queue = << >>
    <2>1. /\ locks'[l] \in LockRecord /\ locks'[l].owner = NoThread
          /\ locks'[l].queue = L.queue
      BY <1>1, <1>3, <1>5 DEF LockRecord
    <2>2. \A u \in Threads : ~Queued(L.queue, u)
      BY <1>1, <1>5, QueueEmpty
    <2>3. \A u \in Threads : pc'[u] \notin PlacesOf(l)
      BY <1>2, <2>2 DEF LockSound
    <2>4. LockSound(l)'
      BY <1>2, <1>4, <1>5, <2>1, <2>2, <2>3 DEF LockSound
    <2> QED
      BY <1>1, <1>3, <2>1, <2>4
  <1>6. CASE L.queue # << >>
    <2>1. /\ h \in Threads /\ q \in Seq(Threads) /\ Distinct(q) /\ Queued(L.queue, h)
          /\ \A u \in Threads : Queued(q, u) <=> Queued(L.queue, u) /\ u # h
      BY <1>1, <1>2, <1>6, QueueTail
    <2> HIDE DEF h, q
    <2>2. /\ locks'[l] \in LockRecord /\ locks'[l].owner = h /\ locks'[l].queue = q
      BY <1>1, <1>3, <1>6, <2>1 DEF LockRecord
    <2>3. h # t /\ \A u \in Threads : Queued(q, u) => u # t
      BY <1>2, <2>1 DEF LockSound
    <2>4. \A u \in Threads : /\ pc'[u] \in PlacesOf(l) <=> h = u \/ Queued(q, u)
                             /\ Queued(q, u) => h # u /\ pc'[u] \in EntryOf(l)
      BY <1>2, <2>1, <2>3 DEF LockSound
    <2>5. LockSound(l)'
      BY <1>4, <2>1, <2>2, <2>4 DEF LockSound
    <2> QED
      BY <1>1, <1>3, <2>2, <2>5
  <1> QED
    BY <1>5, <1>6

-----------------------------------------------------------------------------
(* Steps that leave a part of the invariant alone. *)

(* Threads move, and none of them starts or stops to count. *)
LEMMA CountsFrame ==
    ASSUME TypesSound, SpacesSound, Counts, UNCHANGED <<tables, births>>, up' => up,
           \A u \in Threads : /\ pc'[u] \in Counting <=> pc[u] \in Counting
                              /\ pc'[u] \in Over <=> pc[u] \in Over
                              /\ pc'[u] = "None" <=> pc[u] = "None",
           pc'[0] # "New", pc'[0] = "Leaving" => pc[0] = "Leaving" \/ ~up'
    PROVE  Counts' /\ SpacesSound'
  <1>1. /\ numProcesses' = numProcesses /\ numProcessesExited' = numProcessesExited
        /\ threadCount' = threadCount /\ space' = space
    BY DEF tables, births
  <1>2. 0 \in Threads
    BY DEF Threads
  <1>3. \A p : Alive(p)' = Alive(p)
    BY <1>1 DEF Alive
  <1>4. Ended' = Ended
    BY <1>1, <1>2, <1>3 DEF Ended
  <1>5. Counts'
    BY <1>1, <1>3, <1>4 DEF Counts
  <1>6. SpacesSound'
    BY <1>1, <1>2 DEF SpacesSound
  <1> QED
    BY <1>5, <1>6

LEMMA RoomFrame ==
    ASSUME TypesSound, RoomSound, UNCHANGED <<numProcesses, mailboxCount>>,
           \A u \in Threads :
              /\ pc'[u] = "None" <=> pc[u] = "None"
              /\ pc'[u] \in {"Forking", "Execing"} => pc[u] \in {"Forking", "Execing"}
              /\ pc'[u] = "Execing" => pc[u] = "Execing"
    PROVE  RoomSound'
  <1>1. Unborn' = Unborn /\ Askers' \in SUBSET Askers /\ Execers' \in SUBSET Execers
    BY DEF Unborn, Askers, Execers
  <1>2. /\ Cardinality(Askers') <= Cardinality(Askers)
        /\ Cardinality(Execers') <= Cardinality(Execers)
        /\ Cardinality(Askers') \in Nat /\ Cardinality(Execers') \in Nat
        /\ Cardinality(Askers) \in Nat /\ Cardinality(Execers) \in Nat
        /\ Cardinality(Unborn) \in Nat
    <2>1. /\ Askers \in SUBSET Threads /\ Execers \in SUBSET Threads
          /\ Unborn \in SUBSET Threads
          /\ Askers' \in SUBSET Threads /\ Execers' \in SUBSET Threads
      BY DEF Askers, Execers, Unborn
    <2> QED
      BY <1>1, <2>1, Members
  <1> QED
    BY <1>1, <1>2 DEF RoomSound, TypesSound

LEMMA ProcessLockFrame ==
    ASSUME ProcessLockSound, UNCHANGED <<numProcesses, processLock, space>>,
           \A u \in Threads : pc'[u] = "Leaving" <=> pc[u] = "Leaving"
    PROVE  ProcessLockSound'
  BY DEF ProcessLockSound

(* A thread that has not finished does not decide to halt. *)
LEMMA HaltFrame ==
    ASSUME HaltSound, ~halted, ~halted', NEW t \in Threads, pc[t] \notin Idle,
           pc'[t] \notin {"LeftLast", "Halting"},
           \A u \in Threads \ {t} : pc'[u] \in {"LeftLast", "Halting"} => pc'[u] = pc[u]
    PROVE  HaltSound'
  BY DEF HaltSound

LEMMA TypesFrame ==
    ASSUME TypesSound, UNCHANGED <<tables, births, processLock>>,
           locks' \in [LockNames -> LockRecord], pc' \in [Threads -> Places],
           halted' \in BOOLEAN, up' \in BOOLEAN
    PROVE  TypesSound'
  BY DEF TypesSound, tables, births

(* Where a thread of a process is in a call that does not end it yet. *)
Busy == Counting \ {"New", "Leaving"}

(* t goes from one place in its calls to another; the locks are apart. *)
LEMMA BusyStep ==
    ASSUME IInv, NEW t \in Threads, NEW a \in Busy, NEW b \in Busy, Goes(t, a, b),
           UNCHANGED <<tables, births, processLock, halted, up>>
    PROVE  /\ pc' \in [Threads -> Places] /\ pc[t] = a /\ ~Asleep(t) /\ pc'[t] = b
           /\ \A u \in Threads \ {t} : pc'[u] = pc[u]
           /\ SpacesSound' /\ ProcessLockSound' /\ Counts' /\ HaltSound'
           /\ locks' \in [LockNames -> LockRecord] => TypesSound'
  <1>1. /\ TypesSound /\ SpacesSound /\ ProcessLockSound /\ Counts /\ HaltSound
        /\ pc \in [Threads -> Places] /\ halted \in BOOLEAN /\ up \in BOOLEAN
    BY DEF IInv, TypesSound
  <1>2. /\ up /\ ~halted /\ pc[t] = a /\ ~Asleep(t) /\ pc' = [pc EXCEPT ![t] = b]
    BY DEF Goes
  <1>3. /\ b \in Places /\ a \in Counting /\ b \in Counting
        /\ a \notin {"None", "New", "Leaving"} /\ b \notin {"None", "New", "Leaving"}
        /\ a \notin Idle /\ b \notin {"LeftLast", "Halting"}
    BY DEF Busy, Counting, Idle, Places
  <1>4. /\ pc' \in [Threads -> Places] /\ pc'[t] = b
        /\ \A u \in Threads \ {t} : pc'[u] = pc[u]
    BY <1>1, <1>2, <1>3
  <1>5. Counts' /\ SpacesSound'
    <2>1. \A u \in Threads : /\ pc'[u] \in Counting <=> pc[u] \in Counting
                             /\ pc'[u] \in Over <=> pc[u] \in Over
                             /\ pc'[u] = "None" <=> pc[u] = "None"
                             /\ pc'[u] = "New" <=> pc[u] = "New"
                             /\ pc'[u] = "Leaving" <=> pc[u] = "Leaving"
      BY <1>2, <1>3, <1>4 DEF Counting, Over
    <2>2. 0 \in Threads /\ pc[0] # "New"
      BY <1>1 DEF Threads, SpacesSound
    <2> QED
      BY <1>1, <2>1, <2>2, CountsFrame
  <1>6. ProcessLockSound'
    BY <1>1, <1>2, <1>3, <1>4, ProcessLockFrame DEF tables, births
  <1>7. HaltSound'
    BY <1>1, <1>2, <1>3, <1>4, HaltFrame
  <1>8. locks' \in [LockNames -> LockRecord] => TypesSound'
    BY <1>1, <1>4, TypesFrame
  <1> QED
    BY <1>2, <1>4, <1>5, <1>6, <1>7, <1>8

-----------------------------------------------------------------------------
(* Every step keeps the inductive invariant. *)

LEMMA TheLocks == LockNames = {"forkLock", "execLock"} /\ "forkLock" # "execLock"
  BY DEF LockNames

(* t takes a lock and is in its call. *)
LEMMA TakeStep ==
    ASSUME IInv, NEW t \in Threads, NEW l \in LockNames, NEW b \in Busy,
           b \in EntryOf(l), \A k \in LockNames \ {l} : b \notin PlacesOf(k),
           Goes(t, "User", b), TakesLock(t, l),
           UNCHANGED <<tables, births, processLock, halted, up>>
    PROVE  /\ pc' \in [Threads -> Places] /\ pc[t] = "User" /\ pc'[t] = b
           /\ \A u \in Threads \ {t} : pc'[u] = pc[u]
           /\ TypesSound' /\ SpacesSound' /\ (\A k \in LockNames : LockSound(k)')
           /\ ProcessLockSound' /\ Counts' /\ HaltSound'
  <1>1. "User" \in Busy /\ \A k \in LockNames : "User" \notin PlacesOf(k)
    BY DEF Busy, Counting, PlacesOf
  <1>2. TypesSound /\ \A k \in LockNames : LockSound(k)
    BY DEF IInv
  <1>3. /\ pc' \in [Threads -> Places] /\ pc[t] = "User" /\ ~Asleep(t) /\ pc'[t] = b
        /\ \A u \in Threads \ {t} : pc'[u] = pc[u]
        /\ SpacesSound' /\ ProcessLockSound' /\ Counts' /\ HaltSound'
        /\ locks' \in [LockNames -> LockRecord] => TypesSound'
    BY <1>1, BusyStep
  <1>4. /\ locks' \in [LockNames -> LockRecord] /\ LockSound(l)'
        /\ \A k \in LockNames \ {l} : locks'[k] = locks[k]
    BY <1>1, <1>2, <1>3, TakeSound
  <1>5. \A k \in LockNames \ {l} : LockSound(k)'
    BY <1>1, <1>2, <1>3, <1>4, LockFrame
  <1> QED
    BY <1>3, <1>4, <1>5

(* t releases a lock and goes on outside of it. *)
LEMMA ReleaseStep ==
    ASSUME IInv, NEW t \in Threads, NEW l \in LockNames, NEW a \in Busy, NEW b \in Busy,
           a \in PlacesOf(l), \A k \in LockNames : b \notin PlacesOf(k),
           Goes(t, a, b), ReleasesLock(t, l),
           UNCHANGED <<tables, births, processLock, halted, up>>
    PROVE  IInv'
  <1>1. \A k \in LockNames \ {l} : a \notin PlacesOf(k)
    BY TheLocks DEF PlacesOf
  <1>2. TypesSound /\ RoomSound /\ \A k \in LockNames : LockSound(k)
    BY DEF IInv
  <1>3. /\ pc' \in [Threads -> Places] /\ pc[t] = a /\ ~Asleep(t) /\ pc'[t] = b
        /\ \A u \in Threads \ {t} : pc'[u] = pc[u]
        /\ SpacesSound' /\ ProcessLockSound' /\ Counts' /\ HaltSound'
        /\ locks' \in [LockNames -> LockRecord] => TypesSound'
    BY BusyStep
  <1>4. /\ locks' \in [LockNames -> LockRecord] /\ LockSound(l)'
        /\ \A k \in LockNames \ {l} : locks'[k] = locks[k]
    BY <1>2, <1>3, ReleaseSound
  <1>5. \A k \in LockNames \ {l} : LockSound(k)'
    BY <1>1, <1>2, <1>3, <1>4, LockFrame
  <1>6. RoomSound'
    <2>1. b \notin {"None", "Forking", "Execing"} /\ a # "None"
      BY TheLocks DEF Busy, Counting, PlacesOf
    <2> QED
      BY <1>2, <1>3, <2>1, RoomFrame DEF tables, births
  <1> QED
    BY <1>3, <1>4, <1>5, <1>6 DEF IInv

LEMMA ForkInv ==
    ASSUME IInv, NEW t \in Threads, Fork(t)
    PROVE  IInv'
  <1>1. /\ RoomForThread /\ Goes(t, "User", "Forking") /\ TakesLock(t, "forkLock")
        /\ UNCHANGED <<tables, births, processLock, halted, up>>
    BY DEF Fork
  <1>2. /\ "Forking" \in Busy /\ "Forking" \in EntryOf("forkLock")
        /\ \A k \in LockNames \ {"forkLock"} : "Forking" \notin PlacesOf(k)
        /\ "forkLock" \in LockNames
    BY TheLocks DEF Busy, Counting, EntryOf, PlacesOf
  <1>3. /\ pc' \in [Threads -> Places] /\ pc[t] = "User" /\ pc'[t] = "Forking"
        /\ \A u \in Threads \ {t} : pc'[u] = pc[u]
        /\ TypesSound' /\ SpacesSound' /\ (\A k \in LockNames : LockSound(k)')
        /\ ProcessLockSound' /\ Counts' /\ HaltSound'
    BY <1>1, <1>2, TakeStep
  <1>4. RoomSound'
    <2>1. Askers' = Askers \cup {t} /\ Execers' = Execers /\ Unborn' = Unborn /\ t \notin Askers
      BY <1>3 DEF Askers, Execers, Unborn
    <2>2. /\ Cardinality(Askers') = Cardinality(Askers) + 1
          /\ Cardinality(Askers) \in Nat /\ Cardinality(Unborn) \in Nat
      <3>1. Askers \in SUBSET Threads /\ Unborn \in SUBSET Threads
        BY DEF Askers, Unborn
      <3> QED
        BY <2>1, <3>1, Members
    <2>3. Cardinality(Askers) < Cardinality(Unborn)
      BY <1>1 DEF RoomForThread, Askers
    <2>4. RoomSound /\ numProcesses' = numProcesses /\ mailboxCount' = mailboxCount
      BY <1>1 DEF IInv, tables, births
    <2> QED
      BY <2>1, <2>2, <2>3, <2>4 DEF RoomSound
  <1> QED
    BY <1>3, <1>4 DEF IInv

LEMMA ExecInv ==
    ASSUME IInv, NEW t \in Threads, Exec(t)
    PROVE  IInv'
  <1>1. /\ RoomForThread /\ RoomForProcess
        /\ Goes(t, "User", "Execing") /\ TakesLock(t, "execLock")
        /\ UNCHANGED <<tables, births, processLock, halted, up>>
    BY DEF Exec
  <1>2. /\ "Execing" \in Busy /\ "Execing" \in EntryOf("execLock")
        /\ \A k \in LockNames \ {"execLock"} : "Execing" \notin PlacesOf(k)
        /\ "execLock" \in LockNames
    BY TheLocks DEF Busy, Counting, EntryOf, PlacesOf
  <1>3. /\ pc' \in [Threads -> Places] /\ pc[t] = "User" /\ pc'[t] = "Execing"
        /\ \A u \in Threads \ {t} : pc'[u] = pc[u]
        /\ TypesSound' /\ SpacesSound' /\ (\A k \in LockNames : LockSound(k)')
        /\ ProcessLockSound' /\ Counts' /\ HaltSound'
    BY <1>1, <1>2, TakeStep
  <1>4. RoomSound'
    <2>1. /\ Askers' = Askers \cup {t} /\ Execers' = Execers \cup {t} /\ Unborn' = Unborn
          /\ t \notin Askers /\ t \notin Execers
      BY <1>3 DEF Askers, Execers, Unborn
    <2>2. /\ Cardinality(Askers') = Cardinality(Askers) + 1
          /\ Cardinality(Execers') = Cardinality(Execers) + 1
          /\ Cardinality(Askers) \in Nat /\ Cardinality(Unborn) \in Nat
          /\ Cardinality(Execers) \in Nat
      <3>1. Askers \in SUBSET Threads /\ Unborn \in SUBSET Threads /\ Execers \in SUBSET Threads
        BY DEF Askers, Unborn, Execers
      <3> QED
        BY <2>1, <3>1, Members
    <2>3. Cardinality(Askers) < Cardinality(Unborn)
      BY <1>1 DEF RoomForThread, Askers
    <2>4. numProcesses + Cardinality(Execers) + 1 <= MaxProcesses - 1
      BY <1>1 DEF RoomForProcess, Execers, Processes
    <2>5. /\ RoomSound /\ numProcesses' = numProcesses /\ mailboxCount' = mailboxCount
          /\ numProcesses \in Nat
      BY <1>1 DEF IInv, tables, births, TypesSound
    <2> QED
      BY <2>1, <2>2, <2>3, <2>4, <2>5 DEF RoomSound
  <1> QED
    BY <1>3, <1>4 DEF IInv

LEMMA ExitInv ==
    ASSUME IInv, NEW t \in Threads, Exit(t)
    PROVE  IInv'
  <1>1. /\ Goes(t, "User", "Exiting") /\ TakesLock(t, "execLock")
        /\ UNCHANGED <<tables, births, processLock, halted, up>>
    BY DEF Exit
  <1>2. /\ "Exiting" \in Busy /\ "Exiting" \in EntryOf("execLock")
        /\ \A k \in LockNames \ {"execLock"} : "Exiting" \notin PlacesOf(k)
        /\ "execLock" \in LockNames
    BY TheLocks DEF Busy, Counting, EntryOf, PlacesOf
  <1>3. /\ pc' \in [Threads -> Places] /\ pc[t] = "User" /\ pc'[t] = "Exiting"
        /\ \A u \in Threads \ {t} : pc'[u] = pc[u]
        /\ TypesSound' /\ SpacesSound' /\ (\A k \in LockNames : LockSound(k)')
        /\ ProcessLockSound' /\ Counts' /\ HaltSound'
    BY <1>1, <1>2, TakeStep
  <1>4. RoomSound'
    <2>1. TypesSound /\ RoomSound /\ numProcesses' = numProcesses /\ mailboxCount' = mailboxCount
      BY <1>1 DEF IInv, tables, births
    <2> QED
      BY <1>3, <2>1, RoomFrame
  <1> QED
    BY <1>3, <1>4 DEF IInv

(* Fork and Exec that fail, and that are over but for the start. *)
LEMMA ReleasesInv ==
    ASSUME IInv, NEW t \in Threads,
           ForkFails(t) \/ ForkReleases(t) \/ ExecFails(t) \/ ExecReleases(t)
    PROVE  IInv'
  <1>1. /\ {"User", "Forking", "Forked", "Starting", "Execing", "Execed"} \subseteq Busy
        /\ \A k \in LockNames : "User" \notin PlacesOf(k) /\ "Starting" \notin PlacesOf(k)
        /\ {"Forking", "Forked"} \subseteq PlacesOf("forkLock")
        /\ {"Execing", "Execed"} \subseteq PlacesOf("execLock")
        /\ "forkLock" \in LockNames /\ "execLock" \in LockNames
    BY TheLocks DEF Busy, Counting, PlacesOf
  <1>2. CASE ForkFails(t)
    BY <1>1, <1>2, ReleaseStep DEF ForkFails
  <1>3. CASE ForkReleases(t)
    BY <1>1, <1>3, ReleaseStep DEF ForkReleases
  <1>4. CASE ExecFails(t)
    BY <1>1, <1>4, ReleaseStep DEF ExecFails
  <1>5. CASE ExecReleases(t)
    BY <1>1, <1>5, ReleaseStep DEF ExecReleases
  <1> QED
    BY <1>2, <1>3, <1>4, <1>5

LEMMA StartInv ==
    ASSUME IInv, NEW t \in Threads, Start(t)
    PROVE  IInv'
  <1>1. /\ TypesSound /\ SpacesSound /\ ProcessLockSound /\ Counts /\ HaltSound /\ RoomSound
        /\ \A l \in LockNames : LockSound(l)
        /\ pc \in [Threads -> Places] /\ locks \in [LockNames -> LockRecord]
        /\ halted \in BOOLEAN /\ up \in BOOLEAN
    BY DEF IInv, TypesSound
  <1>2. /\ ~halted /\ pc[t] = "Starting"
        /\ UNCHANGED <<tables, births, locks, processLock, halted, up>>
    BY DEF Start
  <1>3. PICK n \in Threads :
           pc[n] = "New" /\ pc' = [pc EXCEPT ![t] = "User", ![n] = "User"]
    BY DEF Start
  <1>4. /\ pc' \in [Threads -> Places] /\ n # t
        /\ pc'[t] = "User" /\ pc'[n] = "User"
        /\ \A u \in Threads \ {t, n} : pc'[u] = pc[u]
    BY <1>1, <1>2, <1>3 DEF Places, Counting
  <1>5. TypesSound'
    BY <1>1, <1>2, <1>4, TypesFrame
  <1>6. Counts' /\ SpacesSound'
    <2>1. \A u \in Threads : /\ pc'[u] \in Counting <=> pc[u] \in Counting
                             /\ pc'[u] \in Over <=> pc[u] \in Over
                             /\ pc'[u] = "None" <=> pc[u] = "None"
                             /\ pc'[u] = "New" => pc[u] = "New"
                             /\ pc'[u] = "Leaving" => pc[u] = "Leaving"
      BY <1>2, <1>3, <1>4 DEF Counting, Over
    <2>2. 0 \in Threads /\ pc[0] # "New"
      BY <1>1 DEF Threads, SpacesSound
    <2> QED
      BY <1>1, <1>2, <2>1, <2>2, CountsFrame
  <1>7. \A l \in LockNames : LockSound(l)'
    <2>1. ASSUME NEW l \in LockNames PROVE LockSound(l)'
      <3>1. \A place \in {"Starting", "New", "User"} : place \notin PlacesOf(l)
        BY DEF PlacesOf
      <3>2. \A u \in Threads : Queued(locks[l].queue, u) => pc[u] \in PlacesOf(l)
        BY <1>1 DEF LockSound
      <3>3. \A u \in Threads : /\ pc'[u] \in PlacesOf(l) <=> pc[u] \in PlacesOf(l)
                               /\ Queued(locks[l].queue, u) => pc'[u] = pc[u]
        BY <1>2, <1>3, <1>4, <3>1, <3>2
      <3>4. locks' = locks /\ LockSound(l)
        BY <1>1, <1>2
      <3> QED
        BY <3>3, <3>4 DEF LockSound
    <2> QED
      BY <2>1
  <1>8. ProcessLockSound'
    BY <1>1, <1>2, <1>3, <1>4, ProcessLockFrame DEF tables, births
  <1>9. RoomSound'
    BY <1>1, <1>2, <1>3, <1>4, RoomFrame DEF tables, births
  <1>10. HaltSound'
    BY <1>1, <1>2, <1>4, HaltFrame DEF Idle
  <1> QED
    BY <1>5, <1>6, <1>7, <1>8, <1>9, <1>10 DEF IInv

(* t, then at b, makes a thread of process id. *)
Bears(t, b, id) ==
    NewThread(t, id) /\ pc' = [pc EXCEPT ![t] = b, ![Newest] = "New"]

(* The thread that a Fork or an Exec makes is one that was not there. *)
LEMMA BirthSound ==
    ASSUME IInv, NEW t \in Threads, pc[t] \in {"Forking", "Execing"}, ~Asleep(t),
           NEW b \in {"Forked", "Execed"}, NEW id \in Nat, Bears(t, b, id),
           NEW l \in LockNames, pc[t] \in PlacesOf(l), b \in PlacesOf(l), ~halted,
           UNCHANGED <<locks, halted>>
    PROVE  \E n \in Threads \ {0, t} :
              /\ pc[n] = "None" /\ pc' \in [Threads -> Places]
              /\ pc'[t] = b /\ pc'[n] = "New"
              /\ \A u \in Threads \ {t, n} : pc'[u] = pc[u]
              /\ space' \in [Threads -> Nat \cup {NoSpace}]
              /\ space'[n] = id /\ \A u \in Threads \ {n} : space'[u] = space[u]
              /\ mailbox' \in [Threads -> 0..MaxThreads \cup {NoMailbox}]
              /\ parent' \in [Threads -> Threads \cup {NoThread}]
              /\ mailboxCount' \in Nat
              /\ mailboxCount' + Cardinality(Unborn') <= MaxThreads - 1
              /\ Cardinality(Askers') <= Cardinality(Unborn')
              /\ \A k \in LockNames : LockSound(k)'
              /\ HaltSound'
  <1>1. /\ TypesSound /\ SpacesSound /\ HaltSound /\ RoomSound
        /\ \A k \in LockNames : LockSound(k)
        /\ pc \in [Threads -> Places] /\ mailboxCount \in Nat
        /\ space \in [Threads -> Nat \cup {NoSpace}]
        /\ mailbox \in [Threads -> 0..MaxThreads \cup {NoMailbox}]
        /\ parent \in [Threads -> Threads \cup {NoThread}]
    BY DEF IInv, TypesSound
  <1>2. /\ Askers \in SUBSET Threads /\ Unborn \in SUBSET Threads /\ t \in Askers
        /\ Cardinality(Askers) \in Nat /\ Cardinality(Unborn) \in Nat
    <2>1. Askers \in SUBSET Threads /\ Unborn \in SUBSET Threads /\ t \in Askers
      BY DEF Askers, Unborn
    <2> QED
      BY <2>1, Members
  <1>3. Cardinality(Askers \ {t}) = Cardinality(Askers) - 1
    BY <1>2, Members
  <1>4. Cardinality(Askers \ {t}) \in Nat
    <2>1. Askers \ {t} \in SUBSET Threads
      BY <1>2
    <2> QED
      BY <2>1, Members
  <1>5. Unborn # {}
    BY <1>1, <1>2, <1>3, <1>4, Members DEF RoomSound
  <1>6. PICK n \in Unborn : n = Newest
    BY <1>5, NewestUnborn
  <1>7. n \in Threads \ {0, t} /\ pc[n] = "None"
    BY <1>1, <1>6 DEF Unborn, SpacesSound
  <1>8. pc' = [pc EXCEPT ![t] = b, ![n] = "New"]
    BY <1>6 DEF Bears
  <1>9. /\ pc' \in [Threads -> Places] /\ pc'[t] = b /\ pc'[n] = "New"
        /\ \A u \in Threads \ {t, n} : pc'[u] = pc[u]
    BY <1>1, <1>7, <1>8 DEF Places, Counting
  <1>10. mailboxCount \in 0..MaxThreads
    BY <1>1, <1>2 DEF RoomSound
  <1>11. /\ space' \in [Threads -> Nat \cup {NoSpace}]
         /\ space'[n] = id /\ \A u \in Threads \ {n} : space'[u] = space[u]
         /\ mailbox' \in [Threads -> 0..MaxThreads \cup {NoMailbox}]
         /\ parent' \in [Threads -> Threads \cup {NoThread}]
         /\ mailboxCount' = mailboxCount + 1
    <2>1. /\ parent' = [parent EXCEPT ![n] = t]
          /\ space' = [space EXCEPT ![n] = id]
          /\ mailbox' = [mailbox EXCEPT ![n] = mailboxCount]
          /\ mailboxCount' = mailboxCount + 1
      BY <1>6 DEF Bears, NewThread
    <2> QED
      BY <1>1, <1>7, <1>10, <2>1
  <1>12. /\ mailboxCount' + Cardinality(Unborn') <= MaxThreads - 1
         /\ Cardinality(Askers') <= Cardinality(Unborn')
    <2>1. Askers' = Askers \ {t} /\ Unborn' = Unborn \ {n}
      BY <1>7, <1>9 DEF Askers, Unborn
    <2>2. Cardinality(Unborn \ {n}) = Cardinality(Unborn) - 1
      BY <1>2, Members
    <2> QED
      BY <1>1, <1>2, <1>3, <1>11, <2>1, <2>2 DEF RoomSound
  <1>13. \A k \in LockNames : LockSound(k)'
    <2>1. ASSUME NEW k \in LockNames PROVE LockSound(k)'
      <3>1. /\ pc[t] \in PlacesOf(k) <=> b \in PlacesOf(k)
            /\ "New" \notin PlacesOf(k) /\ "None" \notin PlacesOf(k)
        BY TheLocks DEF PlacesOf
      <3>2. ~Queued(locks[k].queue, n) /\ ~Queued(locks[k].queue, t)
        BY <1>1, <1>7, <3>1 DEF LockSound, Asleep
      <3>3. \A u \in Threads : /\ pc'[u] \in PlacesOf(k) <=> pc[u] \in PlacesOf(k)
                               /\ Queued(locks[k].queue, u) => pc'[u] = pc[u]
        BY <1>7, <1>9, <3>1, <3>2
      <3>4. locks' = locks /\ LockSound(k)
        BY <1>1
      <3> QED
        BY <3>3, <3>4 DEF LockSound
    <2> QED
      BY <2>1
  <1>14. HaltSound'
    BY <1>1, <1>7, <1>9, HaltFrame DEF Idle
  <1> QED
    BY <1>1, <1>7, <1>9, <1>11, <1>12, <1>13, <1>14

LEMMA ForkCountsInv ==
    ASSUME IInv, NEW t \in Threads, ForkCounts(t)
    PROVE  IInv'
  <1>1. /\ TypesSound /\ SpacesSound /\ ProcessLockSound /\ Counts /\ HaltSound /\ RoomSound
        /\ \A l \in LockNames : LockSound(l)
        /\ numProcesses \in Nat /\ DOMAIN threadCount = 1..numProcesses
    BY DEF IInv, TypesSound
  <1>2. /\ up /\ ~halted /\ pc[t] = "Forking" /\ ~Asleep(t)
        /\ UNCHANGED <<numProcesses, numProcessesExited, locks, processLock, halted>>
    BY DEF ForkCounts
  <1>3. CASE Crash /\ UNCHANGED <<threadCount, births, pc>>
    <2>1. up' = FALSE /\ UNCHANGED <<tables, births, locks, processLock, pc, halted>>
      BY <1>2, <1>3 DEF Crash, tables
    <2>2. TypesSound' /\ SpacesSound' /\ Counts'
      <3>1. TypesSound'
        BY <1>1, <2>1 DEF TypesSound, tables, births
      <3>2. SpacesSound' /\ Counts'
        BY <1>1, <2>1, CountsFrame DEF SpacesSound
      <3> QED
        BY <3>1, <3>2
    <2>3. RoomSound' /\ HaltSound'
      BY <1>1, <2>1 DEF RoomSound, Askers, Execers, Unborn, HaltSound, tables, births
    <2>4. ProcessLockSound' /\ \A l \in LockNames : LockSound(l)'
      BY <1>1, <2>1 DEF ProcessLockSound, LockSound, tables, births
    <2> QED
      BY <2>2, <2>3, <2>4 DEF IInv
  <1>4. ASSUME NEW id \in 1..numProcesses, id = space[t],
               threadCount' = [threadCount EXCEPT ![id] = @ + 1],
               Bears(t, "Forked", id), UNCHANGED up
        PROVE  IInv'
    <2>1. "forkLock" \in LockNames /\ {"Forking", "Forked"} \subseteq PlacesOf("forkLock")
      BY TheLocks DEF PlacesOf
    <2>2. PICK n \in Threads \ {0, t} :
             /\ pc[n] = "None" /\ pc' \in [Threads -> Places]
             /\ pc'[t] = "Forked" /\ pc'[n] = "New"
             /\ \A u \in Threads \ {t, n} : pc'[u] = pc[u]
             /\ space' \in [Threads -> Nat \cup {NoSpace}]
             /\ space'[n] = id /\ \A u \in Threads \ {n} : space'[u] = space[u]
             /\ mailbox' \in [Threads -> 0..MaxThreads \cup {NoMailbox}]
             /\ parent' \in [Threads -> Threads \cup {NoThread}]
             /\ mailboxCount' \in Nat
             /\ mailboxCount' + Cardinality(Unborn') <= MaxThreads - 1
             /\ Cardinality(Askers') <= Cardinality(Unborn')
             /\ \A k \in LockNames : LockSound(k)'
             /\ HaltSound'
      <3>1. id \in Nat
        OBVIOUS
      <3> QED
        BY <1>2, <1>4, <2>1, <3>1, BirthSound
    <2>3. TypesSound'
      BY <1>1, <1>2, <1>4, <2>2 DEF TypesSound
    <2>4. SpacesSound'
      <3>1. 0 \in Threads
        BY DEF Threads
      <3>2. /\ space'[0] = space[0]
            /\ pc'[0] = pc[0] \/ (pc[0] = "Forking" /\ pc'[0] = "Forked")
        BY <1>2, <2>2, <3>1
      <3>3. \A u \in Threads \ {0} : pc'[u] # "None" => space'[u] \in 1..numProcesses
        BY <1>1, <1>2, <2>2 DEF SpacesSound
      <3>4. "Forked" \notin Over
        BY DEF Over
      <3> QED
        BY <1>1, <1>2, <1>4, <3>2, <3>3, <3>4 DEF SpacesSound
    <2>5. ProcessLockSound'
      BY <1>1, <1>2, <2>2 DEF ProcessLockSound
    <2>6. RoomSound'
      <3>1. Execers' = Execers
        BY <1>2, <2>2 DEF Execers
      <3> QED
        BY <1>1, <1>2, <2>2, <3>1 DEF RoomSound
    <2>7. Counts'
      <3>1. \A u \in Threads \ {n} : pc'[u] \in Counting <=> pc[u] \in Counting
        BY <1>2, <2>2 DEF Counting
      <3>2. pc[n] \notin Counting /\ pc'[n] \in Counting
        BY <2>2 DEF Counting
      <3>3. \A p \in 1..numProcesses :
               Alive(p)' = IF p = id THEN Alive(p) \cup {n} ELSE Alive(p)
        BY <2>2, <3>1, <3>2 DEF Alive
      <3>4. n \in Threads \ Alive(id) /\ Alive(id) \in SUBSET Threads /\ t \in Alive(id)
        BY <1>2, <1>4, <2>2, <3>2 DEF Alive, Counting
      <3>5. Cardinality(Alive(id) \cup {n}) = Cardinality(Alive(id)) + 1
        BY <3>4, Members
      <3>6. Ended' = Ended
        <4>1. \A p \in 1..numProcesses : Alive(p)' = {} <=> Alive(p) = {}
          BY <3>3, <3>4
        <4>2. pc'[0] \in Over <=> pc[0] \in Over
          BY <1>2, <2>2 DEF Over, Threads
        <4> QED
          BY <1>2, <4>1, <4>2 DEF Ended
      <3>7. \A p \in 1..numProcesses :
               threadCount'[p] = IF p = id THEN threadCount[p] + 1 ELSE threadCount[p]
        BY <1>1, <1>4
      <3> QED
        BY <1>1, <1>2, <3>3, <3>5, <3>6, <3>7 DEF Counts
    <2> QED
      BY <2>2, <2>3, <2>4, <2>5, <2>6, <2>7 DEF IInv
  <1> QED
    BY <1>1, <1>3, <1>4 DEF ForkCounts, Counted, Bears

LEMMA ExecEntersInv ==
    ASSUME IInv, NEW t \in Threads, ExecEnters(t)
    PROVE  IInv'
  <1>1. /\ TypesSound /\ SpacesSound /\ ProcessLockSound /\ Counts /\ HaltSound /\ RoomSound
        /\ \A l \in LockNames : LockSound(l)
        /\ numProcesses \in Nat /\ DOMAIN threadCount = 1..numProcesses
        /\ DOMAIN processLock = 1..numProcesses
    BY DEF IInv, TypesSound
  <1>2. PICK id \in Nat : id = numProcesses + 1
    BY <1>1
  <1>3. /\ up /\ ~halted /\ pc[t] = "Execing" /\ ~Asleep(t)
        /\ UNCHANGED <<numProcessesExited, locks, halted, up>>
        /\ numProcesses' = id
        /\ threadCount' = [p \in DOMAIN threadCount \cup {id} |->
                              IF p = id THEN 1 ELSE threadCount[p]]
        /\ processLock' = [p \in DOMAIN processLock \cup {id} |->
                              IF p = id THEN FreeLock ELSE processLock[p]]
        /\ Bears(t, "Execed", id)
    BY <1>2 DEF ExecEnters, Bears
  <1>4. "execLock" \in LockNames /\ {"Execing", "Execed"} \subseteq PlacesOf("execLock")
    BY TheLocks DEF PlacesOf
  <1>5. PICK n \in Threads \ {0, t} :
           /\ pc[n] = "None" /\ pc' \in [Threads -> Places]
           /\ pc'[t] = "Execed" /\ pc'[n] = "New"
           /\ \A u \in Threads \ {t, n} : pc'[u] = pc[u]
           /\ space' \in [Threads -> Nat \cup {NoSpace}]
           /\ space'[n] = id /\ \A u \in Threads \ {n} : space'[u] = space[u]
           /\ mailbox' \in [Threads -> 0..MaxThreads \cup {NoMailbox}]
           /\ parent' \in [Threads -> Threads \cup {NoThread}]
           /\ mailboxCount' \in Nat
           /\ mailboxCount' + Cardinality(Unborn') <= MaxThreads - 1
           /\ Cardinality(Askers') <= Cardinality(Unborn')
           /\ \A k \in LockNames : LockSound(k)'
           /\ HaltSound'
    BY <1>3, <1>4, BirthSound
  <1>6. /\ 1..id = 1..numProcesses \cup {id} /\ id \notin 1..numProcesses
        /\ DOMAIN threadCount' = 1..id /\ DOMAIN processLock' = 1..id
        /\ threadCount'[id] = 1 /\ processLock'[id] = FreeLock
        /\ \A p \in 1..numProcesses : /\ p # id /\ threadCount'[p] = threadCount[p]
                                      /\ processLock'[p] = processLock[p]
    <2>1. 1..id = 1..numProcesses \cup {id} /\ id \notin 1..numProcesses
      BY <1>1, <1>2
    <2> QED
      BY <1>1, <1>3, <2>1
  <1>7. FreeLock \in LockRecord /\ FreeLock.queue = << >> /\ FreeLock.owner = NoThread
    BY DEF FreeLock, LockRecord
  <1>8. TypesSound'
    <2>1. \A p \in 1..id : processLock'[p] \in LockRecord
      BY <1>1, <1>6, <1>7 DEF TypesSound
    <2> QED
      BY <1>1, <1>3, <1>5, <1>6, <2>1 DEF TypesSound
  <1>9. /\ Cardinality(Execers) - 1 = Cardinality(Execers')
        /\ Cardinality(Execers) \in Nat /\ Cardinality(Execers') \in Nat
    <2>1. t \in Execers /\ Execers' = Execers \ {t}
      BY <1>3, <1>5 DEF Execers
    <2>2. Execers \in SUBSET Threads /\ Execers \ {t} \in SUBSET Threads
      BY DEF Execers
    <2> QED
      BY <2>1, <2>2, Members
  <1>10. id \in Processes /\ id # 0
    BY <1>1, <1>2, <1>9 DEF RoomSound, Processes
  <1>11. 0 \in Threads /\ space'[0] = space[0] /\ space[0] # id
    <2>1. 0 \in Threads /\ space[0] \in FirstIDs
      BY <1>1 DEF Threads, SpacesSound
    <2> QED
      BY <1>5, <1>10, <2>1
  <1>12. SpacesSound'
    <2>1. pc'[0] = pc[0] \/ (pc[0] = "Execing" /\ pc'[0] = "Execed")
      BY <1>3, <1>5, <1>11
    <2>2. \A u \in Threads \ {0} : pc'[u] # "None" => space'[u] \in 1..id
      BY <1>1, <1>3, <1>5, <1>6 DEF SpacesSound
    <2>3. "Execed" \notin Over
      BY DEF Over
    <2> QED
      BY <1>1, <1>3, <1>11, <2>1, <2>2, <2>3 DEF SpacesSound
  <1>13. \A u \in Threads \ {n} : pc[u] \in Counting \/ pc[u] = "Leaving" => space[u] # id
    BY <1>1, <1>6, <1>11 DEF SpacesSound, Counting
  <1>14. ProcessLockSound'
    <2>1. ASSUME NEW p \in 1..numProcesses
          PROVE  /\ processLock'[p].queue = << >>
                 /\ \A u \in Threads :
                       processLock'[p].owner = u <=> pc'[u] = "Leaving" /\ space'[u] = p
      <3>1. \A u \in Threads : pc'[u] = "Leaving" <=> pc[u] = "Leaving"
        BY <1>3, <1>5
      <3>2. \A u \in Threads : pc[u] = "Leaving" => space'[u] = space[u]
        BY <1>5
      <3> QED
        BY <1>1, <1>6, <2>1, <3>1, <3>2 DEF ProcessLockSound
    <2>2. \A u \in Threads : ~(pc'[u] = "Leaving" /\ space'[u] = id)
      BY <1>3, <1>5, <1>13
    <2>3. \A u \in Threads : u # NoThread
      BY DEF Threads, NoThread
    <2> QED
      BY <1>3, <1>6, <1>7, <2>1, <2>2, <2>3 DEF ProcessLockSound
  <1>15. RoomSound'
    BY <1>1, <1>2, <1>3, <1>5, <1>9 DEF RoomSound
  <1>16. Counts'
    <2>1. \A u \in Threads \ {n} : pc'[u] \in Counting <=> pc[u] \in Counting
      BY <1>3, <1>5 DEF Counting
    <2>2. pc[n] \notin Counting /\ pc'[n] \in Counting
      BY <1>5 DEF Counting
    <2>3. \A p \in 1..numProcesses : Alive(p)' = Alive(p)
      BY <1>5, <1>6, <2>1, <2>2 DEF Alive
    <2>4. Alive(id)' = {n}
      BY <1>5, <1>13, <2>1, <2>2 DEF Alive
    <2>5. Cardinality(Alive(id)') = 1
      BY <2>4, FS_Singleton
    <2>6. Ended' = Ended
      <3>1. pc'[0] \in Over <=> pc[0] \in Over
        BY <1>3, <1>5, <1>11 DEF Over
      <3> QED
        BY <1>3, <1>6, <2>3, <2>4, <3>1 DEF Ended
    <2> QED
      BY <1>1, <1>3, <1>6, <2>3, <2>5, <2>6 DEF Counts
  <1> QED
    BY <1>5, <1>8, <1>12, <1>14, <1>15, <1>16 DEF IInv

(* The lock of the process that ends is taken at once. *)
LEMMA ExitTakesInv ==
    ASSUME IInv, NEW t \in Threads, ExitTakes(t)
    PROVE  IInv'
  <1>1. /\ TypesSound /\ SpacesSound /\ ProcessLockSound /\ Counts /\ HaltSound /\ RoomSound
        /\ \A l \in LockNames : LockSound(l)
        /\ pc \in [Threads -> Places] /\ locks \in [LockNames -> LockRecord]
        /\ DOMAIN processLock = 1..numProcesses
        /\ \A p \in 1..numProcesses : processLock[p] \in LockRecord
        /\ halted \in BOOLEAN /\ up \in BOOLEAN
    BY DEF IInv, TypesSound
  <1>2. /\ up /\ ~halted /\ pc[t] = "Exiting" /\ ~Asleep(t)
        /\ pc' = [pc EXCEPT ![t] = "Leaving"]
        /\ UNCHANGED <<tables, births, locks, halted>>
        /\ \/ /\ space[t] \in 1..numProcesses
              /\ processLock' = [processLock EXCEPT ![space[t]] = Taken(@, t)]
              /\ up' = up
           \/ /\ space[t] \notin 1..numProcesses /\ ~up' /\ up' \in BOOLEAN
              /\ processLock' = processLock
    BY <1>1 DEF ExitTakes, Goes, Crash
  <1>3. /\ pc' \in [Threads -> Places] /\ pc'[t] = "Leaving"
        /\ \A u \in Threads \ {t} : pc'[u] = pc[u]
    BY <1>1, <1>2 DEF Places, Counting
  <1>4. t = 0 => ~up'
    <2>1. ASSUME t = 0 PROVE space[t] \notin 1..numProcesses
      <3>1. numProcesses \in Nat /\ Cardinality(Execers) \in Nat
        <4>1. Execers \in SUBSET Threads
          BY DEF Execers
        <4> QED
          BY <1>1, <4>1, Members DEF TypesSound
      <3>2. 1..numProcesses \subseteq Processes \ {0}
        BY <1>1, <3>1 DEF RoomSound, Processes
      <3> QED
        BY <1>1, <2>1, <3>2 DEF SpacesSound
    <2> QED
      BY <1>2, <2>1
  <1>5. Counts' /\ SpacesSound'
    <2>1. \A u \in Threads : /\ pc'[u] \in Counting <=> pc[u] \in Counting
                             /\ pc'[u] \in Over <=> pc[u] \in Over
                             /\ pc'[u] = "None" <=> pc[u] = "None"
                             /\ pc'[u] = "New" => pc[u] = "New"
      BY <1>2, <1>3 DEF Counting, Over
    <2>2. 0 \in Threads /\ pc'[0] # "New"
      BY <1>1, <2>1 DEF Threads, SpacesSound
    <2>3. (up' => up) /\ (pc'[0] = "Leaving" => pc[0] = "Leaving" \/ ~up')
      BY <1>2, <1>3, <1>4, <2>2
    <2> QED
      BY <1>1, <1>2, <2>1, <2>2, <2>3, CountsFrame
  <1>6. \A l \in LockNames : LockSound(l)'
    <2>1. \A l \in LockNames : "Leaving" \in PlacesOf(l) <=> "Exiting" \in PlacesOf(l)
      BY DEF PlacesOf
    <2> QED
      BY <1>1, <1>2, <1>3, <2>1, LockFrame
  <1>7. RoomSound'
    BY <1>1, <1>2, <1>3, RoomFrame DEF tables, births
  <1>8. HaltSound'
    BY <1>1, <1>2, <1>3, HaltFrame DEF Idle
  <1>9. \A u \in Threads \ {t} : pc[u] # "Leaving"
    <2>1. "execLock" \in LockNames /\ {"Exiting", "Leaving"} \subseteq PlacesOf("execLock")
          /\ "Leaving" \notin EntryOf("execLock")
      BY TheLocks DEF PlacesOf, EntryOf
    <2>2. locks["execLock"].owner = t
      BY <1>1, <1>2, <2>1, Owns
    <2> QED
      BY <1>1, <2>1, <2>2 DEF LockSound
  <1>10. numProcesses' = numProcesses /\ space' = space
    BY <1>2 DEF tables, births
  <1>11. ProcessLockSound' /\ DOMAIN processLock' = 1..numProcesses
         /\ \A p \in 1..numProcesses : processLock'[p] \in LockRecord
    <2>1. CASE space[t] \notin 1..numProcesses /\ processLock' = processLock
      <3>1. \A p \in 1..numProcesses, u \in Threads :
               pc'[u] = "Leaving" /\ space[u] = p <=> pc[u] = "Leaving" /\ space[u] = p
        BY <1>2, <1>3, <2>1
      <3>2. ProcessLockSound'
        BY <1>1, <1>10, <2>1, <3>1 DEF ProcessLockSound
      <3> QED
        BY <1>1, <2>1, <3>2
    <2>2. ASSUME NEW id \in 1..numProcesses, id = space[t],
                 processLock' = [processLock EXCEPT ![id] = Taken(@, t)]
          PROVE  ProcessLockSound' /\ DOMAIN processLock' = 1..numProcesses
                 /\ \A p \in 1..numProcesses : processLock'[p] \in LockRecord
      <3> DEFINE L == processLock[id]
      <3>1. /\ L \in LockRecord /\ L.queue = << >> /\ \A u \in Threads : L.owner # u
        BY <1>1, <1>2, <1>9 DEF ProcessLockSound
      <3>2. L.owner = NoThread
        BY <3>1 DEF LockRecord
      <3>3. /\ processLock'[id] = [L EXCEPT !.owner = t] /\ DOMAIN processLock' = 1..numProcesses
            /\ \A p \in 1..numProcesses : p # id => processLock'[p] = processLock[p]
        BY <1>1, <2>2, <3>2 DEF Taken
      <3>4. /\ processLock'[id] \in LockRecord /\ processLock'[id].owner = t
            /\ processLock'[id].queue = << >>
        BY <3>1, <3>3 DEF LockRecord
      <3>5. ProcessLockSound'
        BY <1>1, <1>2, <1>3, <1>9, <1>10, <2>2, <3>3, <3>4 DEF ProcessLockSound
      <3> QED
        BY <1>1, <3>3, <3>4, <3>5
    <2> QED
      BY <1>2, <2>1, <2>2
  <1>12. TypesSound'
    BY <1>1, <1>2, <1>3, <1>11 DEF TypesSound, tables, births
  <1> QED
    BY <1>5, <1>6, <1>7, <1>8, <1>11, <1>12 DEF IInv

LEMMA AllOverNext ==
    (TypesSound /\ SpacesSound /\ Counts /\ numProcessesExited = numProcesses
        => \A t \in Threads : pc[t] \in Over \cup {"None"})'
  BY AllOver, PTL

(* The thread that decides to halt is the last one: nobody else is left in a *)
(* call, because it holds the execLock and all processes are over.           *)
LEMMA VerdictSound ==
    ASSUME IInv, NEW t \in Threads, pc[t] \in {"Exiting", "Leaving"}, ~Asleep(t),
           ~halted, ~halted', \A u \in Threads \ {t} : pc'[u] = pc[u],
           TypesSound', SpacesSound', Counts',
           pc'[t] \in {"LeftLast", "Halting"} => numProcessesExited' = numProcesses'
    PROVE  HaltSound'
  <1>1. HaltSound /\ pc \in [Threads -> Places] /\ LockSound("execLock")
    BY TheLocks DEF IInv, TypesSound
  <1>2. \A u \in Threads \ {t} : pc[u] \notin {"LeftLast", "Halting"}
    BY <1>1 DEF HaltSound, Idle
  <1>3. \A u \in Threads \ {t} : pc[u] # "Left"
    <2>1. /\ {"Left", "Exiting", "Leaving"} \subseteq PlacesOf("execLock")
          /\ "Left" \notin EntryOf("execLock")
      BY DEF PlacesOf, EntryOf
    <2>2. locks["execLock"].owner = t
      BY <1>1, <2>1, TheLocks, Owns
    <2> QED
      BY <1>1, <2>1, <2>2 DEF LockSound
  <1>4. CASE pc'[t] \in {"LeftLast", "Halting"}
    <2>1. \A u \in Threads : pc'[u] \in Over \cup {"None"}
      BY <1>4, AllOverNext
    <2>2. \A u \in Threads \ {t} : pc'[u] \in Idle
      BY <1>2, <1>3, <2>1 DEF Over, Idle
    <2> QED
      BY <2>2 DEF HaltSound, Idle
  <1>5. CASE pc'[t] \notin {"LeftLast", "Halting"}
    BY <1>2, <1>5 DEF HaltSound
  <1> QED
    BY <1>4, <1>5

LEMMA EndedFinite ==
    ASSUME TypesSound
    PROVE  IsFiniteSet(Ended) /\ Cardinality(Ended) \in Nat
  <1>1. Ended \subseteq 0..numProcesses /\ IsFiniteSet(0..numProcesses)
    <2>1. numProcesses \in Nat /\ 0 \in Int
      BY DEF TypesSound
    <2> QED
      BY <2>1, FS_Interval DEF Ended
  <1> QED
    BY <1>1, FS_Subset, FS_CardinalityType

LEMMA ExitFirstInv ==
    ASSUME IInv, NEW t \in Threads, ExitFirst(t)
    PROVE  IInv'
  <1>1. /\ TypesSound /\ SpacesSound /\ ProcessLockSound /\ Counts /\ HaltSound /\ RoomSound
        /\ \A l \in LockNames : LockSound(l)
        /\ pc \in [Threads -> Places]
        /\ numProcesses \in Nat /\ numProcessesExited \in Int
    BY DEF IInv, TypesSound
  <1>2. PICK b \in {"Halting", "Finishing"} :
           /\ b = Verdict(TRUE)
           /\ b = "Halting" => numProcessesExited + 1 = numProcesses
    BY DEF Verdict, LastOne
  <1>3. /\ up /\ ~halted /\ pc[t] = "Exiting" /\ ~Asleep(t) /\ space[t] = 0
        /\ pc' = [pc EXCEPT ![t] = b]
        /\ numProcessesExited' = numProcessesExited + 1
        /\ ReleasesLock(t, "execLock")
        /\ UNCHANGED <<numProcesses, threadCount, births, processLock, halted, up>>
    BY <1>2 DEF ExitFirst, Goes
  <1>4. /\ pc' \in [Threads -> Places] /\ pc'[t] = b
        /\ \A u \in Threads \ {t} : pc'[u] = pc[u]
    BY <1>1, <1>2, <1>3 DEF Places, Over
  <1>5. t = 0 /\ 0 \in Threads
    BY <1>1, <1>3 DEF SpacesSound, Threads
  <1>6. /\ {"Exiting"} \subseteq PlacesOf("execLock") /\ "Exiting" \notin PlacesOf("forkLock")
        /\ \A l \in LockNames : b \notin PlacesOf(l)
    BY <1>2, TheLocks DEF PlacesOf
  <1>7. /\ locks' \in [LockNames -> LockRecord] /\ LockSound("execLock")'
        /\ \A k \in LockNames \ {"execLock"} : locks'[k] = locks[k]
    BY <1>1, <1>3, <1>4, <1>6, TheLocks, ReleaseSound
  <1>8. LockSound("forkLock")'
    BY <1>1, <1>3, <1>4, <1>6, <1>7, TheLocks, LockFrame
  <1>9. TypesSound'
    BY <1>1, <1>3, <1>4, <1>7 DEF TypesSound, births
  <1>10. space' = space /\ mailboxCount' = mailboxCount
    BY <1>3 DEF births
  <1>11. SpacesSound'
    BY <1>1, <1>2, <1>3, <1>4, <1>5, <1>10 DEF SpacesSound
  <1>12. Counts'
    <2>1. \A p \in 1..numProcesses : Alive(p)' = Alive(p)
      BY <1>1, <1>3, <1>4, <1>5, <1>10 DEF Alive
    <2>2. Ended' = Ended \cup {0} /\ 0 \notin Ended
      <3>1. pc[0] \notin Over /\ pc'[0] \in Over
        BY <1>2, <1>3, <1>4, <1>5 DEF Over
      <3>2. /\ Ended = {p \in 1..numProcesses : Alive(p) = {}}
            /\ Ended' = {p \in 1..numProcesses : Alive(p) = {}} \cup {0}
        BY <1>3, <2>1, <3>1 DEF Ended
      <3> QED
        BY <1>1, <3>2
    <2>3. Cardinality(Ended') = Cardinality(Ended) + 1
      BY <1>1, <2>2, EndedFinite, FS_AddElement
    <2> QED
      BY <1>1, <1>3, <2>1, <2>3, EndedFinite DEF Counts
  <1>13. ProcessLockSound'
    BY <1>1, <1>2, <1>3, <1>4, <1>10, ProcessLockFrame
  <1>14. RoomSound'
    BY <1>1, <1>2, <1>3, <1>4, <1>10, RoomFrame
  <1>15. HaltSound'
    BY <1>2, <1>3, <1>4, <1>9, <1>11, <1>12, VerdictSound
  <1> QED
    BY <1>7, <1>8, <1>9, <1>11, <1>12, <1>13, <1>14, <1>15, TheLocks DEF IInv

LEMMA ExitCountsInv ==
    ASSUME IInv, NEW t \in Threads, ExitCounts(t)
    PROVE  IInv'
  <1>1. /\ TypesSound /\ SpacesSound /\ ProcessLockSound /\ Counts /\ HaltSound /\ RoomSound
        /\ \A l \in LockNames : LockSound(l)
        /\ pc \in [Threads -> Places] /\ locks \in [LockNames -> LockRecord]
        /\ numProcesses \in Nat /\ numProcessesExited \in Int
        /\ DOMAIN threadCount = 1..numProcesses
        /\ DOMAIN processLock = 1..numProcesses
        /\ \A p \in 1..numProcesses : processLock[p] \in LockRecord
    BY DEF IInv, TypesSound
  <1>2. PICK id \in 1..numProcesses : id = space[t]
    BY <1>1 DEF ExitCounts, Goes, SpacesSound
  <1>3. PICK last \in BOOLEAN : last = (threadCount[id] = 1)
    OBVIOUS
  <1>4. PICK b \in {"LeftLast", "Left"} :
           /\ b = With(Verdict(last))
           /\ b = "LeftLast" => last /\ numProcessesExited + 1 = numProcesses
    BY DEF With, Verdict, LastOne
  <1>5. /\ up /\ ~halted /\ pc[t] = "Leaving" /\ ~Asleep(t)
        /\ pc' = [pc EXCEPT ![t] = b]
        /\ threadCount' = [threadCount EXCEPT ![id] = @ - 1]
        /\ numProcessesExited' = numProcessesExited + IF last THEN 1 ELSE 0
        /\ processLock' = [processLock EXCEPT ![id] = Released(@)]
        /\ UNCHANGED <<numProcesses, births, locks, halted, up>>
    BY <1>2, <1>3, <1>4 DEF ExitCounts, Goes
  <1>6. /\ pc' \in [Threads -> Places] /\ pc'[t] = b
        /\ \A u \in Threads \ {t} : pc'[u] = pc[u]
    BY <1>1, <1>4, <1>5 DEF Places, Over
  <1>7. t # 0 /\ 0 \in Threads
    BY <1>1, <1>5 DEF SpacesSound, Threads
  <1>8. space' = space /\ mailboxCount' = mailboxCount
    BY <1>5 DEF births
  <1>9. \A l \in LockNames : LockSound(l)'
    <2>1. \A l \in LockNames : "Leaving" \in PlacesOf(l) <=> b \in PlacesOf(l)
      BY <1>4 DEF PlacesOf
    <2> QED
      BY <1>1, <1>5, <1>6, <2>1, LockFrame
  <1>10. /\ ProcessLockSound' /\ DOMAIN processLock' = 1..numProcesses
         /\ \A p \in 1..numProcesses : processLock'[p] \in LockRecord
    <2> DEFINE L == processLock[id]
    <2>1. L \in LockRecord /\ L.queue = << >> /\ L.owner = t
      BY <1>1, <1>2, <1>5 DEF ProcessLockSound
    <2>2. /\ processLock'[id] = [L EXCEPT !.owner = NoThread]
          /\ DOMAIN processLock' = 1..numProcesses
          /\ \A p \in 1..numProcesses : p # id => processLock'[p] = processLock[p]
      BY <1>1, <1>5, <2>1 DEF Released
    <2>3. /\ processLock'[id] \in LockRecord /\ processLock'[id].owner = NoThread
          /\ processLock'[id].queue = << >>
      BY <2>1, <2>2 DEF LockRecord
    <2>4. \A u \in Threads : u # NoThread
      BY DEF Threads, NoThread
    <2>5. \A u \in Threads : ~(pc'[u] = "Leaving" /\ space[u] = id)
      <3>1. \A u \in Threads : pc[u] = "Leaving" /\ space[u] = id => u = t
        BY <1>1, <2>1 DEF ProcessLockSound
      <3> QED
        BY <1>4, <1>6, <3>1
    <2>6. \A p \in 1..numProcesses, u \in Threads :
             p # id => (pc'[u] = "Leaving" /\ space[u] = p <=> pc[u] = "Leaving" /\ space[u] = p)
      BY <1>2, <1>4, <1>6
    <2>7. ProcessLockSound'
      BY <1>1, <1>5, <1>8, <2>2, <2>3, <2>4, <2>5, <2>6 DEF ProcessLockSound
    <2> QED
      BY <1>1, <2>2, <2>3, <2>7
  <1>11. TypesSound'
    <2>1. DOMAIN threadCount' = 1..numProcesses
      BY <1>1, <1>5
    <2>2. numProcessesExited' \in Int
      BY <1>1, <1>5
    <2> QED
      BY <1>1, <1>5, <1>6, <1>10, <2>1, <2>2 DEF TypesSound, births
  <1>12. SpacesSound'
    BY <1>1, <1>4, <1>5, <1>6, <1>7, <1>8 DEF SpacesSound
  <1>13. Counts'
    <2>1. \A u \in Threads \ {t} : pc'[u] = pc[u]
      BY <1>6
    <2>2. pc[t] \in Counting /\ pc'[t] \notin Counting
      BY <1>4, <1>5, <1>6 DEF Counting
    <2>3. \A p \in 1..numProcesses :
             Alive(p)' = IF p = id THEN Alive(p) \ {t} ELSE Alive(p)
      BY <1>2, <1>8, <2>1, <2>2 DEF Alive
    <2>4. t \in Alive(id) /\ Alive(id) \in SUBSET Threads /\ Alive(id) \ {t} \in SUBSET Threads
      BY <1>2, <2>2 DEF Alive
    <2>5. /\ Cardinality(Alive(id) \ {t}) = Cardinality(Alive(id)) - 1
          /\ Cardinality(Alive(id)) \in Nat
          /\ Alive(id) \ {t} = {} <=> Cardinality(Alive(id) \ {t}) = 0
      BY <2>4, Members
    <2>6. threadCount[id] = Cardinality(Alive(id))
      BY <1>1 DEF Counts
    <2>7. \A p \in 1..numProcesses : threadCount'[p] = Cardinality(Alive(p)')
      <3>1. \A p \in 1..numProcesses :
               threadCount'[p] = IF p = id THEN threadCount[p] - 1 ELSE threadCount[p]
        BY <1>1, <1>5
      <3> QED
        BY <1>1, <2>3, <2>5, <2>6, <3>1 DEF Counts
    <2>8. last <=> Alive(id)' = {}
      <3>1. threadCount[id] = 1 <=> Cardinality(Alive(id) \ {t}) = 0
        BY <2>5, <2>6
      <3>2. last <=> threadCount[id] = 1
        BY <1>3
      <3>3. Alive(id)' = Alive(id) \ {t}
        BY <2>3
      <3> QED
        BY <2>5, <3>1, <3>2, <3>3
    <2>9. pc'[0] \in Over <=> pc[0] \in Over
      BY <1>6, <1>7
    <2>10. id \notin Ended
      BY <1>1, <2>4 DEF Ended
    <2>11. Ended' = IF last THEN Ended \cup {id} ELSE Ended
      BY <1>1, <1>5, <2>3, <2>4, <2>8, <2>9 DEF Ended
    <2>12. Cardinality(Ended') = Cardinality(Ended) + IF last THEN 1 ELSE 0
      <3>1. IsFiniteSet(Ended) /\ Cardinality(Ended) \in Nat
        BY <1>1, EndedFinite
      <3>2. Cardinality(Ended \cup {id}) = Cardinality(Ended) + 1
        BY <2>10, <3>1, FS_AddElement
      <3> QED
        BY <2>11, <3>1, <3>2
    <2> QED
      BY <1>1, <1>5, <2>7, <2>12, EndedFinite DEF Counts
  <1>14. RoomSound'
    BY <1>1, <1>4, <1>5, <1>6, <1>8, RoomFrame
  <1>15. HaltSound'
    <2>1. pc'[t] \in {"LeftLast", "Halting"} => numProcessesExited' = numProcesses'
      BY <1>4, <1>5, <1>6
    <2> QED
      BY <1>5, <1>6, <1>11, <1>12, <1>13, <2>1, VerdictSound
  <1> QED
    BY <1>9, <1>10, <1>11, <1>12, <1>13, <1>14, <1>15 DEF IInv

(* A thread that has left its process goes on to its end. *)
LEMMA OverStep ==
    ASSUME IInv, NEW t \in Threads, NEW a \in Over, NEW b \in Over, Goes(t, a, b),
           UNCHANGED <<tables, births, processLock, up>>
    PROVE  /\ pc' \in [Threads -> Places] /\ ~halted /\ pc[t] = a /\ ~Asleep(t) /\ pc'[t] = b
           /\ \A u \in Threads \ {t} : pc'[u] = pc[u]
           /\ SpacesSound' /\ ProcessLockSound' /\ Counts' /\ RoomSound'
           /\ locks' \in [LockNames -> LockRecord] /\ halted' \in BOOLEAN => TypesSound'
  <1>1. /\ TypesSound /\ SpacesSound /\ ProcessLockSound /\ Counts /\ RoomSound
        /\ pc \in [Threads -> Places] /\ up \in BOOLEAN
    BY DEF IInv, TypesSound
  <1>2. ~halted /\ pc[t] = a /\ ~Asleep(t) /\ pc' = [pc EXCEPT ![t] = b]
    BY DEF Goes
  <1>3. /\ pc' \in [Threads -> Places] /\ pc'[t] = b
        /\ \A u \in Threads \ {t} : pc'[u] = pc[u]
    BY <1>1, <1>2 DEF Places
  <1>4. /\ a \notin Counting /\ b \notin Counting
        /\ {a, b} \cap {"None", "New", "Leaving", "Forking", "Execing"} = {}
    BY DEF Over, Counting
  <1>5. Counts' /\ SpacesSound'
    <2>1. 0 \in Threads /\ pc[0] # "New"
      BY <1>1 DEF Threads, SpacesSound
    <2>2. pc'[0] # "New" /\ (pc'[0] = "Leaving" => pc[0] = "Leaving")
      BY <1>3, <1>4, <2>1
    <2> QED
      BY <1>1, <1>2, <1>3, <1>4, <2>2, CountsFrame
  <1>6. ProcessLockSound'
    BY <1>1, <1>2, <1>3, <1>4, ProcessLockFrame DEF tables, births
  <1>7. RoomSound'
    BY <1>1, <1>2, <1>3, <1>4, RoomFrame DEF tables, births
  <1>8. locks' \in [LockNames -> LockRecord] /\ halted' \in BOOLEAN => TypesSound'
    BY <1>1, <1>3, TypesFrame
  <1> QED
    BY <1>2, <1>3, <1>5, <1>6, <1>7, <1>8

LEMMA ExitReleasesInv ==
    ASSUME IInv, NEW t \in Threads, ExitReleases(t)
    PROVE  IInv'
  <1>1. /\ TypesSound /\ HaltSound /\ LockSound("execLock") /\ LockSound("forkLock")
        /\ halted \in BOOLEAN
    BY TheLocks DEF IInv, TypesSound
  <1>2. PICK v \in {"Halting", "Finishing"} : Goes(t, With(v), v)
    BY DEF ExitReleases, Verdicts
  <1>3. PICK a \in {"LeftLast", "Left"} : a = With(v) /\ (v = "Halting" <=> a = "LeftLast")
    BY DEF With
  <1>4. /\ ReleasesLock(t, "execLock") /\ Goes(t, a, v)
        /\ UNCHANGED <<tables, births, processLock, halted, up>>
    BY <1>2, <1>3 DEF ExitReleases
  <1>5. a \in Over /\ v \in Over
    BY DEF Over
  <1>6. /\ pc' \in [Threads -> Places] /\ ~halted /\ pc[t] = a /\ ~Asleep(t) /\ pc'[t] = v
        /\ \A u \in Threads \ {t} : pc'[u] = pc[u]
        /\ SpacesSound' /\ ProcessLockSound' /\ Counts' /\ RoomSound'
        /\ locks' \in [LockNames -> LockRecord] /\ halted' \in BOOLEAN => TypesSound'
    BY <1>4, <1>5, OverStep
  <1>7. /\ a \in PlacesOf("execLock") /\ a \notin PlacesOf("forkLock")
        /\ v \notin PlacesOf("execLock") /\ v \notin PlacesOf("forkLock")
    BY TheLocks DEF PlacesOf
  <1>8. /\ locks' \in [LockNames -> LockRecord] /\ LockSound("execLock")'
        /\ \A k \in LockNames \ {"execLock"} : locks'[k] = locks[k]
    BY <1>1, <1>4, <1>6, <1>7, TheLocks, ReleaseSound
  <1>9. LockSound("forkLock")'
    BY <1>1, <1>6, <1>7, <1>8, TheLocks, LockFrame
  <1>10. HaltSound'
    <2>1. \A u \in Threads : pc'[u] \in {"LeftLast", "Halting"}
                                <=> pc[u] \in {"LeftLast", "Halting"}
      BY <1>3, <1>6
    <2>2. \A u \in Threads : pc[u] \in Idle => pc'[u] \in Idle
      BY <1>6 DEF Idle
    <2> QED
      BY <1>1, <1>4, <1>6, <2>1, <2>2 DEF HaltSound
  <1> QED
    BY <1>1, <1>4, <1>6, <1>8, <1>9, <1>10, TheLocks DEF IInv

LEMMA FinishInv ==
    ASSUME IInv, NEW t \in Threads, Finish(t) \/ ExitHalts(t)
    PROVE  IInv'
  <1>1. /\ TypesSound /\ HaltSound /\ (\A l \in LockNames : LockSound(l))
        /\ halted \in BOOLEAN /\ locks \in [LockNames -> LockRecord]
    BY DEF IInv, TypesSound
  <1>2. PICK a \in {"Finishing", "Halting"} :
           /\ Goes(t, a, "Gone")
           /\ UNCHANGED <<tables, births, locks, processLock, up>>
           /\ \/ a = "Finishing" /\ halted' = halted
              \/ a = "Halting" /\ halted' = TRUE
    BY DEF Finish, ExitHalts
  <1>3. a \in Over /\ "Gone" \in Over
    BY DEF Over
  <1>4. /\ pc' \in [Threads -> Places] /\ ~halted /\ pc[t] = a /\ ~Asleep(t) /\ pc'[t] = "Gone"
        /\ \A u \in Threads \ {t} : pc'[u] = pc[u]
        /\ SpacesSound' /\ ProcessLockSound' /\ Counts' /\ RoomSound'
        /\ locks' \in [LockNames -> LockRecord] /\ halted' \in BOOLEAN => TypesSound'
    BY <1>2, <1>3, OverStep
  <1>5. \A l \in LockNames : LockSound(l)'
    <2>1. \A l \in LockNames : a \notin PlacesOf(l) /\ "Gone" \notin PlacesOf(l)
      BY TheLocks DEF PlacesOf
    <2> QED
      BY <1>1, <1>2, <1>4, <2>1, LockFrame
  <1>6. HaltSound'
    <2>1. "Gone" \in Idle /\ "Finishing" \in Idle
      BY DEF Idle
    <2>2. \A u \in Threads : pc[u] \in Idle => pc'[u] \in Idle
      BY <1>4, <2>1
    <2>3. \A u \in Threads : pc'[u] \in {"LeftLast", "Halting"}
                                => pc[u] \in {"LeftLast", "Halting"} /\ u # t
      BY <1>4
    <2>4. a = "Halting" => \A u \in Threads : pc'[u] \in Idle
      BY <1>1, <1>4, <2>1, <2>2 DEF HaltSound
    <2> QED
      BY <1>1, <1>2, <1>4, <2>2, <2>3, <2>4 DEF HaltSound
  <1> QED
    BY <1>1, <1>2, <1>4, <1>5, <1>6 DEF IInv

LEMMA HaltInv ==
    ASSUME IInv, NEW t \in Threads, Halt(t)
    PROVE  IInv'
  <1>1. /\ TypesSound /\ SpacesSound /\ ProcessLockSound /\ Counts /\ HaltSound /\ RoomSound
        /\ \A l \in LockNames : LockSound(l)
        /\ pc \in [Threads -> Places]
    BY DEF IInv, TypesSound
  <1>2. /\ pc[t] = "User" /\ pc' = [pc EXCEPT ![t] = "User"] /\ up' = FALSE
        /\ UNCHANGED <<tables, births, locks, processLock, halted>>
    BY DEF Halt, Goes
  <1>3. pc' = pc
    BY <1>1, <1>2
  <1>4. TypesSound'
    BY <1>1, <1>2, <1>3 DEF TypesSound, tables, births
  <1>5. SpacesSound' /\ Counts'
    BY <1>1, <1>2, <1>3, CountsFrame DEF SpacesSound
  <1>6. RoomSound' /\ HaltSound'
    BY <1>1, <1>2, <1>3, RoomFrame DEF HaltSound, tables, births
  <1>7. ProcessLockSound' /\ \A l \in LockNames : LockSound(l)'
    BY <1>1, <1>2, <1>3 DEF ProcessLockSound, LockSound, tables, births
  <1> QED
    BY <1>4, <1>5, <1>6, <1>7 DEF IInv

LEMMA StutterInv ==
    ASSUME IInv, UNCHANGED vars
    PROVE  IInv'
  <1>1. /\ TypesSound /\ SpacesSound /\ ProcessLockSound /\ Counts /\ HaltSound /\ RoomSound
        /\ \A l \in LockNames : LockSound(l)
    BY DEF IInv
  <1>2. /\ UNCHANGED pc /\ UNCHANGED locks /\ UNCHANGED processLock /\ UNCHANGED halted
        /\ UNCHANGED up /\ UNCHANGED tables /\ UNCHANGED births
    BY DEF vars, tables, births
  <1>3. TypesSound'
    BY <1>1, <1>2 DEF TypesSound, tables, births
  <1>4. SpacesSound' /\ Counts'
    BY <1>1, <1>2, CountsFrame DEF SpacesSound
  <1>5. RoomSound' /\ HaltSound'
    BY <1>1, <1>2, RoomFrame DEF HaltSound, tables, births
  <1>6. ProcessLockSound' /\ \A l \in LockNames : LockSound(l)'
    BY <1>1, <1>2 DEF ProcessLockSound, LockSound, tables, births
  <1> QED
    BY <1>3, <1>4, <1>5, <1>6 DEF IInv

-----------------------------------------------------------------------------

LEMMA InitInv ==
    ASSUME Init
    PROVE  IInv
  <1>1. PICK id \in FirstIDs : space = [t \in Threads |-> IF t = 0 THEN id ELSE NoSpace]
    BY DEF Init
  <1>2. /\ 0 \in Threads /\ id \in Nat /\ id \notin Processes \ {0}
        /\ numProcesses = 0 /\ 1..0 = {}
        /\ \A t \in Threads : pc[t] = IF t = 0 THEN "User" ELSE "None"
        /\ pc \in [Threads -> Places]
        /\ \A l \in LockNames : locks[l] = FreeLock
        /\ FreeLock \in LockRecord
        /\ FreeLock.queue = << >> /\ FreeLock.owner = NoThread
    BY DEF Init, Threads, Places, Counting, FreeLock, LockRecord
  <1>3. TypesSound
    <2>1. /\ DOMAIN threadCount = 1..numProcesses /\ DOMAIN processLock = 1..numProcesses
          /\ \A p \in 1..numProcesses : processLock[p] \in LockRecord
      BY <1>2 DEF Init
    <2>2. locks \in [LockNames -> LockRecord]
      BY <1>2 DEF Init
    <2>3. space \in [Threads -> Nat \cup {NoSpace}]
      BY <1>1, <1>2
    <2>4. /\ mailbox \in [Threads -> 0..MaxThreads \cup {NoMailbox}]
          /\ parent \in [Threads -> Threads \cup {NoThread}]
      BY DEF Init
    <2>5. /\ numProcessesExited = -1 /\ mailboxCount = 0 /\ halted = FALSE /\ up = TRUE
      BY DEF Init
    <2>6. numProcesses \in Nat /\ numProcessesExited \in Int
      BY <1>2, <2>5
    <2>7. mailboxCount \in Nat /\ halted \in BOOLEAN /\ up \in BOOLEAN
      BY <2>5
    <2>8. \A p \in 1..numProcesses : processLock[p] \in LockRecord
      BY <2>1
    <2> QED
      BY <1>2, <2>1, <2>2, <2>3, <2>4, <2>6, <2>7, <2>8 DEF TypesSound
  <1>4. SpacesSound
    BY <1>1, <1>2 DEF SpacesSound, Over
  <1>5. \A l \in LockNames : LockSound(l)
    <2>1. ASSUME NEW l \in LockNames PROVE LockSound(l)
      <3>1. "User" \notin PlacesOf(l) /\ "None" \notin PlacesOf(l)
        BY DEF PlacesOf
      <3>2. Distinct(<< >>) /\ \A t \in Threads : ~Queued(<< >>, t)
        BY DEF Distinct, Queued
      <3>3. NoThread \notin Threads
        BY DEF Threads, NoThread
      <3> QED
        BY <1>2, <3>1, <3>2, <3>3 DEF LockSound
    <2> QED
      BY <2>1
  <1>6. ProcessLockSound
    BY <1>2 DEF ProcessLockSound
  <1>7. RoomSound
    <2>1. Askers = {} /\ Execers = {} /\ Unborn = Threads \ {0}
      BY <1>2 DEF Askers, Execers, Unborn
    <2>2. Threads \in SUBSET Threads
      OBVIOUS
    <2>3. /\ Cardinality(Threads \ {0}) = Cardinality(Threads) - 1
          /\ Cardinality(Threads) \in 0..MaxThreads
      BY <1>2, <2>2, Members
    <2>4. Cardinality(Threads \ {0}) \in Nat
      <3>1. Threads \ {0} \in SUBSET Threads
        OBVIOUS
      <3> QED
        BY <3>1, Members
    <2>5. mailboxCount = 0
      BY DEF Init
    <2> QED
      BY <1>2, <2>1, <2>3, <2>4, <2>5, FS_EmptySet DEF RoomSound
  <1>8. Counts
    <2>1. Ended = {} /\ numProcessesExited = -1
      BY <1>2 DEF Ended, Over, Init
    <2> QED
      BY <1>2, <2>1, FS_EmptySet DEF Counts
  <1>9. HaltSound
    BY <1>2 DEF HaltSound, Init
  <1> QED
    BY <1>3, <1>4, <1>5, <1>6, <1>7, <1>8, <1>9 DEF IInv

LEMMA NextInv ==
    ASSUME IInv, [Next]_vars
    PROVE  IInv'
  <1>1. ASSUME NEW t \in Threads, Call(t)
        PROVE  IInv'
    BY <1>1, ForkInv, ExecInv, ExitInv, HaltInv DEF Call
  <1>2. ASSUME NEW t \in Threads, Continue(t)
        PROVE  IInv'
    BY <1>2, ReleasesInv, ForkCountsInv, ExecEntersInv, StartInv, ExitFirstInv,
       ExitTakesInv, ExitCountsInv, ExitReleasesInv, FinishInv DEF Continue
  <1> QED
    BY <1>1, <1>2, StutterInv DEF Next

LEMMA Invariance == Spec => []IInv
  BY InitInv, NextInv, PTL DEF Spec

(* The counts that decide about halting, kept under forkLock, execLock and   *)
(* the lock of each process, agree with the threads there are (Fork_Syscall, *)
(* Exec_Syscall and Exit_Syscall).                                           *)
THEOREM CountsAgree == Spec => []CountsSound
  <1>1. ASSUME IInv
        PROVE  CountsSound
    <2>1. /\ TypesSound /\ Counts /\ RoomSound
      BY <1>1 DEF IInv
    <2>2. /\ numProcesses \in Nat /\ numProcessesExited \in Int
          /\ \A p \in 1..numProcesses : processLock[p] \in LockRecord
      BY <2>1 DEF TypesSound
    <2>3. numProcesses \in Processes
      <3>1. Execers \in SUBSET Threads
        BY DEF Execers
      <3>2. Cardinality(Execers) \in Nat
        BY <3>1, Members
      <3> QED
        BY <2>1, <2>2, <3>2 DEF RoomSound, Processes
    <2>4. \A p \in 1..numProcesses : threadCount[p] \in 0..MaxThreads
      <3>1. ASSUME NEW p \in 1..numProcesses
            PROVE  threadCount[p] \in 0..MaxThreads
        <4>1. Alive(p) \in SUBSET Threads
          BY DEF Alive
        <4> QED
          BY <2>1, <4>1, Members DEF Counts
      <3> QED
        BY <3>1
    <2>5. numProcessesExited \in -1..numProcesses
      <3>1. Ended \subseteq 0..numProcesses
        BY <2>2 DEF Ended
      <3>2. IsFiniteSet(0..numProcesses) /\ Cardinality(0..numProcesses) = numProcesses + 1
        <4>1. 0 \in Int /\ numProcesses \in Int /\ 0 <= numProcesses
          BY <2>2
        <4> QED
          BY <4>1, FS_Interval
      <3>3. Cardinality(Ended) \in Nat /\ Cardinality(Ended) <= numProcesses + 1
        BY <2>1, <3>1, <3>2, EndedFinite, FS_Subset
      <3> QED
        BY <2>1, <2>2, <3>3 DEF Counts
    <2>6. TypeOK
      BY <2>1, <2>3, <2>4, <2>5 DEF TypeOK, TypesSound, LockRecord, Places
    <2> QED
      BY <2>1, <2>6 DEF CountsSound, Counts, Alive, Ended, TypesSound
  <1> QED
    BY <1>1, Invariance, PTL

(* An Exit halts Nachos only when every thread of every process has nothing  *)
(* left to do but to finish, whatever was being forked or executed.          *)
THEOREM HaltsAtTheEnd == Spec => []HaltsOnlyAtTheEnd
  <1>1. IInv => HaltsOnlyAtTheEnd
    BY DEF IInv, HaltSound, HaltsOnlyAtTheEnd, Idle
  <1> QED
    BY <1>1, Invariance, PTL

=============================================================================
