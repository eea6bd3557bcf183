------------------------------- MODULE FileSys -------------------------------
(***************************************************************************)
(* The file system: FileSystem (filesys.cc), Directory, FileHeader and     *)
(* OpenFile of filesys/, BitMap of userprog/bitmap.cc, and on top of them  *)
(* the file table of a process (Table of userprog/addrspace.cc) and the    *)
(* Create, Open, Read, Write and Close system calls.                       *)
(*                                                                         *)
(* Callers take turns: filesys.cc says that the code "assumes there is no  *)
(* concurrent access".  An operation that modifies the disk reads what it  *)
(* needs and then writes one sector after the other; between two of the    *)
(* writes Nachos may exit (any thread's Halt does) and be started again    *)
(* on the disk as it is.  A file is removed while nobody has it open, as   *)
(* by the commands of main.cc, and there is no system call for it.         *)
(*                                                                         *)
(* A byte is a value; names that agree in their first FileNameMaxLen       *)
(* characters are one name.                                                *)
(***************************************************************************)
EXTENDS Integers, Sequences, FiniteSetsExt, Functions

LOCAL S == INSTANCE SequencesExt

CONSTANTS Names, Bytes,
          HeaderByte,       \* what a byte of a header is when read as data
          Ids,              \* of the file table
          Sizes,            \* of the files that are created
          Writings,         \* the sequences of bytes that are written
          Lengths,          \* of what is read
          NumSectors, SectorSize, NumDirEntries,
          Straddling,       \* the entries of the directory that have their
                            \* name in the directory's second sector, and the
                            \* rest in the first
          SecondSector,     \* the entries that lie in the second sector
          MaxBoots,         \* bound: how often Nachos is started
          None

Sectors == 0..(NumSectors - 1)
Entries == 0..(NumDirEntries - 1)

FreeMapSector   == 0
DirectorySector == 1

FileSysAssumption ==
    /\ NumSectors \in Nat /\ NumSectors >= 5
    /\ SectorSize \in Nat \ {0} /\ NumDirEntries \in Nat /\ MaxBoots \in Nat \ {0}
    /\ Straddling \subseteq Entries /\ SecondSector \subseteq Entries \ Straddling
    /\ Ids \subseteq Nat /\ Sizes \subseteq Nat /\ Lengths \subseteq Nat
    /\ Writings \subseteq Seq(Bytes) /\ HeaderByte \in Bytes
    /\ None \notin Names \cup Bytes

ASSUME FileSysAssumption

VARIABLES
    disk,       \* per sector, a header or bytes: those of files only
    freeMap,    \* what the sector of the free map holds: the marked sectors
    directory,  \* what the sectors of the directory hold: the table
    pending,    \* the sector writes that the running operation has still to do
    fileTable,  \* per id, the open file: its name, header and seekPosition
    answer,     \* what the last operation returned
    boots,
    aborted     \* an ASSERT failed, or bytes were taken for a header

fileSysVars == <<disk, freeMap, directory, pending, fileTable, answer, boots, aborted>>

-----------------------------------------------------------------------------
(* The free map and headers. *)

ClearBelow(map, s) == {r \in Sectors \ map : r < s}

\* The first n clear bits: what n calls of Find mark.
FirstClear(map, n) ==
    [k \in 1..n |-> CHOOSE s \in Sectors \ map : Cardinality(ClearBelow(map, s)) = k - 1]

NumClear(map) == Cardinality(Sectors \ map)

DivRoundUp(n, s) == (n + s - 1) \div s

\* The header that Allocate fills in, when there is space.
HasSpace(map, fileSize) == NumClear(map) >= DivRoundUp(fileSize, SectorSize)

Header(map, fileSize) ==
    [kind |-> "Header", numBytes |-> fileSize,
     dataSectors |-> FirstClear(map, DivRoundUp(fileSize, SectorSize))]

Data(b) == [kind |-> "Bytes", bytes |-> b]

IsHeader(c) == c.kind = "Header"

ByteToSector(hdr, offset) == hdr.dataSectors[offset \div SectorSize + 1]

\* A new file has the bytes of what its sectors held before, headers included.
Byte(dsk, hdr, offset) ==
    LET c == dsk[ByteToSector(hdr, offset)]
    IN IF IsHeader(c) THEN HeaderByte ELSE c.bytes[offset % SectorSize]

(* Directories. *)

Free == [inUse |-> FALSE, name |-> None, sector |-> 0]

FindIndex(dir, name) == {i \in Entries : dir[i].inUse /\ dir[i].name = name}

Find(dir, name) == dir[Min(FindIndex(dir, name))].sector

FreeEntries(dir) == {i \in Entries : ~dir[i].inUse}

Add(dir, name, sector) ==
    [dir EXCEPT ![Min(FreeEntries(dir))] =
        [inUse |-> TRUE, name |-> name, sector |-> sector]]

DirRemove(dir, name) == [dir EXCEPT ![Min(FindIndex(dir, name))].inUse = FALSE]

-----------------------------------------------------------------------------
(* Writes of sectors. *)

ToSector(s, c) == [to |-> "Sector", sector |-> s, contents |-> c]
ToMap(m)       == [to |-> "FreeMap", map |-> m]
ToDirectory(d) == <<[to |-> "FirstHalf", dir |-> d], [to |-> "SecondHalf", dir |-> d]>>

\* The table when one of its sectors is written from d.
Half(w, old, d) ==
    [i \in Entries |->
        LET e == IF w = "SecondHalf" <=> i \in SecondSector THEN d[i] ELSE old[i]
            n == IF w = "SecondHalf" <=> i \in SecondSector \cup Straddling THEN d[i] ELSE old[i]
        IN [inUse |-> e.inUse, name |-> n.name, sector |-> e.sector]]

State == [disk |-> disk, freeMap |-> freeMap, directory |-> directory]

Written(st, w) ==
    CASE w.to = "Sector"  -> [st EXCEPT !.disk[w.sector] = w.contents]
      [] w.to = "FreeMap" -> [st EXCEPT !.freeMap = w.map]
      [] OTHER            -> [st EXCEPT !.directory = Half(w.to, @, w.dir)]

-----------------------------------------------------------------------------
(* FileSystem. *)

Running == pending = << >> /\ ~aborted

\* What an operation returns without a change to the disk.
Returns(a) ==
    /\ answer' = a
    /\ UNCHANGED <<disk, freeMap, directory, pending, boots, aborted>>

\* It is going to do the writes ws.
Writes(a, ws) ==
    /\ answer' = a
    /\ pending' = ws
    /\ UNCHANGED <<disk, freeMap, directory, boots, aborted>>

Abort ==
    /\ aborted' = TRUE
    /\ UNCHANGED <<disk, freeMap, directory, pending, fileTable, answer, boots>>

(* Variant of CreateWrites: the map is flushed before the directory. *)
CreateWritesMapFirst(sector, hdr, dir, map) ==
    <<ToSector(sector, hdr), ToMap(map)>> \o ToDirectory(dir)

CreateWrites(sector, hdr, dir, map) ==
    <<ToSector(sector, hdr)>> \o ToDirectory(dir) \o <<ToMap(map)>>

Create(name, initialSize) ==
    LET sector == FirstClear(freeMap, 1)[1]
        map1   == freeMap \cup {sector}
        hdr    == Header(map1, initialSize)
    IN
    /\ Running
    /\ IF \/ FindIndex(directory, name) # {}
          \/ Sectors \ freeMap = {}
          \/ FreeEntries(directory) = {}
          \/ ~HasSpace(map1, initialSize)
       THEN Returns(<<"Create", FALSE>>)
       ELSE Writes(<<"Create", TRUE>>,
                   CreateWrites(sector, hdr, Add(directory, name, sector),
                                map1 \cup Range(hdr.dataSectors)))
    /\ UNCHANGED fileTable

\* A process gives no size.
Create_Syscall(name) == Create(name, 0)

\* Deallocate asserts that the sectors of the file are marked.
Deallocated(map, hdr, sector) == map \ (Range(hdr.dataSectors) \cup {sector})

IsOpen(name) == \E i \in Ids : fileTable[i] # None /\ fileTable[i].name = name

Remove(name) ==
    LET sector == Find(directory, name)
        hdr    == disk[sector]
    IN
    /\ Running
    /\ ~IsOpen(name)
    /\ CASE FindIndex(directory, name) = {} -> Returns(<<"Remove", FALSE>>) /\ UNCHANGED fileTable
         [] FindIndex(directory, name) # {} /\ ~IsHeader(hdr) -> Abort
         [] FindIndex(directory, name) # {} /\ IsHeader(hdr) ->
              IF Range(hdr.dataSectors) \subseteq freeMap
              THEN /\ Writes(<<"Remove", TRUE>>,
                             <<ToMap(Deallocated(freeMap, hdr, sector))>> \o ToDirectory(DirRemove(directory, name)))
                   /\ UNCHANGED fileTable
              ELSE Abort

WriteSector ==
    LET new == Written(State, Head(pending)) IN
    /\ pending # << >>
    /\ pending' = Tail(pending)
    /\ disk' = new.disk /\ freeMap' = new.freeMap /\ directory' = new.directory
    /\ UNCHANGED <<fileTable, answer, boots, aborted>>

-----------------------------------------------------------------------------
(* Open files and the system calls. *)

OpenFile(name) ==
    [name |-> name, hdr |-> disk[Find(directory, name)], seekPosition |-> 0]

FreeIds == {i \in Ids : fileTable[i] = None}

\* Open_Syscall: no file, or no place in the table, is -1.
Open(name) ==
    LET f == OpenFile(name) IN
    /\ Running
    /\ CASE FindIndex(directory, name) = {} -> Returns(<<"Open", -1>>) /\ UNCHANGED fileTable
         [] FindIndex(directory, name) # {} /\ ~IsHeader(f.hdr) -> Abort
         [] FindIndex(directory, name) # {} /\ IsHeader(f.hdr) ->
              IF FreeIds = {} THEN Returns(<<"Open", -1>>) /\ UNCHANGED fileTable
              ELSE /\ Returns(<<"Open", Min(FreeIds)>>)
                   /\ fileTable' = [fileTable EXCEPT ![Min(FreeIds)] = f]

Close(i) ==
    /\ Running
    /\ fileTable' = [fileTable EXCEPT ![i] = None]
    /\ Returns(<<"Close">>)

\* ReadAt and WriteAt transfer nothing at the end of the file, and stop there.
Amount(f, numBytes) ==
    IF numBytes <= 0 \/ f.seekPosition >= f.hdr.numBytes THEN 0
    ELSE Min({numBytes, f.hdr.numBytes - f.seekPosition})

Seek(i, n) == fileTable' = [fileTable EXCEPT ![i].seekPosition = @ + n]

Read(i, numBytes) ==
    LET f == fileTable[i]
        n == Amount(f, numBytes)
    IN
    /\ Running
    /\ f # None
    /\ Returns(<<"Read", [k \in 1..n |-> Byte(disk, f.hdr, f.seekPosition + k - 1)]>>)
    /\ Seek(i, n)

(* Variant of IsRead: the last sector is read only when it is not the first. *)
IsReadOnce(s, position, n) ==
    LET first == position \div SectorSize
        last  == (position + n - 1) \div SectorSize
    IN \/ s = first /\ position # first * SectorSize
       \/ s = last /\ position + n # (last + 1) * SectorSize /\ first # last

\* Does WriteAt read the sector first: the first or the last of the sectors,
\* if it is to be partially modified?
IsRead(s, position, n) ==
    LET first == position \div SectorSize
        last  == (position + n - 1) \div SectorSize
        firstAligned == position = first * SectorSize
        lastAligned  == position + n = (last + 1) * SectorSize
    IN \/ s = first /\ ~firstAligned
       \/ s = last /\ ~lastAligned /\ (first # last \/ firstAligned)

\* What WriteAt makes of sector s of the file.  The rest of the buffer is
\* whatever the memory held.
Buffer(hdr, s, position, from, c) ==
    [o \in 0..(SectorSize - 1) |->
        LET offset == s * SectorSize + o IN
        IF offset - position \in 0..(Len(from) - 1) THEN from[offset - position + 1]
        ELSE IF IsRead(s, position, Len(from)) /\ offset < hdr.numBytes
             THEN Byte(disk, hdr, offset) ELSE c]

SectorWrites(hdr, position, from, c) ==
    LET first == position \div SectorSize
        last  == (position + Len(from) - 1) \div SectorSize
    IN [k \in 1..(last - first + 1) |->
           ToSector(ByteToSector(hdr, (first + k - 1) * SectorSize),
                    Data(Buffer(hdr, first + k - 1, position, from, c)))]

Write(i, from) ==
    LET f == fileTable[i]
        n == Amount(f, Len(from))
    IN
    /\ Running
    /\ f # None
    /\ Seek(i, n)
    /\ IF n = 0 THEN Returns(<<"Write", 0>>)
       ELSE \E c \in Bytes :
               Writes(<<"Write", n>>,
                      SectorWrites(f.hdr, f.seekPosition, SubSeq(from, 1, n), c))

-----------------------------------------------------------------------------
(* The machine. *)

\* The format of the disk: the headers and the contents of the two files.
SystemSectors ==
    LET headers == {FreeMapSector, DirectorySector}
        map     == FirstClear(headers, 1)
    IN headers \cup Range(map) \cup Range(FirstClear(headers \cup Range(map), 2))

FileSysInit ==
    /\ \E b \in Bytes : disk = [s \in Sectors |-> Data([o \in 0..(SectorSize - 1) |-> b])]
    /\ freeMap = SystemSectors
    /\ directory = [i \in Entries |-> Free]
    /\ pending = << >>
    /\ fileTable = [i \in Ids |-> None]
    /\ answer = <<"Boot">>
    /\ boots = 1
    /\ aborted = FALSE

\* Nachos exits, and is started again without the option that formats.
Reboot ==
    /\ boots < MaxBoots
    /\ boots' = boots + 1
    /\ pending' = << >>
    /\ fileTable' = [i \in Ids |-> None]
    /\ answer' = <<"Boot">>
    /\ UNCHANGED <<disk, freeMap, directory, aborted>>

FileSysNext ==
    \/ WriteSector
    \/ Reboot
    \/ \E name \in Names :
          \/ Create_Syscall(name)
          \/ Open(name)
          \/ Remove(name)
          \/ \E n \in Sizes : Create(name, n)
    \/ \E i \in Ids :
          \/ Close(i)
          \/ \E n \in Lengths : Read(i, n)
          \/ \E from \in Writings : Write(i, from)

FileSysSpec == FileSysInit /\ [][FileSysNext]_fileSysVars

-----------------------------------------------------------------------------
Named(st) == {i \in Entries : st.directory[i].inUse}

\* The sectors of a file, with that of its header.
SectorsOf(st, i) ==
    LET s == st.directory[i].sector
    IN {s} \cup IF IsHeader(st.disk[s]) THEN Range(st.disk[s].dataSectors) ELSE {}

Owned(st) == SystemSectors \cup UNION {SectorsOf(st, i) : i \in Named(st)}

\* The shape of the variables.
FileSysTypeOK ==
    /\ freeMap \in SUBSET Sectors /\ SystemSectors \subseteq freeMap
    /\ directory \in [Entries -> [inUse : BOOLEAN, name : Names \cup {None}, sector : Sectors]]
    /\ \A s \in Sectors :
          IF IsHeader(disk[s])
          THEN disk[s].numBytes \in Nat /\ Range(disk[s].dataSectors) \subseteq Sectors
          ELSE disk[s].bytes \in [0..(SectorSize - 1) -> Bytes]
    /\ \A i \in Ids :
          fileTable[i] # None => fileTable[i].seekPosition \in 0..fileTable[i].hdr.numBytes
    /\ \A w \in Range(pending) : w.to \in {"Sector", "FreeMap", "FirstHalf", "SecondHalf"}
    /\ boots \in 1..MaxBoots /\ aborted \in BOOLEAN

\* Besides the types: while Nachos has not exited in an operation, the disk is
\* consistent whenever none is in progress: exactly the sectors of the system
\* and of the files are marked, every file has a header, no name is there twice
\* and no sector belongs to two.
Consistent ==
    /\ FileSysTypeOK
    /\ boots = 1 /\ pending = << >> =>
          /\ ~aborted
          /\ freeMap = Owned(State)
          /\ \A i \in Named(State) :
                /\ IsHeader(disk[directory[i].sector])
                /\ SectorsOf(State, i) \cap SystemSectors = {}
                /\ \A j \in Named(State) \ {i} :
                      /\ directory[i].name # directory[j].name
                      /\ SectorsOf(State, i) \cap SectorsOf(State, j) = {}

\* Wherever the first exit of Nachos finds it, no space is lost: what is
\* marked on the disk belongs to a file that has a name.
NoSpaceLost == boots = 1 => freeMap \subseteq Owned(State)

\* The free map and the files agree between the operations, and within them up
\* to sectors that are not marked yet.
MapInOrder == Consistent /\ NoSpaceLost

-----------------------------------------------------------------------------
\* The disk as it will be when the running operation has done its writes.
After == S!FoldLeft(Written, State, pending)

FileNames(st) == {st.directory[i].name : i \in Named(st)}

Contents(st, name) ==
    LET hdr == st.disk[Find(st.directory, name)]
    IN [k \in 1..hdr.numBytes |-> Byte(st.disk, hdr, k - 1)]

Abstract == INSTANCE Files WITH
    Room    <- NumSectors - Cardinality(SystemSectors),
    files   <- IF boots > 1 THEN << >>
               ELSE [name \in FileNames(After) |-> Contents(After, name)],
    handles <- [i \in Ids |->
                  IF fileTable[i] = None THEN None
                  ELSE [name |-> fileTable[i].name, position |-> fileTable[i].seekPosition]],
    crashed <- boots > 1

\* Up to the first exit of Nachos, callers see what Files promises: contents
\* survive whatever is created, removed and written elsewhere, and a file is
\* refused only when there is really no space for it.
ImplementsFiles == Abstract!Spec
==============================================================================
