-------------------------------- MODULE Files --------------------------------
(***************************************************************************)
(* What the file system of filesys/ promises to a caller that has it for   *)
(* itself: files of a fixed length under a name, of which a handle reads   *)
(* or writes the next bytes.  Nothing is promised once Nachos stopped in   *)
(* the middle of an operation.                                             *)
(***************************************************************************)
EXTENDS Integers, Sequences, FiniteSetsExt

CONSTANTS Names, Bytes, Ids, Sizes, Writings, Lengths, SectorSize,
          NumDirEntries,
          Room,         \* the sectors that files can have
          None

VARIABLES files,        \* name -> the bytes of the file
          handles,      \* per id, the file it stands for and the next byte
          answer,       \* what the last call returned
          crashed

vars == <<files, handles, answer, crashed>>

\* A file takes a sector for its header and the sectors of its bytes.
Space(n) == 1 + (n + SectorSize - 1) \div SectorSize

Used == MapThenSumSet(LAMBDA f : Space(Len(files[f])), DOMAIN files)

Fits(n) == Cardinality(DOMAIN files) < NumDirEntries /\ Used + Space(n) <= Room

Init ==
    /\ files = << >> /\ handles = [i \in Ids |-> None]
    /\ answer = <<"Boot">> /\ ~crashed

Create(f, n) ==
    /\ IF f \in DOMAIN files \/ ~Fits(n)
       THEN answer' = <<"Create", FALSE>> /\ UNCHANGED files
       ELSE /\ answer' = <<"Create", TRUE>>
            /\ \E c \in [1..n -> Bytes] :
                  files' = [g \in DOMAIN files \cup {f} |-> IF g = f THEN c ELSE files[g]]
    /\ UNCHANGED <<handles, crashed>>

Open(f) ==
    /\ IF f \in DOMAIN files /\ \E i \in Ids : handles[i] = None
       THEN LET i == Min({j \in Ids : handles[j] = None})
            IN /\ handles' = [handles EXCEPT ![i] = [name |-> f, position |-> 0]]
               /\ answer' = <<"Open", i>>
       ELSE answer' = <<"Open", -1>> /\ UNCHANGED handles
    /\ UNCHANGED <<files, crashed>>

Close(i) ==
    /\ handles' = [handles EXCEPT ![i] = None]
    /\ answer' = <<"Close">>
    /\ UNCHANGED <<files, crashed>>

Remove(f) ==
    /\ answer' = <<"Remove", f \in DOMAIN files>>
    /\ files' = [g \in DOMAIN files \ {f} |-> files[g]]
    /\ UNCHANGED <<handles, crashed>>

\* How many of n bytes there are from the position of i on.
Left(i, n) == Min({n, Len(files[handles[i].name]) - handles[i].position})

Advance(i, n) == handles' = [handles EXCEPT ![i].position = @ + Left(i, n)]

Read(i, n) ==
    /\ handles[i] # None
    /\ answer' = <<"Read", [k \in 1..Left(i, n) |->
                             files[handles[i].name][handles[i].position + k]]>>
    /\ Advance(i, n)
    /\ UNCHANGED <<files, crashed>>

Write(i, b) ==
    LET f == handles[i].name
        p == handles[i].position
    IN
    /\ handles[i] # None
    /\ files' = [files EXCEPT ![f] =
                    [k \in DOMAIN @ |-> IF k - p \in 1..Len(b) THEN b[k - p] ELSE @[k]]]
    /\ answer' = <<"Write", Left(i, Len(b))>>
    /\ Advance(i, Len(b))
    /\ UNCHANGED crashed

Next ==
    \/ \E f \in Names : Open(f) \/ Remove(f) \/ \E n \in Sizes \cup {0} : Create(f, n)
    \/ \E i \in Ids :
          \/ Close(i)
          \/ \E n \in Lengths : Read(i, n)
          \/ \E b \in Writings : Write(i, b)

\* Once it crashed, anything may follow.
Spec == Init /\ [][crashed' \/ Next]_vars
==============================================================================
