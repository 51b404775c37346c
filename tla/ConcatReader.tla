---------------------------- MODULE ConcatReader ----------------------------
(***************************************************************************)
(* multipart.py, ConcatReader: the staged parts of an upload read as one    *)
(* seekable stream. A position is mapped to a file by bisection over the    *)
(* offsets the files start at; one file is open at a time; botocore reads   *)
(* in pieces of its own size and rewinds to hash the body and to retry,     *)
(* after a read that failed as well.                                        *)
(* A byte of a part is the number of its file and its place in it.          *)
(***************************************************************************)
EXTENDS Integers, Sequences, FiniteSetsExt

CONSTANTS
  Lengths,    \* lengths of parts
  MaxFiles,   \* bound: parts of an object
  MaxBuffer,  \* bound: the largest buffer a reader passes
  Offsets     \* offsets a reader seeks by

ASSUME ReaderParameters ==
  /\ Lengths \subseteq Nat /\ Offsets \subseteq Int
  /\ MaxFiles \in Nat /\ MaxBuffer \in Nat \ {0}

VARIABLES
  sizes,     \* the size of each file when the parts were listed
  length,    \* the length of each file now
  named,     \* the files that still have their name in the directory
  position,
  handle,    \* the file that is open, or 0
  asked,     \* the size of the buffer it was given
  got,       \* what the last read returned
  last       \* how the last call ended

readerVars == <<sizes, length, named, position, handle, asked, got, last>>

FileLists == UNION {[1..n -> Lengths] : n \in 0..MaxFiles}
Bytes == Nat \X Nat

(* _starts: the offset each file starts at, and that of the end of all.     *)
Starts ==
  LET start[i \in 1..Len(sizes) + 1] == IF i = 1 THEN 0 ELSE start[i - 1] + sizes[i - 1] IN start

Total == Starts[Len(sizes) + 1]

ReaderInit ==
  /\ sizes = <<>> /\ length = <<>> /\ named = {} /\ position = 0
  /\ handle = 0 /\ asked = 0 /\ got = <<>> /\ last = "closed"

Construct(files) ==
  /\ last = "closed" /\ last' = "open"
  /\ sizes' = files /\ length' = files /\ named' = DOMAIN files
  /\ position' = 0 /\ handle' = 0 /\ asked' = 0 /\ got' = <<>>

-----------------------------------------------------------------------------
(* Mutant: bisect_left; index -1 is the last file.                          *)
IndexLeft ==
  LET before == {i \in 1..Len(sizes) : Starts[i] < position} IN
  IF before = {} THEN Len(sizes) ELSE Max(before)

(* bisect_right(_starts, position) - 1: of several files that start at the  *)
(* position all but the last are empty.                                     *)
Index == Max({i \in 1..Len(sizes) : Starts[i] <= position})

Failed(outcome) == last' = outcome /\ got' = <<>> /\ UNCHANGED position

(* Mutant: the open file is kept whatever file the position is in.          *)
OpenedKept == IF handle # 0 THEN handle ELSE Index

(* The file the read takes its bytes from.                                  *)
Opened == Index

(* readinto: never across the end of a file, and an error where nothing can *)
(* be read: the file is shorter than it was, cannot be opened any more, or  *)
(* there is no room in the buffer.                                          *)
ReadInto(n) ==
  /\ last # "closed" /\ asked' = n
  /\ IF position >= Total
     THEN last' = "read" /\ got' = <<>> /\ UNCHANGED <<position, handle>>
     ELSE LET i == Opened
              here == position - Starts[Index]
              count == Min({n, Starts[Index + 1] - position, length[i] - here})
          IN IF handle # i /\ i \notin named
             THEN Failed("missing") /\ handle' = 0
             ELSE /\ handle' = i
                  /\ IF count <= 0 THEN Failed("truncated")
                     ELSE /\ last' = "read"
                          /\ got' = [k \in 1..count |-> <<i, here + k>>]
                          /\ position' = position + count
  /\ UNCHANGED <<sizes, length, named>>

Base(whence) == CASE whence = "set" -> 0 [] whence = "cur" -> position [] whence = "end" -> Total

SeekBy(offset, whence) ==
  /\ last # "closed" /\ last' = "seek"
  /\ position' = Max({0, Base(whence) + offset})
  /\ position' <= Total + 1  \* bound: how far past the end a position goes
  /\ asked' = 0 /\ got' = <<>>
  /\ UNCHANGED <<sizes, length, named, handle>>

CloseReader ==
  /\ last # "closed" /\ last' = "closed"
  /\ sizes' = <<>> /\ length' = <<>> /\ named' = {} /\ position' = 0
  /\ handle' = 0 /\ asked' = 0 /\ got' = <<>>

(* An abort, the sweep or another upload of the number unlinks a file: who  *)
(* has it open keeps it. A file may be found shorter than it was.           *)
UnlinkFile ==
  /\ last # "closed"
  /\ \E i \in named : named' = named \ {i}
  /\ UNCHANGED <<sizes, length, position, handle, asked, got, last>>

ShortenFile ==
  /\ last # "closed"
  /\ \E i \in DOMAIN length : length[i] > 0 /\ length' = [length EXCEPT ![i] = @ - 1]
  /\ UNCHANGED <<sizes, named, position, handle, asked, got, last>>

Reading ==
  \/ \E n \in 0..MaxBuffer : ReadInto(n)
  \/ \E offset \in Offsets, whence \in {"set", "cur", "end"} : SeekBy(offset, whence)
  \/ CloseReader \/ UnlinkFile \/ ShortenFile

ReaderNext == Reading \/ \E files \in FileLists : Construct(files)

ReaderSpec == ReaderInit /\ [][ReaderNext]_readerVars
-----------------------------------------------------------------------------
(* Whatever is read and wherever is sought, in pieces of any size, over     *)
(* files of any length and after any number of failed reads: the reader is  *)
(* one file, the parts in their order.                                      *)
Concatenation ==
  [j \in 1..Total |-> LET i == CHOOSE i \in DOMAIN sizes : Starts[i] < j /\ j <= Starts[i + 1]
                      IN <<i, j - Starts[i]>>]

File == INSTANCE SeekableFile WITH
  content <- Concatenation, position <- position, got <- got,
  last <- IF last \in {"missing", "truncated"} THEN "failed" ELSE last

ReadsAsOneFile == File!Spec

(* "A staged part was truncated." (multipart.py:248) is said of the part at *)
(* the position, when its file ends before that or the buffer was empty     *)
(* (readinto cannot tell the two apart); and the file that is missed is     *)
(* that at the position, whose name is gone.                                *)
RefusedOnlyIfDamaged ==
  /\ last = "truncated" =>
       /\ handle = Index
       /\ asked = 0 \/ length[Index] <= position - Starts[Index]
  /\ last = "missing" => position < Total /\ Index \notin named
=============================================================================
