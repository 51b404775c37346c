---------------------------- MODULE ReaderProofs ----------------------------
(* ConcatReader is one seekable file, whatever the number and the lengths   *)
(* of the parts, the buffers (empty ones included) and the offsets, and     *)
(* however often a read failed before.                                      *)
EXTENDS ConcatReader, NatFacts

(* What is known of the parts as they were listed, and of the reader.       *)
PartsOK ==
  /\ sizes \in Seq(Nat)
  /\ length \in [DOMAIN sizes -> Nat] /\ \A i \in DOMAIN sizes : length[i] <= sizes[i]
  /\ named \subseteq DOMAIN sizes

ReaderInv ==
  /\ PartsOK
  /\ position \in Nat /\ handle \in {0} \cup DOMAIN sizes
  /\ last \in {"closed", "open", "read", "seek", "missing", "truncated"}
  /\ last = "truncated" =>
       /\ position < Total /\ handle = Index
       /\ asked = 0 \/ length[Index] <= position - Starts[Index]
  /\ last = "missing" => position < Total /\ Index \notin named
  /\ last = "closed" => sizes = <<>> /\ position = 0 /\ got = <<>>

-----------------------------------------------------------------------------
(* _starts, of any parts.                                                   *)
LEMMA StartsAdd == Adds(Starts, sizes, Len(sizes))
<1>1. PICK f : Adds(f, sizes, Len(sizes))
  BY SumsExist
<1> QED BY <1>1, Zenon DEF Adds, Starts

LEMMA StartsAscend ==
  ASSUME PartsOK
  PROVE  /\ Starts[1] = 0 /\ Total \in Nat
         /\ \A i \in DOMAIN sizes : Starts[i + 1] = Starts[i] + sizes[i]
         /\ \A i \in 1..Len(sizes) + 1 : Starts[i] \in Nat
         /\ \A i, k \in 1..Len(sizes) + 1 : i <= k => Starts[i] <= Starts[k]
<1>1. Len(sizes) \in Nat /\ sizes \in [1..Len(sizes) -> Nat]
  BY DEF PartsOK
<1>2. Starts = [i \in 1..Len(sizes) + 1 |-> IF i = 1 THEN 0 ELSE Starts[i - 1] + sizes[i - 1]]
  BY StartsAdd DEF Adds
<1> HIDE DEF Starts
<1>3. Starts[1] = 0 /\ \A i \in 1..Len(sizes) : Starts[i + 1] = Starts[i] + sizes[i]
  BY <1>1, <1>2
<1>4. /\ \A i \in 1..Len(sizes) + 1 : Starts[i] \in Nat
      /\ \A i, k \in 1..Len(sizes) + 1 : i <= k => Starts[i] <= Starts[k]
  BY <1>1, <1>3, SumsAscend
<1> QED BY <1>1, <1>3, <1>4 DEF Total

(* The bisection finds the file the position is in.                         *)
LEMMA IndexFound ==
  ASSUME PartsOK, position \in Nat, position < Total
  PROVE  /\ Index \in DOMAIN sizes
         /\ Starts[Index] <= position /\ position < Starts[Index + 1]
<1>1. Len(sizes) \in Nat /\ DOMAIN sizes = 1..Len(sizes)
  BY DEF PartsOK
<1>2. /\ Starts[1] = 0 /\ Total \in Nat
      /\ \A i \in 1..Len(sizes) + 1 : Starts[i] \in Nat
  BY StartsAscend
<1>3. Total = Starts[Len(sizes) + 1]
  BY DEF Total
<1> DEFINE S == {i \in 1..Len(sizes) : Starts[i] <= position}
<1>4. 1 \in S
  BY <1>1, <1>2, <1>3
<1>5. Index = Max(S)
  BY DEF Index
<1>6. Max(S) \in S /\ \A i \in S : i <= Max(S)
  <2>1. S \in SUBSET (1..Len(sizes)) /\ S # {}
    BY <1>4
  <2> HIDE DEF S
  <2> QED BY <1>1, <2>1, MaxUpTo
<1>7. CASE Index = Len(sizes)
  BY <1>1, <1>2, <1>3, <1>5, <1>6, <1>7
<1>8. CASE Index < Len(sizes)
  <2>1. Index + 1 \notin S
    BY <1>1, <1>5, <1>6, <1>8
  <2> QED BY <1>1, <1>2, <1>5, <1>6, <1>8, <2>1
<1> QED BY <1>1, <1>5, <1>6, <1>7, <1>8

(* The byte at a place of the concatenation, from the file it is in.        *)
LEMMA ByteOf ==
  ASSUME PartsOK, NEW i \in DOMAIN sizes, NEW j \in Nat, Starts[i] < j, j <= Starts[i + 1]
  PROVE  j \in 1..Total /\ Concatenation[j] = <<i, j - Starts[i]>>
<1>1. Len(sizes) \in Nat /\ DOMAIN sizes = 1..Len(sizes)
  BY DEF PartsOK
<1>2. /\ Total \in Nat /\ \A k \in 1..Len(sizes) + 1 : Starts[k] \in Nat
      /\ \A k, m \in 1..Len(sizes) + 1 : k <= m => Starts[k] <= Starts[m]
  BY StartsAscend
<1>3. Total = Starts[Len(sizes) + 1]
  BY DEF Total
<1>4. j \in 1..Total
  BY <1>1, <1>2, <1>3
<1> DEFINE k == CHOOSE k \in DOMAIN sizes : Starts[k] < j /\ j <= Starts[k + 1]
<1>5. k \in DOMAIN sizes /\ Starts[k] < j /\ j <= Starts[k + 1]
  OBVIOUS
<1>6. Concatenation[j] = <<k, j - Starts[k]>>
  BY <1>4 DEF Concatenation
<1> HIDE DEF k
<1>7. k = i
  <2>1. /\ k \in 1..Len(sizes) + 1 /\ k + 1 \in 1..Len(sizes) + 1
        /\ i \in 1..Len(sizes) + 1 /\ i + 1 \in 1..Len(sizes) + 1
    BY <1>1, <1>5
  <2>2. CASE k < i
    <3>1. Starts[k + 1] <= Starts[i]
      BY <1>2, <2>1, <2>2
    <3> QED BY <1>2, <1>5, <2>1, <3>1
  <2>3. CASE i < k
    <3>1. Starts[i + 1] <= Starts[k]
      BY <1>2, <2>1, <2>3
    <3> QED BY <1>2, <1>5, <2>1, <3>1
  <2> QED BY <2>1, <2>2, <2>3
<1> QED BY <1>4, <1>6, <1>7

LEMMA ConcatenationTyped ==
  ASSUME PartsOK
  PROVE  Concatenation \in Seq(Bytes) /\ Len(Concatenation) = Total /\ Total \in Nat
<1>1. Len(sizes) \in Nat /\ DOMAIN sizes = 1..Len(sizes)
  BY DEF PartsOK
<1>2. /\ Starts[1] = 0 /\ Total \in Nat /\ Total = Starts[Len(sizes) + 1]
      /\ \A k \in 1..Len(sizes) + 1 : Starts[k] \in Nat
  BY StartsAscend DEF Total
<1>3. ASSUME NEW j \in 1..Total PROVE Concatenation[j] \in Bytes
  <2> DEFINE S == {k \in Nat : k \in 1..Len(sizes) /\ j <= Starts[k + 1]}
  <2>1. Len(sizes) \in S
    BY <1>1, <1>2
  <2>2. PICK i \in S : \A k \in S : i <= k
    <3> S \in SUBSET Nat /\ S # {}
      BY <2>1
    <3> HIDE DEF S
    <3> QED BY LeastElement
  <2>3. Starts[i] < j
    <3>1. CASE i = 1
      BY <1>2, <3>1
    <3>2. CASE i # 1
      <4>1. i - 1 \notin S /\ i - 1 \in 1..Len(sizes)
        BY <2>2, <3>2
      <4>2. ~(j <= Starts[i])
        BY <4>1
      <4> QED BY <1>1, <1>2, <2>2, <4>2
    <3> QED BY <3>1, <3>2
  <2>4. Concatenation[j] = <<i, j - Starts[i]>>
    BY <1>1, <2>2, <2>3, ByteOf
  <2> QED BY <1>1, <1>2, <2>2, <2>3, <2>4 DEF Bytes
<1>4. Concatenation = [j \in 1..Total |-> Concatenation[j]]
  <2> DEFINE Place(j) == LET i == CHOOSE i \in DOMAIN sizes : Starts[i] < j /\ j <= Starts[i + 1]
                         IN <<i, j - Starts[i]>>
  <2>1. Concatenation = [j \in 1..Total |-> Place(j)]
    BY DEF Concatenation
  <2> HIDE DEF Place, Concatenation
  <2> QED BY <2>1
<1> HIDE DEF Concatenation
<1> QED BY <1>2, <1>3, <1>4

-----------------------------------------------------------------------------
(* The invariant.                                                           *)
LEMMA ReaderStarts == ReaderInit => ReaderInv
  BY DEF ReaderInit, ReaderInv, PartsOK

(* Of a read that is not at the end: the file, and how much there is of it. *)
LEMMA Counted ==
  ASSUME ReaderInv, position < Total, NEW n \in 0..MaxBuffer
  PROVE  LET here == position - Starts[Index]
             count == Min({n, Starts[Index + 1] - position, length[Index] - here})
         IN /\ Index \in DOMAIN sizes /\ here \in Nat /\ here < sizes[Index]
            /\ count \in Int /\ count <= n /\ position + count <= Starts[Index + 1]
            /\ count <= 0 => n = 0 \/ length[Index] <= here
<1> DEFINE here == position - Starts[Index]
           count == Min({n, Starts[Index + 1] - position, length[Index] - here})
<1>1. /\ PartsOK /\ position \in Nat /\ Len(sizes) \in Nat /\ DOMAIN sizes = 1..Len(sizes)
      /\ length \in [DOMAIN sizes -> Nat] /\ \A i \in DOMAIN sizes : sizes[i] \in Nat
  BY DEF ReaderInv, PartsOK
<1>2. Index \in DOMAIN sizes /\ Starts[Index] <= position /\ position < Starts[Index + 1]
  BY <1>1, IndexFound
<1>3. /\ Starts[Index] \in Nat /\ Starts[Index + 1] \in Nat
      /\ Starts[Index + 1] = Starts[Index] + sizes[Index]
  BY <1>1, <1>2, StartsAscend
<1>4. length[Index] \in Nat /\ sizes[Index] \in Nat
  BY <1>1, <1>2
<1> HIDE DEF Index, Starts
<1>5. here \in Nat /\ here < sizes[Index]
  BY <1>1, <1>2, <1>3, <1>4
<1>6. /\ count \in {n, Starts[Index + 1] - position, length[Index] - here}
      /\ count <= n /\ count <= Starts[Index + 1] - position
  <2>1. n \in Int /\ Starts[Index + 1] - position \in Int /\ length[Index] - here \in Int
    BY <1>1, <1>3, <1>4, <1>5
  <2> HIDE DEF here
  <2> QED BY <2>1, MinOfThree
<1>7. count <= 0 => n = 0 \/ length[Index] <= here
  BY <1>1, <1>2, <1>3, <1>4, <1>5, <1>6
<1> QED BY <1>1, <1>2, <1>3, <1>4, <1>5, <1>6, <1>7

(* What the offsets of the files depend on.                                 *)
LEMMA SameStarts ==
  UNCHANGED sizes => UNCHANGED <<Total, Starts>> /\ (UNCHANGED position => UNCHANGED Index)
<1> SUFFICES ASSUME UNCHANGED sizes
             PROVE  UNCHANGED Starts /\ UNCHANGED Total /\ (UNCHANGED position => UNCHANGED Index)
  OBVIOUS
<1>1. UNCHANGED Starts
  BY Zenon DEF Starts
<1> HIDE DEF Starts
<1>2. UNCHANGED Total
  BY <1>1, Zenon DEF Total
<1>3. ASSUME UNCHANGED position PROVE UNCHANGED Index
  BY <1>1, <1>3, Zenon DEF Index
<1> QED BY <1>1, <1>2, <1>3

LEMMA ReadKeeps ==
  ASSUME ReaderInv, NEW n \in 0..MaxBuffer, ReadInto(n) PROVE ReaderInv'
<1>1. PartsOK'
  BY DEF ReadInto, ReaderInv, PartsOK
<1>2. CASE position >= Total
  BY <1>1, <1>2 DEF ReadInto, ReaderInv
<1>3. UNCHANGED <<Total, Starts>> /\ (UNCHANGED position => UNCHANGED Index)
  BY SameStarts DEF ReadInto
<1>4. CASE ~(position >= Total)
  <2> DEFINE here == position - Starts[Index]
             count == Min({n, Starts[Index + 1] - position, length[Index] - here})
  <2>1. position \in Nat /\ Total \in Nat /\ position < Total
    BY <1>4, ConcatenationTyped DEF ReaderInv
  <2>2. /\ Index \in DOMAIN sizes /\ count \in Int
        /\ count <= 0 => n = 0 \/ length[Index] <= here
    BY <2>1, Counted
  <2>4. /\ IF handle # Index /\ Index \notin named
           THEN Failed("missing") /\ handle' = 0
           ELSE /\ handle' = Index
                /\ IF count <= 0 THEN Failed("truncated")
                   ELSE last' = "read" /\ position' = position + count
        /\ asked' = n /\ UNCHANGED <<sizes, length, named>>
    BY <1>4 DEF ReadInto, Opened
  <2> HIDE DEF count, Total, Index, Starts
  <2>5. position' \in Nat
    BY <2>1, <2>2, <2>4 DEF Failed
  <2>6. CASE handle # Index /\ Index \notin named
    BY <1>1, <1>3, <2>1, <2>4, <2>6 DEF Failed, ReaderInv
  <2>7. CASE ~(handle # Index /\ Index \notin named) /\ count <= 0
    BY <1>1, <1>3, <2>1, <2>2, <2>4, <2>7 DEF Failed, ReaderInv
  <2>8. CASE ~(handle # Index /\ Index \notin named) /\ ~(count <= 0)
    BY <1>1, <2>2, <2>4, <2>5, <2>8 DEF ReaderInv
  <2> QED BY <2>6, <2>7, <2>8
<1> QED BY <1>2, <1>4

LEMMA ReaderKeeps == ReaderInv /\ [ReaderNext]_readerVars => ReaderInv'
<1> SUFFICES ASSUME ReaderInv, [ReaderNext]_readerVars PROVE ReaderInv'
  OBVIOUS
<1>1. CASE \E n \in 0..MaxBuffer : ReadInto(n)
  BY <1>1, ReadKeeps
<1>2. ASSUME NEW offset \in Offsets, NEW whence \in {"set", "cur", "end"}, SeekBy(offset, whence)
      PROVE  ReaderInv'
  <2>1. offset \in Int /\ position \in Nat /\ Total \in Nat
    BY ReaderParameters, ConcatenationTyped DEF ReaderInv
  <2>2. position' \in Nat
    <3>1. 0 \in Int /\ Base(whence) + offset \in Int
      BY <2>1 DEF Base
    <3>2. position' = Max({0, Base(whence) + offset})
      BY <1>2 DEF SeekBy
    <3>3. \A e \in Int : Max({0, e}) \in Nat
      <4> TAKE e \in Int
      <4>1. Max({0, e}) \in {0, e} /\ Max({0, e}) >= 0
        BY MaxOfTwo
      <4> QED BY <4>1
    <3> QED BY <3>1, <3>2, <3>3
  <2> QED BY <1>2, <2>2 DEF SeekBy, ReaderInv, PartsOK
<1>3. CASE CloseReader
  BY <1>3 DEF CloseReader, ReaderInv, PartsOK
<1>4. CASE UnlinkFile
  <2>1. UNCHANGED <<Total, Starts, Index>> /\ named' \subseteq named
    BY <1>4, SameStarts DEF UnlinkFile
  <2> HIDE DEF Total, Starts, Index
  <2> QED BY <1>4, <2>1 DEF UnlinkFile, ReaderInv, PartsOK
<1>5. CASE ShortenFile
  <2>1. PICK i \in DOMAIN length : length[i] > 0 /\ length' = [length EXCEPT ![i] = @ - 1]
    BY <1>5 DEF ShortenFile
  <2>2. length' \in [DOMAIN sizes -> Nat]
    BY <2>1 DEF ReaderInv, PartsOK
  <2>3. \A k \in DOMAIN sizes : length'[k] <= sizes[k]
    <3>1. \A k \in DOMAIN sizes : length[k] \in Nat /\ sizes[k] \in Nat /\ length[k] <= sizes[k]
      BY DEF ReaderInv, PartsOK
    <3>2. \A k \in DOMAIN sizes : length'[k] = IF k = i THEN length[k] - 1 ELSE length[k]
      BY <2>1 DEF ReaderInv, PartsOK
    <3> QED BY <3>1, <3>2
  <2>4. UNCHANGED <<Total, Starts, Index>>
    BY <1>5, SameStarts DEF ShortenFile
  <2>5. last = "truncated" => asked = 0 \/ length'[Index] <= position - Starts[Index]
    <3>1. SUFFICES ASSUME position < Total, length[Index] <= position - Starts[Index]
          PROVE  length'[Index] <= position - Starts[Index]
      BY DEF ReaderInv
    <3>2. Index \in DOMAIN sizes /\ Starts[Index] \in Nat /\ position \in Nat
      BY <3>1, IndexFound, StartsAscend DEF ReaderInv, PartsOK
    <3> HIDE DEF Total, Starts, Index
    <3>3. length[Index] \in Nat /\ length'[Index] = IF Index = i THEN length[Index] - 1 ELSE length[Index]
      BY <2>1, <3>2 DEF ReaderInv, PartsOK
    <3> QED BY <3>1, <3>2, <3>3
  <2> HIDE DEF Total, Starts, Index
  <2> QED BY <1>5, <2>2, <2>3, <2>4, <2>5 DEF ShortenFile, ReaderInv, PartsOK
<1>6. ASSUME NEW files \in FileLists, Construct(files) PROVE ReaderInv'
  <2>1. files \in Seq(Nat)
    <3>1. PICK n \in 0..MaxFiles : files \in [1..n -> Lengths]
      BY DEF FileLists
    <3>2. files \in [1..n -> Nat]
      BY <3>1, ReaderParameters
    <3> QED BY <3>2
  <2> QED BY <1>6, <2>1 DEF Construct, ReaderInv, PartsOK
<1>7. CASE UNCHANGED readerVars
  <2>1. UNCHANGED <<Total, Starts, Index>>
    BY <1>7, SameStarts DEF readerVars
  <2> HIDE DEF Total, Starts, Index
  <2> QED BY <1>7, <2>1 DEF readerVars, ReaderInv, PartsOK
<1> QED BY <1>1, <1>2, <1>3, <1>4, <1>5, <1>6, <1>7 DEF ReaderNext, Reading

(* RefusedOnlyIfDamaged: the part at the position is called truncated only  *)
(* if its file ends there or before (or the buffer was empty), and missing  *)
(* only if its own name is gone, whatever reads failed before.              *)
THEOREM RefusedOnlyIfDamagedHolds == ReaderSpec => []RefusedOnlyIfDamaged
<1>1. ReaderInv => RefusedOnlyIfDamaged
  BY DEF ReaderInv, RefusedOnlyIfDamaged
<1> QED BY ReaderStarts, ReaderKeeps, <1>1, PTL DEF ReaderSpec

-----------------------------------------------------------------------------
(* The refinement.                                                          *)
LEMMA EmptyConcatenation == ASSUME sizes = <<>> PROVE Concatenation = <<>>
<1>1. PartsOK => Total = 0
  BY StartsAscend DEF Total
<1>2. Starts[1] = 0
  BY StartsAdd DEF Adds
<1>3. Total = 0
  BY <1>2 DEF Total
<1> HIDE DEF Total
<1> QED BY <1>3 DEF Concatenation

LEMMA TypedNext == PartsOK' => (Concatenation \in Seq(Bytes))'
<1>1. PartsOK => Concatenation \in Seq(Bytes)
  BY ConcatenationTyped
<1> QED BY <1>1, PTL

LEMMA EmptiedConcatenation == (sizes = <<>>)' => (Concatenation = <<>>)'
<1>1. sizes = <<>> => Concatenation = <<>>
  BY EmptyConcatenation
<1> QED BY <1>1, PTL

LEMMA SameConcatenation == ASSUME UNCHANGED sizes PROVE UNCHANGED Concatenation
  BY DEF Concatenation, Total, Starts

LEMMA FileStarts == ReaderInit => File!Init
  BY EmptyConcatenation DEF ReaderInit, File!Init

(* What a read returns of the concatenation.                                *)
LEMMA ReadsOn ==
  ASSUME ReaderInv, position < Total, NEW n \in 0..MaxBuffer,
         NEW count \in Nat \ {0}, count <= n, position + count <= Starts[Index + 1]
  PROVE  /\ position + count \in position + 1..Len(Concatenation)
         /\ position + count <= position + MaxBuffer
         /\ [k \in 1..count |-> <<Index, position - Starts[Index] + k>>]
              = SubSeq(Concatenation, position + 1, position + count)
<1>1. /\ PartsOK /\ position \in Nat
      /\ Index \in DOMAIN sizes /\ Starts[Index] <= position
      /\ Starts[Index] \in Nat /\ Starts[Index + 1] \in Nat
  BY IndexFound, StartsAscend DEF ReaderInv, PartsOK
<1>2. /\ Concatenation \in Seq(Bytes) /\ Len(Concatenation) = Total /\ Total \in Nat
  BY <1>1, ConcatenationTyped
<1>3. ASSUME NEW k \in 1..count
      PROVE  /\ position + k \in 1..Total
             /\ Concatenation[position + k] = <<Index, position - Starts[Index] + k>>
  <2>1. /\ position + k \in Nat /\ Starts[Index] < position + k /\ position + k <= Starts[Index + 1]
        /\ (position + k) - Starts[Index] = position - Starts[Index] + k
    BY <1>1
  <2> QED BY <1>1, <2>1, ByteOf
<1>4. position + count <= Total
  BY <1>2, <1>3
<1>5. SubSeq(Concatenation, position + 1, position + count)
        = [k \in 1..count |-> Concatenation[position + k]]
  BY <1>1, <1>2, <1>4
<1>6. [k \in 1..count |-> <<Index, position - Starts[Index] + k>>]
        = [k \in 1..count |-> Concatenation[position + k]]
  BY <1>3
<1>7. position + count \in position + 1..Total /\ position + count <= position + MaxBuffer
  BY <1>1, <1>2, <1>4, ReaderParameters
<1> QED BY <1>2, <1>5, <1>6, <1>7

LEMMA ReadIsRead ==
  ASSUME ReaderInv, NEW n \in 0..MaxBuffer, ReadInto(n) PROVE File!Next
<1>1. UNCHANGED Concatenation
  BY SameConcatenation DEF ReadInto
<1>2. /\ Concatenation \in Seq(Bytes) /\ Len(Concatenation) = Total /\ Total \in Nat
      /\ position \in Nat
  BY ConcatenationTyped DEF ReaderInv
<1>3. last # "closed"
  BY DEF ReadInto
<1>4. CASE position >= Total
  <2>1. SubSeq(Concatenation, position + 1, position) = <<>>
    BY <1>2
  <2>2. last' = "read" /\ got' = <<>> /\ position' = position
    BY <1>4 DEF ReadInto
  <2> QED BY <1>1, <1>2, <1>3, <1>4, <2>1, <2>2 DEF File!Next, File!Read
<1>5. CASE position < Total
  <2> DEFINE here == position - Starts[Index]
             count == Min({n, Starts[Index + 1] - position, length[Index] - here})
  <2>1. count \in Int /\ count <= n /\ position + count <= Starts[Index + 1]
    BY <1>5, Counted
  <2>2. /\ IF handle # Index /\ Index \notin named
           THEN Failed("missing") /\ handle' = 0
           ELSE IF count <= 0 THEN Failed("truncated")
                ELSE /\ last' = "read" /\ position' = position + count
                     /\ got' = [k \in 1..count |-> <<Index, here + k>>]
    <3>1. ~(position >= Total)
      BY <1>2, <1>5
    <3> QED BY <3>1, Zenon DEF ReadInto, Opened
  <2> HIDE DEF count
  <2>3. CASE Failed("missing") \/ Failed("truncated")
    BY <1>1, <1>3, <2>3 DEF Failed, File!Next, File!Fail
  <2>4. CASE /\ count > 0 /\ last' = "read" /\ position' = position + count
             /\ got' = [k \in 1..count |-> <<Index, here + k>>]
    <3>1. /\ position' \in position + 1..Len(Concatenation) /\ position' <= position + MaxBuffer
          /\ got' = SubSeq(Concatenation, position + 1, position')
      BY <1>5, <2>1, <2>4, ReadsOn
    <3> QED BY <1>1, <1>2, <1>3, <1>5, <2>4, <3>1 DEF File!Next, File!Read
  <2> QED BY <2>1, <2>2, <2>3, <2>4
<1> QED BY <1>2, <1>4, <1>5

LEMMA FileSteps ==
  ReaderInv /\ ReaderInv' /\ [ReaderNext]_readerVars => [File!Next]_(File!vars)
<1> SUFFICES ASSUME ReaderInv, ReaderInv', [ReaderNext]_readerVars PROVE [File!Next]_(File!vars)
  OBVIOUS
<1>1. CASE \E n \in 0..MaxBuffer : ReadInto(n)
  BY <1>1, ReadIsRead
<1>2. ASSUME NEW offset \in Offsets, NEW whence \in {"set", "cur", "end"}, SeekBy(offset, whence)
      PROVE  File!Next
  <2>1. UNCHANGED Concatenation
    BY <1>2, SameConcatenation DEF SeekBy
  <2> QED BY <1>2, <2>1 DEF SeekBy, ReaderInv, File!Next, File!Seek
<1>3. CASE CloseReader
  <2>1. Concatenation' = <<>>
    <3>1. sizes' = <<>>
      BY <1>3 DEF CloseReader
    <3> QED BY <3>1, EmptiedConcatenation
  <2> QED BY <1>3, <2>1 DEF CloseReader, File!Next, File!Close
<1>4. CASE UnlinkFile \/ ShortenFile \/ UNCHANGED readerVars
  <2>1. UNCHANGED <<sizes, position, got, last>>
    BY <1>4 DEF UnlinkFile, ShortenFile, readerVars
  <2>2. UNCHANGED Concatenation
    BY <2>1, SameConcatenation
  <2> QED BY <2>1, <2>2 DEF File!vars
<1>5. ASSUME NEW files \in FileLists, Construct(files) PROVE File!Next
  <2>1. Concatenation' \in Seq(Bytes)
    BY TypedNext DEF ReaderInv
  <2> QED BY <1>5, <2>1 DEF Construct, File!Next, File!Open
<1> QED BY <1>1, <1>2, <1>3, <1>4, <1>5 DEF ReaderNext, Reading

(* ReadsAsOneFile: ConcatReader implements SeekableFile, the parts in their *)
(* order being the file.                                                    *)
THEOREM ReaderImplementsFile == ReaderSpec => ReadsAsOneFile
<1> QED BY ReaderStarts, ReaderKeeps, FileStarts, FileSteps, PTL
        DEF ReaderSpec, ReadsAsOneFile, File!Spec
=============================================================================
