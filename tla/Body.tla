-------------------------------- MODULE Body --------------------------------
(***************************************************************************)
(* body.py: the body of a request arrives in pieces cut anywhere, is taken  *)
(* out of its aws-chunked framing, held against everything the client       *)
(* declared of it, and kept only if all of it agrees.                       *)
(*                                                                          *)
(* A token stands for a byte of the body or for a whole line of the framing *)
(* without its CRLF; the bytes of a payload may themselves be CR, LF or     *)
(* look like a line. A digest of some data, whatever its algorithm, is the  *)
(* data, and a signature is the sequence of the data it was chained over:   *)
(* no two collide.                                                          *)
(***************************************************************************)
EXTENDS Integers, SequencesExt, FiniteSetsExt

CONSTANTS
  Messages,      \* what clients send: [chunks, framed, signed, checks, headers, trailer]
  MaxBytes,      \* max_bytes of spool
  MaxChunk,      \* MAX_CHUNK
  MaxLine,       \* MAX_LINE, in tokens
  None

ASSUME BodyParameters == MaxBytes \in Nat /\ MaxChunk \in Nat /\ MaxLine \in Nat \ {0, 1}

(* CHECKSUMS and KNOWN_CHECKSUMS, in their order.                           *)
Checksums == <<"crc32", "crc32c", "sha1", "sha256">>
KnownChecksums == Append(Checksums, "crc64nvme")

Cr == [kind |-> "cr"]
Lf == [kind |-> "lf"]
Junk == [kind |-> "junk"]
Byte(b) == [kind |-> "byte", value |-> b]
Frame(size, signature) == [kind |-> "frame", size |-> size, signature |-> signature]
Sum(data) == [kind |-> "sum", of |-> data]
TrailerSignature(signature) == [kind |-> "signature", signature |-> signature]

VARIABLES
  message,     \* what the client sent
  intact,      \* its body was not changed on the way
  told,        \* what spool is told of it by the headers and by authenticate
  wire,        \* what has not been delivered yet
  buffer,      \* _Reader._buffer
  reading,     \* what the next tokens are read as, or how spool ended
  left,        \* bytes left of the chunk, of which there may be less than none
  chunk,       \* its bytes so far
  presented,   \* its signature as presented
  previous,    \* the signature the next chunk's is chained from
  trailers,    \* the trailer lines, without the signature of the trailers
  out          \* the bytes in the spool file

bodyVars == <<message, intact, told, wire, buffer, reading, left, chunk, presented,
              previous, trailers, out>>

-----------------------------------------------------------------------------
(* What a client puts on the wire. It may declare the length of what it     *)
(* sends, its MD5 or (of a body without framing) its hash ("checks"), give  *)
(* its checksum in headers, of any algorithms ("headers"), or announce one  *)
(* that will follow the body ("trailer", "" if it does not).                *)
Content(m) == FlattenSeq(m.chunks)

(* A declared length and a digest that are there are not None.              *)
ASSUME NoneIsNone ==
  \A m \in Messages : Content(m) # None /\ Len(Content(m)) # None

(* AuthResult.chunk_signature and trailer_signature; the seed is <<>>.      *)
Chained(signature, data) == Append(signature, data)

Payload(m) == UNION {ToSet(m.chunks[i]) : i \in DOMAIN m.chunks}
Chain(m) == {SubSeq(Append(m.chunks, <<>>), 1, i) : i \in 0..Len(m.chunks) + 1}

(* Clients sign the chunks of framed bodies only, and no chunk but the last *)
(* is empty. What in a payload looks like a frame bears a signature that    *)
(* its client made for this body, or one of nothing, which is <<>>: others  *)
(* chained from this seed nobody can make.                                  *)
ASSUME ClientsSend ==
  \A m \in Messages :
    /\ m.chunks \in Seq(Seq(Payload(m)) \ {<<>>})
    /\ m.framed \in BOOLEAN /\ m.signed \in BOOLEAN /\ (m.signed => m.framed)
    /\ m.headers \subseteq ToSet(KnownChecksums) /\ m.trailer \in ToSet(KnownChecksums) \cup {""}
    /\ (m.trailer # "" => m.framed) /\ ("hash" \in m.checks => ~m.framed)
    /\ \A token \in Payload(m) : token.kind = "frame" =>
         token.size \in Int /\ (m.signed => token.signature \in Chain(m))

FramesOf(m) ==
  LET chunks == Append(m.chunks, <<>>)
      Signature(i) == IF m.signed THEN SubSeq(chunks, 1, i) ELSE <<>>
  IN [i \in DOMAIN chunks |->
        <<Frame(Len(chunks[i]), Signature(i)), Cr, Lf>> \o chunks[i]
          \o (IF chunks[i] = <<>> THEN <<>> ELSE <<Cr, Lf>>)]

TrailerOf(m) ==
  LET sum == <<Sum(Content(m))>> IN
  IF m.trailer = "" THEN <<>>
  ELSE sum \o <<Cr, Lf>>
         \o (IF m.signed
             THEN <<TrailerSignature(Chained(Append(m.chunks, <<>>), sum)), Cr, Lf>> ELSE <<>>)

(* The frames, with the chunks in the order given.                          *)
Framed(m, order) ==
  LET frames == FramesOf(m) IN FlattenSeq([k \in DOMAIN order |-> frames[order[k]]]) \o Last(frames)

InOrder(m) == [i \in DOMAIN m.chunks |-> i]

Encoded(m) ==
  IF ~m.framed THEN Content(m) ELSE Framed(m, InOrder(m)) \o TrailerOf(m) \o <<Cr, Lf>>

(* What a token may be changed into: any line of the framing into one that  *)
(* says nothing, the size of a frame also into one below zero.              *)
Changed(token) ==
  {Junk} \cup (IF token.kind = "frame" THEN {Frame(-1, token.signature)} ELSE {})

(* What may arrive: the body, the body ended early, a token of it lost or   *)
(* changed, its chunks lost, repeated or in another order, with or without  *)
(* the trailers. HTTP itself holds a body without framing to the length its *)
(* header declares.                                                         *)
Arriving(m) ==
  LET whole == Encoded(m)
      orders == BoundedSeq(DOMAIN m.chunks, Len(m.chunks) + 1)
      started == {SubSeq(whole, 1, k) : k \in 0..Len(whole)}
      shortened == {RemoveAt(whole, i) : i \in DOMAIN whole}
      changed == UNION {{[whole EXCEPT ![i] = token] : token \in Changed(whole[i])} :
                          i \in DOMAIN whole}
      reordered == {Framed(m, order) \o TrailerOf(m) \o <<Cr, Lf>> : order \in orders}
      untrailed == {Framed(m, order) \o <<Cr, Lf>> : order \in orders}
      bodies == started \cup shortened \cup changed
                  \cup IF m.framed THEN reordered \cup untrailed ELSE {}
  IN {b \in bodies : ~m.framed /\ "length" \in m.checks => Len(b) = Len(whole)}

(* _checksum_spec: an announced trailer stands for every header, and of the *)
(* headers the first in the order of KNOWN_CHECKSUMS.                       *)
Selected(m) ==
  IF m.trailer # "" THEN m.trailer
  ELSE IF m.headers = {} THEN ""
  ELSE KnownChecksums[Min({i \in DOMAIN KnownChecksums : KnownChecksums[i] \in m.headers})]

(* What the request says of its body; a declared length is the payload's.   *)
ToldBy(m) ==
  [framed |-> m.framed, signed |-> m.signed,
   declared |-> IF "length" \in m.checks THEN Len(Content(m)) ELSE None,
   md5 |-> IF "md5" \in m.checks THEN Content(m) ELSE None,
   hash |-> IF "hash" \in m.checks THEN Content(m) ELSE None,
   algorithm |-> Selected(m), inTrailer |-> m.trailer # "",
   expected |-> IF m.trailer = "" /\ m.headers # {} THEN Content(m) ELSE None]

-----------------------------------------------------------------------------
BodyIdle ==
  /\ message' = None /\ intact' = TRUE /\ told' = None /\ wire' = <<>> /\ buffer' = <<>>
  /\ reading' = "idle" /\ left' = 0 /\ chunk' = <<>> /\ presented' = <<>>
  /\ previous' = <<>> /\ trailers' = <<>> /\ out' = <<>>

BodyInit ==
  /\ message = None /\ intact = TRUE /\ told = None /\ wire = <<>> /\ buffer = <<>>
  /\ reading = "idle" /\ left = 0 /\ chunk = <<>> /\ presented = <<>>
  /\ previous = <<>> /\ trailers = <<>> /\ out = <<>>

(* The spool file is unlinked whatever goes wrong.                          *)
Refuse ==
  /\ reading' = "refused" /\ out' = <<>>
  /\ UNCHANGED <<message, intact, told, wire, buffer, left, chunk, presented, previous, trailers>>

(* spool, up to the first piece: a declared length over the limit and a     *)
(* checksum that cannot be computed are refused unread.                     *)
Spool(m, t, body) ==
  /\ reading = "idle"
  /\ message' = m /\ told' = t /\ wire' = body
  /\ intact' = (t = ToldBy(m) /\ body = Encoded(m))
  /\ reading' = IF \/ t.declared # None /\ t.declared > MaxBytes
                   \/ t.algorithm \notin ToSet(Checksums) \cup {""}
                THEN "refused" ELSE IF t.framed THEN "frame" ELSE "raw"
  /\ UNCHANGED <<buffer, left, chunk, presented, previous, trailers, out>>

-----------------------------------------------------------------------------
(* _Reader.                                                                 *)
LineEnds == {i \in 1..Len(buffer) - 1 : buffer[i] = Cr /\ buffer[i + 1] = Lf}
Line == SubSeq(buffer, 1, Min(LineEnds) - 1)
TakeLine == buffer' = SubSeq(buffer, Min(LineEnds) + 2, Len(buffer))
AtLine(where) == reading = where /\ LineEnds # {}
AtAnyLine == reading \in {"frame", "gap", "trailer"}

(* Mutant: the length of the buffer is held against a line's before the end *)
(* of the line is looked for.                                               *)
OverlongEarly == AtAnyLine /\ Len(buffer) > MaxLine

Overlong == AtAnyLine /\ LineEnds = {} /\ Len(buffer) > MaxLine

Waiting ==
  \/ AtAnyLine /\ LineEnds = {} /\ ~Overlong
  \/ reading = "data" /\ left # 0 /\ buffer = <<>>
  \/ reading = "raw" /\ buffer = <<>>

(* _fill: a piece of any size.                                              *)
Fill ==
  /\ Waiting
  /\ \E n \in 1..Len(wire) :
       /\ buffer' = buffer \o SubSeq(wire, 1, n)
       /\ wire' = SubSeq(wire, n + 1, Len(wire))
  /\ UNCHANGED <<message, intact, told, reading, left, chunk, presented, previous, trailers, out>>

Disconnect == Waiting /\ wire # <<>> /\ intact' = FALSE /\ reading' = "refused" /\ out' = <<>>
  /\ UNCHANGED <<message, told, wire, buffer, left, chunk, presented, previous, trailers>>

EndsEarly == Waiting /\ reading # "raw" /\ wire = <<>> /\ Refuse

LineTooLong == Overlong /\ Refuse

-----------------------------------------------------------------------------
(* Mutant: only the declared length is held against the limit.              *)
FitsDeclared(piece) == TRUE

(* write: a piece that would pass the limit is not written.                 *)
Fits(piece) == Len(out) + Len(piece) <= MaxBytes

(* The line of a frame is one token; of anything longer int() or the        *)
(* signature makes an error. A size has an upper bound and no lower one.    *)
FrameLine ==
  /\ AtLine("frame")
  /\ IF Len(Line) = 1 /\ Line[1].kind = "frame" /\ Line[1].size <= MaxChunk
     THEN /\ reading' = "data" /\ left' = Line[1].size /\ chunk' = <<>>
          /\ presented' = Line[1].signature
          /\ TakeLine
          /\ UNCHANGED <<message, intact, told, wire, previous, trailers, out>>
     ELSE Refuse

(* exactly: the first `left' bytes of the buffer, or, of a size below zero, *)
(* all of it but so many at its end: once there are no more than those,     *)
(* the loop takes nothing, waits for nothing and never ends.                *)
Taken == IF left > 0 THEN Min({left, Len(buffer)}) ELSE Max({0, Len(buffer) + left})

ChunkData ==
  /\ reading = "data" /\ left # 0 /\ buffer # <<>>
  /\ LET n == Taken
         piece == SubSeq(buffer, 1, n)
     IN IF ~Fits(piece) THEN Refuse
        ELSE /\ out' = out \o piece /\ chunk' = chunk \o piece /\ left' = left - n
             /\ buffer' = SubSeq(buffer, n + 1, Len(buffer))
             /\ UNCHANGED <<message, intact, told, wire, reading, presented, previous, trailers>>

(* Mutant: the loop is left at the empty chunk before its signature is      *)
(* looked at.                                                               *)
ChunkSignedButLast == ~told.signed \/ chunk = <<>> \/ presented = Chained(previous, chunk)

ChunkSigned == ~told.signed \/ presented = Chained(previous, chunk)

ChunkEnd ==
  /\ reading = "data" /\ left = 0
  /\ IF ~ChunkSigned THEN Refuse
     ELSE /\ previous' = IF told.signed THEN presented ELSE previous
          /\ reading' = IF chunk = <<>> THEN "trailer" ELSE "gap"
          /\ UNCHANGED <<message, intact, told, wire, buffer, left, chunk, presented, trailers, out>>

Gap ==
  /\ AtLine("gap")
  /\ IF Line # <<>> THEN Refuse
     ELSE /\ reading' = "frame" /\ TakeLine
          /\ UNCHANGED <<message, intact, told, wire, left, chunk, presented, previous, trailers, out>>

Trailer ==
  /\ AtLine("trailer")
  /\ LET signature == Len(Line) = 1 /\ Line[1].kind = "signature"
         right == Line[1].signature = Chained(previous, FlattenSeq(trailers))
     IN IF signature /\ told.signed /\ ~right THEN Refuse
        ELSE /\ reading' = IF Line = <<>> THEN "verify" ELSE "trailer"
             /\ trailers' = IF Line = <<>> \/ signature THEN trailers ELSE Append(trailers, Line)
             /\ TakeLine
             /\ UNCHANGED <<message, intact, told, wire, left, chunk, presented, previous, out>>

(* A body without framing is written piece by piece as it comes.            *)
RawData ==
  /\ reading = "raw" /\ buffer # <<>>
  /\ IF ~Fits(buffer) THEN Refuse
     ELSE /\ out' = out \o buffer /\ buffer' = <<>>
          /\ UNCHANGED <<message, intact, told, wire, reading, left, chunk, presented,
                         previous, trailers>>

RawEnd ==
  /\ reading = "raw" /\ buffer = <<>> /\ wire = <<>> /\ reading' = "verify"
  /\ UNCHANGED <<message, intact, told, wire, buffer, left, chunk, presented, previous,
                 trailers, out>>

-----------------------------------------------------------------------------
(* The checksum the body is held against: of several trailer lines that     *)
(* give one the last, and none if none came.                                *)
SumLines == {i \in DOMAIN trailers : Len(trailers[i]) = 1 /\ trailers[i][1].kind = "sum"}

Expected ==
  IF ~told.inTrailer THEN told.expected
  ELSE IF SumLines = {} THEN None ELSE trailers[Max(SumLines)][1].of

(* Mutant: what is declared is held against bodies without framing only.    *)
AgreesUnlessFramed ==
  told.framed \/ \A sum \in {told.md5, told.hash, Expected} : sum # None => out = sum

Agrees ==
  /\ told.declared # None => Len(out) = told.declared
  /\ \A sum \in {told.md5, told.hash, Expected} : sum # None => out = sum

Verify ==
  /\ reading = "verify"
  /\ IF ~Agrees THEN Refuse
     ELSE /\ reading' = "done"
          /\ UNCHANGED <<message, intact, told, wire, buffer, left, chunk, presented, previous,
                         trailers, out>>

Decode ==
  \/ FrameLine \/ ChunkData \/ ChunkEnd \/ Gap \/ Trailer
  \/ RawData \/ RawEnd \/ Verify
  \/ Fill \/ Disconnect \/ EndsEarly \/ LineTooLong

BodyNext ==
  \/ Decode
  \/ \E m \in Messages : \E body \in Arriving(m) : Spool(m, ToldBy(m), body)
  \/ (reading \in {"done", "refused"} /\ BodyIdle)

BodySpec == BodyInit /\ [][BodyNext]_bodyVars

-----------------------------------------------------------------------------
(* However a body is cut into pieces, and whatever bytes it is made of: one *)
(* that arrives as it was sent is refused only for being too large, or      *)
(* because the checksum that is to be checked is one the service cannot     *)
(* compute ("refused rather than skipped", body.py:53).                     *)
IntactAccepted ==
  reading = "refused" /\ intact =>
    \/ Len(Content(message)) > MaxBytes
    \/ \E i \in DOMAIN message.chunks : Len(message.chunks[i]) > MaxChunk
    \/ Selected(message) = "crc64nvme"

(* What is kept is what the client sent, if it declared its MD5 or its      *)
(* hash, gave a checksum in a header and announced none, or announced one   *)
(* that arrived, though bytes of it were lost or changed, or lines that     *)
(* frame it; and it is as long as declared. An announced trailer that does  *)
(* not arrive leaves the checksums of the headers unchecked as well.        *)
KeptAsDigested ==
  reading = "done" =>
    /\ \/ {"md5", "hash"} \cap message.checks # {}
       \/ message.trailer = "" /\ message.headers # {}
       \/ message.trailer # "" /\ Expected = Content(message)
       => out = Content(message)
    /\ "length" \in message.checks => Len(out) = Len(Content(message))

(* The same of a body whose chunks are signed, though each signature tells  *)
(* of its own chunk and of those before it only: none is missing, repeated  *)
(* or moved, at the end either.                                             *)
KeptAsSigned == reading = "done" /\ message.signed => out = Content(message)

(* No sequence of frames, declared or not, fills the disk past the limit.   *)
SpoolBounded == Len(out) <= MaxBytes
=============================================================================
