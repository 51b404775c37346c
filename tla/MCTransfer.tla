---------------------------- MODULE MCTransfer ----------------------------
EXTENDS Transfer

a == Byte("a")
b == Byte("b")
\* Several chunks, a payload of line ends and frames, a body and a chunk over
\* their limits.
MCChunks == {<<>>, <<<<a>>, <<b>>>>, <<<<Cr, Lf>>, <<Frame(0, <<>>)>>>>, <<<<a, b>>, <<a, b>>>>, <<<<a, a, a>>>>}
Says(checks, headers, trailer) == [checks |-> checks, headers |-> headers, trailer |-> trailer]
\* Each declaration alone, a trailer beside a header and beside a length, two
\* headers, and a checksum that is not supported where it counts and where not.
MCDeclared ==
  {Says({}, {}, ""), Says({"length"}, {}, ""), Says({"md5"}, {}, ""), Says({"hash"}, {}, ""),
   Says({}, {"sha256", "crc64nvme"}, ""), Says({}, {"crc64nvme"}, ""),
   Says({"length"}, {}, "crc32"), Says({}, {"sha256"}, "crc32"), Says({}, {"crc32"}, "crc64nvme")}
MCMessages ==
  {m \in {[chunks |-> c, framed |-> f, signed |-> s,
           checks |-> d.checks, headers |-> d.headers, trailer |-> d.trailer] :
             c \in MCChunks, f \in BOOLEAN, s \in BOOLEAN, d \in MCDeclared} :
     /\ m.signed \/ m.trailer # "" => m.framed
     /\ "hash" \in m.checks => ~m.framed}
MCPayloads ==
  {Absent, Unsigned} \cup {PayloadOf("v4-header", m) : m \in MCMessages}
MCDrifts == {-2, -1, 1, 2}
MCOffsets == {-2, 0, 1}

MCPolicies ==
  [bucket : {"x"}, exact : {<<>>, <<"u", "a">>}, prefix : {<<>>, <<"u">>}, low : {1}, high : {1},
   expiration : {0}]
MCFormKeys ==
  BoundedSeq({"u", "", ".", "..", " a", "a ", "a%61", FileName}, 2) \ {<<>>}
MCFileNames == {<<"a">>, <<"">>, <<"..", "a">>, <<"a ">>}
=============================================================================
