----------------------------- MODULE BodyProofs -----------------------------
(* What is proved of Body for every message, limit and cut into pieces.     *)
EXTENDS Body, NatFacts

-----------------------------------------------------------------------------
(* FlattenSeq.                                                              *)
Joins(f, s, n) == f = [i \in 1..n |-> IF i = 1 THEN s[i] ELSE f[i - 1] \o s[i]]

LEMMA JoinsAt ==
  ASSUME NEW n, NEW s, NEW f, Joins(f, s, n), NEW i \in 1..n
  PROVE  f[i] = IF i = 1 THEN s[i] ELSE f[i - 1] \o s[i]
  BY Zenon DEF Joins

LEMMA OneMoreJoin ==
  ASSUME NEW n \in Nat, NEW s, NEW f, Joins(f, s, n) PROVE \E g : Joins(g, s, n + 1)
<1> DEFINE g == [i \in 1..n + 1 |-> IF i <= n THEN f[i] ELSE IF i = 1 THEN s[i] ELSE f[n] \o s[i]]
<1>1. ASSUME NEW i \in 1..n + 1
      PROVE  g[i] = IF i = 1 THEN s[i] ELSE g[i - 1] \o s[i]
  <2>1. CASE i <= n
    <3>1. i \in 1..n /\ g[i] = f[i] /\ (i # 1 => g[i - 1] = f[i - 1])
      BY <2>1
    <3>2. f[i] = IF i = 1 THEN s[i] ELSE f[i - 1] \o s[i]
      BY <3>1, JoinsAt
    <3> HIDE DEF g
    <3> QED BY <3>1, <3>2
  <2>2. CASE i = n + 1
    <3>1. i # 1 => g[i - 1] = f[n]
      BY <2>2
    <3>2. g[i] = IF i = 1 THEN s[i] ELSE f[n] \o s[i]
      BY <2>2
    <3> HIDE DEF g
    <3> QED BY <3>1, <3>2
  <2> QED BY <2>1, <2>2
<1>2. DOMAIN g = 1..n + 1 /\ g = [i \in 1..n + 1 |-> g[i]]
  OBVIOUS
<1> HIDE DEF g
<1>3. g = [i \in 1..n + 1 |-> IF i = 1 THEN s[i] ELSE g[i - 1] \o s[i]]
  BY <1>1, <1>2, Zenon
<1>4. Joins(g, s, n + 1)
  BY <1>3, Zenon DEF Joins
<1> QED BY <1>4

LEMMA JoinsExist == ASSUME NEW s, NEW n \in Nat PROVE \E f : Joins(f, s, n)
<1> DEFINE T == {k \in Nat : \E f : Joins(f, s, k)}
<1>1. 0 \in T
  <2> DEFINE f == [i \in {} |-> i]
  <2>1. Joins(f, s, 0)
    BY DEF Joins
  <2> QED BY <2>1
<1>2. ASSUME NEW k \in T PROVE k + 1 \in T
  BY OneMoreJoin
<1>3. T = Nat
  <2>1. T \in SUBSET Nat
    OBVIOUS
  <2> HIDE DEF T
  <2> QED BY <1>1, <1>2, <2>1, Induction
<1> QED BY <1>3

(* Sequences that begin alike are joined alike.                             *)
LEMMA JoinsAgree ==
  ASSUME NEW n \in Nat, NEW m \in Nat, n <= m, NEW s, NEW t, \A i \in 1..n : s[i] = t[i],
         NEW f, Joins(f, s, n), NEW g, Joins(g, t, m)
  PROVE  \A i \in 1..n : f[i] = g[i]
<1> DEFINE T == {k \in Nat : k \in 1..n => f[k] = g[k]}
<1>1. 0 \in T
  OBVIOUS
<1>2. ASSUME NEW k \in T PROVE k + 1 \in T
  <2> SUFFICES ASSUME k + 1 \in 1..n PROVE f[k + 1] = g[k + 1]
    OBVIOUS
  <2>0. k + 1 \in 1..m /\ (k + 1) - 1 = k
    OBVIOUS
  <2>1. f[k + 1] = IF k + 1 = 1 THEN s[k + 1] ELSE f[k] \o s[k + 1]
    BY <2>0, JoinsAt
  <2>2. g[k + 1] = IF k + 1 = 1 THEN t[k + 1] ELSE g[k] \o t[k + 1]
    BY <2>0, JoinsAt
  <2> QED BY <2>1, <2>2
<1>3. T = Nat
  <2>1. T \in SUBSET Nat
    OBVIOUS
  <2> HIDE DEF T
  <2> QED BY <1>1, <1>2, <2>1, Induction
<1> QED BY <1>3

LEMMA FlattenJoins ==
  ASSUME NEW s, Len(s) \in Nat \ {0}
  PROVE  \E f : Joins(f, s, Len(s)) /\ FlattenSeq(s) = f[Len(s)]
<1> DEFINE f == CHOOSE f : Joins(f, s, Len(s))
<1>1. Joins(f, s, Len(s))
  BY JoinsExist
<1>2. FlattenSeq(s) = f[Len(s)]
  BY Zenon DEF FlattenSeq, Joins
<1> QED BY <1>1, <1>2

LEMMA FlattenEmpty == FlattenSeq(<<>>) = <<>>
  BY DEF FlattenSeq

LEMMA FlattenGrows ==
  ASSUME NEW s, NEW t, NEW n \in Nat \ {0}, NEW m \in Nat, m = n + 1,
         Len(s) = n, Len(t) = m, \A i \in 1..n : s[i] = t[i]
  PROVE  FlattenSeq(t) = FlattenSeq(s) \o t[m]
<1>1. PICK f : Joins(f, s, n) /\ FlattenSeq(s) = f[n]
  BY FlattenJoins
<1>2. PICK g : Joins(g, t, m) /\ FlattenSeq(t) = g[m]
  BY FlattenJoins
<1>3. m \in 1..m /\ n \in 1..n /\ m - 1 = n /\ m # 1 /\ n <= m
  OBVIOUS
<1>4. g[m] = IF m = 1 THEN t[m] ELSE g[m - 1] \o t[m]
  <2>1. ASSUME NEW i \in 1..m PROVE g[i] = IF i = 1 THEN t[i] ELSE g[i - 1] \o t[i]
    BY <1>2, JoinsAt
  <2> QED BY <1>3, <2>1
<1>5. f[n] = g[n]
  <2>1. \A i \in 1..n : f[i] = g[i]
    BY <1>1, <1>2, <1>3, JoinsAgree
  <2> QED BY <1>3, <2>1
<1> QED BY <1>1, <1>2, <1>3, <1>4, <1>5

LEMMA FlattenOne == ASSUME NEW t, NEW n \in Nat \ {0}, n = 1, Len(t) = n PROVE FlattenSeq(t) = t[n]
<1>1. PICK g : Joins(g, t, n) /\ FlattenSeq(t) = g[n]
  BY FlattenJoins
<1>2. g[n] = IF n = 1 THEN t[n] ELSE g[n - 1] \o t[n]
  <2>1. ASSUME NEW i \in 1..n PROVE g[i] = IF i = 1 THEN t[i] ELSE g[i - 1] \o t[i]
    BY <1>1, JoinsAt
  <2> QED BY <2>1
<1> QED BY <1>1, <1>2

LEMMA FlattenAppend ==
  ASSUME NEW S, NEW s \in Seq(Seq(S)), NEW c \in Seq(S)
  PROVE  FlattenSeq(Append(s, c)) = FlattenSeq(s) \o c
<1>1. /\ Len(s) \in Nat /\ Len(Append(s, c)) = Len(s) + 1 /\ Append(s, c)[Len(s) + 1] = c
      /\ \A i \in 1..Len(s) : s[i] = Append(s, c)[i]
  OBVIOUS
<1>2. CASE Len(s) = 0
  <2>1. s = <<>>
    <3>1. \A q \in Seq(Seq(S)) : Len(q) = 0 => q = <<>>
      OBVIOUS
    <3> QED BY <1>2, <3>1
  <2>2. FlattenSeq(s) \o c = c
    BY <2>1, FlattenEmpty
  <2>3. Len(Append(s, c)) = 1 /\ Append(s, c)[1] = c
    BY <1>1, <1>2
  <2>4. FlattenSeq(Append(s, c)) = c
    <3> DEFINE t == Append(s, c)
               n == Len(s) + 1
    <3>1. n \in Nat \ {0} /\ n = 1 /\ Len(t) = n /\ t[n] = c
      BY <1>1, <1>2
    <3> HIDE DEF n, t
    <3>2. FlattenSeq(t) = t[n]
      BY <3>1, FlattenOne
    <3> QED BY <3>1, <3>2 DEF t
  <2> QED BY <2>2, <2>4
<1>3. CASE Len(s) # 0
  <2>1. Len(s) \in Nat \ {0} /\ Len(s) + 1 \in Nat
    BY <1>1, <1>3
  <2> DEFINE n == Len(s)
             t == Append(s, c)
  <2>2. /\ n \in Nat \ {0} /\ n + 1 \in Nat /\ Len(s) = n /\ Len(t) = n + 1
        /\ \A i \in 1..n : s[i] = t[i]
    BY <1>1, <2>1, Zenon
  <2> HIDE DEF n, t
  <2>3. FlattenSeq(t) = FlattenSeq(s) \o t[n + 1]
    BY <2>2, FlattenGrows
  <2>4. t[n + 1] = c
    BY <1>1 DEF t, n
  <2> QED BY <2>3, <2>4 DEF t
<1> QED BY <1>2, <1>3

LEMMA FlattenTyped ==
  ASSUME NEW S, NEW s \in Seq(Seq(S)) PROVE FlattenSeq(s) \in Seq(S)
<1> DEFINE T == {n \in Nat : \A t \in Seq(Seq(S)) : Len(t) = n => FlattenSeq(t) \in Seq(S)}
<1>1. 0 \in T
  BY FlattenEmpty
<1>2. ASSUME NEW n \in T PROVE n + 1 \in T
  <2> SUFFICES ASSUME NEW t \in Seq(Seq(S)), Len(t) = n + 1 PROVE FlattenSeq(t) \in Seq(S)
    OBVIOUS
  <2> DEFINE front == SubSeq(t, 1, n)
  <2>1. /\ front \in Seq(Seq(S)) /\ Len(front) = n /\ t[n + 1] \in Seq(S)
        /\ t = Append(front, t[n + 1])
    OBVIOUS
  <2>2. FlattenSeq(front) \in Seq(S)
    BY <2>1
  <2> HIDE DEF front
  <2>3. FlattenSeq(t) = FlattenSeq(front) \o t[n + 1]
    BY <2>1, FlattenAppend
  <2> QED BY <2>1, <2>2, <2>3
<1>3. T = Nat
  <2>1. T \in SUBSET Nat
    OBVIOUS
  <2> HIDE DEF T
  <2> QED BY <1>1, <1>2, <2>1, Induction
<1> QED BY <1>3

-----------------------------------------------------------------------------
(* Everything that may come of a message is made of these.                  *)
Trailed(m) == Chained(Append(m.chunks, <<>>), <<Sum(Content(m))>>)

Tokens(m) ==
  Payload(m) \cup {Cr, Lf, Junk} \cup {Frame(n, s) : n \in Int, s \in Chain(m)}
    \cup {Frame(-1, t.signature) : t \in {u \in Payload(m) : u.kind = "frame"}}
    \cup {Sum(Content(m)), TrailerSignature(Trailed(m))}

LEMMA FrameToken ==
  ASSUME NEW m \in Messages, NEW t \in Tokens(m), t.kind = "frame"
  PROVE  t.size \in Int /\ (m.signed => t.signature \in Chain(m))
<1> DEFINE Good == t.size \in Int /\ (m.signed => t.signature \in Chain(m))
<1>1. \/ t \in Payload(m)
      \/ \E n \in Int, s \in Chain(m) : t = Frame(n, s)
      \/ \E u \in Payload(m) : u.kind = "frame" /\ t = Frame(-1, u.signature)
  BY DEF Tokens, Cr, Lf, Junk, Sum, TrailerSignature
<1>2. CASE t \in Payload(m)
  BY <1>2, ClientsSend
<1>3. ASSUME NEW n \in Int, NEW s \in Chain(m), t = Frame(n, s) PROVE Good
  BY <1>3 DEF Frame
<1>4. ASSUME NEW u \in Payload(m), u.kind = "frame", t = Frame(-1, u.signature) PROVE Good
  <2>1. m.signed => u.signature \in Chain(m)
    BY <1>4, ClientsSend
  <2>2. t.size = -1 /\ t.signature = u.signature
    BY <1>4 DEF Frame
  <2> QED BY <2>1, <2>2
<1> QED BY <1>1, <1>2, <1>3, <1>4

LEMMA ChunksTyped ==
  ASSUME NEW m \in Messages
  PROVE  /\ m.chunks \in Seq(Seq(Tokens(m))) /\ Append(m.chunks, <<>>) \in Seq(Seq(Tokens(m)))
         /\ \A i \in 1..Len(m.chunks) : m.chunks[i] # <<>>
         /\ Content(m) \in Seq(Tokens(m))
<1>1. m.chunks \in Seq(Seq(Payload(m)) \ {<<>>})
  BY ClientsSend
<1>2. Payload(m) \subseteq Tokens(m)
  BY DEF Tokens
<1>3. \A P, T : P \subseteq T => \A c \in Seq(P) : c \in Seq(T)
  OBVIOUS
<1>4. \A c \in Seq(Payload(m)) \ {<<>>} : c \in Seq(Tokens(m))
  BY <1>2, <1>3
<1>5. m.chunks \in Seq(Seq(Tokens(m)))
  <2> DEFINE Chunk == Seq(Payload(m)) \ {<<>>}
             All == Seq(Tokens(m))
  <2>1. m.chunks \in Seq(Chunk) /\ \A c \in Chunk : c \in All
    BY <1>1, <1>4
  <2> HIDE DEF Chunk, All
  <2>2. m.chunks \in Seq(All)
    BY <2>1
  <2> QED BY <2>2 DEF All
<1>6. <<>> \in Seq(Tokens(m))
  OBVIOUS
<1>7. Append(m.chunks, <<>>) \in Seq(Seq(Tokens(m)))
  <2> DEFINE All == Seq(Tokens(m))
  <2>1. m.chunks \in Seq(All) /\ <<>> \in All
    BY <1>5, <1>6
  <2> HIDE DEF All
  <2>2. Append(m.chunks, <<>>) \in Seq(All)
    BY <2>1
  <2> QED BY <2>2 DEF All
<1>8. \A i \in 1..Len(m.chunks) : m.chunks[i] # <<>>
  BY <1>1
<1> QED BY <1>5, <1>7, <1>8, FlattenTyped DEF Content

LEMMA ChainTyped ==
  ASSUME NEW m \in Messages, NEW s \in Chain(m)
  PROVE  s \in Seq(Seq(Tokens(m))) /\ <<>> \in Chain(m)
<1> DEFINE All == Seq(Tokens(m))
           signed == Append(m.chunks, <<>>)
<1>1. signed \in Seq(All) /\ m.chunks \in Seq(All) /\ Len(signed) = Len(m.chunks) + 1
  BY ChunksTyped
<1>2. PICK i \in 0..Len(m.chunks) + 1 : s = SubSeq(signed, 1, i)
  BY DEF Chain
<1>3. <<>> \in Chain(m)
  <2>1. Len(m.chunks) \in Nat
    BY <1>1
  <2>2. 0 \in 0..Len(m.chunks) + 1
    BY <2>1
  <2>3. SubSeq(signed, 1, 0) = <<>>
    OBVIOUS
  <2> QED BY <2>2, <2>3 DEF Chain
<1> HIDE DEF All, signed
<1>4. s \in Seq(All)
  BY <1>1, <1>2
<1> QED BY <1>3, <1>4 DEF All

(* A body is made of them whatever happened to it on the way.               *)
LEMMA FramesTyped ==
  ASSUME NEW m \in Messages
  PROVE  /\ Len(FramesOf(m)) = Len(m.chunks) + 1 /\ FramesOf(m) \in Seq(Seq(Tokens(m)))
         /\ TrailerOf(m) \in Seq(Tokens(m))
<1> DEFINE chunks == Append(m.chunks, <<>>)
           T == Tokens(m)
           Signature(i) == IF m.signed THEN SubSeq(chunks, 1, i) ELSE <<>>
           Of(i) == <<Frame(Len(chunks[i]), Signature(i)), Cr, Lf>> \o chunks[i]
                      \o (IF chunks[i] = <<>> THEN <<>> ELSE <<Cr, Lf>>)
<1>1. /\ chunks \in Seq(Seq(T)) /\ Len(chunks) = Len(m.chunks) + 1 /\ Len(m.chunks) \in Nat
      /\ DOMAIN chunks = 1..Len(m.chunks) + 1
  <2>1. chunks \in Seq(Seq(T)) /\ m.chunks \in Seq(Seq(T))
    BY ChunksTyped
  <2> QED BY <2>1
<1>2. Cr \in T /\ Lf \in T /\ Sum(Content(m)) \in T /\ TrailerSignature(Trailed(m)) \in T
  BY DEF Tokens
<1>3. ASSUME NEW i \in 1..Len(m.chunks) + 1 PROVE Of(i) \in Seq(T)
  <2>1. chunks[i] \in Seq(T) /\ Len(chunks[i]) \in Nat
    BY <1>1
  <2>2. Signature(i) \in Chain(m)
    <3>1. SubSeq(chunks, 1, i) \in Chain(m)
      <4>1. i \in 0..Len(m.chunks) + 1
        BY <1>1
      <4> QED BY <4>1, Zenon DEF Chain
    <3>2. <<>> \in Chain(m)
      BY <3>1, ChainTyped
    <3> QED BY <3>1, <3>2
  <2>3. Frame(Len(chunks[i]), Signature(i)) \in T
    <3>1. /\ \A n \in Int, s \in Chain(m) : Frame(n, s) \in Tokens(m)
          /\ \A n \in Nat : n \in Int
      BY DEF Tokens
    <3> HIDE DEF Signature, chunks
    <3> QED BY <2>1, <2>2, <3>1, Zenon
  <2>4. /\ <<Frame(Len(chunks[i]), Signature(i)), Cr, Lf>> \in Seq(T)
        /\ (IF chunks[i] = <<>> THEN <<>> ELSE <<Cr, Lf>>) \in Seq(T)
    <3> HIDE DEF T, Signature, chunks
    <3> QED BY <1>2, <2>3
  <2> HIDE DEF T, chunks, Signature
  <2> QED BY <2>1, <2>4
<1>4. FramesOf(m) = [i \in 1..Len(m.chunks) + 1 |-> Of(i)]
  BY <1>1 DEF FramesOf
<1>5. TrailerOf(m) \in Seq(T)
  <2> DEFINE sum == <<Sum(Content(m))>>
             last == <<TrailerSignature(Trailed(m)), Cr, Lf>>
             end == IF m.signed THEN last ELSE <<>>
  <2>1. /\ sum \in Seq(T) /\ <<Cr, Lf>> \in Seq(T) /\ <<>> \in Seq(T) /\ last \in Seq(T)
    <3> HIDE DEF T
    <3> QED BY <1>2
  <2>2. TrailerOf(m) = IF m.trailer = "" THEN <<>> ELSE sum \o <<Cr, Lf>> \o end
    BY DEF TrailerOf, Trailed
  <2>3. end \in Seq(T)
    BY <2>1
  <2> HIDE DEF sum, last, T, end
  <2>4. sum \o <<Cr, Lf>> \o end \in Seq(T)
    BY <2>1, <2>3
  <2> QED BY <2>1, <2>2, <2>4 DEF T
<1> HIDE DEF Of, chunks, T
<1>6. FramesOf(m) \in Seq(Seq(T)) /\ Len(FramesOf(m)) = Len(m.chunks) + 1
  BY <1>1, <1>3, <1>4
<1> QED BY <1>5, <1>6 DEF T

LEMMA FramedTyped ==
  ASSUME NEW m \in Messages, NEW order \in Seq(DOMAIN m.chunks) PROVE Framed(m, order) \in Seq(Tokens(m))
<1> DEFINE T == Tokens(m)
           All == Seq(T)
           frames == FramesOf(m)
           n == Len(m.chunks)
           ordered == [k \in DOMAIN order |-> frames[order[k]]]
<1>1. /\ frames \in Seq(All) /\ Len(frames) = n + 1 /\ n \in Nat /\ DOMAIN m.chunks = 1..n
      /\ TrailerOf(m) \in All /\ Content(m) \in All
  <2>1. m.chunks \in Seq(Seq(T))
    BY ChunksTyped
  <2> QED BY <2>1, FramesTyped, ChunksTyped
<1>3. Framed(m, order) = FlattenSeq(ordered) \o frames[Len(frames)]
  BY DEF Framed, Last
<1> HIDE DEF frames, n
<1>4. ordered \in Seq(All)
  <2>1. DOMAIN order = 1..Len(order) /\ Len(order) \in Nat /\ \A k \in 1..Len(order) : order[k] \in 1..n
    BY <1>1
  <2>2. \A k \in 1..Len(order) : frames[order[k]] \in All
    <3> HIDE DEF All
    <3> QED BY <1>1, <2>1
  <2> HIDE DEF All
  <2> QED BY <2>1, <2>2
<1>5. FlattenSeq(ordered) \in Seq(T)
  <2> HIDE DEF ordered, T
  <2> QED BY <1>4, FlattenTyped
<1>6. frames[Len(frames)] \in Seq(T)
  <2> HIDE DEF All
  <2>1. frames[Len(frames)] \in All
    BY <1>1
  <2> QED BY <2>1 DEF All
<1> HIDE DEF ordered, T
<1>7. FlattenSeq(ordered) \o frames[Len(frames)] \in Seq(T)
  BY <1>5, <1>6
<1> QED BY <1>3, <1>7 DEF T

LEMMA EncodedTyped ==
  ASSUME NEW m \in Messages
  PROVE  Encoded(m) \in Seq(Tokens(m)) /\ TrailerOf(m) \in Seq(Tokens(m)) /\ <<Cr, Lf>> \in Seq(Tokens(m))
<1> DEFINE T == Tokens(m)
<1>1. InOrder(m) \in Seq(DOMAIN m.chunks)
  <2>1. m.chunks \in Seq(Seq(T))
    BY ChunksTyped
  <2>2. DOMAIN m.chunks = 1..Len(m.chunks) /\ Len(m.chunks) \in Nat
    BY <2>1
  <2> QED BY <2>2 DEF InOrder
<1>2. Framed(m, InOrder(m)) \in Seq(T) /\ TrailerOf(m) \in Seq(T) /\ Content(m) \in Seq(T)
  BY <1>1, FramedTyped, FramesTyped, ChunksTyped
<1>3. <<Cr, Lf>> \in Seq(T)
  <2>1. Cr \in T /\ Lf \in T
    BY DEF Tokens
  <2> HIDE DEF T
  <2> QED BY <2>1
<1> DEFINE framed == Framed(m, InOrder(m)) \o TrailerOf(m) \o <<Cr, Lf>>
<1>4. framed \in Seq(T)
  <2> HIDE DEF T
  <2> QED BY <1>2, <1>3
<1>5. Encoded(m) = IF ~m.framed THEN Content(m) ELSE framed
  BY DEF Encoded
<1> QED BY <1>2, <1>3, <1>4, <1>5

LEMMA ArrivingTyped ==
  ASSUME NEW m \in Messages, NEW body \in Arriving(m) PROVE body \in Seq(Tokens(m))
<1> DEFINE T == Tokens(m)
           whole == Encoded(m)
<1>1. whole \in Seq(T) /\ TrailerOf(m) \in Seq(T) /\ <<Cr, Lf>> \in Seq(T) /\ <<>> \in Seq(T)
  BY EncodedTyped
<1>2. ASSUME NEW token \in T, NEW new \in Changed(token) PROVE new \in T
  <2>1. CASE new = Junk
    BY <2>1 DEF Tokens
  <2>2. CASE token.kind = "frame" /\ new = Frame(-1, token.signature)
    <3>1. \/ token \in Payload(m)
          \/ \E n \in Int, s \in Chain(m) : token = Frame(n, s)
          \/ \E u \in Payload(m) : u.kind = "frame" /\ token = Frame(-1, u.signature)
      BY <2>2 DEF Tokens, Cr, Lf, Junk, Sum, TrailerSignature
    <3>2. CASE token \in Payload(m)
      BY <2>2, <3>2 DEF Tokens
    <3>3. ASSUME NEW n \in Int, NEW s \in Chain(m), token = Frame(n, s) PROVE new \in T
      <4>1. token.signature = s
        BY <3>3 DEF Frame
      <4>2. \A k \in Int : Frame(k, s) \in T
        BY DEF Tokens
      <4> HIDE DEF T
      <4> QED BY <2>2, <4>1, <4>2
    <3>4. ASSUME NEW u \in Payload(m), u.kind = "frame", token = Frame(-1, u.signature) PROVE new \in T
      <4>1. token.signature = u.signature
        BY <3>4 DEF Frame
      <4> QED BY <2>2, <3>4, <4>1
    <3> QED BY <3>1, <3>2, <3>3, <3>4
  <2> QED BY <2>1, <2>2 DEF Changed
<1>3. \/ \E k \in 0..Len(whole) : body = SubSeq(whole, 1, k)
      \/ \E i \in DOMAIN whole : body = RemoveAt(whole, i)
      \/ \E i \in DOMAIN whole : \E new \in Changed(whole[i]) : body = [whole EXCEPT ![i] = new]
      \/ \E order \in BoundedSeq(DOMAIN m.chunks, Len(m.chunks) + 1) :
           \/ body = Framed(m, order) \o TrailerOf(m) \o <<Cr, Lf>>
           \/ body = Framed(m, order) \o <<Cr, Lf>>
  <2> DEFINE orders == BoundedSeq(DOMAIN m.chunks, Len(m.chunks) + 1)
             started == {SubSeq(whole, 1, k) : k \in 0..Len(whole)}
             shortened == {RemoveAt(whole, i) : i \in DOMAIN whole}
             changed == UNION {{[whole EXCEPT ![i] = token] : token \in Changed(whole[i])} : i \in DOMAIN whole}
             reordered == {Framed(m, order) \o TrailerOf(m) \o <<Cr, Lf>> : order \in orders}
             untrailed == {Framed(m, order) \o <<Cr, Lf>> : order \in orders}
             bodies == started \cup shortened \cup changed
                         \cup IF m.framed THEN reordered \cup untrailed ELSE {}
  <2>1. Arriving(m) = {b \in bodies : ~m.framed /\ "length" \in m.checks => Len(b) = Len(whole)}
    BY Zenon DEF Arriving
  <2>2. body \in bodies
    <3> HIDE DEF bodies
    <3> QED BY <2>1
  <2>3. body \in started \/ body \in shortened \/ body \in changed \/ body \in reordered \/ body \in untrailed
    <3> HIDE DEF started, shortened, changed, reordered, untrailed
    <3> QED BY <2>2
  <2>4. CASE body \in started
    BY <2>4
  <2>5. CASE body \in shortened
    BY <2>5
  <2>6. CASE body \in changed
    <3>1. PICK i \in DOMAIN whole : body \in {[whole EXCEPT ![i] = token] : token \in Changed(whole[i])}
      BY <2>6, Zenon
    <3> QED BY <3>1, Zenon
  <2>7. CASE body \in reordered \/ body \in untrailed
    BY <2>7, Zenon
  <2> HIDE DEF started, shortened, changed, reordered, untrailed
  <2> QED BY <2>3, <2>4, <2>5, <2>6, <2>7
<1>4. ASSUME NEW order \in BoundedSeq(DOMAIN m.chunks, Len(m.chunks) + 1)
      PROVE  Framed(m, order) \in Seq(T)
  <2>1. order \in Seq(DOMAIN m.chunks)
    BY DEF BoundedSeq, SeqOf
  <2> QED BY <2>1, FramedTyped
<1> HIDE DEF T, whole
<1>5. ASSUME NEW order \in BoundedSeq(DOMAIN m.chunks, Len(m.chunks) + 1)
      PROVE  /\ Framed(m, order) \o TrailerOf(m) \o <<Cr, Lf>> \in Seq(T)
             /\ Framed(m, order) \o <<Cr, Lf>> \in Seq(T)
  BY <1>1, <1>4
<1>6. ASSUME NEW k \in 0..Len(whole) PROVE SubSeq(whole, 1, k) \in Seq(T)
  BY <1>1
<1>7. ASSUME NEW i \in DOMAIN whole PROVE RemoveAt(whole, i) \in Seq(T)
  <2>1. SubSeq(whole, 1, i - 1) \in Seq(T) /\ SubSeq(whole, i + 1, Len(whole)) \in Seq(T)
    BY <1>1
  <2> QED BY <2>1 DEF RemoveAt
<1>8. ASSUME NEW i \in DOMAIN whole, NEW new \in Changed(whole[i])
      PROVE  [whole EXCEPT ![i] = new] \in Seq(T)
  <2>1. whole[i] \in T
    BY <1>1
  <2>2. new \in T
    BY <1>2, <2>1
  <2> QED BY <1>1, <2>2
<1>9. body \in Seq(T)
  BY <1>3, <1>5, <1>6, <1>7, <1>8
<1> QED BY <1>9 DEF T

-----------------------------------------------------------------------------
(* What the decoder works with is of these, and within the limit; what is   *)
(* kept of a signed body is what the signatures that were held against it   *)
(* are chained over.                                                        *)
Clean ==
  /\ buffer = <<>> /\ left = 0 /\ chunk = <<>> /\ presented = <<>> /\ previous = <<>> /\ trailers = <<>>
  /\ out = <<>>

WireOK ==
  /\ reading \in {"idle", "frame", "data", "gap", "trailer", "raw", "verify", "done", "refused"}
  /\ reading = "idle" => Clean
  /\ reading # "idle" =>
       /\ message \in Messages /\ left \in Int
       /\ wire \in Seq(Tokens(message)) /\ buffer \in Seq(Tokens(message))
       /\ chunk \in Seq(Tokens(message)) /\ out \in Seq(Tokens(message))

ChainKept ==
  reading \notin {"idle", "refused"} /\ message.signed =>
    /\ told.signed /\ reading # "raw"
    /\ previous \in Chain(message)
    /\ reading \in {"frame", "gap"} => out = FlattenSeq(previous)
    /\ reading = "data" => out = FlattenSeq(previous) \o chunk /\ presented \in Chain(message)
    /\ reading \in {"trailer", "verify", "done"} => out = Content(message)

LEMMA LineIs ==
  ASSUME NEW T, buffer \in Seq(T), LineEnds # {}
  PROVE  /\ Min(LineEnds) \in LineEnds /\ \A i \in LineEnds : Min(LineEnds) <= i
         /\ Line \in Seq(T) /\ Len(Line) = Min(LineEnds) - 1
         /\ \A i \in 1..Len(Line) : Line[i] = buffer[i]
         /\ SubSeq(buffer, Min(LineEnds) + 2, Len(buffer)) \in Seq(T)
<1>1. Len(buffer) \in Nat
  OBVIOUS
<1>2. LineEnds \in SUBSET Nat /\ \A i \in LineEnds : i \in 1..Len(buffer) - 1
  BY <1>1 DEF LineEnds
<1>3. Min(LineEnds) \in LineEnds /\ \A i \in LineEnds : Min(LineEnds) <= i
  BY <1>2, MinNat
<1> DEFINE end == Min(LineEnds)
<1>4. end \in Nat /\ end \in 1..Len(buffer) - 1
  BY <1>2, <1>3
<1> HIDE DEF end
<1>5. /\ SubSeq(buffer, 1, end - 1) \in Seq(T) /\ Len(SubSeq(buffer, 1, end - 1)) = end - 1
      /\ \A i \in 1..end - 1 : SubSeq(buffer, 1, end - 1)[i] = buffer[i]
      /\ SubSeq(buffer, end + 2, Len(buffer)) \in Seq(T)
  BY <1>1, <1>4
<1> QED BY <1>3, <1>5 DEF Line, end

LEMMA TakenIs ==
  ASSUME NEW T, buffer \in Seq(T), left \in Int
  PROVE  /\ Taken \in Nat /\ Taken <= Len(buffer) /\ Len(buffer) \in Nat
         /\ left > 0 => Taken \in {left, Len(buffer)} /\ Taken <= left
<1>1. Len(buffer) \in Nat
  OBVIOUS
<1>2. CASE left > 0
  <2>1. {left, Len(buffer)} \in SUBSET Nat
    BY <1>1, <1>2
  <2>2. Taken = Min({left, Len(buffer)})
    BY <1>2 DEF Taken
  <2> QED BY <1>1, <2>1, <2>2, MinNat
<1>3. CASE ~(left > 0)
  <2>1. Taken = Max({0, Len(buffer) + left}) /\ Len(buffer) + left <= Len(buffer)
    BY <1>1, <1>3 DEF Taken
  <2>2. Len(buffer) + left \in Int /\ 0 \in Int
    BY <1>1
  <2>3. Taken \in {0, Len(buffer) + left} /\ Taken >= 0
    BY <2>1, <2>2, MaxOfTwo
  <2> QED BY <1>1, <1>3, <2>1, <2>2, <2>3
<1> QED BY <1>2, <1>3

LEMMA WireInit == BodyInit => WireOK
  BY DEF BodyInit, WireOK, Clean

LEMMA SpoolTyped ==
  ASSUME WireOK, NEW m \in Messages, NEW body \in Arriving(m), NEW t, Spool(m, t, body) PROVE WireOK'
<1>1. /\ reading = "idle" /\ message' = m /\ wire' = body /\ reading' \in {"refused", "frame", "raw"}
      /\ buffer' = buffer /\ left' = left /\ chunk' = chunk /\ out' = out
  BY DEF Spool
<1>2. body \in Seq(Tokens(m))
  BY ArrivingTyped
<1>3. <<>> \in Seq(Tokens(m))
  OBVIOUS
<1>4. buffer = <<>> /\ left = 0 /\ chunk = <<>> /\ out = <<>>
  BY <1>1 DEF WireOK, Clean
<1> QED BY <1>1, <1>2, <1>3, <1>4 DEF WireOK

LEMMA DecodeTyped == ASSUME WireOK, Decode PROVE WireOK' /\ reading # "idle" /\ reading' # "idle"
<1>0. reading # "idle" /\ message' = message /\ told' = told
  BY DEF Decode, FrameLine, ChunkData, ChunkEnd, Gap, Trailer, RawData, RawEnd, Verify,
         Fill, Disconnect, EndsEarly, LineTooLong, Refuse, Waiting, AtLine, AtAnyLine, Overlong
<1> DEFINE T == Tokens(message)
<1>1. /\ message \in Messages /\ left \in Int /\ wire \in Seq(T) /\ buffer \in Seq(T)
      /\ chunk \in Seq(T) /\ out \in Seq(T)
  BY <1>0 DEF WireOK
<1>2. <<>> \in Seq(T)
  OBVIOUS
<1>3. SUFFICES /\ reading' \in {"frame", "data", "gap", "trailer", "raw", "verify", "done", "refused"}
               /\ left' \in Int /\ wire' \in Seq(T) /\ buffer' \in Seq(T)
               /\ chunk' \in Seq(T) /\ out' \in Seq(T)
  BY <1>0, <1>1 DEF WireOK
<1>4. ASSUME NEW t \in T, t.kind = "frame" PROVE t.size \in Int
  BY <1>1, <1>4, FrameToken
<1> HIDE DEF T
<1>5. CASE Refuse
  BY <1>1, <1>2, <1>5 DEF Refuse
<1>6. CASE FrameLine /\ ~Refuse
  <2>1. /\ LineEnds # {} /\ Len(Line) = 1 /\ Line[1].kind = "frame"
        /\ reading' = "data" /\ left' = Line[1].size /\ chunk' = <<>>
        /\ TakeLine /\ wire' = wire /\ out' = out
    BY <1>6 DEF FrameLine, AtLine
  <2>2. Line \in Seq(T) /\ buffer' \in Seq(T)
    BY <1>1, <2>1, LineIs DEF TakeLine
  <2>3. Line[1] \in T
    <3>1. \A s \in Seq(T) : Len(s) = 1 => s[1] \in T
      OBVIOUS
    <3> QED BY <2>1, <2>2, <3>1
  <2> QED BY <1>1, <1>2, <1>4, <2>1, <2>2, <2>3
<1>7. CASE ChunkData /\ ~Refuse
  <2> DEFINE n == Taken
             piece == SubSeq(buffer, 1, n)
  <2>1. /\ out' = out \o piece /\ chunk' = chunk \o piece /\ left' = left - n
        /\ buffer' = SubSeq(buffer, n + 1, Len(buffer)) /\ wire' = wire /\ reading' = reading /\ reading = "data"
    BY <1>7 DEF ChunkData
  <2>2. n \in Nat /\ n <= Len(buffer) /\ Len(buffer) \in Nat
    BY <1>1, TakenIs
  <2> HIDE DEF n
  <2>3. piece \in Seq(T) /\ SubSeq(buffer, n + 1, Len(buffer)) \in Seq(T) /\ left - n \in Int
    BY <1>1, <2>2
  <2> QED BY <1>1, <2>1, <2>3
<1>8. CASE (Gap \/ Trailer) /\ ~Refuse
  <2>1. /\ LineEnds # {} /\ TakeLine /\ reading' \in {"frame", "verify", "trailer"} /\ left' = left
        /\ wire' = wire /\ chunk' = chunk /\ out' = out
    BY <1>8 DEF Gap, Trailer, AtLine
  <2>2. buffer' \in Seq(T)
    BY <1>1, <2>1, LineIs DEF TakeLine
  <2> QED BY <1>1, <2>1, <2>2
<1>9. CASE RawData /\ ~Refuse
  <2>1. /\ out' = out \o buffer /\ buffer' = <<>> /\ left' = left /\ chunk' = chunk /\ wire' = wire
        /\ reading' = "raw"
    BY <1>9 DEF RawData
  <2>2. out \o buffer \in Seq(T)
    BY <1>1
  <2> QED BY <1>1, <1>2, <2>1, <2>2
<1>10. CASE (ChunkEnd \/ RawEnd \/ Verify) /\ ~Refuse
  BY <1>1, <1>10 DEF ChunkEnd, RawEnd, Verify
<1>11. CASE Fill
  <2>1. reading' = reading /\ left' = left /\ chunk' = chunk /\ out' = out
    BY <1>11 DEF Fill
  <2>2. PICK n \in 1..Len(wire) : buffer' = buffer \o SubSeq(wire, 1, n) /\ wire' = SubSeq(wire, n + 1, Len(wire))
    BY <1>11 DEF Fill
  <2>3. SubSeq(wire, 1, n) \in Seq(T) /\ SubSeq(wire, n + 1, Len(wire)) \in Seq(T)
    BY <1>1
  <2> QED BY <1>0, <1>1, <2>1, <2>2, <2>3 DEF WireOK
<1>12. CASE Disconnect
  BY <1>1, <1>2, <1>12 DEF Disconnect
<1>13. CASE EndsEarly \/ LineTooLong
  BY <1>5, <1>13 DEF EndsEarly, LineTooLong
<1> QED BY <1>5, <1>6, <1>7, <1>8, <1>9, <1>10, <1>11, <1>12, <1>13 DEF Decode

LEMMA WireNext == WireOK /\ [BodyNext]_bodyVars => WireOK'
<1> SUFFICES ASSUME WireOK, [BodyNext]_bodyVars PROVE WireOK'
  OBVIOUS
<1>1. CASE Decode
  BY <1>1, DecodeTyped
<1>2. CASE BodyIdle
  BY <1>2 DEF BodyIdle, WireOK, Clean
<1>3. CASE UNCHANGED bodyVars
  BY <1>3 DEF bodyVars, WireOK, Clean
<1>4. ASSUME NEW m \in Messages, NEW body \in Arriving(m), Spool(m, ToldBy(m), body) PROVE WireOK'
  BY <1>4, SpoolTyped
<1> QED BY <1>1, <1>2, <1>3, <1>4 DEF BodyNext

-----------------------------------------------------------------------------
(* The limit.                                                               *)
LEMMA BoundedNext == WireOK /\ SpoolBounded /\ [BodyNext]_bodyVars => SpoolBounded'
<1> SUFFICES ASSUME WireOK, SpoolBounded, [BodyNext]_bodyVars PROVE SpoolBounded'
  OBVIOUS
<1>1. Len(<<>>) = 0 /\ MaxBytes \in Nat
  BY BodyParameters
<1>2. CASE out' = <<>>
  BY <1>1, <1>2 DEF SpoolBounded
<1>3. CASE out' = out
  BY <1>3 DEF SpoolBounded
<1>4. CASE ChunkData
  <2> DEFINE n == Taken
             piece == SubSeq(buffer, 1, n)
             T == Tokens(message)
  <2>1. buffer \in Seq(T) /\ out \in Seq(T) /\ left \in Int
    BY <1>4 DEF ChunkData, WireOK
  <2>2. n \in Nat /\ n <= Len(buffer) /\ Len(buffer) \in Nat
    BY <2>1, TakenIs
  <2>3. out' = <<>> \/ (Fits(piece) /\ out' = out \o piece)
    BY <1>4 DEF ChunkData, Refuse
  <2> HIDE DEF n, T
  <2>4. piece \in Seq(T)
    BY <2>1, <2>2
  <2> HIDE DEF piece
  <2>5. Len(out \o piece) = Len(out) + Len(piece)
    BY <2>1, <2>4
  <2> QED BY <1>2, <2>3, <2>5 DEF Fits, SpoolBounded
<1>5. CASE RawData
  <2>1. buffer \in Seq(Tokens(message)) /\ out \in Seq(Tokens(message))
    BY <1>5 DEF RawData, WireOK
  <2>2. out' = <<>> \/ (Fits(buffer) /\ out' = out \o buffer)
    BY <1>5 DEF RawData, Refuse
  <2>3. Len(out \o buffer) = Len(out) + Len(buffer)
    BY <2>1
  <2> QED BY <1>2, <2>2, <2>3 DEF Fits, SpoolBounded
<1>6. out' = <<>> \/ out' = out \/ ChunkData \/ RawData
  BY DEF BodyNext, bodyVars, Spool, BodyIdle, Decode, FrameLine, ChunkEnd, Gap, Trailer, RawEnd, Verify,
         Fill, Disconnect, EndsEarly, LineTooLong, Refuse
<1> QED BY <1>2, <1>3, <1>4, <1>5, <1>6

(* SpoolBounded: whatever frames arrive, the spool file keeps to its limit. *)
THEOREM SpoolBoundedHolds == BodySpec => []SpoolBounded
<1>1. BodyInit => SpoolBounded
  BY BodyParameters DEF BodyInit, SpoolBounded
<1> QED BY <1>1, WireInit, WireNext, BoundedNext, PTL DEF BodySpec

-----------------------------------------------------------------------------
(* The chain of signatures.                                                 *)
LEMMA ChainGrows ==
  ASSUME NEW m \in Messages, NEW previousSignature \in Chain(m), NEW data \in Seq(Tokens(m)),
         Chained(previousSignature, data) \in Chain(m)
  PROVE  /\ FlattenSeq(Chained(previousSignature, data)) = FlattenSeq(previousSignature) \o data
         /\ data = <<>> => previousSignature = m.chunks
<1> DEFINE All == Seq(Tokens(m))
           before == previousSignature
           signed == Append(m.chunks, <<>>)
           n == Len(m.chunks)
<1>1. /\ before \in Seq(All) /\ data \in All /\ signed \in Seq(All) /\ m.chunks \in Seq(All)
      /\ \A i \in 1..n : m.chunks[i] # <<>>
  BY ChainTyped, ChunksTyped
<1>2. FlattenSeq(Chained(before, data)) = FlattenSeq(before) \o data
  BY <1>1, FlattenAppend DEF Chained
<1>3. PICK i \in 0..n + 1 : Append(before, data) = SubSeq(signed, 1, i)
  BY DEF Chain, Chained
<1>4. ASSUME data = <<>> PROVE before = m.chunks
  <2> HIDE DEF All, before, signed, n
  <2>1. /\ Len(before) \in Nat /\ Len(Append(before, data)) = Len(before) + 1
        /\ Append(before, data)[Len(before) + 1] = data
        /\ \A j \in 1..Len(before) : Append(before, data)[j] = before[j]
    BY <1>1
  <2>2. n \in Nat /\ Len(signed) = n + 1 /\ \A j \in 1..n : signed[j] = m.chunks[j]
    BY <1>1 DEF n, signed
  <2>3. Len(SubSeq(signed, 1, i)) = i /\ \A j \in 1..i : SubSeq(signed, 1, i)[j] = signed[j]
    BY <1>1, <2>2
  <2>4. i = Len(before) + 1 /\ signed[i] = data
    BY <1>3, <2>1, <2>2, <2>3
  <2>5. i = n + 1
    BY <1>1, <1>4, <2>1, <2>2, <2>4
  <2>6. Len(before) = n /\ \A j \in 1..n : before[j] = m.chunks[j]
    BY <1>3, <2>1, <2>2, <2>3, <2>4, <2>5
  <2>7. \A s, t \in Seq(All) : Len(s) = Len(t) /\ (\A j \in 1..Len(s) : s[j] = t[j]) => s = t
    OBVIOUS
  <2> QED BY <1>1, <2>6, <2>7 DEF n
<1> QED BY <1>2, <1>4 DEF before

LEMMA ChainInit == BodyInit => ChainKept
  BY DEF BodyInit, ChainKept

LEMMA SpoolChain == ASSUME WireOK, NEW m \in Messages, NEW body, Spool(m, ToldBy(m), body) PROVE ChainKept'
<1>1. /\ reading = "idle" /\ message' = m /\ told' = ToldBy(m) /\ previous' = <<>> /\ out' = <<>>
      /\ reading' = "refused" \/ (reading' = IF ToldBy(m).framed THEN "frame" ELSE "raw")
  BY DEF Spool, WireOK, Clean
<1>2. m.signed => ToldBy(m).signed /\ ToldBy(m).framed
  BY ClientsSend DEF ToldBy
<1>3. <<>> \in Chain(m)
  <2>1. Len(m.chunks) \in Nat
    <3>1. m.chunks \in Seq(Seq(Tokens(m)))
      BY ChunksTyped
    <3> QED BY <3>1
  <2>2. 0 \in 0..Len(m.chunks) + 1 /\ SubSeq(Append(m.chunks, <<>>), 1, 0) = <<>>
    BY <2>1
  <2> QED BY <2>2 DEF Chain
<1> QED BY <1>1, <1>2, <1>3, FlattenEmpty DEF ChainKept

LEMMA DecodeChain == ASSUME WireOK, ChainKept, Decode PROVE ChainKept'
<1> DEFINE T == Tokens(message)
<1>0. reading # "idle" /\ message' = message /\ told' = told
  BY DecodeTyped DEF Decode, FrameLine, ChunkData, ChunkEnd, Gap, Trailer, RawData, RawEnd, Verify,
         Fill, Disconnect, EndsEarly, LineTooLong, Refuse
<1>1. /\ message \in Messages /\ left \in Int /\ buffer \in Seq(T) /\ chunk \in Seq(T) /\ out \in Seq(T)
  BY <1>0 DEF WireOK
<1> SUFFICES ASSUME message.signed, reading' # "refused", reading # "refused"
             PROVE  /\ told.signed /\ reading' # "raw"
                    /\ previous' \in Chain(message)
                    /\ reading' \in {"frame", "gap"} => out' = FlattenSeq(previous')
                    /\ reading' = "data" => out' = FlattenSeq(previous') \o chunk' /\ presented' \in Chain(message)
                    /\ reading' \in {"trailer", "verify", "done"} => out' = Content(message)
  <2>1. reading = "refused" => FALSE
    BY DEF Decode, FrameLine, ChunkData, ChunkEnd, Gap, Trailer, RawData, RawEnd, Verify,
           Fill, Disconnect, EndsEarly, LineTooLong, Waiting, AtLine, AtAnyLine, Overlong
  <2> QED BY <1>0, <2>1 DEF ChainKept
<1>2. /\ told.signed /\ reading # "raw" /\ previous \in Chain(message)
      /\ reading \in {"frame", "gap"} => out = FlattenSeq(previous)
      /\ reading = "data" => out = FlattenSeq(previous) \o chunk /\ presented \in Chain(message)
      /\ reading \in {"trailer", "verify", "done"} => out = Content(message)
  BY <1>0 DEF ChainKept
<1>3. CASE FrameLine
  <2>1. /\ LineEnds # {} /\ Len(Line) = 1 /\ Line[1].kind = "frame" /\ reading = "frame" /\ reading' = "data"
        /\ chunk' = <<>> /\ presented' = Line[1].signature /\ previous' = previous /\ out' = out
    BY <1>3 DEF FrameLine, AtLine, Refuse
  <2>2. Line[1] \in T
    <3>1. \A s \in Seq(T) : Len(s) = 1 => s[1] \in T
      OBVIOUS
    <3> QED BY <1>1, <2>1, <3>1, LineIs
  <2>3. Line[1].signature \in Chain(message)
    BY <1>1, <2>1, <2>2, FrameToken
  <2>4. FlattenSeq(previous) \o <<>> = FlattenSeq(previous)
    BY <1>1, <1>2, <2>1
  <2> QED BY <1>2, <2>1, <2>3, <2>4
<1>4. CASE ChunkData
  <2> DEFINE n == Taken
             piece == SubSeq(buffer, 1, n)
  <2>1. /\ out' = out \o piece /\ chunk' = chunk \o piece /\ presented' = presented /\ previous' = previous
        /\ reading = "data" /\ reading' = reading
    BY <1>4 DEF ChunkData, Refuse
  <2>2. n \in Nat /\ n <= Len(buffer) /\ Len(buffer) \in Nat
    BY <1>1, TakenIs
  <2>3. FlattenSeq(previous) \in Seq(T)
    BY <1>1, <1>2, ChainTyped, FlattenTyped
  <2> HIDE DEF n, T
  <2>4. piece \in Seq(T)
    BY <1>1, <2>2
  <2> HIDE DEF piece
  <2>5. (FlattenSeq(previous) \o chunk) \o piece = FlattenSeq(previous) \o (chunk \o piece)
    BY <1>1, <2>3, <2>4
  <2> QED BY <1>2, <2>1, <2>5
<1>5. CASE ChunkEnd
  <2>1. /\ presented = Chained(previous, chunk) /\ previous' = presented /\ out' = out /\ reading = "data"
        /\ reading' = IF chunk = <<>> THEN "trailer" ELSE "gap"
    BY <1>2, <1>5 DEF ChunkEnd, ChunkSigned, Refuse
  <2>2. /\ FlattenSeq(presented) = FlattenSeq(previous) \o chunk
        /\ chunk = <<>> => previous = message.chunks
    BY <1>1, <1>2, <2>1, ChainGrows
  <2>3. chunk = <<>> => out = Content(message)
    <3>1. FlattenSeq(previous) \in Seq(T)
      BY <1>1, <1>2, ChainTyped, FlattenTyped
    <3> HIDE DEF T
    <3>2. FlattenSeq(previous) \o <<>> = FlattenSeq(previous)
      BY <3>1
    <3> QED BY <1>2, <2>1, <2>2, <3>2 DEF Content
  <2> QED BY <1>2, <2>1, <2>2, <2>3
<1>6. CASE Gap \/ Trailer \/ Verify \/ RawEnd
  BY <1>2, <1>6 DEF Gap, Trailer, Verify, RawEnd, AtLine, Refuse
<1>7. CASE RawData
  BY <1>2, <1>7 DEF RawData
<1>8. CASE Fill
  BY <1>0, <1>2, <1>8 DEF Fill
<1>9. CASE Disconnect \/ EndsEarly \/ LineTooLong
  BY <1>9 DEF Disconnect, EndsEarly, LineTooLong, Refuse
<1> QED BY <1>3, <1>4, <1>5, <1>6, <1>7, <1>8, <1>9 DEF Decode

LEMMA ChainNext == WireOK /\ ChainKept /\ [BodyNext]_bodyVars => ChainKept'
<1> SUFFICES ASSUME WireOK, ChainKept, [BodyNext]_bodyVars PROVE ChainKept'
  OBVIOUS
<1>1. CASE Decode
  BY <1>1, DecodeChain
<1>2. CASE BodyIdle
  BY <1>2 DEF BodyIdle, ChainKept
<1>3. CASE UNCHANGED bodyVars
  BY <1>3 DEF bodyVars, ChainKept
<1>4. ASSUME NEW m \in Messages, NEW body \in Arriving(m), Spool(m, ToldBy(m), body) PROVE ChainKept'
  BY <1>4, SpoolChain
<1> QED BY <1>1, <1>2, <1>3, <1>4 DEF BodyNext

(* KeptAsSigned: a signed body that is kept is whole and in order, though   *)
(* a signature tells of the chunks up to its own only.                      *)
THEOREM KeptAsSignedHolds == BodySpec => []KeptAsSigned
<1>1. WireOK /\ ChainKept => KeptAsSigned
  BY DEF ChainKept, KeptAsSigned
<1> QED BY <1>1, WireInit, WireNext, ChainInit, ChainNext, PTL DEF BodySpec

-----------------------------------------------------------------------------
(* Sequences cut in two.                                                    *)
LEMMA SameSeq ==
  ASSUME NEW T, NEW s \in Seq(T), NEW t \in Seq(T), Len(s) = Len(t), \A i \in 1..Len(s) : s[i] = t[i] PROVE s = t
  OBVIOUS

LEMMA Rejoin ==
  ASSUME NEW T, NEW s \in Seq(T), NEW n \in 0..Len(s)
  PROVE  /\ SubSeq(s, 1, n) \in Seq(T) /\ SubSeq(s, n + 1, Len(s)) \in Seq(T)
         /\ Len(SubSeq(s, 1, n)) = n /\ Len(SubSeq(s, n + 1, Len(s))) = Len(s) - n
         /\ SubSeq(s, 1, n) \o SubSeq(s, n + 1, Len(s)) = s
<1> DEFINE p == SubSeq(s, 1, n)
           q == SubSeq(s, n + 1, Len(s))
<1>1. /\ p \in Seq(T) /\ q \in Seq(T) /\ Len(p) = n /\ Len(q) = Len(s) - n /\ Len(s) \in Nat
      /\ \A i \in 1..n : p[i] = s[i]
      /\ \A i \in 1..Len(s) - n : q[i] = s[n + i]
  OBVIOUS
<1> HIDE DEF p, q
<1>2. /\ p \o q \in Seq(T) /\ Len(p \o q) = Len(s)
      /\ \A i \in 1..Len(s) : (p \o q)[i] = IF i <= n THEN p[i] ELSE q[i - n]
  BY <1>1
<1>3. \A i \in 1..Len(s) : (p \o q)[i] = s[i]
  BY <1>1, <1>2
<1>4. p \o q = s
  BY <1>2, <1>3, SameSeq
<1> QED BY <1>1, <1>4 DEF p, q

LEMMA ConcatIs ==
  ASSUME NEW T, NEW s \in Seq(T), NEW t \in Seq(T)
  PROVE  /\ s \o t \in Seq(T) /\ Len(s \o t) = Len(s) + Len(t) /\ Len(s) \in Nat /\ Len(t) \in Nat
         /\ \A i \in 1..Len(s) : (s \o t)[i] = s[i]
         /\ \A i \in 1..Len(t) : (s \o t)[Len(s) + i] = t[i]
  OBVIOUS

(* What both begin with can be taken away from both.                        *)
Begins(T, b, w, x, r) ==
  b \in Seq(T) /\ w \in Seq(T) /\ x \in Seq(T) /\ r \in Seq(T) /\ b \o w = x \o r /\ Len(x) <= Len(b)

LEMMA TakeHead ==
  ASSUME NEW T, NEW b, NEW w, NEW x, NEW r, Begins(T, b, w, x, r)
  PROVE  /\ SubSeq(b, 1, Len(x)) = x
         /\ SubSeq(b, Len(x) + 1, Len(b)) \in Seq(T) /\ SubSeq(b, Len(x) + 1, Len(b)) \o w = r
<1> DEFINE n == Len(x)
           p == SubSeq(b, 1, n)
           q == SubSeq(b, n + 1, Len(b))
<1>0. /\ b \in Seq(T) /\ w \in Seq(T) /\ x \in Seq(T) /\ r \in Seq(T)
      /\ b \o w = x \o r /\ Len(x) <= Len(b)
  BY DEF Begins
<1>1. /\ Len(b \o w) = Len(b) + Len(w) /\ Len(x \o r) = n + Len(r)
      /\ Len(b) \in Nat /\ Len(w) \in Nat /\ n \in Nat /\ Len(r) \in Nat
      /\ \A i \in 1..Len(b) : (b \o w)[i] = b[i]
      /\ \A i \in 1..Len(w) : (b \o w)[Len(b) + i] = w[i]
      /\ \A i \in 1..n : (x \o r)[i] = x[i]
      /\ \A i \in 1..Len(r) : (x \o r)[n + i] = r[i]
  <2>1. /\ Len(b \o w) = Len(b) + Len(w) /\ Len(b) \in Nat /\ Len(w) \in Nat
        /\ \A i \in 1..Len(b) : (b \o w)[i] = b[i]
        /\ \A i \in 1..Len(w) : (b \o w)[Len(b) + i] = w[i]
    <3>1. b \in Seq(T) /\ w \in Seq(T)
      BY <1>0
    <3> QED BY <3>1, ConcatIs
  <2>2. /\ Len(x \o r) = Len(x) + Len(r) /\ Len(x) \in Nat /\ Len(r) \in Nat
        /\ \A i \in 1..Len(x) : (x \o r)[i] = x[i]
        /\ \A i \in 1..Len(r) : (x \o r)[Len(x) + i] = r[i]
    <3>1. x \in Seq(T) /\ r \in Seq(T)
      BY <1>0
    <3> QED BY <3>1, ConcatIs
  <2> QED BY <2>1, <2>2
<1>2. n \in 0..Len(b) /\ Len(b) + Len(w) = n + Len(r)
  BY <1>0, <1>1
<1>3. /\ p \in Seq(T) /\ q \in Seq(T) /\ Len(p) = n /\ Len(q) = Len(b) - n
      /\ \A i \in 1..n : p[i] = b[i]
      /\ \A i \in 1..Len(b) - n : q[i] = b[n + i]
  <2> HIDE DEF n
  <2> QED BY <1>0, <1>1, <1>2
<1>4. p = x
  <2> HIDE DEF p
  <2>1. \A i \in 1..n : p[i] = x[i]
    <3>1. ASSUME NEW i \in 1..n PROVE p[i] = x[i]
      <4>1. i \in 1..Len(b)
        BY <1>1, <1>2
      <4>2. p[i] = b[i] /\ (b \o w)[i] = b[i] /\ (x \o r)[i] = x[i]
        BY <1>1, <1>3, <4>1
      <4> QED BY <1>0, <4>2
    <3> QED BY <3>1
  <2> QED BY <1>0, <1>3, <2>1, SameSeq
<1>5. q \o w = r
  <2> HIDE DEF q, n
  <2>1. /\ q \o w \in Seq(T) /\ Len(q \o w) = Len(q) + Len(w)
        /\ \A i \in 1..Len(q) : (q \o w)[i] = q[i]
        /\ \A i \in 1..Len(w) : (q \o w)[Len(q) + i] = w[i]
    <3>1. q \in Seq(T) /\ w \in Seq(T)
      BY <1>0, <1>3
    <3> QED BY <3>1, ConcatIs
  <2>2. Len(q \o w) = Len(r)
    BY <1>1, <1>2, <1>3, <2>1
  <2>3. ASSUME NEW i \in 1..Len(r) PROVE (q \o w)[i] = r[i]
    <3>1. (x \o r)[n + i] = r[i]
      BY <1>1
    <3>2. CASE i <= Len(q)
      <4>1. i \in 1..Len(q) /\ i \in 1..Len(b) - n /\ n + i \in 1..Len(b)
        BY <1>1, <1>2, <1>3, <3>2
      <4>2. (q \o w)[i] = b[n + i] /\ (b \o w)[n + i] = b[n + i]
        BY <1>1, <1>3, <2>1, <4>1
      <4> QED BY <1>0, <3>1, <4>2
    <3>3. CASE i > Len(q)
      <4> DEFINE j == i - Len(q)
      <4>1. j \in 1..Len(w) /\ Len(q) + j = i /\ Len(b) + j = n + i
        BY <1>1, <1>2, <1>3, <3>3
      <4> HIDE DEF j
      <4>2. (q \o w)[Len(q) + j] = w[j] /\ (b \o w)[Len(b) + j] = w[j]
        BY <1>1, <2>1, <4>1
      <4>3. (b \o w)[n + i] = (x \o r)[n + i]
        BY <1>0
      <4> QED BY <3>1, <4>1, <4>2, <4>3, Zenon
    <3>4. i <= Len(q) \/ i > Len(q)
      <4>1. Len(q) \in Nat /\ i \in Nat
        BY <1>1, <1>2, <1>3
      <4> QED BY <4>1
    <3> QED BY <3>2, <3>3, <3>4, Zenon
  <2> QED BY <1>0, <2>1, <2>2, <2>3, SameSeq
<1> QED BY <1>3, <1>4, <1>5 DEF p, q, n

LEMMA ConcatTwice ==
  ASSUME NEW T, NEW a \in Seq(T), NEW b \in Seq(T), NEW c \in Seq(T) PROVE (a \o b) \o c = a \o (b \o c)
  OBVIOUS

LEMMA Refill ==
  ASSUME NEW T, NEW b \in Seq(T), NEW w \in Seq(T), NEW n \in 0..Len(w)
  PROVE  (b \o SubSeq(w, 1, n)) \o SubSeq(w, n + 1, Len(w)) = b \o w
<1> DEFINE p == SubSeq(w, 1, n)
           q == SubSeq(w, n + 1, Len(w))
<1>1. p \in Seq(T) /\ q \in Seq(T) /\ p \o q = w
  BY Rejoin
<1> HIDE DEF p, q
<1>2. (b \o p) \o q = b \o (p \o q)
  <2>1. p \in Seq(T) /\ q \in Seq(T)
    BY <1>1
  <2> QED BY <2>1, ConcatTwice
<1> QED BY <1>1, <1>2 DEF p, q

LEMMA OneMoreOf ==
  ASSUME NEW S, NEW s \in Seq(S), NEW k \in 0..Len(s) - 1
  PROVE  SubSeq(s, 1, k + 1) = Append(SubSeq(s, 1, k), s[k + 1])
<1> DEFINE p == SubSeq(s, 1, k + 1)
           q == SubSeq(s, 1, k)
<1>1. /\ Len(s) \in Nat /\ k \in Nat /\ k + 1 <= Len(s)
  OBVIOUS
<1>2. /\ p \in Seq(S) /\ Len(p) = k + 1 /\ \A i \in 1..k + 1 : p[i] = s[i]
      /\ q \in Seq(S) /\ Len(q) = k /\ \A i \in 1..k : q[i] = s[i] /\ s[k + 1] \in S
  BY <1>1
<1> HIDE DEF p, q
<1>3. /\ Append(q, s[k + 1]) \in Seq(S) /\ Len(Append(q, s[k + 1])) = k + 1
      /\ \A i \in 1..k + 1 : Append(q, s[k + 1])[i] = IF i = k + 1 THEN s[k + 1] ELSE q[i]
  BY <1>1, <1>2
<1>4. \A i \in 1..k + 1 : p[i] = Append(q, s[k + 1])[i]
  BY <1>1, <1>2, <1>3
<1>5. p = Append(q, s[k + 1])
  BY <1>2, <1>3, <1>4, SameSeq
<1> QED BY <1>5 DEF p, q

(* The first of a sequence of sequences and the others.                     *)
Unfolds(t) == FlattenSeq(t) = t[1] \o FlattenSeq(SubSeq(t, 2, Len(t)))

LEMMA FrontOfOne ==
  ASSUME NEW S, NEW s \in Seq(Seq(S)), Len(s) = 1 PROVE Unfolds(s)
<1> DEFINE All == Seq(S)
           c == s[1]
           rear == SubSeq(s, 2, Len(s))
<1>1. c \in All /\ s \in Seq(All) /\ <<>> \in Seq(All)
  OBVIOUS
<1>2. rear = <<>>
  <2> HIDE DEF All
  <2>1. rear \in Seq(All) /\ Len(rear) = 0
    BY <1>1
  <2>2. \A q \in Seq(All) : Len(q) = 0 => q = <<>>
    OBVIOUS
  <2> QED BY <2>1, <2>2
<1>3. s = Append(<<>>, c)
  <2> HIDE DEF All
  <2>1. Append(<<>>, c) \in Seq(All) /\ Len(Append(<<>>, c)) = 1 /\ Append(<<>>, c)[1] = s[1]
    BY <1>1
  <2> QED BY <1>1, <2>1, SameSeq
<1>4. FlattenSeq(Append(<<>>, c)) = FlattenSeq(<<>>) \o c
  <2> HIDE DEF c
  <2> QED BY <1>1, FlattenAppend
<1>5. <<>> \o c = c /\ c \o <<>> = c
  <2> HIDE DEF c
  <2> QED BY <1>1
<1> HIDE DEF c, rear
<1>6. FlattenSeq(s) = c \o FlattenSeq(rear)
  BY <1>2, <1>3, <1>4, <1>5, FlattenEmpty
<1> QED BY <1>6 DEF Unfolds, c, rear

LEMMA FrontOfMore ==
  ASSUME NEW S, NEW t \in Seq(Seq(S)), NEW n \in Nat, Len(t) = n + 2,
         \A s \in Seq(Seq(S)) : Len(s) = n + 1 => Unfolds(s)
  PROVE  Unfolds(t)
<1> DEFINE All == Seq(S)
           first == t[1]
           front == SubSeq(t, 1, n + 1)
           end == t[n + 2]
           rear == SubSeq(front, 2, n + 1)
<1>0. t \in Seq(All) /\ \A s \in Seq(All) : Len(s) = n + 1 => Unfolds(s)
  OBVIOUS
<1> HIDE DEF All
<1>1. /\ front \in Seq(All) /\ Len(front) = n + 1 /\ end \in All /\ front[1] = t[1] /\ first \in All
      /\ \A i \in 1..n + 1 : front[i] = t[i]
  BY <1>0
<1> HIDE DEF front
<1>2. rear \in Seq(All) /\ Len(rear) = n /\ \A i \in 1..n : rear[i] = t[i + 1]
  BY <1>1
<1> HIDE DEF rear
<1>3. t = Append(front, end)
  <2>1. /\ Append(front, end) \in Seq(All) /\ Len(Append(front, end)) = n + 2
        /\ \A i \in 1..n + 2 : Append(front, end)[i] = IF i = n + 2 THEN end ELSE front[i]
    BY <1>1
  <2>2. \A i \in 1..n + 2 : t[i] = Append(front, end)[i]
    BY <1>1, <2>1
  <2> QED BY <1>0, <2>1, <2>2, SameSeq
<1>4. SubSeq(t, 2, n + 2) = Append(rear, end)
  <2>1. /\ SubSeq(t, 2, n + 2) \in Seq(All) /\ Len(SubSeq(t, 2, n + 2)) = n + 1
        /\ \A i \in 1..n + 1 : SubSeq(t, 2, n + 2)[i] = t[i + 1]
    BY <1>0
  <2>2. /\ Append(rear, end) \in Seq(All) /\ Len(Append(rear, end)) = n + 1
        /\ \A i \in 1..n + 1 : Append(rear, end)[i] = IF i = n + 1 THEN end ELSE rear[i]
    BY <1>1, <1>2
  <2>3. \A i \in 1..n + 1 : SubSeq(t, 2, n + 2)[i] = Append(rear, end)[i]
    BY <1>2, <2>1, <2>2
  <2> QED BY <2>1, <2>2, <2>3, SameSeq
<1> HIDE DEF end
<1>5. FlattenSeq(front) = front[1] \o FlattenSeq(rear)
  <2>1. Unfolds(front)
    BY <1>0, <1>1
  <2> QED BY <1>1, <2>1 DEF Unfolds, rear
<1>6. /\ FlattenSeq(Append(front, end)) = FlattenSeq(front) \o end
      /\ FlattenSeq(Append(rear, end)) = FlattenSeq(rear) \o end
      /\ FlattenSeq(rear) \in All
  BY <1>1, <1>2, FlattenAppend, FlattenTyped DEF All
<1> HIDE DEF first
<1>7. (first \o FlattenSeq(rear)) \o end = first \o (FlattenSeq(rear) \o end)
  BY <1>1, <1>6, ConcatTwice DEF All
<1>8. front[1] = first
  BY <1>1 DEF first
<1>9. FlattenSeq(t) = first \o FlattenSeq(SubSeq(t, 2, n + 2))
  BY <1>3, <1>4, <1>5, <1>6, <1>7, <1>8
<1> QED BY <1>9 DEF Unfolds, first

LEMMA FlattenFront == ASSUME NEW S, NEW s \in Seq(Seq(S)), s # <<>> PROVE Unfolds(s)
<1> DEFINE All == Seq(Seq(S))
           T == {n \in Nat : \A t \in All : Len(t) = n + 1 => Unfolds(t)}
<1>1. 0 \in T
  BY FrontOfOne
<1>2. ASSUME NEW n \in T PROVE n + 1 \in T
  <2>1. n \in Nat /\ \A t \in All : Len(t) = n + 1 => Unfolds(t)
    OBVIOUS
  <2>2. \A t \in All : Len(t) = n + 2 => Unfolds(t)
    BY <2>1, FrontOfMore
  <2>3. n + 2 = n + 1 + 1
    BY <2>1
  <2> QED BY <2>1, <2>2, <2>3
<1>3. T = Nat
  <2>1. T \in SUBSET Nat
    OBVIOUS
  <2> HIDE DEF T
  <2> QED BY <1>1, <1>2, <2>1, Induction
<1>4. s \in All /\ Len(s) \in Nat /\ Len(s) # 0
  <2>1. \A q \in Seq(Seq(S)) : Len(q) \in Nat /\ (Len(q) = 0 => q = <<>>)
    OBVIOUS
  <2> QED BY <2>1
<1>5. \A n \in Nat : \A t \in All : Len(t) = n + 1 => Unfolds(t)
  BY <1>3
<1>6. Len(s) - 1 \in Nat /\ Len(s) = (Len(s) - 1) + 1
  BY <1>4
<1> HIDE DEF All
<1> QED BY <1>4, <1>5, <1>6

-----------------------------------------------------------------------------
(* A body in order: what there is of it from a frame on.                    *)
Numbered(m) == 1..Len(m.chunks) + 1
ChunkOf(m, k) == Append(m.chunks, <<>>)[k]
Sig(m, k) == IF m.signed THEN SubSeq(Append(m.chunks, <<>>), 1, k) ELSE <<>>
SentTo(m, k) == FlattenSeq(SubSeq(Append(m.chunks, <<>>), 1, k))
End(m, k) == IF ChunkOf(m, k) = <<>> THEN <<>> ELSE <<Cr, Lf>>
From(m, k) == FlattenSeq(SubSeq(FramesOf(m), k, Len(m.chunks) + 1)) \o (TrailerOf(m) \o <<Cr, Lf>>)

LEMMA ChunkIs ==
  ASSUME NEW m \in Messages
  PROVE  /\ Len(m.chunks) \in Nat /\ DOMAIN m.chunks = 1..Len(m.chunks)
         /\ \A k \in Numbered(m) : /\ ChunkOf(m, k) \in Seq(Tokens(m)) /\ Len(ChunkOf(m, k)) \in Nat
                                   /\ ChunkOf(m, k) = <<>> <=> k = Len(m.chunks) + 1
                                   /\ k <= Len(m.chunks) => ChunkOf(m, k) = m.chunks[k]
<1> DEFINE All == Seq(Tokens(m))
           chunks == Append(m.chunks, <<>>)
           n == Len(m.chunks)
<1>1. /\ m.chunks \in Seq(All) /\ chunks \in Seq(All) /\ \A i \in 1..n : m.chunks[i] # <<>>
  BY ChunksTyped
<1>2. \A s \in All : Len(s) \in Nat
  OBVIOUS
<1> HIDE DEF All
<1>3. /\ n \in Nat /\ DOMAIN m.chunks = 1..n /\ Len(chunks) = n + 1 /\ chunks[n + 1] = <<>>
      /\ \A i \in 1..n : chunks[i] = m.chunks[i]
  BY <1>1
<1>4. ASSUME NEW k \in 1..n + 1
      PROVE  /\ chunks[k] \in All /\ (chunks[k] = <<>> <=> k = n + 1)
             /\ k <= n => chunks[k] = m.chunks[k]
  <2> HIDE DEF chunks, n
  <2>1. chunks[k] \in All
    BY <1>1, <1>3
  <2>2. k <= n => k \in 1..n
    BY <1>3
  <2>3. k <= n \/ k = n + 1
    BY <1>3
  <2>4. k = n + 1 => ~(k <= n)
    BY <1>3
  <2> QED BY <1>1, <1>3, <2>1, <2>2, <2>3, <2>4 DEF n
<1>5. ASSUME NEW k \in Numbered(m)
      PROVE  /\ ChunkOf(m, k) \in All /\ Len(ChunkOf(m, k)) \in Nat
             /\ ChunkOf(m, k) = <<>> <=> k = n + 1
             /\ k <= n => ChunkOf(m, k) = m.chunks[k]
  <2>1. k \in 1..n + 1 /\ ChunkOf(m, k) = chunks[k]
    BY DEF Numbered, ChunkOf
  <2> HIDE DEF chunks, n
  <2>2. /\ chunks[k] \in All /\ (chunks[k] = <<>> <=> k = n + 1)
        /\ (k <= n => chunks[k] = m.chunks[k])
    BY <1>4, <2>1
  <2>3. Len(chunks[k]) \in Nat
    BY <1>2, <2>2
  <2> QED BY <2>1, <2>2, <2>3
<1> QED BY <1>3, <1>5 DEF All

LEMMA FrameIs ==
  ASSUME NEW m \in Messages, NEW k \in Numbered(m)
  PROVE  FramesOf(m)[k] = <<Frame(Len(ChunkOf(m, k)), Sig(m, k)), Cr, Lf>> \o ChunkOf(m, k) \o End(m, k)
<1>1. m.chunks \in Seq(Seq(Tokens(m)))
  BY ChunksTyped
<1>2. DOMAIN Append(m.chunks, <<>>) = 1..Len(m.chunks) + 1
  BY <1>1
<1> QED BY <1>2 DEF FramesOf, ChunkOf, Sig, End, Numbered

LEMMA PiecesTyped ==
  ASSUME NEW m \in Messages, NEW k \in Numbered(m)
  PROVE  /\ <<Frame(Len(ChunkOf(m, k)), Sig(m, k)), Cr, Lf>> \in Seq(Tokens(m))
         /\ <<Cr, Lf>> \in Seq(Tokens(m)) /\ End(m, k) \in Seq(Tokens(m))
<1> DEFINE T == Tokens(m)
           frame == Frame(Len(ChunkOf(m, k)), Sig(m, k))
<1>1. Cr \in T /\ Lf \in T
  BY DEF Tokens
<1>2. frame \in T
  <2>1. Sig(m, k) \in Chain(m)
    <3>1. k \in 0..Len(m.chunks) + 1
      BY ChunkIs DEF Numbered
    <3>2. SubSeq(Append(m.chunks, <<>>), 1, k) \in Chain(m)
      BY <3>1, Zenon DEF Chain
    <3>3. <<>> \in Chain(m)
      BY <3>2, ChainTyped
    <3> QED BY <3>2, <3>3 DEF Sig
  <2>2. \A n \in Nat, s \in Chain(m) : Frame(n, s) \in T
    BY DEF Tokens
  <2> QED BY <2>1, <2>2, ChunkIs
<1> HIDE DEF T, frame
<1>3. <<frame, Cr, Lf>> \in Seq(T) /\ <<Cr, Lf>> \in Seq(T) /\ <<>> \in Seq(T)
  BY <1>1, <1>2
<1> QED BY <1>3 DEF T, frame, End

LEMMA FromTyped ==
  ASSUME NEW m \in Messages, NEW k \in 1..Len(m.chunks) + 2
  PROVE  /\ From(m, k) \in Seq(Tokens(m)) /\ TrailerOf(m) \o <<Cr, Lf>> \in Seq(Tokens(m))
         /\ FlattenSeq(SubSeq(FramesOf(m), k, Len(m.chunks) + 1)) \in Seq(Tokens(m))
<1> DEFINE T == Tokens(m)
           All == Seq(T)
           n == Len(m.chunks)
           frames == FramesOf(m)
           rest == SubSeq(frames, k, n + 1)
<1>1. n \in Nat /\ frames \in Seq(All) /\ Len(frames) = n + 1 /\ TrailerOf(m) \in All
  BY ChunkIs, FramesTyped
<1>2. <<Cr, Lf>> \in All
  <2>1. 1 \in Numbered(m)
    BY <1>1 DEF Numbered
  <2> QED BY <2>1, PiecesTyped
<1>3. rest \in Seq(All)
  <2> HIDE DEF All, frames, n
  <2>1. k \in 1..n + 2
    BY DEF n
  <2> QED BY <1>1, <2>1
<1>4. FlattenSeq(rest) \in All
  <2> HIDE DEF rest, T
  <2> QED BY <1>3, FlattenTyped
<1>5. TrailerOf(m) \o <<Cr, Lf>> \in All
  <2> HIDE DEF T
  <2> QED BY <1>1, <1>2
<1>6. FlattenSeq(rest) \o (TrailerOf(m) \o <<Cr, Lf>>) \in All
  <2> HIDE DEF rest, T
  <2> QED BY <1>4, <1>5, ConcatIs
<1> QED BY <1>4, <1>5, <1>6 DEF From

LEMMA FromUnfolds ==
  ASSUME NEW m \in Messages, NEW k \in Numbered(m)
  PROVE  /\ From(m, k) = <<Frame(Len(ChunkOf(m, k)), Sig(m, k)), Cr, Lf>>
                           \o (ChunkOf(m, k) \o (End(m, k) \o From(m, k + 1)))
         /\ From(m, k) \in Seq(Tokens(m)) /\ From(m, k + 1) \in Seq(Tokens(m))
<1> DEFINE T == Tokens(m)
           All == Seq(T)
           n == Len(m.chunks)
           frames == FramesOf(m)
           rest == SubSeq(frames, k, n + 1)
           after == SubSeq(frames, k + 1, n + 1)
           last == TrailerOf(m) \o <<Cr, Lf>>
           line == <<Frame(Len(ChunkOf(m, k)), Sig(m, k)), Cr, Lf>>
           data == ChunkOf(m, k)
           end == End(m, k)
<1>1. n \in Nat /\ frames \in Seq(All) /\ Len(frames) = n + 1 /\ k \in 1..n + 1
  BY ChunkIs, FramesTyped DEF Numbered
<1>2. k \in 1..n + 2 /\ k + 1 \in 1..n + 2
  BY <1>1
<1>3. /\ From(m, k) \in All /\ From(m, k + 1) \in All /\ last \in All
      /\ FlattenSeq(rest) \in All /\ FlattenSeq(after) \in All
  <2> HIDE DEF n
  <2>1. k \in 1..Len(m.chunks) + 2 /\ k + 1 \in 1..Len(m.chunks) + 2
    BY <1>2 DEF n
  <2> QED BY <2>1, FromTyped DEF n
<1>4. line \in All /\ data \in All /\ end \in All /\ frames[k] = (line \o data) \o end
  BY PiecesTyped, ChunkIs, FrameIs
<1>5. rest \in Seq(All) /\ rest # <<>> /\ rest[1] = frames[k] /\ SubSeq(rest, 2, Len(rest)) = after
  <2> HIDE DEF All, n, frames
  <2>1. /\ rest \in Seq(All) /\ Len(rest) = n + 2 - k
        /\ \A i \in 1..n + 2 - k : rest[i] = frames[k - 1 + i]
    BY <1>1
  <2>2. /\ after \in Seq(All) /\ Len(after) = n + 1 - k
        /\ \A i \in 1..n + 1 - k : after[i] = frames[k + i]
    BY <1>1, <1>2
  <2> HIDE DEF rest, after
  <2>3. /\ SubSeq(rest, 2, n + 2 - k) \in Seq(All) /\ Len(SubSeq(rest, 2, n + 2 - k)) = n + 1 - k
        /\ \A i \in 1..n + 1 - k : SubSeq(rest, 2, n + 2 - k)[i] = rest[i + 1]
    BY <1>1, <2>1
  <2>4. \A i \in 1..n + 1 - k : SubSeq(rest, 2, n + 2 - k)[i] = after[i]
    BY <1>1, <2>1, <2>2, <2>3
  <2>5. SubSeq(rest, 2, n + 2 - k) = after
    BY <2>2, <2>3, <2>4, SameSeq
  <2>6. rest[1] = frames[k]
    BY <1>1, <2>1
  <2>7. rest # <<>>
    BY <1>1, <2>1
  <2> QED BY <2>1, <2>5, <2>6, <2>7
<1>6. FlattenSeq(rest) = frames[k] \o FlattenSeq(after)
  <2> HIDE DEF rest, after, T
  <2>1. Unfolds(rest)
    BY <1>5, FlattenFront
  <2> QED BY <1>5, <2>1 DEF Unfolds
<1> DEFINE F == FlattenSeq(after)
<1> HIDE DEF line, data, end, last, T, F
<1>7. (((line \o data) \o end) \o F) \o last = line \o (data \o (end \o (F \o last)))
  <2>1. /\ line \in Seq(T) /\ data \in Seq(T) /\ end \in Seq(T) /\ F \in Seq(T) /\ last \in Seq(T)
    BY <1>3, <1>4 DEF F
  <2> DEFINE head == line \o data
             F1 == F \o last
             F2 == end \o F1
  <2>2. head \in Seq(T) /\ F1 \in Seq(T) /\ head \o end \in Seq(T)
    BY <2>1
  <2>3. ((head \o end) \o F) \o last = (head \o end) \o F1
    <3> HIDE DEF head
    <3> DEFINE x == head \o end
    <3>1. x \in Seq(T)
      BY <2>2
    <3> HIDE DEF x
    <3>2. F \in Seq(T) /\ last \in Seq(T)
      BY <2>1
    <3>3. (x \o F) \o last = x \o (F \o last)
      BY <3>1, <3>2, ConcatTwice
    <3> QED BY <3>3 DEF x
  <2> HIDE DEF head, F1
  <2>4. (head \o end) \o F1 = head \o F2
    <3>1. head \in Seq(T) /\ end \in Seq(T) /\ F1 \in Seq(T)
      BY <2>1, <2>2
    <3> QED BY <3>1, ConcatTwice
  <2>5. F2 \in Seq(T)
    BY <2>1, <2>2
  <2> HIDE DEF F2
  <2>6. (line \o data) \o F2 = line \o (data \o F2)
    <3>1. line \in Seq(T) /\ data \in Seq(T) /\ F2 \in Seq(T)
      BY <2>1, <2>5
    <3> QED BY <3>1, ConcatTwice
  <2> QED BY <2>3, <2>4, <2>6 DEF head, F1, F2
<1>8. From(m, k) = ((frames[k] \o F)) \o last
  BY <1>6 DEF From, F, last
<1>9. From(m, k + 1) = F \o last
  BY DEF From, F, last
<1>10. From(m, k) = line \o (data \o (end \o From(m, k + 1)))
  BY <1>4, <1>7, <1>8, <1>9
<1> QED BY <1>3, <1>10 DEF line, data, end, T

LEMMA FromLast ==
  ASSUME NEW m \in Messages PROVE From(m, Len(m.chunks) + 2) = TrailerOf(m) \o <<Cr, Lf>>
<1> DEFINE n == Len(m.chunks)
           frames == FramesOf(m)
           All == Seq(Tokens(m))
           last == TrailerOf(m) \o <<Cr, Lf>>
<1>1. n \in Nat /\ frames \in Seq(All) /\ Len(frames) = n + 1
  BY ChunkIs, FramesTyped
<1>2. last \in Seq(Tokens(m))
  <2>1. 1 \in 1..n + 2
    BY <1>1
  <2> QED BY <2>1, FromTyped
<1>3. SubSeq(frames, n + 2, n + 1) = <<>>
  <2> HIDE DEF All, frames, n
  <2>1. SubSeq(frames, n + 2, n + 1) \in Seq(All) /\ Len(SubSeq(frames, n + 2, n + 1)) = 0
    BY <1>1
  <2>2. \A q \in Seq(All) : Len(q) = 0 => q = <<>>
    OBVIOUS
  <2> QED BY <2>1, <2>2
<1>4. <<>> \o last = last
  <2> HIDE DEF last
  <2> QED BY <1>2
<1> QED BY <1>3, <1>4, FlattenEmpty DEF From

LEMMA FromFirst ==
  ASSUME NEW m \in Messages, m.framed PROVE Encoded(m) = From(m, 1)
<1> DEFINE T == Tokens(m)
           All == Seq(T)
           n == Len(m.chunks)
           frames == FramesOf(m)
           front == SubSeq(frames, 1, n)
           ordered == [k \in DOMAIN InOrder(m) |-> frames[InOrder(m)[k]]]
           trailer == TrailerOf(m)
           crlf == <<Cr, Lf>>
<1>1. n \in Nat /\ frames \in Seq(All) /\ Len(frames) = n + 1 /\ DOMAIN m.chunks = 1..n
      /\ trailer \in All
  BY ChunkIs, FramesTyped
<1>2. crlf \in All
  <2>1. 1 \in Numbered(m)
    BY <1>1 DEF Numbered
  <2> QED BY <2>1, PiecesTyped
<1>3. ordered = front
  <2>1. ordered = [k \in 1..n |-> frames[k]]
    BY <1>1 DEF InOrder
  <2> HIDE DEF All, frames, n, ordered
  <2>2. front = [k \in 1..n |-> frames[k]]
    BY <1>1
  <2> QED BY <2>1, <2>2
<1>4. SubSeq(frames, 1, n + 1) = Append(front, frames[n + 1])
  <2> HIDE DEF All, frames, n
  <2>1. n \in 0..Len(frames) - 1
    BY <1>1
  <2> QED BY <1>1, <2>1, OneMoreOf
<1>5. front \in Seq(All) /\ frames[n + 1] \in All
  <2> HIDE DEF All, frames, n
  <2> QED BY <1>1
<1>6. FlattenSeq(SubSeq(frames, 1, n + 1)) = FlattenSeq(front) \o frames[n + 1] /\ FlattenSeq(front) \in All
  <2> DEFINE c == frames[n + 1]
  <2>1. front \in Seq(Seq(T)) /\ c \in Seq(T)
    BY <1>5
  <2> HIDE DEF front, frames, n, T, c
  <2>2. FlattenSeq(Append(front, c)) = FlattenSeq(front) \o c /\ FlattenSeq(front) \in All
    BY <2>1, FlattenAppend, FlattenTyped
  <2> QED BY <1>4, <2>2 DEF c
<1>7. Encoded(m) = ((FlattenSeq(front) \o frames[n + 1]) \o trailer) \o crlf
  <2>1. Framed(m, InOrder(m)) = FlattenSeq(front) \o frames[n + 1]
    BY <1>1, <1>3 DEF Framed, Last
  <2> HIDE DEF front, frames, n, trailer, crlf
  <2> QED BY <2>1 DEF Encoded, trailer, crlf
<1>8. ((FlattenSeq(front) \o frames[n + 1]) \o trailer) \o crlf = (FlattenSeq(front) \o frames[n + 1]) \o (trailer \o crlf)
  <2> DEFINE f == FlattenSeq(front)
             c == frames[n + 1]
  <2>1. f \in Seq(T) /\ c \in Seq(T)
    BY <1>5, <1>6
  <2> HIDE DEF f, c, T
  <2>2. f \o c \in Seq(T)
    BY <2>1, ConcatIs
  <2>3. trailer \in Seq(T) /\ crlf \in Seq(T)
    BY <1>1, <1>2
  <2> HIDE DEF trailer, crlf
  <2>4. ((f \o c) \o trailer) \o crlf = (f \o c) \o (trailer \o crlf)
    BY <2>2, <2>3, ConcatTwice
  <2> QED BY <2>4 DEF f, c
<1> QED BY <1>6, <1>7, <1>8 DEF From

(* What the chunks up to one amount to.                                     *)
LEMMA SentStarts == ASSUME NEW m \in Messages PROVE SentTo(m, 0) = <<>> /\ Sig(m, 0) = <<>>
<1> DEFINE chunks == Append(m.chunks, <<>>)
           All == Seq(Tokens(m))
<1>1. chunks \in Seq(All)
  BY ChunksTyped
<1> HIDE DEF chunks, All
<1>2. SubSeq(chunks, 1, 0) = <<>>
  <2>1. SubSeq(chunks, 1, 0) \in Seq(All) /\ Len(SubSeq(chunks, 1, 0)) = 0
    BY <1>1
  <2>2. \A q \in Seq(All) : Len(q) = 0 => q = <<>>
    OBVIOUS
  <2> QED BY <2>1, <2>2
<1> QED BY <1>2, FlattenEmpty DEF SentTo, Sig, chunks

LEMMA SentOneMore ==
  ASSUME NEW m \in Messages, NEW k \in Numbered(m)
  PROVE  /\ SentTo(m, k) = SentTo(m, k - 1) \o ChunkOf(m, k)
         /\ SentTo(m, k) \in Seq(Tokens(m)) /\ SentTo(m, k - 1) \in Seq(Tokens(m))
         /\ m.signed => Sig(m, k) = Append(Sig(m, k - 1), ChunkOf(m, k))
<1> DEFINE chunks == Append(m.chunks, <<>>)
           T == Tokens(m)
           All == Seq(T)
           n == Len(m.chunks)
           before == SubSeq(chunks, 1, k - 1)
           c == chunks[k]
<1>1. chunks \in Seq(All) /\ n \in Nat /\ Len(chunks) = n + 1 /\ k \in 1..n + 1
  BY ChunksTyped, ChunkIs DEF Numbered
<1>2. before \in Seq(All) /\ c \in All
  <2> HIDE DEF chunks, All, n
  <2> QED BY <1>1
<1>3. SubSeq(chunks, 1, k) = Append(before, c)
  <2> HIDE DEF chunks, All, n
  <2>1. k - 1 \in 0..Len(chunks) - 1 /\ k - 1 + 1 = k
    BY <1>1
  <2>2. SubSeq(chunks, 1, k - 1 + 1) = Append(SubSeq(chunks, 1, k - 1), chunks[k - 1 + 1])
    BY <1>1, <2>1, OneMoreOf
  <2> QED BY <2>1, <2>2
<1>4. /\ FlattenSeq(Append(before, c)) = FlattenSeq(before) \o c
      /\ FlattenSeq(before) \in All /\ FlattenSeq(before) \o c \in All
  <2>1. before \in Seq(Seq(T)) /\ c \in Seq(T)
    BY <1>2
  <2> HIDE DEF before, c, T
  <2>2. FlattenSeq(Append(before, c)) = FlattenSeq(before) \o c /\ FlattenSeq(before) \in Seq(T)
    BY <2>1, FlattenAppend, FlattenTyped
  <2>3. FlattenSeq(before) \o c \in Seq(T)
    BY <2>1, <2>2
  <2> QED BY <2>2, <2>3
<1> QED BY <1>3, <1>4 DEF SentTo, Sig, ChunkOf

LEMMA SentWhole ==
  ASSUME NEW m \in Messages
  PROVE  /\ SentTo(m, Len(m.chunks) + 1) = Content(m) /\ SentTo(m, Len(m.chunks)) = Content(m)
         /\ m.signed => Sig(m, Len(m.chunks) + 1) = Append(m.chunks, <<>>)
<1> DEFINE chunks == Append(m.chunks, <<>>)
           All == Seq(Tokens(m))
           n == Len(m.chunks)
<1>1. /\ chunks \in Seq(All) /\ m.chunks \in Seq(All) /\ n \in Nat /\ Len(chunks) = n + 1
      /\ \A i \in 1..n : chunks[i] = m.chunks[i]
  BY ChunksTyped, ChunkIs
<1>2. SubSeq(chunks, 1, n + 1) = chunks
  <2> HIDE DEF chunks, All, n
  <2> QED BY <1>1
<1>3. SubSeq(chunks, 1, n) = m.chunks
  <2> HIDE DEF chunks, All
  <2>1. SubSeq(chunks, 1, n) \in Seq(All) /\ Len(SubSeq(chunks, 1, n)) = n
        /\ \A i \in 1..n : SubSeq(chunks, 1, n)[i] = m.chunks[i]
    BY <1>1
  <2> QED BY <1>1, <2>1, SameSeq
<1>4. SentTo(m, n) = Content(m)
  BY <1>3 DEF SentTo, Content
<1>5. ChunkOf(m, n + 1) = <<>> /\ n + 1 \in Numbered(m)
  BY <1>1, ChunkIs DEF Numbered
<1>6. SentTo(m, n + 1) = SentTo(m, n) \o <<>>
  <2>1. \A i, j : j \in Numbered(m) /\ i = j - 1 => SentTo(m, j) = SentTo(m, i) \o ChunkOf(m, j)
    BY SentOneMore
  <2> DEFINE j == n + 1
  <2>2. n = j - 1 /\ j \in Numbered(m) /\ ChunkOf(m, j) = <<>>
    BY <1>1, <1>5
  <2> HIDE DEF j, n
  <2>3. SentTo(m, j) = SentTo(m, n) \o ChunkOf(m, j)
    BY <2>1, <2>2
  <2> QED BY <2>2, <2>3 DEF j
<1>7. \A s \in All : s \o <<>> = s
  OBVIOUS
<1>8. Content(m) \in All
  BY ChunksTyped
<1> QED BY <1>2, <1>4, <1>6, <1>7, <1>8 DEF Sig

LEMMA SentWithin ==
  ASSUME NEW m \in Messages, NEW k \in Numbered(m) PROVE Len(SentTo(m, k)) <= Len(Content(m))
<1> DEFINE n == Len(m.chunks)
           T == {j \in Nat : j <= n => Len(SentTo(m, n + 1 - j)) <= Len(Content(m))}
           All == Seq(Tokens(m))
<1>a. n \in Nat
  BY ChunkIs
<1>0. n \in Nat /\ \A s, t \in All : Len(s \o t) = Len(s) + Len(t) /\ Len(s) \in Nat /\ Len(t) \in Nat
  BY ChunkIs
<1>1. 0 \in T
  <2>1. n + 1 - 0 = n + 1
    BY <1>0
  <2>2. Content(m) \in All
    BY ChunksTyped
  <2>3. Len(SentTo(m, n + 1)) = Len(Content(m)) /\ Len(Content(m)) \in Nat
    BY <1>0, <2>2, SentWhole
  <2> QED BY <2>1, <2>3
<1>2. ASSUME NEW j \in T PROVE j + 1 \in T
  <2>0. j \in Nat /\ (j <= n => Len(SentTo(m, n + 1 - j)) <= Len(Content(m)))
    OBVIOUS
  <2>1. ASSUME j + 1 <= n PROVE Len(SentTo(m, n + 1 - (j + 1))) <= Len(Content(m))
    <3> DEFINE i == n + 1 - j
    <3> HIDE DEF T
    <3>1. i \in 1..n + 1 /\ n + 1 - (j + 1) = i - 1 /\ j <= n
      <4>1. j \in Nat
        BY <2>0
      <4> HIDE DEF n
      <4> QED BY <1>a, <2>1, <4>1
    <3>2. Len(SentTo(m, i)) <= Len(Content(m))
      BY <2>0, <3>1
    <3> HIDE DEF i
    <3>3. i \in Numbered(m)
      BY <3>1 DEF Numbered
    <3> HIDE DEF n
    <3>4. SentTo(m, i) = SentTo(m, i - 1) \o ChunkOf(m, i) /\ SentTo(m, i - 1) \in All /\ ChunkOf(m, i) \in All
      BY <3>3, SentOneMore, ChunkIs
    <3> HIDE DEF All
    <3>5. /\ Len(SentTo(m, i)) = Len(SentTo(m, i - 1)) + Len(ChunkOf(m, i))
          /\ Len(SentTo(m, i - 1)) \in Nat /\ Len(ChunkOf(m, i)) \in Nat
      BY <1>0, <3>4
    <3>6. Len(Content(m)) \in Nat
      BY <1>0, ChunksTyped DEF All
    <3>7. Len(SentTo(m, i - 1)) <= Len(Content(m))
      BY <3>2, <3>5, <3>6
    <3> QED BY <3>1, <3>7, Zenon
  <2>2. j + 1 \in Nat
    BY <2>0
  <2> QED BY <2>1, <2>2
<1>3. T = Nat
  <2>1. T \in SUBSET Nat
    OBVIOUS
  <2> HIDE DEF T
  <2> QED BY <1>1, <1>2, <2>1, Induction
<1> DEFINE j == n + 1 - k
<1>4. j \in Nat /\ j <= n /\ n + 1 - j = k
  BY <1>0 DEF Numbered
<1>5. j \in T
  BY <1>3, <1>4
<1> HIDE DEF j
<1> QED BY <1>4, <1>5

-----------------------------------------------------------------------------
(* The lines a client sends.                                                *)
LEMMA LineHead ==
  ASSUME NEW T, buffer \in Seq(T), wire \in Seq(T), Cr \in T, Lf \in T,
         NEW token \in T, token # Cr, NEW r \in Seq(T),
         NEW x \in Seq(T), x = <<token, Cr, Lf>>, buffer \o wire = x \o r
  PROVE  /\ LineEnds # {} => /\ Line = <<token>>
                             /\ SubSeq(buffer, Min(LineEnds) + 2, Len(buffer)) \o wire = r
         /\ LineEnds = {} => Len(buffer) <= 2 /\ wire # <<>>
<1>1. Len(x) = 3 /\ x[1] = token /\ x[2] = Cr /\ x[3] = Lf
  OBVIOUS
<1>2. /\ Len(buffer \o wire) = Len(buffer) + Len(wire) /\ Len(x \o r) = 3 + Len(r)
      /\ Len(buffer) \in Nat /\ Len(wire) \in Nat /\ Len(r) \in Nat
      /\ \A i \in 1..Len(buffer) : (buffer \o wire)[i] = buffer[i]
      /\ \A i \in 1..3 : (x \o r)[i] = x[i]
  <2>1. /\ Len(buffer \o wire) = Len(buffer) + Len(wire) /\ Len(buffer) \in Nat /\ Len(wire) \in Nat
        /\ \A i \in 1..Len(buffer) : (buffer \o wire)[i] = buffer[i]
    BY ConcatIs
  <2>2. Len(x \o r) = Len(x) + Len(r) /\ Len(r) \in Nat /\ \A i \in 1..Len(x) : (x \o r)[i] = x[i]
    BY ConcatIs
  <2> QED BY <1>1, <2>1, <2>2
<1>3. buffer \o wire = x \o r
  OBVIOUS
<1>4. \A i \in 1..3 : i <= Len(buffer) => buffer[i] = x[i]
  BY <1>2, <1>3
<1>5. Cr # Lf
  BY DEF Cr, Lf
<1>6. 1 \notin LineEnds
  BY <1>1, <1>2, <1>4 DEF LineEnds
<1>7. Len(buffer) >= 3 => 2 \in LineEnds
  BY <1>1, <1>2, <1>4 DEF LineEnds
<1>8. LineEnds = {} => Len(buffer) <= 2 /\ wire # <<>>
  <2>1. wire = <<>> => Len(wire) = 0
    OBVIOUS
  <2> QED BY <1>2, <1>3, <1>7, <2>1
<1>9. ASSUME LineEnds # {} PROVE Len(buffer) >= 3 /\ Min(LineEnds) = 2
  <2>1. Min(LineEnds) \in LineEnds /\ \A i \in LineEnds : Min(LineEnds) <= i
    BY <1>9, LineIs
  <2>2. Min(LineEnds) \in 1..Len(buffer) - 1
    BY <2>1 DEF LineEnds
  <2>3. Min(LineEnds) # 1
    BY <1>6, <2>1
  <2> DEFINE low == Min(LineEnds)
  <2> HIDE DEF low
  <2>4. low \in 1..Len(buffer) - 1 /\ low # 1 /\ (2 \in LineEnds => low <= 2)
    BY <2>1, <2>2, <2>3 DEF low
  <2> QED BY <1>2, <1>7, <2>4 DEF low
<1>10. ASSUME LineEnds # {}
       PROVE  Line = <<token>> /\ SubSeq(buffer, Min(LineEnds) + 2, Len(buffer)) \o wire = r
  <2>1. Len(x) <= Len(buffer)
    BY <1>1, <1>9, <1>10
  <2>2. SubSeq(buffer, Len(x) + 1, Len(buffer)) \o wire = r
    <3>1. Begins(T, buffer, wire, x, r)
      BY <2>1 DEF Begins
    <3> QED BY <3>1, TakeHead
  <2>3. Len(Line) = 1 /\ Line \in Seq(T) /\ Line[1] = token
    <3>1. Line \in Seq(T) /\ Len(Line) = Min(LineEnds) - 1 /\ \A i \in 1..Len(Line) : Line[i] = buffer[i]
      BY <1>10, LineIs
    <3>2. Min(LineEnds) = 2 /\ Len(buffer) >= 3
      BY <1>9, <1>10
    <3>3. Len(Line) = 1
      BY <3>1, <3>2
    <3>4. buffer[1] = token
      BY <1>1, <1>2, <1>4, <3>2
    <3>5. 1 \in 1..Len(Line)
      BY <3>3
    <3> QED BY <3>1, <3>3, <3>4, <3>5
  <2>4. Line = <<token>>
    BY <2>3
  <2>5. Min(LineEnds) + 2 = Len(x) + 1
    BY <1>1, <1>9, <1>10
  <2> QED BY <2>2, <2>4, <2>5
<1> QED BY <1>8, <1>10

LEMMA EmptyHead ==
  ASSUME NEW T, buffer \in Seq(T), wire \in Seq(T), Cr \in T, Lf \in T,
         NEW r \in Seq(T),
         NEW x \in Seq(T), x = <<Cr, Lf>>, buffer \o wire = x \o r
  PROVE  /\ LineEnds # {} => /\ Line = <<>>
                             /\ SubSeq(buffer, Min(LineEnds) + 2, Len(buffer)) \o wire = r
         /\ LineEnds = {} => Len(buffer) <= 1 /\ wire # <<>>
<1>1. Len(x) = 2 /\ x[1] = Cr /\ x[2] = Lf
  OBVIOUS
<1>2. /\ Len(buffer \o wire) = Len(buffer) + Len(wire) /\ Len(x \o r) = 2 + Len(r)
      /\ Len(buffer) \in Nat /\ Len(wire) \in Nat /\ Len(r) \in Nat
      /\ \A i \in 1..Len(buffer) : (buffer \o wire)[i] = buffer[i]
      /\ \A i \in 1..2 : (x \o r)[i] = x[i]
  <2>1. /\ Len(buffer \o wire) = Len(buffer) + Len(wire) /\ Len(buffer) \in Nat /\ Len(wire) \in Nat
        /\ \A i \in 1..Len(buffer) : (buffer \o wire)[i] = buffer[i]
    BY ConcatIs
  <2>2. Len(x \o r) = Len(x) + Len(r) /\ Len(r) \in Nat /\ \A i \in 1..Len(x) : (x \o r)[i] = x[i]
    BY ConcatIs
  <2> QED BY <1>1, <2>1, <2>2
<1>3. buffer \o wire = x \o r
  OBVIOUS
<1>4. \A i \in 1..2 : i <= Len(buffer) => buffer[i] = x[i]
  BY <1>2, <1>3
<1>5. Len(buffer) >= 2 => 1 \in LineEnds
  BY <1>1, <1>2, <1>4 DEF LineEnds
<1>6. LineEnds = {} => Len(buffer) <= 1 /\ wire # <<>>
  <2>1. wire = <<>> => Len(wire) = 0
    OBVIOUS
  <2> QED BY <1>2, <1>3, <1>5, <2>1
<1>7. ASSUME LineEnds # {} PROVE Len(buffer) >= 2 /\ Min(LineEnds) = 1
  <2>1. Min(LineEnds) \in LineEnds /\ \A i \in LineEnds : Min(LineEnds) <= i
    BY <1>7, LineIs
  <2>2. Min(LineEnds) \in 1..Len(buffer) - 1
    BY <2>1 DEF LineEnds
  <2> DEFINE low == Min(LineEnds)
  <2> HIDE DEF low
  <2>3. low \in 1..Len(buffer) - 1 /\ (1 \in LineEnds => low <= 1)
    BY <2>1, <2>2 DEF low
  <2> QED BY <1>2, <1>5, <2>3 DEF low
<1>8. ASSUME LineEnds # {}
      PROVE  Line = <<>> /\ SubSeq(buffer, Min(LineEnds) + 2, Len(buffer)) \o wire = r
  <2>1. Len(x) <= Len(buffer)
    BY <1>1, <1>7, <1>8
  <2>2. SubSeq(buffer, Len(x) + 1, Len(buffer)) \o wire = r
    <3>1. Begins(T, buffer, wire, x, r)
      BY <2>1 DEF Begins
    <3> QED BY <3>1, TakeHead
  <2>3. Len(Line) = 0 /\ Line \in Seq(T)
    BY <1>7, <1>8, LineIs
  <2>4. Line = <<>>
    BY <2>3
  <2>5. Min(LineEnds) + 2 = Len(x) + 1
    BY <1>1, <1>7, <1>8
  <2> QED BY <2>2, <2>4, <2>5
<1> QED BY <1>6, <1>8

-----------------------------------------------------------------------------
(* What the decoder has of a body that arrives as it was sent.              *)
Refusable(m) ==
  \/ Len(Content(m)) > MaxBytes
  \/ \E i \in DOMAIN m.chunks : Len(m.chunks[i]) > MaxChunk
  \/ Selected(m) = "crc64nvme"

Trails(m) == m.trailer # ""

Sums(m) == {<<>>, << <<Sum(Content(m))>> >>}

AtFrame(m, k) ==
  /\ buffer \o wire = From(m, k) /\ out = SentTo(m, k - 1) /\ previous = Sig(m, k - 1) /\ trailers = <<>>

AtData(m, k, d) ==
  /\ left = Len(d) /\ chunk \o d = ChunkOf(m, k)
  /\ buffer \o wire = d \o (End(m, k) \o From(m, k + 1))
  /\ presented = Sig(m, k) /\ out = SentTo(m, k - 1) \o chunk /\ previous = Sig(m, k - 1)
  /\ trailers = <<>>

AtGap(m, k) ==
  /\ k <= Len(m.chunks) /\ buffer \o wire = <<Cr, Lf>> \o From(m, k + 1)
  /\ out = SentTo(m, k) /\ previous = Sig(m, k) /\ trailers = <<>>

AtSum(m) == Trails(m) /\ trailers = <<>> /\ buffer \o wire = TrailerOf(m) \o <<Cr, Lf>>

AtSignature(m) ==
  /\ m.signed /\ trailers = << <<Sum(Content(m))>> >>
  /\ buffer \o wire = <<TrailerSignature(Trailed(m)), Cr, Lf>> \o <<Cr, Lf>>

AtLastLine(m) == trailers \in Sums(m) /\ buffer \o wire = <<Cr, Lf>>

AtTrailer(m) ==
  /\ out = Content(m) /\ previous = Sig(m, Len(m.chunks) + 1)
  /\ AtSum(m) \/ AtSignature(m) \/ AtLastLine(m)

Unframed(m) == ~m.framed /\ trailers = <<>> /\ out \o (buffer \o wire) = Content(m)

Undisturbed ==
  intact /\ reading # "idle" =>
    /\ told = ToldBy(message)
    /\ reading = "refused" => Refusable(message)
    /\ reading = "raw" => Unframed(message)
    /\ reading = "frame" => \E k \in Numbered(message) : AtFrame(message, k)
    /\ reading = "data" =>
         \E k \in Numbered(message) : \E d \in Seq(Tokens(message)) : AtData(message, k, d)
    /\ reading = "gap" => \E k \in Numbered(message) : AtGap(message, k)
    /\ reading = "trailer" => AtTrailer(message)
    /\ reading = "verify" => out = Content(message) /\ trailers \in Sums(message)

LEMMA Arrived ==
  ASSUME WireOK, reading # "idle"
  PROVE  /\ message \in Messages /\ left \in Int
         /\ buffer \in Seq(Tokens(message)) /\ wire \in Seq(Tokens(message))
         /\ chunk \in Seq(Tokens(message)) /\ out \in Seq(Tokens(message))
         /\ Cr \in Tokens(message) /\ Lf \in Tokens(message)
  BY DEF WireOK, Tokens

(* The line of a frame.                                                     *)
LEMMA FrameHead ==
  ASSUME WireOK, reading = "frame", NEW k \in Numbered(message), AtFrame(message, k)
  PROVE  /\ LineEnds # {} =>
              /\ Line = <<Frame(Len(ChunkOf(message, k)), Sig(message, k))>>
              /\ SubSeq(buffer, Min(LineEnds) + 2, Len(buffer)) \o wire
                   = ChunkOf(message, k) \o (End(message, k) \o From(message, k + 1))
         /\ LineEnds = {} => Len(buffer) <= 2 /\ wire # <<>>
<1> DEFINE T == Tokens(message)
           token == Frame(Len(ChunkOf(message, k)), Sig(message, k))
           x == <<token, Cr, Lf>>
           last == End(message, k) \o From(message, k + 1)
           r == ChunkOf(message, k) \o last
<1>1. message \in Messages /\ buffer \in Seq(T) /\ wire \in Seq(T) /\ Cr \in T /\ Lf \in T
  BY Arrived
<1>2. x \in Seq(T) /\ End(message, k) \in Seq(T) /\ From(message, k + 1) \in Seq(T) /\ ChunkOf(message, k) \in Seq(T)
  BY <1>1, PiecesTyped, FromUnfolds, ChunkIs
<1>3. token \in T /\ token # Cr
  <2>1. token # Cr
    BY DEF Frame, Cr
  <2>2. x[1] = token
    OBVIOUS
  <2> HIDE DEF token, T
  <2>3. Len(x) = 3 /\ 1 \in 1..3
    OBVIOUS
  <2> HIDE DEF x
  <2>4. x[1] \in T
    <3>1. \A s \in Seq(T) : Len(s) = 3 => s[1] \in T
      OBVIOUS
    <3>2. x \in Seq(T)
      BY <1>2
    <3> QED BY <2>3, <3>1, <3>2
  <2> QED BY <2>1, <2>2, <2>4
<1>4. last \in Seq(T)
  <2> HIDE DEF T
  <2> QED BY <1>2, ConcatIs
<1>5. r \in Seq(T)
  <2> HIDE DEF T, last
  <2> QED BY <1>2, <1>4, ConcatIs
<1>6. buffer \o wire = x \o r
  BY <1>1, FromUnfolds DEF AtFrame
<1>7. x = <<token, Cr, Lf>>
  OBVIOUS
<1> HIDE DEF T, token, x, r
<1>8. /\ LineEnds # {} => Line = <<token>> /\ SubSeq(buffer, Min(LineEnds) + 2, Len(buffer)) \o wire = r
      /\ LineEnds = {} => Len(buffer) <= 2 /\ wire # <<>>
  BY <1>1, <1>2, <1>3, <1>5, <1>6, <1>7, LineHead
<1> QED BY <1>8 DEF token, r

LEMMA FrameStep ==
  ASSUME WireOK, Undisturbed, intact, FrameLine PROVE Undisturbed'
<1>1. /\ reading = "frame" /\ LineEnds # {} /\ message' = message /\ told' = told /\ told = ToldBy(message)
      /\ reading' \in {"data", "refused"}
  BY DEF FrameLine, AtLine, Refuse, Undisturbed
<1>2. PICK k \in Numbered(message) : AtFrame(message, k)
  BY <1>1 DEF Undisturbed
<1> DEFINE c == ChunkOf(message, k)
           T == Tokens(message)
<1>3. Line = <<Frame(Len(c), Sig(message, k))>>
      /\ SubSeq(buffer, Min(LineEnds) + 2, Len(buffer)) \o wire = c \o (End(message, k) \o From(message, k + 1))
  BY <1>1, <1>2, FrameHead
<1>4. /\ message \in Messages /\ c \in Seq(T) /\ Len(c) \in Nat
      /\ k \in 1..Len(message.chunks) + 1 /\ Len(message.chunks) \in Nat
      /\ DOMAIN message.chunks = 1..Len(message.chunks)
      /\ c = <<>> <=> k = Len(message.chunks) + 1
      /\ k <= Len(message.chunks) => c = message.chunks[k]
  <2>1. message \in Messages
    BY <1>1, Arrived
  <2> QED BY <2>1, ChunkIs DEF Numbered
<1>5. Len(Line) = 1 /\ Line[1] = Frame(Len(c), Sig(message, k))
  BY <1>3
<1>6. /\ Line[1].kind = "frame" /\ Line[1].size = Len(c) /\ Line[1].signature = Sig(message, k)
  BY <1>5 DEF Frame
<1>7. CASE ~(Len(c) <= MaxChunk)
  <2>1. k \in DOMAIN message.chunks /\ c = message.chunks[k]
    <3>1. MaxChunk \in Nat /\ (c = <<>> => Len(c) = 0)
      BY BodyParameters
    <3>2. c # <<>>
      BY <1>4, <1>7, <3>1
    <3> HIDE DEF c
    <3> QED BY <1>4, <3>2
  <2>2. Len(message.chunks[k]) > MaxChunk
    BY <1>4, <1>7, <2>1, BodyParameters
  <2>3. Refusable(message)
    BY <2>1, <2>2 DEF Refusable
  <2>4. reading' = "refused"
    BY <1>5, <1>6, <1>7 DEF FrameLine, Refuse
  <2> QED BY <1>1, <2>3, <2>4 DEF Undisturbed
<1>8. CASE Len(c) <= MaxChunk
  <2>1. /\ reading' = "data" /\ left' = Len(c) /\ chunk' = <<>> /\ presented' = Sig(message, k)
        /\ buffer' = SubSeq(buffer, Min(LineEnds) + 2, Len(buffer))
        /\ wire' = wire /\ previous' = previous /\ trailers' = trailers /\ out' = out
    BY <1>5, <1>6, <1>8 DEF FrameLine, TakeLine
  <2>2. <<>> \o c = c /\ out \o <<>> = out
    <3>1. out \in Seq(T)
      BY <1>1, Arrived
    <3>2. \A s \in Seq(T) : <<>> \o s = s /\ s \o <<>> = s
      OBVIOUS
    <3> QED BY <1>4, <3>1, <3>2
  <2>3. PICK d \in Seq(T) : d = c
    BY <1>4
  <2>4. AtData(message, k, d)'
    <3>1. /\ left' = Len(d) /\ chunk' \o d = ChunkOf(message', k) /\ chunk' = <<>>
          /\ buffer' \o wire' = d \o (End(message', k) \o From(message', k + 1))
          /\ presented' = Sig(message', k)
      BY <1>1, <1>3, <2>1, <2>2, <2>3
    <3>2. out' = SentTo(message', k - 1) \o chunk' /\ previous' = Sig(message', k - 1) /\ trailers' = <<>>
      BY <1>1, <1>2, <2>1, <2>2 DEF AtFrame
    <3> QED BY <3>1, <3>2 DEF AtData
  <2> QED BY <1>1, <2>1, <2>4 DEF Undisturbed
<1> QED BY <1>7, <1>8

LEMMA ChunkDataStep ==
  ASSUME WireOK, Undisturbed, intact, ChunkData PROVE Undisturbed'
<1> DEFINE T == Tokens(message)
           n == Taken
           piece == SubSeq(buffer, 1, n)
           rest == SubSeq(buffer, n + 1, Len(buffer))
<1>1. /\ reading = "data" /\ left # 0 /\ buffer # <<>> /\ message' = message /\ told' = told
      /\ told = ToldBy(message) /\ reading' \in {"data", "refused"} /\ wire' = wire
  BY DEF ChunkData, Refuse, Undisturbed
<1>2. PICK k \in Numbered(message), d \in Seq(T) : AtData(message, k, d)
  BY <1>1 DEF Undisturbed
<1> DEFINE c == ChunkOf(message, k)
           last == End(message, k) \o From(message, k + 1)
           before == SentTo(message, k - 1)
<1>3. /\ message \in Messages /\ buffer \in Seq(T) /\ wire \in Seq(T) /\ chunk \in Seq(T) /\ left \in Int
  BY <1>1, Arrived
<1>4. /\ c \in Seq(T) /\ before \in Seq(T) /\ SentTo(message, k) = before \o c
      /\ End(message, k) \in Seq(T) /\ From(message, k + 1) \in Seq(T)
      /\ Len(SentTo(message, k)) <= Len(Content(message)) /\ Content(message) \in Seq(T)
  BY <1>3, ChunkIs, SentOneMore, SentWithin, PiecesTyped, FromUnfolds, ChunksTyped
<1>5. last \in Seq(T)
  <2> HIDE DEF T
  <2> QED BY <1>4, ConcatIs
<1>6. left = Len(d) /\ chunk \o d = c /\ buffer \o wire = d \o last /\ out = before \o chunk
  BY <1>2 DEF AtData
<1>7. n \in Nat /\ n <= Len(d) /\ n <= Len(buffer) /\ Len(buffer) \in Nat
  <2>1. /\ n \in Nat /\ n <= Len(buffer) /\ Len(buffer) \in Nat
        /\ left > 0 => n <= left
    BY <1>3, TakenIs
  <2>2. Len(d) \in Nat
    OBVIOUS
  <2> HIDE DEF n
  <2>3. left > 0
    BY <1>1, <1>6, <2>2
  <2> QED BY <1>6, <2>1, <2>3
<1> DEFINE x == SubSeq(d, 1, n)
           y == SubSeq(d, n + 1, Len(d))
<1>8. x \in Seq(T) /\ y \in Seq(T) /\ Len(x) = n /\ Len(y) = Len(d) - n /\ x \o y = d
  <2> HIDE DEF n, T
  <2>1. n \in 0..Len(d)
    BY <1>7
  <2> QED BY <2>1, Rejoin
<1> HIDE DEF x, y, last, before, c, T
<1>9. (x \o y) \o last = x \o (y \o last) /\ y \o last \in Seq(T)
  <2>1. x \in Seq(T) /\ y \in Seq(T) /\ last \in Seq(T)
    BY <1>5, <1>8
  <2>2. (x \o y) \o last = x \o (y \o last)
    BY <2>1, ConcatTwice
  <2>3. y \in Seq(T) /\ last \in Seq(T)
    BY <2>1
  <2>4. y \o last \in Seq(T)
    BY <2>3, ConcatIs
  <2> QED BY <2>2, <2>4
<1> DEFINE r == y \o last
<1>10. piece = x /\ rest \o wire = r
  <2>1. Begins(T, buffer, wire, x, r)
    <3> HIDE DEF n
    <3>1. buffer \o wire = x \o r
      BY <1>6, <1>8, <1>9
    <3>2. Len(x) <= Len(buffer)
      BY <1>7, <1>8
    <3> QED BY <1>3, <1>8, <1>9, <3>1, <3>2 DEF Begins
  <2>2. SubSeq(buffer, 1, Len(x)) = x /\ SubSeq(buffer, Len(x) + 1, Len(buffer)) \o wire = r
    <3> HIDE DEF r
    <3> QED BY <2>1, TakeHead
  <2> HIDE DEF n, r
  <2> QED BY <1>8, <2>2
<1>11. Len(out) + Len(piece) <= Len(Content(message))
  <2>1. /\ Len(before \o c) = Len(before) + Len(c) /\ Len(before \o chunk) = Len(before) + Len(chunk)
        /\ Len(before) \in Nat /\ Len(c) \in Nat /\ Len(chunk) \in Nat /\ Len(d) \in Nat
    BY <1>3, <1>4
  <2>2. Len(chunk \o d) = Len(chunk) + Len(d)
    BY <1>3 DEF T
  <2>3. Len(before) + Len(chunk) + Len(d) <= Len(Content(message))
    BY <1>4, <1>6, <2>1, <2>2
  <2>4. Len(out) = Len(before) + Len(chunk)
    BY <1>6, <2>1
  <2>5. Len(piece) = n
    BY <1>8, <1>10
  <2>6. Len(Content(message)) \in Nat
    BY <1>4
  <2> DEFINE u == Len(before)
             v == Len(chunk)
             z == Len(d)
             total == Len(Content(message))
  <2> HIDE DEF n, u, v, z, total, piece
  <2>7. u + v + z <= total /\ n <= z /\ u \in Nat /\ v \in Nat /\ z \in Nat /\ n \in Nat /\ total \in Nat
    BY <1>7, <2>1, <2>3, <2>6 DEF u, v, z, total
  <2>8. u + v + n <= total
    BY <2>7
  <2> QED BY <2>4, <2>5, <2>8 DEF u, v, z, total
<1> HIDE DEF n
<1>12. CASE ~Fits(piece)
  <2>1. ~(Len(out) + Len(piece) <= MaxBytes)
    BY <1>12 DEF Fits
  <2> HIDE DEF piece
  <2>2. Len(Content(message)) > MaxBytes
    <3>1. Len(Content(message)) \in Nat /\ MaxBytes \in Nat
      BY <1>4, BodyParameters
    <3>2. Len(out) \in Nat /\ Len(piece) \in Nat
      <4>1. out \in Seq(T) /\ \A s \in Seq(T) : Len(s) \in Nat
        BY <1>1, Arrived DEF T
      <4> QED BY <1>8, <1>10, <4>1
    <3> QED BY <1>11, <2>1, <3>1, <3>2
  <2>3. reading' = "refused"
    BY <1>12 DEF ChunkData, Refuse, piece, n
  <2>4. Refusable(message)
    BY <2>2 DEF Refusable
  <2> QED BY <1>1, <2>3, <2>4 DEF Undisturbed
<1>13. CASE Fits(piece)
  <2>1. /\ out' = out \o piece /\ chunk' = chunk \o piece /\ left' = left - n
        /\ buffer' = rest /\ reading' = "data" /\ presented' = presented
        /\ previous' = previous /\ trailers' = trailers
    BY <1>1, <1>13 DEF ChunkData, n
  <2> HIDE DEF piece, rest
  <2>2. chunk' \o y = c /\ out' = before \o chunk'
    <3>1. chunk \in Seq(T) /\ x \in Seq(T) /\ y \in Seq(T)
      BY <1>3, <1>8
    <3>2. (chunk \o x) \o y = chunk \o (x \o y)
      BY <3>1, ConcatTwice
    <3>3. before \in Seq(T) /\ chunk \in Seq(T) /\ x \in Seq(T)
      BY <1>4, <3>1
    <3>4. (before \o chunk) \o x = before \o (chunk \o x)
      BY <3>3, ConcatTwice
    <3> QED BY <1>6, <1>8, <1>10, <2>1, <3>2, <3>4
  <2>3. left' = Len(y) /\ buffer' \o wire' = y \o last
    BY <1>1, <1>6, <1>8, <1>10, <2>1
  <2>4. PICK e \in Seq(T) : e = y
    BY <1>8
  <2>5. AtData(message, k, e)'
    <3>1. /\ left' = Len(e) /\ chunk' \o e = ChunkOf(message', k)
          /\ buffer' \o wire' = e \o (End(message', k) \o From(message', k + 1))
          /\ out' = SentTo(message', k - 1) \o chunk'
      BY <1>1, <2>2, <2>3, <2>4 DEF c, last, before
    <3>2. presented' = Sig(message', k) /\ previous' = Sig(message', k - 1) /\ trailers' = <<>>
      BY <1>1, <1>2, <2>1 DEF AtData
    <3> QED BY <3>1, <3>2 DEF AtData
  <2> QED BY <1>1, <2>1, <2>5 DEF Undisturbed, T
<1> QED BY <1>12, <1>13

LEMMA ChunkEndStep ==
  ASSUME WireOK, Undisturbed, intact, ChunkEnd PROVE Undisturbed'
<1> DEFINE T == Tokens(message)
           n == Len(message.chunks)
<1>1. /\ reading = "data" /\ left = 0 /\ message' = message /\ told' = told /\ told = ToldBy(message)
  BY DEF ChunkEnd, Refuse, Undisturbed
<1>2. PICK k \in Numbered(message), d \in Seq(T) : AtData(message, k, d)
  BY <1>1 DEF Undisturbed
<1> DEFINE c == ChunkOf(message, k)
<1>3. message \in Messages /\ chunk \in Seq(T) /\ out \in Seq(T) /\ told.signed = message.signed
  BY <1>1, Arrived DEF ToldBy
<1>4. d = <<>> /\ chunk \o d = c /\ buffer \o wire = d \o (End(message, k) \o From(message, k + 1))
  <2>1. Len(d) = 0 /\ \A s \in Seq(T) : Len(s) = 0 => s = <<>>
    BY <1>1, <1>2 DEF AtData
  <2> QED BY <1>2, <2>1 DEF AtData
<1>5. \A s \in Seq(T) : <<>> \o s = s /\ s \o <<>> = s
  OBVIOUS
<1>6. /\ End(message, k) \in Seq(T) /\ From(message, k + 1) \in Seq(T)
      /\ n \in Nat /\ k \in 1..n + 1 /\ (c = <<>> <=> k = n + 1)
  BY <1>3, PiecesTyped, FromUnfolds, ChunkIs DEF Numbered
<1> DEFINE after == End(message, k) \o From(message, k + 1)
<1>7. after \in Seq(T)
  <2> HIDE DEF T
  <2> QED BY <1>6, ConcatIs
<1>8. chunk = c /\ buffer \o wire = after
  <2> HIDE DEF after, T, c
  <2> QED BY <1>3, <1>4, <1>5, <1>7 DEF after
<1>9. /\ out = SentTo(message, k) /\ presented = Sig(message, k) /\ trailers = <<>> /\ previous = Sig(message, k - 1)
  BY <1>2, <1>3, <1>8, SentOneMore DEF AtData
<1>10. ChunkSigned
  BY <1>3, <1>8, <1>9, SentOneMore DEF ChunkSigned, Chained
<1>11. /\ previous' = Sig(message, k) /\ out' = out /\ trailers' = trailers /\ buffer' = buffer /\ wire' = wire
       /\ reading' = IF chunk = <<>> THEN "trailer" ELSE "gap"
  <2>1. ~message.signed => Sig(message, k) = <<>> /\ Sig(message, k - 1) = <<>>
    BY DEF Sig
  <2>2. previous' = IF told.signed THEN presented ELSE previous
    BY <1>10 DEF ChunkEnd
  <2>3. previous' = Sig(message, k)
    BY <1>3, <1>9, <2>1, <2>2
  <2> QED BY <1>10, <2>3 DEF ChunkEnd
<1>12. CASE chunk = <<>>
  <2>1. k = n + 1
    BY <1>6, <1>8, <1>12
  <2>2. out = Content(message) /\ previous' = Sig(message, n + 1)
    BY <1>3, <1>9, <1>11, <2>1, SentWhole
  <2>3. buffer \o wire = TrailerOf(message) \o <<Cr, Lf>>
    <3>1. End(message, k) = <<>>
      BY <1>8, <1>12 DEF End
    <3>2. From(message, k + 1) = TrailerOf(message) \o <<Cr, Lf>>
      <4>1. k + 1 = Len(message.chunks) + 2
        BY <1>6, <2>1
      <4> QED BY <1>3, <4>1, FromLast
    <3>3. after = From(message, k + 1)
      <4> DEFINE from == From(message, k + 1)
      <4>1. from \in Seq(T)
        BY <1>6
      <4> HIDE DEF from, T
      <4> QED BY <1>5, <3>1, <4>1 DEF from
    <3> QED BY <1>8, <3>2, <3>3
  <2>4. AtSum(message) \/ AtLastLine(message)
    <3>1. CASE Trails(message)
      BY <1>9, <2>3, <3>1 DEF AtSum
    <3>2. CASE ~Trails(message)
      <4>1. TrailerOf(message) = <<>>
        BY <3>2 DEF TrailerOf, Trails
      <4>2. <<>> \o <<Cr, Lf>> = <<Cr, Lf>>
        OBVIOUS
      <4> QED BY <1>9, <2>3, <4>1, <4>2 DEF AtLastLine, Sums
    <3> QED BY <3>1, <3>2
  <2>5. AtSum(message)' \/ AtLastLine(message)'
    BY <1>1, <1>11, <2>4 DEF AtSum, AtLastLine
  <2>6. AtTrailer(message)'
    BY <1>1, <1>11, <2>2, <2>5 DEF AtTrailer
  <2> QED BY <1>1, <1>11, <1>12, <2>6 DEF Undisturbed
<1>13. CASE chunk # <<>>
  <2>1. k <= n
    BY <1>6, <1>8, <1>13
  <2>2. End(message, k) = <<Cr, Lf>>
    BY <1>8, <1>13 DEF End
  <2>3. AtGap(message, k)'
    BY <1>1, <1>8, <1>9, <1>11, <2>1, <2>2 DEF AtGap
  <2> QED BY <1>1, <1>2, <1>11, <1>13, <2>3 DEF Undisturbed
<1> QED BY <1>12, <1>13

LEMMA GapHead ==
  ASSUME WireOK, reading = "gap", NEW k \in Numbered(message), AtGap(message, k)
  PROVE  /\ LineEnds # {} =>
              Line = <<>> /\ SubSeq(buffer, Min(LineEnds) + 2, Len(buffer)) \o wire = From(message, k + 1)
         /\ LineEnds = {} => Len(buffer) <= 2 /\ wire # <<>>
<1> DEFINE T == Tokens(message)
           x == <<Cr, Lf>>
           r == From(message, k + 1)
<1>1. message \in Messages /\ buffer \in Seq(T) /\ wire \in Seq(T) /\ Cr \in T /\ Lf \in T
  BY Arrived
<1>2. x \in Seq(T) /\ r \in Seq(T)
  BY <1>1, PiecesTyped, FromUnfolds
<1>3. buffer \o wire = x \o r
  BY DEF AtGap
<1>4. x = <<Cr, Lf>>
  OBVIOUS
<1>5. Len(buffer) \in Nat
  BY <1>1
<1> HIDE DEF T, x, r
<1>6. /\ LineEnds # {} => Line = <<>> /\ SubSeq(buffer, Min(LineEnds) + 2, Len(buffer)) \o wire = r
      /\ LineEnds = {} => Len(buffer) <= 1 /\ wire # <<>>
  BY <1>1, <1>2, <1>3, <1>4, EmptyHead
<1>7. LineEnds = {} => Len(buffer) <= 2 /\ wire # <<>>
  <2> DEFINE length == Len(buffer)
  <2>1. length \in Nat /\ (LineEnds = {} => length <= 1 /\ wire # <<>>)
    BY <1>5, <1>6
  <2> HIDE DEF length
  <2>2. LineEnds = {} => length <= 2 /\ wire # <<>>
    BY <2>1
  <2> QED BY <2>2 DEF length
<1> QED BY <1>6, <1>7 DEF r

LEMMA GapStep ==
  ASSUME WireOK, Undisturbed, intact, Gap PROVE Undisturbed'
<1>1. /\ reading = "gap" /\ LineEnds # {} /\ message' = message /\ told' = told /\ told = ToldBy(message)
  BY DEF Gap, AtLine, Refuse, Undisturbed
<1>2. PICK k \in Numbered(message) : AtGap(message, k)
  BY <1>1 DEF Undisturbed
<1>3. Line = <<>> /\ SubSeq(buffer, Min(LineEnds) + 2, Len(buffer)) \o wire = From(message, k + 1)
  BY <1>1, <1>2, GapHead
<1>4. /\ reading' = "frame" /\ buffer' = SubSeq(buffer, Min(LineEnds) + 2, Len(buffer)) /\ wire' = wire
      /\ previous' = previous /\ trailers' = trailers /\ out' = out
  BY <1>3 DEF Gap, TakeLine
<1>5. k + 1 \in Numbered(message) /\ k + 1 - 1 = k
  <2>1. message \in Messages
    BY <1>1, Arrived
  <2>2. Len(message.chunks) \in Nat /\ k <= Len(message.chunks)
    BY <1>2, <2>1, ChunkIs DEF AtGap
  <2> QED BY <2>2 DEF Numbered
<1>6. PICK j \in Numbered(message) : j = k + 1
  BY <1>5
<1>7. j - 1 = k
  BY <1>5, <1>6
<1>8. AtFrame(message, j)'
  BY <1>1, <1>2, <1>3, <1>4, <1>6, <1>7 DEF AtFrame, AtGap
<1> QED BY <1>1, <1>4, <1>8 DEF Undisturbed

(* The lines of the trailer.                                                *)
LEMMA TrailerTyped ==
  ASSUME NEW m \in Messages
  PROVE  /\ Sum(Content(m)) \in Tokens(m) /\ TrailerSignature(Trailed(m)) \in Tokens(m)
         /\ Cr \in Tokens(m) /\ Lf \in Tokens(m)
         /\ <<Sum(Content(m)), Cr, Lf>> \in Seq(Tokens(m))
         /\ <<TrailerSignature(Trailed(m)), Cr, Lf>> \in Seq(Tokens(m))
         /\ <<Cr, Lf>> \in Seq(Tokens(m)) /\ <<>> \in Seq(Tokens(m))
<1> DEFINE T == Tokens(m)
           sum == Sum(Content(m))
           signature == TrailerSignature(Trailed(m))
<1>1. Cr \in T /\ Lf \in T /\ sum \in T /\ signature \in T
  BY DEF Tokens
<1> HIDE DEF T, sum, signature
<1>2. <<sum, Cr, Lf>> \in Seq(T) /\ <<signature, Cr, Lf>> \in Seq(T) /\ <<Cr, Lf>> \in Seq(T) /\ <<>> \in Seq(T)
  BY <1>1
<1> QED BY <1>1, <1>2 DEF T, sum, signature

AfterSum(m) == IF m.signed THEN <<TrailerSignature(Trailed(m)), Cr, Lf>> \o <<Cr, Lf>> ELSE <<Cr, Lf>>

LEMMA SumUnfolds ==
  ASSUME NEW m \in Messages, Trails(m)
  PROVE  /\ TrailerOf(m) \o <<Cr, Lf>> = <<Sum(Content(m)), Cr, Lf>> \o AfterSum(m)
         /\ AfterSum(m) \in Seq(Tokens(m))
<1> DEFINE T == Tokens(m)
           sum == Sum(Content(m))
           signature == TrailerSignature(Trailed(m))
           x == <<sum, Cr, Lf>>
           end == <<Cr, Lf>>
           y == <<signature, Cr, Lf>>
           z == IF m.signed THEN y ELSE <<>>
<1>1. x \in Seq(T) /\ y \in Seq(T) /\ end \in Seq(T) /\ <<>> \in Seq(T)
  BY TrailerTyped
<1>2. TrailerOf(m) = (<<sum>> \o end) \o z
  BY DEF TrailerOf, Trailed, Trails
<1>3. <<sum>> \o end = x
  <2>1. sum \in T /\ Cr \in T /\ Lf \in T
    BY TrailerTyped
  <2> HIDE DEF sum, T
  <2>2. <<sum>> \in Seq(T) /\ Len(<<sum>>) = 1 /\ <<sum>>[1] = sum
    BY <2>1
  <2>3. end \in Seq(T) /\ Len(end) = 2 /\ end[1] = Cr /\ end[2] = Lf
    BY <2>1
  <2>4. x \in Seq(T) /\ Len(x) = 3 /\ x[1] = sum /\ x[2] = Cr /\ x[3] = Lf
    BY <2>1
  <2> DEFINE s == <<sum>>
  <2> HIDE DEF s, end, x
  <2>5. s \in Seq(T) /\ Len(s) = 1 /\ s[1] = sum
    BY <2>2 DEF s
  <2>6. /\ s \o end \in Seq(T) /\ Len(s \o end) = 3
        /\ (s \o end)[1] = sum /\ (s \o end)[2] = Cr /\ (s \o end)[3] = Lf
    <3>1. /\ s \o end \in Seq(T) /\ Len(s \o end) = Len(s) + Len(end)
          /\ \A i \in 1..Len(s) : (s \o end)[i] = s[i]
          /\ \A i \in 1..Len(end) : (s \o end)[Len(s) + i] = end[i]
      <4>1. s \in Seq(T) /\ end \in Seq(T)
        BY <2>3, <2>5
      <4> QED BY <4>1, ConcatIs
    <3>2. 1 \in 1..Len(s) /\ 1 \in 1..Len(end) /\ 2 \in 1..Len(end) /\ Len(s) + 1 = 2 /\ Len(s) + 2 = 3
      BY <2>3, <2>5
    <3>3. (s \o end)[Len(s) + 1] = Cr /\ (s \o end)[Len(s) + 2] = Lf /\ (s \o end)[1] = sum
      BY <2>3, <2>5, <3>1, <3>2
    <3> QED BY <2>3, <2>5, <3>1, <3>2, <3>3
  <2>7. s \o end = x
    BY <2>4, <2>6, SameSeq
  <2> QED BY <2>7 DEF s
<1> HIDE DEF T, x, end, y
<1>4. (x \o z) \o end = x \o (z \o end)
  <2>1. z \in Seq(T)
    BY <1>1
  <2> HIDE DEF z
  <2>2. x \in Seq(T) /\ end \in Seq(T)
    BY <1>1
  <2> QED BY <2>1, <2>2, ConcatTwice
<1>5. z \o end = (IF m.signed THEN y \o end ELSE end) /\ z \o end \in Seq(T)
  <2>1. <<>> \o end = end /\ y \o end \in Seq(T)
    BY <1>1
  <2> QED BY <1>1, <2>1
<1>6. AfterSum(m) = IF m.signed THEN y \o end ELSE end
  BY DEF AfterSum, y, end, signature
<1> QED BY <1>2, <1>3, <1>4, <1>5, <1>6 DEF T, x, end

LEMMA SumHead ==
  ASSUME WireOK, reading = "trailer", AtSum(message)
  PROVE  /\ LineEnds # {} =>
              /\ Line = <<Sum(Content(message))>>
              /\ SubSeq(buffer, Min(LineEnds) + 2, Len(buffer)) \o wire = AfterSum(message)
         /\ LineEnds = {} => Len(buffer) <= 2 /\ wire # <<>>
<1> DEFINE T == Tokens(message)
           token == Sum(Content(message))
           x == <<token, Cr, Lf>>
           r == AfterSum(message)
<1>1. message \in Messages /\ buffer \in Seq(T) /\ wire \in Seq(T) /\ Cr \in T /\ Lf \in T
  BY Arrived
<1>2. x \in Seq(T) /\ token \in T
  BY <1>1, TrailerTyped
<1>3. r \in Seq(T) /\ buffer \o wire = x \o r
  BY <1>1, SumUnfolds DEF AtSum
<1>4. token # Cr
  BY DEF Sum, Cr
<1>5. x = <<token, Cr, Lf>>
  OBVIOUS
<1> HIDE DEF T, token, x, r
<1>6. /\ LineEnds # {} => Line = <<token>> /\ SubSeq(buffer, Min(LineEnds) + 2, Len(buffer)) \o wire = r
      /\ LineEnds = {} => Len(buffer) <= 2 /\ wire # <<>>
  BY <1>1, <1>2, <1>3, <1>4, <1>5, LineHead
<1> QED BY <1>6 DEF token, r

LEMMA SignatureHead ==
  ASSUME WireOK, reading = "trailer", AtSignature(message)
  PROVE  /\ LineEnds # {} =>
              /\ Line = <<TrailerSignature(Trailed(message))>>
              /\ SubSeq(buffer, Min(LineEnds) + 2, Len(buffer)) \o wire = <<Cr, Lf>>
         /\ LineEnds = {} => Len(buffer) <= 2 /\ wire # <<>>
<1> DEFINE T == Tokens(message)
           token == TrailerSignature(Trailed(message))
           x == <<token, Cr, Lf>>
           r == <<Cr, Lf>>
<1>1. message \in Messages /\ buffer \in Seq(T) /\ wire \in Seq(T) /\ Cr \in T /\ Lf \in T
  BY Arrived
<1>2. x \in Seq(T) /\ r \in Seq(T) /\ token \in T
  BY <1>1, TrailerTyped
<1>3. buffer \o wire = x \o r
  BY DEF AtSignature
<1>4. token # Cr
  BY DEF TrailerSignature, Cr
<1>5. x = <<token, Cr, Lf>>
  OBVIOUS
<1> HIDE DEF T, token, x, r
<1>6. /\ LineEnds # {} => Line = <<token>> /\ SubSeq(buffer, Min(LineEnds) + 2, Len(buffer)) \o wire = r
      /\ LineEnds = {} => Len(buffer) <= 2 /\ wire # <<>>
  BY <1>1, <1>2, <1>3, <1>4, <1>5, LineHead
<1> QED BY <1>6 DEF token, r

LEMMA LastHead ==
  ASSUME WireOK, reading = "trailer", AtLastLine(message)
  PROVE  /\ LineEnds # {} => Line = <<>>
         /\ LineEnds = {} => Len(buffer) <= 2 /\ wire # <<>>
<1> DEFINE T == Tokens(message)
           x == <<Cr, Lf>>
           r == <<>>
<1>1. message \in Messages /\ buffer \in Seq(T) /\ wire \in Seq(T) /\ Cr \in T /\ Lf \in T /\ Len(buffer) \in Nat
  BY Arrived
<1>2. x \in Seq(T) /\ r \in Seq(T) /\ x \o r = x
  BY <1>1, TrailerTyped
<1>3. buffer \o wire = x \o r
  BY <1>2 DEF AtLastLine
<1>4. x = <<Cr, Lf>>
  OBVIOUS
<1> HIDE DEF T, x, r
<1>5. /\ LineEnds # {} => Line = <<>> /\ SubSeq(buffer, Min(LineEnds) + 2, Len(buffer)) \o wire = r
      /\ LineEnds = {} => Len(buffer) <= 1 /\ wire # <<>>
  BY <1>1, <1>2, <1>3, <1>4, EmptyHead
<1> DEFINE length == Len(buffer)
<1>6. length \in Nat /\ (LineEnds = {} => length <= 1 /\ wire # <<>>)
  BY <1>1, <1>5
<1> HIDE DEF length
<1>7. LineEnds = {} => length <= 2 /\ wire # <<>>
  BY <1>6
<1> QED BY <1>5, <1>7 DEF length

LEMMA TrailerStep ==
  ASSUME WireOK, Undisturbed, intact, Trailer PROVE Undisturbed'
<1> DEFINE sum == <<Sum(Content(message))>>
<1>1. /\ reading = "trailer" /\ LineEnds # {} /\ message' = message /\ told' = told /\ told = ToldBy(message)
      /\ out = Content(message) /\ previous = Sig(message, Len(message.chunks) + 1)
      /\ AtSum(message) \/ AtSignature(message) \/ AtLastLine(message)
  BY DEF Trailer, AtLine, Refuse, Undisturbed, AtTrailer
<1>2. message \in Messages
  BY <1>1, Arrived
<1>3. CASE AtSum(message)
  <2>1. Line = sum /\ SubSeq(buffer, Min(LineEnds) + 2, Len(buffer)) \o wire = AfterSum(message)
    BY <1>1, <1>3, SumHead
  <2>2. Len(Line) = 1 /\ Line[1].kind = "sum" /\ Line # <<>>
    BY <2>1 DEF Sum
  <2>3. /\ reading' = "trailer" /\ trailers' = Append(trailers, Line) /\ out' = out /\ previous' = previous
        /\ buffer' = SubSeq(buffer, Min(LineEnds) + 2, Len(buffer)) /\ wire' = wire
    BY <2>2 DEF Trailer, TakeLine
  <2>4. trailers' = <<sum>>
    BY <1>3, <2>1, <2>3 DEF AtSum
  <2> HIDE DEF sum
  <2>5. AtSignature(message)' \/ AtLastLine(message)'
    <3>1. CASE message.signed
      BY <1>1, <2>1, <2>3, <2>4, <3>1 DEF AtSignature, AfterSum, sum
    <3>2. CASE ~message.signed
      BY <1>1, <2>1, <2>3, <2>4, <3>2 DEF AtLastLine, Sums, AfterSum, sum
    <3> QED BY <3>1, <3>2
  <2>6. AtTrailer(message)'
    BY <1>1, <2>3, <2>5 DEF AtTrailer
  <2> QED BY <1>1, <2>3, <2>6 DEF Undisturbed
<1>4. CASE AtSignature(message)
  <2>1. /\ Line = <<TrailerSignature(Trailed(message))>>
        /\ SubSeq(buffer, Min(LineEnds) + 2, Len(buffer)) \o wire = <<Cr, Lf>>
    BY <1>1, <1>4, SignatureHead
  <2>2. Len(Line) = 1 /\ Line[1].kind = "signature" /\ Line # <<>> /\ Line[1].signature = Trailed(message)
    BY <2>1 DEF TrailerSignature
  <2>3. Trailed(message) = Chained(previous, FlattenSeq(trailers))
    <3>1. FlattenSeq(<<sum>>) = sum
      <4>1. Len(<<sum>>) = 1 /\ <<sum>>[1] = sum
        OBVIOUS
      <4> HIDE DEF sum
      <4> DEFINE t == <<sum>>
      <4>2. Len(t) = 1 /\ t[1] = sum
        BY <4>1
      <4> HIDE DEF t
      <4>3. PICK n \in Nat \ {0} : n = 1
        OBVIOUS
      <4>4. Len(t) = n /\ t[n] = sum
        BY <4>2, <4>3
      <4>5. FlattenSeq(t) = t[n]
        BY <4>3, <4>4, FlattenOne
      <4> QED BY <4>4, <4>5 DEF t
    <3>2. previous = Append(message.chunks, <<>>)
      BY <1>1, <1>2, <1>4, SentWhole DEF AtSignature
    <3> QED BY <1>4, <3>1, <3>2 DEF AtSignature, Trailed
  <2>4. /\ reading' = "trailer" /\ trailers' = trailers /\ out' = out /\ previous' = previous
        /\ buffer' = SubSeq(buffer, Min(LineEnds) + 2, Len(buffer)) /\ wire' = wire
    BY <2>2, <2>3 DEF Trailer, TakeLine
  <2>5. AtLastLine(message)'
    BY <1>1, <1>4, <2>1, <2>4 DEF AtLastLine, AtSignature, Sums
  <2>6. AtTrailer(message)'
    BY <1>1, <2>4, <2>5 DEF AtTrailer
  <2> QED BY <1>1, <2>4, <2>6 DEF Undisturbed
<1>5. CASE AtLastLine(message)
  <2>1. Line = <<>> /\ Len(Line) = 0
    BY <1>1, <1>5, LastHead
  <2>2. reading' = "verify" /\ trailers' = trailers /\ out' = out
    BY <2>1 DEF Trailer
  <2> QED BY <1>1, <1>5, <2>2 DEF Undisturbed, AtLastLine, Sums
<1> QED BY <1>1, <1>3, <1>4, <1>5

(* Bodies without framing.                                                  *)
LEMMA RawStep ==
  ASSUME WireOK, Undisturbed, intact, RawData PROVE Undisturbed'
<1> DEFINE T == Tokens(message)
<1>1. /\ reading = "raw" /\ message' = message /\ told' = told /\ told = ToldBy(message)
      /\ ~message.framed /\ trailers = <<>> /\ out \o (buffer \o wire) = Content(message)
  BY DEF RawData, Refuse, Undisturbed, Unframed
<1>2. /\ message \in Messages /\ out \in Seq(T) /\ buffer \in Seq(T) /\ wire \in Seq(T)
  BY <1>1, Arrived
<1>3. CASE ~Fits(buffer)
  <2>1. buffer \o wire \in Seq(T) /\ Len(buffer \o wire) = Len(buffer) + Len(wire)
        /\ Len(buffer) \in Nat /\ Len(wire) \in Nat
    <3> HIDE DEF T
    <3> QED BY <1>2, ConcatIs
  <2> DEFINE rest == buffer \o wire
  <2>2. rest \in Seq(T) /\ out \in Seq(T)
    BY <1>2, <2>1
  <2> HIDE DEF T
  <2>3. Len(out \o rest) = Len(out) + Len(rest) /\ Len(out) \in Nat /\ Len(rest) \in Nat
    <3> HIDE DEF rest
    <3> QED BY <2>2, ConcatIs
  <2>4. ~(Len(out) + Len(buffer) <= MaxBytes)
    BY <1>3 DEF Fits
  <2>5. Len(Content(message)) = Len(out) + (Len(buffer) + Len(wire))
    BY <1>1, <2>1, <2>3
  <2> DEFINE u == Len(out)
             v == Len(buffer)
             z == Len(wire)
             total == Len(Content(message))
  <2> HIDE DEF u, v, z, total, rest
  <2>6. u \in Nat /\ v \in Nat /\ z \in Nat /\ total = u + (v + z) /\ ~(u + v <= MaxBytes) /\ MaxBytes \in Nat
    BY <2>1, <2>3, <2>4, <2>5, BodyParameters DEF u, v, z, total
  <2>7. total > MaxBytes
    BY <2>6
  <2>8. Refusable(message)
    BY <2>7 DEF Refusable, total
  <2>9. reading' = "refused"
    BY <1>3 DEF RawData, Refuse
  <2> QED BY <1>1, <2>8, <2>9 DEF Undisturbed
<1>4. CASE Fits(buffer)
  <2>1. out' = out \o buffer /\ buffer' = <<>> /\ wire' = wire /\ reading' = "raw" /\ trailers' = trailers
    BY <1>1, <1>4 DEF RawData
  <2> HIDE DEF T
  <2>2. (out \o buffer) \o wire = out \o (buffer \o wire)
    BY <1>2, ConcatTwice
  <2>3. <<>> \o wire = wire
    BY <1>2
  <2>4. Unframed(message)'
    BY <1>1, <2>1, <2>2, <2>3 DEF Unframed
  <2> QED BY <1>1, <2>1, <2>4 DEF Undisturbed
<1> QED BY <1>3, <1>4

LEMMA RawEndStep ==
  ASSUME WireOK, Undisturbed, intact, RawEnd PROVE Undisturbed'
<1>1. /\ reading = "raw" /\ message' = message /\ told' = told /\ told = ToldBy(message)
      /\ trailers = <<>> /\ out \o (buffer \o wire) = Content(message)
      /\ buffer = <<>> /\ wire = <<>> /\ reading' = "verify" /\ trailers' = trailers /\ out' = out
  BY DEF RawEnd, Undisturbed, Unframed
<1>2. out \in Seq(Tokens(message))
  BY <1>1, Arrived
<1>3. \A s \in Seq(Tokens(message)) : s \o (<<>> \o <<>>) = s
  OBVIOUS
<1>4. out = Content(message)
  BY <1>1, <1>2, <1>3
<1> QED BY <1>1, <1>4 DEF Undisturbed, Sums

LEMMA VerifyStep ==
  ASSUME WireOK, Undisturbed, intact, Verify PROVE Undisturbed'
<1>1. /\ reading = "verify" /\ message' = message /\ told' = told /\ told = ToldBy(message)
      /\ out = Content(message) /\ trailers \in Sums(message)
  BY DEF Verify, Refuse, Undisturbed
<1>2. told.declared # None => Len(out) = told.declared
  BY <1>1 DEF ToldBy
<1>3. told.md5 \in {None, out} /\ told.hash \in {None, out}
  BY <1>1 DEF ToldBy
<1>4. Expected \in {None, out}
  <2>1. told.inTrailer => Expected = IF SumLines = {} THEN None ELSE trailers[Max(SumLines)][1].of
    BY DEF Expected
  <2>2. CASE ~told.inTrailer
    BY <1>1, <2>2 DEF Expected, ToldBy
  <2>3. CASE trailers = <<>> /\ told.inTrailer
    BY <2>1, <2>3 DEF SumLines
  <2>4. CASE trailers = << <<Sum(Content(message))>> >> /\ told.inTrailer
    <3>1. SumLines \in SUBSET (1..1) /\ trailers[1][1].of = Content(message) /\ trailers[1][1].kind = "sum"
          /\ Len(trailers[1]) = 1 /\ DOMAIN trailers = 1..1
      BY <2>4 DEF SumLines, Sum
    <3>2. 1 \in SumLines
      BY <3>1 DEF SumLines
    <3>3. Max(SumLines) \in SumLines
      <4>1. PICK n \in Nat : n = 1
        OBVIOUS
      <4>2. SumLines \in SUBSET (1..n)
        BY <3>1, <4>1
      <4> QED BY <3>2, <4>2, MaxUpTo
    <3>4. Max(SumLines) = 1
      <4> DEFINE line == Max(SumLines)
      <4>1. line \in SumLines
        BY <3>3
      <4>2. SumLines \subseteq 1..1
        BY <3>1
      <4> HIDE DEF line
      <4>3. line \in 1..1
        BY <4>1, <4>2
      <4>4. line = 1
        BY <4>3
      <4> QED BY <4>4 DEF line
    <3> QED BY <1>1, <2>1, <2>4, <3>1, <3>2, <3>4
  <2> QED BY <1>1, <2>2, <2>3, <2>4 DEF Sums
<1>5. reading' = "done"
  BY <1>2, <1>3, <1>4 DEF Verify, Agrees
<1> QED BY <1>1, <1>5 DEF Undisturbed

(* Nothing that has arrived in order makes the decoder wait in vain.        *)
LEMMA NoLineInVain ==
  ASSUME WireOK, Undisturbed, intact, AtAnyLine, LineEnds = {}
  PROVE  Len(buffer) <= 2 /\ wire # <<>>
<1>1. CASE reading = "frame"
  <2>1. PICK k \in Numbered(message) : AtFrame(message, k)
    BY <1>1 DEF Undisturbed
  <2> QED BY <1>1, <2>1, FrameHead
<1>2. CASE reading = "gap"
  <2>1. PICK k \in Numbered(message) : AtGap(message, k)
    BY <1>2 DEF Undisturbed
  <2> QED BY <1>2, <2>1, GapHead
<1>3. CASE reading = "trailer"
  <2>1. AtSum(message) \/ AtSignature(message) \/ AtLastLine(message)
    BY <1>3 DEF Undisturbed, AtTrailer
  <2> QED BY <1>3, <2>1, SumHead, SignatureHead, LastHead
<1> QED BY <1>1, <1>2, <1>3 DEF AtAnyLine

LEMMA NotInVain ==
  ASSUME WireOK, Undisturbed, intact PROVE ~Overlong /\ ~EndsEarly
<1>1. ~Overlong
  <2>1. SUFFICES ASSUME AtAnyLine, LineEnds = {}, Len(buffer) > MaxLine PROVE FALSE
    BY DEF Overlong
  <2>2. Len(buffer) <= 2 /\ Len(buffer) \in Nat
    <3>1. reading # "idle"
      BY <2>1 DEF AtAnyLine
    <3> QED BY <2>1, <3>1, NoLineInVain, Arrived
  <2>3. MaxLine \in Nat \ {0, 1}
    BY BodyParameters
  <2> DEFINE length == Len(buffer)
  <2>4. length \in Nat /\ length <= 2 /\ length > MaxLine
    BY <2>1, <2>2
  <2> HIDE DEF length
  <2> QED BY <2>3, <2>4
<1>2. ~EndsEarly
  <2>1. SUFFICES ASSUME Waiting, reading # "raw", wire = <<>> PROVE FALSE
    BY DEF EndsEarly
  <2>2. CASE AtAnyLine /\ LineEnds = {}
    BY <2>1, <2>2, NoLineInVain
  <2>3. CASE reading = "data" /\ left # 0 /\ buffer = <<>>
    <3> DEFINE T == Tokens(message)
    <3>1. PICK k \in Numbered(message), d \in Seq(T) : AtData(message, k, d)
      BY <2>3 DEF Undisturbed
    <3> DEFINE last == End(message, k) \o From(message, k + 1)
    <3>2. message \in Messages
      BY <2>3, Arrived
    <3>3. End(message, k) \in Seq(T) /\ From(message, k + 1) \in Seq(T)
      BY <3>2, PiecesTyped, FromUnfolds
    <3>4. last \in Seq(T)
      <4> HIDE DEF T
      <4> QED BY <3>3, ConcatIs
    <3>5. buffer \o wire = d \o last /\ left = Len(d)
      BY <3>1 DEF AtData
    <3> HIDE DEF last, T
    <3>6. Len(d \o last) = Len(d) + Len(last) /\ Len(last) \in Nat /\ Len(d) \in Nat
      BY <3>4, ConcatIs
    <3>7. Len(<<>> \o <<>>) = 0
      OBVIOUS
    <3>8. Len(d) + Len(last) = 0 /\ Len(d) # 0
      BY <2>1, <2>3, <3>5, <3>6, <3>7
    <3> QED BY <3>6, <3>8
  <2> QED BY <2>1, <2>2, <2>3 DEF Waiting
<1> QED BY <1>1, <1>2

LEMMA FillStep ==
  ASSUME WireOK, Undisturbed, intact, Fill PROVE Undisturbed'
<1> DEFINE T == Tokens(message)
<1>1. reading # "idle" /\ message' = message /\ told' = told /\ told = ToldBy(message) /\ reading' = reading
  BY DEF Fill, Waiting, AtAnyLine, Undisturbed
<1>2. buffer \in Seq(T) /\ wire \in Seq(T) /\ Len(wire) \in Nat
  BY <1>1, Arrived
<1>3. PICK n \in 1..Len(wire) : buffer' = buffer \o SubSeq(wire, 1, n) /\ wire' = SubSeq(wire, n + 1, Len(wire))
  BY DEF Fill
<1>4. buffer' \o wire' = buffer \o wire
  <2> HIDE DEF T
  <2>1. n \in 0..Len(wire)
    BY <1>2
  <2>2. (buffer \o SubSeq(wire, 1, n)) \o SubSeq(wire, n + 1, Len(wire)) = buffer \o wire
    BY <1>2, <2>1, Refill
  <2> QED BY <1>3, <2>2
<1>5. UNCHANGED <<intact, left, chunk, presented, previous, trailers, out>>
  BY DEF Fill
<1>6. \A k \in Numbered(message) : (AtFrame(message, k) => AtFrame(message, k)')
                                    /\ (AtGap(message, k) => AtGap(message, k)')
  BY <1>1, <1>4, <1>5 DEF AtFrame, AtGap
<1>7. \A k \in Numbered(message), d \in Seq(T) : AtData(message, k, d) => AtData(message, k, d)'
  BY <1>1, <1>4, <1>5 DEF AtData
<1>8. AtTrailer(message) => AtTrailer(message)'
  BY <1>1, <1>4, <1>5 DEF AtTrailer, AtSum, AtSignature, AtLastLine
<1>9. Unframed(message) => Unframed(message)'
  BY <1>1, <1>4, <1>5 DEF Unframed
<1>10. reading = "refused" => Refusable(message)
  BY <1>1 DEF Undisturbed
<1> QED BY <1>1, <1>5, <1>6, <1>7, <1>8, <1>9, <1>10 DEF Undisturbed

LEMMA SelectedIs ==
  ASSUME NEW m \in Messages PROVE Selected(m) \in ToSet(Checksums) \cup {"", "crc64nvme"}
<1> DEFINE declared == {i \in DOMAIN KnownChecksums : KnownChecksums[i] \in m.headers}
<1>1. /\ DOMAIN KnownChecksums = 1..5 /\ KnownChecksums[5] = "crc64nvme"
      /\ DOMAIN Checksums = 1..4 /\ \A i \in 1..4 : KnownChecksums[i] = Checksums[i]
  BY DEF KnownChecksums, Checksums
<1>2. \A i \in 1..5 : KnownChecksums[i] \in ToSet(Checksums) \cup {"crc64nvme"}
  BY <1>1 DEF ToSet
<1>3. CASE m.trailer # ""
  BY <1>1, <1>2, <1>3, ClientsSend DEF Selected, ToSet
<1>4. CASE m.trailer = "" /\ m.headers # {}
  <2>1. declared \in SUBSET Nat /\ declared # {}
    <3>1. m.headers \subseteq ToSet(KnownChecksums)
      BY ClientsSend
    <3>2. PICK algorithm \in m.headers : algorithm \in ToSet(KnownChecksums)
      BY <1>4, <3>1
    <3>3. PICK i \in DOMAIN KnownChecksums : KnownChecksums[i] = algorithm
      BY <3>2 DEF ToSet
    <3>4. i \in declared
      BY <3>2, <3>3
    <3> QED BY <1>1, <3>4
  <2>2. Min(declared) \in declared
    BY <2>1, MinNat
  <2>3. Min(declared) \in 1..5
    BY <1>1, <2>2
  <2> QED BY <1>2, <1>4, <2>3 DEF Selected
<1> QED BY <1>3, <1>4 DEF Selected

LEMMA SpoolStep ==
  ASSUME WireOK, NEW m \in Messages, NEW body \in Arriving(m), NEW t, Spool(m, t, body)
  PROVE  Undisturbed'
<1>1. /\ reading = "idle" /\ message' = m /\ wire' = body /\ told' = t
      /\ intact' = (t = ToldBy(m) /\ body = Encoded(m))
      /\ reading' = IF \/ t.declared # None /\ t.declared > MaxBytes
                       \/ t.algorithm \notin ToSet(Checksums) \cup {""}
                    THEN "refused"
                    ELSE IF t.framed THEN "frame" ELSE "raw"
      /\ UNCHANGED <<buffer, previous, trailers, out>>
  BY DEF Spool
<1>2. buffer = <<>> /\ previous = <<>> /\ trailers = <<>> /\ out = <<>>
  BY <1>1 DEF WireOK, Clean
<1>3. SUFFICES ASSUME t = ToldBy(m), body = Encoded(m) PROVE Undisturbed'
  BY <1>1 DEF Undisturbed
<1>4. body \in Seq(Tokens(m)) /\ \A s \in Seq(Tokens(m)) : <<>> \o s = s
  BY ArrivingTyped
<1>5. buffer' \o wire' = body /\ <<>> \o body = body
  BY <1>1, <1>2, <1>4
<1>6. /\ t.framed = m.framed /\ t.algorithm = Selected(m)
      /\ t.declared = IF "length" \in m.checks THEN Len(Content(m)) ELSE None
  BY <1>3 DEF ToldBy
<1>7. CASE reading' = "refused"
  <2>1. \/ t.declared # None /\ t.declared > MaxBytes
        \/ t.algorithm \notin ToSet(Checksums) \cup {""}
    <3>1. (IF t.framed THEN "frame" ELSE "raw") # "refused"
      OBVIOUS
    <3> QED BY <1>1, <1>7, <3>1
  <2>2. Refusable(m)
    BY <1>6, <2>1, SelectedIs DEF Refusable
  <2> QED BY <1>1, <1>3, <1>7, <2>2 DEF Undisturbed
<1>8. CASE reading' = "frame"
  <2>1. m.framed
    BY <1>1, <1>6, <1>8
  <2>2. body = From(m, 1)
    BY <1>3, <2>1, FromFirst
  <2>3. 1 \in Numbered(m) /\ 1 - 1 = 0
    BY ChunkIs DEF Numbered
  <2>4. PICK k \in Numbered(m) : k = 1 /\ k - 1 = 0
    BY <2>3
  <2>5. SentTo(m, k - 1) = <<>> /\ Sig(m, k - 1) = <<>>
    BY <2>4, SentStarts
  <2>6. AtFrame(message, k)'
    BY <1>1, <1>2, <1>5, <2>2, <2>4, <2>5 DEF AtFrame
  <2> QED BY <1>1, <1>3, <1>8, <2>4, <2>6 DEF Undisturbed
<1>9. CASE reading' = "raw"
  <2>1. ~m.framed
    BY <1>1, <1>6, <1>9
  <2>2. body = Content(m)
    BY <1>3, <2>1 DEF Encoded
  <2>3. Unframed(message)'
    BY <1>1, <1>2, <1>5, <2>1, <2>2 DEF Unframed
  <2> QED BY <1>1, <1>3, <1>9, <2>3 DEF Undisturbed
<1>10. reading' \in {"refused", "frame", "raw"}
  BY <1>1
<1> QED BY <1>7, <1>8, <1>9, <1>10

LEMMA UndisturbedNext == WireOK /\ Undisturbed /\ [BodyNext]_bodyVars => Undisturbed'
<1> SUFFICES ASSUME WireOK, Undisturbed, [BodyNext]_bodyVars PROVE Undisturbed'
  OBVIOUS
<1>1. CASE UNCHANGED bodyVars
  BY <1>1 DEF bodyVars, Undisturbed, AtFrame, AtData, AtGap, AtTrailer, AtSum, AtSignature, AtLastLine, Unframed
<1>2. CASE BodyIdle
  BY <1>2 DEF BodyIdle, Undisturbed
<1>3. ASSUME NEW m \in Messages, NEW body \in Arriving(m), Spool(m, ToldBy(m), body) PROVE Undisturbed'
  BY <1>3, SpoolStep
<1>4. CASE Decode
  <2>1. CASE ~intact
    <3>1. intact' = intact \/ intact' = FALSE
      BY <1>4 DEF Decode, FrameLine, ChunkData, ChunkEnd, Gap, Trailer, RawData, RawEnd, Verify,
             Fill, Disconnect, EndsEarly, LineTooLong, Refuse
    <3> QED BY <2>1, <3>1 DEF Undisturbed
  <2>2. CASE intact
    <3>1. CASE Disconnect
      BY <3>1 DEF Disconnect, Undisturbed
    <3>2. ~EndsEarly /\ ~LineTooLong
      BY <2>2, NotInVain DEF LineTooLong
    <3> QED BY <1>4, <2>2, <3>1, <3>2, FrameStep, ChunkDataStep, ChunkEndStep, GapStep, TrailerStep,
               RawStep, RawEndStep, VerifyStep, FillStep DEF Decode
  <2> QED BY <2>1, <2>2
<1> QED BY <1>1, <1>2, <1>3, <1>4 DEF BodyNext

(* IntactAccepted: however it is cut into pieces, a body that arrives as it *)
(* was sent is refused for its size alone, or for a checksum that cannot be *)
(* computed.                                                                *)
THEOREM IntactAcceptedHolds == BodySpec => []IntactAccepted
<1>1. BodyInit => Undisturbed
  BY DEF BodyInit, Undisturbed
<1>2. Undisturbed => IntactAccepted
  BY DEF Undisturbed, IntactAccepted, Refusable
<1> QED BY <1>1, <1>2, WireInit, WireNext, UndisturbedNext, PTL DEF BodySpec
=============================================================================
