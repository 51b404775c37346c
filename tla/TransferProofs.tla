--------------------------- MODULE TransferProofs ---------------------------
(* What is proved of Transfer for every value of its constants: of the      *)
(* authentication of a request, of the body held against what               *)
(* authentication vouched for, of the reader it is sent on with, and of the *)
(* form that is the other way in.                                           *)
EXTENDS Transfer, ReaderProofs, BodyProofs

-----------------------------------------------------------------------------
(* Authentication. Whatever becomes of a request on its way, the scheme and *)
(* the signature are those of the client: the signature is over what it     *)
(* signed.                                                                  *)
InFlight ==
  [scheme : {sent.scheme}, op : Ops, signer : {"ours", "other"}, stamp : Drifts,
   expires : IF sent.scheme \in Queries THEN Nat ELSE {0},
   host : {"public", "inner"}, forwarded : {"", "public"}, type : {"", "text"},
   copy : {"", "source"}, names : SUBSET {"host", "type", "copy"}, payload : Payloads,
   signature : {Signed(sent, sent.signer)}]

OnItsWay == sent.scheme \in Schemes /\ sent \in Requests(sent.scheme) /\ arriving \in InFlight

Passed ==
  /\ WellFormed(arriving) /\ arriving.signer = "ours" /\ InWindow(arriving) /\ Verified(arriving)

AuthInv ==
  /\ verdict \in {"idle", "sent", "admitted", "refused", "dispatched"} /\ now \in Nat
  /\ verdict \in {"sent", "admitted", "refused"} => OnItsWay
  /\ verdict = "admitted" => Passed
  /\ verdict = "refused" => ~Passed
  /\ verdict = "dispatched" => arriving = Vouched(sent)

LEMMA InitAuth == Init => AuthInv
  BY DEF Init, AuthInit, AuthInv

LEMMA SignAuth ==
  ASSUME AuthInv, NEW s \in Schemes, NEW r \in Requests(s), Sign(r) PROVE AuthInv'
<1>1. r.scheme = s /\ sent' = r /\ arriving' = [r EXCEPT !.signature = Signed(r, r.signer)]
  BY DEF Sign, Requests
<1>2. arriving' \in InFlight'
  <2>1. /\ r.op \in Ops /\ r.signer \in {"ours", "other"} /\ r.stamp \in Drifts
        /\ r.host = "public" /\ r.forwarded = "" /\ r.type \in {"", "text"} /\ r.copy \in {"", "source"}
        /\ r.payload \in Payloads
        /\ DOMAIN r = {"scheme", "op", "signer", "stamp", "expires", "host", "forwarded", "type",
                        "copy", "names", "payload", "signature"}
        /\ r = [f \in DOMAIN r |-> r[f]]
    BY DEF Requests
  <2>2. r.expires \in IF s \in Queries THEN Nat ELSE {0}
    <3>1. 0..MaxExpires + 1 \subseteq Nat
      BY AuthParameters
    <3> QED BY <3>1 DEF Requests
  <2>3. r.names \in SUBSET {"host", "type", "copy"}
    BY DEF Requests
  <2> QED BY <1>1, <2>1, <2>2, <2>3 DEF InFlight
<1> QED BY <1>1, <1>2 DEF AuthInv, Sign, OnItsWay

(* A request that only moves on stays on its way.                           *)
LEMMA MoveAuth ==
  ASSUME AuthInv, verdict = "sent", verdict' = "sent", UNCHANGED sent, now' \in Nat,
         arriving' \in InFlight
  PROVE  AuthInv'
  BY DEF AuthInv, OnItsWay, InFlight

LEMMA AlterAuth ==
  ASSUME AuthInv, Alter PROVE AuthInv'
<1>1. arriving \in InFlight /\ verdict = "sent"
  BY DEF AuthInv, OnItsWay, Alter
<1>2. arriving' \in InFlight
  <2>1. PICK a \in Altered(arriving) : arriving' = a
    BY DEF Alter
  <2>2. 0..MaxExpires \subseteq Nat
    OBVIOUS
  <2>3. arriving.scheme = sent.scheme
    BY <1>1 DEF InFlight
  <2>4. CASE \E n \in IF arriving.scheme \in Queries THEN 0..MaxExpires ELSE {0} :
               a = [arriving EXCEPT !.expires = n]
    BY <1>1, <2>1, <2>2, <2>3, <2>4 DEF InFlight
  <2>5. ASSUME NEW name, a = [arriving EXCEPT !.names = @ \ {name}] PROVE arriving' \in InFlight
    <3>1. arriving.names \ {name} \in SUBSET {"host", "type", "copy"}
      BY <1>1 DEF InFlight
    <3> QED BY <1>1, <2>1, <2>5, <3>1 DEF InFlight
  <2>6. CASE \/ \E op \in Ops : a = [arriving EXCEPT !.op = op]
             \/ a = [arriving EXCEPT !.signer = "ours"]
             \/ \E stamp \in Drifts : a = [arriving EXCEPT !.stamp = stamp]
             \/ \E type \in {"", "text"} : a = [arriving EXCEPT !.type = type]
             \/ \E source \in {"", "source"} : a = [arriving EXCEPT !.copy = source]
             \/ \E p \in Payloads : a = [arriving EXCEPT !.payload = p]
    BY <1>1, <2>1, <2>6 DEF InFlight
  <2> QED BY <2>1, <2>4, <2>5, <2>6 DEF Altered
<1> QED BY <1>1, <1>2, MoveAuth DEF Alter, AuthInv

LEMMA TravelAuth ==
  ASSUME AuthInv, Travel PROVE AuthInv'
<1>1. CASE Delay
  <2>1. now' \in Nat
    BY <1>1 DEF Delay, AuthInv
  <2> QED BY <1>1, <2>1, MoveAuth DEF Delay, AuthInv, OnItsWay
<1>2. CASE Proxy
  <2>1. arriving \in InFlight
    BY <1>2 DEF Proxy, AuthInv, OnItsWay
  <2>2. arriving' \in InFlight
    BY <1>2, <2>1 DEF Proxy, InFlight
  <2> QED BY <1>2, <2>2, MoveAuth DEF Proxy, AuthInv
<1>3. CASE Alter
  BY <1>3, AlterAuth
<1>4. CASE Authenticate
  <2>1. Passed' <=> Passed
    BY <1>4 DEF Authenticate, Passed, InWindow, WithinSkew, BeforeExpiry, Verified
  <2> QED BY <1>4, <2>1 DEF Authenticate, AuthInv, OnItsWay, InFlight, Passed
<1> QED BY <1>1, <1>2, <1>3, <1>4 DEF Travel

(* Two equal strings to sign are of requests that agree on all they cover.  *)
LEMMA CoversAll ==
  ASSUME AuthInv, verdict = "admitted" PROVE AdmittedAsSigned
<1>1. OnItsWay
  BY DEF AuthInv
<1>2. PICK host \in HostsTried(arriving), type \in TypesTried(arriving) :
        arriving.signature = [secret |-> "ours", over |-> Covered(arriving, host, type)]
  BY DEF AuthInv, Passed, Verified
<1>3. arriving.signature = [secret |-> sent.signer, over |-> Covered(sent, sent.host, sent.type)]
  BY <1>1 DEF OnItsWay, InFlight, Signed
<1>4. sent.signer = "ours" /\ Covered(arriving, host, type) = Covered(sent, sent.host, sent.type)
  BY <1>2, <1>3
<1>5. arriving.scheme = sent.scheme
  BY <1>1 DEF OnItsWay, InFlight
<1>6. CASE sent.scheme \in V4
  <2>1. CoveredV4(arriving, host) = CoveredV4(sent, sent.host)
    BY <1>4, <1>5, <1>6 DEF Covered
  <2>2. /\ arriving.op = sent.op /\ arriving.stamp = sent.stamp
        /\ arriving.expires = sent.expires /\ arriving.names = sent.names
        /\ "type" \in sent.names => arriving.type = sent.type
        /\ "copy" \in sent.names => arriving.copy = sent.copy
        /\ sent.scheme # "v4-query" => arriving.payload = sent.payload
    BY <1>5, <2>1 DEF CoveredV4
  <2>3. "copy" \in sent.names <=> sent.copy # ""
    BY <1>1, <1>6 DEF OnItsWay, Requests
  <2> QED BY <1>4, <1>5, <1>6, <2>2, <2>3 DEF AdmittedAsSigned, Vouched, V4
<1>7. CASE sent.scheme \in {"v2-header", "v2-query"}
  <2>1. CoveredV2(arriving, type) = CoveredV2(sent, sent.type)
    BY <1>4, <1>5, <1>7 DEF Covered, V4
  <2>2. /\ arriving.op = sent.op /\ type = sent.type /\ arriving.copy = sent.copy
        /\ IF sent.scheme = "v2-query"
           THEN arriving.stamp + arriving.expires = sent.stamp + sent.expires
           ELSE arriving.stamp = sent.stamp
    BY <1>5, <2>1 DEF CoveredV2
  <2>3. sent.scheme # "v2-query" => arriving.expires = 0 /\ sent.expires = 0
    BY <1>1, <1>7 DEF OnItsWay, InFlight, Requests, Queries
  <2>4. type = arriving.type \/ (sent.scheme = "v2-query" /\ type = "")
    BY <1>2, <1>5 DEF TypesTried
  <2> QED BY <1>4, <1>5, <1>7, <2>2, <2>3, <2>4 DEF AdmittedAsSigned, Vouched
<1> QED BY <1>1, <1>6, <1>7 DEF OnItsWay, Schemes, V4

LEMMA NextAuth == AuthInv /\ [Next]_vars => AuthInv'
<1> SUFFICES ASSUME AuthInv, [Next]_vars PROVE AuthInv'
  OBVIOUS
<1>1. CASE UNCHANGED authVars
  <2>1. Passed' <=> Passed
    BY <1>1 DEF authVars, Passed, InWindow, WithinSkew, BeforeExpiry, Verified
  <2> QED BY <1>1, <2>1 DEF authVars, AuthInv, OnItsWay, InFlight
<1>2. CASE AuthIdle
  BY <1>2 DEF AuthIdle, AuthInv
<1>3. CASE Ask
  BY <1>3, SignAuth DEF Ask
<1>4. CASE TravelOn
  BY <1>4, TravelAuth DEF TravelOn
<1>5. CASE Dispatch
  <2>1. Vouched(sent') = Vouched(sent)
    BY <1>5 DEF Dispatch, Vouched
  <2>2. Vouched(arriving) = Vouched(sent)
    BY <1>5, CoversAll DEF Dispatch, AdmittedAsSigned
  <2> QED BY <1>5, <2>1, <2>2 DEF Dispatch, AuthInv
<1> QED
  BY <1>1, <1>2, <1>3, <1>4, <1>5
  DEF Next, vars, Receive, DecodeOn, Store, SendOn, PostForm, Answer

(* AdmittedAsSigned: whatever happened to a request on its way, authenticate *)
(* lets it pass only as the holder of the secret signed it, but for the     *)
(* headers that its signature does not cover.                               *)
THEOREM AdmittedAsSignedHolds == Spec => []AdmittedAsSigned
<1>1. AuthInv => AdmittedAsSigned
  BY CoversAll DEF AdmittedAsSigned
<1> QED BY InitAuth, NextAuth, <1>1, PTL DEF Spec

(* The string to sign of what arrives as it was sent is that of what was    *)
(* signed.                                                                  *)
LEMMA HonestPasses ==
  ASSUME AuthInv, verdict = "refused" PROVE HonestAdmitted
<1> DEFINE late == now > sent.stamp + (IF sent.scheme \in Queries THEN sent.expires ELSE MaxSkew)
           early == sent.scheme # "v2-query" /\ now < sent.stamp - MaxSkew
           hidden == sent.scheme \in V4 /\ arriving.host # sent.host /\ arriving.forwarded = ""
<1> SUFFICES ASSUME sent.signer = "ours", WellFormed(sent), AsSent, ~late, ~early, ~hidden
             PROVE  FALSE
  BY DEF HonestAdmitted
<1>1. OnItsWay /\ ~Passed /\ now \in Nat
  BY DEF AuthInv
<1> HIDE DEF late, early, hidden
<1>2. /\ DOMAIN sent = {"scheme", "op", "signer", "stamp", "expires", "host", "forwarded", "type",
                         "copy", "names", "payload", "signature"}
      /\ sent.host = "public" /\ sent.stamp \in Int /\ sent.expires \in Int
      /\ sent.scheme \in V4 => "host" \in sent.names
  <2>1. sent \in Requests(sent.scheme)
    BY <1>1 DEF OnItsWay
  <2>2. /\ DOMAIN sent = {"scheme", "op", "signer", "stamp", "expires", "host", "forwarded", "type",
                          "copy", "names", "payload", "signature"}
        /\ sent.host = "public" /\ sent.stamp \in Drifts
    BY <2>1 DEF Requests
  <2>3. sent.expires \in IF sent.scheme \in Queries THEN 0..MaxExpires + 1 ELSE {0}
    BY <2>1 DEF Requests
  <2>4. sent.scheme \in V4 => "host" \in sent.names
    BY <2>1 DEF Requests
  <2>5. sent.stamp \in Int
    BY <2>2, AuthParameters
  <2>6. sent.expires \in Int
    BY <2>3, AuthParameters
  <2> QED BY <2>2, <2>4, <2>5, <2>6
<1>3. /\ arriving.scheme = sent.scheme /\ arriving.op = sent.op /\ arriving.signer = sent.signer
      /\ arriving.stamp = sent.stamp /\ arriving.expires = sent.expires
      /\ arriving.type = sent.type /\ arriving.copy = sent.copy /\ arriving.names = sent.names
      /\ arriving.payload = sent.payload
  BY <1>2 DEF AsSent
<1>4. /\ arriving.host \in {"public", "inner"} /\ arriving.forwarded \in {"", "public"}
      /\ arriving.signature = Signed(sent, "ours")
  BY <1>1 DEF OnItsWay, InFlight
<1>5. WellFormed(arriving)
  BY <1>3 DEF WellFormed
<1>6. InWindow(arriving)
  <2>1. MaxSkew \in Nat
    BY AuthParameters
  <2>2. now <= sent.stamp + (IF sent.scheme \in Queries THEN sent.expires ELSE MaxSkew)
    BY <1>1, <1>2, <2>1 DEF late
  <2>3. sent.scheme # "v2-query" => sent.stamp - MaxSkew <= now
    BY <1>1, <1>2, <2>1 DEF early
  <2> QED BY <1>3, <2>2, <2>3 DEF InWindow, WithinSkew, BeforeExpiry, Queries
<1>7. Verified(arriving)
  <2>1. sent.host \in HostsTried(arriving) \/ sent.scheme \notin V4
    BY <1>2, <1>3, <1>4 DEF HostsTried, hidden
  <2>2. sent.type \in TypesTried(arriving) /\ arriving.host \in HostsTried(arriving)
    BY <1>3 DEF TypesTried, HostsTried
  <2>3. \A host : Covered(arriving, host, sent.type) = Covered(sent, host, sent.type)
    BY <1>3 DEF Covered, CoveredV4, CoveredV2
  <2>4. sent.scheme \notin V4 =>
          Covered(sent, arriving.host, sent.type) = Covered(sent, sent.host, sent.type)
    BY DEF Covered
  <2> QED BY <1>4, <2>1, <2>2, <2>3, <2>4 DEF Verified, Signed
<1> QED BY <1>1, <1>3, <1>5, <1>6, <1>7 DEF Passed

(* HonestAdmitted: a request that arrives as the holder of the secret       *)
(* signed it, but for a Host that was passed on, within its time, is        *)
(* admitted.                                                                *)
THEOREM HonestAdmittedHolds == Spec => []HonestAdmitted
<1>1. AuthInv => HonestAdmitted
  BY HonestPasses DEF HonestAdmitted
<1> QED BY InitAuth, NextAuth, <1>1, PTL DEF Spec

-----------------------------------------------------------------------------
(* The reader is that of ConcatReader, whatever the body it is given.       *)
LEMMA NextReads == [Next]_vars => [ReaderNext]_readerVars
<1> SUFFICES ASSUME [Next]_vars, ~UNCHANGED readerVars PROVE ReaderNext
  OBVIOUS
<1>1. Store \/ SendOn
  BY DEF Next, vars, Ask, TravelOn, Dispatch, Receive, DecodeOn, PostForm, Answer
<1> QED BY <1>1 DEF Store, SendOn, ReaderNext

(* A behaviour of the whole is one of the reader.                           *)
THEOREM ReaderRuns == Spec => ReaderSpec
<1>1. Init => ReaderInit
  BY DEF Init
<1> QED BY <1>1, NextReads, PTL DEF Spec, ReaderSpec

(* RefusedOnlyIfDamaged, of the parts of the upload a spooled body          *)
(* completes.                                                               *)
THEOREM PartsRefusedOnlyIfDamaged == Spec => []RefusedOnlyIfDamaged
  BY ReaderRuns, RefusedOnlyIfDamagedHolds, PTL

(* ReadsAsOneFile: they are sent on as one file.                            *)
THEOREM PartsReadAsOneFile == Spec => ReadsAsOneFile
  BY ReaderRuns, ReaderImplementsFile, PTL

-----------------------------------------------------------------------------
(* The body is held against what the client declared of it: what is told of *)
(* it is that, and what is kept agrees with it.                             *)
ToldAsDeclared ==
  /\ message \in Messages
  /\ "length" \in message.checks => told.declared = Len(Content(message))
  /\ "md5" \in message.checks => told.md5 = Content(message)
  /\ "hash" \in message.checks => told.hash = Content(message)
  /\ message.trailer = "" /\ message.headers # {} =>
       ~told.inTrailer /\ told.expected = Content(message)

BodyInv ==
  /\ reading # "idle" => ToldAsDeclared
  /\ reading = "done" => Agrees

LEMMA InitBody == Init => BodyInv
  BY DEF Init, BodyInit, BodyInv

LEMMA ReceiveBody ==
  ASSUME AuthInv, BodyInv, Receive PROVE BodyInv'
<1>1. arriving = Vouched(sent)
  BY DEF AuthInv, Receive
<1>2. PICK m \in MessagesOf(sent) : \E body \in Arriving(m) : Spool(m, ToldOf(m, arriving), body)
  BY DEF Receive
<1>3. m \in Messages /\ PayloadOf(sent.scheme, m) = sent.payload
  BY DEF MessagesOf
<1>4. message' = m /\ told' = ToldOf(m, arriving) /\ reading' \in {"refused", "frame", "raw"}
  BY <1>2 DEF Spool
<1>5. "length" \in m.checks => ToldOf(m, arriving).declared = Len(Content(m))
  BY DEF ToldOf, ToldBy
<1>6. "md5" \in m.checks => ToldOf(m, arriving).md5 = Content(m)
  BY DEF ToldOf, ToldBy
<1>7. m.trailer = "" /\ m.headers # {} =>
        ~ToldOf(m, arriving).inTrailer /\ ToldOf(m, arriving).expected = Content(m)
  BY DEF ToldOf, ToldBy
<1>8. ASSUME "hash" \in m.checks PROVE ToldOf(m, arriving).hash = Content(m)
  <2>1. sent.scheme = "v4-header"
    BY <1>2, <1>8 DEF MessagesOf
  <2>2. sent.payload = [kind |-> "hash", of |-> Content(m)]
    <3>1. ~m.framed
      BY <1>3, <1>8, ClientsSend
    <3> QED BY <1>3, <1>8, <2>1, <3>1 DEF PayloadOf
  <2>3. arriving = sent.payload
    BY <1>1, <2>1, <2>2 DEF Vouched
  <2> QED BY <2>2, <2>3 DEF ToldOf, ToldBy
<1> QED BY <1>3, <1>4, <1>5, <1>6, <1>7, <1>8 DEF BodyInv, ToldAsDeclared

LEMMA NextBody == AuthInv /\ BodyInv /\ [Next]_vars => BodyInv'
<1> SUFFICES ASSUME AuthInv, BodyInv, [Next]_vars PROVE BodyInv'
  OBVIOUS
<1>1. CASE UNCHANGED bodyVars
  BY <1>1 DEF bodyVars, BodyInv, ToldAsDeclared, Agrees, Expected, SumLines
<1>2. CASE BodyIdle
  BY <1>2 DEF BodyIdle, BodyInv
<1>3. CASE Receive
  BY <1>3, ReceiveBody
<1>4. CASE Decode
  <2>1. reading # "idle" /\ UNCHANGED <<message, told>> /\ reading' # "idle"
    BY <1>4 DEF Decode, FrameLine, ChunkData, ChunkEnd, Gap, Trailer, RawData, RawEnd, Verify,
                Fill, Disconnect, EndsEarly, LineTooLong, Refuse, Waiting, AtLine, AtAnyLine, Overlong
  <2>2. reading' = "done" => Agrees /\ UNCHANGED <<out, trailers>>
    BY <1>4 DEF Decode, FrameLine, ChunkData, ChunkEnd, Gap, Trailer, RawData, RawEnd, Verify,
                Fill, Disconnect, EndsEarly, LineTooLong, Refuse, Waiting, AtLine, AtAnyLine, Overlong
  <2> QED BY <2>1, <2>2 DEF BodyInv, ToldAsDeclared, Agrees, Expected, SumLines
<1> QED
  BY <1>1, <1>2, <1>3, <1>4
  DEF Next, vars, Ask, TravelOn, Dispatch, DecodeOn, Store, SendOn, PostForm, Answer

(* What agrees with what was declared is what was sent.                     *)
LEMMA KeptAgrees ==
  ASSUME BodyInv, reading = "done" PROVE KeptAsDigested
<1>1. ToldAsDeclared /\ Agrees
  BY DEF BodyInv
<1>2. Content(message) # None /\ Len(Content(message)) # None
  BY <1>1, NoneIsNone DEF ToldAsDeclared
<1>3. \A sum \in {told.md5, told.hash, Expected} : sum # None => out = sum
  BY <1>1 DEF Agrees
<1>4. "length" \in message.checks => Len(out) = Len(Content(message))
  BY <1>1, <1>2 DEF ToldAsDeclared, Agrees
<1>5. {"md5", "hash"} \cap message.checks # {} => out = Content(message)
  <2>1. CASE "md5" \in message.checks
    BY <1>1, <1>2, <1>3, <2>1 DEF ToldAsDeclared
  <2>2. CASE "hash" \in message.checks
    <3>1. told.hash = Content(message)
      BY <1>1, <2>2 DEF ToldAsDeclared
    <3>2. told.hash # None => out = told.hash
      BY <1>3
    <3> QED BY <1>2, <3>1, <3>2
  <2> QED BY <2>1, <2>2
<1>6. ASSUME message.trailer = "" /\ message.headers # {} PROVE out = Content(message)
  <2>1. Expected = Content(message)
    BY <1>1, <1>6 DEF ToldAsDeclared, Expected
  <2> QED BY <1>2, <1>3, <2>1
<1>7. Expected = Content(message) => out = Content(message)
  BY <1>2, <1>3
<1> QED BY <1>4, <1>5, <1>6, <1>7 DEF KeptAsDigested

(* KeptAsDigested: what is kept of a body with an MD5 or a hash, with a     *)
(* checksum in a header and none announced, or with an announced one that   *)
(* arrived, is what the client sent, whatever arrived of it.                *)
THEOREM KeptAsDigestedHolds == Spec => []KeptAsDigested
<1>1. BodyInv => KeptAsDigested
  BY KeptAgrees DEF KeptAsDigested
<1> QED BY InitAuth, NextAuth, InitBody, NextBody, <1>1, PTL DEF Spec
-----------------------------------------------------------------------------
(* What authenticate says of a body is what its client said of it, so that  *)
(* the decoder is that of Body.                                             *)
LEMMA ToldAsSent ==
  ASSUME AuthInv, verdict = "dispatched", NEW m \in MessagesOf(sent)
  PROVE  m \in Messages /\ ToldOf(m, arriving) = ToldBy(m)
<1>1. /\ m \in Messages /\ PayloadOf(sent.scheme, m) = sent.payload
      /\ m.signed => sent.scheme = "v4-header"
      /\ arriving = Vouched(sent)
  BY DEF MessagesOf, AuthInv
<1>2. m.signed \in BOOLEAN /\ (m.signed => m.framed)
  BY <1>1, ClientsSend
<1>3. arriving.kind = "chain" <=> m.signed
  <2>1. CASE m.signed
    <3>1. sent.payload = [kind |-> "chain"] /\ sent.scheme = "v4-header"
      BY <1>1, <1>2, <2>1 DEF PayloadOf
    <3> QED BY <1>1, <2>1, <3>1 DEF Vouched
  <2>2. CASE ~m.signed /\ sent.scheme = "v4-header"
    <3>1. sent.payload.kind \in {"hash", "stream", "unsigned"} /\ arriving = sent.payload
      BY <1>1, <2>2 DEF PayloadOf, Vouched, Unsigned
    <3> QED BY <1>2, <2>2, <3>1
  <2>3. CASE ~m.signed /\ sent.scheme # "v4-header"
    <3>1. arriving.kind \in {"absent", "unsigned"}
      BY <1>1, <2>3 DEF Vouched, Absent, Unsigned
    <3> QED BY <1>2, <2>3, <3>1
  <2> QED BY <1>2, <2>1, <2>2, <2>3
<1>4. ToldOf(m, arriving).hash = ToldBy(m).hash
  <2>1. CASE "hash" \in m.checks
    <3>1. sent.scheme = "v4-header"
      BY <2>1 DEF MessagesOf
    <3>2. ~m.framed
      BY <1>1, <2>1, ClientsSend
    <3>3. sent.payload = [kind |-> "hash", of |-> Content(m)]
      BY <1>1, <2>1, <3>1, <3>2 DEF PayloadOf
    <3>4. arriving = [kind |-> "hash", of |-> Content(m)]
      BY <1>1, <3>1, <3>3 DEF Vouched
    <3> QED BY <2>1, <3>4 DEF ToldOf, ToldBy
  <2>2. CASE "hash" \notin m.checks
    <3>1. arriving.kind # "hash"
      BY <1>1, <2>2 DEF PayloadOf, Vouched, Absent, Unsigned
    <3> QED BY <2>2, <3>1 DEF ToldOf, ToldBy
  <2> QED BY <2>1, <2>2
<1>5. ToldOf(m, arriving).signed = ToldBy(m).signed
  <2>1. ToldOf(m, arriving).signed = (arriving.kind = "chain") /\ ToldBy(m).signed = m.signed
    BY Zenon DEF ToldOf, ToldBy
  <2>2. CASE m.signed
    <3>1. m.signed = TRUE /\ (arriving.kind = "chain") = TRUE
      BY <1>2, <1>3, <2>2, Zenon
    <3> QED BY <2>1, <3>1, Zenon
  <2>3. CASE ~m.signed
    <3>1. m.signed = FALSE /\ (arriving.kind = "chain") = FALSE
      BY <1>2, <1>3, <2>3, Zenon
    <3> QED BY <2>1, <3>1, Zenon
  <2> QED BY <2>2, <2>3, Zenon
<1>6. ToldOf(m, arriving) = [ToldBy(m) EXCEPT !.signed = ToldOf(m, arriving).signed,
                                              !.hash = ToldOf(m, arriving).hash]
  BY DEF ToldOf, ToldBy
<1>7. ToldOf(m, arriving) = ToldBy(m)
  <2>1. ToldOf(m, arriving) = [ToldBy(m) EXCEPT !.signed = ToldBy(m).signed, !.hash = ToldBy(m).hash]
    BY <1>4, <1>5, <1>6
  <2> QED BY <2>1 DEF ToldBy
<1> QED BY <1>1, <1>7

LEMMA NextDecodes == AuthInv /\ [Next]_vars => [BodyNext]_bodyVars
<1> SUFFICES ASSUME AuthInv, [Next]_vars, ~UNCHANGED bodyVars PROVE BodyNext
  OBVIOUS
<1>1. CASE Receive
  <2>1. PICK m \in MessagesOf(sent) : \E body \in Arriving(m) : Spool(m, ToldOf(m, arriving), body)
    BY <1>1 DEF Receive
  <2>2. m \in Messages /\ ToldOf(m, arriving) = ToldBy(m)
    BY <1>1, ToldAsSent DEF Receive
  <2> QED BY <2>1, <2>2 DEF BodyNext
<1>2. CASE DecodeOn
  BY <1>2 DEF DecodeOn, BodyNext
<1>3. CASE Store \/ Answer
  BY <1>3 DEF Store, Answer, BodyNext
<1> QED
  BY <1>1, <1>2, <1>3 DEF Next, vars, Ask, TravelOn, Dispatch, SendOn, PostForm

(* A behaviour of the whole is one of the decoder: a request that is        *)
(* admitted tells it of its body what its client did.                       *)
THEOREM BodyRuns == Spec => BodySpec
<1>1. Init => BodyInit
  BY DEF Init
<1> QED BY <1>1, InitAuth, NextAuth, NextDecodes, PTL DEF Spec, BodySpec

(* IntactAccepted, of the bodies of authenticated requests.                 *)
THEOREM IntactBodiesAccepted == Spec => []IntactAccepted
  BY BodyRuns, IntactAcceptedHolds, PTL

(* KeptAsSigned: what is kept of a body with signed chunks is all its       *)
(* client signed, in its order.                                             *)
THEOREM BodiesKeptAsSigned == Spec => []KeptAsSigned
  BY BodyRuns, KeptAsSignedHolds, PTL

(* SpoolBounded: no body fills the spool file past its limit.               *)
THEOREM BodiesBounded == Spec => []SpoolBounded
  BY BodyRuns, SpoolBoundedHolds, PTL

-----------------------------------------------------------------------------
(* The name a key is stored under.                                          *)
Resolved(name, segment) ==
  CASE segment \in {"", "."} -> name
    [] segment = ".." -> IF name = <<>> THEN name ELSE Front(name)
    [] segment \in Escapes -> Append(name, "aa")
    [] OTHER -> Append(name, segment)

Trimmed(key) ==
  [i \in DOMAIN key |->
     IF <<i, key[i]>> \in {<<1, " a">>, <<Len(key), "a ">>} THEN "a" ELSE key[i]]

(* Of the segments with the numbers in a set, what they resolve to.         *)
Resolves(g, t, S) ==
  g = [s \in SUBSET S |-> IF s = {} THEN <<>> ELSE Resolved(g[s \ {Max(s)}], t[Max(s)])]

Resolution(t) == (CHOOSE g : Resolves(g, t, DOMAIN t))[DOMAIN t]

LEMMA StoredNameIs ==
  ASSUME NEW key
  PROVE  StoredName(key) = IF Last(key) = "" THEN Append(Resolution(Trimmed(key)), "")
                           ELSE Resolution(Trimmed(key))
  BY Zenon DEF StoredName, FoldLeft, MapThenFoldSet, Resolution, Resolves, Resolved, Trimmed

LEMMA ResolvesAt ==
  ASSUME NEW g, NEW t, NEW S, Resolves(g, t, S), NEW s \in SUBSET S
  PROVE  g[s] = IF s = {} THEN <<>> ELSE Resolved(g[s \ {Max(s)}], t[Max(s)])
  BY Zenon DEF Resolves

LEMMA MaxTop ==
  ASSUME NEW n \in Nat, NEW s \in SUBSET (1..n), n \in s PROVE Max(s) = n
<1>1. \A y \in s : n >= y
  OBVIOUS
<1>2. Max(s) \in s /\ \A y \in s : Max(s) >= y
  BY <1>1, Zenon DEF Max
<1> DEFINE top == Max(s)
<1>3. top \in 1..n /\ top >= n
  BY <1>2
<1> HIDE DEF top
<1>4. top = n
  BY <1>3
<1> QED BY <1>4 DEF top

LEMMA OneMoreResolves ==
  ASSUME NEW n \in Nat, NEW t, NEW g, Resolves(g, t, 1..n) PROVE \E h : Resolves(h, t, 1..n + 1)
<1> DEFINE N == n + 1
           h == [s \in SUBSET (1..N) |-> IF N \in s THEN Resolved(g[s \ {N}], t[N]) ELSE g[s]]
<1>1. N \in Nat /\ \A s \in SUBSET (1..N) : (N \notin s => s \in SUBSET (1..n)) /\ s \ {N} \in SUBSET (1..n)
  OBVIOUS
<1>2. \A s \in SUBSET (1..n) : s \in SUBSET (1..N) /\ N \notin s
  OBVIOUS
<1>3. \A s \in SUBSET (1..n) : h[s] = g[s]
  BY <1>2
<1>4. ASSUME NEW s \in SUBSET (1..N)
      PROVE  h[s] = IF s = {} THEN <<>> ELSE Resolved(h[s \ {Max(s)}], t[Max(s)])
  <2>1. CASE N \in s
    <3>1. Max(s) = N /\ s # {}
      <4> HIDE DEF N
      <4> QED BY <1>1, <2>1, MaxTop
    <3>2. h[s] = Resolved(g[s \ {N}], t[N])
      BY <2>1
    <3>3. h[s \ {N}] = g[s \ {N}]
      BY <1>1, <1>3
    <3> HIDE DEF h
    <3> QED BY <3>1, <3>2, <3>3
  <2>2. CASE N \notin s
    <3>1. s \in SUBSET (1..n) /\ s \ {Max(s)} \in SUBSET (1..n)
      BY <1>1, <2>2
    <3>2. h[s] = g[s] /\ h[s \ {Max(s)}] = g[s \ {Max(s)}]
      BY <1>3, <3>1
    <3> HIDE DEF h, N
    <3>3. g[s] = IF s = {} THEN <<>> ELSE Resolved(g[s \ {Max(s)}], t[Max(s)])
      BY <3>1, Zenon DEF Resolves
    <3> QED BY <3>2, <3>3
  <2> QED BY <2>1, <2>2
<1>5. h = [s \in SUBSET (1..N) |-> h[s]]
  OBVIOUS
<1> HIDE DEF h
<1>6. h = [s \in SUBSET (1..N) |-> IF s = {} THEN <<>> ELSE Resolved(h[s \ {Max(s)}], t[Max(s)])]
  BY <1>4, <1>5, Zenon
<1>7. Resolves(h, t, 1..N)
  BY <1>6, Zenon DEF Resolves
<1> QED BY <1>7

LEMMA ResolvesExist == ASSUME NEW t, NEW n \in Nat PROVE \E g : Resolves(g, t, 1..n)
<1> DEFINE T == {k \in Nat : \E g : Resolves(g, t, 1..k)}
<1>1. 0 \in T
  <2> DEFINE g == [s \in SUBSET (1..0) |-> <<>>]
  <2>1. \A s \in SUBSET (1..0) : s = {}
    OBVIOUS
  <2>2. g = [s \in SUBSET (1..0) |-> IF s = {} THEN <<>> ELSE Resolved(g[s \ {Max(s)}], t[Max(s)])]
    BY <2>1
  <2>3. Resolves(g, t, 1..0)
    BY <2>2 DEF Resolves
  <2> QED BY <2>3
<1>2. ASSUME NEW k \in T PROVE k + 1 \in T
  BY OneMoreResolves
<1>3. T = Nat
  <2>1. T \in SUBSET Nat
    OBVIOUS
  <2> HIDE DEF T
  <2> QED BY <1>1, <1>2, <2>1, Induction
<1> QED BY <1>3

LEMMA ResolvesNext ==
  ASSUME NEW t, NEW n \in Nat, NEW g, Resolves(g, t, 1..n), NEW k \in 1..n
  PROVE  g[1..k] = Resolved(g[1..k - 1], t[k])
<1>1. 1..k \in SUBSET (1..n) /\ k \in 1..k /\ (1..k) \ {k} = 1..k - 1 /\ 1..k # {} /\ k \in Nat
  OBVIOUS
<1>2. Max(1..k) = k
  BY <1>1, MaxTop
<1>3. g[1..k] = IF 1..k = {} THEN <<>> ELSE Resolved(g[(1..k) \ {Max(1..k)}], t[Max(1..k)])
  BY <1>1, Zenon DEF Resolves
<1> DEFINE s == 1..k
<1>4. s # {} /\ s \ {k} = 1..k - 1 /\ Max(s) = k
  BY <1>1, <1>2
<1>5. g[s] = IF s = {} THEN <<>> ELSE Resolved(g[s \ {Max(s)}], t[Max(s)])
  BY <1>3
<1> HIDE DEF s
<1>6. g[s] = Resolved(g[1..k - 1], t[k])
  BY <1>4, <1>5, Zenon
<1> QED BY <1>6 DEF s

(* A key that validate_key lets pass has no segment to resolve.             *)
LEMMA StorableKept ==
  ASSUME NEW key \in Seq(STRING), key # <<>>, Storable(key) PROVE StoredName(key) = key
<1> DEFINE n == Len(key)
           g == CHOOSE g : Resolves(g, key, 1..n)
<1>1. n \in Nat /\ n >= 1 /\ DOMAIN key = 1..n /\ n \in 1..n
  <2>1. \A s \in Seq(STRING) : Len(s) \in Nat /\ (Len(s) = 0 => s = <<>>) /\ DOMAIN s = 1..Len(s)
    OBVIOUS
  <2>2. n \in Nat /\ n # 0 /\ DOMAIN key = 1..n
    BY <2>1
  <2> HIDE DEF n
  <2> QED BY <2>2
<1>2. /\ key[1] # " a" /\ key[n] # "a " /\ Last(key) = key[n]
      /\ \A i \in 1..n : key[i] \notin Dots \cup Escapes /\ (key[i] = "" => i = n)
  <2>1. Head(key) = key[1] /\ Last(key) = key[n]
    BY DEF Last
  <2>2. /\ Head(key) # " a" /\ Last(key) # "a "
        /\ \A i \in DOMAIN key : key[i] \notin Dots \cup Escapes /\ (key[i] = "" => i = Len(key))
    BY Zenon DEF Storable, StorableWithin
  <2> QED BY <1>1, <2>1, <2>2
<1>3. Trimmed(key) = key
  <2>1. \A i \in 1..n : <<i, key[i]>> \notin {<<1, " a">>, <<n, "a ">>}
    BY <1>2
  <2>2. Trimmed(key) = [i \in 1..n |-> key[i]]
    BY <1>1, <2>1, Zenon DEF Trimmed
  <2>3. key = [i \in 1..n |-> key[i]]
    BY <1>1
  <2> QED BY <2>2, <2>3
<1>4. Resolves(g, key, 1..n)
  BY <1>1, ResolvesExist
<1> HIDE DEF g
<1>5. \A i \in 1..n : \A name : Resolved(name, key[i]) = IF key[i] = "" THEN name ELSE Append(name, key[i])
  BY <1>2, Zenon DEF Resolved, Dots, Escapes
<1> DEFINE T == {k \in Nat : k < n => g[1..k] = SubSeq(key, 1, k)}
<1> HIDE DEF n
<1>6. 0 \in T
  <2>1. 1..0 = {} /\ {} \in SUBSET (1..n)
    OBVIOUS
  <2>2. g[{}] = <<>>
    BY <1>4, <2>1, ResolvesAt
  <2>3. SubSeq(key, 1, 0) = <<>>
    <3>1. SubSeq(key, 1, 0) \in Seq(STRING) /\ Len(SubSeq(key, 1, 0)) = 0
      OBVIOUS
    <3>2. \A s \in Seq(STRING) : Len(s) = 0 => s = <<>>
      OBVIOUS
    <3> QED BY <3>1, <3>2
  <2> QED BY <2>1, <2>2, <2>3
<1>7. ASSUME NEW k \in Nat, k < n PROVE SubSeq(key, 1, k + 1) = Append(SubSeq(key, 1, k), key[k + 1])
  <2>1. k \in 0..Len(key) - 1
    BY <1>1, <1>7 DEF n
  <2> QED BY <2>1, OneMoreOf
<1>8. ASSUME NEW k \in T PROVE k + 1 \in T
  <2>1. k \in Nat /\ (k < n => g[1..k] = SubSeq(key, 1, k))
    OBVIOUS
  <2>2. ASSUME k + 1 < n PROVE g[1..k + 1] = SubSeq(key, 1, k + 1)
    <3>1. PICK j \in 1..n : j = k + 1 /\ j # n /\ j - 1 = k
      BY <1>1, <2>1, <2>2
    <3>2. g[1..j] = Resolved(g[1..j - 1], key[j])
      BY <1>1, <1>4, ResolvesNext
    <3>3. key[j] # ""
      BY <1>2, <3>1
    <3>4. g[1..j] = Append(g[1..j - 1], key[j])
      BY <1>5, <3>2, <3>3
    <3>5. k < n
      BY <1>1, <2>1, <2>2
    <3>6. SubSeq(key, 1, k + 1) = Append(SubSeq(key, 1, k), key[k + 1])
      BY <1>7, <2>1, <3>5
    <3>7. g[1..k] = SubSeq(key, 1, k)
      BY <2>1, <3>5
    <3> QED BY <3>1, <3>4, <3>6, <3>7
  <2>3. k + 1 \in Nat
    BY <2>1
  <2> QED BY <2>2, <2>3
<1>9. T = Nat
  <2>1. T \in SUBSET Nat
    OBVIOUS
  <2> HIDE DEF T
  <2> QED BY <1>6, <1>8, <2>1, Induction
<1>10. PICK k \in Nat : k = n - 1 /\ k < n /\ k + 1 = n
  BY <1>1
<1>11. g[1..k] = SubSeq(key, 1, k)
  BY <1>9, <1>10
<1>12. SubSeq(key, 1, n) = Append(SubSeq(key, 1, k), key[n])
  BY <1>7, <1>10
<1>13. SubSeq(key, 1, n) = key
  BY <1>1 DEF n
<1>14. g[1..n] = Resolved(g[1..k], key[n])
  <2>1. g[1..n] = Resolved(g[1..n - 1], key[n])
    BY <1>1, <1>4, ResolvesNext
  <2> QED BY <1>10, <2>1
<1>15. g[1..n] = IF key[n] = "" THEN SubSeq(key, 1, k) ELSE key
  BY <1>1, <1>5, <1>11, <1>12, <1>13, <1>14
<1>16. StoredName(key) = IF key[n] = "" THEN Append(g[1..n], "") ELSE g[1..n]
  <2>1. StoredName(key) = IF Last(key) = "" THEN Append(Resolution(key), "") ELSE Resolution(key)
    BY <1>3, StoredNameIs, Zenon
  <2>2. Resolution(key) = g[1..n]
    BY <1>1, Zenon DEF Resolution, g
  <2> QED BY <1>2, <2>1, <2>2, Zenon
<1> QED BY <1>12, <1>13, <1>15, <1>16

-----------------------------------------------------------------------------
(* Forms.                                                                   *)
FormInv ==
  /\ outcome \in {"none", "signed", "filled", "stored", "denied"}
  /\ outcome \in {"filled", "stored"} => form.key \in FormKeys /\ form.filename \in FileNames
  /\ outcome = "stored" =>
       /\ form.policy = signed.policy /\ Storable(Expanded(form))
       /\ Conditions(form.policy, form.bucket, Expanded(form), form.size)

LEMMA InitForm == Init => FormInv
  BY DEF Init, PostInit, FormInv

LEMMA NextForm == FormInv /\ [Next]_vars => FormInv'
<1> SUFFICES ASSUME FormInv, [Next]_vars PROVE FormInv'
  OBVIOUS
<1>1. CASE UNCHANGED postVars
  BY <1>1 DEF postVars, FormInv
<1>2. CASE PostIdle
  BY <1>2 DEF PostIdle, FormInv
<1>3. CASE SignPolicy
  BY <1>3 DEF SignPolicy, FormInv
<1>4. CASE FillForm
  BY <1>4 DEF FillForm, FormInv
<1>5. CASE Wait
  BY <1>5 DEF Wait, FormInv
<1>6. CASE Post
  BY <1>6 DEF Post, FormInv
<1> QED
  BY <1>1, <1>2, <1>3, <1>4, <1>5, <1>6
  DEF Next, vars, Ask, TravelOn, Dispatch, Receive, DecodeOn, Store, SendOn, PostForm, Posting, Answer

(* A key with the name of a file filled in is a key.                        *)
LEMMA ExpandedTyped ==
  ASSUME NEW f, f.key \in FormKeys, f.filename \in FileNames
  PROVE  Expanded(f) \in Seq(STRING) /\ Expanded(f) # <<>>
<1> DEFINE All == Seq(STRING)
           n == Len(f.key)
           t == [i \in DOMAIN f.key |-> IF f.key[i] = FileName THEN f.filename ELSE <<f.key[i]>>]
<1>1. /\ f.key \in All /\ f.key # <<>> /\ f.filename \in All /\ f.filename # <<>>
  BY KeysAreSplit
<1>2. n \in Nat /\ n # 0 /\ DOMAIN f.key = 1..n
  <2>1. \A s \in All : Len(s) \in Nat /\ (Len(s) = 0 => s = <<>>) /\ DOMAIN s = 1..Len(s)
    OBVIOUS
  <2> QED BY <1>1, <2>1
<1>3. \A i \in 1..n : t[i] \in All /\ t[i] # <<>>
  <2>1. ASSUME NEW i \in 1..n PROVE t[i] \in All /\ t[i] # <<>>
    <3>1. t[i] = IF f.key[i] = FileName THEN f.filename ELSE <<f.key[i]>>
      BY <1>2
    <3>2. f.key[i] \in STRING
      BY <1>1, <1>2
    <3>3. \A s \in STRING : <<s>> \in All /\ <<s>> # <<>>
      OBVIOUS
    <3> HIDE DEF t
    <3> QED BY <1>1, <3>1, <3>2, <3>3
  <2> QED BY <2>1
<1>4. t = [i \in 1..n |-> t[i]] /\ Expanded(f) = FlattenSeq(t)
  BY <1>2 DEF Expanded
<1> HIDE DEF t
<1>5. t \in Seq(All) /\ Len(t) = n /\ t # <<>>
  <2> HIDE DEF All, n
  <2>1. t \in Seq(All) /\ Len(t) = n
    BY <1>2, <1>3, <1>4
  <2>2. Len(<<>>) = 0
    OBVIOUS
  <2> QED BY <1>2, <2>1, <2>2
<1>6. FlattenSeq(t) \in All
  BY <1>5, FlattenTyped
<1> DEFINE rest == SubSeq(t, 2, Len(t))
           first == t[1]
<1>7. FlattenSeq(t) = first \o FlattenSeq(rest)
  BY <1>5, FlattenFront DEF Unfolds
<1>8. first \in All /\ first # <<>>
  BY <1>2, <1>3
<1>9. FlattenSeq(rest) \in All
  <2>1. rest \in Seq(All)
    <3> HIDE DEF All
    <3> QED BY <1>5
  <2> HIDE DEF rest
  <2> QED BY <2>1, FlattenTyped
<1> HIDE DEF first, rest
<1>10. \A x, y \in All : x # <<>> => x \o y # <<>>
  OBVIOUS
<1> QED BY <1>4, <1>6, <1>7, <1>8, <1>9, <1>10

(* StoredUnderPolicy: whatever is posted, the name a file is stored under   *)
(* is the key the policy was held against.                                  *)
THEOREM StoredUnderPolicyHolds == Spec => []StoredUnderPolicy
<1>1. FormInv => StoredUnderPolicy
  <2>1. SUFFICES ASSUME FormInv, outcome = "stored"
        PROVE  LET key == Expanded(form) IN
               StoredName(key) = key /\ Conditions(signed.policy, form.bucket, StoredName(key), form.size)
    BY DEF StoredUnderPolicy
  <2>2. Expanded(form) \in Seq(STRING) /\ Expanded(form) # <<>>
    BY <2>1, ExpandedTyped DEF FormInv
  <2>3. StoredName(Expanded(form)) = Expanded(form)
    BY <2>1, <2>2, StorableKept DEF FormInv
  <2> QED BY <2>1, <2>3 DEF FormInv
<1> QED BY <1>1, InitForm, NextForm, PTL DEF Spec
=============================================================================
