-------------------------------- MODULE Auth --------------------------------
(***************************************************************************)
(* auth/: a request is signed by a client whose clock may be off, travels,  *)
(* may pass a proxy that rewrites its Host, and is checked on arrival under *)
(* one of four schemes. They differ in what the signature covers, in the    *)
(* window they allow and in what of the body they vouch for.                *)
(*                                                                          *)
(* A signature is the pair of the secret and the record it was computed     *)
(* over: HMAC as if it never collided. `op' stands for the method, the path *)
(* and the sub-resources, which every scheme covers. Of the headers that    *)
(* tell what a PUT does, `type' is the content type and `copy' the          *)
(* x-amz-copy-source, which makes it a copy of another object.              *)
(***************************************************************************)
EXTENDS Integers

CONSTANTS
  Ops,         \* the PUTs a request may ask for, by their keys
  Payloads,    \* values of x-amz-content-sha256: [kind |-> ...], a hash with what it is of
  Drifts,      \* how far a client's clock may be ahead, in ticks
  MaxSkew,     \* MAX_SKEW, MAX_SKEW_SECONDS
  MaxExpires,  \* MAX_EXPIRES of a presigned v4 query
  MaxDelay     \* bound: ticks from signing to arrival

ASSUME AuthParameters ==
  /\ Drifts \subseteq Int /\ MaxSkew \in Nat /\ MaxExpires \in Nat /\ MaxDelay \in Nat
  /\ [kind |-> "absent"] \in Payloads /\ [kind |-> "unsigned"] \in Payloads

VARIABLES
  now,       \* the server's clock, 0 when the client signs
  sent,      \* the request as signed
  arriving,  \* the request on its way, with its signature
  verdict    \* "idle", "sent", "admitted" or "refused"

authVars == <<now, sent, arriving, verdict>>

Schemes == {"v4-header", "v4-query", "v2-header", "v2-query"}
V4 == {"v4-header", "v4-query"}
Queries == {"v4-query", "v2-query"}
Absent == [kind |-> "absent"]
Unsigned == [kind |-> "unsigned"]

(* A client of scheme s signs with a key, the stamp its clock shows, how    *)
(* long the URL is to be good for, what it sets of the headers and, under   *)
(* v4, the names of those it signs: the host, the content type if it likes, *)
(* and each x-amz- header it bears. The signature is still to come.         *)
Requests(s) ==
  {r \in [scheme : {s}, op : Ops, signer : {"ours", "other"}, stamp : Drifts,
          expires : IF s \in Queries THEN 0..MaxExpires + 1 ELSE {0},
          host : {"public"}, forwarded : {""}, type : {"", "text"}, copy : {"", "source"},
          names : IF s \in V4 THEN {n \in SUBSET {"host", "type", "copy"} : "host" \in n} ELSE {{}},
          payload : Payloads, signature : {<<>>}] :
     /\ s # "v4-header" => r.payload \in {Absent, Unsigned}
     /\ s \in V4 => ("copy" \in r.names <=> r.copy # "")}

-----------------------------------------------------------------------------
(* The string to sign of a request, with the host and the content type it   *)
(* is tried with. v4 covers the headers that the request names, v2 all of   *)
(* x-amz-; no request is refused for a header that v4 leaves out.           *)
CoveredV4(r, host) ==
  [scheme |-> r.scheme, op |-> r.op, stamp |-> r.stamp, expires |-> r.expires, names |-> r.names,
   host |-> host, type |-> IF "type" \in r.names THEN r.type ELSE "",
   copy |-> IF "copy" \in r.names THEN r.copy ELSE "",
   payload |-> IF r.scheme = "v4-query" THEN Unsigned ELSE r.payload]

(* The stamp of a presigned v2 URL is its Expires.                          *)
CoveredV2(r, type) ==
  [scheme |-> r.scheme, op |-> r.op, type |-> type, copy |-> r.copy, payload |-> r.payload,
   date |-> IF r.scheme = "v2-query" THEN r.stamp + r.expires ELSE r.stamp]

(* Mutant: the payload's hash is not part of the canonical request.         *)
CoveredButPayload(r, host, type) ==
  IF r.scheme \in V4 THEN [CoveredV4(r, host) EXCEPT !.payload = Absent] ELSE CoveredV2(r, type)

Covered(r, host, type) == IF r.scheme \in V4 THEN CoveredV4(r, host) ELSE CoveredV2(r, type)

(* Mutant: only the Host of the connection is tried.                        *)
HostsArrived(r) == {r.host}

(* A proxy that rewrote Host usually passes on what it was.                 *)
HostsTried(r) ==
  {r.host} \cup (IF r.scheme \in V4 /\ "host" \in r.names /\ r.forwarded # ""
                 THEN {r.forwarded} ELSE {})

(* A client may presign without a content type and send one.                *)
TypesTried(r) == {r.type} \cup (IF r.scheme = "v2-query" THEN {""} ELSE {})

(* abs(now - stamp) <= MAX_SKEW                                             *)
WithinSkew(r) == r.stamp - MaxSkew <= now /\ now <= r.stamp + MaxSkew

(* A v2 URL is good from the start, a v4 one from the skew before its stamp.*)
BeforeExpiry(r) ==
  /\ r.scheme = "v4-query" => r.stamp - MaxSkew <= now
  /\ now <= r.stamp + r.expires

InWindow(r) == IF r.scheme \in Queries THEN BeforeExpiry(r) ELSE WithinSkew(r)

WellFormed(r) ==
  /\ r.scheme = "v4-query" => 0 < r.expires /\ r.expires <= MaxExpires
  /\ r.scheme = "v4-header" => r.payload # Absent

Signed(r, signer) == [secret |-> signer, over |-> Covered(r, r.host, r.type)]

Verified(r) ==
  \E host \in HostsTried(r), type \in TypesTried(r) :
    r.signature = [secret |-> "ours", over |-> Covered(r, host, type)]

(* The payload_hash of AuthResult: what spool holds the body against.       *)
Vouched(r) ==
  CASE r.scheme = "v4-header" -> r.payload [] r.scheme = "v4-query" -> Unsigned
    [] OTHER -> Absent

-----------------------------------------------------------------------------
NoRequest == [scheme |-> "none"]
AuthInit == now = 0 /\ sent = NoRequest /\ arriving = NoRequest /\ verdict = "idle"
AuthIdle == now' = 0 /\ sent' = NoRequest /\ arriving' = NoRequest /\ verdict' = "idle"

Sign(r) ==
  /\ verdict = "idle" /\ verdict' = "sent" /\ sent' = r
  /\ arriving' = [r EXCEPT !.signature = Signed(r, r.signer)]
  /\ UNCHANGED now

Delay ==
  /\ verdict = "sent" /\ now < MaxDelay /\ now' = now + 1
  /\ UNCHANGED <<sent, arriving, verdict>>

(* A proxy in front of the service.                                         *)
Proxy ==
  /\ verdict = "sent" /\ arriving.host = "public"
  /\ \E forwarded \in {"", "public"} :
       arriving' = [arriving EXCEPT !.host = "inner", !.forwarded = forwarded]
  /\ UNCHANGED <<now, sent, verdict>>

(* Host and signature apart, what arrives is what was signed.               *)
AsSent == \A f \in DOMAIN sent \ {"host", "forwarded", "signature"} : arriving[f] = sent[f]

(* A field (bound: one) does not arrive as it was sent.                     *)
Altered(r) ==
  {[r EXCEPT !.op = op] : op \in Ops} \cup {[r EXCEPT !.signer = "ours"]}
    \cup {[r EXCEPT !.stamp = stamp] : stamp \in Drifts}
    \cup {[r EXCEPT !.expires = n] : n \in IF r.scheme \in Queries THEN 0..MaxExpires ELSE {0}}
    \cup {[r EXCEPT !.type = type] : type \in {"", "text"}}
    \cup {[r EXCEPT !.copy = source] : source \in {"", "source"}}
    \cup {[r EXCEPT !.names = @ \ {name}] : name \in {"type", "copy"}}
    \cup {[r EXCEPT !.payload = p] : p \in Payloads}

Alter ==
  /\ verdict = "sent" /\ AsSent /\ arriving' \in Altered(arriving)
  /\ UNCHANGED <<now, sent, verdict>>

(* authenticate: the key is known, the time is in the window, and one of    *)
(* the strings to sign gives the signature presented.                       *)
Authenticate ==
  /\ verdict = "sent"
  /\ verdict' = IF /\ WellFormed(arriving) /\ arriving.signer = "ours"
                   /\ InWindow(arriving) /\ Verified(arriving)
                THEN "admitted" ELSE "refused"
  /\ UNCHANGED <<now, sent, arriving>>

Travel == Delay \/ Proxy \/ Alter \/ Authenticate

AuthNext ==
  \/ \E s \in Schemes : \E r \in Requests(s) : Sign(r)
  \/ Travel
  \/ verdict \in {"admitted", "refused"} /\ AuthIdle

AuthSpec == AuthInit /\ [][AuthNext]_authVars

-----------------------------------------------------------------------------
(* What is admitted is what the holder of the secret asked for, when it     *)
(* asked for it and for as long, with the payload the server will hold the  *)
(* body against and with every header that the signature covers. Two are    *)
(* not covered by all: the content type of a v4 request that did not sign   *)
(* it, or of a v2 URL signed without one; and the copy source of a v4       *)
(* request that was signed without one, so that what was signed as a plain  *)
(* PUT of a key may arrive, and be admitted, as a copy to that key. A copy  *)
(* is never admitted from another source, nor as a plain PUT.               *)
AdmittedAsSigned ==
  verdict = "admitted" =>
    /\ sent.signer = "ours" /\ arriving.op = sent.op
    /\ IF sent.scheme = "v2-query" THEN arriving.stamp + arriving.expires = sent.stamp + sent.expires
       ELSE arriving.stamp = sent.stamp /\ arriving.expires = sent.expires
    /\ arriving.type # sent.type =>
         IF sent.scheme = "v2-query" THEN sent.type = ""
         ELSE sent.scheme \in V4 /\ "type" \notin sent.names
    /\ arriving.copy # sent.copy => sent.scheme \in V4 /\ sent.copy = ""
    /\ Vouched(arriving) = Vouched(sent)

(* Nothing a client, its clock or a proxy is allowed to do costs a request: *)
(* unchanged but for a Host that was passed on, signed with the secret by a *)
(* clock at most the skew off and arriving before its expiry, it is         *)
(* admitted.                                                                *)
HonestAdmitted ==
  LET late == now > sent.stamp + (IF sent.scheme \in Queries THEN sent.expires ELSE MaxSkew)
      early == sent.scheme # "v2-query" /\ now < sent.stamp - MaxSkew
      hidden == sent.scheme \in V4 /\ arriving.host # sent.host /\ arriving.forwarded = ""
  IN verdict = "refused" /\ sent.signer = "ours" /\ WellFormed(sent) /\ AsSent
       => late \/ early \/ hidden
=============================================================================
