------------------------------ MODULE Transfer ------------------------------
(***************************************************************************)
(* The way of an object's bytes into the service, through the components    *)
(* that handle them: a request is authenticated (Auth), its body decoded    *)
(* and verified against what authentication vouched for (Body), and what    *)
(* was spooled is sent on, alone or as one of the parts of a completed      *)
(* upload (ConcatReader). A form upload (PostPolicy) is the other way in.   *)
(* One request at a time: requests share nothing of this.                   *)
(***************************************************************************)
EXTENDS Auth, Body, ConcatReader, PostPolicy

vars == <<authVars, bodyVars, readerVars, postVars>>

Init == AuthInit /\ BodyInit /\ ReaderInit /\ PostInit

Idle == verdict = "idle" /\ reading = "idle" /\ last = "closed" /\ outcome = "none"

-----------------------------------------------------------------------------
(* x-amz-content-sha256 as a client of a scheme sets it for a message: only *)
(* a v4 header vouches for the body, by its hash if it is not framed.       *)
PayloadOf(scheme, m) ==
  CASE scheme # "v4-header" -> Absent
    [] "hash" \in m.checks -> [kind |-> "hash", of |-> Content(m)]
    [] m.framed /\ m.signed -> [kind |-> "chain"]
    [] m.framed /\ ~m.signed -> [kind |-> "stream"]
    [] OTHER -> Unsigned

MessagesOf(r) ==
  {m \in Messages :
     /\ PayloadOf(r.scheme, m) = r.payload
     /\ m.signed \/ "hash" \in m.checks => r.scheme = "v4-header"}

(* What spool reads of AuthResult and of the headers.                       *)
ToldOf(m, payload) ==
  [ToldBy(m) EXCEPT !.signed = payload.kind = "chain",
                    !.hash = IF payload.kind = "hash" THEN payload.of ELSE None]

-----------------------------------------------------------------------------
Ask ==
  /\ Idle
  /\ \E s \in Schemes : \E r \in Requests(s) : MessagesOf(r) # {} /\ Sign(r)
  /\ UNCHANGED <<bodyVars, readerVars, postVars>>

TravelOn == Travel /\ UNCHANGED <<bodyVars, readerVars, postVars>>

(* context: the handler sees of the authentication its AuthResult. A copy   *)
(* is another handler's, which reads no body.                               *)
Dispatch ==
  /\ verdict = "admitted" /\ arriving.copy = ""
  /\ verdict' = "dispatched" /\ now' = 0
  /\ sent' = [scheme |-> sent.scheme, payload |-> sent.payload]
  /\ arriving' = Vouched(arriving)
  /\ UNCHANGED <<bodyVars, readerVars, postVars>>

Receive ==
  /\ verdict = "dispatched"
  /\ \E m \in MessagesOf(sent) : \E body \in Arriving(m) : Spool(m, ToldOf(m, arriving), body)
  /\ AuthIdle /\ UNCHANGED <<readerVars, postVars>>

DecodeOn == Decode /\ UNCHANGED <<authVars, readerVars, postVars>>

(* A spooled body is put as an object, or completes an upload as a part.    *)
Store ==
  /\ reading = "done" /\ BodyIdle
  /\ \/ UNCHANGED readerVars
     \/ \E files \in FileLists : (\E i \in DOMAIN files : files[i] = Len(out)) /\ Construct(files)
  /\ UNCHANGED <<authVars, postVars>>

SendOn == Reading /\ UNCHANGED <<authVars, bodyVars, postVars>>

PostForm ==
  /\ verdict = "idle" /\ reading = "idle" /\ last = "closed"
  /\ Posting /\ UNCHANGED <<authVars, bodyVars, readerVars>>

(* An error, or the answer to a copy or to a form, ends the request.        *)
Answer ==
  \/ verdict = "refused" /\ AuthIdle /\ UNCHANGED <<bodyVars, readerVars, postVars>>
  \/ verdict = "admitted" /\ arriving.copy # "" /\ AuthIdle /\ UNCHANGED <<bodyVars, readerVars, postVars>>
  \/ reading = "refused" /\ BodyIdle /\ UNCHANGED <<authVars, readerVars, postVars>>
  \/ outcome \in {"stored", "denied"} /\ PostIdle /\ UNCHANGED <<authVars, bodyVars, readerVars>>

Next ==
  \/ Ask \/ TravelOn \/ Dispatch \/ Receive \/ DecodeOn \/ Store \/ SendOn \/ PostForm \/ Answer

Spec == Init /\ [][Next]_vars
=============================================================================
