--------------------------- MODULE UpstreamProofs ---------------------------
(* What is proved of Upstream for every value of its constants.             *)
EXTENDS Upstream, TLAPS

Listings == {None} \cup UNION {[Under(x) -> Objects \cup {None}] : x \in Prefixes}

Locals ==
  [pc : Labels, op : Ops, key : Keys \cup {None}, src : Keys \cup {None}, prefix : Prefixes,
   started : Nat, entries : Listings, raced : BOOLEAN, mark : Nat, cond : Conditions,
   size : Nat, info : {None} \cup Infos,
   range : Headers \cup [first : Int, last : Int],
   body : {None} \cup [etag : 1..MaxWrites, length : Int],
   told : {"nothing", "deleted", "error"}]

Senders == {"put", "copy", "delete", "rmdir", "rmbucket"}

(* What a program counter and an operation say of the other locals.         *)
LocalsOK(r) ==
  /\ r.op \in {"put", "copy", "delete", "get"} => r.key \in Keys
  /\ r.op = "copy" => r.src \in Keys
  /\ r.op = "put" => r.size \in Sizes
  /\ r.op = "rmdir" => r.prefix = "dir/"
  /\ r.op = "rmbucket" => r.prefix = ""
  /\ r.pc \in {"fetch", "store"} => r.op \in {"list", "rmdir", "rmbucket"}
  /\ r.pc = "store" => r.entries \in [Under(r.prefix) -> Objects \cup {None}]
  /\ r.pc \in {"stat", "lag"} => r.op \in {"put", "copy", "get"} /\ r.info = None
  /\ r.pc \in {"send", "invalidate"} => r.op \in Senders
  /\ r.pc = "copying" => r.op = "copy"
  /\ r.pc \in {"get", "stream"} => r.op = "get" /\ r.info # None
  /\ r.told = "deleted" => r.op = "delete" /\ r.pc = "invalidate"
  /\ r.op = "copy" /\ r.pc \in {"send", "copying"} => r.src # r.key

InBounds(range, size) ==
  /\ range.first \in Int /\ range.last \in Int
  /\ 0 <= range.first /\ range.first <= range.last /\ range.last < size

Ranged(r) ==
  /\ r.pc \in {"stat", "lag"} => r.range \in Headers
  /\ r.pc = "get" => r.range = None \/ InBounds(r.range, r.info.size)
  /\ r.pc = "stream" /\ r.body.etag = r.info.etag => r.body.length = Announced(r)

(* What the locals say of the gateway.                                      *)
Timely(r) == r.started <= now /\ r.mark <= writes

(* Of a listing: what is there now and was not found has been written       *)
(* since, and it is right about what has not changed since it was begun.    *)
Fetched(r) ==
  r.pc = "store" => \A k \in Under(r.prefix) :
    /\ store[k] = None \/ store[k] = r.entries[k] \/ r.mark < store[k].etag
    /\ since[k] < r.started => r.entries[k] = store[k]

Listed(r) ==
  r.pc = "listed" => \A k \in Under(r.prefix) :
    since[k] + CacheSeconds <= r.started => r.entries[k] = store[k]

FoundEmpty(r) ==
  r.pc = "send" /\ r.op \in {"rmdir", "rmbucket"} =>
    \A k \in Touches(r) : store[k] # None => r.mark < store[k].etag

Gone(r) == r.told = "deleted" /\ store[r.key] # None => r.mark < store[r.key].etag

(* What stat said of an object holds of it as long as it is there, and what *)
(* a conditional PUT is about to replace meets its condition or came later. *)
Informed(r) ==
  /\ r.op \in {"put", "get"} /\ r.info # None /\ r.info.etag # None =>
       /\ r.info.etag <= writes
       /\ store[r.key] # None /\ store[r.key].etag = r.info.etag => store[r.key] = r.info
  /\ r.op = "put" /\ r.pc = "send" /\ r.cond # None => MetOrLater(r)

Sound(r) == r \in Locals /\ LocalsOK(r) /\ Ranged(r)

Current(r) == Timely(r) /\ Fetched(r) /\ Listed(r) /\ FoundEmpty(r) /\ Gone(r) /\ Informed(r)

GatewayOK ==
  /\ now \in 0..MaxTime /\ exists \in BOOLEAN
  /\ store \in [Keys -> Objects \cup {None}] /\ writes \in 0..MaxWrites
  /\ lagging \subseteq Keys /\ since \in [Keys -> 0..MaxTime]
  /\ \A k \in Keys : store[k] # None => store[k].etag <= writes

CacheOK ==
  /\ DOMAIN cache = Prefixes
  /\ \A x \in Prefixes : cache[x] # None =>
       /\ cache[x] \in Cached(x) /\ cache[x].taken <= now
       /\ \A k \in Under(x) : since[k] < cache[x].taken => cache[x].entries[k] = store[k]

ReqOK == req \in [Requests -> Locals] /\ \A p \in Requests : Sound(req[p]) /\ Current(req[p])

Inv == GatewayOK /\ CacheOK /\ ReqOK

FetchCoherent ==
  \A p \in Requests : req[p].pc = "store" /\ ~req[p].raced =>
    \A k \in Under(req[p].prefix) : req[p].entries[k] = store[k] \/ Unsettled(k)

Coherent == CacheCoherent /\ FetchCoherent
-----------------------------------------------------------------------------
(* How a step of any action changes the gateway: a key keeps its object, or *)
(* changes now, to none or to one with an ETag not given before.            *)
Written(k) ==
  \/ store'[k] = store[k] /\ since'[k] = since[k]
  \/ since'[k] = now /\ (store'[k] = None \/ writes < store'[k].etag)

GatewayStep == writes <= writes' /\ now <= now' /\ \A k \in Keys : Written(k)

(* Idle is a sound request, and says nothing of the gateway.                *)
LEMMA IdleSound == Sound(Idle)
<1>1. Idle \in Locals
  BY StoreParameters DEF Idle, Locals, Listings, Conditions, Headers, Labels, Ops, Prefixes
<1>2. LocalsOK(Idle)  BY DEF Idle, LocalsOK, Senders
<1>3. Ranged(Idle)  BY DEF Idle, Ranged, Announced
<1> QED  BY <1>1, <1>2, <1>3 DEF Sound

(* Under is a set of keys, and no key or number is None.                    *)
LEMMA UnderKeys == ASSUME NEW x PROVE Under(x) \subseteq Keys
  BY StoreParameters DEF Under

LEMMA ObjectFacts ==
  ASSUME NEW o \in Objects
  PROVE  o \in Infos /\ o # None /\ o.etag \in 1..MaxWrites /\ o.size \in Sizes /\ o.etag \in Nat
                     /\ o.size \in Nat /\ o.etag # None /\ o = [etag |-> o.etag, size |-> o.size]
  BY StoreParameters, NoneIsNoObject DEF Objects, Infos

(* What a request that takes no step knows of the gateway stays true.       *)
LEMMA CurrentKept ==
  ASSUME GatewayOK, GatewayOK', GatewayStep, NEW r, Sound(r), Current(r)
  PROVE  Current(r)'
<1> USE DEF Sound, Current
<1>1. now \in Nat /\ now' \in Nat /\ writes \in Nat /\ writes' \in Nat /\ now <= now' /\ writes <= writes'
  BY StoreParameters DEF GatewayOK, GatewayStep
<1>2. r.started \in Nat /\ r.mark \in Nat /\ r.started <= now /\ r.mark <= writes
  BY DEF Timely, Locals
<1>3. \A k \in Keys : /\ since[k] \in Nat /\ since'[k] \in Nat
                      /\ store[k] # None => store[k] \in Objects /\ store[k].etag \in Nat
                      /\ store'[k] # None => store'[k] \in Objects /\ store'[k].etag \in Nat
  BY ObjectFacts, StoreParameters DEF GatewayOK
<1>4. \A k \in Keys : Written(k)
  BY DEF GatewayStep
<1>5. Timely(r)'
  BY <1>1, <1>2 DEF Timely
<1>6. Fetched(r)'
  BY <1>1, <1>2, <1>3, <1>4, UnderKeys DEF Fetched, Written
<1>7. Listed(r)'
  BY <1>1, <1>2, <1>3, <1>4, UnderKeys, StoreParameters DEF Listed, Written
<1>8. ASSUME NEW k \in Touches(r), r.pc = "send", r.op \in {"rmdir", "rmbucket"} PROVE k \in Keys
  BY <1>8, StoreParameters DEF Touches
<1>9. FoundEmpty(r)'
  BY <1>1, <1>2, <1>3, <1>4, <1>8 DEF FoundEmpty, Written
<1>10. r.told = "deleted" => r.key \in Keys
  BY DEF LocalsOK
<1>11. Gone(r)'
  BY <1>1, <1>2, <1>3, <1>4, <1>10 DEF Gone, Written
<1>12. r.op \in {"put", "get"} /\ r.info # None /\ r.info.etag # None =>
         r.key \in Keys /\ r.info.etag \in Nat
  <2>1. r.info \in {None} \cup Infos  BY DEF Locals
  <2>2. \A i \in Infos : i.etag \in 1..MaxWrites \cup {None}  BY DEF Infos
  <2>3. r.op \in {"put", "get"} => r.key \in Keys  BY DEF LocalsOK
  <2> QED  BY <2>1, <2>2, <2>3, StoreParameters
<1>13. Informed(r)'
  <2>1. ASSUME r.op = "put", r.pc = "send", r.cond # None PROVE MetOrLater(r)'
    <3>1. r.key \in Keys /\ MetOrLater(r)  BY <2>1 DEF LocalsOK, Informed
    <3> QED  BY <1>1, <1>2, <1>3, <1>4, <3>1 DEF MetOrLater, Written
  <2> QED  BY <1>1, <1>3, <1>4, <1>12, <2>1 DEF Informed, Written
<1> QED  BY <1>5, <1>6, <1>7, <1>9, <1>11, <1>13

(* Nor does it depend on whether its fetch was overtaken.                   *)
LEMMA RacedKept ==
  ASSUME NEW r, Sound(r), NEW b \in BOOLEAN
  PROVE  /\ Sound([r EXCEPT !.raced = b])
         /\ Current(r) => Current([r EXCEPT !.raced = b])
<1> DEFINE s == [r EXCEPT !.raced = b]
<1>1. s \in Locals
  BY DEF Sound, Locals
<1>2. /\ s.pc = r.pc /\ s.op = r.op /\ s.key = r.key /\ s.src = r.src /\ s.prefix = r.prefix
      /\ s.started = r.started /\ s.entries = r.entries /\ s.mark = r.mark /\ s.cond = r.cond
      /\ s.size = r.size /\ s.info = r.info /\ s.range = r.range /\ s.body = r.body /\ s.told = r.told
  BY DEF Sound, Locals
<1> HIDE DEF s
<1>3. LocalsOK(s) /\ Ranged(s)
  BY <1>2 DEF Sound, LocalsOK, Ranged, Announced
<1>4. Current(r) => Current(s)
  BY <1>2 DEF Current, Timely, Fetched, Listed, FoundEmpty, Gone, Informed, MetOrLater, Touches
<1> QED  BY <1>1, <1>3, <1>4 DEF s, Sound

(* A step keeps ReqOK if each request that moves stays sound and current.   *)
LEMMA ReqStep ==
  ASSUME Inv, GatewayOK', GatewayStep,
         req' = [q \in Requests |-> req'[q]],
         \A q \in Requests : \/ req'[q] = req[q]
                             \/ Sound(req'[q]) /\ Current(req[q])'
  PROVE  ReqOK'
<1> SUFFICES ASSUME NEW q \in Requests PROVE Sound(req'[q]) /\ Current(req[q])'
  BY DEF ReqOK, Sound
<1>1. CASE req'[q] = req[q]
  <2> DEFINE r == req[q]
  <2>1. Sound(r) /\ Current(r)  BY DEF Inv, ReqOK
  <2>2. \A s : Sound(s) /\ Current(s) => Current(s)'
    BY CurrentKept DEF Inv
  <2> QED  BY <1>1, <2>1, <2>2 DEF Current, Timely, Fetched, Listed, FoundEmpty, Gone, Informed, MetOrLater
<1> QED  BY <1>1
-----------------------------------------------------------------------------
(* The gateway's own operations, in the middle of which no time passes.     *)
LEMMA Quiet ==
  ASSUME GatewayOK, now' \in 0..MaxTime, now <= now', exists' \in BOOLEAN,
         UNCHANGED <<store, writes, since>>, lagging' \subseteq Keys
  PROVE  GatewayOK' /\ GatewayStep
  BY StoreParameters DEF GatewayOK, GatewayStep, Written

LEMMA WriteStep ==
  ASSUME GatewayOK, NEW k \in Keys, NEW size \in Sizes, Write(k, size), UNCHANGED now
  PROVE  GatewayOK' /\ GatewayStep
<1> DEFINE o == [etag |-> writes + 1, size |-> size]
<1> USE StoreParameters DEF GatewayOK
<1>1. o \in Objects /\ o.etag = writes + 1
  BY DEF Write, Objects
<1> HIDE DEF o
<1>2. store' = [store EXCEPT ![k] = o] /\ writes' = writes + 1 /\ since' = [since EXCEPT ![k] = now]
  BY DEF Write, o
<1>3. store' \in [Keys -> Objects \cup {None}] /\ since' \in [Keys -> 0..MaxTime]
  BY <1>1, <1>2
<1>4. writes' \in 0..MaxWrites /\ lagging' \subseteq Keys /\ exists' \in BOOLEAN
  BY DEF Write
<1>5. ASSUME NEW j \in Keys, store'[j] # None PROVE store'[j].etag <= writes'
  <2>1. CASE j = k  BY <1>1, <1>2, <2>1
  <2>2. CASE j # k
    <3>1. store[j] \in Objects /\ store[j].etag <= writes  BY <1>2, <1>5, <2>2
    <3>2. store[j].etag \in Nat  BY <3>1, ObjectFacts
    <3> QED  BY <1>2, <2>2, <3>1, <3>2
  <2> QED  BY <2>1, <2>2
<1>6. ASSUME NEW j \in Keys PROVE Written(j)
  BY <1>1, <1>2 DEF Written
<1> QED  BY <1>2, <1>3, <1>4, <1>5, <1>6 DEF GatewayStep

LEMMA EraseStep ==
  ASSUME GatewayOK, NEW K \in SUBSET Keys, Erase(K), UNCHANGED now
  PROVE  GatewayOK' /\ GatewayStep
  BY StoreParameters DEF GatewayOK, GatewayStep, Erase, Written

LEMMA DropStep ==
  ASSUME GatewayOK, DropBucket, UNCHANGED now
  PROVE  GatewayOK' /\ GatewayStep
<1> USE StoreParameters DEF GatewayOK, DropBucket
<1>1. since' \in [Keys -> 0..MaxTime]
  <2>1. \A k \in Keys : (IF store[k] # None THEN now ELSE since[k]) \in 0..MaxTime  OBVIOUS
  <2> QED  BY <2>1
<1>2. store' \in [Keys -> Objects \cup {None}] /\ \A k \in Keys : store'[k] = None
  OBVIOUS
<1>3. ASSUME NEW k \in Keys PROVE Written(k)
  BY <1>2 DEF Written
<1>4. now' \in 0..MaxTime /\ writes' \in 0..MaxWrites /\ exists' \in BOOLEAN /\ lagging' \subseteq Keys
  OBVIOUS
<1>5. GatewayStep  BY <1>3 DEF GatewayStep
<1> HIDE DEF DropBucket
<1> QED  BY <1>1, <1>2, <1>4, <1>5

(* What is cached stays right of what has not changed since it was fetched. *)
LEMMA CacheKept ==
  ASSUME GatewayOK, GatewayOK', GatewayStep, CacheOK, UNCHANGED cache
  PROVE  CacheOK'
<1> SUFFICES ASSUME NEW x \in Prefixes, cache[x] # None
             PROVE  /\ cache[x].taken <= now'
                    /\ \A k \in Under(x) : since'[k] < cache[x].taken => cache[x].entries[k] = store'[k]
  BY DEF CacheOK
<1>1. cache[x].taken \in Nat /\ cache[x].taken <= now /\ now \in Nat /\ now' \in Nat /\ now <= now'
  BY StoreParameters DEF CacheOK, Cached, GatewayOK, GatewayStep
<1>2. ASSUME NEW k \in Under(x), since'[k] < cache[x].taken PROVE cache[x].entries[k] = store'[k]
  <2>1. k \in Keys /\ Written(k)  BY UnderKeys DEF GatewayStep
  <2>2. since'[k] # now  BY <1>1, <1>2
  <2> QED  BY <1>2, <2>1, <2>2 DEF Written, CacheOK
<1> QED  BY <1>1, <1>2
-----------------------------------------------------------------------------
(* A step in which one request moves.                                       *)
LEMMA ReqMoves ==
  ASSUME Inv, GatewayOK', GatewayStep, NEW p \in Requests, NEW r, Sound(r), Current(r)',
         req' = [req EXCEPT ![p] = r]
  PROVE  ReqOK'
<1>1. req \in [Requests -> Locals]  BY DEF Inv, ReqOK
<1>2. req' = [q \in Requests |-> req'[q]]  BY <1>1
<1>3. ASSUME NEW q \in Requests PROVE \/ req'[q] = req[q]
                                      \/ Sound(req'[q]) /\ Current(req[q])'
  <2>1. CASE q = p
    <3>1. req'[q] = r  BY <1>1, <2>1
    <3>2. Current(req[q])'
      BY <3>1 DEF Current, Timely, Fetched, Listed, FoundEmpty, Gone, Informed, MetOrLater, Touches
    <3> QED  BY <3>1, <3>2
  <2>2. CASE q # p  BY <1>1, <2>2
  <2> QED  BY <2>1, <2>2
<1> QED  BY <1>2, <1>3, ReqStep

(* What is sound and only begun, or finished, says nothing of the gateway   *)
(* but its times.                                                           *)
LEMMA Unspoken ==
  ASSUME NEW r, r.info = None, r.told # "deleted", r.pc \notin {"store", "listed"},
         r.pc = "send" => r.op \notin {"rmdir", "rmbucket"} /\ (r.op = "put" => r.cond = None), Timely(r)'
  PROVE  Current(r)'
  BY DEF Current, Fetched, Listed, FoundEmpty, Gone, Informed

LEMMA IdleCurrent == ASSUME GatewayOK' PROVE Current(Idle)'
<1>1. now' \in Nat /\ writes' \in Nat  BY StoreParameters DEF GatewayOK
<1>2. Timely(Idle)'  BY <1>1 DEF Timely, Idle
<1> QED  BY <1>2 DEF Current, Fetched, Listed, FoundEmpty, Gone, Informed, Idle

LEMMA Finishes ==
  ASSUME Inv, GatewayOK', GatewayStep, NEW p \in Requests, Finish(p)
  PROVE  ReqOK'
  BY ReqMoves, IdleSound, IdleCurrent DEF Finish
-----------------------------------------------------------------------------
(* Each action keeps what is known of the requests. First those that begin  *)
(* one.                                                                     *)
LEMMA Times == ASSUME GatewayOK PROVE now \in Nat /\ writes \in Nat
  BY StoreParameters DEF GatewayOK

LEMMA Still ==
  ASSUME GatewayOK, UNCHANGED <<now, gateway>> PROVE GatewayOK' /\ GatewayStep
  BY Quiet, Times DEF GatewayOK, gateway

LEMMA ListKeeps == ASSUME Inv, NEW p \in Requests, List(p) PROVE ReqOK'
<1> USE DEF Inv
<1>1. PICK x \in Prefixes : req' = [req EXCEPT ![p] =
             IF cache[x] # None /\ now - cache[x].taken < CacheSeconds
             THEN [Idle EXCEPT !.op = "list", !.prefix = x, !.started = now,
                               !.pc = "listed", !.entries = cache[x].entries]
             ELSE [Idle EXCEPT !.op = "list", !.prefix = x, !.started = now, !.pc = "fetch"]]
  BY DEF List, Begin, Idle
<1>2. UNCHANGED <<now, gateway>> /\ GatewayOK' /\ GatewayStep
  BY Still DEF List
<1>3. now \in Nat /\ writes \in Nat  BY Times
<1>4. CASE cache[x] # None /\ now - cache[x].taken < CacheSeconds
  <2>1. PICK r : r = [Idle EXCEPT !.op = "list", !.prefix = x, !.started = now,
                                  !.pc = "listed", !.entries = cache[x].entries]
    OBVIOUS
  <2>2. /\ r.pc = "listed" /\ r.op = "list" /\ r.prefix = x /\ r.started = now
        /\ r.entries = cache[x].entries /\ r.mark = 0 /\ r.info = None /\ r.told = "nothing"
    BY <2>1 DEF Idle
  <2>3. r \in Locals
    <3>1. cache[x].entries \in Listings  BY <1>4 DEF CacheOK, Cached, Listings
    <3> QED  BY <1>3, <2>1, <3>1, IdleSound DEF Sound, Locals, Labels, Ops
  <2>4. Sound(r)
    BY <2>2, <2>3 DEF Sound, LocalsOK, Ranged
  <2>5. Listed(r)'
    <3> SUFFICES ASSUME NEW k \in Under(x), since[k] + CacheSeconds <= now
                 PROVE  cache[x].entries[k] = store[k]
      BY <1>2, <2>2 DEF Listed, gateway
    <3>1. since[k] \in Nat /\ cache[x].taken \in Nat /\ CacheSeconds \in Nat
      BY <1>4, UnderKeys, StoreParameters DEF GatewayOK, CacheOK, Cached
    <3>2. since[k] < cache[x].taken  BY <1>3, <1>4, <3>1
    <3> QED  BY <1>4, <3>2 DEF CacheOK
  <2>6. Current(r)'
    <3>1. Timely(r)'  BY <1>2, <1>3, <2>2 DEF Timely, gateway
    <3> QED  BY <2>2, <2>5, <3>1 DEF Current, Fetched, FoundEmpty, Gone, Informed
  <2>7. req' = [req EXCEPT ![p] = r]  BY <1>1, <1>4, <2>1
  <2> QED  BY <1>2, <2>4, <2>6, <2>7, ReqMoves
<1>5. CASE ~(cache[x] # None /\ now - cache[x].taken < CacheSeconds)
  <2>1. PICK r : r = [Idle EXCEPT !.op = "list", !.prefix = x, !.started = now, !.pc = "fetch"]
    OBVIOUS
  <2>2. /\ r.pc = "fetch" /\ r.op = "list" /\ r.started = now /\ r.mark = 0
        /\ r.info = None /\ r.told = "nothing"
    BY <2>1 DEF Idle
  <2>3. r \in Locals
    BY <1>3, <2>1, IdleSound DEF Sound, Locals, Labels, Ops
  <2>4. Sound(r)
    BY <2>2, <2>3 DEF Sound, LocalsOK, Ranged
  <2>5. Current(r)'
    <3>1. Timely(r)'  BY <1>2, <1>3, <2>2 DEF Timely, gateway
    <3> QED  BY <2>2, <3>1, Unspoken
  <2>6. req' = [req EXCEPT ![p] = r]  BY <1>1, <1>5, <2>1
  <2> QED  BY <1>2, <2>4, <2>5, <2>6, ReqMoves
<1> QED  BY <1>4, <1>5

(* A request just begun: it has found out nothing yet.                      *)
LEMMA Begins ==
  ASSUME Inv, UNCHANGED <<now, gateway>>, NEW p \in Requests, NEW r \in Locals, LocalsOK(r), Ranged(r),
         r.info = None, r.told = "nothing", r.pc \notin {"store", "listed"},
         r.pc = "send" => r.op \notin {"rmdir", "rmbucket"} /\ (r.op = "put" => r.cond = None),
         r.started <= now, r.mark <= writes,
         req' = [req EXCEPT ![p] = r]
  PROVE  ReqOK'
<1>1. GatewayOK' /\ GatewayStep  BY Still DEF Inv
<1>2. Timely(r)'  BY DEF Timely, gateway
<1> QED  BY <1>1, <1>2, Unspoken, ReqMoves DEF Sound

LEMMA GetKeeps == ASSUME Inv, NEW p \in Requests, Get(p) PROVE ReqOK'
<1>0. PICK k \in Keys, header \in Headers :
        Begin(p, [Idle EXCEPT !.op = "get", !.pc = "stat", !.key = k, !.range = header])
  BY DEF Get
<1>1. PICK r : /\ r = [Idle EXCEPT !.op = "get", !.pc = "stat", !.key = k, !.range = header]
               /\ req' = [req EXCEPT ![p] = r]
  BY <1>0 DEF Begin
<1>2. /\ r.pc = "stat" /\ r.op = "get" /\ r.key = k /\ r.range = header /\ r.info = None
      /\ r.told = "nothing" /\ r.started = 0 /\ r.mark = 0
  BY <1>1 DEF Idle
<1>3. r \in Locals  BY <1>1, IdleSound DEF Sound, Locals, Labels, Ops
<1>4. LocalsOK(r) /\ Ranged(r)  BY <1>2 DEF LocalsOK, Ranged
<1>5. 0 <= now /\ 0 <= writes /\ UNCHANGED <<now, gateway>>  BY Times DEF Inv, Get
<1> QED  BY <1>1, <1>2, <1>3, <1>4, <1>5, Begins

LEMMA PutBegins ==
  ASSUME Inv, UNCHANGED <<now, gateway>>, NEW p \in Requests, NEW r \in Locals, r.op = "put",
         r.pc \in {"send", "stat"}, r.pc = "send" => r.cond = None, r.key \in Keys, r.size \in Sizes,
         r.range = None, r.info = None, r.told = "nothing", r.started = 0, r.mark = 0,
         req' = [req EXCEPT ![p] = r]
  PROVE  ReqOK'
<1>1. LocalsOK(r) /\ Ranged(r)
  BY DEF LocalsOK, Ranged, Headers, Senders
<1>2. r.mark <= writes /\ r.started <= now  BY Times DEF Inv
<1> QED  BY <1>1, <1>2, Begins

LEMMA PutKeeps == ASSUME Inv, NEW p \in Requests, Put(p) PROVE ReqOK'
<1>1. PICK k \in Keys, size \in Sizes, cond \in Conditions, pc \in {"send", "stat"} :
        /\ pc = "send" => cond = None
        /\ req' = [req EXCEPT ![p] = [Idle EXCEPT !.op = "put", !.key = k, !.size = size, !.cond = cond,
                                                 !.pc = pc]]
  BY DEF Put, Begin
<1>2. PICK r : r = [Idle EXCEPT !.op = "put", !.key = k, !.size = size, !.cond = cond, !.pc = pc]
  OBVIOUS
<1>3. /\ r.pc = pc /\ r.op = "put" /\ r.key = k /\ r.cond = cond /\ r.size = size /\ r.range = None
      /\ r.info = None /\ r.told = "nothing" /\ r.started = 0 /\ r.mark = 0
  BY <1>2 DEF Idle
<1>4. r \in Locals
  <2>1. size \in Nat  BY StoreParameters
  <2> QED  BY <1>2, <2>1, IdleSound DEF Sound, Locals, Labels, Ops
<1>5. UNCHANGED <<now, gateway>>  BY DEF Put
<1>6. req' = [req EXCEPT ![p] = r]  BY <1>1, <1>2
<1> QED  BY <1>1, <1>3, <1>4, <1>5, <1>6, PutBegins

LEMMA PostKeeps == ASSUME Inv, NEW p \in Requests, Post(p) PROVE ReqOK'
<1>1. PICK k \in Keys, size \in Sizes :
        req' = [req EXCEPT ![p] = [Idle EXCEPT !.op = "put", !.key = k, !.size = size, !.pc = "send"]]
  BY DEF Post, Begin
<1>2. PICK r : r = [Idle EXCEPT !.op = "put", !.key = k, !.size = size, !.pc = "send"]
  OBVIOUS
<1>3. /\ r.pc = "send" /\ r.op = "put" /\ r.key = k /\ r.cond = None /\ r.size = size /\ r.range = None
      /\ r.info = None /\ r.told = "nothing" /\ r.started = 0 /\ r.mark = 0
  BY <1>2 DEF Idle
<1>4. r \in Locals
  <2>1. size \in Nat  BY StoreParameters
  <2> QED  BY <1>2, <2>1, IdleSound DEF Sound, Locals, Labels, Ops
<1>5. UNCHANGED <<now, gateway>>  BY DEF Post
<1>6. req' = [req EXCEPT ![p] = r]  BY <1>1, <1>2
<1> QED  BY <1>3, <1>4, <1>5, <1>6, PutBegins

LEMMA CopyKeeps == ASSUME Inv, NEW p \in Requests, Copy(p) PROVE ReqOK'
<1>0. PICK k \in Keys, src \in Keys :
        Begin(p, [Idle EXCEPT !.op = "copy", !.key = k, !.src = src, !.pc = "stat"])
  BY DEF Copy
<1>1. PICK r : /\ r = [Idle EXCEPT !.op = "copy", !.key = k, !.src = src, !.pc = "stat"]
               /\ req' = [req EXCEPT ![p] = r]
  BY <1>0 DEF Begin
<1>2. /\ r.pc = "stat" /\ r.op = "copy" /\ r.key = k /\ r.src = src /\ r.range = None /\ r.info = None
      /\ r.told = "nothing" /\ r.started = 0 /\ r.mark = 0
  BY <1>1 DEF Idle
<1>3. r \in Locals  BY <1>1, IdleSound DEF Sound, Locals, Labels, Ops
<1>4. LocalsOK(r) /\ Ranged(r)
  BY <1>2 DEF LocalsOK, Ranged, Headers
<1>5. 0 <= now /\ 0 <= writes /\ UNCHANGED <<now, gateway>>  BY Times DEF Inv, Copy
<1> QED  BY <1>1, <1>2, <1>3, <1>4, <1>5, Begins

LEMMA DeletionSound ==
  ASSUME Inv, NEW k \in Keys, NEW r, r = Deletion(k)
  PROVE  /\ Sound(r) /\ Timely(r)
         /\ r.pc = "send" /\ r.op = "delete" /\ r.info = None /\ r.told = "nothing"
<1>1. now \in Nat /\ writes \in Nat  BY Times DEF Inv
<1>2. /\ r.pc = "send" /\ r.op = "delete" /\ r.key = k /\ r.range = None /\ r.info = None
      /\ r.told = "nothing" /\ r.started = 0 /\ r.mark = writes
  BY DEF Deletion, Idle
<1>3. r \in Locals  BY <1>1, IdleSound DEF Deletion, Sound, Locals, Labels, Ops
<1>4. LocalsOK(r) /\ Ranged(r)
  BY <1>2 DEF LocalsOK, Ranged, Headers, Senders
<1> QED  BY <1>1, <1>2, <1>3, <1>4 DEF Sound, Timely

LEMMA DeleteKeeps == ASSUME Inv, NEW p \in Requests, Delete(p) PROVE ReqOK'
<1>0. PICK k \in Keys : Begin(p, Deletion(k))  BY DEF Delete
<1>1. PICK r : r = Deletion(k) /\ req' = [req EXCEPT ![p] = r]
  BY <1>0 DEF Begin
<1>2. UNCHANGED <<now, gateway>>  BY DEF Delete
<1>3. Sound(r) /\ Timely(r) /\ r.pc = "send" /\ r.op = "delete" /\ r.info = None /\ r.told = "nothing"
  BY <1>1, DeletionSound
<1> QED  BY <1>1, <1>2, <1>3, Begins DEF Sound, Timely

LEMMA DeleteBatchKeeps == ASSUME Inv, DeleteBatch PROVE ReqOK'
<1>1. PICK W \in SUBSET Requests : \E key \in [W -> Keys] :
        req' = [q \in Requests |-> IF q \in W THEN Deletion(key[q]) ELSE req[q]]
  BY DEF DeleteBatch
<1>0. PICK key \in [W -> Keys] :
        req' = [q \in Requests |-> IF q \in W THEN Deletion(key[q]) ELSE req[q]]
  BY <1>1
<1>2. UNCHANGED <<now, gateway>> /\ GatewayOK' /\ GatewayStep  BY Still DEF DeleteBatch, Inv
<1>3. ASSUME NEW q \in Requests, q \in W PROVE Sound(req'[q]) /\ Current(req[q])'
  <2>1. PICK r : r = req'[q]  OBVIOUS
  <2>2. r = Deletion(key[q]) /\ key[q] \in Keys  BY <1>0, <1>3, <2>1
  <2>3. Sound(r) /\ Timely(r) /\ r.pc = "send" /\ r.op = "delete" /\ r.info = None /\ r.told = "nothing"
    BY <2>2, DeletionSound
  <2>4. Timely(r)'  BY <1>2, <2>3 DEF Timely, gateway
  <2>5. Current(r)'  BY <2>3, <2>4, Unspoken
  <2> QED  BY <2>1, <2>3, <2>5 DEF Current, Timely, Fetched, Listed, FoundEmpty, Gone, Informed, MetOrLater, Touches
<1> QED  BY <1>0, <1>2, <1>3, ReqStep

LEMMA DeleteAllKeeps == ASSUME Inv, NEW p \in Requests, DeleteAll(p) PROVE ReqOK'
<1>1. PICK op \in {"rmdir", "rmbucket"}, x \in Prefixes :
        /\ x = (IF op = "rmdir" THEN "dir/" ELSE "")
        /\ req' = [req EXCEPT ![p] = [Idle EXCEPT !.op = op, !.pc = "fetch", !.started = now, !.mark = writes,
                                                 !.prefix = x]]
  BY DEF DeleteAll, Begin, Prefixes
<1>2. PICK r : r = [Idle EXCEPT !.op = op, !.pc = "fetch", !.started = now, !.mark = writes, !.prefix = x]
  OBVIOUS
<1>3. /\ r.pc = "fetch" /\ r.op = op /\ r.prefix = x
      /\ r.info = None /\ r.told = "nothing" /\ r.started = now /\ r.mark = writes
  BY <1>2 DEF Idle
<1>4. now \in Nat /\ writes \in Nat  BY Times DEF Inv
<1>5. UNCHANGED <<now, gateway>>  BY DEF DeleteAll
<1>6. r \in Locals  BY <1>2, <1>4, IdleSound DEF Sound, Locals, Labels, Ops
<1>7. LocalsOK(r) /\ Ranged(r)
  BY <1>1, <1>3 DEF LocalsOK, Ranged
<1>8. req' = [req EXCEPT ![p] = r]  BY <1>1, <1>2
<1>9. r.mark <= writes /\ r.started <= now  BY <1>3, <1>4
<1> QED  BY <1>3, <1>5, <1>6, <1>7, <1>8, <1>9, Begins

-----------------------------------------------------------------------------
(* The actions of a listing.                                                *)
LEMMA FetchKeeps == ASSUME Inv, NEW p \in Requests, Fetch(p) PROVE ReqOK'
<1> USE DEF Inv
<1>1. UNCHANGED <<now, gateway>> /\ GatewayOK' /\ GatewayStep  BY Still DEF Fetch
<1>2. CASE Finish(p)  BY <1>1, <1>2, Finishes
<1>3. CASE req' = [req EXCEPT ![p].pc = "store", ![p].mark = writes,
                              ![p].entries = [k \in Under(req[p].prefix) |-> store[k]]]
  <2>1. req[p] \in Locals /\ Sound(req[p]) /\ Timely(req[p]) /\ req[p].pc = "fetch" /\ writes \in Nat
    BY Times DEF ReqOK, Fetch, Current
  <2> DEFINE found == [k \in Under(req[p].prefix) |-> store[k]]
  <2>2. found \in [Under(req[p].prefix) -> Objects \cup {None}] /\ found \in Listings
    <3>1. req[p].prefix \in Prefixes  BY <2>1 DEF Locals
    <3>2. \A k \in Under(req[p].prefix) : store[k] \in Objects \cup {None}
      BY UnderKeys DEF GatewayOK
    <3> QED  BY <3>1, <3>2 DEF Listings
  <2>3. PICK r : r = [req[p] EXCEPT !.pc = "store", !.mark = writes, !.entries = found]
    OBVIOUS
  <2>4. \A k \in Under(req[p].prefix) : found[k] = store[k]  OBVIOUS
  <2> HIDE DEF found
  <2>5. /\ r.pc = "store" /\ r.mark = writes /\ r.entries = found /\ r.op = req[p].op
        /\ r.key = req[p].key /\ r.src = req[p].src /\ r.size = req[p].size /\ r.prefix = req[p].prefix
        /\ r.info = req[p].info /\ r.told = req[p].told /\ r.started = req[p].started
    BY <2>1, <2>3 DEF Locals
  <2>6. r \in Locals
    <3>1. "store" \in Labels  BY DEF Labels
    <3> QED  BY <2>1, <2>2, <2>3, <3>1 DEF Locals
  <2>7. Sound(r)
    BY <2>1, <2>2, <2>5, <2>6 DEF Sound, LocalsOK, Ranged
  <2>8. Fetched(r)'
    BY <1>1, <2>4, <2>5 DEF Fetched, gateway
  <2>9. Timely(r)'
    BY <1>1, <2>1, <2>5 DEF Timely, gateway
  <2>10. r.op \in {"list", "rmdir", "rmbucket"} /\ r.told # "deleted"
    BY <2>1, <2>5 DEF Sound, LocalsOK
  <2>11. Current(r)'
    BY <2>5, <2>8, <2>9, <2>10 DEF Current, Listed, FoundEmpty, Gone, Informed
  <2>12. req' = [req EXCEPT ![p] = r]  BY <1>3, <2>3 DEF ReqOK, found
  <2> QED  BY <1>1, <2>7, <2>11, <2>12, ReqMoves
<1> QED  BY <1>2, <1>3 DEF Fetch

LEMMA CacheListingKeeps ==
  ASSUME Inv, NEW p \in Requests, CacheListing(p) PROVE ReqOK' /\ CacheOK'
<1> USE DEF Inv
<1> DEFINE r == req[p]
<1>1. UNCHANGED <<now, gateway>> /\ GatewayOK' /\ GatewayStep  BY Still DEF CacheListing
<1>2. /\ r \in Locals /\ Sound(r) /\ Timely(r) /\ Fetched(r) /\ r.pc = "store" /\ r.prefix \in Prefixes
      /\ r.started \in Nat /\ r.raced \in BOOLEAN /\ r.mark \in Nat
  BY DEF ReqOK, CacheListing, Current, Locals
<1>3. /\ r.entries \in [Under(r.prefix) -> Objects \cup {None}] /\ r.op \in {"list", "rmdir", "rmbucket"}
      /\ r.told # "deleted"
  BY <1>2 DEF Sound, LocalsOK
<1>4. CacheOK'
  <2>1. cache' = [cache EXCEPT ![r.prefix] = [taken |-> r.started, entries |-> r.entries, raced |-> r.raced]]
    BY DEF CacheListing
  <2>2. DOMAIN cache' = Prefixes  BY <2>1 DEF CacheOK
  <2> SUFFICES ASSUME NEW x \in Prefixes, cache'[x] # None
               PROVE  /\ cache'[x] \in Cached(x) /\ cache'[x].taken <= now
                      /\ \A k \in Under(x) : since[k] < cache'[x].taken => cache'[x].entries[k] = store[k]
    BY <1>1, <2>2 DEF CacheOK, Cached, gateway
  <2>3. CASE x = r.prefix
    <3> DEFINE c == [taken |-> r.started, entries |-> r.entries, raced |-> r.raced]
    <3>1. cache'[x] = c  BY <1>2, <2>1, <2>3 DEF CacheOK
    <3>2. r.started <= now  BY <1>2 DEF Timely
    <3>3. c \in Cached(x)  BY <1>2, <1>3, <2>3 DEF Cached
    <3>4. \A k \in Under(x) : since[k] < r.started => r.entries[k] = store[k]
      BY <1>2, <2>3 DEF Fetched
    <3> QED  BY <3>1, <3>2, <3>3, <3>4
  <2>4. CASE x # r.prefix
    BY <2>1, <2>4 DEF CacheOK
  <2> QED  BY <2>3, <2>4
<1>5. CASE r.op = "list"
  <2>1. PICK s : s = [r EXCEPT !.pc = "listed", !.raced = FALSE, !.mark = 0]
    OBVIOUS
  <2>2. /\ s.pc = "listed" /\ s.mark = 0 /\ s.entries = r.entries /\ s.op = r.op
        /\ s.prefix = r.prefix /\ s.info = r.info /\ s.told = r.told /\ s.started = r.started
    BY <1>2, <2>1 DEF Locals
  <2>3. s \in Locals
    <3>1. "listed" \in Labels  BY DEF Labels
    <3> QED  BY <1>2, <2>1, <3>1 DEF Locals
  <2>4. Sound(s)
    BY <1>2, <1>3, <1>5, <2>2, <2>3 DEF Sound, LocalsOK, Ranged
  <2>5. Listed(s)'
    <3> SUFFICES ASSUME NEW k \in Under(r.prefix), since[k] + CacheSeconds <= r.started
                 PROVE  r.entries[k] = store[k]
      BY <1>1, <2>2 DEF Listed, gateway
    <3>1. since[k] \in Nat /\ CacheSeconds \in Nat \ {0}
      BY UnderKeys, StoreParameters DEF GatewayOK
    <3>2. since[k] < r.started  BY <1>2, <3>1
    <3> QED  BY <1>2, <3>2 DEF Fetched
  <2>6. Timely(s)'
    BY <1>1, <1>2, <2>2, Times DEF Timely, gateway
  <2>7. Current(s)'
    BY <1>3, <1>5, <2>2, <2>5, <2>6 DEF Current, Fetched, FoundEmpty, Gone, Informed
  <2>8. req' = [req EXCEPT ![p] = s]  BY <1>5, <2>1 DEF CacheListing, ReqOK
  <2> QED  BY <1>1, <1>4, <2>4, <2>7, <2>8, ReqMoves
<1>6. CASE r.op # "list" /\ Empty(r.entries)
  <2>1. PICK s : s = [r EXCEPT !.pc = "send", !.raced = FALSE, !.entries = None, !.started = 0]
    OBVIOUS
  <2>2. /\ s.pc = "send" /\ s.mark = r.mark /\ s.entries = None /\ s.op = r.op
        /\ s.prefix = r.prefix /\ s.info = r.info /\ s.told = r.told /\ s.started = 0
    BY <1>2, <2>1 DEF Locals
  <2>3. s \in Locals
    <3>1. "send" \in Labels  BY DEF Labels
    <3>2. None \in Listings  BY DEF Listings
    <3> QED  BY <1>2, <2>1, <3>1, <3>2 DEF Locals
  <2>4. Sound(s)
    BY <1>2, <1>3, <1>6, <2>2, <2>3 DEF Sound, LocalsOK, Ranged, Senders
  <2>5. Touches(s) \subseteq Under(r.prefix)
    BY <1>2, <1>3, <1>6, <2>2, StoreParameters DEF Sound, LocalsOK, Under, Touches
  <2>6. \A k \in Under(r.prefix) : store[k] # None => r.mark < store[k].etag
    BY <1>2, <1>3, <1>6 DEF Fetched, Empty
  <2>7. FoundEmpty(s)'
    <3> SUFFICES ASSUME NEW k \in Touches(s), store[k] # None PROVE r.mark < store[k].etag
      BY <1>1, <2>2 DEF FoundEmpty, gateway
    <3> QED  BY <2>5, <2>6
  <2>8. Timely(s)'
    BY <1>1, <1>2, <2>2, Times DEF Timely, gateway
  <2>9. Current(s)'
    BY <1>3, <1>6, <2>2, <2>7, <2>8 DEF Current, Fetched, Listed, Gone, Informed
  <2>10. req' = [req EXCEPT ![p] = s]  BY <1>6, <2>1 DEF CacheListing, ReqOK
  <2> QED  BY <1>1, <1>4, <2>4, <2>9, <2>10, ReqMoves
<1>7. CASE Finish(p)  BY <1>1, <1>4, <1>7, Finishes
<1> QED  BY <1>5, <1>6, <1>7 DEF CacheListing

(* Those that are overtaken only learn that they are.                       *)
LEMMA OvertakingKeeps ==
  ASSUME Inv, GatewayOK', GatewayStep, NEW p \in Requests, FinishOvertaking(p)
  PROVE  ReqOK'
<1>1. req' = [q \in Requests |-> req'[q]]  BY DEF FinishOvertaking
<1>2. ASSUME NEW q \in Requests PROVE Sound(req'[q]) /\ Current(req[q])'
  <2>1. PICK s : s = req'[q]  OBVIOUS
  <2>2. Sound(s) /\ Current(s)'
    <3>1. CASE q = p
      <4>1. s = Idle  BY <2>1, <3>1 DEF FinishOvertaking
      <4> QED  BY <4>1, IdleSound, IdleCurrent
    <3>2. CASE q # p
      <4>1. PICK r : r = req[q]  OBVIOUS
      <4>2. s = [r EXCEPT !.raced = (r.pc = "store")]  BY <2>1, <3>2, <4>1 DEF FinishOvertaking
      <4>3. Sound(r) /\ Current(r)  BY <4>1 DEF Inv, ReqOK
      <4>4. Sound(s) /\ Current(s)  BY <4>2, <4>3, RacedKept
      <4> QED  BY <4>4, CurrentKept DEF Inv
    <3> QED  BY <3>1, <3>2
  <2> QED  BY <2>1, <2>2 DEF Current, Timely, Fetched, Listed, FoundEmpty, Gone, Informed, MetOrLater, Touches
<1> QED  BY <1>1, <1>2, ReqStep

LEMMA InvalidateKeeps ==
  ASSUME Inv, NEW p \in Requests, Invalidate(p) PROVE ReqOK' /\ CacheOK'
<1>1. GatewayOK' /\ GatewayStep  BY Still DEF Invalidate, Inv
<1>2. CacheOK'  BY DEF Invalidate, CacheOK
<1> QED  BY <1>1, <1>2, OvertakingKeeps DEF Invalidate
-----------------------------------------------------------------------------
(* A range that parse_range resolves lies in the object it is resolved for: *)
(* where the whole object is served there is none.                          *)
LEMMA ResolvedInBounds ==
  ASSUME NEW h \in Headers, NEW size \in Nat, ~Unsatisfiable(h, size)
  PROVE  Resolved(h, size) = None \/ InBounds(Resolved(h, size), size)
<1>1. CASE Ignored(h, size)  BY <1>1 DEF Resolved
<1>2. CASE ~Ignored(h, size)
  <2>1. /\ h # None /\ size # 0 /\ h.first \in Offsets \cup {None} /\ h.last \in Offsets \cup {None}
        /\ Offsets \subseteq Int
        /\ h.first # None => h.first \in Nat
        /\ h.last # None => h.last \in Nat
    BY <1>2, StoreParameters DEF Ignored, Headers
  <2>2. CASE h.first = None
    <3>1. h.last # None /\ h.last # 0
      <4>1. h = [first |-> h.first, last |-> h.last]  BY <2>1 DEF Headers
      <4> QED  BY <1>2, <2>1, <2>2, <4>1 DEF Ignored, Unsatisfiable
    <3>2. Resolved(h, size) =
            [first |-> IF h.last < size THEN size - h.last ELSE 0, last |-> size - 1]
      BY <1>2, <2>2 DEF Resolved
    <3> QED  BY <2>1, <3>1, <3>2 DEF InBounds
  <2>3. CASE h.first # None
    <3>1. h.first < size  BY <2>1, <2>3 DEF Unsatisfiable
    <3>2. Resolved(h, size) =
            [first |-> h.first, last |-> IF h.last # None /\ h.last < size THEN h.last ELSE size - 1]
      BY <1>2, <2>3 DEF Resolved
    <3>3. h.last # None => h.first <= h.last  BY <1>2, <2>1, <2>3 DEF Ignored
    <3> QED  BY <2>1, <2>3, <3>1, <3>2, <3>3 DEF InBounds
  <2> QED  BY <2>2, <2>3
<1> QED  BY <1>1, <1>2

(* What stat finds out is what the gateway has, its ETag or none of it.     *)
(* A PUT that goes on has found its precondition to hold of what is there.  *)
LEMMA PutGoesOn ==
  ASSUME Inv, UNCHANGED <<now, gateway>>, NEW p \in Requests, req[p].pc \in {"stat", "lag"},
         req[p].op = "put", NEW info \in {None} \cup Infos, GoOn(p, info),
         IF info = None THEN req[p].cond = Absent /\ store[req[p].key] = None
         ELSE /\ Passes(req[p].cond, info.etag)
              /\ info.etag # None => info.etag <= writes /\ info = store[req[p].key]
  PROVE  ReqOK'
<1> USE DEF Inv
<1>0. GatewayOK' /\ GatewayStep  BY Still
<1>1. PICK r, s : r = req[p] /\ s = [r EXCEPT !.pc = "send", !.info = info, !.mark = writes]
  OBVIOUS
<1>2. /\ r \in Locals /\ Sound(r) /\ r.started <= now' /\ writes' = writes /\ writes \in Nat
      /\ r.op = "put" /\ r.pc \in {"stat", "lag"}
  BY <1>1, Times DEF ReqOK, Current, Timely, gateway
<1>3. r.told # "deleted" /\ r.key \in Keys /\ r.size \in Sizes
  BY <1>2 DEF Sound, LocalsOK
<1>4. /\ s.pc = "send" /\ s.info = info /\ s.op = r.op /\ s.key = r.key /\ s.told = r.told
      /\ s.cond = r.cond /\ s.size = r.size /\ s.started = r.started /\ s.mark = writes
  BY <1>1, <1>2 DEF Locals
<1>5. s \in Locals
  <2>1. "send" \in Labels  BY DEF Labels
  <2> QED  BY <1>1, <1>2, <2>1 DEF Locals
<1>6. Sound(s)
  <2>1. LocalsOK(s)  BY <1>2, <1>3, <1>4 DEF LocalsOK, Senders
  <2>2. Ranged(s)  BY <1>4 DEF Ranged
  <2> QED  BY <1>5, <2>1, <2>2 DEF Sound
<1>7. ASSUME s.cond # None PROVE MetOrLater(s)'
  <2>1. store' = store  BY DEF gateway
  <2>2. store[r.key] # None => s.cond = store[r.key].etag \/ (s.info # None /\ s.info.etag = None)
    BY <1>1, <1>4, <1>7 DEF Passes
  <2> QED  BY <1>4, <2>1, <2>2 DEF MetOrLater
<1>8. Informed(s)'
  BY <1>1, <1>2, <1>4, <1>7 DEF Informed, gateway
<1>9. Current(s)'
  BY <1>2, <1>3, <1>4, <1>8 DEF Current, Timely, Fetched, Listed, FoundEmpty, Gone
<1>10. req' = [req EXCEPT ![p] = s]  BY <1>1 DEF ReqOK, GoOn
<1> QED  BY <1>0, <1>6, <1>9, <1>10, ReqMoves

LEMMA KnownKeeps ==
  ASSUME Inv, UNCHANGED <<now, gateway>>, NEW p \in Requests, req[p].pc \in {"stat", "lag"},
         NEW info \in Infos, info.etag # None /\ req[p].op \in {"put", "get"} => info = store[req[p].key],
         Known(p, info)
  PROVE  ReqOK'
<1> USE DEF Inv
<1> DEFINE r == req[p]
<1>1. GatewayOK' /\ GatewayStep  BY Still
<1>2. /\ r \in Locals /\ Sound(r) /\ r.started <= now' /\ r.mark <= writes'
      /\ info \in {None} \cup Infos /\ info # None /\ info.size \in Nat
      /\ {"send", "get", "stream"} \subseteq Labels
  <2>1. info.size \in Nat  BY StoreParameters DEF Infos
  <2> QED  BY <2>1, NoneIsNoObject DEF ReqOK, Current, Timely, gateway, Labels
<1>3. r.op \in {"put", "copy", "get"} /\ r.info = None /\ r.told # "deleted" /\ r.range \in Headers
  BY <1>2 DEF Sound, LocalsOK, Ranged
<1>4. info.etag # None /\ r.op \in {"put", "get"} =>
        info.etag <= writes /\ info = store[r.key]
  <2>1. r.op \in {"put", "get"} => r.key \in Keys  BY <1>2 DEF Sound, LocalsOK
  <2> QED  BY <1>2, <2>1 DEF GatewayOK
<1>5. CASE Finish(p)  BY <1>1, <1>5, Finishes
<1>6. CASE r.op = "put" /\ Passes(r.cond, info.etag) /\ GoOn(p, info)
  <2>1. r.cond # None /\ info.etag # None /\ store[r.key] # None => store[r.key].etag = r.cond
    BY <1>4, <1>6 DEF Passes
  <2> QED  BY <1>1, <1>2, <1>4, <1>6, <2>1, PutGoesOn
<1>7. CASE r.op = "copy" /\ r.src # r.key /\ Goto(p, "send")
  <2>1. PICK s : s = [r EXCEPT !.pc = "send"]
    OBVIOUS
  <2>2. /\ s.pc = "send" /\ s.info = None /\ s.op = r.op /\ s.key = r.key /\ s.told = r.told
        /\ s.src = r.src /\ s.started = r.started /\ s.mark = r.mark
    BY <1>2, <1>3, <2>1 DEF Locals
  <2>3. s \in Locals  BY <1>2, <2>1 DEF Locals
  <2>4. Sound(s)
    BY <1>2, <1>7, <2>2, <2>3 DEF Sound, LocalsOK, Ranged, Senders
  <2>5. Current(s)'
    BY <1>2, <1>3, <1>7, <2>2 DEF Current, Timely, Fetched, Listed, FoundEmpty, Gone, Informed
  <2>6. req' = [req EXCEPT ![p] = s]  BY <1>7, <2>1 DEF ReqOK, Goto
  <2> QED  BY <1>1, <2>4, <2>5, <2>6, ReqMoves
<1>8. CASE r.op = "get" /\ ~Unsatisfiable(r.range, info.size)
           /\ req' = [req EXCEPT ![p].pc = "get", ![p].info = info, ![p].range = Resolved(@, info.size)]
  <2> DEFINE range == Resolved(r.range, info.size)
  <2>1. range = None \/ InBounds(range, info.size)
    BY <1>2, <1>3, <1>8, ResolvedInBounds
  <2>2. range \in Headers \cup [first : Int, last : Int]
    <3>1. range = None \/ range \in [first : Int, last : Int]
      <4>1. CASE Ignored(r.range, info.size)  BY <4>1 DEF Resolved
      <4>2. CASE ~Ignored(r.range, info.size)
        <5>1. range = [first |-> range.first, last |-> range.last]
          <6>1. CASE r.range.first = None  BY <4>2, <6>1 DEF Resolved
          <6>2. CASE r.range.first # None  BY <4>2, <6>2 DEF Resolved
          <6> QED  BY <6>1, <6>2
        <5> HIDE DEF range
        <5> QED  BY <2>1, <5>1 DEF InBounds
      <4> QED  BY <4>1, <4>2
    <3> QED  BY <3>1 DEF Headers
  <2>3. PICK s : s = [r EXCEPT !.pc = "get", !.info = info, !.range = range]
    OBVIOUS
  <2>4. req' = [req EXCEPT ![p] = s]  BY <1>8, <2>3 DEF ReqOK
  <2> HIDE DEF range
  <2>5. /\ s.pc = "get" /\ s.info = info /\ s.range = range /\ s.op = r.op /\ s.key = r.key
        /\ s.told = r.told /\ s.started = r.started /\ s.mark = r.mark
    BY <1>2, <2>3 DEF Locals
  <2>6. s \in Locals  BY <1>2, <2>2, <2>3 DEF Locals
  <2>7. Sound(s)
    BY <1>2, <1>8, <2>1, <2>5, <2>6 DEF Sound, LocalsOK, Ranged
  <2>8. Informed(s)'
    BY <1>4, <1>8, <2>5 DEF Informed, gateway
  <2>9. Current(s)'
    BY <1>2, <1>3, <1>8, <2>5, <2>8 DEF Current, Timely, Fetched, Listed, FoundEmpty, Gone
  <2> QED  BY <1>1, <2>4, <2>7, <2>9, ReqMoves
<1>9. CASE r.op = "put"  BY <1>5, <1>6, <1>9 DEF Known
<1>10. CASE r.op = "copy"  BY <1>5, <1>7, <1>10 DEF Known
<1>11. CASE r.op = "get"  BY <1>5, <1>8, <1>11 DEF Known
<1> QED  BY <1>3, <1>9, <1>10, <1>11

(* A request that goes on with what it knows already.                       *)
LEMMA GoesOn ==
  ASSUME Inv, GatewayOK', GatewayStep, NEW p \in Requests, NEW pc \in {"send", "copying", "invalidate"},
         req[p].pc \in {"stat", "send", "copying"}, req[p].op \in Senders,
         pc = "copying" => req[p].op = "copy",
         pc = "send" => req[p].op = "copy" /\ req[p].src # req[p].key,
         pc = "copying" => req[p].src # req[p].key,
         Goto(p, pc)
  PROVE  ReqOK'
<1> USE DEF Inv
<1>1. PICK r, s : r = req[p] /\ s = [r EXCEPT !.pc = pc]
  OBVIOUS
<1>2. r \in Locals /\ Sound(r) /\ Current(r) /\ Current(r)'
  BY <1>1, CurrentKept DEF ReqOK
<1>3. /\ s.pc = pc /\ s.op = r.op /\ s.key = r.key /\ s.src = r.src /\ s.info = r.info /\ s.cond = r.cond
      /\ s.told = r.told /\ s.size = r.size /\ s.prefix = r.prefix /\ s.started = r.started
      /\ s.mark = r.mark
  BY <1>1, <1>2 DEF Locals
<1>4. s \in Locals
  <2>1. pc \in Labels  BY DEF Labels
  <2> QED  BY <1>1, <1>2, <2>1 DEF Locals
<1>5. r.told # "deleted"  BY <1>1, <1>2 DEF Sound, LocalsOK
<1>6. Sound(s)
  BY <1>1, <1>2, <1>3, <1>4, <1>5 DEF Sound, LocalsOK, Ranged, Senders
<1>7. Timely(s)' /\ Informed(s)'
  BY <1>1, <1>2, <1>3 DEF Current, Timely, Informed
<1>8. Current(s)'
  BY <1>1, <1>3, <1>5, <1>7 DEF Current, Fetched, Listed, FoundEmpty, Gone
<1>9. req' = [req EXCEPT ![p] = s]  BY <1>1 DEF ReqOK, Goto
<1> QED  BY <1>6, <1>8, <1>9, ReqMoves

LEMMA StatKeeps == ASSUME Inv, NEW p \in Requests, Stat(p) PROVE ReqOK'
<1> USE DEF Inv
<1> DEFINE k == Subject(req[p])
<1>1. UNCHANGED <<now, gateway>> /\ GatewayOK' /\ GatewayStep /\ req[p].pc = "stat"
  BY Still DEF Stat
<1>2. Sound(req[p])  BY DEF ReqOK
<1>3. req[p].op \in {"put", "copy", "get"} /\ req[p].info = None /\ k \in Keys
  BY <1>1, <1>2 DEF Sound, LocalsOK, Subject
<1>4. CASE Goto(p, "lag")
  <2>1. PICK r, s : r = req[p] /\ s = [r EXCEPT !.pc = "lag"]
    OBVIOUS
  <2>2. r \in Locals /\ Sound(r) /\ Current(r) /\ Current(r)'
    BY <1>1, <2>1, CurrentKept DEF ReqOK
  <2>3. /\ s.pc = "lag" /\ s.op = r.op /\ s.key = r.key /\ s.src = r.src /\ s.info = r.info
        /\ s.told = r.told /\ s.size = r.size /\ s.range = r.range
        /\ s.started = r.started /\ s.mark = r.mark
    BY <2>1, <2>2 DEF Locals
  <2>4. s \in Locals
    <3>1. "lag" \in Labels  BY DEF Labels
    <3> QED  BY <2>1, <2>2, <3>1 DEF Locals
  <2>5. s.told # "deleted"  BY <1>1, <2>1, <2>2, <2>3 DEF Sound, LocalsOK
  <2>6. Sound(s)
    BY <1>1, <1>3, <2>1, <2>2, <2>3, <2>4, <2>5 DEF Sound, LocalsOK, Ranged
  <2>7. Timely(s)'
    BY <2>2, <2>3 DEF Current, Timely
  <2>8. Current(s)'
    BY <1>3, <2>1, <2>3, <2>5, <2>7, Unspoken
  <2>9. req' = [req EXCEPT ![p] = s]  BY <1>4, <2>1 DEF ReqOK, Goto
  <2> QED  BY <1>1, <2>6, <2>8, <2>9, ReqMoves
<1>5. CASE store[k] # None /\ Known(p, store[k])
  <2>1. store[k] \in Infos  BY <1>3, <1>5, ObjectFacts DEF GatewayOK
  <2>2. req[p].op \in {"put", "get"} => k = req[p].key  BY DEF Subject
  <2> QED  BY <1>1, <1>5, <2>1, <2>2, KnownKeeps
<1>6. CASE store[k] = None /\ Unknown(p)
  <2>1. CASE req[p].op = "put" /\ req[p].cond = Absent
    BY <1>1, <1>6, <2>1, PutGoesOn DEF Unknown, Subject
  <2>2. CASE Finish(p)  BY <1>1, <2>2, Finishes
  <2> QED  BY <1>6, <2>1, <2>2 DEF Unknown
<1>7. CASE Finish(p)  BY <1>1, <1>7, Finishes
<1> QED  BY <1>4, <1>5, <1>6, <1>7 DEF Stat

LEMMA StatByListingKeeps == ASSUME Inv, NEW p \in Requests, StatByListing(p) PROVE ReqOK'
<1> USE DEF Inv
<1> DEFINE k == Subject(req[p])
<1>1. UNCHANGED <<now, gateway>> /\ GatewayOK' /\ GatewayStep /\ req[p].pc = "lag"
  BY Still DEF StatByListing
<1>2. k \in Keys
  <2>1. Sound(req[p])  BY DEF ReqOK
  <2> QED  BY <1>1, <2>1 DEF Sound, LocalsOK, Subject
<1>3. CASE Finish(p)  BY <1>1, <1>3, Finishes
<1>4. CASE store[k] # None /\ Known(p, [etag |-> None, size |-> store[k].size])
  <2>1. store[k].size \in Sizes  BY <1>2, <1>4, ObjectFacts DEF GatewayOK
  <2>2. [etag |-> None, size |-> store[k].size] \in Infos  BY <2>1 DEF Infos
  <2> QED  BY <1>1, <1>4, <2>2, KnownKeeps
<1> QED  BY <1>3, <1>4 DEF StatByListing

(* The whole object is as long as stat announced it, and a range resolved   *)
(* is as long as announced whatever the object is now.                      *)
LEMMA GetSendKeeps == ASSUME Inv, NEW p \in Requests, GetSend(p) PROVE ReqOK'
<1> USE DEF Inv
<1>1. UNCHANGED <<now, gateway>> /\ GatewayOK' /\ GatewayStep /\ req[p].pc = "get"
  BY Still DEF GetSend
<1>2. PICK r : r = req[p]  OBVIOUS
<1>3. r \in Locals /\ Sound(r) /\ Current(r) /\ Current(r)' /\ r.pc = "get"
  BY <1>1, <1>2, CurrentKept DEF ReqOK
<1>4. r.op = "get" /\ r.key \in Keys /\ r.info \in Infos /\ r.told # "deleted"
  BY <1>3 DEF Sound, LocalsOK, Locals
<1>5. CASE Finish(p)  BY <1>1, <1>5, Finishes
<1>6. CASE /\ store[r.key] # None
           /\ req' = [req EXCEPT ![p].pc = "stream",
                  ![p].body = [etag |-> store[r.key].etag,
                               length |-> IF Asked(r) = None THEN store[r.key].size
                                          ELSE Asked(r).last - Asked(r).first + 1]]
  <2>1. /\ store[r.key] \in Objects /\ store[r.key].etag \in 1..MaxWrites /\ store[r.key].etag # None
        /\ store[r.key].size \in Nat
    BY <1>4, <1>6, ObjectFacts DEF GatewayOK
  <2> DEFINE length == IF Asked(r) = None THEN store[r.key].size ELSE Asked(r).last - Asked(r).first + 1
  <2>2. PICK b : b = [etag |-> store[r.key].etag, length |-> length]  OBVIOUS
  <2>3. r.range = None \/ InBounds(r.range, r.info.size)  BY <1>3 DEF Sound, Ranged
  <2>4. length \in Int
    <3>1. Asked(r) # None => Asked(r) = r.range  BY DEF Asked
    <3> QED  BY <2>1, <2>3, <3>1 DEF InBounds
  <2>5. store[r.key].etag = r.info.etag => length = Announced(r)
    <3> SUFFICES ASSUME store[r.key].etag = r.info.etag PROVE length = Announced(r)
      OBVIOUS
    <3>1. store[r.key] = r.info  BY <1>3, <1>4, <1>6, <2>1, NoneIsNoObject DEF Current, Informed
    <3>2. CASE r.range = None  BY <3>1, <3>2 DEF Asked, Announced
    <3>3. CASE r.range # None /\ r.range = [first |-> 0, last |-> r.info.size - 1]
      BY <2>1, <3>1, <3>3 DEF Asked, Announced
    <3>4. CASE r.range # None /\ r.range # [first |-> 0, last |-> r.info.size - 1]
      BY <3>4 DEF Asked, Announced
    <3> QED  BY <3>2, <3>3, <3>4
  <2>6. PICK s : s = [r EXCEPT !.pc = "stream", !.body = b]  OBVIOUS
  <2>7. req' = [req EXCEPT ![p] = s]  BY <1>2, <1>6, <2>2, <2>6 DEF ReqOK
  <2> HIDE DEF length
  <2>8. b.etag = store[r.key].etag /\ b.length = length  BY <2>2
  <2>9. /\ s.pc = "stream" /\ s.body = b /\ s.op = r.op /\ s.key = r.key /\ s.info = r.info
        /\ s.told = r.told /\ s.range = r.range /\ s.started = r.started /\ s.mark = r.mark
    BY <1>3, <2>6 DEF Locals
  <2>10. s \in Locals
    <3>1. "stream" \in Labels  BY DEF Labels
    <3> QED  BY <1>3, <2>1, <2>2, <2>4, <2>6, <3>1 DEF Locals
  <2>11. Sound(s)
    BY <1>3, <1>4, <2>5, <2>8, <2>9, <2>10 DEF Sound, LocalsOK, Ranged, Announced
  <2>12. Timely(s)' /\ Informed(s)'
    BY <1>3, <2>9 DEF Current, Timely, Informed
  <2>13. Current(s)'
    BY <1>4, <2>9, <2>12 DEF Current, Fetched, Listed, FoundEmpty, Gone
  <2> QED  BY <1>1, <2>7, <2>11, <2>13, ReqMoves
<1> QED  BY <1>2, <1>5, <1>6 DEF GetSend
-----------------------------------------------------------------------------
(* The requests that change the gateway.                                    *)
LEMMA ReqStays ==
  ASSUME Inv, GatewayOK', GatewayStep, UNCHANGED req PROVE ReqOK'
<1>1. req' = [q \in Requests |-> req'[q]]  BY DEF Inv, ReqOK
<1> QED  BY <1>1, ReqStep

LEMMA PutSendKeeps ==
  ASSUME Inv, NEW p \in Requests, PutSend(p) PROVE ReqOK' /\ GatewayOK' /\ GatewayStep
<1> USE DEF Inv
<1>1. req[p].op = "put" /\ req[p].pc = "send" /\ UNCHANGED now  BY DEF PutSend
<1>2. GatewayOK' /\ GatewayStep
  <2>1. CASE Write(req[p].key, req[p].size)
    <3>1. Sound(req[p])  BY DEF ReqOK
    <3>2. req[p].key \in Keys /\ req[p].size \in Sizes  BY <1>1, <3>1 DEF Sound, LocalsOK
    <3> QED  BY <1>1, <2>1, <3>2, WriteStep
  <2>2. CASE UNCHANGED gateway  BY <1>1, <2>2, Still
  <2> QED  BY <2>1, <2>2 DEF PutSend
<1>3. CASE Goto(p, "invalidate")  BY <1>1, <1>2, <1>3, GoesOn DEF Senders
<1>4. CASE UNCHANGED req  BY <1>2, <1>4, ReqStays
<1> QED  BY <1>2, <1>3, <1>4 DEF PutSend, Attempted

LEMMA TellsSoundly ==
  ASSUME Inv, GatewayOK', GatewayStep, NEW p \in Requests, req[p].pc = "send", req[p].op = "delete",
         NEW what \in {"deleted", "error"}, Told(p, what), what = "deleted" => store'[req[p].key] = None
  PROVE  ReqOK'
<1> USE DEF Inv
<1>1. PICK r, s : r = req[p] /\ s = [r EXCEPT !.pc = "invalidate", !.told = what]
  OBVIOUS
<1>2. r \in Locals /\ Sound(r) /\ Current(r) /\ Current(r)'
  BY <1>1, CurrentKept DEF ReqOK
<1>3. /\ s.pc = "invalidate" /\ s.op = r.op /\ s.key = r.key /\ s.info = r.info /\ s.told = what
      /\ s.started = r.started /\ s.mark = r.mark
  BY <1>1, <1>2 DEF Locals
<1>4. s \in Locals
  <2>1. "invalidate" \in Labels  BY DEF Labels
  <2> QED  BY <1>1, <1>2, <2>1 DEF Locals
<1>5. Sound(s)
  BY <1>1, <1>2, <1>3, <1>4 DEF Sound, LocalsOK, Ranged, Senders
<1>6. Timely(s)'
  BY <1>2, <1>3 DEF Current, Timely
<1>7. Gone(s)'
  BY <1>1, <1>3 DEF Gone
<1>8. Current(s)'
  BY <1>1, <1>3, <1>6, <1>7 DEF Current, Fetched, Listed, FoundEmpty, Informed
<1>9. req' = [req EXCEPT ![p] = s]  BY <1>1 DEF ReqOK, Told
<1> QED  BY <1>5, <1>8, <1>9, ReqMoves

LEMMA DeleteSendKeeps ==
  ASSUME Inv, NEW p \in Requests, DeleteSend(p) PROVE ReqOK' /\ GatewayOK' /\ GatewayStep
<1> USE DEF Inv
<1>1. req[p].op = "delete" /\ req[p].pc = "send" /\ UNCHANGED now  BY DEF DeleteSend
<1>2. req[p].key \in Keys
  <2>1. Sound(req[p])  BY DEF ReqOK
  <2> QED  BY <1>1, <2>1 DEF Sound, LocalsOK
<1>3. CASE Erase({req[p].key}) /\ (Told(p, "deleted") \/ Told(p, "error") \/ UNCHANGED req)
  <2>1. GatewayOK' /\ GatewayStep  BY <1>1, <1>2, <1>3, EraseStep
  <2>2. store'[req[p].key] = None  BY <1>2, <1>3 DEF Erase
  <2> QED  BY <1>1, <1>3, <2>1, <2>2, ReqStays, TellsSoundly
<1>4. CASE /\ UNCHANGED gateway
           /\ (store[req[p].key] = None /\ Told(p, "deleted")) \/ Told(p, "error")
  <2>1. GatewayOK' /\ GatewayStep /\ UNCHANGED store  BY <1>1, <1>4, Still DEF gateway
  <2> QED  BY <1>1, <1>4, <2>1, TellsSoundly
<1> QED  BY <1>3, <1>4 DEF DeleteSend

LEMMA DirSendKeeps ==
  ASSUME Inv, NEW p \in Requests, DirSend(p) PROVE ReqOK' /\ GatewayOK' /\ GatewayStep
<1> USE DEF Inv
<1>1. req[p].op = "rmdir" /\ req[p].pc = "send" /\ UNCHANGED now  BY DEF DirSend
<1>2. GatewayOK' /\ GatewayStep
  <2>1. CASE Erase(Inside)  BY <1>1, <2>1, EraseStep, StoreParameters
  <2>2. CASE UNCHANGED gateway  BY <1>1, <2>2, Still
  <2> QED  BY <2>1, <2>2 DEF DirSend
<1>3. CASE Goto(p, "invalidate")  BY <1>1, <1>2, <1>3, GoesOn DEF Senders
<1>4. CASE UNCHANGED req  BY <1>2, <1>4, ReqStays
<1> QED  BY <1>2, <1>3, <1>4 DEF DirSend, Attempted

LEMMA BucketSendKeeps ==
  ASSUME Inv, NEW p \in Requests, BucketSend(p) PROVE ReqOK' /\ GatewayOK' /\ GatewayStep /\ CacheOK'
<1> USE DEF Inv
<1>1. req[p].op = "rmbucket" /\ req[p].pc = "send" /\ UNCHANGED now  BY DEF BucketSend
<1>2. GatewayOK' /\ GatewayStep
  <2>1. CASE DropBucket  BY <1>1, <2>1, DropStep
  <2>2. CASE UNCHANGED gateway  BY <1>1, <2>2, Still
  <2> QED  BY <2>1, <2>2 DEF BucketSend
<1>3. CASE Attempted(p) /\ UNCHANGED cache
  <2>1. CacheOK'  BY <1>2, <1>3, CacheKept
  <2>2. CASE Goto(p, "invalidate")  BY <1>1, <1>2, <2>1, <2>2, GoesOn DEF Senders
  <2>3. CASE UNCHANGED req  BY <1>2, <2>1, <2>3, ReqStays
  <2> QED  BY <1>3, <2>2, <2>3 DEF Attempted
<1>4. CASE /\ FinishOvertaking(p)
           /\ cache' = [x \in Prefixes |-> IF cache[x] = None THEN None ELSE [cache[x] EXCEPT !.raced = TRUE]]
  <2>1. ReqOK'  BY <1>2, <1>4, OvertakingKeeps
  <2>2. CacheOK'
    <3>1. now \in Nat /\ now' = now  BY <1>1, Times
    <3> SUFFICES ASSUME NEW x \in Prefixes, cache'[x] # None
                 PROVE  /\ cache'[x] \in Cached(x) /\ cache'[x].taken <= now
                        /\ \A k \in Under(x) : since'[k] < cache'[x].taken =>
                                                  cache'[x].entries[k] = store'[k]
      BY <1>4, <3>1 DEF CacheOK, Cached
    <3>2. cache[x] # None /\ cache[x] \in Cached(x) /\ cache[x].taken <= now /\ cache[x].taken \in Nat
      BY <1>4 DEF CacheOK, Cached
    <3>3. cache'[x] = [cache[x] EXCEPT !.raced = TRUE]  BY <1>4, <3>2
    <3>4. /\ cache'[x] \in Cached(x) /\ cache'[x].taken = cache[x].taken
          /\ cache'[x].entries = cache[x].entries
      BY <3>2, <3>3 DEF Cached
    <3>5. ASSUME NEW k \in Under(x), since'[k] < cache[x].taken PROVE cache[x].entries[k] = store'[k]
      <4>1. k \in Keys /\ Written(k)  BY <1>2, UnderKeys DEF GatewayStep
      <4>2. since'[k] # now  BY <3>1, <3>2, <3>5
      <4> QED  BY <3>2, <3>5, <4>1, <4>2 DEF Written, CacheOK
    <3> QED  BY <3>2, <3>4, <3>5
  <2> QED  BY <1>2, <2>1, <2>2
<1> QED  BY <1>3, <1>4 DEF BucketSend

LEMMA CopyClearKeeps ==
  ASSUME Inv, NEW p \in Requests, CopyClear(p) PROVE ReqOK' /\ GatewayOK' /\ GatewayStep
<1> USE DEF Inv
<1>1. req[p].op = "copy" /\ req[p].pc = "send" /\ UNCHANGED now  BY DEF CopyClear
<1>2. req[p].key \in Keys /\ req[p].src # req[p].key
  <2>1. Sound(req[p])  BY DEF ReqOK
  <2> QED  BY <1>1, <2>1 DEF Sound, LocalsOK
<1>3. GatewayOK' /\ GatewayStep
  <2>1. CASE Erase({req[p].key})  BY <1>1, <1>2, <2>1, EraseStep
  <2>2. CASE UNCHANGED gateway  BY <1>1, <2>2, Still
  <2> QED  BY <2>1, <2>2 DEF CopyClear
<1>4. CASE Goto(p, "invalidate")  BY <1>1, <1>3, <1>4, GoesOn DEF Senders
<1>5. CASE Goto(p, "copying")  BY <1>1, <1>2, <1>3, <1>5, GoesOn DEF Senders
<1> QED  BY <1>3, <1>4, <1>5 DEF CopyClear

LEMMA CopyWriteKeeps ==
  ASSUME Inv, NEW p \in Requests, CopyWrite(p) PROVE ReqOK' /\ GatewayOK' /\ GatewayStep
<1> USE DEF Inv
<1>1. req[p].pc = "copying" /\ UNCHANGED now  BY DEF CopyWrite
<1>2. req[p].op = "copy" /\ req[p].key \in Keys /\ req[p].src \in Keys /\ req[p].src # req[p].key
  <2>1. Sound(req[p])  BY DEF ReqOK
  <2> QED  BY <1>1, <2>1 DEF Sound, LocalsOK
<1>3. GatewayOK' /\ GatewayStep
  <2>1. CASE store[req[p].src] # None /\ Write(req[p].key, store[req[p].src].size)
    <3>1. store[req[p].src].size \in Sizes  BY <1>2, <2>1, ObjectFacts DEF GatewayOK
    <3> QED  BY <1>1, <1>2, <2>1, <3>1, WriteStep
  <2>2. CASE UNCHANGED gateway  BY <1>1, <2>2, Still
  <2> QED  BY <2>1, <2>2 DEF CopyWrite
<1>4. CASE Goto(p, "invalidate")  BY <1>1, <1>2, <1>3, <1>4, GoesOn DEF Senders
<1>5. CASE Goto(p, "send")  BY <1>1, <1>2, <1>3, <1>5, GoesOn DEF Senders
<1> QED  BY <1>3, <1>4, <1>5 DEF CopyWrite
-----------------------------------------------------------------------------
LEMMA InvInit == Init => Inv
<1> SUFFICES ASSUME Init PROVE Inv  OBVIOUS
<1> USE DEF Init
<1>1. GatewayOK  BY StoreParameters DEF GatewayOK
<1>2. CacheOK  BY DEF CacheOK
<1>3. ReqOK
  <2>1. Idle \in Locals /\ Sound(Idle)  BY IdleSound DEF Sound
  <2>2. /\ Idle.pc = "idle" /\ Idle.told = "nothing" /\ Idle.op = "none" /\ Idle.started = 0
        /\ Idle.mark = 0
    BY DEF Idle
  <2>3. Timely(Idle)  BY <2>2 DEF Timely
  <2>4. Current(Idle)
    BY <2>2, <2>3 DEF Current, Fetched, Listed, FoundEmpty, Gone, Informed
  <2> QED  BY <2>1, <2>4 DEF ReqOK
<1> QED  BY <1>1, <1>2, <1>3 DEF Inv

LEMMA InvNext == Inv /\ [Next]_vars => Inv' /\ GatewayStep
<1> SUFFICES ASSUME Inv, [Next]_vars PROVE Inv' /\ GatewayStep  OBVIOUS
<1> USE DEF Inv
<1>1. ASSUME UNCHANGED <<now, gateway>>, ReqOK', UNCHANGED cache PROVE Inv' /\ GatewayStep
  BY <1>1, Still, CacheKept
<1>2. ASSUME NEW p \in Requests, Listing(p) PROVE Inv' /\ GatewayStep
  <2>1. CASE List(p)  BY <1>1, <2>1, ListKeeps DEF List
  <2>2. CASE Fetch(p)  BY <1>1, <2>2, FetchKeeps DEF Fetch
  <2>3. CASE CacheListing(p)  BY <2>3, Still, CacheListingKeeps DEF CacheListing
  <2>4. CASE Answer(p)  BY <1>1, <2>4, Still, Finishes DEF Answer
  <2> QED  BY <1>2, <2>1, <2>2, <2>3, <2>4 DEF Listing
<1>3. ASSUME NEW p \in Requests, Reading(p) PROVE Inv' /\ GatewayStep
  <2>1. CASE Get(p)  BY <1>1, <2>1, GetKeeps DEF Get
  <2>2. CASE GetSend(p)  BY <1>1, <2>2, GetSendKeeps DEF GetSend
  <2>3. CASE Stream(p)  BY <1>1, <2>3, Still, Finishes DEF Stream
  <2> QED  BY <1>3, <2>1, <2>2, <2>3 DEF Reading
<1>4. ASSUME NEW p \in Requests, Writing(p) PROVE Inv' /\ GatewayStep
  <2>1. CASE Put(p)  BY <1>1, <2>1, PutKeeps DEF Put
  <2>2. CASE Post(p)  BY <1>1, <2>2, PostKeeps DEF Post
  <2>3. CASE Copy(p)  BY <1>1, <2>3, CopyKeeps DEF Copy
  <2>4. CASE Delete(p)  BY <1>1, <2>4, DeleteKeeps DEF Delete
  <2>5. CASE DeleteAll(p)  BY <1>1, <2>5, DeleteAllKeeps DEF DeleteAll
  <2>6. CASE CreateBucket(p)
    <3>1. GatewayOK' /\ GatewayStep  BY <2>6, Quiet, Times DEF CreateBucket, GatewayOK
    <3> QED  BY <2>6, <3>1, ReqStays, CacheKept DEF CreateBucket
  <2>7. CASE PutSend(p)  BY <2>7, PutSendKeeps, CacheKept DEF PutSend
  <2>8. CASE DeleteSend(p)  BY <2>8, DeleteSendKeeps, CacheKept DEF DeleteSend
  <2>9. CASE DirSend(p)  BY <2>9, DirSendKeeps, CacheKept DEF DirSend
  <2>10. CASE BucketSend(p)  BY <2>10, BucketSendKeeps
  <2>11. CASE CopyClear(p)  BY <2>11, CopyClearKeeps, CacheKept DEF CopyClear
  <2>12. CASE CopyWrite(p)  BY <2>12, CopyWriteKeeps, CacheKept DEF CopyWrite
  <2>13. CASE Invalidate(p)  BY <2>13, Still, InvalidateKeeps DEF Invalidate
  <2> QED
    BY <1>4, <2>1, <2>2, <2>3, <2>4, <2>5, <2>6, <2>7, <2>8, <2>9, <2>10, <2>11, <2>12, <2>13 DEF Writing
<1>5. ASSUME NEW p \in Requests, Stat(p) PROVE Inv' /\ GatewayStep
  BY <1>1, <1>5, StatKeeps DEF Stat
<1>6. ASSUME NEW p \in Requests, StatByListing(p) PROVE Inv' /\ GatewayStep
  BY <1>1, <1>6, StatByListingKeeps DEF StatByListing
<1>7. CASE DeleteBatch  BY <1>1, <1>7, DeleteBatchKeeps DEF DeleteBatch
<1>8. CASE Settle
  <2>1. GatewayOK' /\ GatewayStep  BY <1>8, Quiet, Times DEF Settle, GatewayOK
  <2> QED  BY <1>8, <2>1, ReqStays, CacheKept DEF Settle
<1>9. CASE Tick
  <2>1. now' \in 0..MaxTime /\ now <= now'  BY <1>9, StoreParameters DEF Tick, GatewayOK
  <2>2. GatewayOK' /\ GatewayStep  BY <1>9, <2>1, Quiet DEF Tick, GatewayOK, gateway
  <2> QED  BY <1>9, <2>2, ReqStays, CacheKept DEF Tick
<1>10. CASE UNCHANGED vars  BY <1>1, <1>10, Still, ReqStays DEF vars
<1> QED  BY <1>2, <1>3, <1>4, <1>5, <1>6, <1>7, <1>8, <1>9, <1>10 DEF Next

LEMMA InvHolds == Spec => []Inv
<1>1. Inv /\ [Next]_vars => Inv'  BY InvNext
<1> QED  BY InvInit, <1>1, PTL DEF Spec
-----------------------------------------------------------------------------
(* What TypeOK says of the gateway, the cache and the requests holds.       *)
THEOREM TypeCorrect == Spec => []TypeOK
<1>1. Inv => TypeOK
  <2> SUFFICES ASSUME Inv PROVE TypeOK  OBVIOUS
  <2>1. ASSUME NEW p \in Requests
        PROVE  req[p].pc \in Labels /\ req[p].op \in Ops /\ DOMAIN req[p] = DOMAIN Idle
    <3>1. req[p] \in Locals  BY DEF Inv, ReqOK
    <3>2. DOMAIN req[p] = DOMAIN Idle  BY <3>1 DEF Locals, Idle
    <3> QED  BY <3>1, <3>2 DEF Locals
  <2>2. \A x \in Prefixes : cache[x] # None => cache[x] \in Cached(x)  BY DEF Inv, CacheOK
  <2> QED  BY <2>1, <2>2 DEF Inv, GatewayOK, TypeOK
<1> QED  BY InvHolds, <1>1, PTL

(* However fetches, writes and invalidations overlap, a listing answered is *)
(* right about every key that had not changed for CacheSeconds when it was  *)
(* asked for, whether it came from the cache or was fetched.                *)
THEOREM StalenessBounded == Spec => []StaleForCacheSecondsOnly
<1>1. Inv => StaleForCacheSecondsOnly
  BY DEF Inv, ReqOK, Current, Listed, StaleForCacheSecondsOnly
<1> QED  BY InvHolds, <1>1, PTL

(* A key that a client is told was deleted is gone, or was written since    *)
(* the client asked.                                                        *)
THEOREM DeletedIsGoneHolds == Spec => []DeletedIsGone
<1>1. Inv => DeletedIsGone
  <2> SUFFICES ASSUME Inv, NEW p \in Requests, req[p].told = "deleted", store[req[p].key] # None
               PROVE  store[req[p].key].etag > req[p].mark
    BY DEF DeletedIsGone
  <2>1. Gone(req[p]) /\ Sound(req[p])  BY DEF Inv, ReqOK, Current
  <2>2. req[p].key \in Keys /\ req[p].mark \in Nat  BY <2>1 DEF Sound, LocalsOK, Locals
  <2>3. store[req[p].key].etag \in Nat  BY <2>2, ObjectFacts DEF Inv, GatewayOK
  <2> QED  BY <2>1, <2>2, <2>3 DEF Gone
<1> QED  BY InvHolds, <1>1, PTL

(* The range sent lies in the object stat saw, and the body served of that  *)
(* object is as long as the Content-Length announced.                       *)
THEOREM ServedAsAnnouncedHolds == Spec => []ServedAsAnnounced
<1>1. Inv => ServedAsAnnounced
  <2> SUFFICES ASSUME Inv, NEW p \in Requests, NEW r, r = req[p]
      PROVE
        /\ r.pc = "get" /\ store[r.key] # None /\ store[r.key].etag = r.info.etag /\ Asked(r) # None =>
             0 <= Asked(r).first /\ Asked(r).first <= Asked(r).last /\ Asked(r).last < store[r.key].size
        /\ r.pc = "stream" /\ r.body.etag = r.info.etag => r.body.length = Announced(r)
    BY DEF ServedAsAnnounced
  <2>1. r \in Locals /\ LocalsOK(r) /\ Ranged(r) /\ Informed(r)  BY DEF Inv, ReqOK, Sound, Current
  <2>2. ASSUME r.pc = "get", store[r.key] # None, store[r.key].etag = r.info.etag, Asked(r) # None
        PROVE  0 <= Asked(r).first /\ Asked(r).first <= Asked(r).last /\ Asked(r).last < store[r.key].size
    <3>1. r.op = "get" /\ r.key \in Keys /\ r.info # None  BY <2>1, <2>2 DEF LocalsOK
    <3>2. store[r.key].etag # None  BY <2>2, <3>1, ObjectFacts DEF Inv, GatewayOK
    <3>3. store[r.key] = r.info  BY <2>1, <2>2, <3>1, <3>2 DEF Informed
    <3>4. Asked(r) = r.range  BY <2>2 DEF Asked
    <3> QED  BY <2>1, <2>2, <3>3, <3>4 DEF Ranged, InBounds
  <2> QED  BY <2>1, <2>2 DEF Ranged
<1> QED  BY InvHolds, <1>1, PTL

(* A conditional PUT replaces what does not meet its condition only where   *)
(* another wrote it after the check, or HEAD lagged at the check.           *)
THEOREM ConditionsHonouredHolds == Spec => []ConditionsHonoured
<1>1. Inv => ConditionsHonoured
  BY DEF Inv, ReqOK, Current, Informed, ConditionsHonoured
<1> QED  BY InvHolds, <1>1, PTL
-----------------------------------------------------------------------------
(* A write gives its key an object and leaves the others alone.             *)
LEMMA WriteStores ==
  ASSUME GatewayOK, NEW k \in Keys, NEW size \in Sizes, Write(k, size)
  PROVE  store'[k] # None /\ \A j \in Keys \ {k} : store'[j] = store[j]
<1>1. store' = [store EXCEPT ![k] = [etag |-> writes + 1, size |-> size]]  BY DEF Write
<1>2. [etag |-> writes + 1, size |-> size] \in Objects
  BY StoreParameters DEF Write, Objects, GatewayOK
<1> QED  BY <1>1, <1>2, ObjectFacts DEF GatewayOK

(* Which steps change the store, and at which keys: only sends and copies,  *)
(* and after one that is no delete_bucket an invalidation is still to come. *)
Alters(p) ==
  /\ req[p].pc \in {"send", "copying"}
  /\ \A k \in Keys : store'[k] = store[k] \/ k \in Touches(req[p])
  /\ \/ req[p].op \in {"delete", "rmdir"} \/ (req[p].op = "copy" /\ req[p].pc = "send")
     \/ req[p].op \in {"put", "copy"} /\ \A k \in Keys : store'[k] = store[k] \/ store'[k] # None
     \/ BucketSend(p)
  /\ \/ req'[p] = req[p]
     \/ /\ req'[p].pc \in {"send", "copying", "invalidate"}
        /\ Touches(req'[p]) = Touches(req[p])
     \/ BucketSend(p)

LEMMA WhoWrites ==
  ASSUME Inv, Next
  PROVE  UNCHANGED store \/ \E p \in Requests : Alters(p)
<1> USE DEF Inv
<1>1. ASSUME UNCHANGED gateway PROVE UNCHANGED store  BY <1>1 DEF gateway
<1>2. ASSUME NEW p \in Requests, NEW pc, Goto(p, pc)
      PROVE  req'[p].pc = pc /\ Touches(req'[p]) = Touches(req[p])
  <2>1. req[p] \in Locals  BY DEF ReqOK
  <2>2. req'[p] = [req[p] EXCEPT !.pc = pc]  BY <1>2 DEF Goto, ReqOK
  <2>3. req'[p].pc = pc /\ req'[p].op = req[p].op /\ req'[p].key = req[p].key
    BY <2>1, <2>2 DEF Locals
  <2> QED  BY <2>3 DEF Touches
<1>3. ASSUME NEW p \in Requests, NEW what, Told(p, what)
      PROVE  req'[p].pc = "invalidate" /\ Touches(req'[p]) = Touches(req[p])
  <2>1. req[p] \in Locals  BY DEF ReqOK
  <2>2. req'[p] = [req[p] EXCEPT !.pc = "invalidate", !.told = what]  BY <1>3 DEF Told, ReqOK
  <2>3. req'[p].pc = "invalidate" /\ req'[p].op = req[p].op /\ req'[p].key = req[p].key
    BY <2>1, <2>2 DEF Locals
  <2> QED  BY <2>3 DEF Touches
<1>4. ASSUME NEW p \in Requests PROVE Sound(req[p])  BY DEF ReqOK
<1>5. ASSUME NEW K \in SUBSET Keys, Erase(K) PROVE \A k \in Keys : store'[k] = store[k] \/ k \in K
  BY <1>5 DEF Erase, GatewayOK
<1>6. ASSUME NEW p \in Requests, PutSend(p), ~UNCHANGED gateway
      PROVE  /\ req[p].op = "put" /\ req[p].pc = "send"
             /\ \A k \in Keys : store'[k] = store[k] \/ (store'[k] # None /\ k \in Touches(req[p]))
             /\ req'[p] = req[p] \/ (req'[p].pc = "invalidate" /\ Touches(req'[p]) = Touches(req[p]))
  <2>1. req[p].key \in Keys /\ req[p].size \in Sizes  BY <1>4, <1>6 DEF Sound, LocalsOK, PutSend
  <2>2. Write(req[p].key, req[p].size) /\ Attempted(p)  BY <1>6 DEF PutSend
  <2>3. store'[req[p].key] # None /\ \A j \in Keys \ {req[p].key} : store'[j] = store[j]
    BY <2>1, <2>2, WriteStores
  <2>4. Touches(req[p]) = {req[p].key}  BY <1>6 DEF Touches, PutSend
  <2> QED  BY <1>2, <1>6, <2>2, <2>3, <2>4 DEF PutSend, Attempted
<1>7. ASSUME NEW p \in Requests, DeleteSend(p), ~UNCHANGED gateway
      PROVE  /\ req[p].op = "delete" /\ req[p].pc = "send"
             /\ \A k \in Keys : store'[k] = store[k] \/ k \in Touches(req[p])
             /\ req'[p] = req[p] \/ (req'[p].pc = "invalidate" /\ Touches(req'[p]) = Touches(req[p]))
  <2>1. req[p].key \in Keys  BY <1>4, <1>7 DEF Sound, LocalsOK, DeleteSend
  <2>2. Touches(req[p]) = {req[p].key}  BY <1>7 DEF Touches, DeleteSend
  <2>3. Erase({req[p].key}) /\ (Told(p, "deleted") \/ Told(p, "error") \/ UNCHANGED req)
    BY <1>7 DEF DeleteSend
  <2> QED  BY <1>3, <1>5, <1>7, <2>1, <2>2, <2>3 DEF DeleteSend
<1>8. ASSUME NEW p \in Requests, DirSend(p), ~UNCHANGED gateway
      PROVE  /\ req[p].op = "rmdir" /\ req[p].pc = "send"
             /\ \A k \in Keys : store'[k] = store[k] \/ k \in Touches(req[p])
             /\ req'[p] = req[p] \/ (req'[p].pc = "invalidate" /\ Touches(req'[p]) = Touches(req[p]))
  <2>1. Touches(req[p]) = Inside  BY <1>8 DEF Touches, DirSend
  <2>2. Erase(Inside) /\ Attempted(p)  BY <1>8 DEF DirSend
  <2> QED  BY <1>2, <1>5, <1>8, <2>1, <2>2, StoreParameters DEF DirSend, Attempted
<1>9. ASSUME NEW p \in Requests, BucketSend(p)
      PROVE  req[p].op = "rmbucket" /\ req[p].pc = "send" /\ Touches(req[p]) = Keys
  BY <1>9 DEF BucketSend, Touches
<1>10. ASSUME NEW p \in Requests, CopyClear(p), ~UNCHANGED gateway
       PROVE  /\ req[p].op = "copy" /\ req[p].pc = "send"
              /\ \A k \in Keys : store'[k] = store[k] \/ k \in Touches(req[p])
              /\ req'[p].pc \in {"copying", "invalidate"} /\ Touches(req'[p]) = Touches(req[p])
  <2>1. req[p].key \in Keys  BY <1>4, <1>10 DEF Sound, LocalsOK, CopyClear
  <2>2. Touches(req[p]) = {req[p].key}  BY <1>10 DEF Touches, CopyClear
  <2>3. Erase({req[p].key}) /\ (Goto(p, "copying") \/ Goto(p, "invalidate"))
    BY <1>10 DEF CopyClear
  <2> QED  BY <1>2, <1>5, <1>10, <2>1, <2>2, <2>3 DEF CopyClear
<1>11. ASSUME NEW p \in Requests, CopyWrite(p), ~UNCHANGED gateway
       PROVE  /\ req[p].op = "copy" /\ req[p].pc = "copying"
              /\ \A k \in Keys : store'[k] = store[k] \/ (store'[k] # None /\ k \in Touches(req[p]))
              /\ req'[p].pc \in {"send", "invalidate"} /\ Touches(req'[p]) = Touches(req[p])
  <2>1. req[p].op = "copy" /\ req[p].key \in Keys /\ req[p].src \in Keys
    BY <1>4, <1>11 DEF Sound, LocalsOK, CopyWrite
  <2>2. store[req[p].src] # None /\ Write(req[p].key, store[req[p].src].size)
    BY <1>11 DEF CopyWrite
  <2>3. store[req[p].src].size \in Sizes  BY <2>1, <2>2, ObjectFacts DEF GatewayOK
  <2>4. store'[req[p].key] # None /\ \A j \in Keys \ {req[p].key} : store'[j] = store[j]
    BY <2>1, <2>2, <2>3, WriteStores
  <2>5. Touches(req[p]) = {req[p].key}  BY <2>1 DEF Touches
  <2> QED  BY <1>2, <1>11, <2>1, <2>4, <2>5 DEF CopyWrite
<1>12. ASSUME NEW p \in Requests, Listing(p) \/ Reading(p) \/ Stat(p) \/ StatByListing(p)
       PROVE  UNCHANGED store
  BY <1>12 DEF Listing, Reading, Stat, StatByListing, List, Fetch, CacheListing, Answer, Get, GetSend,
               Stream, gateway
<1>13. ASSUME NEW p \in Requests, Put(p) \/ Post(p) \/ Copy(p) \/ Delete(p) \/ DeleteAll(p)
                                 \/ CreateBucket(p) \/ Invalidate(p)
       PROVE  UNCHANGED store
  BY <1>13 DEF Put, Post, Copy, Delete, DeleteAll, CreateBucket, Invalidate, gateway
<1>14. DeleteBatch \/ Settle \/ Tick => UNCHANGED store
  BY DEF DeleteBatch, Settle, Tick, gateway
<1> SUFFICES ASSUME ~UNCHANGED store
             PROVE  \E p \in Requests : Alters(p)
  OBVIOUS
<1>15. PICK p \in Requests : \/ PutSend(p) \/ DeleteSend(p) \/ DirSend(p) \/ BucketSend(p)
                             \/ CopyClear(p) \/ CopyWrite(p)
  BY <1>12, <1>13, <1>14 DEF Next, Writing
<1>16. ~UNCHANGED gateway  BY <1>1
<1>17. CASE PutSend(p)  BY <1>6, <1>16, <1>17 DEF Alters
<1>18. CASE DeleteSend(p)  BY <1>7, <1>16, <1>18 DEF Alters
<1>19. CASE DirSend(p)  BY <1>8, <1>16, <1>19 DEF Alters
<1>20. CASE BucketSend(p)  BY <1>9, <1>20 DEF Alters
<1>21. CASE CopyClear(p)  BY <1>10, <1>16, <1>21 DEF Alters
<1>22. CASE CopyWrite(p)  BY <1>11, <1>16, <1>22 DEF Alters
<1> QED  BY <1>15, <1>17, <1>18, <1>19, <1>20, <1>21, <1>22

(* An object goes only by a delete or an overwriting copy of its own key,   *)
(* by a copy from another key, or in a directory or bucket whose delete had *)
(* listed it empty, the object having been written since.                   *)
THEOREM LostOnlyByNameHolds == Spec => LostOnlyByName
<1>1. Inv /\ [Next]_vars =>
        [\A k \in Keys : store[k] # None /\ store'[k] = None => \E p \in Requests : MayErase(req[p], k)]_vars
  <2> SUFFICES ASSUME Inv, Next, NEW k \in Keys, store[k] # None, store'[k] = None
               PROVE  \E p \in Requests : MayErase(req[p], k)
    OBVIOUS
  <2>1. PICK p \in Requests : Alters(p)  BY WhoWrites
  <2>2. PICK r : r = req[p]  OBVIOUS
  <2>3. r \in Locals /\ LocalsOK(r) /\ FoundEmpty(r)  BY <2>2 DEF Inv, ReqOK, Sound, Current
  <2>4. k \in Touches(r)  BY <2>1, <2>2 DEF Alters
  <2>5. CASE r.op \in {"delete", "rmdir"} \/ (r.op = "copy" /\ r.pc = "send") \/ BucketSend(p)
    <3>1. r.pc = "send" /\ r.op \in {"delete", "rmdir", "copy", "rmbucket"}
      BY <2>1, <2>2, <2>3, <2>5 DEF Alters, LocalsOK, BucketSend
    <3>2. CASE r.op = "delete"  BY <2>2, <2>4, <3>1, <3>2 DEF MayErase, Touches
    <3>3. CASE r.op = "copy"  BY <2>2, <2>3, <2>4, <3>1, <3>3 DEF MayErase, Touches, LocalsOK
    <3>4. CASE r.op \in {"rmdir", "rmbucket"}  BY <2>2, <2>3, <2>4, <3>1, <3>4 DEF MayErase, FoundEmpty
    <3> QED  BY <3>1, <3>2, <3>3, <3>4
  <2> QED  BY <2>1, <2>2, <2>5 DEF Alters
<1> QED  BY InvHolds, <1>1, PTL DEF Spec, LostOnlyByName
-----------------------------------------------------------------------------
(* A step that only adds to the unsettled keys, all it changes among them,  *)
(* caches nothing, and fetches what is there, keeps the cache coherent.     *)
LEMMA CoherentStep ==
  ASSUME Inv, Coherent, UNCHANGED cache,
         \A k \in Keys : Unsettled(k) => Unsettled(k)',
         \A k \in Keys : store'[k] = store[k] \/ Unsettled(k)',
         \A q \in Requests : req'[q].pc = "store" /\ ~req'[q].raced =>
           \/ req'[q] = req[q]
           \/ \A k \in Under(req'[q].prefix) : req'[q].entries[k] = store'[k]
  PROVE  Coherent'
<1>1. CacheCoherent'
  <2> SUFFICES ASSUME NEW x \in Prefixes, cache[x] # None, ~cache[x].raced, NEW k \in Under(x)
               PROVE  cache[x].entries[k] = store'[k] \/ Unsettled(k)'
    BY DEF CacheCoherent
  <2>1. k \in Keys  BY UnderKeys
  <2> QED  BY <2>1 DEF Coherent, CacheCoherent
<1>2. FetchCoherent'
  <2> SUFFICES ASSUME NEW q \in Requests, req'[q].pc = "store", ~req'[q].raced, NEW k \in Under(req'[q].prefix)
               PROVE  req'[q].entries[k] = store'[k] \/ Unsettled(k)'
    BY DEF FetchCoherent
  <2>1. k \in Keys  BY UnderKeys
  <2> QED  BY <2>1 DEF Coherent, FetchCoherent
<1> QED  BY <1>1, <1>2 DEF Coherent

Unresolved == {"send", "copying", "invalidate"}

(* How a request moves that neither caches nor drops a listing.             *)
Advances(p) ==
  /\ \A q \in Requests \ {p} : req'[q] = req[q]
  /\ \/ req'[p] = req[p]
     \/ req[p].pc \notin Unresolved /\ req'[p].pc # "store"
     \/ req'[p].pc \in Unresolved /\ Touches(req'[p]) = Touches(req[p])
     \/ /\ req[p].pc = "fetch" /\ UNCHANGED store
        /\ \A k \in Under(req'[p].prefix) : req'[p].entries[k] = store[k]

LEMMA WhoAdvances ==
  ASSUME Inv, NEW p \in Requests,
         \/ List(p) \/ Fetch(p) \/ Answer(p) \/ Reading(p) \/ Stat(p) \/ StatByListing(p)
         \/ Put(p) \/ Post(p) \/ Copy(p) \/ Delete(p) \/ DeleteAll(p) \/ CreateBucket(p)
         \/ PutSend(p) \/ DeleteSend(p) \/ DirSend(p) \/ CopyClear(p) \/ CopyWrite(p)
  PROVE  Advances(p)
<1> USE DEF Inv, ReqOK
<1>1. req[p] \in Locals  OBVIOUS
<1>2. ASSUME NEW pc, Goto(p, pc)
      PROVE  /\ \A q \in Requests \ {p} : req'[q] = req[q]
             /\ req'[p].pc = pc /\ Touches(req'[p]) = Touches(req[p])
  <2>1. req' = [req EXCEPT ![p] = [req[p] EXCEPT !.pc = pc]]  BY <1>2 DEF Goto
  <2>2. req'[p] = [req[p] EXCEPT !.pc = pc]  BY <2>1
  <2>3. req'[p].pc = pc /\ req'[p].op = req[p].op /\ req'[p].key = req[p].key
    BY <1>1, <2>2 DEF Locals
  <2> QED  BY <2>1, <2>3 DEF Touches
<1>3. ASSUME NEW what, Told(p, what)
      PROVE  /\ \A q \in Requests \ {p} : req'[q] = req[q]
             /\ req'[p].pc = "invalidate" /\ Touches(req'[p]) = Touches(req[p])
  <2>1. req' = [req EXCEPT ![p] = [req[p] EXCEPT !.pc = "invalidate", !.told = what]]  BY <1>3 DEF Told
  <2>2. req'[p] = [req[p] EXCEPT !.pc = "invalidate", !.told = what]  BY <2>1
  <2>3. req'[p].pc = "invalidate" /\ req'[p].op = req[p].op /\ req'[p].key = req[p].key
    BY <1>1, <2>2 DEF Locals
  <2> QED  BY <2>1, <2>3 DEF Touches
<1>4. ASSUME NEW r, Begin(p, r), r.pc # "store", req[p].pc \notin Unresolved PROVE Advances(p)
  BY <1>4 DEF Begin, Advances
<1>5. ASSUME Finish(p), req[p].pc \notin Unresolved PROVE Advances(p)
  <2>1. Idle.pc # "store"  BY DEF Idle
  <2> QED  BY <1>5, <2>1 DEF Finish, Advances
<1>6. ASSUME NEW pc \in Unresolved, Goto(p, pc) PROVE Advances(p)
  BY <1>2, <1>6 DEF Advances
<1>7. ASSUME NEW pc, pc # "store", Goto(p, pc), req[p].pc \notin Unresolved PROVE Advances(p)
  BY <1>2, <1>7 DEF Advances
<1>0. ASSUME NEW info, GoOn(p, info), req[p].pc \notin Unresolved PROVE Advances(p)
  <2>1. req'[p] = [req[p] EXCEPT !.pc = "send", !.info = info, !.mark = writes]  BY <1>0 DEF GoOn
  <2>2. req'[p].pc # "store"  BY <1>1, <2>1 DEF Locals
  <2>3. \A q \in Requests \ {p} : req'[q] = req[q]  BY <1>0 DEF GoOn
  <2> QED  BY <1>0, <2>2, <2>3 DEF Advances
<1>8. CASE List(p)
  <2>1. PICK x \in Prefixes :
          \/ Begin(p, [[Idle EXCEPT !.op = "list", !.prefix = x, !.started = now]
                         EXCEPT !.pc = "listed", !.entries = cache[x].entries])
          \/ Begin(p, [[Idle EXCEPT !.op = "list", !.prefix = x, !.started = now] EXCEPT !.pc = "fetch"])
    BY <1>8 DEF List
  <2>2. /\ [[Idle EXCEPT !.op = "list", !.prefix = x, !.started = now]
              EXCEPT !.pc = "listed", !.entries = cache[x].entries].pc # "store"
        /\ [[Idle EXCEPT !.op = "list", !.prefix = x, !.started = now] EXCEPT !.pc = "fetch"].pc # "store"
    BY DEF Idle
  <2> QED  BY <1>4, <1>8, <2>1, <2>2 DEF List, Unresolved
<1>9. CASE Fetch(p)
  <2>1. CASE Finish(p)  BY <1>5, <1>9, <2>1 DEF Fetch, Unresolved
  <2>2. CASE req' = [req EXCEPT ![p].pc = "store", ![p].mark = writes,
                                ![p].entries = [k \in Under(req[p].prefix) |-> store[k]]]
    <3>1. req'[p] = [req[p] EXCEPT !.pc = "store", !.mark = writes,
                                   !.entries = [k \in Under(req[p].prefix) |-> store[k]]]
      BY <2>2
    <3>2. /\ req'[p].prefix = req[p].prefix
          /\ req'[p].entries = [k \in Under(req[p].prefix) |-> store[k]]
      BY <1>1, <3>1 DEF Locals
    <3>3. \A k \in Under(req'[p].prefix) : req'[p].entries[k] = store[k]  BY <3>2
    <3>4. \A q \in Requests \ {p} : req'[q] = req[q]  BY <2>2
    <3>5. req[p].pc = "fetch" /\ UNCHANGED store  BY <1>9 DEF Fetch, gateway
    <3> QED  BY <3>3, <3>4, <3>5 DEF Advances
  <2> QED  BY <1>9, <2>1, <2>2 DEF Fetch
<1>10. CASE Answer(p)  BY <1>5, <1>10 DEF Answer, Unresolved
<1>11. CASE Get(p)
  <2>1. PICK k \in Keys, header \in Headers :
          Begin(p, [Idle EXCEPT !.op = "get", !.pc = "stat", !.key = k, !.range = header])
    BY <1>11 DEF Get
  <2>2. [Idle EXCEPT !.op = "get", !.pc = "stat", !.key = k, !.range = header].pc # "store"  BY DEF Idle
  <2> QED  BY <1>4, <1>11, <2>1, <2>2 DEF Get, Unresolved
<1>12. CASE GetSend(p)
  <2>1. CASE Finish(p)  BY <1>5, <1>12, <2>1 DEF GetSend, Unresolved
  <2>2. CASE ~Finish(p)
    <3>1. PICK b : req' = [req EXCEPT ![p] = [req[p] EXCEPT !.pc = "stream", !.body = b]]
      BY <1>12, <2>2 DEF GetSend
    <3>2. req'[p] = [req[p] EXCEPT !.pc = "stream", !.body = b]  BY <3>1
    <3>3. req'[p].pc # "store"  BY <1>1, <3>2 DEF Locals
    <3>4. \A q \in Requests \ {p} : req'[q] = req[q]  BY <3>1
    <3> QED  BY <1>12, <3>3, <3>4 DEF Advances, GetSend, Unresolved
  <2> QED  BY <2>1, <2>2
<1>13. CASE Stream(p)  BY <1>5, <1>13 DEF Stream, Unresolved
<1>14. ASSUME NEW info, Known(p, info), req[p].pc \notin Unresolved, req[p].op \in {"put", "copy", "get"}
       PROVE Advances(p)
  <2>1. CASE Finish(p)  BY <1>5, <1>14, <2>1
  <2>2. CASE Goto(p, "send")  BY <1>6, <2>2 DEF Unresolved
  <2>3. CASE GoOn(p, info)  BY <1>14, <2>3, <1>0
  <2>4. CASE req' = [req EXCEPT ![p].pc = "get", ![p].info = info, ![p].range = Resolved(@, info.size)]
    <3>1. req'[p] = [req[p] EXCEPT !.pc = "get", !.info = info, !.range = Resolved(@, info.size)]  BY <2>4
    <3>2. req'[p].pc # "store"  BY <1>1, <3>1 DEF Locals
    <3>3. \A q \in Requests \ {p} : req'[q] = req[q]  BY <2>4
    <3> QED  BY <1>14, <3>2, <3>3 DEF Advances
  <2> QED  BY <1>14, <2>1, <2>2, <2>3, <2>4 DEF Known
<1>15. req[p].pc \in {"stat", "lag"} => req[p].op \in {"put", "copy", "get"}
  BY DEF Sound, LocalsOK
<1>16. CASE Stat(p)
  <2>1. CASE Goto(p, "lag")  BY <1>7, <1>16, <2>1 DEF Stat, Unresolved
  <2>2. CASE Finish(p)  BY <1>5, <1>16, <2>2 DEF Stat, Unresolved
  <2>3. CASE GoOn(p, None)  BY <1>0, <1>16, <2>3 DEF Stat, Unresolved
  <2>4. CASE Known(p, store[Subject(req[p])])  BY <1>14, <1>15, <1>16, <2>4 DEF Stat, Unresolved
  <2> QED  BY <1>16, <2>1, <2>2, <2>3, <2>4 DEF Stat, Unknown
<1>17. CASE StatByListing(p)
  <2>1. CASE Finish(p)  BY <1>5, <1>17, <2>1 DEF StatByListing, Unresolved
  <2>2. PICK info : info = [etag |-> None, size |-> store[Subject(req[p])].size]  OBVIOUS
  <2>3. CASE Known(p, info)  BY <1>14, <1>15, <1>17, <2>3 DEF StatByListing, Unresolved
  <2> QED  BY <1>17, <2>1, <2>2, <2>3 DEF StatByListing
<1>18. CASE Put(p)
  <2>1. PICK k \in Keys, size \in Sizes, cond \in Conditions, pc \in {"send", "stat"} :
          Begin(p, [Idle EXCEPT !.op = "put", !.key = k, !.size = size, !.cond = cond, !.pc = pc])
    BY <1>18 DEF Put
  <2>2. [Idle EXCEPT !.op = "put", !.key = k, !.size = size, !.cond = cond, !.pc = pc].pc # "store"
    BY DEF Idle
  <2> QED  BY <1>4, <1>18, <2>1, <2>2 DEF Put, Unresolved
<1>19. CASE Post(p)
  <2>1. PICK k \in Keys, size \in Sizes :
          Begin(p, [Idle EXCEPT !.op = "put", !.key = k, !.size = size, !.pc = "send"])
    BY <1>19 DEF Post
  <2>2. [Idle EXCEPT !.op = "put", !.key = k, !.size = size, !.pc = "send"].pc # "store"  BY DEF Idle
  <2> QED  BY <1>4, <1>19, <2>1, <2>2 DEF Post, Unresolved
<1>20. CASE Copy(p)
  <2>1. PICK k \in Keys, src \in Keys :
          Begin(p, [Idle EXCEPT !.op = "copy", !.key = k, !.src = src, !.pc = "stat"])
    BY <1>20 DEF Copy
  <2>2. [Idle EXCEPT !.op = "copy", !.key = k, !.src = src, !.pc = "stat"].pc # "store"  BY DEF Idle
  <2> QED  BY <1>4, <1>20, <2>1, <2>2 DEF Copy, Unresolved
<1>21. CASE Delete(p)
  <2>1. PICK k \in Keys : Begin(p, Deletion(k))  BY <1>21 DEF Delete
  <2>2. Deletion(k).pc # "store"  BY DEF Deletion, Idle
  <2> QED  BY <1>4, <1>21, <2>1, <2>2 DEF Delete, Unresolved
<1>22. CASE DeleteAll(p)
  <2>1. PICK op \in Ops, x \in Prefixes :
          Begin(p, [Idle EXCEPT !.op = op, !.pc = "fetch", !.started = now, !.mark = writes, !.prefix = x])
    BY <1>22 DEF DeleteAll, Prefixes, Ops
  <2>2. [Idle EXCEPT !.op = op, !.pc = "fetch", !.started = now, !.mark = writes, !.prefix = x].pc # "store"
    BY DEF Idle
  <2> QED  BY <1>4, <1>22, <2>1, <2>2 DEF DeleteAll, Unresolved
<1>23. CASE UNCHANGED req  BY <1>23 DEF Advances
<1>24. CASE PutSend(p)  BY <1>6, <1>23, <1>24 DEF PutSend, Attempted, Unresolved
<1>25. CASE DeleteSend(p)
  <2>1. ASSUME NEW what, Told(p, what) PROVE Advances(p)  BY <1>3, <2>1 DEF Advances, Unresolved
  <2> QED  BY <1>23, <1>25, <2>1 DEF DeleteSend
<1>26. CASE DirSend(p)  BY <1>6, <1>23, <1>26 DEF DirSend, Attempted, Unresolved
<1>27. CASE CopyClear(p)  BY <1>6, <1>27 DEF CopyClear, Unresolved
<1>28. CASE CopyWrite(p)  BY <1>6, <1>28 DEF CopyWrite, Unresolved
<1>29. CASE CreateBucket(p)  BY <1>23, <1>29 DEF CreateBucket
<1> QED  BY <1>8, <1>9, <1>10, <1>11, <1>12, <1>13, <1>16, <1>17, <1>18, <1>19, <1>20, <1>21, <1>22, <1>24,
            <1>25, <1>26, <1>27, <1>28, <1>29 DEF Reading

LEMMA CoherentAdvance ==
  ASSUME Inv, Coherent, Next, UNCHANGED cache, NEW p \in Requests, Advances(p),
         \A q \in Requests : ~BucketSend(q)
  PROVE  Coherent'
<1>1. ASSUME NEW k \in Keys PROVE Unsettled(k) => Unsettled(k)'
  <2> SUFFICES ASSUME NEW q \in Requests, req[q].pc \in Unresolved, k \in Touches(req[q])
               PROVE  Unsettled(k)'
    BY DEF Unsettled, Unresolved
  <2>1. CASE req'[q] = req[q]  BY <2>1 DEF Unsettled, Unresolved, Touches
  <2>2. CASE q = p /\ req'[p].pc \in Unresolved /\ Touches(req'[p]) = Touches(req[p])
    BY <2>2 DEF Unsettled, Unresolved, Touches
  <2> QED  BY <2>1, <2>2 DEF Advances, Unresolved
<1>2. ASSUME NEW k \in Keys PROVE store'[k] = store[k] \/ Unsettled(k)'
  <2>1. CASE UNCHANGED store  BY <2>1
  <2>2. CASE ~UNCHANGED store
    <3>1. PICK q \in Requests : Alters(q)  BY <2>2, WhoWrites
    <3>2. CASE req'[q] = req[q]
      BY <3>1, <3>2 DEF Alters, Unsettled, Touches
    <3>3. CASE req'[q].pc \in {"send", "copying", "invalidate"} /\ Touches(req'[q]) = Touches(req[q])
      BY <3>1, <3>3 DEF Alters, Unsettled, Touches
    <3> QED  BY <3>1, <3>2, <3>3 DEF Alters
  <2> QED  BY <2>1, <2>2
<1>3. ASSUME NEW q \in Requests, req'[q].pc = "store", ~req'[q].raced
      PROVE  \/ req'[q] = req[q]
             \/ \A k \in Under(req'[q].prefix) : req'[q].entries[k] = store'[k]
  BY <1>3 DEF Advances, Unresolved
<1> QED  BY <1>1, <1>2, <1>3, CoherentStep

(* A listing fetched is cached with what it says, raced or not; the request *)
(* that goes on to delete adds to what is unsettled.                        *)
LEMMA CoherentListing ==
  ASSUME Inv, Coherent, NEW p \in Requests, CacheListing(p) PROVE Coherent'
<1> USE DEF Inv
<1>1. PICK r : r = req[p]  OBVIOUS
<1>2. r \in Locals /\ r.prefix \in Prefixes /\ r.pc = "store" /\ UNCHANGED store
  BY <1>1 DEF ReqOK, Locals, CacheListing, gateway
<1>3. /\ \A q \in Requests \ {p} : req'[q] = req[q]
      /\ req'[p].pc # "store"
  <2>1. CASE req' = [req EXCEPT ![p] = [r EXCEPT !.pc = "listed", !.raced = FALSE, !.mark = 0]]
    <3>1. req'[p] = [r EXCEPT !.pc = "listed", !.raced = FALSE, !.mark = 0]  BY <2>1 DEF ReqOK
    <3>2. req'[p].pc = "listed"  BY <1>2, <3>1 DEF Locals
    <3> QED  BY <2>1, <3>2 DEF ReqOK
  <2>2. CASE req' = [req EXCEPT ![p] = [r EXCEPT !.pc = "send", !.raced = FALSE, !.entries = None, !.started = 0]]
    <3>1. req'[p] = [r EXCEPT !.pc = "send", !.raced = FALSE, !.entries = None, !.started = 0]
      BY <2>2 DEF ReqOK
    <3>2. req'[p].pc = "send"  BY <1>2, <3>1 DEF Locals
    <3> QED  BY <2>2, <3>2 DEF ReqOK
  <2>3. CASE Finish(p)
    <3>1. Idle.pc # "store"  BY DEF Idle
    <3> QED  BY <2>3, <3>1 DEF Finish, ReqOK
  <2> QED  BY <1>1, <2>1, <2>2, <2>3 DEF CacheListing
<1>4. ASSUME NEW k PROVE Unsettled(k) => Unsettled(k)'
  <2> SUFFICES ASSUME NEW q \in Requests, req[q].pc \in Unresolved, k \in Touches(req[q])
               PROVE  Unsettled(k)'
    BY DEF Unsettled, Unresolved
  <2>1. q # p  BY <1>1, <1>2 DEF Unresolved
  <2>2. req'[q] = req[q]  BY <1>3, <2>1
  <2> QED  BY <2>2 DEF Unsettled, Unresolved, Touches
<1>5. FetchCoherent'
  <2> SUFFICES ASSUME NEW q \in Requests, req'[q].pc = "store", ~req'[q].raced, NEW k \in Under(req'[q].prefix)
               PROVE  req'[q].entries[k] = store'[k] \/ Unsettled(k)'
    BY DEF FetchCoherent
  <2>1. q # p /\ req'[q] = req[q]  BY <1>3
  <2> QED  BY <1>2, <1>4, <2>1 DEF Coherent, FetchCoherent
<1>6. CacheCoherent'
  <2> SUFFICES ASSUME NEW x \in Prefixes, cache'[x] # None, ~cache'[x].raced, NEW k \in Under(x)
               PROVE  cache'[x].entries[k] = store[k] \/ Unsettled(k)'
    BY <1>2 DEF CacheCoherent
  <2>1. cache' = [cache EXCEPT ![r.prefix] = [taken |-> r.started, entries |-> r.entries, raced |-> r.raced]]
    BY <1>1 DEF CacheListing
  <2>2. CASE x = r.prefix
    <3>1. cache'[x] = [taken |-> r.started, entries |-> r.entries, raced |-> r.raced]
      BY <1>2, <2>1, <2>2 DEF CacheOK
    <3>2. ~r.raced /\ cache'[x].entries = r.entries  BY <3>1
    <3>3. r.entries[k] = store[k] \/ Unsettled(k)  BY <1>1, <1>2, <2>2, <3>2 DEF Coherent, FetchCoherent
    <3> QED  BY <1>4, <3>2, <3>3
  <2>3. CASE x # r.prefix
    <3>1. cache'[x] = cache[x]  BY <2>1, <2>3 DEF CacheOK
    <3> QED  BY <1>4, <3>1 DEF Coherent, CacheCoherent
  <2> QED  BY <2>2, <2>3
<1> QED  BY <1>5, <1>6 DEF Coherent

(* After an invalidation nothing is cached, and what is being fetched, like *)
(* after a delete_bucket that fails, is known to be raced.                  *)
LEMMA CoherentOvertaken ==
  ASSUME Inv, NEW p \in Requests, FinishOvertaking(p),
         \A x \in Prefixes : cache'[x] = None \/ cache'[x].raced
  PROVE  Coherent'
<1>1. ASSUME NEW q \in Requests, req'[q].pc = "store" PROVE req'[q].raced
  <2>1. CASE q = p
    <3>1. req'[q] = Idle  BY <2>1 DEF FinishOvertaking
    <3>2. Idle.pc = "idle"  BY DEF Idle
    <3> QED  BY <1>1, <3>1, <3>2
  <2>2. CASE q # p
    <3>1. req[q] \in Locals  BY DEF Inv, ReqOK
    <3>2. req'[q] = [req[q] EXCEPT !.raced = (req[q].pc = "store")]  BY <2>2 DEF FinishOvertaking
    <3>3. req'[q].raced = (req[q].pc = "store") /\ req'[q].pc = req[q].pc  BY <3>1, <3>2 DEF Locals
    <3> QED  BY <1>1, <3>3
  <2> QED  BY <2>1, <2>2
<1>2. CacheCoherent'  BY DEF CacheCoherent
<1>3. FetchCoherent'  BY <1>1 DEF FetchCoherent
<1> QED  BY <1>2, <1>3 DEF Coherent

LEMMA CoherentBucket ==
  ASSUME Inv, Coherent, NEW p \in Requests, BucketSend(p) PROVE Coherent'
<1> USE DEF Inv
<1>1. CASE UNCHANGED cache /\ Attempted(p)
  <2>1. PICK r : r = req[p]  OBVIOUS
  <2>2. r \in Locals /\ r.op = "rmbucket" /\ r.pc = "send"  BY <2>1 DEF ReqOK, BucketSend
  <2>3. req'[p].pc \in Unresolved /\ Touches(req'[p]) = Keys /\ \A q \in Requests \ {p} : req'[q] = req[q]
    <3>1. CASE UNCHANGED req  BY <2>1, <2>2, <3>1 DEF Unresolved, Touches
    <3>2. CASE Goto(p, "invalidate")
      <4>1. req'[p] = [r EXCEPT !.pc = "invalidate"]  BY <2>1, <3>2 DEF Goto, ReqOK
      <4>2. req'[p].pc = "invalidate" /\ req'[p].op = "rmbucket"  BY <2>2, <4>1 DEF Locals
      <4>3. \A q \in Requests \ {p} : req'[q] = req[q]  BY <3>2 DEF Goto, ReqOK
      <4> QED  BY <4>2, <4>3 DEF Unresolved, Touches
    <3> QED  BY <1>1, <3>1, <3>2 DEF Attempted
  <2>4. \A k \in Keys : Unsettled(k)'
    BY <2>3 DEF Unsettled, Unresolved, Touches
  <2>5. ASSUME NEW q \in Requests, req'[q].pc = "store" PROVE req'[q] = req[q]
    BY <2>3, <2>5 DEF Unresolved
  <2> QED  BY <1>1, <2>4, <2>5, CoherentStep
<1>2. CASE /\ FinishOvertaking(p)
           /\ cache' = [x \in Prefixes |-> IF cache[x] = None THEN None ELSE [cache[x] EXCEPT !.raced = TRUE]]
  <2>1. ASSUME NEW x \in Prefixes PROVE cache'[x] = None \/ cache'[x].raced
    <3>1. cache[x] # None => cache[x] \in Cached(x)  BY DEF CacheOK
    <3>2. cache'[x] = IF cache[x] = None THEN None ELSE [cache[x] EXCEPT !.raced = TRUE]  BY <1>2
    <3> QED  BY <3>1, <3>2 DEF Cached
  <2> QED  BY <1>2, <2>1, CoherentOvertaken
<1> QED  BY <1>1, <1>2 DEF BucketSend

(* The cache is wrong of a key only while a request that writes the key has *)
(* still to invalidate, unless the listing was raced by an invalidation.    *)
THEOREM CacheCoherentHolds == Spec => []CacheCoherent
<1>1. Init => Coherent
  <2> SUFFICES ASSUME Init PROVE Coherent  OBVIOUS
  <2>1. Idle.pc # "store"  BY DEF Idle
  <2> QED  BY <2>1 DEF Init, Coherent, CacheCoherent, FetchCoherent
<1>2. Inv /\ Coherent /\ [Next]_vars => Coherent'
  <2> SUFFICES ASSUME Inv, Coherent, [Next]_vars PROVE Coherent'  OBVIOUS
  <2>1. ASSUME NEW q \in Requests, BucketSend(q) PROVE Coherent'  BY <2>1, CoherentBucket
  <2> SUFFICES ASSUME \A q \in Requests : ~BucketSend(q) PROVE Coherent'
    BY <2>1
  <2>2. ASSUME UNCHANGED <<cache, req, store>> PROVE Coherent'
    BY <2>2 DEF Coherent, CacheCoherent, FetchCoherent, Unsettled, Touches
  <2>3. ASSUME Next, UNCHANGED cache, NEW p \in Requests, Advances(p) PROVE Coherent'
    BY <2>3, CoherentAdvance
  <2>4. ASSUME NEW p \in Requests, Listing(p), Next PROVE Coherent'
    <3>1. CASE CacheListing(p)  BY <3>1, CoherentListing
    <3>2. CASE List(p) \/ Fetch(p) \/ Answer(p)
      BY <2>3, <2>4, <3>2, WhoAdvances DEF List, Fetch, Answer
    <3> QED  BY <2>4, <3>1, <3>2 DEF Listing
  <2>5. ASSUME NEW p \in Requests, Reading(p) \/ Stat(p) \/ StatByListing(p), Next PROVE Coherent'
    <3>1. UNCHANGED cache  BY <2>5 DEF Reading, Get, GetSend, Stream, Stat, StatByListing
    <3> QED  BY <2>3, <2>5, <3>1, WhoAdvances
  <2>6. ASSUME NEW p \in Requests, Writing(p), Next PROVE Coherent'
    <3>1. CASE Invalidate(p)  BY <3>1, CoherentOvertaken DEF Invalidate
    <3>2. CASE \/ Put(p) \/ Post(p) \/ Copy(p) \/ Delete(p) \/ DeleteAll(p) \/ CreateBucket(p)
               \/ PutSend(p) \/ DeleteSend(p) \/ DirSend(p) \/ CopyClear(p) \/ CopyWrite(p)
      <4>1. UNCHANGED cache
        BY <3>2 DEF Put, Post, Copy, Delete, DeleteAll, CreateBucket, PutSend, DeleteSend, DirSend,
                    CopyClear, CopyWrite
      <4> QED  BY <2>3, <2>6, <3>2, <4>1, WhoAdvances
    <3> QED  BY <2>6, <3>1, <3>2 DEF Writing
  <2>7. CASE DeleteBatch
    <3>1. PICK W \in SUBSET {q \in Requests : req[q].pc = "idle"} : \E key \in [W -> Keys] :
            req' = [q \in Requests |-> IF q \in W THEN Deletion(key[q]) ELSE req[q]]
      BY <2>7 DEF DeleteBatch
    <3>2. PICK key \in [W -> Keys] :
            req' = [q \in Requests |-> IF q \in W THEN Deletion(key[q]) ELSE req[q]]
      BY <3>1
    <3>3. ASSUME NEW q \in Requests PROVE req'[q] = req[q] \/ (req[q].pc = "idle" /\ req'[q].pc = "send")
      <4>1. \A k : Deletion(k).pc = "send"  BY DEF Deletion, Idle
      <4>2. q \in W => req[q].pc = "idle"  OBVIOUS
      <4>3. req'[q] = IF q \in W THEN Deletion(key[q]) ELSE req[q]  BY <3>2
      <4> QED  BY <4>1, <4>2, <4>3
    <3>4. ASSUME NEW k \in Keys PROVE Unsettled(k) => Unsettled(k)'
      <4> SUFFICES ASSUME NEW q \in Requests, req[q].pc \in Unresolved, k \in Touches(req[q])
                   PROVE  Unsettled(k)'
        BY DEF Unsettled, Unresolved
      <4>1. req'[q] = req[q]  BY <3>3 DEF Unresolved
      <4> QED  BY <4>1 DEF Unsettled, Unresolved, Touches
    <3>5. UNCHANGED store /\ UNCHANGED cache  BY <2>7 DEF DeleteBatch, gateway
    <3>6. ASSUME NEW q \in Requests, req'[q].pc = "store" PROVE req'[q] = req[q]
      BY <3>3, <3>6
    <3> QED  BY <3>4, <3>5, <3>6, CoherentStep
  <2>8. CASE Settle \/ Tick \/ UNCHANGED vars  BY <2>2, <2>8 DEF Settle, Tick, vars, gateway
  <2>9. CASE Next /\ \E p \in Requests : Listing(p) \/ Reading(p) \/ Writing(p) \/ Stat(p) \/ StatByListing(p)
    BY <2>4, <2>5, <2>6, <2>9
  <2> QED  BY <2>7, <2>8, <2>9 DEF Next
<1> QED  BY InvHolds, <1>1, <1>2, PTL DEF Spec, Coherent
=============================================================================
