------------------------------ MODULE Upstream ------------------------------
(***************************************************************************)
(* upstream.py and the object and bucket handlers over it: one bucket of    *)
(* the gateway, the cache of listings, and the requests of clients. Every   *)
(* method of Upstream runs in a worker thread, so requests interleave at    *)
(* each call to the gateway and at each use of the cache under its lock.    *)
(*                                                                          *)
(* The gateway is external: the actions on `store` are what upstream.py     *)
(* says it has measured of it. An object is its ETag (the gateway gives     *)
(* each write a new one) and its size.                                      *)
(***************************************************************************)
EXTENDS Integers

CONSTANTS
  Requests,      \* requests in flight at one time
  Keys, Inside,  \* the keys of the bucket; those below the directory "dir/"
  Sizes,         \* sizes of objects
  Offsets,       \* numbers in a Range header
  CacheSeconds,  \* list_cache_seconds, in ticks
  None,
  MaxTime,       \* bound: ticks of the clock
  MaxWrites,     \* bound: writes the gateway performs
  Kinds          \* bound: the kinds of requests that arrive

ASSUME StoreParameters ==
  /\ Inside \subseteq Keys /\ Sizes \cup Offsets \subseteq Nat
  /\ CacheSeconds \in Nat \ {0} /\ {MaxTime, MaxWrites} \subseteq Nat
  /\ None \notin Keys \cup Nat

VARIABLES
  now,
  exists,   \* whether the bucket exists
  store,    \* the object of each key, or None
  writes,   \* writes performed: the last ETag
  lagging,  \* keys whose HEAD answers 401 since their PUT
  cache,    \* the cached listing of each prefix, or None
  req,      \* program counter and locals of each request
  since     \* when each key last changed: history

gateway == <<exists, store, writes, lagging, since>>
vars == <<now, gateway, cache, req>>

Objects == [etag : 1..MaxWrites, size : Sizes]

(* What stat returns: on a lagging HEAD it knows no ETag.                   *)
Infos == [etag : 1..MaxWrites \cup {None}, size : Sizes]

ASSUME NoneIsNoObject == None \notin Infos

Prefixes == {"", "dir/"}
Under(prefix) == IF prefix = "" THEN Keys ELSE Inside

(* A listing names sizes and times, no ETags: here the objects stand for    *)
(* them. raced is history: an invalidation came between fetch and store.    *)
Cached(x) == [taken : Nat, entries : [Under(x) -> Objects \cup {None}], raced : BOOLEAN]

(* A Range header bytes=first-last, either number left out, or None; a      *)
(* precondition: If-None-Match: * (Absent), If-Match with an ETag, or None. *)
Headers == {None} \cup [first : Offsets \cup {None}, last : Offsets \cup {None}]
Absent == 0
Conditions == {None, Absent} \cup 1..MaxWrites
Ops == {"none", "list", "rmdir", "rmbucket", "get", "put", "copy", "delete"}
Labels == {"idle", "fetch", "store", "listed", "stat", "lag", "send", "copying", "invalidate",
           "get", "stream"}

Idle == [pc |-> "idle", op |-> "none", key |-> None, src |-> None, prefix |-> "", started |-> 0,
         entries |-> None, raced |-> FALSE, mark |-> 0, cond |-> None, size |-> 0, info |-> None,
         range |-> None, body |-> None, told |-> "nothing"]

TypeOK ==
  /\ now \in 0..MaxTime /\ exists \in BOOLEAN
  /\ store \in [Keys -> Objects \cup {None}]
  /\ writes \in 0..MaxWrites /\ lagging \subseteq Keys
  /\ \A x \in Prefixes : cache[x] # None => cache[x] \in Cached(x)
  /\ \A p \in Requests : req[p].pc \in Labels /\ req[p].op \in Ops /\ DOMAIN req[p] = DOMAIN Idle
  /\ since \in [Keys -> 0..MaxTime]

Init ==
  /\ now = 0 /\ exists = TRUE
  /\ store = [k \in Keys |-> None] /\ writes = 0 /\ lagging = {}
  /\ cache = [x \in Prefixes |-> None]
  /\ req = [p \in Requests |-> Idle]
  /\ since = [k \in Keys |-> 0]

-----------------------------------------------------------------------------
Begin(p, r) == req' = [req EXCEPT ![p] = r]
Goto(p, pc) == req' = [req EXCEPT ![p].pc = pc]
Finish(p) == req' = [req EXCEPT ![p] = Idle]

(* The gateway writes an object of the given size; it removes keys.         *)
Write(k, size) ==
  /\ exists /\ writes < MaxWrites
  /\ writes' = writes + 1
  /\ store' = [store EXCEPT ![k] = [etag |-> writes + 1, size |-> size]]
  /\ lagging' = lagging \cup {k}
  /\ since' = [since EXCEPT ![k] = now]
  /\ UNCHANGED exists

Erase(K) ==
  /\ store' = [k \in Keys |-> IF k \in K THEN None ELSE store[k]]
  /\ lagging' = lagging \ K
  /\ since' = [k \in Keys |-> IF k \in K /\ store[k] # None THEN now ELSE since[k]]
  /\ UNCHANGED <<exists, writes>>

-----------------------------------------------------------------------------
(* Upstream.list: from the cache if fresh enough, else fetched from the     *)
(* gateway and cached under the time read before the fetch.                 *)

List(p) ==
  /\ req[p].pc = "idle" /\ "list" \in Kinds
  /\ \E x \in Prefixes :
       LET r == [Idle EXCEPT !.op = "list", !.prefix = x, !.started = now] IN
       IF cache[x] # None /\ now - cache[x].taken < CacheSeconds
       THEN Begin(p, [r EXCEPT !.pc = "listed", !.entries = cache[x].entries])
       ELSE Begin(p, [r EXCEPT !.pc = "fetch"])
  /\ UNCHANGED <<now, gateway, cache>>

(* Mutant: the listing of a prefix is not restricted to it.                 *)
FetchAll(p) ==
  /\ req[p].pc = "fetch" /\ exists
  /\ req' = [req EXCEPT ![p].pc = "store", ![p].mark = writes, ![p].entries = store]
  /\ UNCHANGED <<now, gateway, cache>>

Fetch(p) ==
  /\ req[p].pc = "fetch"
  /\ \/ /\ exists
        /\ req' = [req EXCEPT ![p].pc = "store", ![p].mark = writes,
                              ![p].entries = [k \in Under(req[p].prefix) |-> store[k]]]
     \/ Finish(p)  \* the gateway answered an error
  /\ UNCHANGED <<now, gateway, cache>>

Empty(entries) == \A k \in DOMAIN entries : entries[k] = None

(* Mutant: the listing is stamped when it is stored, not before the fetch.  *)
CacheListingLate(p) ==
  LET r == req[p] IN
  /\ r.pc = "store"
  /\ cache' = [cache EXCEPT ![r.prefix] = [taken |-> now, entries |-> r.entries, raced |-> r.raced]]
  /\ IF r.op = "list" THEN Goto(p, "listed") ELSE Finish(p)
  /\ UNCHANGED <<now, gateway>>

(* delete(dir/) and delete_bucket go on only if the fresh listing is empty. *)
CacheListing(p) ==
  LET r == req[p] IN
  /\ r.pc = "store"
  /\ cache' = [cache EXCEPT ![r.prefix] = [taken |-> r.started, entries |-> r.entries, raced |-> r.raced]]
  /\ IF r.op = "list" THEN req' = [req EXCEPT ![p].pc = "listed", ![p].raced = FALSE, ![p].mark = 0]
     ELSE IF Empty(r.entries)
     THEN req' = [req EXCEPT ![p].pc = "send", ![p].raced = FALSE, ![p].entries = None, ![p].started = 0]
     ELSE Finish(p)
  /\ UNCHANGED <<now, gateway>>

Answer(p) == req[p].pc = "listed" /\ Finish(p) /\ UNCHANGED <<now, gateway, cache>>

(* A listing fetched already but not stored yet survives an invalidation.   *)
FinishOvertaking(p) ==
  req' = [q \in Requests |-> IF q = p THEN Idle
                             ELSE [req[q] EXCEPT !.raced = (req[q].pc = "store")]]

(* _invalidate drops every listing of the bucket.                           *)
Invalidate(p) ==
  /\ req[p].pc = "invalidate"
  /\ cache' = [x \in Prefixes |-> None]
  /\ FinishOvertaking(p)
  /\ UNCHANGED <<now, gateway>>

-----------------------------------------------------------------------------
(* Upstream.stat: a HEAD; on 401 a listing, which knows no ETag.            *)

(* Mutant: only If-None-Match is looked at.                                 *)
PassesAnyMatch(cond, etag) == cond # Absent \/ etag = None

(* check_preconditions of a PUT: an unknown ETag passes every test.         *)
Passes(cond, etag) == cond = None \/ etag = None \/ cond = etag

(* parse_range: a header that is no valid range is ignored, None is then    *)
(* the whole object; an unsatisfiable one is refused.                       *)
Ignored(h, size) ==
  \/ h = None \/ size = 0 \/ h = [first |-> None, last |-> None]
  \/ h.first # None /\ h.last # None /\ h.last < h.first

Unsatisfiable(h, size) ==
  h # None /\ size # 0 /\ IF h.first = None THEN h.last = 0 ELSE h.first >= size

(* Mutant: a suffix may be longer than the object.                          *)
ResolvedLongSuffix(h, size) ==
  CASE Ignored(h, size) -> None
    [] ~Ignored(h, size) /\ h.first = None -> [first |-> 0 - h.last + size, last |-> size - 1]
    [] OTHER -> [first |-> h.first,
                 last |-> IF h.last # None /\ h.last < size THEN h.last ELSE size - 1]

Resolved(h, size) ==
  CASE Ignored(h, size) -> None
    [] ~Ignored(h, size) /\ h.first = None ->
         [first |-> IF h.last < size THEN size - h.last ELSE 0, last |-> size - 1]
    [] OTHER -> [first |-> h.first,
                 last |-> IF h.last # None /\ h.last < size THEN h.last ELSE size - 1]

(* The PUT goes on. mark is history: the writes performed at the check.     *)
GoOn(p, info) == req' = [req EXCEPT ![p].pc = "send", ![p].info = info, ![p].mark = writes]

(* What the handler does with what stat returned.                           *)
Known(p, info) ==
  LET r == req[p] IN
  CASE r.op = "put" -> IF Passes(r.cond, info.etag) THEN GoOn(p, info) ELSE Finish(p)
    [] r.op = "copy" -> IF r.src = r.key THEN Finish(p) ELSE Goto(p, "send")
    [] r.op = "get" -> IF Unsatisfiable(r.range, info.size) THEN Finish(p)
                       ELSE req' = [req EXCEPT ![p].pc = "get", ![p].info = info,
                                               ![p].range = Resolved(@, info.size)]

(* No such key: the reason to go on for a PUT that demands just that.       *)
Unknown(p) == IF req[p].op = "put" /\ req[p].cond = Absent THEN GoOn(p, None) ELSE Finish(p)

Subject(r) == IF r.op = "copy" THEN r.src ELSE r.key

Stat(p) ==
  LET k == Subject(req[p]) IN
  /\ req[p].pc = "stat"
  /\ \/ k \in lagging /\ Goto(p, "lag")
     \/ k \notin lagging /\ store[k] # None /\ Known(p, store[k])
     \/ k \notin lagging /\ store[k] = None /\ Unknown(p)
     \/ Finish(p)  \* another error, or a precondition of a GET not met
  /\ UNCHANGED <<now, gateway, cache>>

StatByListing(p) ==
  LET k == Subject(req[p]) IN
  /\ req[p].pc = "lag"
  /\ \/ store[k] # None /\ Known(p, [etag |-> None, size |-> store[k].size])
     \/ Finish(p)  \* not listed either, or an error
  /\ UNCHANGED <<now, gateway, cache>>

-----------------------------------------------------------------------------
(* GetObject: the answer is headed by what stat returned, then the gateway  *)
(* is asked for the range, and not for one that is the whole object.        *)

Get(p) ==
  /\ req[p].pc = "idle" /\ "get" \in Kinds
  /\ \E k \in Keys, header \in Headers :
       Begin(p, [Idle EXCEPT !.op = "get", !.pc = "stat", !.key = k, !.range = header])
  /\ UNCHANGED <<now, gateway, cache>>

Asked(r) == IF r.range = [first |-> 0, last |-> r.info.size - 1] THEN None ELSE r.range

GetSend(p) ==
  LET r == req[p]  found == store[r.key]  asked == Asked(r) IN
  /\ r.pc = "get"
  /\ IF found = None \/ (asked # None /\ asked.last >= found.size)
     THEN Finish(p)  \* 404, or the 400 the gateway answers an out-of-bounds range
     ELSE req' = [req EXCEPT ![p].pc = "stream",
                             ![p].body = [etag |-> found.etag,
                                          length |-> IF asked = None THEN found.size
                                                     ELSE asked.last - asked.first + 1]]
  /\ UNCHANGED <<now, gateway, cache>>

Stream(p) == req[p].pc = "stream" /\ Finish(p) /\ UNCHANGED <<now, gateway, cache>>

-----------------------------------------------------------------------------
(* PutObject, CopyObject, DeleteObject, DeleteBucket. The client retries a  *)
(* request whose answer it does not get; invalidation follows in any case.  *)

Put(p) ==
  /\ req[p].pc = "idle" /\ "put" \in Kinds
  /\ \E k \in Keys, size \in Sizes, cond \in Conditions :
       Begin(p, [Idle EXCEPT !.op = "put", !.key = k, !.size = size, !.cond = cond,
                             !.pc = IF cond = None THEN "send" ELSE "stat"])
  /\ UNCHANGED <<now, gateway, cache>>

Copy(p) ==
  /\ req[p].pc = "idle" /\ "copy" \in Kinds
  /\ \E k, src \in Keys : Begin(p, [Idle EXCEPT !.op = "copy", !.key = k, !.src = src, !.pc = "stat"])
  /\ UNCHANGED <<now, gateway, cache>>

(* PostObject: a form upload, PUT without a precondition once its policy    *)
(* has been found to hold.                                                  *)
Post(p) ==
  /\ req[p].pc = "idle" /\ "put" \in Kinds
  /\ \E k \in Keys, size \in Sizes :
       Begin(p, [Idle EXCEPT !.op = "put", !.key = k, !.size = size, !.pc = "send"])
  /\ UNCHANGED <<now, gateway, cache>>

Deletion(k) == [Idle EXCEPT !.op = "delete", !.key = k, !.pc = "send", !.mark = writes]

Delete(p) ==
  /\ req[p].pc = "idle" /\ "delete" \in Kinds
  /\ \E k \in Keys : Begin(p, Deletion(k))
  /\ UNCHANGED <<now, gateway, cache>>

(* DeleteObjects: each key is deleted by a thread of its own, as many at a  *)
(* time as the semaphore lets through.                                      *)
DeleteBatch ==
  /\ "delete" \in Kinds
  /\ \E W \in SUBSET {q \in Requests : req[q].pc = "idle"} \ {{}} : \E key \in [W -> Keys] :
       req' = [q \in Requests |-> IF q \in W THEN Deletion(key[q]) ELSE req[q]]
  /\ UNCHANGED <<now, gateway, cache>>

(* Mutant: the listing that allows the delete may come from the cache.      *)
DeleteAllCached(p) ==
  /\ req[p].pc = "idle"
  /\ \E op \in {"rmdir", "rmbucket"} \cap Kinds :
       LET x == IF op = "rmdir" THEN "dir/" ELSE ""
           r == [Idle EXCEPT !.op = op, !.prefix = x, !.mark = writes]
       IN IF cache[x] # None /\ now - cache[x].taken < CacheSeconds
          THEN Empty(cache[x].entries) /\ Begin(p, [r EXCEPT !.pc = "send"])
          ELSE Begin(p, [r EXCEPT !.pc = "fetch", !.started = now])
  /\ UNCHANGED <<now, gateway, cache>>

(* delete(dir/) and delete_bucket list first, never from the cache. mark is *)
(* history: the writes performed when the request began, then at the fetch. *)
DeleteAll(p) ==
  /\ req[p].pc = "idle"
  /\ \E op \in {"rmdir", "rmbucket"} \cap Kinds :
       Begin(p, [Idle EXCEPT !.op = op, !.pc = "fetch", !.started = now, !.mark = writes,
                             !.prefix = IF op = "rmdir" THEN "dir/" ELSE ""])
  /\ UNCHANGED <<now, gateway, cache>>

CreateBucket(p) ==
  /\ req[p].pc = "idle"
  /\ exists' = TRUE
  /\ UNCHANGED <<now, store, writes, lagging, since, cache, req>>

(* One attempt at the gateway: performed and answered, performed with the   *)
(* answer lost (then perhaps tried again), or not performed.                *)
Attempted(p) == Goto(p, "invalidate") \/ UNCHANGED req

(* Mutant: no invalidation after a PUT that ends in an error.               *)
PutSendForgets(p) ==
  /\ req[p].pc = "send" /\ req[p].op = "put"
  /\ \/ Write(req[p].key, req[p].size) /\ (Attempted(p) \/ Finish(p))
     \/ Finish(p) /\ UNCHANGED gateway
  /\ UNCHANGED <<now, cache>>

PutSend(p) ==
  /\ req[p].pc = "send" /\ req[p].op = "put"
  /\ \/ Write(req[p].key, req[p].size) /\ Attempted(p)
     \/ Goto(p, "invalidate") /\ UNCHANGED gateway
  /\ UNCHANGED <<now, cache>>

Told(p, what) == req' = [req EXCEPT ![p].pc = "invalidate", ![p].told = what]

(* Mutant: whatever error the gateway answers, the key is said to be gone.  *)
DeleteSendSwallows(p) ==
  /\ req[p].pc = "send" /\ req[p].op = "delete"
  /\ \/ Erase({req[p].key}) /\ (Told(p, "deleted") \/ UNCHANGED req)
     \/ Told(p, "deleted") /\ UNCHANGED gateway
  /\ UNCHANGED <<now, cache>>

(* A 404, also of a retry whose first attempt deleted the object, is no     *)
(* error; any other makes one, and that the key is deleted is not said.     *)
DeleteSend(p) ==
  /\ req[p].pc = "send" /\ req[p].op = "delete"
  /\ \/ Erase({req[p].key}) /\ (Told(p, "deleted") \/ Told(p, "error") \/ UNCHANGED req)
     \/ store[req[p].key] = None /\ Told(p, "deleted") /\ UNCHANGED gateway
     \/ Told(p, "error") /\ UNCHANGED gateway
  /\ UNCHANGED <<now, cache>>

(* The gateway deletes dir/ with all it contains.                           *)
DirSend(p) ==
  /\ req[p].pc = "send" /\ req[p].op = "rmdir"
  /\ \/ Erase(Inside) /\ Attempted(p)
     \/ Goto(p, "invalidate") /\ UNCHANGED gateway
  /\ UNCHANGED <<now, cache>>

(* Whether it deletes a bucket that has objects is for the gateway to say.  *)
(* On an error delete_bucket returns without invalidating: what is cached   *)
(* may be wrong of a bucket that was deleted all the same.                  *)
DropBucket ==
  /\ exists' = FALSE
  /\ store' = [k \in Keys |-> None] /\ lagging' = {}
  /\ since' = [k \in Keys |-> IF store[k] # None THEN now ELSE since[k]]
  /\ UNCHANGED writes

BucketSend(p) ==
  /\ req[p].pc = "send" /\ req[p].op = "rmbucket"
  /\ \/ DropBucket /\ Attempted(p) /\ UNCHANGED cache
     \/ /\ DropBucket \/ UNCHANGED gateway
        /\ FinishOvertaking(p)
        /\ cache' = [x \in Prefixes |-> IF cache[x] = None THEN None ELSE [cache[x] EXCEPT !.raced = TRUE]]
  /\ UNCHANGED now

(* The gateway deletes the destination, then copies.                        *)
CopyClear(p) ==
  /\ req[p].pc = "send" /\ req[p].op = "copy"
  /\ \/ Erase({req[p].key}) /\ (Goto(p, "copying") \/ Goto(p, "invalidate"))
     \/ Goto(p, "invalidate") /\ UNCHANGED gateway
  /\ UNCHANGED <<now, cache>>

CopyWrite(p) ==
  /\ req[p].pc = "copying"
  /\ \/ store[req[p].src] # None /\ Write(req[p].key, store[req[p].src].size)
     \/ UNCHANGED gateway
  /\ Goto(p, "invalidate") \/ Goto(p, "send")
  /\ UNCHANGED <<now, cache>>

-----------------------------------------------------------------------------
Settle ==  \* HEAD sees the object at last
  /\ \E k \in lagging : lagging' = lagging \ {k}
  /\ UNCHANGED <<now, exists, store, writes, since, cache, req>>

Tick ==
  /\ now < MaxTime
  /\ now' = now + 1
  /\ UNCHANGED <<gateway, cache, req>>

Listing(p) == List(p) \/ Fetch(p) \/ CacheListing(p) \/ Answer(p)
Reading(p) == Get(p) \/ GetSend(p) \/ Stream(p)
Writing(p) == \/ Put(p) \/ Post(p) \/ Copy(p) \/ Delete(p) \/ DeleteAll(p) \/ CreateBucket(p)
              \/ PutSend(p) \/ DeleteSend(p) \/ DirSend(p) \/ BucketSend(p)
              \/ CopyClear(p) \/ CopyWrite(p) \/ Invalidate(p)

Next ==
  \/ \E p \in Requests : Listing(p) \/ Reading(p) \/ Writing(p) \/ Stat(p) \/ StatByListing(p)
  \/ DeleteBatch \/ Settle \/ Tick

Spec == Init /\ [][Next]_vars
-----------------------------------------------------------------------------
(* A listing that was not fetched across an invalidation is wrong about a   *)
(* key only while a request that writes the key has still to invalidate.    *)
Touches(r) == CASE r.op \in {"put", "delete", "copy"} -> {r.key}
                [] r.op = "rmdir" -> Inside
                [] r.op = "rmbucket" -> Keys
                [] OTHER -> {}

Unsettled(k) == \E p \in Requests : /\ req[p].pc \in {"send", "copying", "invalidate"}
                                    /\ k \in Touches(req[p])

CacheCoherent ==
  \A x \in Prefixes : cache[x] # None /\ ~cache[x].raced =>
    \A k \in Under(x) : cache[x].entries[k] = store[k] \/ Unsettled(k)

(* However fetches, writes and invalidations overlap, a listing answered is *)
(* right about every key that had not changed for CacheSeconds when it was  *)
(* asked for.                                                               *)
StaleForCacheSecondsOnly ==
  \A p \in Requests : req[p].pc = "listed" =>
    \A k \in Under(req[p].prefix) :
      since[k] + CacheSeconds <= req[p].started => req[p].entries[k] = store[k]

(* An object goes only by a delete or an overwriting copy of its own key,   *)
(* by a copy from another key, or in a directory or bucket whose delete had *)
(* listed it empty: no stale listing and no copy onto itself loses one.     *)
MayErase(r, k) ==
  /\ r.pc = "send"
  /\ \/ r.op = "delete" /\ r.key = k
     \/ r.op = "copy" /\ r.key = k /\ r.src # k
     \/ r.op \in {"rmdir", "rmbucket"} /\ k \in Touches(r) /\ r.mark < store[k].etag

LostOnlyByName ==
  [][\A k \in Keys : store[k] # None /\ store'[k] = None =>
       \E p \in Requests : MayErase(req[p], k)]_vars

(* What stat announced is what the gateway serves: if the object is still   *)
(* the one stat saw, the range sent is in its bounds and the body is as     *)
(* long as the Content-Length announced. Where HEAD lagged, stat knows no   *)
(* ETag to tell that by, and nothing is said.                               *)
Announced(r) == IF r.range = None THEN r.info.size ELSE r.range.last - r.range.first + 1

ServedAsAnnounced ==
  \A p \in Requests : LET r == req[p] IN
    /\ r.pc = "get" /\ store[r.key] # None /\ store[r.key].etag = r.info.etag /\ Asked(r) # None =>
         0 <= Asked(r).first /\ Asked(r).first <= Asked(r).last /\ Asked(r).last < store[r.key].size
    /\ r.pc = "stream" /\ r.body.etag = r.info.etag => r.body.length = Announced(r)

(* A conditional PUT that is sent, or sent again, overwrites an object that *)
(* does not meet its precondition only where another PUT wrote it after the *)
(* check: what was there at the check is never lost against the condition,  *)
(* whether the check saw it or found no such key. Only a HEAD that lagged   *)
(* at the check, which left the ETag unknown, lets any object be replaced.  *)
MetOrLater(r) ==
  LET found == store[r.key] IN
  found # None => \/ found.etag = r.cond \/ r.mark < found.etag
                  \/ r.info # None /\ r.info.etag = None

ConditionsHonoured ==
  \A p \in Requests : LET r == req[p] IN
    r.op = "put" /\ r.pc = "send" /\ r.cond # None => MetOrLater(r)

(* Whatever is lost, retried and deleted at the same time: a key that a     *)
(* client is told was deleted is gone, or was written since it asked.       *)
DeletedIsGone ==
  \A p \in Requests : LET r == req[p] IN
    r.told = "deleted" /\ store[r.key] # None => store[r.key].etag > r.mark
-----------------------------------------------------------------------------
(* What the repository says and the code does not do.                       *)

(* "Upstream.delete only lets that through for an empty directory"          *)
(* (upstream.py:17), that being a DeleteObject the gateway makes recursive. *)
OnlyEmptyDirsDeleted ==
  \A p \in Requests : req[p].op = "rmdir" /\ req[p].pc = "send" => \A k \in Inside : store[k] = None

(* "The real gateway refuses these; the service must never send one."       *)
(* (tests/fake_upstream.py:67), of a range out of the object's bounds.      *)
RangesInBounds ==
  \A p \in Requests : LET r == req[p] IN
    r.pc = "get" /\ store[r.key] # None /\ Asked(r) # None => Asked(r).last < store[r.key].size
=============================================================================
