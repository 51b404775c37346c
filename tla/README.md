# A verification project for the Filen S3 emulator

The emulator (`src/filen_s3_emulator`, Python, FastAPI) answers the S3 API in front of the
Filen CLI's S3 gateway. The gateway has no multipart uploads, no delimiters or pages in its
listings, deletes directories recursively, refuses ranges out of bounds and answers HEAD
with 401 for about a second after a PUT; the emulator closes those gaps. It keeps its state
in two places: a staging directory on the local disk, and a cache of listings in memory.
What a request brings (its signature, its body, its form) it checks without state, but in many steps.

This directory holds TLA+ models of that state, of everything that changes it and of those checks, the TLC
configurations that check them, and TLAPS proofs. Paths below are relative to the
repository; line numbers are in `PROJECT.json`, under `map`.

## 1. The system

| component | state | operations | what makes it correct |
|---|---|---|---|
| multipart staging: `multipart.py`, `routes/multipart.py` | one directory per upload: `upload.json`, `<number>.<md5>.part`, `.spool-*` | create, UploadPart, Complete, Abort, ListParts, ListMultipartUploads | what was acknowledged is kept until it is stored, aborted or expired; an ended upload is gone; an object is made of parts that were staged, in order, within the limits |
| `ConcatReader` in `multipart.py` | position, open file | read, seek, close | it reads like one file of the parts in their order, after any seek and after any number of failed reads |
| sweep: `multipart.py`, `main.py` | the cutoff and the directories left | hourly pass | what is abandoned is reclaimed, what is in use is not |
| body spool: `body.py` | a temporary file; buffer, chunk, signature chain of the decoder | receive, decode, verify, discard | a body is kept only as it was declared, one that arrives as it was sent is kept, and a refused one leaves nothing behind |
| gateway client: `upstream.py` | the listing cache and its lock | stat, get, put, copy, delete, list, bucket operations | listings are stale for `list_cache_seconds` at most; nothing is deleted on the strength of a stale listing |
| object and bucket handlers: `routes/objects.py`, `routes/buckets.py` | none between requests | GET with ranges and preconditions, PUT, copy, delete, batch delete | what is announced is what is served; a precondition is broken only by a write that ran at the same time; what is said to be deleted is gone |
| form uploads: `routes/post.py`, `auth/post_policy.py` | none between requests | form POST | what is stored is what the policy allows, under the name it allows |
| listing pages: `listing.py` | none; the client carries the marker | paginate | nothing twice, and nothing left out that did not just change |
| authentication: `auth/` | none | SigV2, SigV4, presigned URLs | what is admitted is what the holder of the secret signed, in its window; an honest client is not turned away |
| key validation: `routes/common.py` | none | `validate_key` | the gateway stores an object under the key it was given |
| dispatch, XML, errors, configuration, chart | none | | stateless |

How they interact. One uvicorn process runs the handlers as coroutines on one event loop.
A handler calls `run()` (a thread pool) for `create`, `commit_part`, `abort`, `parts` in
ListParts, and every method of `Upstream`; it calls `get`, `spool`'s mkdir and mkstemp,
`parts` after a commit, and `assemble` directly, on the loop. A body is awaited piece by
piece. The sweep is a task of the same loop whose pass runs in the pool. The parts of an
upload are shared, through the file system and without any lock, by every request that
names it and by the sweep. The cache is shared by all threads under `_lock`, which is
held for a dictionary operation and never across a call to the gateway. A page of a listing is
computed over what the cache answers.

What is hard, therefore: two commits of one part number; an abort, a completion's removal
or a sweep while a body of the same upload is being received; a directory made again after
its removal; a PUT that reads its files by name while they are replaced; a restart between
two file-system calls; an answer of the gateway that is lost; a listing fetched before a
write and cached after it; a stat and a GET, a stat and a PUT, or a listing and a delete, with a
write in between; keys that come and go between pages; a body cut into pieces anywhere, whose
bytes may look like its framing and whose declarations may contradict each other; positions that fall between files; clocks that disagree
and proxies that rewrite what was signed. `PROJECT.json` lists them at their lines
under `hazards`, with the property that watches over each.

## 2. The modules

| module | what it is |
|---|---|
| `Multipart` | the staging directory, the requests, the sweep, the clock and restarts, one file-system call at a time |
| `S3Upload` | the abstract promise: an upload is opened once, closed once; objects are well-formed lists of parts staged for it |
| `MCMultipart` | contents, sizes and symmetry for TLC |
| `MultipartProofs` | `TypeCorrect`, with the typing of each part of the state |
| `MultipartSafety` | the inductive invariants, the safety theorems and the refinement of `S3Upload`; extends `MultipartProofs` |
| `NatFacts` | least elements, induction over the naturals without a theorem that takes an operator, sums |
| `ReaderProofs` | what holds of `ConcatReader`, and that it implements `SeekableFile` |
| `BodyProofs` | what holds of the decoder on its own |
| `UpstreamProofs` | types, the coherence of the listing cache and what the handlers of objects promise |
| `ListingProofs` | that pages neither repeat nor skip |
| `TransferProofs` | what holds of the composition: authentication, bodies, forms; extends `ReaderProofs` and `BodyProofs` |
| `Upstream` | one bucket of the gateway, the listing cache, and the handlers of objects and buckets |
| `MCUpstream` | symmetry for TLC |
| `Listing` | `paginate` and a client that pages on while the bucket changes |
| `MCListing` | seven keys over three characters, and the queries |
| `Auth` | a signed request: its client's clock, its way, and its check under four schemes |
| `Body` | the body of a request, in pieces: the aws-chunked decoder, its signature chain, digests and limits |
| `SeekableFile` | the abstract promise of `io.RawIOBase`: one file, read and sought |
| `ConcatReader` | the reader over the parts; implements `SeekableFile` |
| `PostPolicy` | a policy, the form filled in under it, `validate_key` and what the gateway makes of a key |
| `Transfer` | composes the last five into the way of an object's bytes from the client to the gateway |
| `MCTransfer` | bodies, drifts, policies and keys for TLC |

Operators called mutants in the comments are changed forms of the definition that follows
them; the specifications do not use them. `PROJECT.json` pairs each with a property that
fails when the definition is so changed.

### Multipart

`entry[d]` is the set of names in directory `d` (an upload's, or `tmp/`), `mtime[d]` their
modification times, `touched[d]` the directory's own, `dirs` the directories that exist.
`req[p]` is the program counter and the locals of a request; `req[Sweeper]` that of the
sweep. `object[u]` is what the gateway stores for the upload. `story` and `orphaned` are
history the program has no counterpart of, for the properties.

| code | actions |
|---|---|
| `create` | `CreateMkdir`, `CreateMeta` |
| `upload_part`, `spool` | `UploadPart`, `SpoolMkdir`, `SpoolOpen`, then `PartSpooled`, `SpoolFail` or `BodySpins` |
| `commit_part` | `CommitFailed`, or `CommitReplace` (the rename), `CommitGlob`, `CommitUnlink` per stale file |
| `parts` and the cap after a commit | `Scan` (the snapshot), `PartSum` (the stats) |
| `complete`, `read_small`, `assemble` | `Complete`, `BodyRead`, `Scan`, `Assemble` |
| the PUT, read by botocore through `ConcatReader` | `PutRead` per file, `PutRewind`, `PutFailed`, `PutStored` |
| `abort` and `rmtree` | `Abort`, `RmList`, `RmUnlink` per name, `RmDir` |
| `sweep` | `SweepStart`, `SweepCheck` per directory, `SweepDone`, and the `rmtree` |

`LoopFree(p)` is the event loop: no handler starts or resumes on it while another is at a
label of `OnLoop`, between two awaits. `BodySpins` is a body with a chunk of negative size, on which
`exactly()` (`body.py:90-96`) loops without an await: from then on (`Spinning`) nothing is
dispatched to a thread either, and only a restart helps. Pool threads (`create`, commits, removals, the PUT,
the sweep) are not held up by it and interleave with the labels of `OnLoop` as well.

Abstractions, and why they are harmless or where they could matter:

- A content and its MD5 are one value of `Bytes`; equal contents have equal names, which
  is what the rename relies on. Two uploads of the *same* content to one number therefore
  share a file, as in the code.
- Framing, digests and declared lengths of a body (module `Body`) are here a body that arrives
  (`PartSpooled`) or is refused (`SpoolFail`); a body refused by its headers is refused in `SpoolOpen`,
  after the mkdir, as in the code.
- `write_text` of `upload.json` is one step: a crash in the middle leaves a file that
  cannot be parsed, which `get` treats like none.
- `rmtree` works by name, the library on open descriptors: the same while upload ids
  are not used twice, which `CreateMkdir` ensures as 256 random bits do.
- `SweepCheck` reads the times of one directory in one step. A part that arrives between
  the stats of a directory that is otherwise expired makes the same difference as one
  that arrives just after them.
- The pieces of a body are not modelled one by one: the spool's time is that of its
  creation, then that of the end of its body. A body being received for longer than the
  expiry without a write therefore looks abandoned, in the model as in the code; one that
  is slow but alive is protected in the code and not in the model, which only adds
  behaviours.
- ListParts and ListMultipartUploads read and change nothing: no action.

### S3Upload

The refinement mapping (`Promise` at the end of `Multipart`, an `INSTANCE S3Upload WITH`): `status[u]` is "open" while `upload.json`
can be read, "gone" afterwards; `staged[u]` is every part ever renamed into place. It
leaves out the promise that staged parts remain, which the code does not keep when two
requests commit one number at once (section 5) and which `KeptUntilStored` states
with that exception. A PUT that is under way when its upload is aborted may still be stored: the code
allows it, S3 does too, and so does `StoreObject`.

### Upstream

`store` is the bucket at the gateway: ETag and size of each key, the ETag new with each
write, as the gateway's are object UUIDs (`README.md`). The actions on it follow what the
docstring of `upstream.py` reports of the gateway, and are external: HEAD lags behind a
PUT (`lagging`, `Settle`), `dir/` is deleted recursively, a copy deletes its destination
first, a range out of bounds is refused. Whether the gateway refuses to delete a bucket
that is not empty is unknown: `BucketSend` allows both.

| code | actions |
|---|---|
| `Upstream.list` | `List` (cache or not), `Fetch`, `CacheListing` (with the time read before the fetch), `Answer` |
| `Upstream.stat` | `Stat`, `StatByListing` |
| `get_object` | `Get`, stat, `GetSend`, `Stream` |
| `put_object`, `post_object` | `Put`, `Post`, stat for a precondition, `PutSend`, `Invalidate` |
| `copy_object` | `Copy`, stat of the source, `CopyClear`, `CopyWrite`, `Invalidate` |
| `delete`, `delete_objects` | `Delete`, `DeleteBatch`, `DeleteSend`, `Invalidate` |
| `delete` of `dir/`, `delete_bucket` | `DeleteAll`, `Fetch`, `CacheListing`, `DirSend` or `BucketSend`, `Invalidate` |
| `create_bucket` | `CreateBucket` |

Each gateway call may be performed and answered, performed with its answer lost and tried
again by botocore or reported as an error, or not performed. `told` is what the client of a
delete is told of its key, also key by key in the report of a batch; `info` is what the
stat of a conditional PUT found, until the PUT has been sent; `mark` is the number of writes
performed when it was found, or when a delete of `dir/` or of the bucket began to list. A fetch is one step: what a
walk of a directory tree sees while it changes is not known of the gateway. A fetched
listing carries ETags in the model, which stand for the sizes and times it has in the code.
Preconditions are If-Match with one ETag and If-None-Match: * on PUT; those of GET and those
on dates are the failure `Stat` may always end in. `DropBucket` takes every object with it.

### Listing

Keys are sequences of code points. `Entry` is one turn of the loop of `paginate` over the
sorted entries, `EndPage` the answer and the client's next request. `Ask` takes the listing a page is
computed over from `Upstream.list`, which may answer from the cache, or with a listing that a write
has overtaken: it is right about every key that has not changed for `list_cache_seconds`, which is
`StaleForCacheSecondsOnly` of `Upstream`, and says anything of the keys in `recent`, which
have. `Change` makes a key recent, `Age` lets that time pass. Both
happen between pages, because one page is computed over one listing; the prefix filter of
the gateway is repeated by `Before`, as in the code. `max-keys=0` gives a truncated page
without a marker; a client has nothing to ask on from and stops there.

### Auth

A client of one of four schemes signs a request; then the server's clock moves on (`Delay`), a
proxy may rewrite Host (`Proxy`), one field may change (`Alter`), and the request is checked. A v4
request names the headers it signs (`names`): an x-amz- header it does not name is neither hashed nor
refused. `copy` is the one of them that selects the operation, x-amz-copy-source.

| code | definitions |
|---|---|
| `sigv4.py` | `CoveredV4` (the canonical request and the string to sign), `WithinSkew`, `BeforeExpiry`, `WellFormed`, `HostsTried` |
| `sigv2.py` | `CoveredV2`, `TypesTried`, the same windows |
| `authenticate`, the scheme chosen | `Authenticate`, `Verified`, `Vouched` (the `payload_hash` of `AuthResult`) |

A signature is the secret with the record that was signed, HMAC as if it never collided; two
signatures are equal when the records are. `op` stands for the method, the path and the
sub-resources, which every scheme covers, and with it for how they are canonicalised and for the key id and the day of the
credential. One altered field is enough for what a signature leaves uncovered to show. The
`X-Amz-Content-Sha256` some clients put into the query of a presigned v4 URL is left out.

### Body

`wire` is what has not arrived, `buffer` that of `_Reader`, `reading` where the decoder stands,
`out` the spool file. `Arriving` makes of one message every body it can arrive as: whole, cut off,
a token lost or changed, chunks lost, repeated or swapped.

| code | actions |
|---|---|
| `spool`, its headers | `Spool`, `ToldBy`, and `Selected` for `_checksum_spec` |
| `_Reader._fill`, `line`, `exactly` | `Fill` (a piece of any size), `EndsEarly`, `LineTooLong`, `Disconnect`, `Taken` |
| `_decode_chunked` | `FrameLine`, `ChunkData`, `ChunkEnd`, `Gap`, `Trailer` |
| a body without framing | `RawData`, `RawEnd` |
| `write` and the limit | `Fits` |
| the digests after the last piece | `Verify`, `Agrees`, `Expected` |

A token is a byte of the payload or a whole line of the framing without its CRLF, so that a
line can be cut from its CRLF and a CRLF in two, but not a line itself. The payload may contain CR,
LF and tokens that are frames. A digest of data is the data; a chunk's signature is the sequence
of the data it is chained over, from the seed `<<>>`. A message declares its length,
its MD5, its hash, checksums of several algorithms in headers and one it announces as a trailer, each or not;
`Selected` is the one checksum that is checked: the announced one, else the first of those in headers,
else none, and it is refused if it cannot be computed (crc64nvme). What declares is taken as it was sent:
`Auth` has the headers that a signature covers, and the others a proxy could change with the body. The size of a frame
may be changed into a negative one, on which `ChunkData` takes nothing for ever (`Taken`). A line of the framing that is more
than one token (a frame with a byte changed or inserted) is refused, as `int()` or the signature
refuses it. HTTP holds a body without framing to its declared length.

### ConcatReader and SeekableFile

`sizes` are the lengths the parts had when they were listed, `length` those the files have,
`named` the files that still have a name. `Index` is the bisection, `ReadInto` is `readinto` of a
buffer of any size, none included, `SeekBy` is `seek`. Both may follow a failed read, as botocore rewinds and
reads again when a body raises. An open file is read without the buffer that Python has of it. The environment shortens and unlinks files at any time; a file
that is open can be read after it was unlinked. The refinement mapping (`File`, an `INSTANCE
SeekableFile WITH`) makes of the parts their concatenation, a byte being the number of its file
and its place in it, and of the two errors a failure. What the abstract file promises is hence
that no byte comes from the wrong place, that a read is never empty before the end (which
botocore would take for the end), and that a failed read loses no position.

### PostPolicy

A key is the sequence of its segments. `Expanded`, `Storable`, `Conditions` and `Post` follow
`post_object`, `validate_key` and `check_conditions`; `StoredName` is what the docstring of
`validate_key` says the gateway does to a key. `${filename}` is a whole segment; file names
bring segments of their own, `..` among them.

### Transfer

`Ask`, `TravelOn`: a request is signed and travels. `Dispatch`, `Receive`: the handler starts to
receive its body and knows of the authentication only what `AuthResult` says. `DecodeOn`: the
decoder. `Store`: the spooled body is put, or is a part of a completed upload, whose reader is
constructed. `SendOn`: botocore reads and seeks. `PostForm`: the other way in. Requests share
nothing of this (what they share is in `Multipart` and `Upstream`), so there is one at a time, and
each component keeps its own variables. What the composition adds is `ToldOf`: `spool` is told of
the hash and of the chain that *authentication vouched for*, so that `KeptAsDigested` fails if a
request could be admitted with a payload hash that was not signed.

## 3. The runs

| run | what is asked | bounds |
|---|---|---|
| `Multipart_sequential` | types, `KeptUntilStored`, `SpoolsOwned`, `ImplementsPromise` | one request at a time, three numbers of which one is out of range, a large and a small content, two reads of a PUT, one restart; the clock stands still, so that the sweep looks at everything and removes nothing |
| `Multipart_concurrent` | the same but the types, with `EndedStaysEnded` and `OneFilePerNumber` | two requests, two numbers (one out of range), two contents, a clock of one tick and an expiry of none, so that the sweep expires what requests work on |
| `Multipart_reclaimed` | `AbandonedReclaimed` | one upload, one request, a restart, a clock of two ticks and an expiry of none |
| `Multipart_answered` | `Answered` | two requests, one number and content, one read of a PUT, a clock of one tick and an expiry of none, so that the sweep removes what requests work on |
| `Upstream_listings` | types, `CacheCoherent`, `StaleForCacheSecondsOnly`, `DeletedIsGone`, `LostOnlyByName` | two requests of every kind but GET, a key below `dir/` and one beside it, two writes, one tick |
| `Upstream_ranges` | `ServedAsAnnounced`, `ConditionsHonoured` | GET against PUT (with and without preconditions) and DELETE, sizes 0, 1, 3, offsets 0, 1, 2, 4 |
| `Listing_pages` | types, `ItemsAscend`, `SteadyKeysListed`, `ListingEnds` | all subsets of seven keys, three prefixes, four delimiters, three markers, pages of none, one or two, one key that changes shortly before the first page or between two |
| `Transfer_end_to_end` | `AdmittedAsSigned`, `HonestAdmitted`, `IntactAccepted`, `KeptAsDigested`, `KeptAsSigned`, `SpoolBounded`, `RefusedOnlyIfDamaged`, `StoredUnderPolicy`, `ReadsAsOneFile` | one request; clocks up to two ticks off with a skew of one, an expiry of up to two (three is refused), up to three ticks on the way; bodies of none to four bytes in up to two chunks with a limit of three bytes and two per chunk, declared in nine ways; up to three parts of none to two bytes, buffers of none to two; keys of up to two segments |
| `Multipart_contention`, `Multipart_sweep_race`, `Upstream_range_race`, `Upstream_rmdir_race` | one statement of the repository each, found violated: section 5 | as small as shows it |

Why the bounds are enough. The file names of two uploads never meet, and no operation names
two uploads, so one upload id shows what the requests and the sweep do to each other.
Two requests and the sweep are three threads on one directory; the theorems of section 4
hold for any number. The size 2 of a large part with a minimum of 2 and a cap of 3 makes a
lone large part, a large and a small one within the cap, and two large ones over it. A
clock that goes past the expiry (`Multipart_concurrent`, `_answered`, `_reclaimed`, `_sweep_race`)
makes a directory that is exactly as old as the expiry, which stays, and one that is older. In `Upstream`, two requests and two writes
suffice for a listing to be fetched, overtaken by a write and its invalidation, cached,
served, and for a third request's place to be taken by the first when it has ended. The
keys of `Listing` make prefixes that equal a key, end a key, repeat, and follow each other.
In `Transfer`, a clock is in the window, at its edge and past it on both sides, and a URL arrives
before, at and after its expiry; the messages have no chunk, several, one that is too large
and a body that is too large, and one is made of a CRLF and of a frame; two chunks are enough to
repeat, drop and swap them. The declarations are each kind alone, a trailer beside a header and beside a
length, two headers, and a checksum that cannot be computed where it counts and where it does not. Three files with empty ones first, last and between, and two adjacent
ones, are what the bisection must tell apart; buffers of two end before, at and past the end of a file.
Two segments make an empty first, inner and last one, and a file name brings two more.

Every run checks for deadlock but `Listing_pages`, whose client stops when it has the last page.

The properties, in a sentence each:

- `KeptUntilStored`: until an abort, the sweep or the stored object, `upload.json` and a file
  for every acknowledged number are there, whatever failed, was retried or crashed. Numbers
  that were committed by two requests at once are left out here; `AckedPartPresent` shows why.
- `EndedStaysEnded`: an upload whose abort or completion was answered never exists again, though
  `spool` may make its directory again.
- `SpoolsOwned`: each spool file belongs to a request that will rename or unlink it, or to
  one that died with the process.
- `OneFilePerNumber`: two files of a number only while a commit of it is unlinking.
- `ImplementsPromise`: `Multipart` implements `S3Upload`.
- `Answered`: a request whose body has come is answered, whatever another request or the sweep does to its
  upload and however long another client takes over a body. `AbandonedReclaimed`: a directory nobody works on
  is removed once it is old enough. Both unless a body makes the event loop spin (`Spinning`). With one
  upload, `AbandonedReclaimed` does not show what a directory vanishing under the sweep does to the others.
- `CacheCoherent`: a cached listing that no invalidation overtook is wrong about a key only
  while a request that writes it has still to invalidate.
- `StaleForCacheSecondsOnly`: a listing answered, overtaken or not, is right about every
  key that had not changed for `CacheSeconds` when it was asked for.
- `LostOnlyByName`: an object vanishes only by its own delete, by a copy over it from
  another key, or with a directory or bucket that had been listed empty before the object was written.
- `DeletedIsGone`: a key that a client is told was deleted, alone or in the report of a batch, is gone
  or was written since it asked, although a delete may fail, be retried or lose its answer.
- `ConditionsHonoured`: whenever a conditional PUT is sent, or sent again, there is no object, or it
  meets the condition, or another PUT wrote it after the check: what was there at the check is not lost
  against the condition, whether the check saw it or found no such key. Where HEAD lagged at the check, any
  object may be replaced.
- `ServedAsAnnounced`: unless the object changed, the range sent is in its bounds and the
  body is as long as Content-Length said. A change shows in the ETag, so after a stat while HEAD lagged,
  which has none, it says nothing.
- `ItemsAscend`: pages do not repeat. `SteadyKeysListed`: nor do they skip a key that was there, unchanged,
  from `list_cache_seconds` before the first page to the last; a key written just before the first page may be on
  none, as the cached listing may lack it. `ListingEnds`: a client that
  follows the markers comes to an end, also when it asks for pages of no keys.
- `AdmittedAsSigned`: an admitted request is what the holder of the secret signed, in time and
  payload too, but for the content types that are not signed, and for a copy source that a v4 request did not have:
  no copy is admitted from another source than was signed, nor as a plain PUT, but a plain PUT may be as a copy.
- `HonestAdmitted`: drift within the skew, delay before the expiry and a proxy that passes on the
  Host it replaced cost no request.
- `IntactAccepted`: a body that arrives as it was sent is refused for its size or for a checksum that
  cannot be computed, however it is cut and whatever its bytes look like. `KeptAsDigested`: one that is kept is
  as it was sent, if its MD5 or hash was declared, or a checksum in a header and none as a trailer, or the announced
  one came; and as long as declared. `KeptAsSigned`: so is one whose chunks are signed,
  though each signature tells only of its chunk and of those before. `SpoolBounded`: no framing gets
  past the limit.
- `ReadsAsOneFile`: `ConcatReader` implements `SeekableFile`. `RefusedOnlyIfDamaged`: what it calls
  truncated is the part at the position, and its file ends before that, or the buffer was empty, which
  `readinto` cannot tell apart; what it misses is the file at the position, and it has lost its name.
- `StoredUnderPolicy`: the name the gateway gives the object is the key, and one that the policy allows.

Fairness (`FairSpec` in `Multipart`). `SF_vars(req[p].pc # "body" /\ Advance(p))` for each request: its thread is
scheduled, or its coroutine is in the loop's ready queue, which is served in order, so a
handler that waits for the loop gets it though others keep taking it; strong because
`LoopFree` is true and false by turns. Nothing is asked of a request that receives its body: uvicorn has
no timeout for it, and a client may neither send nor go. A handler that spins never comes to an
end, nor does what waits for the loop; the two properties name that case. The PUT ends because botocore's retries are bounded (`MaxPasses`) and its timeouts
finite. `WF_vars(Sweep)`: `_sweep_forever` loops, whatever a pass raises. `WF_vars(Tick)`:
the clock runs. No fairness is asked of arrivals or restarts. `AbandonedReclaimed` speaks of
directories old enough to expire before the bounded clock stops and after the last restart
of the model: bounds of the model, not assumptions about the code. `FairSpec` in `Listing`: the server answers
a page, and a client that got a marker asks for the next one; none is asked of changes.

## 4. The proofs

Every invariant, the action property and both refinements that a passing run checks are theorems of
the specification the run checks, for every value of the constants that the modules' assumptions
allow. The assumptions, each with what justifies it:

| assumption | what it says, and why the code satisfies it |
|---|---|
| `NamesDistinct`, `NoneIsNone`, `NoneIsNoObject` | names of different sorts differ, and `None` is no content, key or object: Python's `None` is not a `str`, `bytes` or `ObjectInfo`, and the patterns of part, spool and metadata names do not overlap |
| `BoundsAreNumbers`, `AuthParameters`, `BodyParameters`, `ReaderParameters`, `PostParameters`, `StoreParameters` | settings and bounds are numbers, a request may come without a payload hash, the longest line has room for a CRLF, the keys below `dir/` are keys, and listings are cached for one tick at least (15 s by default; a setting of 0 turns the cache off) |
| `KeysAreStrings` | a bucket has finitely many keys, none empty; keys, prefixes, delimiters and markers are sequences of code points, as `str` is, and `None` is no such sequence |
| `KeysAreSplit` | a key or file name has one segment at least: `str.split` never returns an empty list |
| `ClientsSend` | what clients send: checksums of the algorithms S3 knows (others are no declaration, `body.py:99-108`), a trailer with a framed body only, a hash of one without framing only; only framed bodies have signed chunks, and no chunk but the last is empty, since an empty one ends the body. A payload may contain anything, lines that look like frames with a size included; what such a line bears as a signature is one its client made for this body or, as `<<>>`, a text that signs nothing. A signature of other data chained from this request's seed is one only the holder of the key could make, and it makes none |

| theorem | module | statement |
|---|---|---|
| `TypeCorrect` | `MultipartProofs` | `Spec => []TypeOK` |
| `KeptUntilStoredHolds` | `MultipartSafety` | `Spec => []KeptUntilStored` |
| `PromiseImplemented` | `MultipartSafety` | `Spec => ImplementsPromise` |
| `SpoolsOwnedHolds` | `MultipartSafety` | `Spec => []SpoolsOwned` |
| `EndedStaysEndedHolds` | `MultipartSafety` | `Spec => []EndedStaysEnded` |
| `OneFilePerNumberHolds` | `MultipartSafety` | `Spec => []OneFilePerNumber` |
| `RefusedOnlyIfDamagedHolds` | `ReaderProofs` | `ReaderSpec => []RefusedOnlyIfDamaged` |
| `ReaderImplementsFile` | `ReaderProofs` | `ReaderSpec => ReadsAsOneFile` |
| `AdmittedAsSignedHolds` | `TransferProofs` | `Spec => []AdmittedAsSigned` |
| `HonestAdmittedHolds` | `TransferProofs` | `Spec => []HonestAdmitted` |
| `KeptAsDigestedHolds` | `TransferProofs` | `Spec => []KeptAsDigested` |
| `PartsRefusedOnlyIfDamaged`, `PartsReadAsOneFile` | `TransferProofs` | the two of the reader, of the composition: `Spec => ReaderSpec` |
| `SpoolBoundedHolds` | `BodyProofs` | `BodySpec => []SpoolBounded` |
| `KeptAsSignedHolds` | `BodyProofs` | `BodySpec => []KeptAsSigned` |
| `IntactAcceptedHolds` | `BodyProofs` | `BodySpec => []IntactAccepted` |
| `IntactBodiesAccepted`, `BodiesKeptAsSigned`, `BodiesBounded` | `TransferProofs` | the three of the decoder, of the composition: `Spec => BodySpec` |
| `StoredUnderPolicyHolds` | `TransferProofs` | `Spec => []StoredUnderPolicy` |
| `TypeCorrect` | `UpstreamProofs` | `Spec => []TypeOK` |
| `CacheCoherentHolds` | `UpstreamProofs` | `Spec => []CacheCoherent` |
| `StalenessBounded` | `UpstreamProofs` | `Spec => []StaleForCacheSecondsOnly` |
| `DeletedIsGoneHolds` | `UpstreamProofs` | `Spec => []DeletedIsGone` |
| `ServedAsAnnouncedHolds` | `UpstreamProofs` | `Spec => []ServedAsAnnounced` |
| `ConditionsHonouredHolds` | `UpstreamProofs` | `Spec => []ConditionsHonoured` |
| `LostOnlyByNameHolds` | `UpstreamProofs` | `Spec => LostOnlyByName`, an action property |
| `TypeCorrect` | `ListingProofs` | `Spec => []TypeOK` |
| `ItemsAscendHolds` | `ListingProofs` | `Spec => []ItemsAscend` |
| `SteadyKeysListedHolds` | `ListingProofs` | `Spec => []SteadyKeysListed` |

`TypeOK` is not inductive: that `CommitReplace` makes an entry of an upload's directory, say,
depends on which local is set at which label. `TypeInv` (`ReqOK`, `DiskOK`, `RestOK`) adds that
with `LocalsOK`, and `ReqStep`, `DiskStep` and `RestStep` treat the actions one by one for the
locals, the disk and the rest.

`MultipartSafety` first says who changes what: `OthersKeep` (a step moves one process),
`EntryGain` and `EntryLoss` (who creates and who removes an entry), `LifeChange` and
`EndedChange` (who changes the history). The invariants then need few cases.

`OneFilePerNumberHolds` from `CleanedUp`: of two files of one number, some commit of that number
has still to take its glob or has one of the two in its list. It holds because of two commits the
one that renames last globs after both renames. `OneFilePerNumber` alone is not inductive: it does
not say that the commit will unlink one of the two. Without `crashes = 0` it fails, as it should:
a restart between the rename and the unlinks leaves two files, which the next commit removes.

`EndedStaysEndedHolds` from `MetaInv`: `upload.json` is written only at the label "meta", which
one request per id reaches and where the upload is not yet known; whoever works on an upload has
seen it known; an `rmtree` at "rm" that can still see `upload.json` has it in its list, so
at `RmDir`, where the list is empty, it is gone, and nobody is left who could write it.

`SpoolsOwnedHolds` from `SpoolInv`: with `SpoolsOwned`, a request holds a spool at the
labels "body", "spin" and "commit" only, and every action that leaves those unlinks or renames
it (`HolderMoves`), in whatever state the directory is by then.

`ReaderImplementsFile` from `ReaderInv`, which types the reader and says that no file is longer than
listed. That `Starts`, a recursive function, exists and ascends is an induction; since the library's
theorem takes an operator, `NatFacts` derives one over sets from the well-foundedness of `<`. Then
`IndexFound`: the last file that starts at or before a position below the total starts there or
before and ends after it, empty files or not, so that `count` bytes from it are those of the
concatenation (`Concatenation` and its bytes by file). `FileSteps` maps each action of the reader.

`AdmittedAsSignedHolds` and `HonestAdmittedHolds` from `AuthInv`: whatever becomes of the other
fields, the signature on the way is that over what the client signed, and what was admitted
verifies, what was refused does not. Two equal strings to sign agree on all that they cover
(`CoversAll`), which is why nothing has to be said of how often a request was altered. A v2
URL signs the sum of stamp and expiry, hence the shape of that clause.

`KeptAsDigestedHolds` from `BodyInv`: what `spool` is told of a body is what its client declared of it.
That needs `AuthInv`, by which the hash that arrived is the one that was sent, and is the step at
which the two components depend on each other.

`KeptUntilStoredHolds` from `SafelyKept`, which joins `TypeInv` and `MetaInv` to three parts. `Unlinkers`:
an `rmtree` runs only over an upload that is `Doomed` (aborted, swept or stored); a commit unlinks
only other files of its own number; and of two commits of one number with different parts the one
that renames later has marked the number as contended. `Kept`: an upload that is not doomed has its
`upload.json`; a commit that has renamed still has its part there; and every number that is
`Owed`, acknowledged or about to be, has a file. `AssembledInv`: the list a PUT sends
was staged for the upload, ascends and is within the limits. `KeptUntilStored` alone is not inductive: it is
silent between the rename and the 200, where the file can be lost.

`PromiseImplemented` from the same: `Opened`, `Staged`, `StoredObject` and `Closed` are the steps that
change what the mapping sees. The store maps to `StoreObject` by `AssembledInv`, the end of an
upload to its closing by `MetaInv`; every other step, a restart and each unlink but that of `upload.json`
included, stutters.

`UpstreamProofs` has one invariant `Inv` of three parts. `GatewayOK`: no ETag is newer than the last write.
`CacheOK`: a cached listing is right about every key that has not changed since just before it was taken.
`ReqOK`: of each request, that its locals fit its label (`LocalsOK`, `Ranged`) and what it
may still believe of the store (`Fetched`, `Listed`, `FoundEmpty`, `Gone`, `Informed`). The last five
mention only what time and ETags can say: what changed since has a later tick or a higher ETag.
`GatewayStep`, which every action satisfies, is hence all that `CurrentKept` needs to know of the steps of
*other* requests, and each action is looked at once, for its own request (`ListKeeps` and so on). Five of the properties follow from `Inv`;
`LostOnlyByNameHolds` from `FoundEmpty` at the one label where a directory or a bucket is deleted. `CacheCoherentHolds`
needs `FetchCoherent` beside it: a listing that was fetched and not yet cached is wrong only about keys somebody has still to
invalidate, unless it is `raced`. The case that matters is `CacheListing` after another request's
`Invalidate`, and it holds because that marks the fetch as raced.

Of `Informed`, which is about conditional PUTs, `MetOrLater` is a part: at the check the object meets the condition or is not there
(`PutGoesOn`), and every later one has an ETag above `mark`.

`ListingProofs` from `PageOK`, `OrderOK` and `Listed`. What it takes for granted of a listing, that it is
right about keys that are not recent, is the theorem `StalenessBounded` of `UpstreamProofs`. `Less` is shown to be a strict linear order on sequences, hence
a finite set of keys has a least one. `OrderOK`: what is still to come is past the last item, or is
rolled up into it. `Listed`: a key that stays is listed, or lies `Beyond` the marker from which the page or
the next one goes on; that no marker hides it, in a group or beside one, is `Beyond`'s second conjunct.

`KeptAsSignedHolds` from `ChainKept`: `previous` is a beginning of the chunks the client signed (`Chain`),
and `out` is that beginning flattened and the chunk so far. A chunk is appended only if what it presents
is chained from `previous` over what arrived, and what it presents is in `Chain` again (`ClientsSend`),
so that it was the next one; the empty one closes the chain. `SpoolBoundedHolds` is an induction over `Fits`.

`IntactAcceptedHolds` from `Undisturbed`: of a body that was not changed, what is in the buffer and still to
come is, at each label of the decoder, exactly the rest of what the client encoded: at a frame `AtFrame`,
within a chunk `AtData`, after it `AtGap`, in the trailers `AtTrailer`. It is by this invariant that a payload
that looks like a frame is harmless: the decoder is within a chunk then, and counts. `NotInVain`: while such
a rest has a line to come, the buffer is neither waited on at the end of the body nor overlong. `FlattenSeq`
is a recursive function of the community modules; that it unfolds is proved by the induction over sets of `NatFacts`.

`BodyRuns` carries the three over to the composition: what `Receive` tells `spool` is what the decoder's own
specification tells it (`ToldAsSent`), since the payload header arrived as it was signed.

`StoredUnderPolicyHolds` from `FormInv`: what is stored passed `validate_key` and the conditions after the
file name was filled in. The rest is about keys: the fold that gives `StoredName` exists (`ResolvesExist`) and passes each
segment of a storable key on unchanged (`ResolvesNext`, `StorableKept`), so the gateway stores what was checked.

What TLC has to be relied on for, on the bounds above: the three liveness properties `AbandonedReclaimed`,
`Answered` and `ListingEnds`, since fairness speaks of `ENABLED`, which is beyond the prover; and the four
statements of section 5, which do not hold.

## 5. Where the repository says something else

Four statements in comments and tests do not hold of the code; each has a run that shows the steps.

- `Multipart_contention`. "Two files for one number only during a concurrent re-upload; newest
  wins." (`multipart.py:120`). Two uploads of one number with different contents rename,
  then each globs and unlinks the other's file: both clients are answered 200, and no file
  is left. A completion then says InvalidPart.
- `Multipart_sweep_race`. "Parts are only removed once the object is safely stored, so a failed
  completion can be retried by the client." (`routes/multipart.py:81-82`). A completion does not touch
  the directory; parts staged for longer than the expiry are removed by a sweep while their
  completion is sending them.
- `Upstream_range_race`. "The real gateway refuses these; the service must never send one."
  (`tests/fake_upstream.py:67`). The object may shrink between stat and GET.
- `Upstream_rmdir_race`. "`Upstream.delete` only lets that through for an empty directory"
  (`upstream.py:17`). A PUT below `dir/` may come between the listing and the delete.

A fifth has no run of its own, for the properties of `Transfer_end_to_end` say how far it goes. "every
digest the client declared [...] is checked" (`body.py:4-7`): `_checksum_spec` selects one
checksum (`Selected`), so of several in headers only the first of `KNOWN_CHECKSUMS` is checked, and
none of them where a trailer is announced, not even if it never comes. MD5, hash and chunk
signatures are always checked. `KeptAsDigested` states what is left of the sentence.

Not claimed anywhere, and so not findings, but visible in the model: conditional PUTs check
first and write later, so two with If-None-Match: * may both succeed (`ConditionsHonoured` says how far
that goes); while HEAD lags, their ETag tests
are skipped (documented); a trailer that was announced and never comes is not missed (`Expected`);
a v4 request may be given an x-amz-copy-source it did not sign, and is then a copy (`CoveredV4`); a chunk of
negative size makes the event loop spin (`Taken`, `BodySpins`); a `readinto` of an empty buffer calls a sound part
truncated (`ReadInto`); `delete_bucket` keeps the cached listings if the gateway answers an
error, which `raced` marks in the model; a part refused because the staged total exceeds the cap stays staged.

## 6. The plan

Done: the modules above, and the theorems of section 4. What would come next:

1. Facts about `Seq` and `FlattenSeq` that `BodyProofs` and `TransferProofs` prove where they need
   them, in a module of their own.
2. The bucket of `Upstream` as the abstract specification of a store with reads that lag, and
   `Upstream` shown to implement it; today its promises are single properties.

Left out of the plan: the dispatch on method and parameters, whose only reference would be the
same table again.

## 7. Not modelled, and why

- Dispatch on method and parameters (`routes/`), `s3xml.py`, `errors.py`: functions of one
  request without state. Of the XML there is the part list of a completion, of the errors that one
  ends the request, and that a refused body is not read on, which is uvicorn's to clean up.
- How a request is canonicalised (`auth/common.py`): encoding and sorting of strings, of which the
  record a signature covers is the result.
- A batch delete that an exception ends which is no `S3Error`: the client gets a 500 and no
  report, and what was deleted before is deleted. That is a `DeleteBatch` whose report nobody reads.
- Preconditions on dates, and those of GET: they read one stat, as `ServedAsAnnounced` has it.
- A second replica or process: the chart fixes one (`helm/filen-s3-emulator/values.yaml`), and
  the staging directory is its own.
- Errors of the local disk (full, unreadable): every such exception is a 500 at the point of
  the call; the spool's are those of `SpoolFail`.
- Configuration, container, chart, CORS, health checks: no state of their own.
