----------------------------- MODULE Multipart -----------------------------
(***************************************************************************)
(* Multipart uploads staged on a local disk: multipart.py (MultipartStore), *)
(* routes/multipart.py (the handlers), the spool of body.py they receive    *)
(* bodies into, and the hourly sweep of main.py.                            *)
(*                                                                          *)
(* One uvicorn process runs the handlers on one event loop: what a handler  *)
(* does between two awaits is not interleaved with other handlers (OnLoop). *)
(* create, commit_part, abort, sweep and the upstream PUT run in a thread   *)
(* pool and interleave with everything, one file system call at a time.     *)
(* The content of a part and its MD5 (the etag in its file name) are the    *)
(* same abstract value.                                                     *)
(***************************************************************************)
EXTENDS Integers, Sequences, FiniteSets, FiniteSetsExt

CONSTANTS
  Uploads,        \* upload ids secrets.token_urlsafe may generate
  Requests,       \* requests in flight at one time
  Sweeper,        \* the sweep task
  Bytes,          \* contents of a part, identified with their MD5
  Size,           \* the length of each content
  PartNumbers,    \* part numbers a client may present, out of range included
  MaxPartNumber, MinPartBytes, MaxObjectBytes,
  Expiry,         \* multipart_expiry_hours, in ticks of the clock
  SpoolNames,     \* names mkstemp may return
  UploadJson,     \* the entry "upload.json"
  Tmp,            \* the staging directory's tmp/
  None,
  MaxTime,        \* bound: ticks of the clock
  MaxCrashes,     \* bound: restarts of the container
  MaxPasses,      \* bound: times botocore reads the body of one PUT
  MaxListed       \* bound: parts named by one CompleteMultipartUpload

Parts == [number : PartNumbers, etag : Bytes]
Entries == {UploadJson} \cup Parts \cup SpoolNames
Dirs == Uploads \cup {Tmp}
Procs == Requests \cup {Sweeper}

ASSUME NamesDistinct ==
  /\ UploadJson \notin Parts \cup SpoolNames
  /\ SpoolNames \cap Parts = {}
  /\ None \notin Uploads \cup Parts \cup SpoolNames
  /\ Tmp \notin Uploads
  /\ Sweeper \notin Requests

ASSUME BoundsAreNumbers ==
  /\ PartNumbers \subseteq Nat /\ Size \in [Bytes -> Nat]
  /\ {MaxPartNumber, MinPartBytes, MaxObjectBytes, Expiry} \subseteq Nat
  /\ {MaxTime, MaxCrashes, MaxPasses, MaxListed} \subseteq Nat

VARIABLES
  now, crashes,
  dirs,     \* directories that exist
  entry,    \* the entries of each directory
  mtime,    \* their modification times
  touched,  \* the modification time of the directory itself
  req,      \* program counter and locals of each process
  cutoff,   \* the time the running sweep was started at
  targets,  \* directories the running sweep has still to look at
  object,   \* the parts of the object stored at the gateway; <<>>: none
  story,    \* what happened to each upload: history, not read by the program
  orphaned  \* spool files of requests that died with the process: history

disk == <<dirs, entry, mtime, touched>>
sweepVars == <<cutoff, targets>>
env == <<now, crashes, orphaned>>
vars == <<env, disk, req, sweepVars, object, story>>

Ops == {"none", "create", "part", "complete", "abort", "sweep"}
Labels == {"idle", "meta", "mkdir", "open", "body", "spin", "commit", "glob", "unlink",
           "scan", "sum", "assemble", "put", "sweep", "rmlist", "rm"}

Locals == [pc : Labels, op : Ops, up : Uploads \cup {None},
           spool : SpoolNames \cup {None}, part : Parts \cup {None},
           todo : SUBSET Entries, want : Seq(Parts), pos : Nat, passes : Nat]

Idle == [pc |-> "idle", op |-> "none", up |-> None, spool |-> None, part |-> None,
         todo |-> {}, want |-> <<>>, pos |-> 0, passes |-> 0]

(* life: "unused", then "issued" when the id is generated, then "known" when *)
(* upload.json is written. staged: parts ever renamed into place. acked: the *)
(* numbers answered 200. contended: numbers committed while another commit   *)
(* of them ran. removal: the operations that have begun to remove it. ended: *)
(* whether an abort or a completion was carried out to its answer.           *)
Stories == [life : {"unused", "issued", "known"}, staged : SUBSET Parts,
            acked : SUBSET PartNumbers, contended : SUBSET PartNumbers,
            removal : SUBSET {"abort", "complete", "sweep"}, ended : BOOLEAN]

NoStory == [life |-> "unused", staged |-> {}, acked |-> {}, contended |-> {},
            removal |-> {}, ended |-> FALSE]

TypeOK ==
  /\ now \in 0..MaxTime /\ crashes \in 0..MaxCrashes
  /\ dirs \subseteq Dirs
  /\ entry \in [Dirs -> SUBSET Entries]
  /\ mtime \in [Dirs -> [Entries -> Nat]]
  /\ touched \in [Dirs -> Nat]
  /\ req \in [Procs -> Locals]
  /\ cutoff \in Nat /\ targets \subseteq Uploads
  /\ object \in [Uploads -> Seq(Parts)]
  /\ story \in [Uploads -> Stories]
  /\ orphaned \subseteq SpoolNames

Init ==
  /\ now = 0 /\ crashes = 0
  /\ dirs = {Tmp}
  /\ entry = [d \in Dirs |-> {}]
  /\ mtime = [d \in Dirs |-> [e \in Entries |-> 0]]
  /\ touched = [d \in Dirs |-> 0]
  /\ req = [p \in Procs |-> Idle]
  /\ cutoff = 0 /\ targets = {}
  /\ object = [u \in Uploads |-> <<>>]
  /\ story = [u \in Uploads |-> NoStory]
  /\ orphaned = {}

-----------------------------------------------------------------------------
(* The file system: mkdir, creating an entry, unlinking entries.           *)

Mkdir(d) ==
  /\ dirs' = dirs \cup {d}
  /\ touched' = IF d \in dirs THEN touched ELSE [touched EXCEPT ![d] = now]
  /\ UNCHANGED <<entry, mtime>>

Store(d, e) ==
  /\ entry' = [entry EXCEPT ![d] = @ \cup {e}]
  /\ mtime' = [mtime EXCEPT ![d][e] = now]
  /\ touched' = [touched EXCEPT ![d] = now]
  /\ UNCHANGED dirs

(* unlink(missing_ok=True) of every name in E.                             *)
Unlink(d, E) ==
  /\ entry' = [entry EXCEPT ![d] = @ \ E]
  /\ mtime' = [mtime EXCEPT ![d] = [e \in Entries |-> IF e \in E THEN 0 ELSE @[e]]]
  /\ touched' = IF E \cap entry[d] = {} THEN touched ELSE [touched EXCEPT ![d] = now]
  /\ UNCHANGED dirs

-----------------------------------------------------------------------------
(* The event loop is not free while a handler is between two awaits. It     *)
(* never is again once a handler spins: nothing is dispatched to a thread   *)
(* then, but what threads have begun they finish.                           *)
OnLoop == {"mkdir", "open", "sum", "assemble", "spin"}
LoopFree(p) == \A q \in Requests \ {p} : req[q].pc \notin OnLoop
Spinning == \E q \in Requests : req[q].pc = "spin"

Begin(p, op, u, pc) == req' = [req EXCEPT ![p] = [Idle EXCEPT !.op = op, !.up = u, !.pc = pc]]
Goto(p, pc) == req' = [req EXCEPT ![p].pc = pc]
Finish(p) == req' = [req EXCEPT ![p] = Idle]

(* MultipartStore.get: the upload exists if its upload.json can be read.    *)
Get(u) == UploadJson \in entry[u]

(* The directory a request spools its body into.                           *)
Home(r) == IF r.op = "complete" THEN Tmp ELSE r.up

(* A name mkstemp has not given to anybody.                                *)
FreshSpool(s) ==
  /\ s \notin orphaned
  /\ \A d \in Dirs : s \notin entry[d]
  /\ \A p \in Procs : req[p].spool # s

(* create: mkdir of a new id, then upload.json is written in it.            *)
CreateMkdir(p) ==
  /\ req[p].pc = "idle" /\ ~Spinning
  /\ \E u \in Uploads :
       /\ story[u].life = "unused"
       /\ story' = [story EXCEPT ![u].life = "issued"]
       /\ Mkdir(u)
       /\ Begin(p, "create", u, "meta")
  /\ UNCHANGED <<env, sweepVars, object>>

CreateMeta(p) ==
  LET u == req[p].up IN
  /\ req[p].pc = "meta"
  /\ IF u \in dirs THEN Store(u, UploadJson) /\ story' = [story EXCEPT ![u].life = "known"]
                   ELSE UNCHANGED <<disk, story>>
  /\ Finish(p)
  /\ UNCHANGED <<env, sweepVars, object>>

-----------------------------------------------------------------------------
(* UploadPart: get, then spool() makes the directory (again), opens a fresh *)
(* file in it and receives the body.                                        *)

UploadPart(p) ==
  /\ req[p].pc = "idle" /\ LoopFree(p)
  /\ \E u \in Uploads : Get(u) /\ Begin(p, "part", u, "mkdir")
  /\ UNCHANGED <<env, disk, sweepVars, object, story>>

(* Mutant: the handler makes the whole upload again, not only its directory. *)
SpoolMkdirAndMeta(p) ==
  /\ req[p].pc = "mkdir"
  /\ dirs' = dirs \cup {req[p].up}
  /\ entry' = [entry EXCEPT ![req[p].up] = @ \cup {UploadJson}]
  /\ Goto(p, "open")
  /\ UNCHANGED <<env, mtime, touched, sweepVars, object, story>>

SpoolMkdir(p) ==
  /\ req[p].pc = "mkdir"
  /\ Mkdir(req[p].up)
  /\ Goto(p, "open")
  /\ UNCHANGED <<env, sweepVars, object, story>>

SpoolOpen(p) ==
  /\ req[p].pc = "open"
  /\ \/ /\ req[p].up \in dirs
        /\ \E s \in SpoolNames :
             /\ FreshSpool(s)
             /\ Store(req[p].up, s)
             /\ req' = [req EXCEPT ![p].pc = "body", ![p].spool = s]
     \/ Finish(p) /\ UNCHANGED disk  \* refused by its headers, or the directory is gone
  /\ UNCHANGED <<env, sweepVars, object, story>>

(* Mutant: the spool of a refused body stays.                               *)
SpoolFailKeepsFile(p) ==
  /\ req[p].pc = "body" /\ LoopFree(p)
  /\ Finish(p)
  /\ UNCHANGED <<env, disk, sweepVars, object, story>>

(* The body is malformed, too large, has a wrong digest, or the connection  *)
(* dropped: spool() unlinks its file.                                       *)
SpoolFail(p) ==
  /\ req[p].pc = "body" /\ LoopFree(p)
  /\ Unlink(Home(req[p]), {req[p].spool})
  /\ Finish(p)
  /\ UNCHANGED <<env, sweepVars, object, story>>

(* A chunk of negative size: exactly() reads what is there, then takes an   *)
(* empty piece of its buffer for ever and without an await.                 *)
BodySpins(p) ==
  /\ req[p].pc = "body" /\ LoopFree(p)
  /\ Goto(p, "spin")
  /\ UNCHANGED <<env, disk, sweepVars, object, story>>

Spin(p) == req[p].pc = "spin" /\ UNCHANGED vars

PartSpooled(p) ==
  LET u == req[p].up  s == req[p].spool IN
  /\ req[p].pc = "body" /\ req[p].op = "part" /\ LoopFree(p)
  /\ \E part \in Parts :
       /\ Size[part.etag] <= MaxObjectBytes
       /\ req' = [req EXCEPT ![p].pc = "commit", ![p].part = part]
  /\ mtime' = IF s \in entry[u] THEN [mtime EXCEPT ![u][s] = now] ELSE mtime
  /\ UNCHANGED <<env, dirs, entry, touched, sweepVars, object, story>>

-----------------------------------------------------------------------------
(* commit_part: rename over <number>.<etag>.part, then unlink every other   *)
(* file of the number that a glob taken after the rename finds.             *)

InRange(n) == n \in 1..MaxPartNumber

(* Mutant: the spool of a part that cannot be committed stays.              *)
CommitFailedKeepsFile(p) ==
  LET r == req[p] IN
  /\ r.pc = "commit" /\ (InRange(r.part.number) => r.spool \notin entry[r.up])
  /\ Finish(p)
  /\ UNCHANGED <<env, disk, sweepVars, object, story>>

(* The number is out of range, or the spool went with the upload: an error. *)
CommitFailed(p) ==
  LET r == req[p] IN
  /\ r.pc = "commit" /\ (InRange(r.part.number) => r.spool \notin entry[r.up])
  /\ Unlink(r.up, {r.spool})
  /\ Finish(p)
  /\ UNCHANGED <<env, sweepVars, object, story>>

(* q is between its rename and its last unlink for this number, with a     *)
(* different content.                                                      *)
CommitsSameNumber(q, u, part) ==
  /\ req[q].pc \in {"glob", "unlink"} /\ req[q].up = u
  /\ req[q].part.number = part.number /\ req[q].part # part

CommitReplace(p) ==
  LET u == req[p].up  s == req[p].spool  part == req[p].part IN
  /\ req[p].pc = "commit" /\ InRange(part.number) /\ s \in entry[u]
  /\ entry' = [entry EXCEPT ![u] = (@ \ {s}) \cup {part}]
  /\ mtime' = [mtime EXCEPT ![u][part] = mtime[u][s], ![u][s] = 0]
  /\ touched' = [touched EXCEPT ![u] = now]
  /\ req' = [req EXCEPT ![p].pc = "glob", ![p].spool = None]
  /\ story' = [story EXCEPT ![u].staged = @ \cup {part},
                            ![u].contended = IF \E q \in Requests \ {p} : CommitsSameNumber(q, u, part)
                                             THEN @ \cup {part.number} ELSE @]
  /\ UNCHANGED <<env, dirs, sweepVars, object>>

Unlinking(stale) == IF stale = {} THEN "scan" ELSE "unlink"

(* Mutants: the glob also matches the part just renamed; no glob at all.    *)
CommitGlobTakesOwn(p) ==
  LET r == req[p]
      stale == {e \in entry[r.up] \cap Parts : e.number = r.part.number} IN
  /\ r.pc = "glob"
  /\ req' = [req EXCEPT ![p].pc = Unlinking(stale), ![p].todo = stale]
  /\ UNCHANGED <<env, disk, sweepVars, object, story>>

CommitGlobSkipped(p) ==
  /\ req[p].pc = "glob"
  /\ Goto(p, "scan")
  /\ UNCHANGED <<env, disk, sweepVars, object, story>>

CommitGlob(p) ==
  LET r == req[p]
      stale == {e \in entry[r.up] \cap Parts : e.number = r.part.number} \ {r.part} IN
  /\ r.pc = "glob"
  /\ req' = [req EXCEPT ![p].pc = Unlinking(stale), ![p].todo = stale]
  /\ UNCHANGED <<env, disk, sweepVars, object, story>>

CommitUnlink(p) ==
  /\ req[p].pc = "unlink"
  /\ \E e \in req[p].todo :
       /\ Unlink(req[p].up, {e})
       /\ req' = [req EXCEPT ![p].pc = Unlinking(req[p].todo \ {e}), ![p].todo = @ \ {e}]
  /\ UNCHANGED <<env, sweepVars, object, story>>

-----------------------------------------------------------------------------
(* Mutant: a directory that is gone is looked for again.                    *)
ScanAgain(p) ==
  LET r == req[p] IN
  /\ r.pc = "scan" /\ LoopFree(p) /\ r.up \in dirs
  /\ req' = [req EXCEPT ![p].pc = IF r.op = "part" THEN "sum" ELSE "assemble",
                        ![p].todo = entry[r.up] \cap Parts]
  /\ UNCHANGED <<env, disk, sweepVars, object, story>>

(* MultipartStore.parts: one snapshot of the directory, then a stat of each *)
(* file; of two files for one number the newest wins, the first seen if     *)
(* their times are equal; a file gone since the snapshot is skipped.        *)
Scan(p) ==
  LET r == req[p] IN
  /\ r.pc = "scan" /\ LoopFree(p)
  /\ IF r.up \in dirs
     THEN req' = [req EXCEPT ![p].pc = IF r.op = "part" THEN "sum" ELSE "assemble",
                             ![p].todo = entry[r.up] \cap Parts]
     ELSE Finish(p)  \* iterdir fails: 500
  /\ UNCHANGED <<env, disk, sweepVars, object, story>>

Found(u, seen) ==
  LET there == seen \cap entry[u]
      newest == {e \in there : \A f \in there :
                   f.number = e.number => mtime[u][f] <= mtime[u][e]}
  IN {F \in SUBSET newest :
        \A e \in newest : Cardinality({f \in F : f.number = e.number}) = 1}

SizeOf(F) == MapThenSumSet(LAMBDA e : Size[e.etag], F)

(* The staged total is checked after the commit: a refused part stays.      *)
PartSum(p) ==
  LET u == req[p].up IN
  /\ req[p].pc = "sum"
  /\ \E F \in Found(u, req[p].todo) :
       story' = IF SizeOf(F) > MaxObjectBytes THEN story
                ELSE [story EXCEPT ![u].acked = @ \cup {req[p].part.number}]
  /\ Finish(p)
  /\ UNCHANGED <<env, disk, sweepVars, object>>

-----------------------------------------------------------------------------
(* CompleteMultipartUpload: the XML body goes through a spool in tmp/, the  *)
(* listed parts are checked, and one PUT streams them to the gateway.       *)

Complete(p) ==
  /\ req[p].pc = "idle" /\ LoopFree(p)
  /\ \E u \in Uploads, s \in SpoolNames :
       /\ Get(u) /\ FreshSpool(s)
       /\ Store(Tmp, s)
       /\ req' = [req EXCEPT ![p] = [Idle EXCEPT !.op = "complete", !.up = u, !.pc = "body",
                                                 !.spool = s]]
  /\ UNCHANGED <<env, sweepVars, object, story>>

(* read_small: read the spool, discard it; if it has vanished, a 500.       *)
BodyRead(p) ==
  LET s == req[p].spool IN
  /\ req[p].pc = "body" /\ req[p].op = "complete" /\ LoopFree(p)
  /\ Unlink(Tmp, {s})
  /\ IF s \in entry[Tmp] THEN req' = [req EXCEPT ![p].pc = "scan", ![p].spool = None]
                         ELSE Finish(p)
  /\ UNCHANGED <<env, sweepVars, object, story>>

PartLists == UNION {[1..n -> Parts] : n \in 1..MaxListed}

Ascending(list) == \A i \in 1..(Len(list) - 1) : list[i].number < list[i + 1].number
(* Mutant: the last but one part may be small, too.                         *)
BigEnoughButTwo(list) == \A i \in 1..(Len(list) - 2) : Size[list[i].etag] >= MinPartBytes

BigEnough(list) == \A i \in 1..(Len(list) - 1) : Size[list[i].etag] >= MinPartBytes
WithinCap(list) == MapThenSumSet(LAMBDA i : Size[list[i].etag], DOMAIN list) <= MaxObjectBytes

Acceptable(list, F) ==
  /\ Ascending(list)
  /\ \A i \in DOMAIN list : list[i] \in F
  /\ BigEnough(list)
  /\ WithinCap(list)

Assemble(p) ==
  /\ req[p].pc = "assemble"
  /\ \E F \in Found(req[p].up, req[p].todo), list \in PartLists :
       IF Acceptable(list, F)
       THEN req' = [req EXCEPT ![p].pc = "put", ![p].want = list, ![p].passes = 1, ![p].todo = {}]
       ELSE Finish(p)
  /\ UNCHANGED <<env, disk, sweepVars, object, story>>

(* The PUT reads the files one after the other, opening each by its name    *)
(* when its turn comes; botocore rewinds to hash the body and to retry.     *)
PutRead(p) ==
  LET r == req[p] IN
  /\ r.pc = "put" /\ r.pos < Len(r.want)
  /\ IF r.want[r.pos + 1] \in entry[r.up] THEN req' = [req EXCEPT ![p].pos = @ + 1]
                                          ELSE Finish(p)
  /\ UNCHANGED <<env, disk, sweepVars, object, story>>

PutRewind(p) ==
  /\ req[p].pc = "put" /\ req[p].pos > 0 /\ req[p].passes < MaxPasses
  /\ req' = [req EXCEPT ![p].pos = 0, ![p].passes = @ + 1]
  /\ UNCHANGED <<env, disk, sweepVars, object, story>>

(* Mutant: the parts go whether or not the PUT succeeded.                   *)
PutFailedDiscards(p) ==
  /\ req[p].pc = "put"
  /\ Goto(p, "rmlist")
  /\ UNCHANGED <<env, disk, sweepVars, object, story>>

PutFailed(p) ==  \* an <Error> in the body; the parts stay
  /\ req[p].pc = "put"
  /\ Finish(p)
  /\ UNCHANGED <<env, disk, sweepVars, object, story>>

(* The gateway has the object. If its answer is lost, or the client is gone *)
(* and the response generator with it, the parts are left to the sweep.     *)
PutStored(p) ==
  LET u == req[p].up IN
  /\ req[p].pc = "put" /\ req[p].pos = Len(req[p].want)
  /\ object' = [object EXCEPT ![u] = req[p].want]
  /\ \/ ~Spinning /\ Goto(p, "rmlist") /\ story' = [story EXCEPT ![u].removal = @ \cup {"complete"}]
     \/ Finish(p) /\ UNCHANGED story
  /\ UNCHANGED <<env, disk, sweepVars>>

-----------------------------------------------------------------------------
(* AbortMultipartUpload, and rmtree(ignore_errors): list, unlink each,      *)
(* rmdir if nothing has been added meanwhile.                               *)

Abort(p) ==
  /\ req[p].pc = "idle" /\ LoopFree(p)
  /\ \E u \in Uploads :
       /\ Get(u)
       /\ Begin(p, "abort", u, "rmlist")
       /\ story' = [story EXCEPT ![u].removal = @ \cup {"abort"}]
  /\ UNCHANGED <<env, disk, sweepVars, object>>

(* Mutant: only the parts are removed.                                      *)
RmListParts(p) ==
  /\ req[p].pc = "rmlist"
  /\ req' = [req EXCEPT ![p].pc = "rm", ![p].todo = entry[req[p].up] \cap Parts]
  /\ UNCHANGED <<env, disk, sweepVars, object, story>>

RmList(p) ==
  /\ req[p].pc = "rmlist"
  /\ req' = [req EXCEPT ![p].pc = "rm", ![p].todo = entry[req[p].up]]
  /\ UNCHANGED <<env, disk, sweepVars, object, story>>

RmUnlink(p) ==
  /\ req[p].pc = "rm"
  /\ \E e \in req[p].todo :
       /\ Unlink(req[p].up, {e})
       /\ req' = [req EXCEPT ![p].todo = @ \ {e}]
  /\ UNCHANGED <<env, sweepVars, object, story>>

RmDir(p) ==
  LET u == req[p].up IN
  /\ req[p].pc = "rm" /\ req[p].todo = {}
  /\ IF entry[u] = {} THEN dirs' = dirs \ {u} /\ touched' = [touched EXCEPT ![u] = 0]
                      ELSE UNCHANGED <<dirs, touched>>
  /\ IF p = Sweeper
     THEN Begin(p, "sweep", None, "sweep") /\ UNCHANGED story
     ELSE Finish(p) /\ story' = [story EXCEPT ![u].ended = TRUE]
  /\ UNCHANGED <<env, entry, mtime, sweepVars, object>>

-----------------------------------------------------------------------------
(* The sweep: the cutoff is taken once; every directory is looked at and,   *)
(* if its newest entry is older, removed by an rmtree of its own.           *)

NewestTime(d) == IF entry[d] = {} THEN touched[d] ELSE Max({mtime[d][e] : e \in entry[d]})

(* Mutant: tmp/ is taken for an upload.                                     *)
SweepStartTakesTmp ==
  /\ req[Sweeper].pc = "idle" /\ ~Spinning
  /\ cutoff' = now
  /\ targets' = dirs
  /\ Begin(Sweeper, "sweep", None, "sweep")
  /\ UNCHANGED <<env, disk, object, story>>

SweepStart ==
  /\ req[Sweeper].pc = "idle" /\ ~Spinning
  /\ cutoff' = now
  /\ targets' = dirs \ {Tmp}
  /\ Unlink(Tmp, {s \in entry[Tmp] : mtime[Tmp][s] + Expiry < now})
  /\ Begin(Sweeper, "sweep", None, "sweep")
  /\ UNCHANGED <<env, object, story>>

(* Mutant: only directories with an upload.json are looked at.              *)
SweepCheckUploads ==
  /\ req[Sweeper].pc = "sweep"
  /\ \E d \in targets :
       /\ targets' = targets \ {d}
       /\ IF d \in dirs /\ Get(d) /\ NewestTime(d) + Expiry < cutoff
          THEN /\ Begin(Sweeper, "sweep", d, "rmlist")
               /\ story' = [story EXCEPT ![d].removal = @ \cup {"sweep"}]
          ELSE UNCHANGED <<req, story>>
  /\ UNCHANGED <<env, disk, cutoff, object>>

SweepCheck ==
  /\ req[Sweeper].pc = "sweep"
  /\ \E d \in targets :
       /\ targets' = targets \ {d}
       /\ IF d \in dirs /\ NewestTime(d) + Expiry < cutoff
          THEN /\ Begin(Sweeper, "sweep", d, "rmlist")
               /\ story' = [story EXCEPT ![d].removal = @ \cup {"sweep"}]
          ELSE UNCHANGED <<req, story>>
  /\ UNCHANGED <<env, disk, cutoff, object>>

SweepDone ==
  /\ req[Sweeper].pc = "sweep" /\ targets = {}
  /\ Finish(Sweeper)
  /\ UNCHANGED <<env, disk, sweepVars, object, story>>

-----------------------------------------------------------------------------
Tick ==
  /\ now < MaxTime
  /\ now' = now + 1
  /\ UNCHANGED <<crashes, orphaned, disk, req, sweepVars, object, story>>

(* The container restarts: the staging volume keeps its files.             *)
Crash ==
  /\ crashes < MaxCrashes
  /\ crashes' = crashes + 1
  /\ req' = [p \in Procs |-> Idle]
  /\ targets' = {}
  /\ orphaned' = orphaned \cup (SpoolNames \cap UNION {entry[d] : d \in Dirs})
  /\ UNCHANGED <<now, disk, cutoff, object, story>>

Remove(p) == RmList(p) \/ RmUnlink(p) \/ RmDir(p)

(* The steps a request takes once it has been accepted.                    *)
Advance(p) ==
  \/ CreateMeta(p)
  \/ SpoolMkdir(p) \/ SpoolOpen(p) \/ SpoolFail(p) \/ BodySpins(p) \/ PartSpooled(p)
  \/ CommitFailed(p) \/ CommitReplace(p) \/ CommitGlob(p) \/ CommitUnlink(p)
  \/ Scan(p) \/ PartSum(p)
  \/ BodyRead(p) \/ Assemble(p)
  \/ PutRead(p) \/ PutRewind(p) \/ PutFailed(p) \/ PutStored(p)
  \/ Remove(p)

Arrive(p) == CreateMkdir(p) \/ UploadPart(p) \/ Complete(p) \/ Abort(p)

Sweep == SweepStart \/ SweepCheck \/ SweepDone \/ Remove(Sweeper)

Next == (\E p \in Requests : Arrive(p) \/ Advance(p) \/ Spin(p)) \/ Sweep \/ Tick \/ Crash

Spec == Init /\ [][Next]_vars

(* Threads are scheduled, the loop serves its ready queue in order, and the *)
(* clock runs. Nothing makes a client send its body, or drop its connection. *)
Fairness ==
  /\ \A p \in Requests : SF_vars(req[p].pc # "body" /\ Advance(p))
  /\ WF_vars(Sweep)
  /\ WF_vars(Tick)

FairSpec == Spec /\ Fairness
-----------------------------------------------------------------------------
(* What a completion or a part upload acknowledged is not lost before it    *)
(* is used: until somebody aborts the upload, the sweep takes it or its     *)
(* object is stored, upload.json is there and every number answered 200 has *)
(* a file, whatever failed, was retried or crashed meanwhile. Numbers        *)
(* committed by two requests at once are the exception (AckedPartPresent).  *)
Present(u, n) == \E e \in entry[u] \cap Parts : e.number = n

Undisturbed(u) == /\ story[u].life = "known"
                  /\ story[u].removal \cap {"abort", "sweep"} = {}
                  /\ object[u] = <<>>

KeptUntilStored ==
  \A u \in Uploads : Undisturbed(u) =>
    /\ Get(u)
    /\ \A n \in story[u].acked \ story[u].contended : Present(u, n)

(* An upload whose abort or completion was answered never exists again,     *)
(* though spool() may make its directory again under a late UploadPart.     *)
EndedStaysEnded == \A u \in Uploads : story[u].ended => ~Get(u)

(* No spool file is left behind: one that is on disk belongs to a request   *)
(* in flight that will rename or unlink it, or to one the process died on.  *)
Owns(p, d, s) == req[p].spool = s /\ Home(req[p]) = d

SpoolsOwned ==
  \A d \in Dirs : \A s \in entry[d] \cap SpoolNames :
    s \in orphaned \/ \E p \in Requests : Owns(p, d, s)

(* multipart.py:120 relies on it when it lets the newest file win: without  *)
(* a crash, two files of one number are there only while a commit of that   *)
(* number is still unlinking, however many commits of it ran at once.       *)
Committing(p, u, n) ==
  req[p].pc \in {"glob", "unlink"} /\ req[p].up = u /\ req[p].part.number = n

OneFilePerNumber ==
  crashes = 0 => \A u \in Uploads : \A e, f \in entry[u] \cap Parts :
    (e # f /\ e.number = f.number) => \E p \in Requests : Committing(p, u, e.number)

(* The gateway-side view of S3Upload: an upload exists once, from the write *)
(* of its upload.json to its removal, and objects are made of staged parts. *)
status == [u \in Uploads |-> IF Get(u) THEN "open"
                             ELSE IF story[u].life = "known" THEN "gone" ELSE "none"]
staged == [u \in Uploads |-> story[u].staged]

Promise == INSTANCE S3Upload WITH status <- status, staged <- staged, object <- object
ImplementsPromise == Promise!Spec

(* Every accepted request is answered or waits for nothing but its own      *)
(* body, whatever another request or the sweep does to its upload and       *)
(* however long another client takes over its body; unless a chunk of       *)
(* negative size has made the loop spin.                                    *)
Answered ==
  \A p \in Requests : req[p].pc \notin {"idle", "body"} ~> req[p].pc \in {"idle", "body"} \/ Spinning

(* Abandoned directories are removed: one that nobody works on and that was *)
(* last touched long enough ago (before the bounded clock and the bounded   *)
(* crashes end) is swept, unless a request comes for it or the loop spins.  *)
Unattended(u) == \A p \in Requests : req[p].up # u
AbandonedReclaimed ==
  \A u \in Uploads :
    (crashes = MaxCrashes /\ u \in dirs /\ NewestTime(u) + Expiry < MaxTime /\ Unattended(u))
      ~> (u \notin dirs \/ ~Unattended(u) \/ Spinning)
-----------------------------------------------------------------------------
(* What the repository says and the code does not do.                      *)

(* "Two files for one number only during a concurrent re-upload; newest     *)
(* wins." (multipart.py:120): so one of them should always be left.         *)
AckedPartPresent ==
  \A u \in Uploads : Undisturbed(u) => \A n \in story[u].acked : Present(u, n)

(* "Parts are only removed once the object is safely stored, so a failed    *)
(* completion can be retried by the client." (routes/multipart.py:81-82)    *)
RunningCompletionKeepsParts ==
  \A p \in Requests :
    LET u == req[p].up IN
    req[p].pc = "put" /\ object[u] = <<>> /\ "abort" \notin story[u].removal =>
      \A i \in DOMAIN req[p].want : Present(u, req[p].want[i].number)
=============================================================================
