-------------------------- MODULE MultipartSafety --------------------------
(* The safety invariants of Multipart, and that it implements S3Upload, for *)
(* every value of its constants.                                            *)
EXTENDS MultipartProofs

(* A step belongs to one process; the others keep their locals.             *)
LEMMA OthersKeep ==
  ASSUME TypeInv, NEW p \in Procs, Arrive(p) \/ Advance(p) \/ Remove(p) \/ (p = Sweeper /\ Sweep)
  PROVE  \A q \in Procs \ {p} : req'[q] = req[q]
<1>0. req \in [Procs -> Locals]
  BY DEF TypeInv, ReqOK
<1>1. CASE Arrive(p)
  BY <1>0, <1>1 DEF Arrive, CreateMkdir, UploadPart, Complete, Abort, Begin
<1>2. CASE Remove(p)
  BY <1>0, <1>2 DEF Remove, RmList, RmUnlink, RmDir, Begin, Finish
<1>3. CASE p = Sweeper /\ Sweep
  BY <1>0, <1>2, <1>3 DEF Sweep, SweepStart, SweepCheck, SweepDone, Begin, Finish
<1>4. CASE Advance(p)
  <2>1. CASE CreateMeta(p) \/ SpoolMkdir(p) \/ SpoolOpen(p) \/ SpoolFail(p) \/ BodySpins(p) \/ PartSpooled(p)
    BY <1>0, <2>1 DEF CreateMeta, SpoolMkdir, SpoolOpen, SpoolFail, BodySpins, PartSpooled, Goto, Finish
  <2>2. CASE CommitFailed(p) \/ CommitReplace(p) \/ CommitGlob(p) \/ CommitUnlink(p)
    BY <1>0, <2>2 DEF CommitFailed, CommitReplace, CommitGlob, CommitUnlink, Finish
  <2>3. CASE Scan(p) \/ PartSum(p) \/ BodyRead(p) \/ Assemble(p)
    BY <1>0, <2>3 DEF Scan, PartSum, BodyRead, Assemble, Finish
  <2>4. CASE PutRead(p) \/ PutRewind(p) \/ PutFailed(p) \/ PutStored(p)
    BY <1>0, <2>4 DEF PutRead, PutRewind, PutFailed, PutStored, Goto, Finish
  <2> QED BY <1>2, <1>4, <2>1, <2>2, <2>3, <2>4 DEF Advance
<1> QED BY <1>1, <1>2, <1>3, <1>4

(* Who creates an entry: create its upload.json, spool() a spool file,      *)
(* commit_part a part.                                                      *)
Opens(p, d, s) == (SpoolOpen(p) \/ Complete(p)) /\ req'[p].spool = s /\ Home(req'[p]) = d
Gain(d, e) ==
  \/ e = UploadJson /\ \E p \in Requests : CreateMeta(p) /\ d = req[p].up
  \/ e \in SpoolNames /\ \E p \in Requests : Opens(p, d, e)
  \/ e \in Parts /\ \E p \in Requests : CommitReplace(p) /\ d = req[p].up /\ e = req[p].part

LEMMA EntryGain ==
  ASSUME TypeInv, [Next]_vars, NEW d \in Dirs, NEW e \in entry'[d], e \notin entry[d]
  PROVE  Gain(d, e)
<1>0. /\ req \in [Procs -> Locals] /\ entry \in [Dirs -> SUBSET Entries] /\ Requests \subseteq Procs
      /\ \A p \in Procs : LocalsOK(req[p])
      /\ Uploads \subseteq Dirs /\ Tmp \in Dirs
  BY DEF TypeInv, ReqOK, DiskOK, Procs, Dirs
<1>1. entry' # entry
  OBVIOUS
<1>2. ASSUME NEW p \in Requests, CreateMeta(p) PROVE Gain(d, e)
  BY <1>0, <1>2 DEF CreateMeta, Store, Gain, disk
<1>3. ASSUME NEW p \in Requests, SpoolOpen(p) PROVE Gain(d, e)
  <2>1. req[p].op = "part" /\ req[p].up \in Dirs
    BY <1>0, <1>3 DEF SpoolOpen, LocalsOK
  <2>2. PICK s \in SpoolNames : Store(req[p].up, s) /\ req' = [req EXCEPT ![p].pc = "body", ![p].spool = s]
    BY <1>1, <1>3 DEF SpoolOpen, disk
  <2>3. e = s /\ d = req[p].up
    BY <1>0, <2>1, <2>2 DEF Store
  <2>4. req'[p].spool = s /\ req'[p].op = "part" /\ req'[p].up = req[p].up
    BY <1>0, <2>1, <2>2 DEF Locals
  <2> QED BY <1>3, <2>3, <2>4 DEF Gain, Opens, Home
<1>4. ASSUME NEW p \in Requests, Complete(p) PROVE Gain(d, e)
  <2>1. PICK u \in Uploads, s \in SpoolNames :
          Store(Tmp, s) /\ req' = [req EXCEPT ![p] = [Idle EXCEPT !.op = "complete", !.up = u, !.pc = "body", !.spool = s]]
    BY <1>4 DEF Complete
  <2>2. e = s /\ d = Tmp
    BY <1>0, <2>1 DEF Store
  <2>3. req'[p].spool = s /\ req'[p].op = "complete"
    BY <1>0, <2>1 DEF Idle
  <2> QED BY <1>4, <2>2, <2>3 DEF Gain, Opens, Home
<1>5. ASSUME NEW p \in Requests, CommitReplace(p) PROVE Gain(d, e)
  <2>1. req[p].op = "part" /\ req[p].part \in Parts
    BY <1>0, <1>5 DEF CommitReplace, LocalsOK
  <2> QED BY <1>0, <1>5, <2>1 DEF CommitReplace, Gain
<1>6. ASSUME NEW D, NEW E, Unlink(D, E) PROVE FALSE
  BY <1>0, <1>6 DEF Unlink
<1>7. ASSUME NEW p \in Procs, SpoolFail(p) \/ CommitFailed(p) \/ BodyRead(p) \/ CommitUnlink(p) \/ RmUnlink(p) PROVE FALSE
  BY <1>6, <1>7 DEF SpoolFail, CommitFailed, BodyRead, CommitUnlink, RmUnlink
<1>8. CASE SweepStart
  BY <1>6, <1>8 DEF SweepStart
<1>9. ASSUME NEW p \in Procs,
             \/ CreateMkdir(p) \/ SpoolMkdir(p) \/ PartSpooled(p) \/ RmDir(p)
             \/ UploadPart(p) \/ BodySpins(p) \/ Abort(p) \/ CommitGlob(p) \/ Scan(p) \/ PartSum(p) \/ Assemble(p) \/ PutRead(p)
             \/ PutRewind(p) \/ PutFailed(p) \/ PutStored(p) \/ RmList(p)
      PROVE  FALSE
  BY <1>1, <1>9 DEF CreateMkdir, SpoolMkdir, Mkdir, PartSpooled, RmDir, UploadPart, BodySpins, Abort, CommitGlob, Scan, PartSum,
     Assemble, PutRead, PutRewind, PutFailed, PutStored, RmList, disk
<1>10. CASE SweepCheck \/ SweepDone \/ Tick \/ Crash \/ UNCHANGED vars
  BY <1>1, <1>10 DEF SweepCheck, SweepDone, Tick, Crash, vars, disk
<1> QED
  BY <1>0, <1>2, <1>3, <1>4, <1>5, <1>7, <1>8, <1>9, <1>10 DEF Next, Arrive, Advance, Sweep, Remove, Spin, Procs

(* Who removes an entry: an rmtree or a commit_part what it has listed, a   *)
(* request its own spool file, the sweep old files of tmp/.                 *)
Lists(p, d, e) == (RmUnlink(p) \/ CommitUnlink(p)) /\ d = req[p].up /\ e \in req[p].todo
Drops(p, d, s) == /\ SpoolFail(p) \/ CommitFailed(p) \/ BodyRead(p) \/ CommitReplace(p)
                  /\ d = Home(req[p]) /\ s = req[p].spool
Loss(d, e) ==
  \/ \E p \in Procs : Lists(p, d, e)
  \/ e \in SpoolNames /\ \E p \in Requests : Drops(p, d, e)
  \/ d = Tmp /\ SweepStart

LEMMA EntryLoss ==
  ASSUME TypeInv, [Next]_vars, NEW d \in Dirs, NEW e \in entry[d], e \notin entry'[d]
  PROVE  Loss(d, e)
<1>0. /\ req \in [Procs -> Locals] /\ entry \in [Dirs -> SUBSET Entries] /\ Requests \subseteq Procs
      /\ \A p \in Procs : LocalsOK(req[p])
      /\ Uploads \subseteq Dirs /\ Tmp \in Dirs /\ Sweeper \in Procs
  BY DEF TypeInv, ReqOK, DiskOK, Procs, Dirs
<1>1. entry' # entry
  OBVIOUS
<1>2. ASSUME NEW D \in Dirs, NEW E, Unlink(D, E) PROVE d = D /\ e \in E
  BY <1>0, <1>2 DEF Unlink
<1>3. ASSUME NEW D \in Dirs, NEW x, Store(D, x) PROVE FALSE
  BY <1>0, <1>3 DEF Store
<1>4. ASSUME NEW p \in Requests, SpoolFail(p) PROVE Loss(d, e)
  <2>1. Home(req[p]) \in Dirs /\ req[p].spool \in SpoolNames
    BY <1>0, <1>4 DEF SpoolFail, Home, LocalsOK
  <2>2. d = Home(req[p]) /\ e = req[p].spool
    BY <1>2, <1>4, <2>1 DEF SpoolFail
  <2> QED BY <1>4, <2>1, <2>2 DEF Loss, Drops
<1>5. ASSUME NEW p \in Requests, CommitFailed(p) PROVE Loss(d, e)
  <2>1. Home(req[p]) = req[p].up /\ req[p].up \in Dirs /\ req[p].spool \in SpoolNames
    BY <1>0, <1>5 DEF CommitFailed, Home, LocalsOK
  <2>2. d = req[p].up /\ e = req[p].spool
    BY <1>2, <1>5, <2>1 DEF CommitFailed
  <2> QED BY <1>5, <2>1, <2>2 DEF Loss, Drops
<1>6. ASSUME NEW p \in Requests, BodyRead(p) PROVE Loss(d, e)
  <2>1. Home(req[p]) = Tmp /\ req[p].spool \in SpoolNames
    BY <1>0, <1>6 DEF BodyRead, Home, LocalsOK
  <2>2. d = Tmp /\ e = req[p].spool
    BY <1>0, <1>2, <1>6 DEF BodyRead
  <2> QED BY <1>6, <2>1, <2>2 DEF Loss, Drops
<1>7. ASSUME NEW p \in Requests, CommitReplace(p) PROVE Loss(d, e)
  <2>1. Home(req[p]) = req[p].up /\ req[p].up \in Dirs /\ req[p].spool \in SpoolNames
    BY <1>0, <1>7 DEF CommitReplace, Home, LocalsOK
  <2>2. d = req[p].up /\ e = req[p].spool
    BY <1>0, <1>7, <2>1 DEF CommitReplace
  <2> QED BY <1>7, <2>1, <2>2 DEF Loss, Drops
<1>8. ASSUME NEW p \in Procs, CommitUnlink(p) \/ RmUnlink(p) PROVE Loss(d, e)
  <2>1. req[p].up \in Dirs
    BY <1>0, <1>8 DEF CommitUnlink, RmUnlink, LocalsOK
  <2>2. PICK x \in req[p].todo : Unlink(req[p].up, {x})
    BY <1>8 DEF CommitUnlink, RmUnlink
  <2> QED BY <1>2, <1>8, <2>1, <2>2 DEF Loss, Lists
<1>9. CASE SweepStart
  BY <1>0, <1>2, <1>9 DEF SweepStart, Loss
<1>10. ASSUME NEW p \in Requests, CreateMeta(p) \/ SpoolOpen(p) \/ Complete(p) PROVE FALSE
  <2>1. CreateMeta(p) \/ SpoolOpen(p) => req[p].up \in Dirs
    BY <1>0 DEF CreateMeta, SpoolOpen, LocalsOK
  <2> QED BY <1>0, <1>1, <1>3, <1>10, <2>1 DEF CreateMeta, SpoolOpen, Complete, disk
<1>11. ASSUME NEW p \in Procs,
              \/ CreateMkdir(p) \/ SpoolMkdir(p) \/ PartSpooled(p) \/ RmDir(p)
              \/ UploadPart(p) \/ BodySpins(p) \/ Abort(p) \/ CommitGlob(p) \/ Scan(p) \/ PartSum(p) \/ Assemble(p) \/ PutRead(p)
              \/ PutRewind(p) \/ PutFailed(p) \/ PutStored(p) \/ RmList(p)
       PROVE  FALSE
  BY <1>1, <1>11 DEF CreateMkdir, SpoolMkdir, Mkdir, PartSpooled, RmDir, UploadPart, BodySpins, Abort, CommitGlob, Scan, PartSum,
     Assemble, PutRead, PutRewind, PutFailed, PutStored, RmList, disk
<1>12. CASE SweepCheck \/ SweepDone \/ Tick \/ Crash \/ UNCHANGED vars
  BY <1>1, <1>12 DEF SweepCheck, SweepDone, Tick, Crash, vars, disk
<1> QED
  BY <1>0, <1>4, <1>5, <1>6, <1>7, <1>8, <1>9, <1>10, <1>11, <1>12 DEF Next, Arrive, Advance, Sweep, Remove, Spin

-----------------------------------------------------------------------------
(* Of two files of one number, a commit still has to list or to unlink one: *)
(* the last one to rename lists after all the others have.                  *)
Cleans(p, u, e, f) ==
  /\ Committing(p, u, e.number)
  /\ req[p].pc = "glob" \/ e \in req[p].todo \/ f \in req[p].todo

CleanedUp ==
  crashes = 0 => \A u \in Uploads : \A e, f \in entry[u] \cap Parts :
    (e # f /\ e.number = f.number) => \E p \in Requests : Cleans(p, u, e, f)

(* Steps of requests that are not committing, and of the sweep, keep it.    *)
LEMMA CleanedUpKept ==
  ASSUME TypeInv, CleanedUp, crashes' = crashes,
         \A u \in Uploads : entry'[u] \cap Parts \subseteq entry[u],
         \A q \in Requests : req[q].pc \in {"glob", "unlink"} => req'[q] = req[q]
  PROVE  CleanedUp'
  BY DEF CleanedUp, Cleans, Committing

LEMMA CleanedUpStep == TypeInv /\ CleanedUp /\ [Next]_vars => CleanedUp'
<1> SUFFICES ASSUME TypeInv, CleanedUp, [Next]_vars PROVE CleanedUp'
  OBVIOUS
<1>0. /\ req \in [Procs -> Locals] /\ entry \in [Dirs -> SUBSET Entries] /\ Requests \subseteq Procs
      /\ \A p \in Procs : LocalsOK(req[p])
      /\ Uploads \subseteq Dirs /\ Sweeper \in Procs \ Requests /\ crashes \in Nat
  BY NamesDistinct, BoundsAreNumbers DEF TypeInv, ReqOK, DiskOK, RestOK, Procs, Dirs
<1>1. ASSUME NEW p \in Requests, CommitReplace(p) PROVE CleanedUp'
  <2>1. \A q \in Procs \ {p} : req'[q] = req[q]
    BY <1>0, <1>1, OthersKeep DEF Advance
  <2>2. /\ req[p].up \in Uploads /\ req'[p].pc = "glob" /\ req'[p].up = req[p].up /\ req'[p].part = req[p].part
        /\ req[p].pc = "commit" /\ crashes' = crashes
    BY <1>0, <1>1 DEF CommitReplace, Locals, LocalsOK, env
  <2>3. ASSUME NEW u \in Uploads, NEW e \in entry'[u] \cap Parts, e \notin entry[u]
        PROVE  u = req[p].up /\ e = req[p].part
    <3>1. entry' = [entry EXCEPT ![req[p].up] = (@ \ {req[p].spool}) \cup {req[p].part}]
      BY <1>1 DEF CommitReplace
    <3> QED BY <1>0, <2>2, <2>3, <3>1
  <2> SUFFICES ASSUME crashes = 0, NEW u \in Uploads, NEW e \in entry'[u] \cap Parts, NEW f \in entry'[u] \cap Parts,
                      e # f, e.number = f.number
               PROVE  \E q \in Requests : Cleans(q, u, e, f)'
    BY <2>2 DEF CleanedUp
  <2>4. CASE e \in entry[u] /\ f \in entry[u]
    <3>1. PICK q \in Requests : Cleans(q, u, e, f)
      BY <2>4 DEF CleanedUp
    <3>2. q # p
      BY <2>2, <3>1 DEF Cleans, Committing
    <3> QED BY <1>0, <2>1, <3>1, <3>2 DEF Cleans, Committing
  <2>5. CASE e \notin entry[u] \/ f \notin entry[u]
    <3>1. u = req[p].up /\ e.number = req[p].part.number
      BY <2>3, <2>5
    <3> QED BY <2>2, <3>1 DEF Cleans, Committing
  <2> QED BY <2>4, <2>5
<1>2. ASSUME NEW p \in Requests, CommitGlob(p) PROVE CleanedUp'
  <2>1. \A q \in Procs \ {p} : req'[q] = req[q]
    BY <1>0, <1>2, OthersKeep DEF Advance
  <2> DEFINE stale == {e \in entry[req[p].up] \cap Parts : e.number = req[p].part.number} \ {req[p].part}
  <2>2. /\ req'[p].pc = Unlinking(stale) /\ req'[p].up = req[p].up /\ req'[p].part = req[p].part
        /\ req'[p].todo = stale /\ crashes' = crashes /\ entry' = entry
    BY <1>0, <1>2 DEF CommitGlob, Locals, env, disk
  <2> SUFFICES ASSUME crashes = 0, NEW u \in Uploads, NEW e \in entry[u] \cap Parts, NEW f \in entry[u] \cap Parts,
                      e # f, e.number = f.number
               PROVE  \E q \in Requests : Cleans(q, u, e, f)'
    BY <2>2 DEF CleanedUp
  <2>3. PICK q \in Requests : Cleans(q, u, e, f)
    BY DEF CleanedUp
  <2>4. CASE q = p
    <3>1. e \in stale \/ f \in stale
      BY <2>3, <2>4 DEF Cleans, Committing
    <3> QED BY <2>2, <2>3, <2>4, <3>1 DEF Cleans, Committing, Unlinking
  <2>5. CASE q # p
    BY <1>0, <2>1, <2>3, <2>5 DEF Cleans, Committing
  <2> QED BY <2>4, <2>5
<1>3. ASSUME NEW p \in Requests, CommitUnlink(p) PROVE CleanedUp'
  <2>1. \A q \in Procs \ {p} : req'[q] = req[q]
    BY <1>0, <1>3, OthersKeep DEF Advance
  <2>2. PICK x \in req[p].todo :
          /\ Unlink(req[p].up, {x})
          /\ req' = [req EXCEPT ![p].pc = Unlinking(req[p].todo \ {x}), ![p].todo = @ \ {x}]
    BY <1>3 DEF CommitUnlink
  <2>3. /\ req'[p].pc = Unlinking(req[p].todo \ {x}) /\ req'[p].up = req[p].up /\ req'[p].part = req[p].part
        /\ req'[p].todo = req[p].todo \ {x} /\ req[p].up \in Uploads /\ crashes' = crashes
    BY <1>0, <1>3, <2>2 DEF CommitUnlink, Locals, LocalsOK, env
  <2>4. \A u \in Uploads : entry'[u] = IF u = req[p].up THEN entry[u] \ {x} ELSE entry[u]
    BY <1>0, <2>2, <2>3 DEF Unlink
  <2> SUFFICES ASSUME crashes = 0, NEW u \in Uploads, NEW e \in entry'[u] \cap Parts, NEW f \in entry'[u] \cap Parts,
                      e # f, e.number = f.number
               PROVE  \E q \in Requests : Cleans(q, u, e, f)'
    BY <2>3 DEF CleanedUp
  <2>5. e \in entry[u] /\ f \in entry[u]
    BY <2>4
  <2>6. PICK q \in Requests : Cleans(q, u, e, f)
    BY <2>5 DEF CleanedUp
  <2>7. CASE q = p
    <3>1. e \in req'[p].todo \/ f \in req'[p].todo
      BY <1>3, <2>3, <2>4, <2>6, <2>7 DEF Cleans, Committing, CommitUnlink
    <3> QED BY <2>3, <2>6, <2>7, <3>1 DEF Cleans, Committing, Unlinking
  <2>8. CASE q # p
    BY <1>0, <2>1, <2>6, <2>8 DEF Cleans, Committing
  <2> QED BY <2>7, <2>8
<1>4. CASE Crash
  BY <1>0, <1>4 DEF Crash, CleanedUp
<1>5. CASE ~Crash /\ \A p \in Requests : ~(CommitReplace(p) \/ CommitGlob(p) \/ CommitUnlink(p))
  <2>1. \A u \in Uploads : entry'[u] \cap Parts \subseteq entry[u]
    BY <1>0, <1>5, EntryGain, NamesDistinct DEF Gain
  <2>2. crashes' = crashes
    BY <1>5 DEF Next, Arrive, Advance, Sweep, Remove, Spin, CreateMkdir, UploadPart, Complete, Abort, CreateMeta, SpoolMkdir,
       SpoolOpen, SpoolFail, BodySpins, PartSpooled, CommitFailed, Scan, PartSum, BodyRead, Assemble, PutRead, PutRewind, PutFailed,
       PutStored, RmList, RmUnlink, RmDir, SweepStart, SweepCheck, SweepDone, Tick, vars, env
  <2>3. ASSUME NEW q \in Requests, req[q].pc \in {"glob", "unlink"} PROVE req'[q] = req[q]
    <3>1. ~Arrive(q) /\ ~Advance(q)
      BY <1>5, <2>3 DEF Arrive, CreateMkdir, UploadPart, Complete, Abort, Advance, CreateMeta, SpoolMkdir, SpoolOpen,
         SpoolFail, BodySpins, PartSpooled, CommitFailed, Scan, PartSum, BodyRead, Assemble, PutRead, PutRewind, PutFailed,
         PutStored, Remove, RmList, RmUnlink, RmDir
    <3>2. ASSUME NEW p \in Requests \ {q}, Arrive(p) \/ Advance(p) PROVE req'[q] = req[q]
      BY <1>0, <3>2, OthersKeep
    <3>3. CASE Sweep
      BY <1>0, <3>3, OthersKeep
    <3>4. CASE Tick \/ UNCHANGED vars
      BY <3>4 DEF Tick, vars
    <3> QED BY <1>5, <3>1, <3>2, <3>3, <3>4 DEF Next, Spin
  <2> QED BY <2>1, <2>2, <2>3, CleanedUpKept
<1> QED BY <1>1, <1>2, <1>3, <1>4, <1>5

(* While no container restart has interrupted a commit, two files of one    *)
(* number exist only while a commit of that number is unlinking.            *)
THEOREM OneFilePerNumberHolds == Spec => []OneFilePerNumber
<1>1. Init => TypeInv /\ CleanedUp
  BY InitType DEF Init, CleanedUp, Dirs
<1>2. TypeInv /\ CleanedUp /\ [Next]_vars => (TypeInv /\ CleanedUp)'
  BY NextType, CleanedUpStep
<1>3. CleanedUp => OneFilePerNumber
  BY DEF CleanedUp, OneFilePerNumber, Cleans
<1> QED BY <1>1, <1>2, <1>3, PTL DEF Spec

-----------------------------------------------------------------------------
(* A request that moved took a step of its own, or the process died.        *)
LEMMA WhoMoves ==
  ASSUME TypeInv, [Next]_vars, NEW q \in Requests, req'[q] # req[q]
  PROVE  Arrive(q) \/ Advance(q) \/ (Crash /\ req'[q] = Idle)
<1>0. Requests \subseteq Procs /\ Sweeper \in Procs \ Requests
  BY NamesDistinct DEF Procs
<1>1. ASSUME NEW p \in Requests \ {q}, Arrive(p) \/ Advance(p) PROVE FALSE
  BY <1>0, <1>1, OthersKeep
<1>2. CASE Sweep
  BY <1>0, <1>2, OthersKeep
<1>3. CASE Crash
  BY <1>0, <1>3 DEF Crash
<1>4. CASE Tick \/ UNCHANGED vars
  BY <1>4 DEF Tick, vars
<1> QED BY <1>1, <1>2, <1>3, <1>4 DEF Next, Spin

(* A request in progress keeps its operation and its upload; it does not    *)
(* come back to create.                                                     *)
LEMMA AdvanceKeeps ==
  ASSUME TypeInv, NEW q \in Requests, Advance(q)
  PROVE  req'[q] = Idle \/ (req'[q].op = req[q].op /\ req'[q].up = req[q].up /\ req'[q].pc # "meta")
<1>0. req \in [Procs -> Locals] /\ q \in Procs /\ q # Sweeper
  BY NamesDistinct DEF TypeInv, ReqOK, Procs
<1>1. CASE CreateMeta(q) \/ SpoolMkdir(q) \/ SpoolOpen(q) \/ SpoolFail(q) \/ BodySpins(q) \/ PartSpooled(q)
  BY <1>0, <1>1 DEF CreateMeta, SpoolMkdir, SpoolOpen, SpoolFail, BodySpins, PartSpooled, Goto, Finish, Locals
<1>2. CASE CommitFailed(q) \/ CommitReplace(q) \/ CommitGlob(q) \/ CommitUnlink(q)
  <2>1. CASE CommitFailed(q) \/ CommitReplace(q)
    BY <1>0, <2>1 DEF CommitFailed, CommitReplace, Finish, Locals
  <2>2. ASSUME NEW S, NEW T, req' = [req EXCEPT ![q].pc = Unlinking(S), ![q].todo = T]
        PROVE  req'[q].op = req[q].op /\ req'[q].up = req[q].up /\ req'[q].pc # "meta"
    BY <1>0, <2>2, UnlinkingLabel DEF Locals
  <2> QED BY <1>2, <2>1, <2>2 DEF CommitGlob, CommitUnlink
<1>3. CASE Scan(q) \/ PartSum(q) \/ BodyRead(q) \/ Assemble(q)
  <2>1. CASE PartSum(q) \/ BodyRead(q)
    BY <1>0, <2>1 DEF PartSum, BodyRead, Finish, Locals
  <2>2. CASE Scan(q)
    BY <1>0, <2>2 DEF Scan, Finish, Locals
  <2>3. CASE Assemble(q)
    BY <1>0, <2>3 DEF Assemble, Finish, Locals
  <2> QED BY <1>3, <2>1, <2>2, <2>3
<1>4. CASE PutRead(q) \/ PutRewind(q) \/ PutFailed(q) \/ PutStored(q)
  BY <1>0, <1>4 DEF PutRead, PutRewind, PutFailed, PutStored, Goto, Finish, Locals
<1>5. CASE Remove(q)
  BY <1>0, <1>5 DEF Remove, RmList, RmUnlink, RmDir, Finish, Locals
<1> QED BY <1>1, <1>2, <1>3, <1>4, <1>5 DEF Advance

(* Who changes a story: life only moves forward, by create; only the last   *)
(* step of an rmtree ends an upload.                                        *)
LEMMA StoryKept ==
  ASSUME [Next]_vars, story' # story
  PROVE  \/ \E p \in Requests : \/ CreateMkdir(p) \/ CreateMeta(p) \/ CommitReplace(p)
                                \/ PartSum(p) \/ PutStored(p) \/ Abort(p) \/ RmDir(p)
         \/ SweepCheck
<1>1. ASSUME NEW p \in Procs,
             \/ UploadPart(p) \/ Complete(p) \/ SpoolMkdir(p) \/ SpoolOpen(p) \/ SpoolFail(p) \/ BodySpins(p) \/ PartSpooled(p)
             \/ CommitFailed(p) \/ CommitGlob(p) \/ CommitUnlink(p) \/ Scan(p) \/ BodyRead(p) \/ Assemble(p)
             \/ PutRead(p) \/ PutRewind(p) \/ PutFailed(p) \/ RmList(p) \/ RmUnlink(p) \/ (p = Sweeper /\ RmDir(p))
      PROVE  FALSE
  BY <1>1 DEF UploadPart, Complete, SpoolMkdir, SpoolOpen, SpoolFail, BodySpins, PartSpooled, CommitFailed, CommitGlob,
     CommitUnlink, Scan, BodyRead, Assemble, PutRead, PutRewind, PutFailed, RmList, RmUnlink, RmDir
<1>2. CASE SweepStart \/ SweepDone \/ Tick \/ Crash \/ UNCHANGED vars
  BY <1>2 DEF SweepStart, SweepDone, Tick, Crash, vars
<1> QED BY <1>1, <1>2 DEF Next, Arrive, Advance, Sweep, Remove, Spin, Procs

LEMMA StoryTyped == TypeInv => /\ story \in [Uploads -> Stories] /\ req \in [Procs -> Locals]
                               /\ \A p \in Procs : LocalsOK(req[p])
                               /\ Requests \subseteq Procs /\ Sweeper \in Procs \ Requests /\ Uploads \subseteq Dirs
                               /\ entry \in [Dirs -> SUBSET Entries]
  BY NamesDistinct DEF TypeInv, ReqOK, RestOK, DiskOK, Procs, Dirs

(* Where an accepted request can be, and where a request in progress goes.  *)
LEMMA Arrives ==
  ASSUME TypeInv, NEW q \in Requests, Arrive(q)
  PROVE  \/ /\ CreateMkdir(q)
            /\ \E u \in Uploads : /\ story[u].life = "unused" /\ story'[u].life = "issued"
                                  /\ req'[q].up = u /\ req'[q].pc = "meta" /\ req'[q].op = "create"
         \/ /\ UploadPart(q) \/ Complete(q) \/ Abort(q)
            /\ req'[q].up \in Uploads /\ Get(req'[q].up)
            /\ \/ req'[q].pc = "mkdir" /\ req'[q].op = "part"
               \/ req'[q].pc = "body" /\ req'[q].op = "complete"
               \/ req'[q].pc = "rmlist" /\ req'[q].op = "abort"
<1>0. req \in [Procs -> Locals] /\ q \in Procs /\ story \in [Uploads -> Stories]
  BY StoryTyped
<1>1. CASE CreateMkdir(q)
  <2>1. PICK u \in Uploads : /\ story[u].life = "unused" /\ story' = [story EXCEPT ![u].life = "issued"]
                             /\ Begin(q, "create", u, "meta")
    BY <1>1 DEF CreateMkdir
  <2>2. story'[u].life = "issued"
    BY <1>0, <2>1 DEF Stories
  <2> QED BY <1>0, <1>1, <2>1, <2>2 DEF Begin, Idle
<1>2. CASE UploadPart(q)
  BY <1>0, <1>2 DEF UploadPart, Begin, Idle
<1>3. CASE Complete(q)
  BY <1>0, <1>3 DEF Complete, Idle
<1>4. CASE Abort(q)
  <2>1. PICK u \in Uploads : Get(u) /\ Begin(q, "abort", u, "rmlist")
    BY <1>4 DEF Abort
  <2>2. req'[q].up = u /\ req'[q].pc = "rmlist" /\ req'[q].op = "abort"
    BY <1>0, <2>1 DEF Begin, Idle
  <2> QED BY <1>4, <2>1, <2>2
<1> QED BY <1>1, <1>2, <1>3, <1>4 DEF Arrive

LEMMA Moves ==
  ASSUME TypeInv, NEW q \in Requests, Advance(q), req'[q] # Idle
  PROVE  \/ SpoolMkdir(q) /\ req'[q].pc = "open"
         \/ SpoolOpen(q) /\ req'[q].pc = "body"
         \/ BodySpins(q) /\ req'[q].pc = "spin"
         \/ PartSpooled(q) /\ req'[q].pc = "commit"
         \/ CommitReplace(q) /\ req'[q].pc = "glob"
         \/ (CommitGlob(q) \/ CommitUnlink(q)) /\ req'[q].pc \in {"scan", "unlink"}
         \/ Scan(q) /\ req'[q].pc = IF req[q].op = "part" THEN "sum" ELSE "assemble"
         \/ BodyRead(q) /\ req'[q].pc = "scan"
         \/ (Assemble(q) \/ PutRead(q) \/ PutRewind(q)) /\ req'[q].pc = "put"
         \/ PutStored(q) /\ req'[q].pc = "rmlist"
         \/ (RmList(q) \/ RmUnlink(q)) /\ req'[q].pc = "rm"
<1>0. req \in [Procs -> Locals] /\ q \in Procs /\ q # Sweeper
  BY StoryTyped
<1>1. ASSUME CreateMeta(q) \/ SpoolFail(q) \/ CommitFailed(q) \/ PartSum(q) \/ PutFailed(q) \/ RmDir(q) PROVE FALSE
  BY <1>0, <1>1 DEF CreateMeta, SpoolFail, CommitFailed, PartSum, PutFailed, RmDir, Finish
<1>2. CASE SpoolMkdir(q)
  BY <1>0, <1>2 DEF SpoolMkdir, Goto, Locals
<1>3. CASE SpoolOpen(q)
  BY <1>0, <1>3 DEF SpoolOpen, Finish, Locals
<1>4. CASE PartSpooled(q) \/ BodySpins(q)
  BY <1>0, <1>4 DEF PartSpooled, BodySpins, Goto, Locals
<1>5. CASE CommitReplace(q)
  BY <1>0, <1>5 DEF CommitReplace, Locals
<1>6. ASSUME NEW S, NEW T, req' = [req EXCEPT ![q].pc = Unlinking(S), ![q].todo = T]
      PROVE  req'[q].pc \in {"scan", "unlink"}
  BY <1>0, <1>6, UnlinkingLabel DEF Locals
<1>7. CASE CommitGlob(q) \/ CommitUnlink(q)
  <2>1. \E S, T : req' = [req EXCEPT ![q].pc = Unlinking(S), ![q].todo = T]
    BY <1>7 DEF CommitGlob, CommitUnlink
  <2> QED BY <1>6, <1>7, <2>1
<1>8. CASE Scan(q)
  <2>1. req' = [req EXCEPT ![q].pc = IF req[q].op = "part" THEN "sum" ELSE "assemble",
                           ![q].todo = entry[req[q].up] \cap Parts]
    BY <1>0, <1>8 DEF Scan, Finish
  <2> QED BY <1>0, <1>8, <2>1 DEF Locals
<1>9. CASE BodyRead(q)
  <2>1. req' = [req EXCEPT ![q].pc = "scan", ![q].spool = None]
    BY <1>0, <1>9 DEF BodyRead, Finish
  <2> QED BY <1>0, <1>9, <2>1 DEF Locals
<1>10. CASE Assemble(q)
  <2>1. PICK list : req' = [req EXCEPT ![q].pc = "put", ![q].want = list, ![q].passes = 1, ![q].todo = {}]
    BY <1>0, <1>10 DEF Assemble, Finish
  <2> QED BY <1>0, <1>10, <2>1 DEF Locals
<1>11. CASE PutRead(q)
  <2>1. req' = [req EXCEPT ![q].pos = @ + 1] /\ req[q].pc = "put"
    BY <1>0, <1>11 DEF PutRead, Finish
  <2> QED BY <1>0, <1>11, <2>1 DEF Locals
<1>12. CASE PutRewind(q)
  <2>1. req' = [req EXCEPT ![q].pos = 0, ![q].passes = @ + 1] /\ req[q].pc = "put"
    BY <1>12 DEF PutRewind
  <2> QED BY <1>0, <1>12, <2>1 DEF Locals
<1>13. CASE PutStored(q)
  BY <1>0, <1>13 DEF PutStored, Goto, Finish, Locals
<1>14. CASE RmList(q) \/ RmUnlink(q)
  BY <1>0, <1>14 DEF RmList, RmUnlink, Locals
<1> QED BY <1>1, <1>2, <1>3, <1>4, <1>5, <1>7, <1>8, <1>9, <1>10, <1>11, <1>12, <1>13, <1>14 DEF Advance, Remove

LEMMA LifeChange ==
  ASSUME TypeInv, [Next]_vars, NEW u \in Uploads, story'[u].life # story[u].life
  PROVE  \/ /\ story[u].life = "unused" /\ story'[u].life = "issued"
            /\ \E p \in Requests : CreateMkdir(p) /\ req'[p].up = u
         \/ /\ story'[u].life = "known"
            /\ \E p \in Requests : CreateMeta(p) /\ req[p].up = u
<1>0. story \in [Uploads -> Stories] /\ req \in [Procs -> Locals] /\ Requests \subseteq Procs
  BY StoryTyped
<1>1. ASSUME NEW p \in Requests, CreateMkdir(p)
      PROVE  story[u].life = "unused" /\ story'[u].life = "issued" /\ req'[p].up = u
  <2> PICK v \in Uploads : /\ story[v].life = "unused" /\ story' = [story EXCEPT ![v].life = "issued"]
                           /\ Begin(p, "create", v, "meta")
    BY <1>1 DEF CreateMkdir
  <2>1. v = u
    BY <1>0
  <2> QED BY <1>0, <2>1 DEF Stories, Begin, Idle
<1>2. ASSUME NEW p \in Requests, CreateMeta(p) PROVE story'[u].life = "known" /\ req[p].up = u
  <2>1. story' = [story EXCEPT ![req[p].up].life = "known"]
    BY <1>2 DEF CreateMeta
  <2> QED BY <1>0, <2>1 DEF Stories
<1>3. ASSUME NEW p \in Requests, CommitReplace(p) \/ PartSum(p) PROVE FALSE
  BY <1>0, <1>3 DEF CommitReplace, PartSum, Stories
<1>4. ASSUME NEW p \in Requests, PutStored(p) \/ Abort(p) \/ RmDir(p) PROVE FALSE
  BY <1>0, <1>4 DEF PutStored, Abort, RmDir, Stories
<1>5. CASE SweepCheck
  BY <1>0, <1>5 DEF SweepCheck, Stories
<1> QED BY <1>1, <1>2, <1>3, <1>4, <1>5, StoryKept

LEMMA EndedChange ==
  ASSUME TypeInv, [Next]_vars, NEW u \in Uploads, story'[u].ended # story[u].ended
  PROVE  \E p \in Requests : RmDir(p) /\ req[p].up = u
<1>0. story \in [Uploads -> Stories]
  BY StoryTyped
<1>1. ASSUME NEW p \in Requests, CreateMkdir(p) \/ CreateMeta(p) \/ CommitReplace(p) \/ PartSum(p) PROVE FALSE
  BY <1>0, <1>1 DEF CreateMkdir, CreateMeta, CommitReplace, PartSum, Stories
<1>2. ASSUME NEW p \in Requests, PutStored(p) \/ Abort(p) PROVE FALSE
  BY <1>0, <1>2 DEF PutStored, Abort, Stories
<1>3. CASE SweepCheck
  BY <1>0, <1>3 DEF SweepCheck, Stories
<1>4. ASSUME NEW p \in Requests, RmDir(p) PROVE req[p].up = u
  <2>1. story' = [story EXCEPT ![req[p].up].ended = TRUE]
    BY <1>4 DEF RmDir
  <2> QED BY <1>0, <2>1 DEF Stories
<1> QED BY <1>1, <1>2, <1>3, <1>4, StoryKept

-----------------------------------------------------------------------------
(* An upload's directory is made by one create, which has not written its   *)
(* upload.json yet; whoever works on an upload has seen that file; an        *)
(* rmtree that can still see it will unlink it.                             *)
MetaInv ==
  /\ \A u \in Uploads : Get(u) => story[u].life = "known"
  /\ \A u \in Uploads : story[u].ended => story[u].life = "known" /\ ~Get(u)
  /\ \A p \in Requests : req[p].pc = "meta" => story[req[p].up].life = "issued"
  /\ \A p, q \in Requests : req[p].pc = "meta" /\ req[q].pc = "meta" /\ req[p].up = req[q].up => p = q
  /\ \A p \in Requests : req[p].op \in {"part", "complete", "abort"} =>
       req[p].up \in Uploads /\ story[req[p].up].life = "known"
  /\ \A p \in Requests : req[p].pc \in {"assemble", "put", "rmlist", "rm"} => req[p].op \in {"complete", "abort"}
  /\ \A p \in Requests : req[p].pc = "rm" /\ Get(req[p].up) => UploadJson \in req[p].todo

LEMMA MetaStep == TypeInv /\ MetaInv /\ [Next]_vars => MetaInv'
<1> SUFFICES ASSUME TypeInv, MetaInv, [Next]_vars PROVE MetaInv'
  OBVIOUS
<1>0. /\ story \in [Uploads -> Stories] /\ req \in [Procs -> Locals] /\ Requests \subseteq Procs
      /\ \A p \in Procs : LocalsOK(req[p])
      /\ Uploads \subseteq Dirs /\ Sweeper \notin Requests
      /\ entry \in [Dirs -> SUBSET Entries]
  BY StoryTyped
<1>1. ASSUME NEW u \in Uploads, story[u].life = "known" PROVE story'[u].life = "known"
  BY <1>0, <1>1, LifeChange
<1>2. ASSUME NEW u \in Uploads, Get(u)', ~Get(u)
      PROVE  \E p \in Requests : CreateMeta(p) /\ u = req[p].up /\ u \in dirs
  <2>1. Gain(u, UploadJson)
    BY <1>0, <1>2, EntryGain DEF Get
  <2>2. PICK p \in Requests : CreateMeta(p) /\ u = req[p].up
    BY <2>1, NamesDistinct DEF Gain
  <2> QED BY <1>2, <2>2 DEF CreateMeta, Get, disk
<1>3. \A u \in Uploads : Get(u)' => story'[u].life = "known"
  <2> SUFFICES ASSUME NEW u \in Uploads, Get(u)' PROVE story'[u].life = "known"
    OBVIOUS
  <2>1. CASE Get(u)
    BY <1>1, <2>1 DEF MetaInv
  <2>2. CASE ~Get(u)
    <3>1. story' = [story EXCEPT ![u].life = "known"]
      BY <1>2, <2>2 DEF CreateMeta
    <3> QED BY <1>0, <3>1 DEF Stories
  <2> QED BY <2>1, <2>2
<1>4. \A p \in Requests : req'[p].op \in {"part", "complete", "abort"} =>
        req'[p].up \in Uploads /\ story'[req'[p].up].life = "known"
  <2> SUFFICES ASSUME NEW p \in Requests, req'[p].op \in {"part", "complete", "abort"}
               PROVE  req'[p].up \in Uploads /\ story'[req'[p].up].life = "known"
    OBVIOUS
  <2>0. req'[p] # Idle
    BY DEF Idle
  <2>1. CASE req'[p] = req[p]
    BY <1>1, <2>1 DEF MetaInv
  <2>2. CASE Arrive(p)
    BY <1>1, <2>2, Arrives DEF MetaInv
  <2>3. CASE Advance(p)
    BY <1>0, <1>1, <2>0, <2>3, AdvanceKeeps DEF MetaInv
  <2> QED BY <2>0, <2>1, <2>2, <2>3, WhoMoves
<1>5. \A p \in Requests : req'[p].pc = "meta" => story'[req'[p].up].life = "issued"
  <2> SUFFICES ASSUME NEW p \in Requests, req'[p].pc = "meta" PROVE story'[req'[p].up].life = "issued"
    OBVIOUS
  <2>0. req'[p] # Idle
    BY DEF Idle
  <2>1. CASE req'[p] = req[p]
    <3>1. req[p].up \in Uploads /\ story[req[p].up].life = "issued"
      BY <1>0, <2>1 DEF MetaInv, LocalsOK
    <3>2. ASSUME NEW q \in Requests, CreateMeta(q), req[q].up = req[p].up PROVE FALSE
      <4>1. q = p
        BY <2>1, <3>2 DEF MetaInv, CreateMeta
      <4> QED BY <1>0, <2>0, <3>2, <4>1 DEF CreateMeta, Finish
    <3> QED BY <2>1, <3>1, <3>2, LifeChange
  <2>2. CASE Arrive(p)
    BY <2>2, Arrives
  <2>3. CASE Advance(p)
    BY <2>0, <2>3, AdvanceKeeps
  <2> QED BY <2>0, <2>1, <2>2, <2>3, WhoMoves
<1>6. ASSUME NEW p \in Requests, NEW q \in Requests, req'[p].pc = "meta", req'[q].pc = "meta",
             req'[p].up = req'[q].up, p # q
      PROVE  FALSE
  <2>0. req'[p] # Idle /\ req'[q] # Idle
    BY <1>6 DEF Idle
  <2>1. ASSUME NEW x \in Requests, NEW y \in Requests, x # y, req'[x].pc = "meta", req'[x] # req[x],
               req'[y].pc = "meta", req'[x].up = req'[y].up
        PROVE  FALSE
    <3>0. req'[x] # Idle /\ x \in Procs
      BY <1>0, <2>1 DEF Idle
    <3>1. Arrive(x)
      BY <2>1, <3>0, WhoMoves, AdvanceKeeps
    <3>2. story[req'[x].up].life = "unused"
      BY <2>1, <3>1, Arrives
    <3>3. req'[y] = req[y]
      BY <1>0, <2>1, <3>0, <3>1, OthersKeep
    <3> QED BY <2>1, <3>2, <3>3 DEF MetaInv
  <2> QED BY <1>6, <2>1 DEF MetaInv
<1>7. \A p \in Requests : req'[p].pc \in {"assemble", "put", "rmlist", "rm"} => req'[p].op \in {"complete", "abort"}
  <2> SUFFICES ASSUME NEW p \in Requests, req'[p].pc \in {"assemble", "put", "rmlist", "rm"}, req'[p] # req[p]
               PROVE  req'[p].op \in {"complete", "abort"}
    BY DEF MetaInv
  <2>0. req'[p] # Idle
    BY DEF Idle
  <2>1. CASE Arrive(p)
    BY <2>1, Arrives
  <2>2. CASE Advance(p)
    <3>1. req'[p].op = req[p].op
      BY <2>0, <2>2, AdvanceKeeps
    <3>2. CASE Scan(p)
      <4>1. req' = [req EXCEPT ![p].pc = IF req[p].op = "part" THEN "sum" ELSE "assemble",
                               ![p].todo = entry[req[p].up] \cap Parts]
        BY <1>0, <2>0, <3>2 DEF Scan, Finish
      <4>2. req[p].op # "part"
        BY <1>0, <4>1 DEF Locals
      <4>3. req[p].op \in {"part", "complete"}
        BY <1>0, <3>2 DEF Scan, LocalsOK
      <4> QED BY <3>1, <4>2, <4>3
    <3>3. CASE Assemble(p) \/ PutRead(p) \/ PutRewind(p) \/ PutStored(p) \/ RmList(p) \/ RmUnlink(p)
      BY <3>1, <3>3 DEF Assemble, PutRead, PutRewind, PutStored, RmList, RmUnlink, MetaInv
    <3> QED BY <2>0, <2>2, <3>2, <3>3, Moves
  <2> QED BY <2>0, <2>1, <2>2, WhoMoves
(* No upload.json is written under a request that works on the upload.      *)
<1>8. ASSUME NEW p \in Requests, req[p].op \in {"part", "complete", "abort"},
             UploadJson \in entry'[req[p].up]
      PROVE  Get(req[p].up)
  <2>1. req[p].up \in Uploads /\ story[req[p].up].life = "known"
    BY <1>8 DEF MetaInv
  <2>2. ASSUME NEW q \in Requests, CreateMeta(q), req[p].up = req[q].up PROVE FALSE
    BY <2>1, <2>2 DEF MetaInv, CreateMeta
  <2> QED BY <1>2, <1>8, <2>1, <2>2 DEF Get
<1>9. \A p \in Requests : req'[p].pc = "rm" /\ UploadJson \in entry'[req'[p].up] => UploadJson \in req'[p].todo
  <2> SUFFICES ASSUME NEW p \in Requests, req'[p].pc = "rm", UploadJson \in entry'[req'[p].up]
               PROVE  UploadJson \in req'[p].todo
    OBVIOUS
  <2>0. req'[p] # Idle
    BY DEF Idle
  <2>1. CASE req'[p] = req[p]
    <3>1. req[p].op \in {"complete", "abort"}
      BY <2>1 DEF MetaInv
    <3> QED BY <1>8, <2>1, <3>1 DEF MetaInv
  <2>2. CASE RmList(p)
    <3>1. req' = [req EXCEPT ![p].pc = "rm", ![p].todo = entry[req[p].up]] /\ entry' = entry
      BY <2>2 DEF RmList, disk
    <3> QED BY <1>0, <3>1 DEF Get, Locals
  <2>3. CASE RmUnlink(p)
    <3>1. req[p].up \in Uploads /\ req[p].op \in {"complete", "abort"} /\ req[p].pc = "rm"
      BY <1>0, <2>3 DEF RmUnlink, MetaInv, LocalsOK
    <3>2. PICK e \in req[p].todo : Unlink(req[p].up, {e}) /\ req' = [req EXCEPT ![p].todo = @ \ {e}]
      BY <2>3 DEF RmUnlink
    <3>3. req'[p].up = req[p].up /\ req'[p].todo = req[p].todo \ {e}
      BY <1>0, <3>2 DEF Locals
    <3>4. e # UploadJson
      BY <1>0, <3>1, <3>2, <3>3 DEF Unlink
    <3>5. Get(req[p].up)
      BY <1>8, <3>1, <3>3
    <3> QED BY <3>1, <3>3, <3>4, <3>5 DEF MetaInv
  <2>4. CASE Arrive(p)
    BY <2>4, Arrives
  <2>5. CASE Advance(p)
    BY <2>0, <2>2, <2>3, <2>5, Moves
  <2> QED BY <2>0, <2>1, <2>4, <2>5, WhoMoves
<1>10. ASSUME NEW u \in Uploads, story'[u].ended PROVE story'[u].life = "known" /\ ~Get(u)'
  <2>1. CASE story[u].ended
    <3>1. story[u].life = "known" /\ ~Get(u)
      BY <2>1 DEF MetaInv
    <3> QED BY <1>1, <1>2, <3>1 DEF MetaInv, CreateMeta
  <2>2. CASE ~story[u].ended
    <3>1. PICK p \in Requests : RmDir(p) /\ req[p].up = u
      BY <1>10, <2>2, EndedChange
    <3>2. story[u].life = "known" /\ ~Get(u)
      BY <3>1 DEF RmDir, MetaInv
    <3> QED BY <1>1, <3>1, <3>2 DEF RmDir, Get
  <2> QED BY <2>1, <2>2
<1> QED BY <1>3, <1>4, <1>5, <1>6, <1>7, <1>9, <1>10 DEF MetaInv, Get

(* Once an abort or a completion was answered, the upload never exists      *)
(* again.                                                                   *)
THEOREM EndedStaysEndedHolds == Spec => []EndedStaysEnded
<1>1. Init => TypeInv /\ MetaInv
  BY InitType, NamesDistinct DEF Init, MetaInv, Get, NoStory, Idle, Dirs, Procs
<1>2. TypeInv /\ MetaInv /\ [Next]_vars => (TypeInv /\ MetaInv)'
  BY NextType, MetaStep
<1>3. MetaInv => EndedStaysEnded
  BY DEF MetaInv, EndedStaysEnded
<1> QED BY <1>1, <1>2, <1>3, PTL DEF Spec
-----------------------------------------------------------------------------
(* A spool is held from mkstemp to the rename, or to its unlink.            *)
SpoolInv ==
  /\ SpoolsOwned
  /\ \A p \in Requests : req[p].pc \notin {"body", "spin", "commit"} => req[p].spool = None

(* A request that holds a spool hands it on to commit_part or drops it, or  *)
(* spins with it.                                                           *)
LEMMA HolderMoves ==
  ASSUME TypeInv, NEW q \in Requests, Advance(q), req[q].pc \in {"body", "spin", "commit"}
  PROVE  \/ req'[q].spool = req[q].spool /\ req'[q].pc \in {"commit", "spin"}
         \/ /\ Drops(q, Home(req[q]), req[q].spool) /\ req[q].spool \notin entry'[Home(req[q])]
            /\ req'[q].spool = None
<1>0. /\ req \in [Procs -> Locals] /\ q \in Procs /\ q # Sweeper /\ LocalsOK(req[q])
      /\ entry \in [Dirs -> SUBSET Entries] /\ Uploads \subseteq Dirs
  BY StoryTyped
<1>1. /\ Home(req[q]) \in Dirs /\ req[q].spool \in SpoolNames /\ Tmp \in Dirs
      /\ req[q].pc = "commit" => Home(req[q]) = req[q].up
  BY <1>0 DEF Home, LocalsOK, Dirs
<1>2. ASSUME NEW d \in Dirs, NEW s, Unlink(d, {s}) PROVE s \notin entry'[d]
  BY <1>0, <1>2 DEF Unlink
<1>3. CASE SpoolFail(q)
  BY <1>0, <1>1, <1>2, <1>3 DEF SpoolFail, Finish, Idle, Drops
<1>4. CASE CommitFailed(q)
  BY <1>0, <1>1, <1>2, <1>4 DEF CommitFailed, Finish, Idle, Drops
<1>5. CASE PartSpooled(q)
  <2>1. PICK part : req' = [req EXCEPT ![q].pc = "commit", ![q].part = part]
    BY <1>5 DEF PartSpooled
  <2> QED BY <1>0, <2>1 DEF Locals
<1>8. CASE BodySpins(q)
  BY <1>0, <1>8 DEF BodySpins, Goto, Locals
<1>6. CASE CommitReplace(q)
  <2>1. req'[q].spool = None
    BY <1>0, <1>6 DEF CommitReplace, Locals
  <2>2. req[q].part \in Parts /\ entry' = [entry EXCEPT ![req[q].up] = (@ \ {req[q].spool}) \cup {req[q].part}]
    BY <1>0, <1>6 DEF CommitReplace, LocalsOK
  <2>3. req[q].spool \notin entry'[req[q].up]
    BY <1>0, <1>1, <1>6, <2>2, NamesDistinct DEF CommitReplace
  <2> QED BY <1>1, <1>6, <2>1, <2>3 DEF CommitReplace, Drops
<1>7. CASE BodyRead(q)
  <2>1. Home(req[q]) = Tmp /\ Unlink(Tmp, {req[q].spool})
    BY <1>7 DEF BodyRead, Home
  <2>2. \/ req' = [req EXCEPT ![q].pc = "scan", ![q].spool = None]
        \/ req' = [req EXCEPT ![q] = Idle]
    BY <1>7 DEF BodyRead, Finish
  <2>3. req'[q].spool = None
    BY <1>0, <2>2 DEF Locals, Idle
  <2> QED BY <1>1, <1>2, <1>7, <2>1, <2>3 DEF Drops
<1> QED BY <1>3, <1>4, <1>5, <1>6, <1>7, <1>8 DEF Advance, CreateMeta, SpoolMkdir, SpoolOpen, CommitGlob, CommitUnlink, Scan,
   PartSum, Assemble, PutRead, PutRewind, PutFailed, PutStored, Remove, RmList, RmUnlink, RmDir

(* One that holds none takes one from mkstemp, and has its body to receive. *)
LEMMA NoSpoolMoves ==
  ASSUME TypeInv, NEW q \in Requests, Advance(q), req[q].pc \notin {"body", "spin", "commit"}, req[q].spool = None
  PROVE  req'[q].spool = None \/ req'[q].pc = "body"
<1>0. req \in [Procs -> Locals] /\ q \in Procs
  BY StoryTyped
<1> SUFFICES ASSUME req'[q] # Idle PROVE req'[q].spool = None \/ req'[q].pc = "body"
  BY DEF Idle
<1>1. CASE SpoolMkdir(q) \/ PutStored(q)
  BY <1>0, <1>1 DEF SpoolMkdir, PutStored, Goto, Finish, Locals
<1>2. CASE CommitGlob(q) \/ CommitUnlink(q)
  <2>1. PICK S, T : req' = [req EXCEPT ![q].pc = Unlinking(S), ![q].todo = T]
    BY <1>2 DEF CommitGlob, CommitUnlink
  <2> QED BY <1>0, <2>1 DEF Locals
<1>3. CASE Scan(q)
  <2>1. PICK pc, T : req' = [req EXCEPT ![q].pc = pc, ![q].todo = T]
    BY <1>0, <1>3 DEF Scan, Finish
  <2> QED BY <1>0, <2>1 DEF Locals
<1>4. CASE Assemble(q)
  <2>1. PICK list : req' = [req EXCEPT ![q].pc = "put", ![q].want = list, ![q].passes = 1, ![q].todo = {}]
    BY <1>0, <1>4 DEF Assemble, Finish
  <2> QED BY <1>0, <2>1 DEF Locals
<1>5. CASE PutRead(q) \/ PutRewind(q)
  <2>1. \/ req' = [req EXCEPT ![q].pos = @ + 1]
        \/ req' = [req EXCEPT ![q].pos = 0, ![q].passes = @ + 1]
    BY <1>0, <1>5 DEF PutRead, PutRewind, Finish
  <2> QED BY <1>0, <2>1 DEF Locals
<1>6. CASE RmList(q) \/ RmUnlink(q)
  BY <1>0, <1>6 DEF RmList, RmUnlink, Locals
<1>7. CASE PartSpooled(q) \/ BodySpins(q) \/ CommitReplace(q) \/ BodyRead(q)
  BY <1>7 DEF PartSpooled, BodySpins, CommitReplace, BodyRead
<1> QED BY <1>1, <1>2, <1>3, <1>4, <1>5, <1>6, <1>7, Moves

LEMMA OrphansStay == [Next]_vars => orphaned \subseteq orphaned'
<1> SUFFICES ASSUME [Next]_vars PROVE orphaned \subseteq orphaned'
  OBVIOUS
<1>1. ASSUME NEW p \in Requests, Arrive(p) PROVE orphaned' = orphaned
  BY <1>1 DEF Arrive, CreateMkdir, UploadPart, Complete, Abort, env
<1>2. ASSUME NEW p, Remove(p) PROVE orphaned' = orphaned
  BY <1>2 DEF Remove, RmList, RmUnlink, RmDir, env
<1>3. ASSUME NEW p \in Requests, Advance(p) PROVE orphaned' = orphaned
  <2>1. CASE CreateMeta(p) \/ SpoolMkdir(p) \/ SpoolOpen(p) \/ SpoolFail(p) \/ BodySpins(p) \/ PartSpooled(p)
    BY <2>1 DEF CreateMeta, SpoolMkdir, SpoolOpen, SpoolFail, BodySpins, PartSpooled, env
  <2>2. CASE CommitFailed(p) \/ CommitReplace(p) \/ CommitGlob(p) \/ CommitUnlink(p)
    BY <2>2 DEF CommitFailed, CommitReplace, CommitGlob, CommitUnlink, env
  <2>3. CASE Scan(p) \/ PartSum(p) \/ BodyRead(p) \/ Assemble(p)
    BY <2>3 DEF Scan, PartSum, BodyRead, Assemble, env
  <2>4. CASE PutRead(p) \/ PutRewind(p) \/ PutFailed(p) \/ PutStored(p)
    BY <2>4 DEF PutRead, PutRewind, PutFailed, PutStored, env
  <2> QED BY <1>2, <1>3, <2>1, <2>2, <2>3, <2>4 DEF Advance
<1>4. CASE SweepStart \/ SweepCheck \/ SweepDone \/ Tick \/ UNCHANGED vars
  BY <1>4 DEF SweepStart, SweepCheck, SweepDone, Tick, vars, env
<1>5. CASE Crash
  BY <1>5 DEF Crash
<1> QED BY <1>1, <1>2, <1>3, <1>4, <1>5 DEF Next, Sweep, Spin

LEMMA SpoolStep == TypeInv /\ SpoolInv /\ [Next]_vars => SpoolInv'
<1> SUFFICES ASSUME TypeInv, SpoolInv, [Next]_vars PROVE SpoolInv'
  OBVIOUS
<1>0. /\ req \in [Procs -> Locals] /\ Requests \subseteq Procs /\ \A p \in Procs : LocalsOK(req[p])
      /\ entry \in [Dirs -> SUBSET Entries]
  BY StoryTyped
<1>1. ASSUME NEW d \in Dirs, NEW s \in entry'[d] \cap SpoolNames
      PROVE  s \in orphaned' \/ \E p \in Requests : Owns(p, d, s)'
  <2>1. CASE s \notin entry[d]
    <3>1. Gain(d, s)
      BY <1>0, <1>1, <2>1, EntryGain
    <3>2. PICK p \in Requests : Opens(p, d, s)
      BY <1>1, <3>1, NamesDistinct DEF Gain
    <3> QED BY <3>2 DEF Opens, Owns
  <2>2. CASE s \in orphaned
    BY <2>2, OrphansStay
  <2>3. CASE Crash
    <3>1. entry' = entry
      BY <2>3 DEF Crash, disk
    <3>2. s \in SpoolNames \cap UNION {entry[x] : x \in Dirs}
      BY <1>1, <3>1
    <3> QED BY <2>3, <3>2 DEF Crash
  <2>4. CASE s \in entry[d] /\ s \notin orphaned /\ ~Crash
    <3>1. PICK p \in Requests : Owns(p, d, s)
      BY <1>1, <2>4 DEF SpoolInv, SpoolsOwned
    <3>2. req[p].pc \in {"body", "spin", "commit"}
      BY <1>1, <3>1, NamesDistinct DEF SpoolInv, Owns
    <3>3. CASE req'[p] = req[p]
      BY <3>1, <3>3 DEF Owns
    <3>4. CASE Arrive(p)
      BY <3>2, <3>4 DEF Arrive, CreateMkdir, UploadPart, Complete, Abort
    <3>5. CASE Advance(p)
      <4>1. CASE req'[p].spool = req[p].spool /\ req'[p].pc \in {"commit", "spin"}
        <5>1. req'[p] # Idle
          BY <4>1 DEF Idle
        <5>2. Home(req'[p]) = Home(req[p])
          BY <3>5, <5>1, AdvanceKeeps DEF Home
        <5> QED BY <3>1, <4>1, <5>2 DEF Owns
      <4>2. CASE req[p].spool \notin entry'[Home(req[p])]
        BY <1>1, <3>1, <4>2 DEF Owns
      <4> QED BY <3>2, <3>5, <4>1, <4>2, HolderMoves
    <3> QED BY <2>4, <3>3, <3>4, <3>5, WhoMoves
  <2> QED BY <2>1, <2>2, <2>3, <2>4
<1>2. ASSUME NEW p \in Requests, req'[p].pc \notin {"body", "spin", "commit"} PROVE req'[p].spool = None
  <2>1. CASE req'[p] = req[p]
    BY <1>2, <2>1 DEF SpoolInv
  <2>2. CASE Arrive(p)
    <3>1. CASE CreateMkdir(p) \/ UploadPart(p) \/ Abort(p)
      BY <1>0, <3>1 DEF CreateMkdir, UploadPart, Abort, Begin, Idle
    <3>2. CASE Complete(p)
      BY <1>0, <1>2, <3>2 DEF Complete, Idle
    <3> QED BY <2>2, <3>1, <3>2 DEF Arrive
  <2>3. CASE Advance(p)
    BY <1>2, <2>3, HolderMoves, NoSpoolMoves DEF SpoolInv
  <2> QED BY <2>1, <2>2, <2>3, WhoMoves DEF Idle
<1> QED BY <1>1, <1>2 DEF SpoolInv, SpoolsOwned

(* No spool file is left behind by a request that has finished.             *)
THEOREM SpoolsOwnedHolds == Spec => []SpoolsOwned
<1>1. Init => TypeInv /\ SpoolInv
  BY InitType DEF Init, SpoolInv, SpoolsOwned, Idle, Procs, Dirs
<1>2. TypeInv /\ SpoolInv /\ [Next]_vars => (TypeInv /\ SpoolInv)'
  BY NextType, SpoolStep
<1>3. SpoolInv => SpoolsOwned
  BY DEF SpoolInv
<1> QED BY <1>1, <1>2, <1>3, PTL DEF Spec

-----------------------------------------------------------------------------
(* What a story tells of what was staged, contended and removed is never    *)
(* taken back.                                                              *)
LEMMA StoryGrows ==
  ASSUME TypeInv, [Next]_vars, NEW u \in Uploads
  PROVE  /\ story[u].removal \subseteq story'[u].removal
         /\ story[u].contended \subseteq story'[u].contended
         /\ story[u].staged \subseteq story'[u].staged
<1>0. story \in [Uploads -> Stories] /\ \A p \in Requests : req[p].pc \notin {"idle", "sweep"} => req[p].up \in Uploads
  BY StoryTyped DEF LocalsOK
<1>1. ASSUME NEW p \in Requests, CreateMkdir(p) \/ CreateMeta(p) \/ PartSum(p) \/ PutStored(p) \/ Abort(p) \/ RmDir(p)
      PROVE  /\ story[u].removal \subseteq story'[u].removal
             /\ story[u].contended = story'[u].contended /\ story[u].staged = story'[u].staged
  <2>1. CASE CreateMkdir(p) \/ CreateMeta(p)
    BY <1>0, <2>1 DEF CreateMkdir, CreateMeta, Stories
  <2>2. CASE PartSum(p) \/ RmDir(p)
    BY <1>0, <2>2 DEF PartSum, RmDir, Stories
  <2>3. CASE PutStored(p) \/ Abort(p)
    BY <1>0, <2>3 DEF PutStored, Abort, Stories
  <2> QED BY <1>1, <2>1, <2>2, <2>3
<1>2. ASSUME NEW p \in Requests, CommitReplace(p)
      PROVE  /\ story[u].removal = story'[u].removal
             /\ story[u].contended \subseteq story'[u].contended /\ story[u].staged \subseteq story'[u].staged
  <2> DEFINE clash == \E q \in Requests \ {p} : CommitsSameNumber(q, req[p].up, req[p].part)
             N == IF clash THEN story[req[p].up].contended \cup {req[p].part.number} ELSE story[req[p].up].contended
  <2>1. story' = [story EXCEPT ![req[p].up].staged = @ \cup {req[p].part}, ![req[p].up].contended = N]
    BY <1>0, <1>2 DEF CommitReplace, Stories
  <2> HIDE DEF clash
  <2>2. CASE u # req[p].up
    BY <1>0, <2>1, <2>2
  <2>3. CASE u = req[p].up
    <3>1. /\ story'[u].removal = story[u].removal /\ story'[u].contended = N
          /\ story'[u].staged = story[u].staged \cup {req[p].part}
      BY <1>0, <2>1, <2>3 DEF Stories
    <3>2. story[u].contended \subseteq N
      BY <2>3
    <3> QED BY <3>1, <3>2
  <2> QED BY <2>2, <2>3
<1>3. CASE SweepCheck
  BY <1>0, <1>3 DEF SweepCheck, Stories
<1> QED BY <1>1, <1>2, <1>3, StoryKept

LEMMA AckedChange ==
  ASSUME TypeInv, [Next]_vars, NEW u \in Uploads, NEW n \in story'[u].acked, n \notin story[u].acked
  PROVE  \E p \in Requests : PartSum(p) /\ req[p].up = u /\ req[p].part.number = n
<1>0. story \in [Uploads -> Stories]
  BY StoryTyped
<1>1. ASSUME NEW p \in Requests, CreateMkdir(p) \/ CreateMeta(p) \/ CommitReplace(p) PROVE FALSE
  BY <1>0, <1>1 DEF CreateMkdir, CreateMeta, CommitReplace, Stories
<1>2. ASSUME NEW p \in Requests, PutStored(p) \/ Abort(p) \/ RmDir(p) PROVE FALSE
  BY <1>0, <1>2 DEF PutStored, Abort, RmDir, Stories
<1>3. CASE SweepCheck
  BY <1>0, <1>3 DEF SweepCheck, Stories
<1>4. ASSUME NEW p \in Requests, PartSum(p) PROVE req[p].up = u /\ req[p].part.number = n
  <2>1. story' = story \/ story' = [story EXCEPT ![req[p].up].acked = @ \cup {req[p].part.number}]
    BY <1>4 DEF PartSum
  <2> QED BY <1>0, <2>1 DEF Stories
<1> QED BY <1>1, <1>2, <1>3, <1>4, StoryKept

LEMMA StagedChange ==
  ASSUME TypeInv, [Next]_vars, NEW u \in Uploads, story'[u].staged # story[u].staged
  PROVE  \E p \in Requests : CommitReplace(p) /\ req[p].up = u
<1>0. story \in [Uploads -> Stories]
  BY StoryTyped
<1>1. ASSUME NEW p \in Requests, CreateMkdir(p) \/ CreateMeta(p) \/ PartSum(p) PROVE FALSE
  BY <1>0, <1>1 DEF CreateMkdir, CreateMeta, PartSum, Stories
<1>2. ASSUME NEW p \in Requests, PutStored(p) \/ Abort(p) \/ RmDir(p) PROVE FALSE
  BY <1>0, <1>2 DEF PutStored, Abort, RmDir, Stories
<1>3. CASE SweepCheck
  BY <1>0, <1>3 DEF SweepCheck, Stories
<1>4. ASSUME NEW p \in Requests, CommitReplace(p) PROVE req[p].up = u
  <2>1. PICK N : story' = [story EXCEPT ![req[p].up].staged = @ \cup {req[p].part}, ![req[p].up].contended = N]
    BY <1>4 DEF CommitReplace
  <2> QED BY <1>0, <2>1 DEF Stories
<1> QED BY <1>1, <1>2, <1>3, <1>4, StoryKept

(* What a commit stages.                                                    *)
LEMMA Stages ==
  ASSUME TypeInv, NEW p \in Requests, CommitReplace(p)
  PROVE  /\ req[p].up \in Uploads /\ req[p].part \in Parts /\ req[p].op = "part"
         /\ story'[req[p].up].staged = story[req[p].up].staged \cup {req[p].part}
         /\ \A u \in Uploads \ {req[p].up} : story'[u] = story[u]
         /\ entry'[req[p].up] = (entry[req[p].up] \ {req[p].spool}) \cup {req[p].part}
         /\ \A d \in Dirs \ {req[p].up} : entry'[d] = entry[d]
<1>0. story \in [Uploads -> Stories] /\ LocalsOK(req[p]) /\ Uploads \subseteq Dirs /\ entry \in [Dirs -> SUBSET Entries]
  BY StoryTyped
<1>1. req[p].up \in Uploads /\ req[p].part \in Parts /\ req[p].op = "part"
  BY <1>0 DEF CommitReplace, LocalsOK
<1>2. PICK N : story' = [story EXCEPT ![req[p].up].staged = @ \cup {req[p].part}, ![req[p].up].contended = N]
  BY DEF CommitReplace
<1>3. entry' = [entry EXCEPT ![req[p].up] = (@ \ {req[p].spool}) \cup {req[p].part}]
  BY DEF CommitReplace
<1>4. /\ story'[req[p].up].staged = story[req[p].up].staged \cup {req[p].part}
      /\ \A u \in Uploads \ {req[p].up} : story'[u] = story[u]
  BY <1>0, <1>1, <1>2 DEF Stories
<1> QED BY <1>0, <1>1, <1>3, <1>4

(* An object is stored by a completion, and only by it.                     *)
LEMMA ObjectChange ==
  ASSUME [Next]_vars, object' # object
  PROVE  \E p \in Requests : PutStored(p)
<1>1. ASSUME NEW p \in Procs,
             \/ CreateMkdir(p) \/ UploadPart(p) \/ Complete(p) \/ Abort(p) \/ CreateMeta(p) \/ SpoolMkdir(p)
             \/ SpoolOpen(p) \/ SpoolFail(p) \/ BodySpins(p) \/ PartSpooled(p) \/ CommitFailed(p) \/ CommitReplace(p) \/ CommitGlob(p)
             \/ CommitUnlink(p) \/ Scan(p) \/ PartSum(p) \/ BodyRead(p) \/ Assemble(p) \/ PutRead(p) \/ PutRewind(p)
             \/ PutFailed(p) \/ RmList(p) \/ RmUnlink(p) \/ RmDir(p)
      PROVE  FALSE
  BY <1>1 DEF CreateMkdir, UploadPart, Complete, Abort, CreateMeta, SpoolMkdir, SpoolOpen, SpoolFail, BodySpins, PartSpooled,
     CommitFailed, CommitReplace, CommitGlob, CommitUnlink, Scan, PartSum, BodyRead, Assemble, PutRead, PutRewind,
     PutFailed, RmList, RmUnlink, RmDir
<1>2. CASE SweepStart \/ SweepCheck \/ SweepDone \/ Tick \/ Crash \/ UNCHANGED vars
  BY <1>2 DEF SweepStart, SweepCheck, SweepDone, Tick, Crash, vars
<1> QED BY <1>1, <1>2 DEF Next, Arrive, Advance, Sweep, Remove, Spin, Procs

LEMMA Stored ==
  ASSUME TypeInv, NEW p \in Requests, PutStored(p)
  PROVE  /\ req[p].up \in Uploads /\ object'[req[p].up] = req[p].want
         /\ object' = [object EXCEPT ![req[p].up] = req[p].want]
         /\ \A u \in Uploads \ {req[p].up} : object'[u] = object[u]
<1>1. LocalsOK(req[p]) /\ object \in [Uploads -> Seq(Parts)]
  BY StoryTyped DEF TypeInv, RestOK
<1> QED BY <1>1 DEF PutStored, LocalsOK

(* From the rename to the answer, a part upload keeps its part; a commit    *)
(* unlinks other files of its number only.                                  *)
OthersOf(part) == {e \in Parts : e.number = part.number} \ {part}

LEMMA CommitMoves ==
  ASSUME TypeInv, NEW q \in Requests, Advance(q), req'[q].op = "part",
         req'[q].pc \in {"glob", "unlink", "scan", "sum"}
  PROVE  /\ req[q].op = "part" /\ req'[q].up = req[q].up /\ req'[q].part = req[q].part
         /\ \/ CommitReplace(q) /\ req'[q].pc = "glob"
            \/ CommitGlob(q) /\ req'[q].pc \in {"scan", "unlink"} /\ req'[q].todo \subseteq OthersOf(req[q].part)
            \/ CommitUnlink(q) /\ req'[q].pc \in {"scan", "unlink"} /\ req'[q].todo \subseteq req[q].todo
            \/ Scan(q) /\ req'[q].pc = "sum"
<1>0. req \in [Procs -> Locals] /\ q \in Procs /\ req'[q] # Idle
  BY StoryTyped DEF Idle
<1>1. req[q].op = "part" /\ req'[q].up = req[q].up
  BY <1>0, AdvanceKeeps
<1>2. CASE CommitReplace(q)
  BY <1>0, <1>1, <1>2, Moves DEF CommitReplace, Locals
<1>3. CASE CommitGlob(q)
  <2> DEFINE stale == {e \in entry[req[q].up] \cap Parts : e.number = req[q].part.number} \ {req[q].part}
  <2>1. req' = [req EXCEPT ![q].pc = Unlinking(stale), ![q].todo = stale]
    BY <1>3 DEF CommitGlob
  <2>2. stale \subseteq OthersOf(req[q].part)
    BY DEF OthersOf
  <2>3. req'[q].part = req[q].part /\ req'[q].todo = stale /\ req'[q].pc = Unlinking(stale)
    BY <1>0, <2>1 DEF Locals
  <2> QED BY <1>1, <1>3, <2>2, <2>3, UnlinkingLabel
<1>4. CASE CommitUnlink(q)
  <2>1. PICK e : req' = [req EXCEPT ![q].pc = Unlinking(req[q].todo \ {e}), ![q].todo = @ \ {e}]
    BY <1>4 DEF CommitUnlink
  <2>2. /\ req'[q].part = req[q].part /\ req'[q].todo = req[q].todo \ {e}
        /\ req'[q].pc = Unlinking(req[q].todo \ {e})
    BY <1>0, <2>1 DEF Locals
  <2> QED BY <1>1, <1>4, <2>2, UnlinkingLabel
<1>5. CASE Scan(q)
  <2>1. req' = [req EXCEPT ![q].pc = IF req[q].op = "part" THEN "sum" ELSE "assemble",
                           ![q].todo = entry[req[q].up] \cap Parts]
    BY <1>0, <1>5 DEF Scan, Finish
  <2> QED BY <1>0, <1>1, <1>5, <2>1 DEF Locals
<1>6. ~BodyRead(q)
  BY <1>1 DEF BodyRead
<1> QED BY <1>0, <1>2, <1>3, <1>4, <1>5, <1>6, Moves

(* A completion asks for the list its check has accepted.                   *)
Accepted(list, u) == \E todo : \E F \in Found(u, todo) : Acceptable(list, F)

LEMMA PutMoves ==
  ASSUME TypeInv, NEW q \in Requests, Advance(q), req'[q].pc = "put"
  PROVE  /\ req'[q].up = req[q].up /\ req[q].up \in Uploads
         /\ \/ req[q].pc = "assemble" /\ req'[q].want \in PartLists /\ Accepted(req'[q].want, req[q].up)
               /\ entry' = entry
            \/ req[q].pc = "put" /\ req'[q].want = req[q].want
<1>0. req \in [Procs -> Locals] /\ q \in Procs /\ req'[q] # Idle /\ LocalsOK(req[q])
  BY StoryTyped DEF Idle
<1>1. req'[q].up = req[q].up
  BY <1>0, AdvanceKeeps
<1>2. Assemble(q) \/ PutRead(q) \/ PutRewind(q)
  BY <1>0, Moves
<1>3. CASE Assemble(q)
  <2>1. PICK F \in Found(req[q].up, req[q].todo), list \in PartLists :
          IF Acceptable(list, F)
          THEN req' = [req EXCEPT ![q].pc = "put", ![q].want = list, ![q].passes = 1, ![q].todo = {}]
          ELSE Finish(q)
    BY <1>3 DEF Assemble
  <2>2. ~Finish(q)
    BY <1>0 DEF Finish
  <2>3. Acceptable(list, F) /\ req'[q].want = list
    BY <1>0, <2>1, <2>2 DEF Locals
  <2>4. Accepted(list, req[q].up)
    BY <2>1, <2>3 DEF Accepted
  <2> QED BY <1>0, <1>1, <1>3, <2>3, <2>4 DEF Assemble, LocalsOK, disk
<1>4. CASE PutRead(q) \/ PutRewind(q)
  <2>1. \/ req' = [req EXCEPT ![q].pos = @ + 1]
        \/ req' = [req EXCEPT ![q].pos = 0, ![q].passes = @ + 1]
    BY <1>0, <1>4 DEF PutRead, PutRewind, Finish
  <2> QED BY <1>0, <1>1, <1>4, <2>1 DEF Locals, PutRead, PutRewind, LocalsOK
<1> QED BY <1>2, <1>3, <1>4

LEMMA FoundThere == ASSUME NEW u, NEW todo, NEW F \in Found(u, todo) PROVE F \subseteq entry[u]
  BY DEF Found

LEMMA ListsNotEmpty == ASSUME NEW list \in PartLists PROVE list # <<>> /\ Len(list) \in 1..MaxListed /\ list \in Seq(Parts)
<1>1. PICK n \in 1..MaxListed : list \in [1..n -> Parts]
  BY DEF PartLists
<1>2. n \in Nat /\ n > 0
  BY <1>1, BoundsAreNumbers
<1>3. list \in Seq(Parts) /\ Len(list) = n
  BY <1>1, <1>2
<1> QED BY <1>1, <1>2, <1>3

(* What a completion streams was found staged for its upload, in the order, *)
(* the sizes and the total its check has accepted.                          *)
Assembled(list, u) ==
  /\ list \in PartLists
  /\ \A i \in DOMAIN list : list[i] \in story[u].staged
  /\ Ascending(list) /\ BigEnough(list) /\ WithinCap(list)

AssembledInv ==
  /\ \A u \in Uploads : entry[u] \cap Parts \subseteq story[u].staged
  /\ \A p \in Requests : req[p].pc = "put" => Assembled(req[p].want, req[p].up)

LEMMA AssembledStep == TypeInv /\ AssembledInv /\ [Next]_vars => AssembledInv'
<1> SUFFICES ASSUME TypeInv, AssembledInv, [Next]_vars PROVE AssembledInv'
  OBVIOUS
<1>0. /\ req \in [Procs -> Locals] /\ Requests \subseteq Procs /\ \A p \in Procs : LocalsOK(req[p])
      /\ entry \in [Dirs -> SUBSET Entries] /\ Uploads \subseteq Dirs
  BY StoryTyped
<1>1. ASSUME NEW u \in Uploads, NEW e \in entry'[u] \cap Parts PROVE e \in story'[u].staged
  <2>1. CASE e \in entry[u]
    BY <1>1, <2>1, StoryGrows DEF AssembledInv
  <2>2. CASE e \notin entry[u]
    <3>1. Gain(u, e)
      BY <1>0, <1>1, <2>2, EntryGain
    <3>2. PICK p \in Requests : CommitReplace(p) /\ u = req[p].up /\ e = req[p].part
      BY <1>1, <3>1, NamesDistinct DEF Gain
    <3> QED BY <3>2, Stages
  <2> QED BY <2>1, <2>2
<1>2. ASSUME NEW p \in Requests, req'[p].pc = "put"
      PROVE  /\ req'[p].want \in PartLists
             /\ \A i \in DOMAIN req'[p].want : req'[p].want[i] \in story'[req'[p].up].staged
             /\ Ascending(req'[p].want) /\ BigEnough(req'[p].want) /\ WithinCap(req'[p].want)
  <2>0. req'[p] # Idle
    BY <1>2 DEF Idle
  <2>1. ASSUME NEW u \in Uploads, NEW list, Assembled(list, u), u = req'[p].up, list = req'[p].want
        PROVE  /\ req'[p].want \in PartLists
               /\ \A i \in DOMAIN req'[p].want : req'[p].want[i] \in story'[req'[p].up].staged
               /\ Ascending(req'[p].want) /\ BigEnough(req'[p].want) /\ WithinCap(req'[p].want)
    BY <2>1, StoryGrows DEF Assembled
  <2>2. CASE req'[p] = req[p]
    BY <1>0, <1>2, <2>1, <2>2 DEF AssembledInv, LocalsOK
  <2>3. CASE Arrive(p)
    BY <1>2, <2>3, Arrives
  <2>4. CASE Advance(p)
    <3>1. CASE req[p].pc = "put" /\ req'[p].want = req[p].want
      BY <1>2, <2>1, <2>4, <3>1, PutMoves DEF AssembledInv
    <3>2. CASE req'[p].want \in PartLists /\ Accepted(req'[p].want, req[p].up)
      <4> PICK list : list = req'[p].want
        OBVIOUS
      <4> PICK u \in Uploads : u = req[p].up /\ u = req'[p].up
        BY <1>2, <2>4, PutMoves
      <4>1. PICK todo, F : F \in Found(u, todo) /\ Acceptable(list, F)
        BY <3>2 DEF Accepted
      <4>2. F \subseteq entry[u]
        BY <4>1, FoundThere
      <4>3. ASSUME NEW i \in DOMAIN list PROVE list[i] \in story[u].staged
        <5>1. list[i] \in F /\ list[i] \in Parts
          <6>1. list \in Seq(Parts)
            BY <3>2, ListsNotEmpty
          <6> QED BY <4>1, <6>1 DEF Acceptable
        <5> QED BY <4>2, <5>1 DEF AssembledInv
      <4>4. Assembled(list, u)
        BY <3>2, <4>1, <4>3 DEF Assembled, Acceptable
      <4> QED BY <2>1, <4>4
    <3> QED BY <1>2, <2>4, <3>1, <3>2, PutMoves
  <2> QED BY <2>0, <2>2, <2>3, <2>4, WhoMoves
<1> QED BY <1>1, <1>2 DEF AssembledInv, Assembled

-----------------------------------------------------------------------------
(* Somebody aborted the upload, the sweep took it, or its object is stored. *)
Doomed(u) == story[u].removal \cap {"abort", "sweep"} # {} \/ object[u] # <<>>

(* A request has renamed a part of number n into place, or its 200 says so. *)
Holding(p, u, n) == /\ req[p].pc \in {"glob", "unlink", "scan", "sum"} /\ req[p].op = "part"
                    /\ req[p].up = u /\ req[p].part.number = n
Owed(u, n) == n \in story[u].acked \/ \E p \in Requests : Holding(p, u, n)

(* Why no part gets lost: an rmtree runs only over a doomed upload; a       *)
(* commit unlinks other files of its own number; and of two commits of one  *)
(* number with different parts the later to rename has marked it contended. *)
Unlinkers ==
  /\ req[Sweeper].pc \in {"idle", "sweep", "rmlist", "rm"}
  /\ \A p \in Procs : req[p].pc \in {"rmlist", "rm"} => Doomed(req[p].up)
  /\ \A p \in Requests : req[p].pc = "unlink" => req[p].todo \subseteq OthersOf(req[p].part)
  /\ \A p, q \in Requests :
       req[q].pc \in {"glob", "unlink"} /\ CommitsSameNumber(p, req[q].up, req[q].part) =>
         req[q].part.number \in story[req[q].up].contended

Kept ==
  \A u \in Uploads : ~Doomed(u) =>
    /\ story[u].life = "known" => Get(u)
    /\ \A p \in Requests : req[p].pc \in {"glob", "unlink"} /\ req[p].up = u =>
         req[p].part \in entry[u] \/ req[p].part.number \in story[u].contended
    /\ \A n \in PartNumbers : Owed(u, n) => Present(u, n) \/ n \in story[u].contended

LEMMA DoomedStays ==
  ASSUME TypeInv, AssembledInv, [Next]_vars, NEW u \in Uploads, Doomed(u) PROVE Doomed(u)'
<1>1. CASE story[u].removal \cap {"abort", "sweep"} # {}
  BY <1>1, StoryGrows DEF Doomed
<1>2. CASE object[u] # <<>> /\ object'[u] = object[u]
  BY <1>2 DEF Doomed
<1>3. CASE object[u] # <<>> /\ object'[u] # object[u]
  <2>1. PICK p \in Requests : PutStored(p)
    BY <1>3, ObjectChange
  <2>2. u = req[p].up /\ object'[u] = req[p].want
    BY <1>3, <2>1, Stored
  <2>3. req[p].want # <<>>
    BY <2>1, ListsNotEmpty DEF PutStored, AssembledInv, Assembled
  <2> QED BY <2>2, <2>3 DEF Doomed
<1> QED BY <1>1, <1>2, <1>3 DEF Doomed

LEMMA SweeperMoves ==
  ASSUME TypeInv, [Next]_vars, req'[Sweeper] # req[Sweeper]
  PROVE  Sweep \/ (Crash /\ req'[Sweeper] = Idle)
<1>0. Requests \subseteq Procs /\ Sweeper \in Procs \ Requests
  BY StoryTyped
<1>1. ASSUME NEW p \in Requests, Arrive(p) \/ Advance(p) PROVE FALSE
  BY <1>0, <1>1, OthersKeep
<1>2. CASE Crash
  BY <1>0, <1>2 DEF Crash
<1>3. CASE Tick \/ UNCHANGED vars
  BY <1>3 DEF Tick, vars
<1> QED BY <1>1, <1>2, <1>3 DEF Next, Spin

(* Whoever begins an rmtree has doomed the upload.                          *)
LEMMA SweeperDooms ==
  ASSUME TypeInv, AssembledInv, Unlinkers, [Next]_vars
  PROVE  /\ req'[Sweeper].pc \in {"idle", "sweep", "rmlist", "rm"}
         /\ req'[Sweeper].pc \in {"rmlist", "rm"} => \E u \in Uploads : u = req'[Sweeper].up /\ Doomed(u)'
<1>0. /\ req \in [Procs -> Locals] /\ Sweeper \in Procs /\ LocalsOK(req[Sweeper])
      /\ story \in [Uploads -> Stories] /\ targets \subseteq Uploads
  BY StoryTyped DEF TypeInv, RestOK
<1>1. ASSUME req[Sweeper].pc \in {"rmlist", "rm"}
      PROVE  \E u \in Uploads : u = req[Sweeper].up /\ Doomed(u)'
  BY <1>0, <1>1, DoomedStays DEF Unlinkers, LocalsOK
<1> DEFINE Goal == /\ req'[Sweeper].pc \in {"idle", "sweep", "rmlist", "rm"}
                   /\ req'[Sweeper].pc \in {"rmlist", "rm"} => \E u \in Uploads : u = req'[Sweeper].up /\ Doomed(u)'
<1>2. CASE req'[Sweeper] = req[Sweeper]
  BY <1>1, <1>2 DEF Unlinkers
<1>3. CASE req'[Sweeper] = Idle
  BY <1>3 DEF Idle
<1>4. CASE SweepStart \/ SweepDone
  <2>1. Begin(Sweeper, "sweep", None, "sweep") \/ Finish(Sweeper)
    BY <1>4 DEF SweepStart, SweepDone
  <2>2. CASE Begin(Sweeper, "sweep", None, "sweep")
    BY <1>0, <2>2 DEF Begin, Idle
  <2> QED BY <1>0, <1>3, <2>1, <2>2 DEF Finish
<1>5. CASE SweepCheck /\ req'[Sweeper] # req[Sweeper]
  <2>1. PICK d \in targets : /\ Begin(Sweeper, "sweep", d, "rmlist")
                             /\ story' = [story EXCEPT ![d].removal = @ \cup {"sweep"}]
    BY <1>5 DEF SweepCheck
  <2>2. req'[Sweeper].pc = "rmlist" /\ req'[Sweeper].up = d
    BY <1>0, <2>1 DEF Begin, Idle
  <2>3. "sweep" \in story'[d].removal
    BY <1>0, <2>1 DEF Stories
  <2>4. Doomed(d)'
    BY <2>3 DEF Doomed
  <2> QED BY <1>0, <2>2, <2>4
<1>6. CASE RmList(Sweeper) \/ RmUnlink(Sweeper)
  <2>1. req'[Sweeper].pc = "rm" /\ req'[Sweeper].up = req[Sweeper].up /\ req[Sweeper].pc \in {"rmlist", "rm"}
    BY <1>0, <1>6 DEF RmList, RmUnlink, Locals
  <2> QED BY <1>1, <2>1
<1>7. CASE RmDir(Sweeper)
  BY <1>0, <1>7 DEF RmDir, Begin, Idle
<1>8. Goal
  BY <1>2, <1>3, <1>4, <1>5, <1>6, <1>7, SweeperMoves DEF Sweep, Remove
<1> QED BY <1>8

LEMMA RequestDooms ==
  ASSUME TypeInv, AssembledInv, Unlinkers, [Next]_vars, NEW p \in Requests, req'[p].pc \in {"rmlist", "rm"}
  PROVE  \E u \in Uploads : u = req'[p].up /\ Doomed(u)'
<1>0. /\ req \in [Procs -> Locals] /\ p \in Procs /\ LocalsOK(req[p]) /\ req'[p] # Idle
      /\ story \in [Uploads -> Stories] /\ object \in [Uploads -> Seq(Parts)]
  BY StoryTyped DEF Idle, TypeInv, RestOK
<1>1. ASSUME req[p].pc \in {"rmlist", "rm"}, req'[p].up = req[p].up
      PROVE  \E u \in Uploads : u = req'[p].up /\ Doomed(u)'
  BY <1>0, <1>1, DoomedStays DEF Unlinkers, LocalsOK
<1> DEFINE Goal == \E u \in Uploads : u = req'[p].up /\ Doomed(u)'
<1>2. CASE req'[p] = req[p]
  BY <1>1, <1>2
<1>3. CASE Arrive(p)
  <2>1. Abort(p)
    BY <1>0, <1>3, Arrives DEF UploadPart, Complete, Begin, Idle
  <2>2. PICK u \in Uploads : /\ Begin(p, "abort", u, "rmlist")
                             /\ story' = [story EXCEPT ![u].removal = @ \cup {"abort"}]
    BY <2>1 DEF Abort
  <2>3. req'[p].up = u
    BY <1>0, <2>2 DEF Begin, Idle
  <2>4. "abort" \in story'[u].removal
    BY <1>0, <2>2 DEF Stories
  <2>5. Doomed(u)'
    BY <2>4 DEF Doomed
  <2> QED BY <2>3, <2>5
<1>4. CASE Advance(p)
  <2>1. req'[p].up = req[p].up
    BY <1>0, <1>4, AdvanceKeeps
  <2>2. CASE PutStored(p)
    <3>1. req[p].want # <<>>
      BY <2>2, ListsNotEmpty DEF PutStored, AssembledInv, Assembled
    <3> PICK u \in Uploads : u = req[p].up /\ object'[u] = req[p].want
      BY <2>2, Stored
    <3>2. Doomed(u)'
      BY <3>1 DEF Doomed
    <3> QED BY <2>1, <3>2
  <2>3. CASE RmList(p) \/ RmUnlink(p)
    <3>1. req[p].pc \in {"rmlist", "rm"}
      BY <2>3 DEF RmList, RmUnlink
    <3> QED BY <1>1, <2>1, <3>1
  <2> QED BY <1>0, <1>4, <2>2, <2>3, Moves
<1>5. Goal
  BY <1>0, <1>2, <1>3, <1>4, WhoMoves
<1> QED BY <1>5

LEMMA UnlinkersStep == TypeInv /\ AssembledInv /\ Unlinkers /\ [Next]_vars => Unlinkers'
<1> SUFFICES ASSUME TypeInv, AssembledInv, Unlinkers, [Next]_vars PROVE Unlinkers'
  OBVIOUS
<1>0. /\ req \in [Procs -> Locals] /\ Requests \subseteq Procs /\ Sweeper \in Procs \ Requests
      /\ \A p \in Procs : LocalsOK(req[p]) /\ LocalsOK(req'[p])
      /\ story \in [Uploads -> Stories]
  <2>1. TypeInv'
    BY NextType
  <2> QED BY <2>1, StoryTyped DEF TypeInv, ReqOK
(* Where a request is when it commits after the step: it has just renamed,  *)
(* or it was committing the same part before.                               *)
<1>1. ASSUME NEW p \in Requests, req'[p].pc \in {"glob", "unlink"}
      PROVE  /\ req'[p].up = req[p].up /\ req'[p].part = req[p].part /\ req[p].up \in Uploads
             /\ \/ req[p].pc \in {"glob", "unlink"}
                \/ CommitReplace(p) /\ req'[p].pc = "glob" /\ \A q \in Requests \ {p} : req'[q] = req[q]
             /\ req'[p].pc = "unlink" => req'[p].todo \subseteq OthersOf(req[p].part)
  <2>0. req'[p] # Idle /\ req'[p].op = "part" /\ req'[p].up \in Uploads
    BY <1>0, <1>1 DEF Idle, LocalsOK
  <2>1. CASE req'[p] = req[p]
    BY <1>1, <2>0, <2>1 DEF Unlinkers
  <2>2. CASE Arrive(p)
    BY <1>1, <2>2, Arrives
  <2>3. CASE Advance(p)
    <3>1. \A q \in Requests \ {p} : req'[q] = req[q]
      BY <1>0, <2>3, OthersKeep
    <3>2. CASE CommitReplace(p) /\ req'[p].pc = "glob"
      BY <1>1, <2>0, <2>3, <3>1, <3>2, CommitMoves
    <3>3. CASE CommitGlob(p)
      BY <1>1, <2>0, <2>3, <3>3, CommitMoves DEF CommitGlob, CommitReplace, CommitUnlink, Scan
    <3>4. CASE CommitUnlink(p)
      <4>1. req[p].pc = "unlink" /\ req[p].todo \subseteq OthersOf(req[p].part)
        BY <3>4 DEF CommitUnlink, Unlinkers
      <4>2. req'[p].todo \subseteq req[p].todo
        BY <1>1, <2>0, <2>3, <4>1, CommitMoves DEF CommitGlob, CommitReplace, Scan
      <4> QED BY <1>1, <2>0, <2>3, <4>1, <4>2, CommitMoves
    <3> QED BY <1>1, <2>0, <2>3, <3>2, <3>3, <3>4, CommitMoves
  <2> QED BY <2>0, <2>1, <2>2, <2>3, WhoMoves
<1>2. ASSUME NEW p \in Requests, NEW q \in Requests,
             req'[q].pc \in {"glob", "unlink"}, req'[p].pc \in {"glob", "unlink"}, req'[p].up = req'[q].up,
             req'[p].part.number = req'[q].part.number, req'[p].part # req'[q].part
      PROVE  req'[q].part.number \in story'[req'[q].up].contended
  <2> PICK u \in Uploads : u = req[q].up /\ u = req[p].up /\ u = req'[q].up
    BY <1>1, <1>2
  <2> PICK n : n = req[q].part.number /\ n = req[p].part.number /\ n = req'[q].part.number
    BY <1>1, <1>2
  <2>1. req[p].part # req[q].part /\ p # q
    BY <1>1, <1>2
  <2>2. ASSUME NEW x \in Requests, NEW y \in Requests, CommitReplace(x), y # x, req'[y].pc \in {"glob", "unlink"},
               req'[y] = req[y], req[x].up = u, req[y].up = u, req[y].part # req[x].part, req[x].part.number = n,
               req[y].part.number = n
        PROVE  n \in story'[u].contended
    <3>1. CommitsSameNumber(y, u, req[x].part)
      BY <2>2 DEF CommitsSameNumber
    <3> DEFINE N == story[u].contended \cup {n}
    <3>2. story' = [story EXCEPT ![u].staged = @ \cup {req[x].part}, ![u].contended = N]
      BY <1>0, <2>2, <3>1 DEF CommitReplace, Stories
    <3> QED BY <1>0, <3>2 DEF Stories
  <2>3. CASE req[p].pc \in {"glob", "unlink"} /\ req[q].pc \in {"glob", "unlink"}
    <3>1. CommitsSameNumber(p, u, req[q].part)
      BY <2>1, <2>3 DEF CommitsSameNumber
    <3>2. n \in story[u].contended
      BY <2>3, <3>1 DEF Unlinkers
    <3> QED BY <3>2, StoryGrows
  <2>4. CASE CommitReplace(q) /\ req'[p] = req[p]
    BY <1>2, <2>1, <2>2, <2>4
  <2>5. CASE CommitReplace(p) /\ req'[q] = req[q]
    BY <1>2, <2>1, <2>2, <2>5
  <2> QED BY <1>1, <1>2, <2>1, <2>3, <2>4, <2>5
<1>3. ASSUME NEW p \in Procs, req'[p].pc \in {"rmlist", "rm"}
      PROVE  story'[req'[p].up].removal \cap {"abort", "sweep"} # {} \/ object'[req'[p].up] # <<>>
  BY <1>3, SweeperDooms, RequestDooms DEF Procs, Doomed
<1>4. req'[Sweeper].pc \in {"idle", "sweep", "rmlist", "rm"}
  BY SweeperDooms
<1>5. ASSUME NEW p \in Requests, req'[p].pc = "unlink" PROVE req'[p].todo \subseteq OthersOf(req'[p].part)
  BY <1>1, <1>5
<1> QED BY <1>2, <1>3, <1>4, <1>5 DEF Unlinkers, Doomed, CommitsSameNumber

(* What an upload that nobody has doomed loses, a commit has taken.         *)
LEMMA TakenByCommit ==
  ASSUME TypeInv, Unlinkers, [Next]_vars, NEW u \in Uploads, ~Doomed(u),
         NEW e \in entry[u], e \notin entry'[u], e \in Parts \cup {UploadJson}
  PROVE  \E q \in Requests : /\ req[q].pc = "unlink" /\ req[q].up = u /\ e \in OthersOf(req[q].part)
                             /\ entry'[u] = entry[u] \ {e}
<1>0. /\ req \in [Procs -> Locals] /\ Sweeper \in Procs \ Requests /\ Uploads \subseteq Dirs /\ u # Tmp
      /\ entry \in [Dirs -> SUBSET Entries] /\ e \notin SpoolNames
  BY StoryTyped, NamesDistinct
<1>1. Loss(u, e)
  BY <1>0, EntryLoss
<1>2. PICK q \in Procs : Lists(q, u, e)
  BY <1>0, <1>1 DEF Loss
<1>3. ~RmUnlink(q)
  BY <1>2 DEF RmUnlink, Lists, Unlinkers
<1>4. CommitUnlink(q) /\ u = req[q].up
  BY <1>2, <1>3 DEF Lists
<1>5. req[q].pc = "unlink" /\ q \in Requests
  BY <1>4 DEF CommitUnlink, Unlinkers, Procs
<1>6. PICK x \in req[q].todo : Unlink(u, {x})
  BY <1>4 DEF CommitUnlink
<1>7. entry'[u] = entry[u] \ {x}
  BY <1>0, <1>6 DEF Unlink
<1>8. x = e
  BY <1>7
<1> QED BY <1>4, <1>5, <1>6, <1>7, <1>8 DEF Unlinkers

LEMMA KeptStep == TypeInv /\ MetaInv /\ AssembledInv /\ Unlinkers /\ Kept /\ [Next]_vars => Kept'
<1> SUFFICES ASSUME TypeInv, MetaInv, AssembledInv, Unlinkers, Kept, [Next]_vars, NEW u \in Uploads, ~Doomed(u)'
             PROVE  /\ story'[u].life = "known" => Get(u)'
                    /\ \A p \in Requests : req'[p].pc \in {"glob", "unlink"} /\ req'[p].up = u =>
                         req'[p].part \in entry'[u] \/ req'[p].part.number \in story'[u].contended
                    /\ \A n \in PartNumbers : Owed(u, n)' => Present(u, n)' \/ n \in story'[u].contended
  BY DEF Kept
<1>0. /\ req \in [Procs -> Locals] /\ Requests \subseteq Procs /\ Uploads \subseteq Dirs
      /\ \A p \in Procs : LocalsOK(req[p]) /\ LocalsOK(req'[p])
      /\ story \in [Uploads -> Stories] /\ entry \in [Dirs -> SUBSET Entries]
      /\ story[u].contended \subseteq story'[u].contended
  <2>1. TypeInv'
    BY NextType
  <2> QED BY <2>1, StoryTyped, StoryGrows DEF TypeInv, ReqOK
<1>1. ~Doomed(u)
  BY DoomedStays
<1>2. story'[u].life = "known" => Get(u)'
  <2> SUFFICES ASSUME story'[u].life = "known" PROVE Get(u)'
    OBVIOUS
  <2>1. CASE story[u].life = "known"
    <3>1. Get(u)
      BY <1>1, <2>1 DEF Kept
    <3>2. ASSUME NEW q \in Requests, UploadJson \in OthersOf(req[q].part) PROVE FALSE
      BY <3>2, NamesDistinct DEF OthersOf
    <3> QED BY <1>1, <3>1, <3>2, TakenByCommit DEF Get
  <2>2. CASE story[u].life # "known"
    <3>1. PICK p \in Requests : CreateMeta(p) /\ req[p].up = u
      BY <2>2, LifeChange
    <3>2. Store(u, UploadJson)
      BY <2>2, <3>1 DEF CreateMeta
    <3> QED BY <1>0, <3>2 DEF Store, Get
  <2> QED BY <2>1, <2>2
(* A part that is being committed stays: whoever unlinks it commits another *)
(* part of its number at the same time.                                     *)
<1>3. ASSUME NEW p \in Requests, req'[p].pc \in {"glob", "unlink"}, req'[p].up = u
      PROVE  req'[p].part \in entry'[u] \/ req'[p].part.number \in story'[u].contended
  <2>0. req'[p] # Idle /\ req'[p].op = "part"
    BY <1>0, <1>3 DEF Idle, LocalsOK
  <2>1. CASE CommitReplace(p) /\ req'[p].up = req[p].up /\ req'[p].part = req[p].part
    BY <1>3, <2>1, Stages
  <2>2. ASSUME req[p].pc \in {"glob", "unlink"}, req[p].up = u, req'[p].part = req[p].part
        PROVE  req[p].part \in entry'[u] \/ req[p].part.number \in story'[u].contended
    <3> SUFFICES ASSUME req[p].part \in entry[u], req[p].part \notin entry'[u]
                 PROVE  req[p].part.number \in story[u].contended
      BY <1>0, <1>1, <2>2 DEF Kept
    <3>1. req[p].part \in Parts
      BY <1>0, <2>2 DEF LocalsOK
    <3>2. PICK q \in Requests : req[q].pc = "unlink" /\ req[q].up = u /\ req[p].part \in OthersOf(req[q].part)
      BY <1>1, <3>1, TakenByCommit
    <3>3. CommitsSameNumber(q, u, req[p].part)
      BY <3>2 DEF CommitsSameNumber, OthersOf
    <3> QED BY <2>2, <3>3 DEF Unlinkers
  <2>3. CASE req'[p] = req[p]
    BY <1>3, <2>2, <2>3
  <2>4. CASE Arrive(p)
    BY <1>3, <2>4, Arrives
  <2>5. CASE Advance(p)
    <3>1. req'[p].up = req[p].up /\ req'[p].part = req[p].part
      BY <1>3, <2>0, <2>5, CommitMoves
    <3>2. CommitReplace(p) \/ req[p].pc \in {"glob", "unlink"}
      BY <1>3, <2>0, <2>5, CommitMoves DEF CommitGlob, CommitUnlink
    <3> QED BY <1>3, <2>1, <2>2, <3>1, <3>2
  <2> QED BY <2>0, <2>3, <2>4, <2>5, WhoMoves
<1>4. ASSUME NEW n \in PartNumbers, Present(u, n), n \notin story[u].contended PROVE Present(u, n)'
  <2>1. PICK e \in entry[u] \cap Parts : e.number = n
    BY <1>4 DEF Present
  <2>2. CASE e \in entry'[u]
    BY <2>1, <2>2 DEF Present
  <2>3. CASE e \notin entry'[u]
    <3>1. PICK q \in Requests : /\ req[q].pc = "unlink" /\ req[q].up = u /\ e \in OthersOf(req[q].part)
                                /\ entry'[u] = entry[u] \ {e}
      BY <1>1, <2>1, <2>3, TakenByCommit
    <3>2. req[q].part.number = n /\ req[q].part # e /\ req[q].part \in Parts
      BY <1>0, <2>1, <3>1 DEF OthersOf, LocalsOK
    <3>3. req[q].part \in entry[u]
      BY <1>1, <1>4, <3>1, <3>2 DEF Kept
    <3> QED BY <3>1, <3>2, <3>3 DEF Present
  <2> QED BY <2>2, <2>3
<1>5. ASSUME NEW n \in PartNumbers, Owed(u, n)', n \notin story'[u].contended PROVE Present(u, n)'
  <2>1. CASE Owed(u, n)
    BY <1>0, <1>1, <1>4, <1>5, <2>1 DEF Kept
  <2>2. CASE n \in story'[u].acked /\ n \notin story[u].acked
    <3>1. PICK p \in Requests : PartSum(p) /\ req[p].up = u /\ req[p].part.number = n
      BY <2>2, AckedChange
    <3>2. Holding(p, u, n)
      BY <1>0, <3>1 DEF PartSum, LocalsOK, Holding
    <3> QED BY <2>1, <3>2 DEF Owed
  <2>3. ASSUME NEW p \in Requests, Holding(p, u, n)', ~Holding(p, u, n) PROVE Present(u, n)'
    <3>0. /\ req'[p].pc \in {"glob", "unlink", "scan", "sum"} /\ req'[p].op = "part" /\ req'[p].up = u
          /\ req'[p].part.number = n /\ req'[p] # Idle /\ req'[p] # req[p]
      BY <2>3 DEF Holding, Idle
    <3>1. ~Arrive(p)
      BY <3>0, Arrives
    <3>2. Advance(p)
      BY <3>0, <3>1, WhoMoves
    <3>3. req'[p].up = req[p].up /\ req'[p].part = req[p].part /\ req[p].op = "part"
      BY <3>0, <3>2, CommitMoves
    <3>4. req[p].pc \notin {"glob", "unlink", "scan", "sum"}
      BY <2>3, <3>0, <3>3 DEF Holding
    <3>5. CommitReplace(p)
      BY <3>0, <3>2, <3>4, CommitMoves DEF CommitGlob, CommitUnlink, Scan
    <3> QED BY <3>0, <3>3, <3>5, Stages DEF Present
  <2> QED BY <1>5, <2>1, <2>2, <2>3 DEF Owed
<1> QED BY <1>2, <1>3, <1>5

(* All of it together holds in every state.                                 *)
LEMMA SafelyKept == Spec => [](TypeInv /\ MetaInv /\ AssembledInv /\ Unlinkers /\ Kept)
<1>1. Init => TypeInv /\ MetaInv /\ AssembledInv /\ Unlinkers /\ Kept
  <2> SUFFICES ASSUME Init PROVE TypeInv /\ MetaInv /\ AssembledInv /\ Unlinkers /\ Kept
    OBVIOUS
  <2>1. TypeInv /\ Uploads \subseteq Dirs /\ Requests \subseteq Procs /\ Sweeper \in Procs
    BY InitType, StoryTyped
  <2>2. MetaInv
    BY <2>1, NamesDistinct DEF Init, MetaInv, Get, NoStory, Idle
  <2>3. \A p \in Procs : req[p].pc = "idle" /\ req[p].op = "none"
    BY DEF Init, Idle
  <2>4. AssembledInv /\ Unlinkers
    BY <2>1, <2>3 DEF Init, AssembledInv, Unlinkers
  <2>5. \A u \in Uploads : story[u].life = "unused" /\ story[u].acked = {}
    BY DEF Init, NoStory
  <2>6. Kept
    BY <2>1, <2>3, <2>5 DEF Kept, Owed, Holding
  <2> QED BY <2>1, <2>2, <2>4, <2>6
<1>2. /\ TypeInv /\ MetaInv /\ AssembledInv /\ Unlinkers /\ Kept /\ [Next]_vars
      => (TypeInv /\ MetaInv /\ AssembledInv /\ Unlinkers /\ Kept)'
  BY NextType, MetaStep, AssembledStep, UnlinkersStep, KeptStep
<1> QED BY <1>1, <1>2, PTL DEF Spec

(* What a completion or a part upload acknowledged is there until somebody  *)
(* aborts the upload, the sweep takes it or its object is stored.           *)
THEOREM KeptUntilStoredHolds == Spec => []KeptUntilStored
<1>1. TypeInv /\ Kept => KeptUntilStored
  <2> SUFFICES ASSUME TypeInv, Kept, NEW u \in Uploads, Undisturbed(u), NEW n \in story[u].acked \ story[u].contended
               PROVE  Get(u) /\ Present(u, n)
    <3>1. ASSUME TypeInv, Kept, NEW u \in Uploads, Undisturbed(u) PROVE Get(u)
      BY <3>1 DEF Kept, Undisturbed, Doomed
    <3> QED BY <3>1 DEF KeptUntilStored
  <2>1. n \in PartNumbers /\ ~Doomed(u) /\ story[u].life = "known"
    BY DEF TypeInv, RestOK, Stories, Undisturbed, Doomed
  <2> QED BY <2>1 DEF Kept, Owed
<1> QED BY <1>1, SafelyKept, PTL

-----------------------------------------------------------------------------
(* Multipart implements S3Upload: every step is a step of an upload there,  *)
(* or changes nothing there.                                                *)
LEMMA WellFormedList ==
  ASSUME NEW list, Ascending(list), BigEnough(list), WithinCap(list) PROVE Promise!WellFormed(list)
<1>1. Promise!MapThenSumSet(LAMBDA i : Size[list[i].etag], DOMAIN list) <= MaxObjectBytes
  BY DEF WithinCap, MapThenSumSet, Promise!MapThenSumSet, MapThenFoldSet, Promise!MapThenFoldSet
<1> QED BY <1>1 DEF Ascending, BigEnough, Promise!WellFormed

(* The rest of S3Upload's step, when only one of its variables changes.     *)
LEMMA StatusSame ==
  ASSUME TypeInv, [Next]_vars,
         \A u \in Uploads : Get(u)' <=> Get(u),
         \A p \in Requests : ~CreateMeta(p)
  PROVE  status' = status
<1>1. ASSUME NEW u \in Uploads PROVE story'[u].life = "known" <=> story[u].life = "known"
  BY <1>1, LifeChange
<1> QED BY <1>1 DEF status

LEMMA Opened ==
  ASSUME TypeInv, MetaInv, NEW p \in Requests, CreateMeta(p) PROVE [Promise!Next]_(Promise!vars)
<1>0. /\ story \in [Uploads -> Stories] /\ entry \in [Dirs -> SUBSET Entries] /\ Uploads \subseteq Dirs
      /\ req[p].up \in Uploads
  BY StoryTyped DEF CreateMeta, LocalsOK
<1> PICK u \in Uploads : u = req[p].up
  BY <1>0
<1>1. object' = object
  BY DEF CreateMeta
<1>2. CASE u \in dirs
  <2>1. Store(u, UploadJson) /\ story' = [story EXCEPT ![u].life = "known"]
    BY <1>2 DEF CreateMeta
  <2>2. \A v \in Uploads : story'[v].life = IF v = u THEN "known" ELSE story[v].life
    BY <1>0, <2>1 DEF Stories
  <2>3. \A v \in Uploads : story'[v].staged = story[v].staged
    BY <1>0, <2>1 DEF Stories
  <2>4. \A v \in Uploads : Get(v)' = IF v = u THEN TRUE ELSE Get(v)
    BY <1>0, <2>1 DEF Store, Get
  <2>5. story[u].life = "issued" /\ ~Get(u)
    BY DEF CreateMeta, MetaInv
  <2>6. status[u] = "none" /\ status' = [status EXCEPT ![u] = "open"]
    BY <2>2, <2>4, <2>5 DEF status
  <2>7. staged' = staged
    BY <2>3 DEF staged
  <2> QED BY <1>1, <2>6, <2>7 DEF Promise!Next, Promise!Open
<1>3. CASE u \notin dirs
  BY <1>1, <1>3 DEF CreateMeta, disk, status, staged, Get, Promise!vars
<1> QED BY <1>2, <1>3

LEMMA Staged ==
  ASSUME TypeInv, MetaInv, [Next]_vars, NEW p \in Requests, CommitReplace(p)
  PROVE  [Promise!Next]_(Promise!vars)
<1> PICK u \in Uploads : u = req[p].up
  BY Stages
<1>1. \A v \in Uploads : Get(v)' <=> Get(v)
  <2>1. UploadJson # req[p].part /\ UploadJson # req[p].spool
    <3>1. req[p].part \in Parts /\ req[p].spool \in SpoolNames
      BY Stages, StoryTyped DEF CommitReplace, LocalsOK, Procs
    <3> QED BY <3>1, NamesDistinct
  <2> QED BY <2>1, Stages, StoryTyped DEF Get
<1>2. \A q \in Requests : ~CreateMeta(q)
  <2>1. ASSUME NEW q \in Requests, CreateMeta(q) PROVE FALSE
    <3>1. q # p
      BY <2>1 DEF CreateMeta, CommitReplace
    <3>2. req'[q] = req[q] /\ q \in Procs /\ req \in [Procs -> Locals]
      BY <3>1, OthersKeep, StoryTyped DEF Advance
    <3> QED BY <2>1, <3>2 DEF CreateMeta, Finish, Idle
  <2> QED BY <2>1
<1>3. status' = status
  BY <1>1, <1>2, StatusSame
<1>4. status[u] # "none"
  <2>1. story[u].life = "known"
    BY Stages DEF MetaInv
  <2> QED BY <2>1 DEF status
<1>5. staged' = [staged EXCEPT ![u] = @ \cup {req[p].part}]
  BY Stages DEF staged
<1>6. req[p].part \in Promise!Parts
  BY Stages DEF Parts, Promise!Parts
<1>7. object' = object
  BY DEF CommitReplace
<1> QED BY <1>3, <1>4, <1>5, <1>6, <1>7 DEF Promise!Next, Promise!Stage

LEMMA StoredObject ==
  ASSUME TypeInv, MetaInv, AssembledInv, [Next]_vars, NEW p \in Requests, PutStored(p)
  PROVE  [Promise!Next]_(Promise!vars)
<1> PICK u \in Uploads : u = req[p].up
  BY Stored
<1> PICK list : list = req[p].want
  OBVIOUS
<1>1. status' = status /\ staged' = staged
  <2>1. /\ story \in [Uploads -> Stories] /\ entry' = entry
        /\ story' = story \/ story' = [story EXCEPT ![u].removal = @ \cup {"complete"}]
    BY StoryTyped DEF PutStored, disk
  <2>2. \A v \in Uploads : story'[v].life = story[v].life /\ story'[v].staged = story[v].staged
    BY <2>1 DEF Stories
  <2> QED BY <2>1, <2>2 DEF status, staged, Get
<1>2. status[u] # "none"
  <2>1. story[u].life = "known"
    BY DEF MetaInv, PutStored
  <2> QED BY <2>1 DEF status
<1>3. Assembled(list, u)
  BY DEF AssembledInv, PutStored
<1>4. object' = [object EXCEPT ![u] = list]
  BY Stored
<1>5. Promise!WellFormed(list)
  BY <1>3, WellFormedList DEF Assembled
<1>6. \E n \in 1..MaxListed : list \in [1..n -> staged[u]]
  <2>1. PICK n \in 1..MaxListed : list \in [1..n -> Parts]
    BY <1>3 DEF Assembled, PartLists
  <2>2. \A i \in 1..n : list[i] \in staged[u]
    BY <1>3, <2>1 DEF Assembled, staged
  <2> QED BY <2>1, <2>2
<1>7. Promise!StoreObject(u)
  BY <1>1, <1>2, <1>4, <1>5, <1>6 DEF Promise!StoreObject
<1> QED BY <1>7 DEF Promise!Next

(* What nobody opens, stages or stores can only be closed.                  *)
LEMMA Closed ==
  ASSUME TypeInv, MetaInv, Unlinkers, [Next]_vars,
         \A p \in Requests : ~CreateMeta(p) /\ ~CommitReplace(p) /\ ~PutStored(p)
  PROVE  [Promise!Next]_(Promise!vars)
<1>0. /\ entry \in [Dirs -> SUBSET Entries] /\ Uploads \subseteq Dirs /\ Tmp \notin Uploads
      /\ UploadJson \notin Parts \cup SpoolNames
  BY StoryTyped, NamesDistinct
<1>1. staged' = staged
  BY StagedChange DEF staged
<1>2. object' = object
  BY ObjectChange
<1>3. ASSUME NEW u \in Uploads, Get(u)', ~Get(u) PROVE FALSE
  BY <1>0, <1>3, EntryGain DEF Gain, Get
<1>4. CASE \A u \in Uploads : Get(u)' <=> Get(u)
  BY <1>1, <1>2, <1>4, StatusSame DEF Promise!vars
<1>5. ASSUME NEW u \in Uploads, Get(u), ~Get(u)' PROVE Promise!Close(u)
  <2>1. PICK q \in Procs : Lists(q, u, UploadJson)
    BY <1>0, <1>5, EntryLoss DEF Loss, Get
  <2>2. ~CommitUnlink(q)
    BY <1>0, <2>1 DEF CommitUnlink, Lists, Unlinkers, OthersOf, Procs
  <2>3. RmUnlink(q) /\ u = req[q].up
    BY <2>1, <2>2 DEF Lists
  <2>7. PICK e : Unlink(u, {e}) /\ story' = story
    BY <2>3 DEF RmUnlink
  <2>4. ~Get(u)' /\ \A v \in Uploads \ {u} : Get(v)' <=> Get(v)
    <3>1. entry' = [entry EXCEPT ![u] = @ \ {e}]
      BY <2>7 DEF Unlink
    <3>2. entry'[u] = entry[u] \ {e} /\ \A v \in Uploads \ {u} : entry'[v] = entry[v]
      BY <1>0, <3>1
    <3> QED BY <1>5, <3>2 DEF Get
  <2>5. story[u].life = "known"
    BY <1>5 DEF MetaInv
  <2>6. status[u] = "open" /\ status' = [status EXCEPT ![u] = "gone"]
    BY <1>5, <2>7, <2>4, <2>5 DEF status
  <2> QED BY <1>1, <1>2, <2>6 DEF Promise!Close
<1> QED BY <1>3, <1>4, <1>5 DEF Promise!Next

(* Multipart implements S3Upload.                                           *)
THEOREM PromiseImplemented == Spec => ImplementsPromise
<1>1. Init => Promise!Init
  BY NamesDistinct DEF Init, Promise!Init, status, staged, Get, NoStory, Dirs
<1>2. TypeInv /\ MetaInv /\ AssembledInv /\ Unlinkers /\ [Next]_vars => [Promise!Next]_(Promise!vars)
  BY Opened, Staged, StoredObject, Closed
<1>3. Spec => [](TypeInv /\ MetaInv /\ AssembledInv /\ Unlinkers)
  BY SafelyKept
<1> QED BY <1>1, <1>2, <1>3, PTL DEF Spec, ImplementsPromise, Promise!Spec
=============================================================================
