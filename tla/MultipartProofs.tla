-------------------------- MODULE MultipartProofs --------------------------
(* Proofs about Multipart for every value of its constants.                 *)
EXTENDS Multipart, TLAPS

(* What a program counter says of the other locals.                         *)
LocalsOK(r) ==
  /\ r.pc \notin {"idle", "sweep"} => r.up \in Uploads
  /\ r.pc \in {"mkdir", "open", "commit", "glob", "unlink", "sum"} => r.op = "part"
  /\ r.pc \in {"body", "spin", "scan"} => r.op \in {"part", "complete"}
  /\ r.pc \in {"commit", "glob", "unlink", "scan", "sum"} /\ r.op = "part" => r.part \in Parts
  /\ r.pc \in {"body", "spin", "commit"} => r.spool \in SpoolNames

ReqOK == req \in [Procs -> Locals] /\ \A p \in Procs : LocalsOK(req[p])
DiskOK == /\ dirs \subseteq Dirs
          /\ entry \in [Dirs -> SUBSET Entries]
          /\ mtime \in [Dirs -> [Entries -> Nat]]
          /\ touched \in [Dirs -> Nat]
RestOK == /\ now \in 0..MaxTime /\ crashes \in 0..MaxCrashes
          /\ cutoff \in Nat /\ targets \subseteq Uploads
          /\ object \in [Uploads -> Seq(Parts)]
          /\ story \in [Uploads -> Stories]
          /\ orphaned \subseteq SpoolNames
TypeInv == ReqOK /\ DiskOK /\ RestOK

LEMMA InitType == Init => TypeInv
  BY NamesDistinct, BoundsAreNumbers
  DEF Init, TypeInv, ReqOK, DiskOK, RestOK, LocalsOK, Locals, Idle, Labels, Ops, Stories, NoStory, Dirs, Procs

(* One process moves on to new locals r.                                    *)
LEMMA ReqMove ==
  ASSUME ReqOK, NEW p \in Procs, NEW r \in Locals, LocalsOK(r), req' = [req EXCEPT ![p] = r]
  PROVE  ReqOK'
  BY DEF ReqOK

LEMMA IdleOK == Idle \in Locals /\ LocalsOK(Idle)
  BY DEF Idle, Locals, LocalsOK, Labels, Ops

LEMMA FinishType ==
  ASSUME ReqOK, NEW p \in Procs, Finish(p) PROVE ReqOK'
  BY ReqMove, IdleOK DEF Finish

LEMMA BeginType ==
  ASSUME ReqOK, NEW p \in Procs, NEW op \in Ops, NEW u \in Uploads \cup {None}, NEW pc \in Labels,
         Begin(p, op, u, pc), LocalsOK([Idle EXCEPT !.op = op, !.up = u, !.pc = pc])
  PROVE  ReqOK'
<1>1. [Idle EXCEPT !.op = op, !.up = u, !.pc = pc] \in Locals
  BY IdleOK DEF Locals
<1> QED BY <1>1, ReqMove DEF Begin

LEMMA GotoType ==
  ASSUME ReqOK, NEW p \in Procs, NEW pc \in Labels, Goto(p, pc), LocalsOK([req[p] EXCEPT !.pc = pc])
  PROVE  ReqOK'
<1>1. [req[p] EXCEPT !.pc = pc] \in Locals
  BY DEF ReqOK, Locals
<1> QED BY <1>1, ReqMove DEF Goto

LEMMA UnlinkingLabel == ASSUME NEW S PROVE Unlinking(S) \in {"scan", "unlink"}
  BY DEF Unlinking

(* A commit turns to the files its glob has found, or goes on if none is    *)
(* left.                                                                    *)
LEMMA UnlinkingType ==
  ASSUME NEW r \in Locals, LocalsOK(r), r.pc \in {"glob", "unlink"}, NEW S \in SUBSET Entries,
         NEW t, t = [r EXCEPT !.pc = Unlinking(S), !.todo = S]
  PROVE  t \in Locals /\ LocalsOK(t)
<1>1. Unlinking(S) \in {"scan", "unlink"}
  BY UnlinkingLabel
<1>2. t \in Locals
  BY <1>1 DEF Locals, Labels
<1>3. t.pc = Unlinking(S) /\ t.op = r.op /\ t.up = r.up /\ t.part = r.part
  BY DEF Locals
<1>4. r.op = "part" /\ r.up \in Uploads /\ r.part \in Parts
  BY DEF LocalsOK
<1>5. LocalsOK(t)
  BY <1>1, <1>3, <1>4 DEF LocalsOK
<1> QED BY <1>2, <1>5

LEMMA ReqStep == TypeInv /\ [Next]_vars => ReqOK'
<1> SUFFICES ASSUME TypeInv, [Next]_vars PROVE ReqOK'
  OBVIOUS
<1>0. ReqOK /\ DiskOK /\ Requests \subseteq Procs /\ Sweeper \in Procs
  BY DEF TypeInv, Procs
<1>1. ASSUME NEW p \in Requests, CreateMkdir(p) PROVE ReqOK'
  BY <1>0, <1>1, BeginType DEF CreateMkdir, LocalsOK, Idle, Labels, Ops
<1>2. ASSUME NEW p \in Requests, CreateMeta(p) \/ SpoolFail(p) \/ CommitFailed(p) \/ PartSum(p) \/ PutFailed(p)
      PROVE ReqOK'
  BY <1>0, <1>2, FinishType DEF CreateMeta, SpoolFail, CommitFailed, PartSum, PutFailed
<1>3. ASSUME NEW p \in Requests, UploadPart(p) PROVE ReqOK'
  BY <1>0, <1>3, BeginType DEF UploadPart, LocalsOK, Idle, Labels, Ops
<1>4. ASSUME NEW p \in Requests, SpoolMkdir(p) \/ BodySpins(p) PROVE ReqOK'
  BY <1>0, <1>4, GotoType DEF SpoolMkdir, BodySpins, ReqOK, Locals, LocalsOK, Labels
<1>5. ASSUME NEW p \in Requests, SpoolOpen(p) PROVE ReqOK'
  <2>1. ASSUME NEW s \in SpoolNames, req' = [req EXCEPT ![p].pc = "body", ![p].spool = s] PROVE ReqOK'
    <3> DEFINE r == [req[p] EXCEPT !.pc = "body", !.spool = s]
    <3>1. r \in Locals /\ LocalsOK(r)
      BY <1>0, <1>5 DEF SpoolOpen, ReqOK, Locals, LocalsOK, Labels
    <3>2. req' = [req EXCEPT ![p] = r]
      BY <1>0, <2>1 DEF ReqOK, Locals
    <3> QED BY <1>0, <3>1, <3>2, ReqMove
  <2> QED BY <1>0, <1>5, <2>1, FinishType DEF SpoolOpen
<1>6. ASSUME NEW p \in Requests, PartSpooled(p) PROVE ReqOK'
  <2> PICK part \in Parts : req' = [req EXCEPT ![p].pc = "commit", ![p].part = part]
    BY <1>6 DEF PartSpooled
  <2> DEFINE r == [req[p] EXCEPT !.pc = "commit", !.part = part]
  <2>1. req[p] \in Locals /\ LocalsOK(req[p]) /\ req[p].pc = "body" /\ req[p].op = "part"
    BY <1>0, <1>6 DEF PartSpooled, ReqOK
  <2>2. r \in Locals
    BY <2>1 DEF Locals, Labels
  <2>3. /\ r.pc = "commit" /\ r.op = "part" /\ r.part = part
        /\ r.up = req[p].up /\ r.spool = req[p].spool
    BY <2>1 DEF Locals
  <2>4. LocalsOK(r)
    BY <2>1, <2>3 DEF LocalsOK
  <2>5. req' = [req EXCEPT ![p] = r]
    BY <1>0 DEF ReqOK, Locals
  <2> QED BY <1>0, <2>2, <2>4, <2>5, ReqMove
<1>7. ASSUME NEW p \in Requests, CommitReplace(p) PROVE ReqOK'
  <2> DEFINE r == [req[p] EXCEPT !.pc = "glob", !.spool = None]
  <2>1. r \in Locals /\ LocalsOK(r)
    BY <1>0, <1>7 DEF CommitReplace, ReqOK, Locals, LocalsOK, Labels
  <2>2. req' = [req EXCEPT ![p] = r]
    BY <1>0, <1>7 DEF CommitReplace, ReqOK, Locals
  <2> QED BY <1>0, <2>1, <2>2, ReqMove
<1>8. ASSUME NEW p \in Requests, CommitGlob(p) PROVE ReqOK'
  <2> PICK stale \in SUBSET Entries : req' = [req EXCEPT ![p].pc = Unlinking(stale), ![p].todo = stale]
    BY <1>8 DEF CommitGlob, Entries
  <2> DEFINE t == [req[p] EXCEPT !.pc = Unlinking(stale), !.todo = stale]
  <2>1. req[p] \in Locals /\ LocalsOK(req[p]) /\ req[p].pc = "glob"
    BY <1>0, <1>8 DEF CommitGlob, ReqOK
  <2>2. t \in Locals /\ LocalsOK(t)
    BY <2>1, UnlinkingType
  <2>3. req' = [req EXCEPT ![p] = t]
    BY <1>0 DEF ReqOK, Locals
  <2> QED BY <1>0, <2>2, <2>3, ReqMove
<1>9. ASSUME NEW p \in Requests, CommitUnlink(p) PROVE ReqOK'
  <2> PICK e \in req[p].todo : req' = [req EXCEPT ![p].pc = Unlinking(req[p].todo \ {e}), ![p].todo = @ \ {e}]
    BY <1>9 DEF CommitUnlink
  <2> DEFINE S == req[p].todo \ {e}
             t == [req[p] EXCEPT !.pc = Unlinking(S), !.todo = S]
  <2>1. req[p] \in Locals /\ LocalsOK(req[p]) /\ req[p].pc = "unlink"
    BY <1>0, <1>9 DEF CommitUnlink, ReqOK
  <2>2. S \in SUBSET Entries
    BY <2>1 DEF Locals
  <2>3. t \in Locals /\ LocalsOK(t)
    BY <2>1, <2>2, UnlinkingType
  <2>4. req' = [req EXCEPT ![p] = t]
    BY <1>0 DEF ReqOK, Locals
  <2> QED BY <1>0, <2>3, <2>4, ReqMove
<1>10. ASSUME NEW p \in Requests, Scan(p) PROVE ReqOK'
  <2> DEFINE r == [req[p] EXCEPT !.pc = IF req[p].op = "part" THEN "sum" ELSE "assemble",
                                 !.todo = entry[req[p].up] \cap Parts]
  <2>1. r \in Locals /\ LocalsOK(r)
    BY <1>0, <1>10 DEF Scan, ReqOK, Locals, LocalsOK, Labels, Entries
  <2>2. CASE Finish(p)
    BY <1>0, <2>2, FinishType
  <2>3. CASE ~Finish(p)
    <3>1. req' = [req EXCEPT ![p] = r]
      BY <1>0, <1>10, <2>3 DEF Scan, ReqOK, Locals
    <3> QED BY <1>0, <2>1, <3>1, ReqMove
  <2> QED BY <2>2, <2>3
<1>11. ASSUME NEW p \in Requests, BodyRead(p) PROVE ReqOK'
  <2> DEFINE r == [req[p] EXCEPT !.pc = "scan", !.spool = None]
  <2>1. r \in Locals /\ LocalsOK(r)
    BY <1>0, <1>11 DEF BodyRead, ReqOK, Locals, LocalsOK, Labels
  <2>2. CASE Finish(p)
    BY <1>0, <2>2, FinishType
  <2>3. CASE ~Finish(p)
    <3>1. req' = [req EXCEPT ![p] = r]
      BY <1>0, <1>11, <2>3 DEF BodyRead, ReqOK, Locals
    <3> QED BY <1>0, <2>1, <3>1, ReqMove
  <2> QED BY <2>2, <2>3
<1>12. ASSUME NEW p \in Requests, Assemble(p) PROVE ReqOK'
  <2>1. ASSUME NEW list \in Seq(Parts),
               req' = [req EXCEPT ![p].pc = "put", ![p].want = list, ![p].passes = 1, ![p].todo = {}]
        PROVE  ReqOK'
    <3> DEFINE r == [req[p] EXCEPT !.pc = "put", !.want = list, !.passes = 1, !.todo = {}]
    <3>1. r \in Locals /\ LocalsOK(r)
      BY <1>0, <1>12 DEF Assemble, ReqOK, Locals, LocalsOK, Labels
    <3>2. req' = [req EXCEPT ![p] = r]
      BY <1>0, <2>1 DEF ReqOK, Locals
    <3> QED BY <1>0, <3>1, <3>2, ReqMove
  <2>2. PartLists \subseteq Seq(Parts)
    BY BoundsAreNumbers DEF PartLists
  <2> QED BY <1>0, <1>12, <2>1, <2>2, FinishType DEF Assemble
<1>13. ASSUME NEW p \in Requests, PutRead(p) PROVE ReqOK'
  <2> DEFINE r == [req[p] EXCEPT !.pos = @ + 1]
  <2>1. r \in Locals /\ LocalsOK(r)
    <3>1. r \in Locals
      <4>1. req[p] \in Locals /\ req[p].pos \in Nat
        BY <1>0 DEF ReqOK, Locals
      <4>2. PICK n \in Nat : n = req[p].pos + 1
        BY <4>1
      <4>3. [req[p] EXCEPT !.pos = n] \in Locals
        BY <4>1 DEF Locals
      <4> QED BY <4>2, <4>3
    <3>2. LocalsOK(r)
      BY <1>0, <1>13 DEF PutRead, ReqOK, Locals, LocalsOK
    <3> QED BY <3>1, <3>2
  <2>2. CASE Finish(p)
    BY <1>0, <2>2, FinishType
  <2>3. CASE ~Finish(p)
    <3>1. req' = [req EXCEPT ![p] = r]
      BY <1>0, <1>13, <2>3 DEF PutRead, ReqOK, Locals
    <3> QED BY <1>0, <2>1, <3>1, ReqMove
  <2> QED BY <2>2, <2>3
<1>14. ASSUME NEW p \in Requests, PutRewind(p) PROVE ReqOK'
  <2> DEFINE r == [req[p] EXCEPT !.pos = 0, !.passes = @ + 1]
  <2>1. r \in Locals /\ LocalsOK(r)
    <3>1. req[p] \in Locals /\ req[p].passes \in Nat
      BY <1>0 DEF ReqOK, Locals
    <3>2. PICK n \in Nat : n = req[p].passes + 1
      BY <3>1
    <3>3. [req[p] EXCEPT !.pos = 0, !.passes = n] \in Locals
      BY <3>1 DEF Locals
    <3>4. LocalsOK(r)
      BY <1>0, <1>14 DEF PutRewind, ReqOK, Locals, LocalsOK
    <3> QED BY <3>2, <3>3, <3>4
  <2>2. req' = [req EXCEPT ![p] = r]
    BY <1>0, <1>14 DEF PutRewind, ReqOK, Locals
  <2> QED BY <1>0, <2>1, <2>2, ReqMove
<1>15. ASSUME NEW p \in Requests, PutStored(p) PROVE ReqOK'
  <2>1. LocalsOK([req[p] EXCEPT !.pc = "rmlist"])
    BY <1>0, <1>15 DEF PutStored, ReqOK, Locals, LocalsOK
  <2> QED BY <1>0, <1>15, <2>1, FinishType, GotoType DEF PutStored, Labels
<1>16. ASSUME NEW p \in Requests, Complete(p) PROVE ReqOK'
  <2> PICK u \in Uploads, s \in SpoolNames :
        req' = [req EXCEPT ![p] = [Idle EXCEPT !.op = "complete", !.up = u, !.pc = "body", !.spool = s]]
    BY <1>16 DEF Complete
  <2> DEFINE r == [Idle EXCEPT !.op = "complete", !.up = u, !.pc = "body", !.spool = s]
  <2>1. r \in Locals /\ LocalsOK(r)
    BY IdleOK DEF Locals, LocalsOK, Labels, Ops
  <2> QED BY <1>0, <2>1, ReqMove
<1>17. ASSUME NEW p \in Requests, Abort(p) PROVE ReqOK'
  BY <1>0, <1>17, BeginType DEF Abort, LocalsOK, Idle, Labels, Ops
<1>18. ASSUME NEW p \in Procs, RmList(p) PROVE ReqOK'
  <2> DEFINE r == [req[p] EXCEPT !.pc = "rm", !.todo = entry[req[p].up]]
  <2>1. r \in Locals /\ LocalsOK(r)
    BY <1>0, <1>18 DEF RmList, ReqOK, DiskOK, Locals, LocalsOK, Labels, Dirs
  <2>2. req' = [req EXCEPT ![p] = r]
    BY <1>0, <1>18 DEF RmList, ReqOK, Locals
  <2> QED BY <1>0, <2>1, <2>2, ReqMove
<1>19. ASSUME NEW p \in Procs, RmUnlink(p) PROVE ReqOK'
  <2> PICK e \in req[p].todo : req' = [req EXCEPT ![p].todo = @ \ {e}]
    BY <1>19 DEF RmUnlink
  <2> DEFINE r == [req[p] EXCEPT !.todo = @ \ {e}]
  <2>1. req[p] \in Locals /\ LocalsOK(req[p]) /\ req[p].pc = "rm"
    BY <1>0, <1>19 DEF RmUnlink, ReqOK
  <2>2. r \in Locals
    BY <2>1 DEF Locals
  <2>3. r.pc = "rm" /\ r.up = req[p].up
    BY <2>1 DEF Locals
  <2>4. LocalsOK(r)
    BY <2>1, <2>3 DEF LocalsOK
  <2>5. req' = [req EXCEPT ![p] = r]
    BY <1>0 DEF ReqOK, Locals
  <2> QED BY <1>0, <2>2, <2>4, <2>5, ReqMove
<1>20. ASSUME NEW p \in Procs, RmDir(p) PROVE ReqOK'
  BY <1>0, <1>20, FinishType, BeginType DEF RmDir, LocalsOK, Idle, Labels, Ops
<1>21. ASSUME SweepStart \/ SweepCheck \/ SweepDone PROVE ReqOK'
  <2>1. targets \subseteq Uploads
    BY DEF TypeInv, RestOK
  <2>2. ASSUME NEW d \in Uploads PROVE LocalsOK([Idle EXCEPT !.op = "sweep", !.up = d, !.pc = "rmlist"])
    BY DEF LocalsOK, Idle
  <2>3. LocalsOK([Idle EXCEPT !.op = "sweep", !.up = None, !.pc = "sweep"])
    BY DEF LocalsOK, Idle
  <2>4. CASE SweepStart
    BY <1>0, <2>3, <2>4, BeginType DEF SweepStart, Labels, Ops
  <2>5. CASE SweepCheck
    <3>1. PICK d \in targets : Begin(Sweeper, "sweep", d, "rmlist") \/ UNCHANGED req
      BY <2>5 DEF SweepCheck
    <3> QED BY <1>0, <2>1, <2>2, <3>1, BeginType DEF Labels, Ops, ReqOK
  <2>6. CASE SweepDone
    BY <1>0, <2>6, FinishType DEF SweepDone
  <2> QED BY <1>21, <2>4, <2>5, <2>6
<1>22. CASE Crash
  BY <1>22, IdleOK DEF Crash, ReqOK
<1>23. CASE Tick \/ UNCHANGED vars
  BY <1>0, <1>23 DEF Tick, vars, ReqOK
<1> QED
  BY <1>0, <1>1, <1>2, <1>3, <1>4, <1>5, <1>6, <1>7, <1>8, <1>9, <1>10, <1>11, <1>12, <1>13, <1>14,
     <1>15, <1>16, <1>17, <1>18, <1>19, <1>20, <1>21, <1>22, <1>23
  DEF Next, Arrive, Advance, Sweep, Remove, Spin

LEMMA MkdirType ==
  ASSUME DiskOK, NEW d \in Dirs, Mkdir(d), now \in Nat PROVE DiskOK'
  BY DEF DiskOK, Mkdir

LEMMA StoreType ==
  ASSUME DiskOK, NEW d \in Dirs, NEW e \in Entries, Store(d, e), now \in Nat PROVE DiskOK'
  BY DEF DiskOK, Store

LEMMA UnlinkType ==
  ASSUME DiskOK, NEW d \in Dirs, NEW E, Unlink(d, E), now \in Nat PROVE DiskOK'
  BY DEF DiskOK, Unlink

LEMMA DiskStep == TypeInv /\ [Next]_vars => DiskOK'
<1> SUFFICES ASSUME TypeInv, [Next]_vars PROVE DiskOK'
  OBVIOUS
<1>0. /\ ReqOK /\ DiskOK /\ Requests \subseteq Procs /\ Sweeper \in Procs
      /\ now \in Nat /\ Uploads \subseteq Dirs /\ Tmp \in Dirs /\ SpoolNames \subseteq Entries
      /\ \A p \in Procs : req[p].pc \notin {"idle", "sweep"} => req[p].up \in Dirs
  BY BoundsAreNumbers DEF TypeInv, RestOK, ReqOK, LocalsOK, Procs, Dirs, Entries
<1>1. ASSUME NEW p \in Requests, CreateMkdir(p) \/ SpoolMkdir(p) PROVE DiskOK'
  BY <1>0, <1>1, MkdirType DEF CreateMkdir, SpoolMkdir
<1>2. ASSUME NEW p \in Requests, CreateMeta(p) PROVE DiskOK'
  BY <1>0, <1>2, StoreType DEF CreateMeta, disk, DiskOK, Entries
<1>3. ASSUME NEW p \in Requests, SpoolOpen(p) \/ Complete(p) PROVE DiskOK'
  BY <1>0, <1>3, StoreType DEF SpoolOpen, Complete, disk, DiskOK
<1>4. ASSUME NEW p \in Requests, SpoolFail(p) \/ CommitFailed(p) \/ BodyRead(p) PROVE DiskOK'
  BY <1>0, <1>4, UnlinkType DEF SpoolFail, CommitFailed, BodyRead, Home
<1>5. ASSUME NEW p \in Procs, CommitUnlink(p) \/ RmUnlink(p) PROVE DiskOK'
  BY <1>0, <1>5, UnlinkType DEF CommitUnlink, RmUnlink
<1>6. ASSUME NEW p \in Requests, PartSpooled(p) PROVE DiskOK'
  BY <1>0, <1>6 DEF PartSpooled, DiskOK
<1>7. ASSUME NEW p \in Requests, CommitReplace(p) PROVE DiskOK'
  <2>1. req[p].part \in Entries
    BY <1>0, <1>7 DEF CommitReplace, ReqOK, LocalsOK, Entries
  <2> QED BY <1>0, <1>7, <2>1 DEF CommitReplace, DiskOK
<1>8. ASSUME NEW p \in Procs, RmDir(p) PROVE DiskOK'
  BY <1>0, <1>8 DEF RmDir, DiskOK
<1>9. CASE SweepStart
  BY <1>0, <1>9, UnlinkType DEF SweepStart
<1>10. ASSUME UNCHANGED disk PROVE DiskOK'
  BY <1>0, <1>10 DEF disk, DiskOK
<1>11. CASE SweepCheck \/ SweepDone \/ Tick \/ Crash \/ UNCHANGED vars
  BY <1>10, <1>11 DEF SweepCheck, SweepDone, Tick, Crash, vars
<1>12. ASSUME NEW p \in Procs,
              UploadPart(p) \/ BodySpins(p) \/ Abort(p) \/ CommitGlob(p) \/ Scan(p) \/ PartSum(p) \/ Assemble(p) \/ PutRead(p)
              \/ PutRewind(p) \/ PutFailed(p) \/ PutStored(p) \/ RmList(p)
       PROVE  DiskOK'
  BY <1>10, <1>12 DEF UploadPart, BodySpins, Abort, CommitGlob, Scan, PartSum, Assemble, PutRead, PutRewind, PutFailed,
                      PutStored, RmList
<1> QED
  BY <1>0, <1>1, <1>2, <1>3, <1>4, <1>5, <1>6, <1>7, <1>8, <1>9, <1>11, <1>12
  DEF Next, Arrive, Advance, Sweep, Remove, Spin

(* A story stays one when one of its fields changes.                        *)
LEMMA StoryLife ==
  ASSUME RestOK, NEW u \in Uploads, NEW l \in {"unused", "issued", "known"}
  PROVE  [story EXCEPT ![u].life = l] \in [Uploads -> Stories]
<1>1. story \in [Uploads -> Stories] /\ story[u] \in Stories
  BY DEF RestOK
<1>2. [story[u] EXCEPT !.life = l] \in Stories
  BY <1>1 DEF Stories
<1> QED BY <1>1, <1>2

LEMMA StoryAcked ==
  ASSUME RestOK, NEW u \in Uploads, NEW N \in SUBSET PartNumbers
  PROVE  [story EXCEPT ![u].acked = N] \in [Uploads -> Stories]
<1>1. story \in [Uploads -> Stories] /\ story[u] \in Stories
  BY DEF RestOK
<1>2. [story[u] EXCEPT !.acked = N] \in Stories
  BY <1>1 DEF Stories
<1> QED BY <1>1, <1>2

LEMMA StoryRemoval ==
  ASSUME RestOK, NEW u \in Uploads, NEW R \in SUBSET {"abort", "complete", "sweep"}
  PROVE  [story EXCEPT ![u].removal = R] \in [Uploads -> Stories]
<1>1. story \in [Uploads -> Stories] /\ story[u] \in Stories
  BY DEF RestOK
<1>2. [story[u] EXCEPT !.removal = R] \in Stories
  BY <1>1 DEF Stories
<1> QED BY <1>1, <1>2

LEMMA StoryEnded ==
  ASSUME RestOK, NEW u \in Uploads
  PROVE  [story EXCEPT ![u].ended = TRUE] \in [Uploads -> Stories]
<1>1. story \in [Uploads -> Stories] /\ story[u] \in Stories
  BY DEF RestOK
<1>2. [story[u] EXCEPT !.ended = TRUE] \in Stories
  BY <1>1 DEF Stories
<1> QED BY <1>1, <1>2

LEMMA StoryStaged ==
  ASSUME RestOK, NEW u \in Uploads, NEW P \in SUBSET Parts, NEW N \in SUBSET PartNumbers
  PROVE  [story EXCEPT ![u].staged = P, ![u].contended = N] \in [Uploads -> Stories]
<1>1. story \in [Uploads -> Stories] /\ story[u] \in Stories
  BY DEF RestOK
<1>2. [story[u] EXCEPT !.staged = P, !.contended = N] \in Stories
  BY <1>1 DEF Stories
<1>3. [story EXCEPT ![u].staged = P, ![u].contended = N]
        = [story EXCEPT ![u] = [story[u] EXCEPT !.staged = P, !.contended = N]]
  BY <1>1 DEF Stories
<1> QED BY <1>1, <1>2, <1>3

LEMMA RestStep == TypeInv /\ [Next]_vars => RestOK'
<1> SUFFICES ASSUME TypeInv, [Next]_vars PROVE RestOK'
  OBVIOUS
<1>0. /\ ReqOK /\ DiskOK /\ RestOK /\ Requests \subseteq Procs /\ Sweeper \in Procs
      /\ \A p \in Procs : req[p].pc \notin {"idle", "sweep"} => req[p].up \in Uploads
  BY DEF TypeInv, ReqOK, LocalsOK, Procs
<1>1. ASSUME UNCHANGED <<env, sweepVars, object, story>> PROVE RestOK'
  BY <1>0, <1>1 DEF env, sweepVars, RestOK
<1>2. ASSUME UNCHANGED <<env, sweepVars, object>>, story' \in [Uploads -> Stories] PROVE RestOK'
  BY <1>0, <1>2 DEF env, sweepVars, RestOK
<1>3. ASSUME NEW p \in Procs,
             \/ UploadPart(p) \/ Complete(p) \/ SpoolMkdir(p) \/ SpoolOpen(p) \/ SpoolFail(p) \/ BodySpins(p) \/ PartSpooled(p)
             \/ CommitFailed(p) \/ CommitGlob(p) \/ CommitUnlink(p) \/ Scan(p) \/ BodyRead(p) \/ Assemble(p)
             \/ PutRead(p) \/ PutRewind(p) \/ PutFailed(p) \/ RmList(p) \/ RmUnlink(p)
      PROVE  RestOK'
  BY <1>1, <1>3 DEF UploadPart, Complete, SpoolMkdir, SpoolOpen, SpoolFail, BodySpins, PartSpooled, CommitFailed, CommitGlob,
     CommitUnlink, Scan, BodyRead, Assemble, PutRead, PutRewind, PutFailed, RmList, RmUnlink
<1>4. ASSUME NEW p \in Requests, CreateMkdir(p) PROVE RestOK'
  <2>1. PICK u \in Uploads : story' = [story EXCEPT ![u].life = "issued"]
    BY <1>4 DEF CreateMkdir
  <2>2. story' \in [Uploads -> Stories]
    BY <1>0, <2>1, StoryLife
  <2> QED BY <1>2, <1>4, <2>2 DEF CreateMkdir
<1>5. ASSUME NEW p \in Requests, CreateMeta(p) PROVE RestOK'
  <2>1. req[p].up \in Uploads
    BY <1>0, <1>5 DEF CreateMeta
  <2>2. [story EXCEPT ![req[p].up].life = "known"] \in [Uploads -> Stories]
    BY <1>0, <2>1, StoryLife
  <2>3. story' \in [Uploads -> Stories]
    BY <1>0, <1>5, <2>2 DEF CreateMeta, RestOK
  <2> QED BY <1>2, <1>5, <2>3 DEF CreateMeta
<1>6. ASSUME NEW p \in Requests, CommitReplace(p) PROVE RestOK'
  <2> DEFINE u == req[p].up  part == req[p].part
             clash == \E q \in Requests \ {p} : CommitsSameNumber(q, u, part)
             P == story[u].staged \cup {part}
             N == IF clash THEN story[u].contended \cup {part.number} ELSE story[u].contended
  <2>1. u \in Uploads /\ part \in Parts /\ part.number \in PartNumbers
    BY <1>0, <1>6 DEF CommitReplace, ReqOK, LocalsOK, Parts
  <2>2. P \in SUBSET Parts /\ N \in SUBSET PartNumbers
    BY <1>0, <2>1 DEF RestOK, Stories
  <2>3. story' = [story EXCEPT ![u].staged = P, ![u].contended = N]
    BY <1>0, <1>6, <2>1 DEF CommitReplace, RestOK, Stories
  <2>4. [story EXCEPT ![u].staged = P, ![u].contended = N] \in [Uploads -> Stories]
    BY <1>0, <2>1, <2>2, StoryStaged
  <2> QED BY <1>2, <1>6, <2>3, <2>4 DEF CommitReplace
<1>7. ASSUME NEW p \in Requests, PartSum(p) PROVE RestOK'
  <2>1. req[p].up \in Uploads /\ req[p].part.number \in PartNumbers
    BY <1>0, <1>7 DEF PartSum, ReqOK, LocalsOK, Parts
  <2>2. story[req[p].up].acked \cup {req[p].part.number} \in SUBSET PartNumbers
    BY <1>0, <2>1 DEF RestOK, Stories
  <2>3. [story EXCEPT ![req[p].up].acked = @ \cup {req[p].part.number}] \in [Uploads -> Stories]
    BY <1>0, <2>1, <2>2, StoryAcked
  <2>4. story' \in [Uploads -> Stories]
    BY <1>0, <1>7, <2>3 DEF PartSum, RestOK
  <2> QED BY <1>2, <1>7, <2>4 DEF PartSum
<1>8. ASSUME NEW u \in Uploads, NEW why \in {"abort", "complete", "sweep"}
      PROVE  [story EXCEPT ![u].removal = @ \cup {why}] \in [Uploads -> Stories]
  <2>1. story[u].removal \cup {why} \in SUBSET {"abort", "complete", "sweep"}
    BY <1>0 DEF RestOK, Stories
  <2> QED BY <1>0, <2>1, StoryRemoval
<1>9. ASSUME NEW p \in Requests, PutStored(p) PROVE RestOK'
  <2>1. req[p].up \in Uploads /\ req[p].want \in Seq(Parts)
    BY <1>0, <1>9 DEF PutStored, ReqOK, Locals
  <2>2. story' \in [Uploads -> Stories]
    <3>1. story \in [Uploads -> Stories]
      BY <1>0 DEF RestOK
    <3>2. story' = story \/ story' = [story EXCEPT ![req[p].up].removal = @ \cup {"complete"}]
      BY <1>9 DEF PutStored
    <3>3. [story EXCEPT ![req[p].up].removal = @ \cup {"complete"}] \in [Uploads -> Stories]
      BY <1>8, <2>1
    <3> QED BY <3>1, <3>2, <3>3
  <2>3. object' \in [Uploads -> Seq(Parts)]
    BY <1>0, <1>9, <2>1 DEF PutStored, RestOK
  <2>4. UNCHANGED <<env, sweepVars>>
    BY <1>9 DEF PutStored
  <2> QED BY <1>0, <2>2, <2>3, <2>4 DEF RestOK, env, sweepVars
<1>10. ASSUME NEW p \in Requests, Abort(p) PROVE RestOK'
  BY <1>2, <1>8, <1>10 DEF Abort
<1>11. ASSUME NEW p \in Procs, RmDir(p) PROVE RestOK'
  <2>1. req[p].up \in Uploads
    BY <1>0, <1>11 DEF RmDir
  <2>2. [story EXCEPT ![req[p].up].ended = TRUE] \in [Uploads -> Stories]
    BY <1>0, <2>1, StoryEnded
  <2>3. story' \in [Uploads -> Stories]
    BY <1>0, <1>11, <2>2 DEF RmDir, RestOK
  <2> QED BY <1>2, <1>11, <2>3 DEF RmDir
<1>12. CASE SweepStart
  <2>1. dirs \ {Tmp} \subseteq Uploads /\ now \in Nat
    BY <1>0, BoundsAreNumbers DEF DiskOK, Dirs, RestOK
  <2> QED BY <1>0, <1>12, <2>1 DEF SweepStart, env, RestOK
<1>17. CASE SweepCheck
  <2>1. story' \in [Uploads -> Stories]
    <3>1. story \in [Uploads -> Stories] /\ targets \subseteq Uploads
      BY <1>0 DEF RestOK
    <3>2. PICK d \in targets : story' = story \/ story' = [story EXCEPT ![d].removal = @ \cup {"sweep"}]
      BY <1>17 DEF SweepCheck
    <3>3. [story EXCEPT ![d].removal = @ \cup {"sweep"}] \in [Uploads -> Stories]
      BY <1>8, <3>1
    <3> QED BY <3>1, <3>2, <3>3
  <2>2. targets' \subseteq Uploads
    BY <1>0, <1>17 DEF SweepCheck, RestOK
  <2>3. UNCHANGED <<env, cutoff, object>>
    BY <1>17 DEF SweepCheck
  <2> QED BY <1>0, <2>1, <2>2, <2>3 DEF env, RestOK
<1>13. CASE SweepDone
  BY <1>1, <1>13 DEF SweepDone
<1>14. CASE Tick
  BY <1>0, <1>14, BoundsAreNumbers DEF Tick, RestOK, sweepVars
<1>15. CASE Crash
  BY <1>0, <1>15, BoundsAreNumbers DEF Crash, RestOK
<1>16. CASE UNCHANGED vars
  BY <1>1, <1>16 DEF vars
<1> QED
  BY <1>0, <1>3, <1>4, <1>5, <1>6, <1>7, <1>8, <1>9, <1>10, <1>11, <1>12, <1>13, <1>14, <1>15, <1>16, <1>17
  DEF Next, Arrive, Advance, Sweep, Remove, Spin

LEMMA NextType == TypeInv /\ [Next]_vars => TypeInv'
  BY ReqStep, DiskStep, RestStep DEF TypeInv

(* The variables and the locals of every process keep their types.          *)
THEOREM TypeCorrect == Spec => []TypeOK
<1>1. TypeInv => TypeOK
  BY DEF TypeInv, TypeOK, ReqOK, DiskOK, RestOK
<1> QED BY <1>1, InitType, NextType, PTL DEF Spec
=============================================================================
