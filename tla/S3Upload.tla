------------------------------ MODULE S3Upload ------------------------------
(***************************************************************************)
(* What S3 promises of multipart uploads, with no directory, spool, thread  *)
(* or sweep in it: an upload id is opened once and gone for good once it is *)
(* closed, and a stored object is a list of parts staged for that upload,   *)
(* in ascending order, none but the last small, within the cap.             *)
(***************************************************************************)
EXTENDS Integers, Sequences, FiniteSetsExt

CONSTANTS Uploads, PartNumbers, Bytes, Size, MinPartBytes, MaxObjectBytes, MaxListed

Parts == [number : PartNumbers, etag : Bytes]

VARIABLES status, staged, object

vars == <<status, staged, object>>

Init ==
  /\ status = [u \in Uploads |-> "none"]
  /\ staged = [u \in Uploads |-> {}]
  /\ object = [u \in Uploads |-> <<>>]

Open(u) ==
  /\ status[u] = "none"
  /\ status' = [status EXCEPT ![u] = "open"]
  /\ UNCHANGED <<staged, object>>

Stage(u) ==
  /\ status[u] # "none"
  /\ \E part \in Parts : staged' = [staged EXCEPT ![u] = @ \cup {part}]
  /\ UNCHANGED <<status, object>>

WellFormed(list) ==
  /\ \A i \in 1..(Len(list) - 1) : /\ list[i].number < list[i + 1].number
                                   /\ Size[list[i].etag] >= MinPartBytes
  /\ MapThenSumSet(LAMBDA i : Size[list[i].etag], DOMAIN list) <= MaxObjectBytes

(* A PUT already streaming may still land after the upload was aborted.     *)
StoreObject(u) ==
  /\ status[u] # "none"
  /\ \E n \in 1..MaxListed : \E list \in [1..n -> staged[u]] :
       WellFormed(list) /\ object' = [object EXCEPT ![u] = list]
  /\ UNCHANGED <<status, staged>>

Close(u) ==
  /\ status[u] = "open"
  /\ status' = [status EXCEPT ![u] = "gone"]
  /\ UNCHANGED <<staged, object>>

Next == \E u \in Uploads : Open(u) \/ Stage(u) \/ StoreObject(u) \/ Close(u)

Spec == Init /\ [][Next]_vars
=============================================================================
