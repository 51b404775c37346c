---------------------------- MODULE SeekableFile ----------------------------
(***************************************************************************)
(* One file open for reading, as io.RawIOBase promises it: a read returns   *)
(* the bytes that follow the position, at least one while there are any and *)
(* no more than asked for, and leaves the position after them; a seek only  *)
(* moves the position; a read that fails returns nothing and moves nothing, *)
(* and what follows it is as if it had not been tried.                      *)
(***************************************************************************)
EXTENDS Integers, Sequences

CONSTANTS Bytes, MaxBuffer

VARIABLES content, position, got, last

vars == <<content, position, got, last>>

Init == content = <<>> /\ position = 0 /\ got = <<>> /\ last = "closed"

Open ==
  /\ content' \in Seq(Bytes) /\ position' = 0 /\ got' = <<>>
  /\ last' = "open"

Read ==
  /\ last # "closed" /\ last' = "read"
  /\ IF position < Len(content)
     THEN /\ position' \in position + 1..Len(content)
          /\ position' <= position + MaxBuffer
     ELSE position' = position
  /\ got' = SubSeq(content, position + 1, position')
  /\ UNCHANGED content

Seek ==
  /\ last # "closed" /\ last' = "seek"
  /\ position' \in Nat /\ got' = <<>>
  /\ UNCHANGED content

Fail ==
  /\ last # "closed" /\ last' = "failed"
  /\ got' = <<>>
  /\ UNCHANGED <<content, position>>

Close == last' = "closed" /\ content' = <<>> /\ position' = 0 /\ got' = <<>>

Next == Open \/ Read \/ Seek \/ Fail \/ Close

Spec == Init /\ [][Next]_vars
=============================================================================
