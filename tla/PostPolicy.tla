----------------------------- MODULE PostPolicy -----------------------------
(***************************************************************************)
(* routes/post.py, auth/post_policy.py and validate_key: the owner of the   *)
(* secret signs a policy, somebody fills the form it allows, and the file   *)
(* is stored under a key that is made from the form and from the file's     *)
(* name. A key is the sequence of the segments its slashes separate.        *)
(***************************************************************************)
EXTENDS Integers, SequencesExt

CONSTANTS
  Policies,        \* [bucket, exact, prefix, low, high, expiration]; <<>> is no condition
  Buckets,
  FormKeys,        \* what the key field of a form holds
  FileNames,       \* names files are uploaded with
  MaxUpload,         \* bound: the size of a file
  MaxObject,       \* settings.max_object_bytes
  MaxWait          \* bound: ticks from signing to posting

(* What a key or a name of a file is split into is one segment at least.    *)
ASSUME KeysAreSplit ==
  FormKeys \subseteq Seq(STRING) \ {<<>>} /\ FileNames \subseteq Seq(STRING) \ {<<>>}

ASSUME PostParameters == MaxUpload \in Nat /\ MaxObject \in Nat /\ MaxWait \in Nat

VARIABLES
  clock,    \* ticks since the policy was signed
  signed,   \* the policy and who signed it
  form,     \* what is posted
  outcome   \* "none", "signed", "filled", "stored" or "denied"

postVars == <<clock, signed, form, outcome>>

FileName == "${filename}"
Blanks == {" a", "a "}
Dots == {".", ".."}
Escapes == {"a%61"}

-----------------------------------------------------------------------------
(* key.replace("${filename}", upload.filename)                              *)
Expanded(f) ==
  FlattenSeq([i \in DOMAIN f.key |-> IF f.key[i] = FileName THEN f.filename ELSE <<f.key[i]>>])

(* Mutant: the segments are looked at, what ends the key is not.            *)
StorableWithin(key) ==
  /\ key # <<"">> /\ Head(key) # ""
  /\ \A i \in DOMAIN key : key[i] \notin Dots \cup Escapes /\ (key[i] = "" => i = Len(key))

(* validate_key                                                             *)
Storable(key) ==
  /\ StorableWithin(key)
  /\ Head(key) # " a" /\ Last(key) # "a "

(* The name the gateway stores a key under (the docstring of validate_key): *)
(* trimmed, decoded once, without "//", "." and "..".                       *)
StoredName(key) ==
  LET trimmed == [i \in DOMAIN key |->
                    IF <<i, key[i]>> \in {<<1, " a">>, <<Len(key), "a ">>} THEN "a" ELSE key[i]]
      Step(name, segment) ==
        CASE segment \in {"", "."} -> name
          [] segment = ".." -> IF name = <<>> THEN name ELSE Front(name)
          [] segment \in Escapes -> Append(name, "aa")
          [] OTHER -> Append(name, segment)
      resolved == FoldLeft(Step, <<>>, trimmed)
  IN IF Last(key) = "" THEN Append(resolved, "") ELSE resolved

StartsWith(key, prefix) == prefix = <<>> \/ IsStrictPrefix(prefix, key)

(* check_conditions, of a key whose name of the file is filled in.          *)
Conditions(policy, bucket, key, size) ==
  /\ policy.bucket = bucket
  /\ policy.exact # <<>> => key = policy.exact
  /\ StartsWith(key, policy.prefix)
  /\ policy.low <= size /\ size <= policy.high

-----------------------------------------------------------------------------
PostInit == clock = 0 /\ signed = <<>> /\ form = <<>> /\ outcome = "none"
PostIdle == clock' = 0 /\ signed' = <<>> /\ form' = <<>> /\ outcome' = "none"

SignPolicy ==
  /\ outcome = "none" /\ outcome' = "signed"
  /\ \E p \in Policies, signer \in {"ours", "other"} : signed' = [policy |-> p, signer |-> signer]
  /\ UNCHANGED <<clock, form>>

(* The form holds the policy, or (a stale page) another with its signature. *)
FillForm ==
  /\ outcome = "signed" /\ outcome' = "filled"
  /\ form' \in [policy : {signed.policy} \cup Policies, bucket : Buckets, key : FormKeys,
                filename : FileNames, size : 0..MaxUpload]
  /\ UNCHANGED <<clock, signed>>

Wait ==
  /\ outcome \in {"signed", "filled"} /\ clock < MaxWait /\ clock' = clock + 1
  /\ UNCHANGED <<signed, form, outcome>>

(* post_object: signature, expiry, the key, the conditions, the limit.      *)
Post ==
  /\ outcome = "filled"
  /\ outcome' = IF /\ signed.signer = "ours" /\ form.policy = signed.policy
                   /\ clock <= form.policy.expiration
                   /\ Storable(Expanded(form))
                   /\ Conditions(form.policy, form.bucket, Expanded(form), form.size)
                   /\ form.size <= MaxObject
                THEN "stored" ELSE "denied"
  /\ UNCHANGED <<clock, signed, form>>

Posting == SignPolicy \/ FillForm \/ Wait \/ Post

PostNext == Posting \/ (outcome \in {"stored", "denied"} /\ PostIdle)

PostSpec == PostInit /\ [][PostNext]_postVars

-----------------------------------------------------------------------------
(* Whatever the form and the file are called: the name an object ends up    *)
(* under, after the gateway has had its way with the key, is one its policy *)
(* allows, and the one the answer tells.                                    *)
StoredUnderPolicy ==
  outcome = "stored" =>
    LET key == Expanded(form) IN
    /\ StoredName(key) = key
    /\ Conditions(signed.policy, form.bucket, StoredName(key), form.size)
=============================================================================
