------------------------------- MODULE Listing -------------------------------
(***************************************************************************)
(* listing.py and list_objects: a client asks for page after page of a      *)
(* listing, each page computed by paginate() over what Upstream.list        *)
(* answers, while other clients add and remove keys. Upstream.list may      *)
(* answer from its cache, or with a listing that writes have overtaken: all *)
(* that is relied on here is what Upstream proves of it as                  *)
(* StaleForCacheSecondsOnly.                                                *)
(* A key is a sequence of characters, a character is its code point.        *)
(***************************************************************************)
EXTENDS Integers, Sequences, FiniteSets, SequencesExt

CONSTANTS
  Keys,        \* keys that may be in the bucket
  Queries,     \* [prefix, delimiter, after, max] of a client's first request
  None,
  MaxChanges   \* bound: keys added or removed shortly before or while it lists

(* validate_key refuses an empty key and one of more than 1024 bytes.       *)
ASSUME KeysAreStrings ==
  /\ Keys \subseteq Seq(Nat) \ {<<>>} /\ IsFiniteSet(Keys)
  /\ Queries \subseteq [prefix : Seq(Nat), delimiter : Seq(Nat), after : Seq(Nat), max : Nat]
  /\ None \notin Seq(Nat) /\ MaxChanges \in Nat

VARIABLES
  bucket,    \* the keys present
  changes,
  recent,    \* keys that changed less than list_cache_seconds ago
  query,     \* what the client asks for; after moves on from page to page
  pc,        \* "ask", "scan" (the loop of paginate) or "done"
  rest,      \* entries the loop has still to look at
  page,      \* the Page being built
  start,     \* the after of the first request: history
  steady,    \* the keys present, and not recent, since the first request: history
  items      \* the keys and common prefixes returned: history

vars == <<bucket, changes, recent, query, pc, rest, page, start, steady, items>>

(* The order of strings.                                                    *)
Less(s, t) ==
  \E i \in 1..Len(t) : /\ SubSeq(s, 1, i - 1) = SubSeq(t, 1, i - 1)
                       /\ i > Len(s) \/ s[i] < t[i]

(* Mutant: the marker of an empty page is where the page started.           *)
EmptyPageMarked == [contents |-> <<>>, prefixes |-> <<>>, truncated |-> FALSE, marker |-> query.after]

EmptyPage == [contents |-> <<>>, prefixes |-> <<>>, truncated |-> FALSE, marker |-> None]

TypeOK ==
  /\ bucket \cup recent \subseteq Keys /\ changes \in 0..MaxChanges
  /\ steady \subseteq bucket \ recent
  /\ pc \in {"ask", "scan", "done"}
  /\ rest \subseteq Keys /\ page.contents \in Seq(Keys)
  /\ page.truncated \in BOOLEAN /\ Len(page.contents) + Len(page.prefixes) <= query.max

Init ==
  /\ bucket \in SUBSET Keys /\ recent \in SUBSET Keys /\ steady = bucket \ recent
  /\ changes = Cardinality(recent) /\ changes <= MaxChanges
  /\ query \in Queries /\ start = query.after
  /\ pc = "ask" /\ rest = {} /\ page = EmptyPage /\ items = <<>>

(* The common prefix of a key: up to the first delimiter after the prefix.  *)
Ends(key) ==
  LET n == Len(query.delimiter) IN
  {i \in Len(query.prefix) + n..Len(key) : n > 0 /\ SubSeq(key, i - n + 1, i) = query.delimiter}

Common(key) ==
  IF Ends(key) = {} THEN None
  ELSE SubSeq(key, 1, CHOOSE i \in Ends(key) : \A j \in Ends(key) : i <= j)

(* What Upstream.list answers is right about each key that is not recent.   *)
Ask ==
  /\ pc = "ask"
  /\ pc' = "scan"
  /\ \E overtaken \in SUBSET recent : rest' = (bucket \ recent) \cup overtaken
  /\ page' = EmptyPage
  /\ UNCHANGED <<bucket, changes, recent, query, start, steady, items>>

(* Mutant: every key that begins with the marker is taken for one of the    *)
(* group the marker stands for.                                             *)
BeforeGroup(key) ==
  ~IsPrefix(query.prefix, key)
    \/ (query.after # <<>> /\ (~Less(query.after, key) \/ IsPrefix(query.after, key)))

(* One turn of the loop of paginate.                                        *)
Before(key) == ~IsPrefix(query.prefix, key) \/ (query.after # <<>> /\ ~Less(query.after, key))

(* Mutant: a common prefix is remembered for its own page only.             *)
ReturnedOnPage(common) == common # None /\ page.prefixes # <<>> /\ common = Last(page.prefixes)

Returned(common) ==
  /\ common # None
  /\ (page.prefixes # <<>> /\ common = Last(page.prefixes)) \/ IsPrefix(common, query.after)

(* Mutant: one too many.                                                    *)
FullLate == Len(page.contents) + Len(page.prefixes) > query.max

Full == Len(page.contents) + Len(page.prefixes) >= query.max

(* Upstream.list sorts the entries: the loop takes the least first.         *)
Entry ==
  LET key == CHOOSE k \in rest : \A other \in rest \ {k} : Less(k, other)
      common == Common(key) IN
  /\ pc = "scan" /\ rest # {} /\ ~page.truncated
  /\ rest' = rest \ {key}
  /\ IF Before(key) \/ Returned(common) THEN UNCHANGED <<page, items>>
     ELSE IF Full THEN page' = [page EXCEPT !.truncated = TRUE] /\ UNCHANGED items
     ELSE IF common # None
     THEN /\ page' = [page EXCEPT !.prefixes = Append(@, common), !.marker = common]
          /\ items' = Append(items, common)
     ELSE /\ page' = [page EXCEPT !.contents = Append(@, key), !.marker = key]
          /\ items' = Append(items, key)
  /\ UNCHANGED <<bucket, changes, recent, query, pc, start, steady>>

(* The page is answered, with a marker (NextMarker, NextContinuationToken)  *)
(* only if it is truncated and not empty; a client asks on from a marker.   *)
EndPage ==
  /\ pc = "scan" /\ (rest = {} \/ page.truncated)
  /\ IF page.truncated /\ page.marker # None
     THEN pc' = "ask" /\ query' = [query EXCEPT !.after = page.marker]
     ELSE pc' = "done" /\ UNCHANGED query
  /\ rest' = {} /\ page' = EmptyPage
  /\ UNCHANGED <<bucket, changes, recent, start, steady, items>>

Change ==
  /\ pc = "ask" /\ changes < MaxChanges
  /\ changes' = changes + 1
  /\ \E k \in Keys :
       /\ bucket' = IF k \in bucket THEN bucket \ {k} ELSE bucket \cup {k}
       /\ recent' = recent \cup {k} /\ steady' = steady \ {k}
  /\ UNCHANGED <<query, pc, rest, page, start, items>>

Age ==  \* list_cache_seconds have passed since a key changed
  /\ pc = "ask"
  /\ \E k \in recent : recent' = recent \ {k}
  /\ UNCHANGED <<bucket, changes, query, pc, rest, page, start, steady, items>>

Next == Ask \/ Entry \/ EndPage \/ Change \/ Age

Spec == Init /\ [][Next]_vars

(* The server answers, and a client that got a marker asks on.              *)
FairSpec == Spec /\ WF_vars(Ask) /\ WF_vars(Entry) /\ WF_vars(EndPage)
-----------------------------------------------------------------------------
(* Across pages, and whatever changes between them, keys and common         *)
(* prefixes come in ascending order: none comes twice.                      *)
ItemsAscend == \A i \in 1..Len(items) - 1 : Less(items[i], items[i + 1])

(* A key that was there, unchanged, from list_cache_seconds before the      *)
(* first page to the last is listed, itself or rolled up, if it is past the *)
(* start and not in a group the start is in.                                *)
Wanted(key) ==
  /\ IsPrefix(query.prefix, key) /\ Less(start, key)
  /\ Common(key) = None \/ ~IsPrefix(Common(key), start)

SteadyKeysListed ==
  pc = "done" /\ query.max > 0 => \A key \in steady : Wanted(key) =>
    (IF Common(key) = None THEN key ELSE Common(key)) \in ToSet(items)

(* A client that follows the markers comes to an end, with a limit of no    *)
(* keys too, whatever is added and removed meanwhile.                       *)
ListingEnds == <>(pc = "done")
=============================================================================
