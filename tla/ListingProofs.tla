--------------------------- MODULE ListingProofs ---------------------------
(* A listing over any set of keys, however it changes between the pages.    *)
EXTENDS Listing, NatFacts, FiniteSetTheorems

Strings == Seq(Nat)

-----------------------------------------------------------------------------
(* The order of strings and their prefixes, character by character.         *)
Differ(s, t, i) ==
  /\ i \in 1..Len(t) /\ i <= Len(s) + 1
  /\ \A j \in 1..i - 1 : s[j] = t[j]
  /\ i = Len(s) + 1 \/ s[i] < t[i]

LEMMA SameStart ==
  ASSUME NEW s \in Strings, NEW t \in Strings, NEW n \in Nat, n <= Len(s), n <= Len(t)
  PROVE  SubSeq(s, 1, n) = SubSeq(t, 1, n) <=> \A j \in 1..n : s[j] = t[j]
<1>1. /\ SubSeq(s, 1, n) = [j \in 1..n |-> s[j]]
      /\ SubSeq(t, 1, n) = [j \in 1..n |-> t[j]]
  BY DEF Strings
<1> QED BY <1>1, Zenon

LEMMA LessIff ==
  ASSUME NEW s \in Strings, NEW t \in Strings
  PROVE  Less(s, t) <=> \E i \in Nat : Differ(s, t, i)
<1>0. Len(s) \in Nat /\ Len(t) \in Nat
  BY DEF Strings
<1>1. ASSUME NEW i \in Nat, Differ(s, t, i) PROVE Less(s, t)
  <2>1. i \in 1..Len(t) /\ i - 1 \in Nat /\ i - 1 <= Len(s) /\ i - 1 <= Len(t)
    BY <1>0, <1>1 DEF Differ
  <2>2. SubSeq(s, 1, i - 1) = SubSeq(t, 1, i - 1)
    BY <1>1, <2>1, SameStart DEF Differ
  <2> QED BY <1>0, <1>1, <2>1, <2>2 DEF Differ, Less
<1>2. ASSUME NEW i \in 1..Len(t), SubSeq(s, 1, i - 1) = SubSeq(t, 1, i - 1), i > Len(s) \/ s[i] < t[i]
      PROVE  \E k \in Nat : Differ(s, t, k)
  <2>1. ASSUME NEW j \in 1..i - 1 PROVE s[j] = t[j]
    <3>1. /\ SubSeq(s, 1, i - 1) = [k \in 1..i - 1 |-> s[k]]
          /\ SubSeq(t, 1, i - 1) = [k \in 1..i - 1 |-> t[k]]
      BY <1>0, <1>2 DEF Strings
    <3> QED BY <1>2, <2>1, <3>1, Zenon
  <2>2. CASE i <= Len(s)
    BY <1>0, <1>2, <2>1, <2>2 DEF Differ
  <2>3. CASE i > Len(s)
    <3>1. Len(s) + 1 \in Nat /\ Len(s) + 1 \in 1..Len(t)
      BY <1>0, <2>3
    <3>2. Differ(s, t, Len(s) + 1)
      BY <1>0, <2>1, <2>3, <3>1 DEF Differ
    <3> QED BY <3>1, <3>2
  <2> QED BY <1>0, <2>2, <2>3
<1> QED BY <1>1, <1>2 DEF Less

LEMMA PrefixIff ==
  ASSUME NEW s \in Strings, NEW t \in Strings
  PROVE  IsPrefix(s, t) <=> Len(s) <= Len(t) /\ \A j \in 1..Len(s) : s[j] = t[j]
<1>1. Len(s) \in Nat /\ Len(t) \in Nat
  BY DEF Strings
<1> QED BY <1>1, SameStart DEF IsPrefix

LEMMA SameString ==
  ASSUME NEW s \in Strings, NEW t \in Strings, Len(s) = Len(t), \A j \in 1..Len(s) : s[j] = t[j] PROVE s = t
  BY DEF Strings

LEMMA LessTransitive ==
  ASSUME NEW r \in Strings, NEW s \in Strings, NEW t \in Strings, Less(r, s), Less(s, t) PROVE Less(r, t)
<1>0. /\ Len(r) \in Nat /\ Len(s) \in Nat /\ Len(t) \in Nat
      /\ \A j \in 1..Len(r) : r[j] \in Nat
      /\ \A j \in 1..Len(s) : s[j] \in Nat
      /\ \A j \in 1..Len(t) : t[j] \in Nat
  BY DEF Strings
<1>1. PICK i \in Nat : Differ(r, s, i)
  BY LessIff
<1>2. PICK k \in Nat : Differ(s, t, k)
  BY LessIff
<1>3. CASE i < k
  <2>1. Differ(r, t, i)
    BY <1>0, <1>1, <1>2, <1>3 DEF Differ
  <2> QED BY <2>1, LessIff
<1>4. CASE i >= k
  <2>1. Differ(r, t, k)
    BY <1>0, <1>1, <1>2, <1>4 DEF Differ
  <2> QED BY <2>1, LessIff
<1> QED BY <1>3, <1>4

LEMMA LessTotal ==
  ASSUME NEW s \in Strings, NEW t \in Strings, s # t PROVE Less(s, t) \/ Less(t, s)
<1>0. /\ Len(s) \in Nat /\ Len(t) \in Nat
      /\ \A j \in 1..Len(s) : s[j] \in Nat
      /\ \A j \in 1..Len(t) : t[j] \in Nat
  BY DEF Strings
<1> DEFINE D == {i \in Nat : /\ i >= 1 /\ i <= Len(s) + 1 /\ i <= Len(t) + 1
                             /\ i = Len(s) + 1 \/ i = Len(t) + 1 \/ s[i] # t[i]}
<1>1. D \in SUBSET Nat /\ D # {}
  <2>1. Len(s) <= Len(t) => Len(s) + 1 \in D
    BY <1>0
  <2>2. Len(t) <= Len(s) => Len(t) + 1 \in D
    BY <1>0
  <2> QED BY <1>0, <2>1, <2>2
<1>2. PICK i \in D : \A k \in D : i <= k
  <2> HIDE DEF D
  <2> QED BY <1>1, LeastElement
<1>3. ASSUME NEW j \in 1..i - 1 PROVE s[j] = t[j] /\ j <= Len(s) /\ j <= Len(t)
  <2>1. j \in Nat /\ j \notin D /\ j >= 1 /\ j <= Len(s) + 1 /\ j <= Len(t) + 1
    BY <1>0, <1>2, <1>3
  <2> QED BY <1>0, <1>2, <2>1
<1>4. CASE i = Len(s) + 1 /\ i = Len(t) + 1
  BY <1>0, <1>3, <1>4, SameString
<1>5. CASE i = Len(s) + 1 /\ i # Len(t) + 1
  <2>1. Differ(s, t, i)
    BY <1>0, <1>2, <1>3, <1>5 DEF Differ
  <2> QED BY <2>1, LessIff
<1>6. CASE i # Len(s) + 1 /\ i = Len(t) + 1
  <2>1. Differ(t, s, i)
    BY <1>0, <1>2, <1>3, <1>6 DEF Differ
  <2> QED BY <2>1, LessIff
<1>7. CASE i # Len(s) + 1 /\ i # Len(t) + 1
  <2>1. i \in 1..Len(s) /\ i \in 1..Len(t) /\ s[i] # t[i]
    BY <1>0, <1>2, <1>7
  <2>2. s[i] < t[i] \/ t[i] < s[i]
    BY <1>0, <2>1
  <2>3. Differ(s, t, i) \/ Differ(t, s, i)
    BY <1>0, <1>2, <1>3, <2>1, <2>2 DEF Differ
  <2> QED BY <2>3, LessIff
<1> QED BY <1>4, <1>5, <1>6, <1>7

(* The strings with one prefix come one after the other.                    *)
LEMMA PrefixFirst ==
  ASSUME NEW c \in Strings, NEW s \in Strings, NEW t \in Strings, IsPrefix(c, s), Less(s, t) PROVE Less(c, t)
<1>0. Len(c) \in Nat /\ Len(s) \in Nat /\ Len(t) \in Nat
  BY DEF Strings
<1>1. PICK i \in Nat : Differ(s, t, i)
  BY LessIff
<1>2. Len(c) <= Len(s) /\ \A j \in 1..Len(c) : c[j] = s[j]
  BY PrefixIff
<1>3. CASE i <= Len(c)
  <2>1. Differ(c, t, i)
    BY <1>0, <1>1, <1>2, <1>3 DEF Differ
  <2> QED BY <2>1, LessIff
<1>4. CASE i > Len(c)
  <2>1. Differ(c, t, Len(c) + 1)
    BY <1>0, <1>1, <1>2, <1>4 DEF Differ
  <2> QED BY <1>0, <2>1, LessIff
<1> QED BY <1>0, <1>3, <1>4

LEMMA PrefixBetween ==
  ASSUME NEW c \in Strings, NEW s \in Strings, NEW t \in Strings, IsPrefix(c, t), Less(s, t), ~IsPrefix(c, s)
  PROVE  Less(s, c)
<1>0. Len(c) \in Nat /\ Len(s) \in Nat /\ Len(t) \in Nat
  BY DEF Strings
<1>1. PICK i \in Nat : Differ(s, t, i)
  BY LessIff
<1>2. Len(c) <= Len(t) /\ \A j \in 1..Len(c) : c[j] = t[j]
  BY PrefixIff
<1>3. CASE i <= Len(c)
  <2>1. Differ(s, c, i)
    BY <1>0, <1>1, <1>2, <1>3 DEF Differ
  <2> QED BY <2>1, LessIff
<1>4. CASE i > Len(c)
  <2>1. Len(c) <= Len(s) /\ \A j \in 1..Len(c) : c[j] = s[j]
    BY <1>0, <1>1, <1>2, <1>4 DEF Differ
  <2> QED BY <2>1, PrefixIff
<1> QED BY <1>0, <1>3, <1>4

(* Of finitely many strings one is the least.                               *)
LEMMA LeastString ==
  ASSUME NEW S \in SUBSET Strings, IsFiniteSet(S), S # {}
  PROVE  \E k \in S : \A other \in S \ {k} : Less(k, other)
<1> DEFINE HasLeast(X) == \E k \in X : \A other \in X \ {k} : Less(k, other)
           T == {n \in Nat : \A X \in SUBSET Strings :
                   IsFiniteSet(X) /\ X # {} /\ Cardinality(X) = n => HasLeast(X)}
<1>1. 0 \in T
  BY FS_EmptySet
<1>2. ASSUME NEW n \in T PROVE n + 1 \in T
  <2> SUFFICES ASSUME NEW X \in SUBSET Strings, IsFiniteSet(X), X # {}, Cardinality(X) = n + 1 PROVE HasLeast(X)
    OBVIOUS
  <2> PICK x \in X : TRUE
    OBVIOUS
  <2> DEFINE Y == X \ {x}
  <2>1. IsFiniteSet(Y) /\ Cardinality(Y) = n /\ Y \in SUBSET Strings
    <3>1. IsFiniteSet(X \ {x}) /\ Cardinality(X \ {x}) = Cardinality(X) - 1
      BY FS_RemoveElement
    <3>2. n \in Nat
      OBVIOUS
    <3> QED BY <3>1, <3>2
  <2>2. CASE Y = {}
    BY <2>2
  <2>3. CASE Y # {}
    <3>1. PICK y \in Y : \A other \in Y \ {y} : Less(y, other)
      BY <2>1, <2>3
    <3>2. x # y /\ x \in Strings /\ y \in Strings
      OBVIOUS
    <3>3. CASE Less(y, x)
      <4>1. \A other \in X \ {y} : Less(y, other)
        BY <3>1, <3>3
      <4> QED BY <4>1
    <3>4. CASE Less(x, y)
      <4>1. \A other \in X \ {x} : Less(x, other)
        BY <3>1, <3>2, <3>4, LessTransitive
      <4> QED BY <4>1
    <3> QED BY <3>2, <3>3, <3>4, LessTotal
  <2> QED BY <2>2, <2>3
<1>3. T = Nat
  <2>1. T \in SUBSET Nat
    OBVIOUS
  <2> HIDE DEF T
  <2> QED BY <1>1, <1>2, <2>1, Induction
<1>4. Cardinality(S) \in Nat
  BY FS_CardinalityType
<1>5. Cardinality(S) \in T
  BY <1>3, <1>4
<1> QED BY <1>5


-----------------------------------------------------------------------------
(* The prefix a key is rolled up into.                                      *)
QueryOK == query \in [prefix : Strings, delimiter : Strings, after : Strings, max : Nat]

LEMMA EndsIn ==
  ASSUME QueryOK, NEW key \in Strings, NEW i \in Ends(key) PROVE i \in Nat /\ i \in 1..Len(key)
<1> DEFINE n == Len(query.delimiter)
           p == Len(query.prefix)
<1>1. n \in Nat /\ p \in Nat /\ Len(key) \in Nat
  BY DEF QueryOK, Strings
<1>2. i \in p + n..Len(key) /\ n > 0
  BY DEF Ends
<1> HIDE DEF n, p
<1> QED BY <1>1, <1>2

LEMMA CommonIs ==
  ASSUME QueryOK, NEW key \in Strings
  PROVE  /\ Common(key) = None <=> Ends(key) = {}
         /\ Common(key) # None => /\ Common(key) \in Strings /\ Common(key) # <<>>
                                  /\ IsPrefix(Common(key), key)
                                  /\ Len(Common(key)) \in Ends(key)
                                  /\ \A j \in Ends(key) : Len(Common(key)) <= j
<1>0. /\ Len(key) \in Nat /\ Len(query.delimiter) \in Nat /\ Len(query.prefix) \in Nat
      /\ None \notin Strings
  BY KeysAreStrings DEF QueryOK, Strings
<1>1. ASSUME Ends(key) # {}
      PROVE  \E i \in Ends(key) : /\ Common(key) = SubSeq(key, 1, i) /\ i \in 1..Len(key)
                                  /\ \A j \in Ends(key) : i <= j
  <2>1. Ends(key) \in SUBSET Nat /\ \A i \in Ends(key) : i \in 1..Len(key)
    BY EndsIn
  <2>2. \E i \in Ends(key) : \A j \in Ends(key) : i <= j
    BY <1>1, <2>1, LeastElement
  <2> DEFINE i == CHOOSE i \in Ends(key) : \A j \in Ends(key) : i <= j
  <2>3. i \in Ends(key) /\ \A j \in Ends(key) : i <= j
    BY <2>2
  <2>4. Common(key) = SubSeq(key, 1, i)
    BY <1>1 DEF Common
  <2> HIDE DEF i
  <2> QED BY <2>1, <2>3, <2>4
<1>2. CASE Ends(key) = {}
  BY <1>2 DEF Common
<1>3. CASE Ends(key) # {}
  <2>1. PICK i \in Ends(key) : /\ Common(key) = SubSeq(key, 1, i) /\ i \in 1..Len(key)
                               /\ \A j \in Ends(key) : i <= j
    BY <1>1, <1>3
  <2>2. /\ SubSeq(key, 1, i) \in Strings /\ Len(SubSeq(key, 1, i)) = i
        /\ \A j \in 1..i : SubSeq(key, 1, i)[j] = key[j]
    BY <1>0, <2>1 DEF Strings
  <2>3. Common(key) \in Strings /\ Len(Common(key)) = i /\ Common(key) # <<>>
    BY <2>1, <2>2
  <2>4. IsPrefix(Common(key), key)
    <3>1. Len(Common(key)) <= Len(key) /\ \A j \in 1..Len(Common(key)) : Common(key)[j] = key[j]
      BY <1>0, <2>1, <2>2, <2>3
    <3> QED BY <2>3, <3>1, PrefixIff
  <2> QED BY <1>0, <1>3, <2>1, <2>3, <2>4
<1> QED BY <1>2, <1>3

LEMMA EndsShared ==
  ASSUME QueryOK, NEW s \in Strings, NEW t \in Strings, NEW i \in Ends(s),
         i <= Len(t), \A j \in 1..i : s[j] = t[j]
  PROVE  i \in Ends(t)
<1> DEFINE n == Len(query.delimiter)
           p == Len(query.prefix)
<1>1. n \in Nat /\ p \in Nat /\ Len(s) \in Nat /\ Len(t) \in Nat
  BY DEF QueryOK, Strings
<1>2. i \in p + n..Len(s) /\ n > 0 /\ SubSeq(s, i - n + 1, i) = query.delimiter
  BY DEF Ends
<1> HIDE DEF n, p
<1>3. SubSeq(s, i - n + 1, i) = SubSeq(t, i - n + 1, i)
  <2> DEFINE m == i - n + 1
  <2>1. m \in Nat /\ i \in Nat /\ m >= 1 /\ i <= Len(s) /\ i <= Len(t)
    BY <1>1, <1>2
  <2> HIDE DEF m
  <2>2. /\ SubSeq(s, m, i) \in Strings /\ SubSeq(t, m, i) \in Strings
        /\ Len(SubSeq(s, m, i)) = Len(SubSeq(t, m, i))
    BY <2>1 DEF Strings
  <2>3. \A j \in 1..Len(SubSeq(s, m, i)) : SubSeq(s, m, i)[j] = SubSeq(t, m, i)[j]
    BY <1>1, <2>1 DEF Strings
  <2>4. SubSeq(s, m, i) = SubSeq(t, m, i)
    BY <2>2, <2>3, SameString
  <2> QED BY <2>4 DEF m
<1>4. i \in p + n..Len(t)
  BY <1>1, <1>2
<1> QED BY <1>2, <1>3, <1>4 DEF Ends, n, p

LEMMA CommonShared ==
  ASSUME QueryOK, NEW s \in Strings, NEW t \in Strings, Common(s) # None, IsPrefix(Common(s), t)
  PROVE  Common(t) = Common(s)
<1>1. /\ Common(s) \in Strings /\ IsPrefix(Common(s), s)
      /\ Len(Common(s)) \in Ends(s) /\ \A j \in Ends(s) : Len(Common(s)) <= j
  BY CommonIs
<1> DEFINE c == Common(s)
           d == Common(t)
<1>2. /\ Len(c) <= Len(s) /\ \A j \in 1..Len(c) : c[j] = s[j]
      /\ Len(c) <= Len(t) /\ \A j \in 1..Len(c) : c[j] = t[j]
  BY <1>1, PrefixIff
<1>3. Len(c) \in Ends(t)
  BY <1>1, <1>2, EndsShared
<1>4. /\ d # None /\ d \in Strings /\ IsPrefix(d, t)
      /\ Len(d) \in Ends(t) /\ Len(d) <= Len(c)
  BY <1>3, CommonIs
<1>5. Len(d) <= Len(t) /\ \A j \in 1..Len(d) : d[j] = t[j]
  BY <1>4, PrefixIff
<1>6. Len(c) \in Nat /\ Len(d) \in Nat
  BY <1>1, <1>4 DEF Strings
<1> HIDE DEF c, d
<1>7. Len(d) <= Len(s) /\ \A j \in 1..Len(d) : t[j] = s[j]
  <2>1. Len(s) \in Nat
    BY DEF Strings
  <2> QED BY <1>2, <1>4, <1>6, <2>1
<1>8. Len(d) \in Ends(s)
  BY <1>4, <1>7, EndsShared
<1>9. Len(c) = Len(d)
  BY <1>1, <1>4, <1>6, <1>8 DEF c
<1>10. \A j \in 1..Len(d) : d[j] = c[j]
  BY <1>2, <1>5, <1>9
<1>11. d = c
  BY <1>1, <1>4, <1>9, <1>10, SameString DEF c
<1> QED BY <1>11 DEF c, d

-----------------------------------------------------------------------------
(* What has been returned last: the marker of the page, or where it begins. *)
Frontier == IF page.marker = None THEN query.after ELSE page.marker

(* What a key is listed as, and whether it is still to come after a mark.   *)
Item(key) == IF Common(key) = None THEN key ELSE Common(key)
Beyond(key, mark) == Less(mark, key) /\ (Common(key) = None \/ ~IsPrefix(Common(key), mark))

Pages == [contents : Seq(Keys), prefixes : Seq(Strings), truncated : BOOLEAN, marker : Strings \cup {None}]

(* The page being built.                                                    *)
PageOK ==
  /\ bucket \subseteq Keys /\ recent \subseteq Keys /\ changes \in 0..MaxChanges
  /\ steady \subseteq bucket \ recent /\ rest \subseteq Keys
  /\ QueryOK /\ start \in Strings
  /\ pc \in {"ask", "scan", "done"} /\ page \in Pages
  /\ Len(page.contents) + Len(page.prefixes) <= query.max
  /\ page.truncated => Len(page.contents) + Len(page.prefixes) >= query.max
  /\ page.marker = None => page.contents = <<>> /\ page.prefixes = <<>>
  /\ pc # "scan" => page = EmptyPage /\ rest = {}

(* What is still to come is past what has been returned.                    *)
OrderOK ==
  /\ items \in Seq(Strings) /\ ItemsAscend
  /\ items # <<>> /\ pc # "done" => items[Len(items)] = Frontier /\ Frontier # <<>>
  /\ page.marker # None => items # <<>>
  /\ page.prefixes # <<>> => Last(page.prefixes) \in ToSet(items)
  /\ page.marker # None => \A key \in rest :
       /\ Less(page.marker, key)
       /\ Common(key) # None /\ IsPrefix(Common(key), page.marker) => Returned(Common(key))

(* A key that stays is listed already or is still to come.                  *)
Listed ==
  query.max > 0 => \A key \in steady : Wanted(key) =>
    \/ Item(key) \in ToSet(items)
    \/ pc = "ask" /\ Beyond(key, query.after)
    \/ /\ pc = "scan" /\ Beyond(key, query.after) /\ Beyond(key, Frontier)
       /\ key \in rest \/ page.truncated

Inv == PageOK /\ OrderOK /\ Listed

LEMMA KeyStrings == ASSUME NEW key \in Keys PROVE key \in Strings /\ key # <<>>
  BY KeysAreStrings DEF Strings

LEMMA ItemIs ==
  ASSUME QueryOK, NEW key \in Keys PROVE Item(key) \in Strings /\ Item(key) # <<>> /\ IsPrefix(Item(key), key)
<1>1. key \in Strings /\ key # <<>>
  BY KeyStrings
<1>2. IsPrefix(key, key)
  BY <1>1, PrefixIff DEF Strings
<1> QED BY <1>1, <1>2, CommonIs DEF Item

LEMMA InToSet == ASSUME NEW s, NEW i \in 1..Len(s) PROVE s[i] \in ToSet(s)
  BY DEF ToSet

LEMMA AppendIs ==
  ASSUME NEW S, NEW s \in Seq(S), NEW x
  PROVE  /\ Len(Append(s, x)) = Len(s) + 1 /\ Append(s, x)[Len(s) + 1] = x
         /\ \A i \in 1..Len(s) : Append(s, x)[i] = s[i]
         /\ ToSet(Append(s, x)) = ToSet(s) \cup {x}
<1>1. Len(s) \in Nat /\ DOMAIN s = 1..Len(s)
  OBVIOUS
<1>2. /\ Len(Append(s, x)) = Len(s) + 1 /\ Append(s, x)[Len(s) + 1] = x
      /\ \A i \in 1..Len(s) : Append(s, x)[i] = s[i]
  OBVIOUS
<1>3. ToSet(Append(s, x)) = ToSet(s) \cup {x}
  <2>1. DOMAIN Append(s, x) = 1..Len(s) + 1
    BY <1>2
  <2>2. \A i \in 1..Len(s) + 1 : i \in 1..Len(s) \/ i = Len(s) + 1
    BY <1>1
  <2>3. \A i \in 1..Len(s) : i \in 1..Len(s) + 1
    BY <1>1
  <2>4. Len(s) + 1 \in 1..Len(s) + 1
    BY <1>1
  <2>5. \A y \in ToSet(Append(s, x)) : y \in ToSet(s) \cup {x}
    BY <1>1, <1>2, <2>1, <2>2, Zenon DEF ToSet
  <2>6. \A y \in ToSet(s) \cup {x} : y \in ToSet(Append(s, x))
    BY <1>1, <1>2, <2>1, <2>3, <2>4, Zenon DEF ToSet
  <2> QED BY <2>5, <2>6
<1> QED BY <1>2, <1>3

(* The loop takes the least entry first.                                    *)
LeastKey == CHOOSE k \in rest : \A other \in rest \ {k} : Less(k, other)

LEMMA LeastKeyIs ==
  ASSUME PageOK, rest # {} PROVE LeastKey \in rest /\ \A other \in rest \ {LeastKey} : Less(LeastKey, other)
<1>1. rest \in SUBSET Strings /\ IsFiniteSet(rest)
  <2>1. IsFiniteSet(Keys) /\ rest \in SUBSET Keys
    BY KeysAreStrings DEF PageOK
  <2> QED BY <2>1, FS_Subset, KeyStrings
<1>2. \E k \in rest : \A other \in rest \ {k} : Less(k, other)
  BY <1>1, LeastString
<1> QED BY <1>2 DEF LeastKey

LEMMA InvInit == Init => Inv
<1> SUFFICES ASSUME Init PROVE Inv
  OBVIOUS
<1>1. query \in [prefix : Strings, delimiter : Strings, after : Strings, max : Nat] /\ MaxChanges \in Nat
  BY KeysAreStrings DEF Init, Strings
<1>2. query.after \in Strings /\ query.max \in Nat
  BY <1>1
<1>3. page \in Pages /\ page.contents = <<>> /\ page.prefixes = <<>> /\ page.marker = None /\ ~page.truncated
  BY DEF Init, EmptyPage, Pages
<1>4. PageOK
  <2>1. changes \in 0..MaxChanges
    <3>1. IsFiniteSet(recent) /\ changes = Cardinality(recent) /\ changes <= MaxChanges
      BY KeysAreStrings, FS_Subset DEF Init
    <3>2. Cardinality(recent) \in Nat
      BY <3>1, FS_CardinalityType
    <3> QED BY <1>1, <3>1, <3>2
  <2> QED BY <1>1, <1>2, <1>3, <2>1 DEF Init, PageOK, QueryOK
<1>5. OrderOK
  BY <1>3 DEF Init, OrderOK, ItemsAscend
<1>6. Listed
  BY DEF Init, Listed, Wanted, Beyond
<1> QED BY <1>4, <1>5, <1>6 DEF Inv

(* The parts of the query that a listing keeps.                             *)
LEMMA QueryKept ==
  ASSUME query'.prefix = query.prefix, query'.delimiter = query.delimiter, NEW key
  PROVE  Common(key)' = Common(key)
  BY DEF Common, Ends

LEMMA AskKeeps == ASSUME Inv, Ask PROVE Inv'
<1> USE DEF Inv
<1>1. /\ pc = "ask" /\ pc' = "scan" /\ bucket \ recent \subseteq rest' /\ rest' \subseteq Keys
      /\ page' = EmptyPage /\ page = EmptyPage /\ recent' = recent
      /\ bucket' = bucket /\ recent' = recent /\ changes' = changes /\ query' = query /\ start' = start
      /\ steady' = steady /\ items' = items
  BY DEF Ask, PageOK
<1>2. page'.marker = None /\ page'.prefixes = <<>> /\ page' = page
  BY <1>1 DEF EmptyPage
<1>3. \A key : Common(key)' = Common(key)
  BY <1>1, QueryKept
<1>4. Frontier' = query.after /\ Frontier = query.after
  BY <1>1, <1>2 DEF Frontier
<1>5. PageOK'
  BY <1>1, <1>2 DEF PageOK, QueryOK
<1>6. OrderOK'
  BY <1>1, <1>2, <1>4 DEF OrderOK, ItemsAscend
<1>7. Listed'
  <2> SUFFICES ASSUME query.max > 0, NEW key \in steady, Wanted(key)'
               PROVE  \/ Item(key)' \in ToSet(items')
                      \/ (Beyond(key, query.after)' /\ Beyond(key, Frontier)' /\ key \in rest')
    BY <1>1 DEF Listed
  <2>1. Wanted(key) /\ Item(key)' = Item(key)
    BY <1>1, <1>3 DEF Wanted, Item
  <2>2. Item(key) \in ToSet(items) \/ Beyond(key, query.after)
    BY <1>1, <2>1 DEF Listed
  <2>3. key \in rest'
    BY <1>1 DEF PageOK
  <2>4. ASSUME Beyond(key, query.after) PROVE Beyond(key, query.after)' /\ Beyond(key, Frontier)'
    BY <1>1, <1>3, <1>4, <2>4 DEF Beyond
  <2> QED BY <1>1, <2>1, <2>2, <2>3, <2>4
<1> QED BY <1>5, <1>6, <1>7

LEMMA ChangeKeeps == ASSUME Inv, Change PROVE Inv'
<1> USE DEF Inv
<1>1. /\ pc = "ask" /\ changes < MaxChanges /\ changes' = changes + 1
      /\ pc' = pc /\ rest' = rest /\ page' = page /\ query' = query /\ start' = start /\ items' = items
      /\ steady' \subseteq steady
  BY DEF Change
<1>2. bucket' \subseteq Keys /\ recent' \subseteq Keys /\ steady' \subseteq bucket' \ recent'
  BY DEF Change, PageOK
<1>3. \A key : Common(key)' = Common(key)
  BY <1>1, QueryKept
<1>4. Frontier' = Frontier
  BY <1>1 DEF Frontier
<1>5. PageOK'
  <2>1. changes' \in 0..MaxChanges
    BY <1>1, KeysAreStrings DEF PageOK
  <2> QED BY <1>1, <1>2, <2>1 DEF PageOK, QueryOK, EmptyPage
<1>6. OrderOK'
  BY <1>1, <1>3, <1>4 DEF OrderOK, ItemsAscend, Returned
<1>7. Listed'
  <2> SUFFICES ASSUME query.max > 0, NEW key \in steady, Wanted(key)'
               PROVE  Item(key)' \in ToSet(items') \/ Beyond(key, query.after)'
    BY <1>1 DEF Listed
  <2>1. Wanted(key) /\ Item(key)' = Item(key)
    BY <1>1, <1>3 DEF Wanted, Item
  <2>2. Item(key) \in ToSet(items) \/ Beyond(key, query.after)
    BY <1>1, <2>1 DEF Listed
  <2> QED BY <1>1, <1>3, <2>1, <2>2 DEF Beyond
<1> QED BY <1>5, <1>6, <1>7

LEMMA AgeKeeps == ASSUME Inv, Age PROVE Inv'
<1> USE DEF Inv
<1>1. /\ pc = "ask" /\ changes' = changes /\ bucket' = bucket
      /\ pc' = pc /\ rest' = rest /\ page' = page /\ query' = query /\ start' = start /\ items' = items
      /\ steady' = steady /\ recent' \subseteq recent
  BY DEF Age
<1>3. \A key : Common(key)' = Common(key)
  BY <1>1, QueryKept
<1>4. Frontier' = Frontier
  BY <1>1 DEF Frontier
<1>5. PageOK'
  BY <1>1 DEF PageOK, QueryOK, EmptyPage
<1>6. OrderOK'
  BY <1>1, <1>3, <1>4 DEF OrderOK, ItemsAscend, Returned
<1>7. Listed'
  <2> SUFFICES ASSUME query.max > 0, NEW key \in steady, Wanted(key)'
               PROVE  Item(key)' \in ToSet(items') \/ Beyond(key, query.after)'
    BY <1>1 DEF Listed
  <2>1. Wanted(key) /\ Item(key)' = Item(key)
    BY <1>1, <1>3 DEF Wanted, Item
  <2>2. Item(key) \in ToSet(items) \/ Beyond(key, query.after)
    BY <1>1, <2>1 DEF Listed
  <2> QED BY <1>1, <1>3, <2>1, <2>2 DEF Beyond
<1> QED BY <1>5, <1>6, <1>7

(* Only a page of no keys is cut short and empty.                           *)
LEMMA TruncatedHasMarker ==
  ASSUME PageOK, page.truncated, query.max > 0 PROVE page.marker # None
<1> SUFFICES ASSUME page.marker = None PROVE FALSE
  OBVIOUS
<1>1. page.contents = <<>> /\ page.prefixes = <<>>
  BY DEF PageOK
<1>2. Len(page.contents) = 0 /\ Len(page.prefixes) = 0
  BY <1>1
<1>3. Len(page.contents) + Len(page.prefixes) >= query.max
  BY DEF PageOK
<1>4. query.max \in Nat
  BY DEF PageOK, QueryOK
<1> QED BY <1>2, <1>3, <1>4

LEMMA EndPageKeeps == ASSUME Inv, EndPage PROVE Inv'
<1> USE DEF Inv
<1>1. /\ pc = "scan" /\ (rest = {} \/ page.truncated)
      /\ rest' = {} /\ page' = EmptyPage
      /\ bucket' = bucket /\ recent' = recent /\ changes' = changes /\ start' = start /\ steady' = steady /\ items' = items
  BY DEF EndPage
<1>2. /\ page' \in Pages /\ page'.contents = <<>> /\ page'.prefixes = <<>>
      /\ page'.marker = None /\ ~page'.truncated
  BY <1>1 DEF EmptyPage, Pages
<1>3. /\ QueryOK' /\ query'.prefix = query.prefix /\ query'.delimiter = query.delimiter
      /\ query'.max = query.max /\ query'.max \in Nat /\ pc' \in {"ask", "done"}
  <2>1. query \in [prefix : Strings, delimiter : Strings, after : Strings, max : Nat]
    BY DEF PageOK, QueryOK
  <2>2. page.marker # None => page.marker \in Strings
    BY DEF PageOK, Pages
  <2> QED BY <2>1, <2>2 DEF EndPage, QueryOK
<1>4. \A key : Common(key)' = Common(key)
  BY <1>3, QueryKept
<1>5. Frontier' = query'.after
  BY <1>2 DEF Frontier
<1>6. pc' = "ask" => page.marker # None /\ query'.after = page.marker /\ Frontier = page.marker
  <2>1. query \in [prefix : Strings, delimiter : Strings, after : Strings, max : Nat]
    BY DEF PageOK, QueryOK
  <2> QED BY <2>1 DEF EndPage, Frontier
<1>7. PageOK'
  BY <1>1, <1>2, <1>3 DEF PageOK
<1>8. OrderOK'
  BY <1>1, <1>2, <1>3, <1>5, <1>6 DEF OrderOK, ItemsAscend
<1>9. Listed'
  <2> SUFFICES ASSUME query.max > 0, NEW key \in steady, Wanted(key)'
               PROVE  Item(key)' \in ToSet(items') \/ (pc' = "ask" /\ Beyond(key, query.after)')
    BY <1>1, <1>3 DEF Listed
  <2>1. Wanted(key) /\ Item(key)' = Item(key)
    BY <1>1, <1>3, <1>4 DEF Wanted, Item
  <2>2. Item(key) \in ToSet(items) \/ (Beyond(key, Frontier) /\ (key \in rest \/ page.truncated))
    BY <1>1, <2>1 DEF Listed
  <2>3. CASE Item(key) \in ToSet(items)
    BY <1>1, <2>1, <2>3
  <2>4. CASE Beyond(key, Frontier) /\ page.truncated
    <3>1. page.marker # None
      BY <2>4, TruncatedHasMarker
    <3>2. pc' = "ask" /\ query'.after = Frontier
      BY <1>6, <2>4, <3>1 DEF EndPage
    <3> QED BY <1>4, <2>4, <3>2 DEF Beyond
  <2> QED BY <1>1, <2>2, <2>3, <2>4
<1> QED BY <1>7, <1>8, <1>9

-----------------------------------------------------------------------------
(* A turn of the loop.                                                      *)
Passed(key) == Before(key) \/ Returned(Common(key))

Skip == Passed(LeastKey) /\ UNCHANGED <<page, items>>

Stop ==
  /\ ~Passed(LeastKey) /\ Full
  /\ page' = [page EXCEPT !.truncated = TRUE] /\ UNCHANGED items

Add ==
  /\ ~Passed(LeastKey) /\ ~Full
  /\ page' = IF Common(LeastKey) # None
             THEN [page EXCEPT !.prefixes = Append(@, Common(LeastKey)), !.marker = Common(LeastKey)]
             ELSE [page EXCEPT !.contents = Append(@, LeastKey), !.marker = LeastKey]
  /\ items' = Append(items, Item(LeastKey))

LEMMA EntryIs ==
  ASSUME Entry
  PROVE  /\ pc = "scan" /\ rest # {} /\ ~page.truncated /\ rest' = rest \ {LeastKey}
         /\ Skip \/ Stop \/ Add
         /\ bucket' = bucket /\ recent' = recent /\ changes' = changes /\ query' = query /\ pc' = pc
         /\ start' = start /\ steady' = steady
<1>1. /\ pc = "scan" /\ rest # {} /\ ~page.truncated /\ rest' = rest \ {LeastKey}
      /\ bucket' = bucket /\ recent' = recent /\ changes' = changes /\ query' = query /\ pc' = pc
      /\ start' = start /\ steady' = steady
  BY DEF Entry, LeastKey
<1>2. Skip \/ Stop \/ Add
  BY Zenon DEF Entry, LeastKey, Skip, Stop, Add, Passed, Item
<1> QED BY <1>1, <1>2

LEMMA SkipKeeps == ASSUME Inv, Entry, Skip PROVE Inv'
<1> USE DEF Inv
<1>1. /\ pc = "scan" /\ rest # {} /\ ~page.truncated /\ rest' = rest \ {LeastKey}
      /\ bucket' = bucket /\ recent' = recent /\ changes' = changes /\ query' = query /\ pc' = pc
      /\ start' = start /\ steady' = steady /\ page' = page /\ items' = items
  BY EntryIs DEF Skip
<1>2. /\ \A key : Common(key)' = Common(key)
      /\ Frontier' = Frontier /\ \A common : Returned(common)' = Returned(common)
  BY <1>1, QueryKept DEF Frontier, Returned
<1>3. PageOK'
  BY <1>1 DEF PageOK, QueryOK
<1>4. OrderOK'
  BY <1>1, <1>2 DEF OrderOK, ItemsAscend
<1>5. Listed'
  <2> SUFFICES ASSUME query.max > 0, NEW key \in steady, Wanted(key)'
               PROVE  \/ Item(key)' \in ToSet(items')
                      \/ (Beyond(key, query.after)' /\ Beyond(key, Frontier)' /\ key \in rest')
    BY <1>1 DEF Listed
  <2>1. Wanted(key) /\ Item(key)' = Item(key)
    BY <1>1, <1>2 DEF Wanted, Item
  <2>2. \/ Item(key) \in ToSet(items)
        \/ (Beyond(key, query.after) /\ Beyond(key, Frontier) /\ key \in rest)
    BY <1>1, <2>1 DEF Listed
  <2>3. CASE Item(key) \in ToSet(items)
    BY <1>1, <2>1, <2>3
  <2>4. CASE key = LeastKey /\ Beyond(key, query.after) /\ key \in rest
    <3>1. Returned(Common(key))
      BY <2>1, <2>4 DEF Skip, Passed, Before, Wanted, Beyond
    <3>2. Common(key) # None /\ page.prefixes # <<>> /\ Common(key) = Last(page.prefixes)
      BY <2>4, <3>1 DEF Returned, Beyond
    <3>3. Item(key) \in ToSet(items)
      BY <3>2 DEF OrderOK, Item
    <3> QED BY <1>1, <2>1, <3>3
  <2>5. CASE key # LeastKey /\ Beyond(key, query.after) /\ Beyond(key, Frontier) /\ key \in rest
    BY <1>1, <1>2, <2>5 DEF Beyond
  <2> QED BY <2>2, <2>3, <2>4, <2>5
<1> QED BY <1>3, <1>4, <1>5

LEMMA StopKeeps == ASSUME Inv, Entry, Stop PROVE Inv'
<1> USE DEF Inv
<1>1. /\ pc = "scan" /\ rest # {} /\ ~page.truncated /\ rest' = rest \ {LeastKey}
      /\ bucket' = bucket /\ recent' = recent /\ changes' = changes /\ query' = query /\ pc' = pc
      /\ start' = start /\ steady' = steady /\ items' = items
  BY EntryIs DEF Stop
<1>2. /\ page' \in Pages /\ page'.contents = page.contents /\ page'.prefixes = page.prefixes
      /\ page'.marker = page.marker /\ page'.truncated
  <2>1. page \in Pages
    BY DEF PageOK
  <2> QED BY <2>1 DEF Stop, Pages
<1>3. /\ \A key : Common(key)' = Common(key)
      /\ Frontier' = Frontier /\ \A common : Returned(common)' = Returned(common)
  BY <1>1, <1>2, QueryKept DEF Frontier, Returned
<1>4. PageOK'
  BY <1>1, <1>2 DEF PageOK, QueryOK, Stop, Full
<1>5. OrderOK'
  BY <1>1, <1>2, <1>3 DEF OrderOK, ItemsAscend
<1>6. Listed'
  <2> SUFFICES ASSUME query.max > 0, NEW key \in steady, Wanted(key)'
               PROVE  \/ Item(key)' \in ToSet(items')
                      \/ (Beyond(key, query.after)' /\ Beyond(key, Frontier)')
    BY <1>1, <1>2 DEF Listed
  <2>1. Wanted(key) /\ Item(key)' = Item(key)
    BY <1>1, <1>3 DEF Wanted, Item
  <2>2. Item(key) \in ToSet(items) \/ (Beyond(key, query.after) /\ Beyond(key, Frontier))
    BY <1>1, <2>1 DEF Listed
  <2> QED BY <1>1, <1>3, <2>1, <2>2 DEF Beyond
<1> QED BY <1>4, <1>5, <1>6

(* A key that comes later is past the item added, and rolled up into a      *)
(* prefix of it only if that is the item.                                   *)
LEMMA ItemsPart ==
  ASSUME QueryOK, NEW first \in Keys, NEW key \in Keys, Less(first, key)
  PROVE  /\ Less(Item(first), key)
         /\ Common(key) # None /\ IsPrefix(Common(key), Item(first)) => Common(first) = Common(key)
<1>1. first \in Strings /\ key \in Strings
  BY KeyStrings
<1>2. Item(first) \in Strings /\ IsPrefix(Item(first), first)
  BY ItemIs
<1>3. Less(Item(first), key)
  BY <1>1, <1>2, PrefixFirst
<1>4. ASSUME Common(key) # None, IsPrefix(Common(key), Item(first)) PROVE Common(first) = Common(key)
  <2>1. Common(key) \in Strings
    BY <1>1, <1>4, CommonIs
  <2>2. IsPrefix(Common(key), first)
    <3>1. Len(Common(key)) \in Nat /\ Len(Item(first)) \in Nat /\ Len(first) \in Nat
      BY <1>1, <1>2, <2>1 DEF Strings
    <3>2. /\ Len(Common(key)) <= Len(Item(first))
          /\ \A j \in 1..Len(Common(key)) : Common(key)[j] = Item(first)[j]
      BY <1>2, <1>4, <2>1, PrefixIff
    <3>3. /\ Len(Item(first)) <= Len(first)
          /\ \A j \in 1..Len(Item(first)) : Item(first)[j] = first[j]
      BY <1>1, <1>2, PrefixIff
    <3>4. /\ Len(Common(key)) <= Len(first)
          /\ \A j \in 1..Len(Common(key)) : Common(key)[j] = first[j]
      BY <3>1, <3>2, <3>3
    <3> QED BY <1>1, <2>1, <3>4, PrefixIff
  <2> QED BY <1>1, <1>4, <2>2, CommonShared
<1> QED BY <1>3, <1>4

(* The item added is past the last one.                                     *)
LEMMA ItemAscends ==
  ASSUME Inv, pc = "scan", rest # {}, ~Passed(LeastKey), items # <<>>
  PROVE  Less(items[Len(items)], Item(LeastKey))
<1> USE DEF Inv
<1> DEFINE key == LeastKey
<1>1. key \in rest /\ key \in Keys /\ key \in Strings
  BY LeastKeyIs, KeyStrings DEF PageOK
<1> HIDE DEF key
<1>2. Frontier \in Strings /\ items[Len(items)] = Frontier /\ Frontier # <<>> /\ QueryOK
  BY DEF OrderOK, PageOK, QueryOK, Pages, Frontier
<1>3. Less(Frontier, key) /\ (Common(key) # None => ~IsPrefix(Common(key), Frontier))
  <2>1. CASE page.marker = None
    <3>1. Frontier = query.after
      BY <2>1 DEF Frontier
    <3> QED BY <1>2, <3>1 DEF key, Passed, Before, Returned
  <2>2. CASE page.marker # None
    BY <1>1, <2>2 DEF OrderOK, Frontier, key, Passed
  <2> QED BY <2>1, <2>2
<1>4. Less(Frontier, Item(key))
  <2>1. CASE Common(key) = None
    BY <1>3, <2>1 DEF Item
  <2>2. CASE Common(key) # None
    <3>1. Common(key) \in Strings /\ IsPrefix(Common(key), key)
      BY <1>1, <1>2, <2>2, CommonIs
    <3>2. Less(Frontier, Common(key))
      BY <1>1, <1>2, <1>3, <2>2, <3>1, PrefixBetween
    <3> QED BY <2>2, <3>2 DEF Item
  <2> QED BY <2>1, <2>2
<1> QED BY <1>2, <1>4 DEF key

LEMMA StillFits ==
  ASSUME NEW a \in Nat, NEW b \in Nat, NEW n \in Nat, ~(a + b >= n), NEW total, total = a + b + 1 PROVE total <= n
  OBVIOUS

LEMMA AddKeeps == ASSUME Inv, Entry, Add PROVE Inv'
<1> USE DEF Inv
<1> DEFINE first == LeastKey
           item == Item(LeastKey)
<1>1. /\ pc = "scan" /\ rest # {} /\ ~page.truncated /\ rest' = rest \ {first}
      /\ bucket' = bucket /\ recent' = recent /\ changes' = changes /\ query' = query /\ pc' = pc
      /\ start' = start /\ steady' = steady /\ items' = Append(items, item)
  BY EntryIs DEF Add
<1>2. first \in rest /\ first \in Keys /\ \A other \in rest' : Less(first, other)
  BY <1>1, LeastKeyIs DEF PageOK
<1>3. QueryOK /\ item \in Strings /\ item # <<>> /\ item # None
  <2>1. QueryOK
    BY DEF PageOK
  <2>2. item \in Strings /\ item # <<>>
    BY <1>2, <2>1, ItemIs
  <2>3. None \notin Strings
    BY KeysAreStrings DEF Strings
  <2> QED BY <2>1, <2>2, <2>3
<1>4. /\ page' \in Pages /\ page'.marker = item /\ ~page'.truncated
      /\ Len(page'.contents) + Len(page'.prefixes) = Len(page.contents) + Len(page.prefixes) + 1
      /\ \/ Common(first) = None /\ page'.prefixes = page.prefixes
         \/ Common(first) # None /\ page'.prefixes # <<>> /\ Last(page'.prefixes) = item
  <2>1. page \in Pages /\ page.contents \in Seq(Keys) /\ page.prefixes \in Seq(Strings)
    BY DEF PageOK, Pages
  <2>2. CASE Common(first) = None
    <3>1. item = first
      BY <2>2 DEF Item
    <3>2. page' = [page EXCEPT !.contents = Append(@, first), !.marker = first]
      BY <2>2 DEF Add
    <3>3. Append(page.contents, first) \in Seq(Keys) /\ Len(Append(page.contents, first)) = Len(page.contents) + 1
      BY <1>2, <2>1
    <3>4. /\ page'.contents = Append(page.contents, first) /\ page'.prefixes = page.prefixes
          /\ page'.marker = first /\ page'.truncated = page.truncated /\ page' \in Pages
      BY <1>3, <2>1, <3>1, <3>2, <3>3 DEF Pages
    <3>5. Len(page.contents) \in Nat /\ Len(page.prefixes) \in Nat
      BY <2>1
    <3>6. Len(page'.contents) + Len(page'.prefixes) = Len(page.contents) + Len(page.prefixes) + 1
      <4>1. Len(page'.contents) = Len(page.contents) + 1 /\ Len(page'.prefixes) = Len(page.prefixes)
        BY <3>3, <3>4, Zenon
      <4> DEFINE a == Len(page.contents)
                 b == Len(page.prefixes)
                 c == Len(page'.contents)
                 d == Len(page'.prefixes)
      <4>2. a \in Nat /\ b \in Nat /\ ((c = a + 1 /\ d = b) \/ (c = a /\ d = b + 1))
        BY <3>5, <4>1, Zenon
      <4> HIDE DEF a, b, c, d
      <4>3. c + d = a + b + 1
        BY <4>2
      <4> QED BY <4>3 DEF a, b, c, d
    <3> HIDE DEF first, item
    <3> QED BY <1>1, <2>2, <3>1, <3>4, <3>6
  <2>3. CASE Common(first) # None
    <3>1. item = Common(first)
      BY <2>3 DEF Item
    <3>2. page' = [page EXCEPT !.prefixes = Append(@, Common(first)), !.marker = Common(first)]
      BY <2>3 DEF Add
    <3>3. /\ Append(page.prefixes, item) \in Seq(Strings)
          /\ Len(Append(page.prefixes, item)) = Len(page.prefixes) + 1
          /\ Append(page.prefixes, item)[Len(page.prefixes) + 1] = item
      BY <1>3, <2>1, AppendIs
    <3>4. /\ page'.prefixes = Append(page.prefixes, item) /\ page'.contents = page.contents
          /\ page'.marker = item /\ page'.truncated = page.truncated /\ page' \in Pages
      BY <1>3, <2>1, <3>1, <3>2, <3>3 DEF Pages
    <3>5. Len(page.contents) \in Nat /\ Len(page.prefixes) \in Nat
      BY <2>1
    <3>6. page'.prefixes # <<>> /\ Last(page'.prefixes) = item
      BY <3>3, <3>4, <3>5 DEF Last
    <3>7. Len(page'.contents) + Len(page'.prefixes) = Len(page.contents) + Len(page.prefixes) + 1
      <4>1. Len(page'.contents) = Len(page.contents) /\ Len(page'.prefixes) = Len(page.prefixes) + 1
        BY <3>3, <3>4, Zenon
      <4> DEFINE a == Len(page.contents)
                 b == Len(page.prefixes)
                 c == Len(page'.contents)
                 d == Len(page'.prefixes)
      <4>2. a \in Nat /\ b \in Nat /\ ((c = a + 1 /\ d = b) \/ (c = a /\ d = b + 1))
        BY <3>5, <4>1, Zenon
      <4> HIDE DEF a, b, c, d
      <4>3. c + d = a + b + 1
        BY <4>2
      <4> QED BY <4>3 DEF a, b, c, d
    <3> HIDE DEF first, item
    <3> QED BY <1>1, <2>3, <3>4, <3>6, <3>7
  <2> QED BY <2>2, <2>3
<1>5. items \in Seq(Strings) /\ Len(items) \in Nat
  BY DEF OrderOK
<1>6. /\ Len(items') = Len(items) + 1 /\ items'[Len(items) + 1] = item
      /\ \A i \in 1..Len(items) : items'[i] = items[i]
      /\ ToSet(items') = ToSet(items) \cup {item} /\ items' \in Seq(Strings)
  <2> HIDE DEF item
  <2>1. Append(items, item) \in Seq(Strings)
    BY <1>3, <1>5
  <2> QED BY <1>1, <1>5, <2>1, AppendIs
<1>7. items # <<>> => Less(items[Len(items)], item)
  BY <1>1, ItemAscends DEF Add
<1>8. \A key : Common(key)' = Common(key)
  BY <1>1, QueryKept
<1>9. Frontier' = item
  BY <1>3, <1>4 DEF Frontier
<1>10. \A key \in rest' : /\ Less(item, key)
                          /\ Common(key) # None /\ IsPrefix(Common(key), item) => item = Common(key)
  <2> SUFFICES ASSUME NEW key \in rest'
               PROVE  /\ Less(item, key)
                      /\ Common(key) # None /\ IsPrefix(Common(key), item) => item = Common(key)
    OBVIOUS
  <2>1. key \in Keys /\ Less(first, key)
    BY <1>1, <1>2 DEF PageOK
  <2>2. /\ Less(item, key)
        /\ Common(key) # None /\ IsPrefix(Common(key), item) => Common(first) = Common(key)
    BY <1>2, <1>3, <2>1, ItemsPart
  <2> QED BY <2>2 DEF Item
<1> HIDE DEF first, item
<1>11. PageOK'
  <2>1. QueryOK' /\ query'.max = query.max /\ query.max \in Nat
    BY <1>1, <1>3 DEF QueryOK
  <2>2. Len(page.contents) \in Nat /\ Len(page.prefixes) \in Nat
    BY DEF PageOK, Pages
  <2>3. Len(page'.contents) + Len(page'.prefixes) <= query'.max
    <3>1. ~(Len(page.contents) + Len(page.prefixes) >= query.max)
      BY DEF Add, Full
    <3>2. Len(page'.contents) + Len(page'.prefixes) = Len(page.contents) + Len(page.prefixes) + 1
      BY <1>4
    <3> QED BY <2>1, <2>2, <3>1, <3>2, StillFits, Zenon
  <2>4. rest' \subseteq Keys
    BY <1>1 DEF PageOK
  <2> QED BY <1>1, <1>3, <1>4, <2>1, <2>3, <2>4 DEF PageOK
<1>12. OrderOK'
  <2>1. items' # <<>> /\ items'[Len(items')] = Frontier' /\ Frontier' # <<>>
    BY <1>3, <1>5, <1>6, <1>9
  <2>2. ItemsAscend'
    <3> SUFFICES ASSUME NEW i \in 1..Len(items') - 1 PROVE Less(items'[i], items'[i + 1])
      BY DEF ItemsAscend, Less
    <3>1. CASE i = Len(items)
      <4>1. items # <<>>
        BY <3>1
      <4> QED BY <1>5, <1>6, <1>7, <3>1, <4>1
    <3>2. CASE i # Len(items)
      <4>1. i \in 1..Len(items) - 1 /\ i \in 1..Len(items) /\ i + 1 \in 1..Len(items)
        BY <1>5, <1>6, <3>2
      <4>2. Less(items[i], items[i + 1])
        BY <4>1 DEF OrderOK, ItemsAscend
      <4> QED BY <1>6, <4>1, <4>2
    <3> QED BY <3>1, <3>2
  <2>3. page'.prefixes # <<>> => Last(page'.prefixes) \in ToSet(items')
    BY <1>4, <1>6 DEF OrderOK
  <2>4. ASSUME NEW key \in rest'
        PROVE  /\ Less(page'.marker, key)
               /\ Common(key)' # None /\ IsPrefix(Common(key)', page'.marker) => Returned(Common(key))'
    <3>1. /\ Less(item, key)
          /\ Common(key) # None /\ IsPrefix(Common(key), item) => item = Common(key)
      BY <1>10
    <3>2. ASSUME item = Common(key), Common(key) # None PROVE Returned(Common(key))'
      <4>1. Common(first) # None
        <5>1. CASE Common(first) = None
          <6>1. item = first /\ first \in Strings /\ key \in Strings /\ Less(first, key) /\ IsPrefix(Common(key), key)
            BY <1>1, <1>2, <1>3, <3>2, <5>1, KeyStrings, CommonIs DEF PageOK, Item, item, first
          <6>2. IsPrefix(Common(key), first)
            BY <3>2, <6>1, PrefixIff DEF Strings
          <6> QED BY <1>3, <3>2, <5>1, <6>1, <6>2, CommonShared
        <5> QED BY <5>1
      <4>2. page'.prefixes # <<>> /\ Last(page'.prefixes) = item
        BY <1>4, <4>1
      <4> QED BY <1>8, <3>2, <4>2 DEF Returned
    <3> QED BY <1>4, <1>8, <3>1, <3>2
  <2> QED BY <1>4, <1>6, <2>1, <2>2, <2>3, <2>4 DEF OrderOK, ItemsAscend, Less, Returned
<1>13. Listed'
  <2> SUFFICES ASSUME query.max > 0, NEW key \in steady, Wanted(key)'
               PROVE  \/ Item(key)' \in ToSet(items')
                      \/ (Beyond(key, query.after)' /\ Beyond(key, Frontier)' /\ key \in rest')
    BY <1>1 DEF Listed
  <2>1. Wanted(key) /\ Item(key)' = Item(key)
    BY <1>1, <1>8 DEF Wanted, Item
  <2>2. \/ Item(key) \in ToSet(items)
        \/ (Beyond(key, query.after) /\ Beyond(key, Frontier) /\ key \in rest)
    BY <1>1, <2>1 DEF Listed
  <2>3. CASE Item(key) \in ToSet(items)
    BY <1>6, <2>1, <2>3
  <2>4. CASE key = first
    BY <1>6, <2>1, <2>4 DEF item, first
  <2>5. CASE key # first /\ Beyond(key, query.after) /\ key \in rest
    <3>1. key \in rest' /\ Less(item, key)
      BY <1>1, <1>10, <2>5
    <3>2. CASE Common(key) = None \/ ~IsPrefix(Common(key), item)
      BY <1>1, <1>8, <1>9, <2>5, <3>1, <3>2 DEF Beyond
    <3>3. CASE Common(key) # None /\ IsPrefix(Common(key), item)
      <4>1. Item(key) = item
        BY <1>10, <3>1, <3>3 DEF Item
      <4> QED BY <1>6, <2>1, <4>1
    <3> QED BY <3>2, <3>3
  <2> QED BY <2>2, <2>3, <2>4, <2>5
<1> QED BY <1>11, <1>12, <1>13

-----------------------------------------------------------------------------
LEMMA InvNext == Inv /\ [Next]_vars => Inv'
<1> SUFFICES ASSUME Inv, [Next]_vars PROVE Inv'
  OBVIOUS
<1>1. CASE Ask
  BY <1>1, AskKeeps
<1>2. CASE Entry
  BY <1>2, EntryIs, SkipKeeps, StopKeeps, AddKeeps
<1>3. CASE EndPage
  BY <1>3, EndPageKeeps
<1>4. CASE Change
  BY <1>4, ChangeKeeps
<1>6. CASE Age
  BY <1>6, AgeKeeps
<1>5. CASE UNCHANGED vars
  <2>1. /\ bucket' = bucket /\ recent' = recent /\ changes' = changes /\ query' = query /\ pc' = pc /\ rest' = rest
        /\ page' = page /\ start' = start /\ steady' = steady /\ items' = items
    BY <1>5 DEF vars
  <2>2. \A key : Common(key)' = Common(key)
    BY <2>1, QueryKept
  <2>3. PageOK'
    BY <2>1 DEF Inv, PageOK, QueryOK, EmptyPage
  <2>4. OrderOK'
    BY <2>1, <2>2 DEF Inv, OrderOK, ItemsAscend, Returned, Frontier
  <2>5. Listed'
    BY <2>1, <2>2 DEF Inv, Listed, Wanted, Item, Beyond, Frontier
  <2> QED BY <2>3, <2>4, <2>5 DEF Inv
<1> QED BY <1>1, <1>2, <1>3, <1>4, <1>5, <1>6 DEF Next

LEMMA InvHolds == Spec => []Inv
<1> QED BY InvInit, InvNext, PTL DEF Spec

(* Every state of a listing is of its types, and a page holds no more keys  *)
(* and prefixes than asked for.                                             *)
THEOREM TypeCorrect == Spec => []TypeOK
<1>1. Inv => TypeOK
  BY DEF Inv, PageOK, Pages, TypeOK
<1> QED BY <1>1, InvHolds, PTL

(* Over pages between which any keys come and go, what is returned ascends: *)
(* nothing comes twice.                                                     *)
THEOREM ItemsAscendHolds == Spec => []ItemsAscend
<1>1. Inv => ItemsAscend
  BY DEF Inv, OrderOK
<1> QED BY <1>1, InvHolds, PTL

(* A listing that ended has returned each key, or its common prefix, that   *)
(* was there, unchanged since list_cache_seconds before the first page,     *)
(* throughout.                                                              *)
THEOREM SteadyKeysListedHolds == Spec => []SteadyKeysListed
<1>1. Inv => SteadyKeysListed
  BY DEF Inv, Listed, Item, SteadyKeysListed
<1> QED BY <1>1, InvHolds, PTL
=============================================================================
