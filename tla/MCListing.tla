----------------------------- MODULE MCListing -----------------------------
(* Listing over keys of the characters "!" < "/" < "a", "/" the delimiter.  *)
EXTENDS Listing

MCKeys == {<<1>>, <<3>>, <<3, 1>>, <<3, 2>>, <<3, 2, 1>>, <<3, 2, 3>>, <<3, 3, 2, 3>>}

MCQueries ==
  [prefix : {<<>>, <<3>>, <<3, 2>>}, delimiter : {<<>>, <<2>>, <<3>>, <<2, 3>>},
   after : {<<>>, <<3>>, <<3, 2, 1>>}, max : {0, 1, 2}]
=============================================================================
