----------------------------- MODULE MCRecords ------------------------------
(***************************************************************************)
(* Values of each type but float, few but with bytes that tell their       *)
(* order.                                                                  *)
(***************************************************************************)
EXTENDS Records
TypedValues ==
  [bool    |-> {<<1>>},
   int16   |-> {<<0, 2>>, <<2, 1>>},
   int32   |-> {<<0, 0, 0, 2>>},
   int64   |-> {<<1, 2, 3, 4, 5, 6, 7, 8>>},
   string  |-> {<<>>, <<7, 8>>},
   wstring |-> {<<<<1, 9>>>>}] @@ ("char*" :> {<<7, 8>>}) @@ ("vector<int16>" :> {<<<<1, 2>>, <<3, 4>>>>})
=============================================================================
