---------------------------- MODULE ChannelTable ----------------------------
(***************************************************************************)
(* What a DAQ module promises of its channels: each channel has a row of   *)
(* stored values.  Changing the set of channels keeps the rows of those    *)
(* that stay and gives the others the defaults; everything else writes one *)
(* column.  Channels implements this module with vectors and an index map. *)
(***************************************************************************)
CONSTANTS Channels, Registries, Default, Entries
VARIABLE table   \* a row of registries for every channel of the module

Init == \E S \in SUBSET Channels : table = [c \in S |-> Default]

Change(S) ==
  /\ DOMAIN table' = S
  /\ table' = [c \in S |-> IF c \in DOMAIN table THEN table[c] ELSE Default]

Write(r) ==
  /\ DOMAIN table' = DOMAIN table
  /\ \A c \in DOMAIN table :
       \E v \in Entries[r] : table'[c] = [table[c] EXCEPT ![r] = v]

Next == \/ \E S \in SUBSET Channels : Change(S)
        \/ \E r \in Registries : Write(r)

Spec == Init /\ [][Next]_table
=============================================================================
