------------------------------- MODULE MCHost -------------------------------
(***************************************************************************)
(* What the run of Host types, calls and sends.                            *)
(***************************************************************************)
EXTENDS Host

\* One thread reads keys in every way but get_key_nb() while another prints and
\* asks for keys; no arrows, two keys ahead.
CallsMade ==
  [t1 |-> {"kb_hit", "get_ch", "get_ch_nb", "get_key"},
   t2 |-> {"print", "color_print", "get_ch_nb", "get_key"}]
KeysPressed == <<"a", "b", "c">>

\* Bodies with bytes that could be taken for sizes and for ends of lines, sent
\* whole and in chunks, by servers that answer or close the connection.
Plain(fields, body) ==
  [fields |-> fields, chunked |-> FALSE, chunks |-> <<body>>, trailers |-> <<>>]
InChunks(chunks) ==
  [fields |-> <<"x">>, chunked |-> TRUE, chunks |-> chunks, trailers |-> <<>>]
ResponsesMade ==
  {Plain(<<>>, <<>>), Plain(<<"x", "E">>, <<"3", "line", "line", "x">>),
   Plain(<<"x">>, <<"chunked", "=">>), InChunks(<<>>),
   InChunks(<<<<"2", "line", "x">>, <<"line", "3">>>>)}
=============================================================================
