--------------------------- MODULE MCResponseReader ---------------------------
(* Header lists for TLC: each framing alone and after another header, both at *)
(* once, none at all, and the ones the parsers stumble over.                  *)
EXTENDS ResponseReader

MCHeaderLists ==
  {<<>>, <<"other">>, <<"length">>, <<"other", "length">>, <<"chunked">>, <<"other", "chunked">>,
   <<"length", "chunked">>, <<"badLength">>, <<"noValue", "length">>, <<"other", "noValue", "chunked">>}
===============================================================================
