----------------------------- MODULE MCRequestHead -----------------------------
(* Texts for TLC: plain ones, empty ones, and ones that hold a separator.      *)
EXTENDS RequestHead

MCMethods == {<<>>, <<"GET">>}
MCPaths == {<<>>, <<"/api">>, <<"/api", "?", "n">>}
MCNames == {"Host", ContentLength}
MCValues == {<<>>, <<"v">>, <<"v", "&", ": ", "w">>}
===============================================================================
