---------------------------- MODULE MCGlobalConfig ----------------------------
(***************************************************************************)
(* A small instance of GlobalConfig: two names, keys of up to two of them, *)
(* a real with too many digits that is printed as a whole number, a string *)
(* with an odd byte, an empty value, and every initial file of up to four  *)
(* pieces, plain strings among them.                                       *)
(***************************************************************************)
EXTENDS GlobalConfig

A == <<"a">>
B == <<"b">>
MCKeys == {<<A>>, <<A, B>>, <<B>>}
Long == <<"1.0000001">>
MCReals == {<<"1.5">>, Long}
MCRounded == [word \in {Long} |-> <<"1">>]
MCValues == {[kind |-> "real", text |-> Long], [kind |-> "string", text |-> <<"odd">>],
             Empty}
Pieces == {<<"{">>, <<"}">>, <<",">>, Quoted(A) \o <<":">>, <<"1", Space>>, Quoted(<<"1">>),
           <<"odd">>}
MCTexts == {FlattenSeq(s) : s \in UNION {[1..n -> Pieces] : n \in 0..4}}
=============================================================================
