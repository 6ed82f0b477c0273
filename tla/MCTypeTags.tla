----------------------------- MODULE MCTypeTags -----------------------------
(* One reserved type and three more, one of which cannot be registered; two *)
(* libraries, compiled and loaded in any order.                             *)
EXTENDS TypeTags, TLC

CONSTANTS Nothing, Node, Token, Alias, so1, so2

MCTypes         == {Nothing, Node, Token, Alias}
MCReservedIds   == (Nothing :> 0)
MCUnregistrable == {Alias}
MCLibs          == {so1, so2}
=============================================================================
