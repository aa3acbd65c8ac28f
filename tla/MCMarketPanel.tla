---------------------------- MODULE MCMarketPanel ----------------------------
(* An instance of MarketPanel for TLC: lists of two pages, a cache of one list, and a     *)
(* user who goes to the ranking, the ranking searched, the eligible and the funded tokens. *)
EXTENDS MarketPanel

CONSTANTS blank, typed

MCScreens ==
    {<<"ranking", blank>>, <<"ranking", typed>>, <<"selection", blank>>, <<"funded", blank>>}

MCPages == [k \in Keys |-> 2]
=============================================================================
