---------------------------- MODULE MCTradeCode ----------------------------
(* Small instances of TradeCode.  Users, codes and request threads are each  *)
(* interchangeable.                                                          *)
EXTENDS TradeCode, TLC

Symmetry == Permutations(Users) \cup Permutations(Codes) \cup Permutations(Requests)
=============================================================================
