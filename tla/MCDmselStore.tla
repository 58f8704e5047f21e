---------------------------- MODULE MCDmselStore ----------------------------
(***************************************************************************)
(* DmselStore on a small store.  A state takes one word, so that the       *)
(* records have three to five words, but for one that is too big.          *)
(***************************************************************************)
EXTENDS DmselStore

MCDataWords ==
    [v \in Values |-> CASE v = "empty" -> 0 [] v = "word" -> 1 [] v = "long" -> 2
                        [] v = "big" -> StoreWords]
=============================================================================
