--------------------------- MODULE MCDeepResearch ---------------------------
(* DeepResearch for TLC: one source found at one anchor with two scores and *)
(* at another anchor, and a second source.                                  *)
EXTENDS DeepResearch

Hit(source, locator, score) == [source |-> source, locator |-> locator, score |-> score]
MCHits == {Hit(1, <<1>>, 1), Hit(1, <<1>>, 2), Hit(1, <<1, 0>>, 2), Hit(2, <<1>>, 1)}
=============================================================================
