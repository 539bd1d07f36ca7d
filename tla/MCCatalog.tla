------------------------------ MODULE MCCatalog ------------------------------
(* Three products, two of one name, one of them unlisted or not; histories  *)
(* with a rise, a fall, equal moves, too short a history, and no NAV.       *)
EXTENDS CatalogPage

MCCodes == 1..3
MCWindows == [ret_30 |-> 1, ret_360 |-> 2]

None  == <<0, 0, 0>>
Short == <<0, 0, 90>>
Rise  == <<100, 0, 110>>
Fall  == <<100, 90, 0>>

MCHistories == {<<Short, Rise, Fall>>, <<Rise, None, Rise>>, <<Fall, Rise, Rise>>}

MCTables == {[c \in MCCodes |-> [name   |-> IF c = 3 THEN 1 ELSE 2,
                                 listed |-> c # gone,
                                 navs   |-> history[c]]] :
                gone \in {0, 2}, history \in MCHistories}

MCTexts == {MCCodes, {2, 3}}
=============================================================================
