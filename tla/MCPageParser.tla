---------------------------- MODULE MCPageParser ----------------------------
(* Two orders of the columns; products several times on the page, with and   *)
(* without a date or a number, once with its code in lower case, short       *)
(* lines, and lines that are no product.                                     *)
EXTENDS PageParser

MCTexts == {"", "Code", "Unit", "Acc", "Date", "A", "a", "B", "-", "1.05", "1.06",
            "2026/09/18", "2026/09/19"}

MCSays == [t \in MCTexts |-> CASE t = "Code" -> {"code"}
                               [] t = "Unit" -> {"unit"}
                               [] t = "Date" -> {"day"}
                               [] OTHER -> {}]
MCNavOf == [t \in MCTexts |-> CASE t = "1.05" -> 105
                                [] t = "1.06" -> 106
                                [] OTHER -> NoNav]
MCDayOf == [t \in MCTexts |-> CASE t = "2026/09/18" -> 18
                                [] t = "2026/09/19" -> 19
                                [] OTHER -> NoDay]

MCUpperOf == [t \in MCTexts |-> IF t = "a" THEN "A" ELSE t]

MCLines == {<<"Code", "Unit", "Date">>, <<"Code", "Date", "Acc", "Unit">>,
            <<"Unit", "Date">>,
            <<"A", "1.05", "2026/09/18">>, <<"A", "1.06", "2026/09/18">>,
            <<"A", "-", "2026/09/18">>,    <<"A", "1.05", "2026/09/19">>,
            <<"A", "1.06", "">>,           <<"B", "-", "2026/09/19">>,
            <<"A", "2026/09/19", "1.06", "1.05">>,
            <<"A", "2026/09/19">>,         <<"", "1.05", "2026/09/18">>,
            <<"a", "1.06", "2026/09/18">>}
=============================================================================
