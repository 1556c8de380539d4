--------------------------- MODULE MCContentContext ---------------------------
(***************************************************************************)
(* One font with a simple and a CID representation, one image and one      *)
(* form; states saved once above the first.                                *)
(***************************************************************************)
EXTENDS ContentContext

CONSTANTS f1, simple, cid

MCFontObject ==
    [f \in Fonts |-> [r \in Representations |-> IF r = simple THEN 1 ELSE 2]]

\* For every operator argument lists that it accepts and others that it does not.
MCArguments ==
    {<<"string">>, <<"array">>, <<"array", "number">>,
     <<"string", "object">>, <<"number", "number", "string">>}
    \cup {Numbers(n) : n \in {1, 2, 3, 4, 6}}

MCDrawingOptions ==
    {[NoOptions EXCEPT !.color = "rgb", !.width = TRUE],
     [NoOptions EXCEPT !.type = "fill", !.color = "cmyk"],
     [NoOptions EXCEPT !.type = "stroke", !.close = TRUE,
                       !.font = f1, !.color = "gray", !.underline = TRUE],
     [NoOptions EXCEPT !.font = f1, !.size = 2],
     [NoOptions EXCEPT !.type = "clip", !.close = TRUE],
     [NoOptions EXCEPT !.type = "none", !.close = TRUE]}

\* The client names the font's object itself and places it by its name.
MCClientMappings == {<<"Font", 2>>}

MCClientNames == {<<"Font", 1>>}
================================================================================
