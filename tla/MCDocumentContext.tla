-------------------------- MODULE MCDocumentContext --------------------------
(* Instances of DocumentContext for TLC. *)
EXTENDS DocumentContext

CONSTANTS p1, p2, i1, a1

\* One new document: pages that share an image and an opacity, failures.
Sharing ==
    [new |-> {1}, modified |-> {}, encrypted |-> {}, images |-> {i1}, opacities |-> {a1},
     documents |-> 1, objects |-> 10, pages |-> 2, annotations |-> 0, forms |-> 0,
     restarts |-> 0, failures |-> 1]

\* The same with an image and links.
Linking == [Sharing EXCEPT !.opacities = {}, !.annotations = 1]

\* A modified document, shut down and continued.
Update ==
    [Sharing EXCEPT !.new = {}, !.modified = {1}, !.objects = 12, !.pages = 1,
                    !.annotations = 1, !.forms = 1, !.restarts = 1]

\* A PDFWriter used for a second document, new or modified, which is encrypted, the
\* first ended or given up. No image is drawn: see AnImageAgain.
Reuse ==
    [new |-> {1, 2}, modified |-> {1, 2}, encrypted |-> {2}, images |-> {}, opacities |-> {},
     documents |-> 2, objects |-> 10, pages |-> 1, annotations |-> 1, forms |-> 1,
     restarts |-> 0, failures |-> 0]

\* An image that was drawn in the document before.
AnImageAgain ==
    [new |-> {1, 2}, modified |-> {}, encrypted |-> {}, images |-> {i1}, opacities |-> {},
     documents |-> 2, objects |-> 8, pages |-> 1, annotations |-> 0, forms |-> 0,
     restarts |-> 0, failures |-> 0]

EveryClient == {Sharing, Linking, Update, Reuse}
ClientWithAnImageAgain == {AnImageAgain}

\* PDFPage instances differ in their address only.
Symmetry == Permutations(PageObjects)
=============================================================================
