------------------------------- MODULE PageList -------------------------------
(***************************************************************************)
(* What the page tree is for: a document is a list of pages.  Pages are    *)
(* added at its end, and once it is ended a reader finds the pages the     *)
(* modified document had, then those that were added, in that order.       *)
(***************************************************************************)
EXTENDS Sequences, SequencesExt

CONSTANTS
    Pages,          \* what a page may be
    OriginalPages,  \* the pages the document being modified may have had
    NotEnded        \* what a reader finds before the document is ended

VARIABLES original, list, readers

vars == <<original, list, readers>>

Init ==
    /\ original \in OriginalPages
    /\ list = <<>>
    /\ readers = NotEnded

AddPage(page) ==
    /\ readers = NotEnded
    /\ page \notin ToSet(original \o list)
    /\ list' = Append(list, page)
    /\ UNCHANGED <<original, readers>>

EndPDF ==
    /\ readers = NotEnded
    /\ readers' = original \o list
    /\ UNCHANGED <<original, list>>

Next == (\E page \in Pages : AddPage(page)) \/ EndPDF

Spec == Init /\ [][Next]_vars
=============================================================================
