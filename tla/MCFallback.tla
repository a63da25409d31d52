----------------------------- MODULE MCFallback -----------------------------
(* Small instances of Fallback for TLC.                                    *)
EXTENDS Fallback

\* No source anywhere, a source on disk, and one inside the media whose text
\* was translated for another title.
Nowhere == [source |-> FALSE, embedded |-> FALSE, identical |-> FALSE]
FirstTitles == {Nowhere, [Nowhere EXCEPT !.source = TRUE],
                [Nowhere EXCEPT !.embedded = TRUE, !.identical = TRUE]}
=============================================================================
