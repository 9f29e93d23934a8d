-------------------------- MODULE MCExtractionRun --------------------------
(* Small instances of ExtractionRun for TLC.                               *)
EXTENDS ExtractionRun

\* A title alone, blank ones included, or with any short body.
Titles == {<<"w">>, <<"w", ".">>, <<"w", "w", ".">>, <<".", "w">>, <<Marker>>, <<Space>>}

Bodies == UNION {[1..n -> Characters] : n \in 0..5}

MCArticles == {<<title, content>> : title \in Titles, content \in Bodies}

MCOneArticle == {<<<<"w">>, <<"w", ".">>>>}

Ellipsis == <<"~">>
=============================================================================
