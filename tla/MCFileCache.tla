----------------------------- MODULE MCFileCache -----------------------------
(* Small instances of FileCache for TLC. *)
EXTENDS FileCache

CONSTANTS t1, t2

\* The second version is larger than the cache, the third is empty.
Sizes == [v \in 0..3 |-> IF v = 3 THEN 0 ELSE v]

NameSuffix == [n \in {"dir", "css"} |-> IF n = "css" THEN "css" ELSE ""]

Symmetry == Permutations(Thread)

De == <<"de", "DE">>
AnyDe == <<"de", "">>
EnUS == <<"en", "US">>
OneLocale == {<<AnyDe>>}
NoLocale == {<<>>}

\* The order templatecache.h:19-30 documents, and a template without locales.
ASSUME DocumentedOrder ==
    /\ Candidates("index", <<De, AnyDe, EnUS>>) =
         <<File("index", "de", "DE"), File("index", "de", ""), File("index", "en", "US"),
           File("index", "en", ""), Plain("index")>>
    /\ Candidates("index", <<>>) = <<Plain("index")>>
=============================================================================
