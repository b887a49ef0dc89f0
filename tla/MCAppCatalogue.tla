--------------------------- MODULE MCAppCatalogue ---------------------------
(* AppCatalogue on small instances: three applications, two files to target. *)
EXTENDS AppCatalogue

CONSTANTS x, y, z, p, q, any, release, ra, rb

Declares(n, path, good) == [name |-> n, path |-> path, pattern |-> any, ok |-> good]
Operates(n, path, pattern) == [name |-> n, path |-> path, pattern |-> pattern, source |-> Operator]

Own == <<Declares(y, q, TRUE)>>
\* The first entry is bad; the last one has a file another entry has.
Many == <<Declares(x, p, FALSE), Declares(y, p, TRUE), Declares(x, q, TRUE), Declares(z, q, TRUE)>>
RepoFiles == {Own, Many}

OperatorVersions == {<<>>, <<Operates(y, q, release)>>}

\* Two repositories that rival for a name and a file, and one that rivals with
\* the operator before the other repository has anything.
Rivals ==
  { [files |-> (ra :> Own @@ rb :> Many),   apps |-> <<>>],
    [files |-> (ra :> Own @@ rb :> NoFile), apps |-> <<Operates(y, q, release)>>] }
=============================================================================
