----------------------------- MODULE MCStartup -----------------------------
(* A table that the verification counts and the one it leaves out, and the *)
(* configurations an operator may write: a misplaced key among them, and   *)
(* lines that TOML and the scans read differently.                         *)
EXTENDS Startup

CONSTANTS r1, k1
TablesOfRows == [r \in {r1, k1} |-> IF r = k1 THEN "service_key" ELSE "file"]

Database == <<"key", "database", "in.db">>
Secret   == <<"key", "secret", "s">>
Bytes    == <<"key", "bucket", "b">>

\* A plain one with a misplaced key; one whose bucket and headers no scan sees;
\* one whose first header, as the scan takes it, is the end of an array.
Texts == {<<Database, <<"table", "storage.r2", "">>, Bytes,
            <<"table", "oidc", "">>, Secret, <<"key", "storage", "x">>>>,
          <<Database, <<"dotted", "bucket", "b">>, <<"quoted", "listen", "80">>,
            <<"spaced", "oidc", "">>, Secret>>,
          <<Database, <<"key", "mirrors", "[">>, <<"inner", "", "">>,
            <<"quoted table", "oidc", "">>, Secret>>}
=============================================================================
