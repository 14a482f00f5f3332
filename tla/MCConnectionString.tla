------------------------- MODULE MCConnectionString -------------------------
(***************************************************************************)
(* Queries with one or two parameters, whose values contain the          *)
(* separators that split the rest of the string.                           *)
(***************************************************************************)
EXTENDS ConnectionString

Params == {<<"user", "=", "u">>, <<"password", "=", "p">>, <<"tz", "=", "GMT", ":", "8">>,
           <<"path", "=", "/", "a", "/", "b">>, <<"next", "=", "/", "/", "c", ":", "1">>,
           <<"flag">>}

MCTypes   == {"mysql", "postgresql", "h2"}
MCHosts   == {"db", "127.0.0.1"}
MCDbNames == {"dolphin"}
MCQueries ==
    {<<>>} \cup {<<"?">> \o a : a \in Params}
           \cup {<<"?">> \o a \o <<"&">> \o b : a, b \in Params}
=============================================================================
