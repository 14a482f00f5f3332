-------------------------- MODULE ConnectionString --------------------------
(***************************************************************************)
(* The two readers of clusterConfig.database.connectionString, which take  *)
(* it apart independently: the environment of the servers                  *)
(* (ExtractDatabaseInfo) and the init container of the schema job          *)
(* (GetDatabaseHost).  Each is called once on a well-formed string.        *)
(***************************************************************************)
EXTENDS Database

CONSTANTS
    Types,      \* database types, one token each
    Hosts,      \* host names
    DbNames,    \* database names
    Queries     \* what may follow the name: <<>> or tokens from "?" on

\* Only a query has separators in it.
ASSUME PartsAssumption == (Types \cup Hosts \cup DbNames) \cap Separators = {}

ASSUME QueriesAssumption ==
    \A q \in Queries : q \in Seq(TokensOf(q)) /\ (q # <<>> => q[1] = "?")

VARIABLES
    url,        \* the parts the user meant: [type, host, port, name, query]
    info,       \* what ExtractDatabaseInfo returned, or Nil
    host        \* what GetDatabaseHost returned, or Nil

vars == <<url, info, host>>

\* The form of the example in GetDatabaseHost and of the test.
Format(u) ==
    <<"jdbc", ":", u.type, ":", "/", "/", u.host, ":", u.port, "/", u.name>> \o u.query

Init ==
    /\ url \in [type : Types, host : Hosts, port : {"5432", "3306"}, name : DbNames,
                query : Queries]
    /\ info = Nil /\ host = Nil

Extract ==
    /\ info = Nil
    /\ info' = ExtractDatabaseInfo(Format(url), EmptyMap, Nil)
    /\ UNCHANGED <<url, host>>

WaitFor ==
    /\ host = Nil
    /\ host' = GetDatabaseHost(Format(url))
    /\ UNCHANGED <<url, info>>

Next == Extract \/ WaitFor

Spec == Init /\ [][Next]_vars

-----------------------------------------------------------------------------
\* What parseConnectionString finds is what the user wrote, whatever the
\* separators in the query: a type without a driver, and a string without
\* credentials, is an error, and no well-formed string makes the code panic.
RoundTrip ==
    info # Nil =>
        IF url.type \in {"mysql", "postgresql"} /\ url.query # <<>>
        THEN /\ info.out = "ok"
             /\ info.val.db.type = <<url.type>> /\ info.val.db.host = <<url.host>>
             /\ info.val.db.port = <<url.port>> /\ info.val.db.name = <<url.name>>
        ELSE info = Error

\* The schema job waits for the host the servers are told to use.
SameHost ==
    host # Nil /\ info # Nil /\ info.out = "ok" => host = Ok(info.val.db.host)

\* A query that gives the user and the password once each, in either order
\* and among other parameters, yields both.
Has(q) == \E i \in 1..(Len(url.query) - 2) : SubSeq(url.query, i, i + 2) = q

QueryCredentials ==
    info # Nil /\ info.out = "ok" =>
        /\ Has(<<"user", "=", "u">>) => info.val.user = <<"u">>
        /\ Has(<<"password", "=", "p">>) => info.val.pass = <<"p">>
=============================================================================
