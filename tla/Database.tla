------------------------------ MODULE Database ------------------------------
(***************************************************************************)
(* pkg/util/database.go: the database connection string and credentials.   *)
(*                                                                         *)
(* A connection string is a sequence of tokens, where the separators the   *)
(* code splits at (":", "/", "?", "&", "=") are tokens of their own and a  *)
(* token between them stands for any text without separators.              *)
(***************************************************************************)
EXTENDS GoValues, Naturals, Sequences, FiniteSets

-----------------------------------------------------------------------------
(* strings.Split *)

Count(s, c) == Cardinality({i \in 1..Len(s) : s[i] = c})

\* The position of the n-th c in s; 0 and Len(s)+1 delimit the outer parts.
Cut(s, c, n) ==
    IF n = 0 THEN 0
    ELSE IF n > Count(s, c) THEN Len(s) + 1
    ELSE CHOOSE i \in 1..Len(s) :
            s[i] = c /\ Cardinality({j \in 1..i : s[j] = c}) = n

Split(s, c) ==
    [n \in 1..(Count(s, c) + 1) |->
        SubSeq(s, Cut(s, c, n - 1) + 1, Cut(s, c, n) - 1)]

\* Mutant: the text after the last "//".
AfterLastSlashes(s) ==
    LET pairs == {i \in 1..(Len(s) - 1) : s[i] = "/" /\ s[i + 1] = "/"}
    IN  SubSeq(s, (CHOOSE i \in pairs : \A j \in pairs : j <= i) + 2, Len(s))

\* The text after the first "//" (up to the next one), if there is one.
SlashPairs(s) == {i \in 1..(Len(s) - 1) : s[i] = "/" /\ s[i + 1] = "/"}

FirstPair(s) == CHOOSE i \in SlashPairs(s) : \A j \in SlashPairs(s) : i <= j

AfterSlashes(s) ==
    LET rest == SubSeq(s, FirstPair(s) + 2, Len(s))
    IN  IF SlashPairs(rest) = {} THEN rest ELSE SubSeq(rest, 1, FirstPair(rest) - 1)

-----------------------------------------------------------------------------
GetDatabaseDriver(dbType) ==
    CASE dbType = <<"mysql">>      -> Ok("com.mysql.cj.jdbc.Driver")
      [] dbType = <<"postgresql">> -> Ok("org.postgresql.Driver")
      [] OTHER                     -> Error

\* Mutant: the query stays with the name.
UntrimmedName(part) == part

\* The database's name, without the query.
TrimQuery(part) == Split(part, "?")[1]

\* Every index the code uses is checked against the length it really has: an
\* index out of range is a Go panic.
parseConnectionString(cs) ==
    LET parts     == Split(cs, ":")
        hostParts == Split(parts[3], "/")
        portParts == Split(parts[4], "/")
    IN  IF Len(parts) < 3 THEN Error
        ELSE IF GetDatabaseDriver(parts[2]) = Error THEN Error
        ELSE IF Len(hostParts) < 2 THEN Error
        ELSE IF Len(hostParts) < 3 THEN Panic
        ELSE IF Len(parts) < 4 THEN Panic
        ELSE IF Len(portParts) < 2 THEN Panic
        ELSE Ok([type   |-> parts[2],
                 driver |-> GetDatabaseDriver(parts[2]).val,
                 host   |-> hostParts[3],
                 port   |-> portParts[1],
                 name   |-> TrimQuery(portParts[2])])

\* secrets maps the name of a Secret to its data, a map.
setCredentialsFromSecret(secrets, name) ==
    IF name \notin DOMAIN secrets THEN Error
    ELSE IF {"username", "password"} \subseteq DOMAIN secrets[name]
         THEN Ok([user |-> secrets[name]["username"], pass |-> secrets[name]["password"]])
         ELSE Error

\* Mutant: only the last parameter is looked at.
LastQueryValue(query, keys) ==
    LET last == Split(query[Len(query)], "=")
    IN  IF Len(last) = 2 /\ last[1] \in keys THEN last[2] ELSE <<>>

\* The value of the last "key=value" of a query whose key is in keys; a part
\* with another number of "=" is skipped, and an absent value is empty.
QueryValue(query, keys) ==
    LET hits == {i \in DOMAIN query : Len(Split(query[i], "=")) = 2
                                      /\ Split(query[i], "=")[1] \in keys}
    IN  IF hits = {} THEN <<>>
        ELSE Split(query[CHOOSE i \in hits : \A j \in hits : j <= i], "=")[2]

setCredentialsFromConnectionString(cs) ==
    LET parts == Split(cs, "?")
        query == Split(parts[2], "&")
    IN  IF Len(parts) < 2 THEN Error
        ELSE Ok([user |-> QueryValue(query, {<<"user">>, <<"username">>}),
                 pass |-> QueryValue(query, {<<"password">>})])

\* The operator always names a Secret, possibly ""; Nil is the other case.
setCredentials(cs, secrets, secretName) ==
    IF secretName # Nil THEN setCredentialsFromSecret(secrets, secretName)
    ELSE setCredentialsFromConnectionString(cs)

ExtractDatabaseInfo(cs, secrets, secretName) ==
    Then(parseConnectionString(cs), LAMBDA db :
        Then(setCredentials(cs, secrets, secretName), LAMBDA creds :
            Ok([db |-> db, user |-> creds.user, pass |-> creds.pass])))

\* The host that the schema job waits for; empty when no port is given.
GetDatabaseHost(cs) ==
    LET hosts == Split(Split(AfterSlashes(cs), "/")[1], ":")
    IN  IF SlashPairs(cs) = {} THEN Panic
        ELSE IF Len(hosts) = 2 THEN Ok(hosts[1]) ELSE Ok(<<>>)

\* The strings that the example in GetDatabaseHost and the test show:
\* jdbc:type://host:port/name, and a query with any separators in it.
Separators == {":", "/", "?", "&", "="}

TokensOf(s) == {s[i] : i \in DOMAIN s}

WellFormed(cs) ==
    /\ cs \in Seq(TokensOf(cs)) /\ Len(cs) >= 11
    /\ cs[2] = ":" /\ cs[4] = ":" /\ cs[5] = "/" /\ cs[6] = "/"
    /\ cs[8] = ":" /\ cs[10] = "/"
    /\ \A i \in {1, 3, 7, 9, 11} : cs[i] \notin Separators
    /\ Len(cs) > 11 => cs[12] = "?"
=============================================================================
