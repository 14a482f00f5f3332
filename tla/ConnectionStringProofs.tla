----------------------- MODULE ConnectionStringProofs -----------------------
(***************************************************************************)
(* What the two readers of a connection string agree on, for any type,     *)
(* host, name and query.                                                   *)
(***************************************************************************)
EXTENDS ConnectionString, DatabaseProofs

\* The part of a connection string before the query, over any tokens.
Prefix(t, h, p, n) == <<"jdbc", ":", t, ":", "/", "/", h, ":", p, "/", n>>

\* Which token of the prefix stands where.
LEMMA PrefixIs ==
    ASSUME NEW S, "jdbc" \in S, ":" \in S, "/" \in S,
           NEW t \in S, NEW h \in S, NEW p \in S, NEW n \in S
    PROVE  /\ Prefix(t, h, p, n) \in Seq(S) /\ Len(Prefix(t, h, p, n)) = 11
           /\ Prefix(t, h, p, n)[1] = "jdbc" /\ Prefix(t, h, p, n)[2] = ":"
           /\ Prefix(t, h, p, n)[3] = t /\ Prefix(t, h, p, n)[4] = ":"
           /\ Prefix(t, h, p, n)[5] = "/" /\ Prefix(t, h, p, n)[6] = "/"
           /\ Prefix(t, h, p, n)[7] = h /\ Prefix(t, h, p, n)[8] = ":"
           /\ Prefix(t, h, p, n)[9] = p /\ Prefix(t, h, p, n)[10] = "/"
           /\ Prefix(t, h, p, n)[11] = n
  BY DEF Prefix

\* A sequence is one of its own elements.
LEMMA OwnElements ==
    ASSUME NEW S, NEW s \in Seq(S)
    PROVE  s \in Seq(TokensOf(s))
  BY DEF TokensOf

\* What a user writes in the form of the example is a well-formed string.
LEMMA FormatIs ==
    ASSUME NEW u \in [type : Types, host : Hosts, port : {"5432", "3306"}, name : DbNames,
                      query : Queries]
    PROVE  /\ \E S : Format(u) \in Seq(S)
           /\ WellFormed(Format(u))
           /\ Format(u)[3] = u.type /\ Format(u)[7] = u.host
           /\ Format(u)[9] = u.port /\ Format(u)[11] = u.name
           /\ Len(Format(u)) > 11 <=> u.query # <<>>
<1> DEFINE head == Prefix(u.type, u.host, u.port, u.name)
           q == u.query
           S == {"jdbc", ":", "/", u.type, u.host, u.port, u.name} \cup TokensOf(q)
<1>1. /\ u.type \notin Separators /\ u.host \notin Separators
      /\ u.port \notin Separators /\ u.name \notin Separators /\ "jdbc" \notin Separators
  <2>1. u.type \in Types /\ u.host \in Hosts /\ u.port \in {"5432", "3306"} /\ u.name \in DbNames
    OBVIOUS
  <2>2. "5432" \notin Separators /\ "3306" \notin Separators /\ "jdbc" \notin Separators
    BY DEF Separators
  <2> QED BY <2>1, <2>2, PartsAssumption, Zenon
<1>2. /\ head \in Seq(S) /\ Len(head) = 11
      /\ head[1] = "jdbc" /\ head[2] = ":" /\ head[3] = u.type /\ head[4] = ":"
      /\ head[5] = "/" /\ head[6] = "/" /\ head[7] = u.host /\ head[8] = ":"
      /\ head[9] = u.port /\ head[10] = "/" /\ head[11] = u.name
  <2>1. /\ "jdbc" \in S /\ ":" \in S /\ "/" \in S
        /\ u.type \in S /\ u.host \in S /\ u.port \in S /\ u.name \in S
    BY Zenon
  <2> HIDE DEF S
  <2> QED BY <2>1, PrefixIs
<1>3. q \in Seq(S) /\ (q # <<>> => q[1] = "?")
  <2>1. q \in Queries
    OBVIOUS
  <2>2. q \in Seq(TokensOf(q)) /\ (q # <<>> => q[1] = "?")
    BY <2>1, QueriesAssumption, Zenon
  <2> DEFINE Q == TokensOf(q)
  <2>3. q \in Seq(Q) /\ Q \subseteq S
    BY <2>2, Zenon
  <2> HIDE DEF Q, S, q
  <2>4. q \in Seq(S)
    BY <2>3
  <2> QED BY <2>2, <2>4, Zenon DEF q
<1>4. Format(u) = head \o q
  BY Zenon DEF Format, Prefix
<1> HIDE DEF head, q, S
<1>5. /\ head \o q \in Seq(S) /\ Len(head \o q) = Len(head) + Len(q)
      /\ \A i \in 1..(Len(head) + Len(q)) :
            (head \o q)[i] = IF i <= Len(head) THEN head[i] ELSE q[i - Len(head)]
  <2>1. head \in Seq(S) /\ q \in Seq(S)
    BY <1>2, <1>3, Zenon
  <2> QED BY <2>1, ConcatProperties
<1>6. PICK cs : cs = Format(u)
  OBVIOUS
<1>7. /\ cs \in Seq(S) /\ Len(cs) = Len(head) + Len(q)
      /\ \A i \in 1..(Len(head) + Len(q)) :
            cs[i] = IF i <= Len(head) THEN head[i] ELSE q[i - Len(head)]
  BY <1>4, <1>5, <1>6, Zenon
<1>8. Len(q) \in Nat /\ (Len(q) > 0 <=> q # <<>>)
  BY <1>3
<1>9. /\ Len(cs) = 11 + Len(q)
      /\ \A i \in 1..11 : cs[i] = head[i]
      /\ Len(q) > 0 => cs[12] = q[1]
  <2>1. Len(head) = 11
    BY <1>2
  <2> QED BY <1>7, <1>8, <2>1
<1>10. /\ cs[1] = "jdbc" /\ cs[2] = ":" /\ cs[3] = u.type /\ cs[4] = ":"
       /\ cs[5] = "/" /\ cs[6] = "/" /\ cs[7] = u.host /\ cs[8] = ":"
       /\ cs[9] = u.port /\ cs[10] = "/" /\ cs[11] = u.name
  BY <1>2, <1>9
<1>11. /\ Len(cs) >= 11 /\ (Len(cs) > 11 <=> q # <<>>)
       /\ Len(cs) > 11 => cs[12] = "?"
  BY <1>3, <1>8, <1>9
<1>12. \A i \in {1, 3, 7, 9, 11} : cs[i] \notin Separators
  BY <1>1, <1>10, Zenon
<1>13. WellFormed(cs)
  <2>1. cs \in Seq(TokensOf(cs))
    BY <1>7, OwnElements, Zenon
  <2> QED BY <1>10, <1>11, <1>12, <2>1, Zenon DEF WellFormed
<1> QED BY <1>6, <1>7, <1>10, <1>11, <1>13, Zenon DEF q

\* The databases the operator has a driver for.
LEMMA Drivers ==
    ASSUME NEW type
    PROVE  GetDatabaseDriver(<<type>>) = Error <=> type \notin {"mysql", "postgresql"}
<1>1. <<type>> = <<"mysql">> <=> type = "mysql"
  OBVIOUS
<1>2. <<type>> = <<"postgresql">> <=> type = "postgresql"
  OBVIOUS
<1> QED BY <1>1, <1>2 DEF GetDatabaseDriver, Ok, Error

\* Both readers have been called on the string of the user, or not yet.
Called ==
    /\ url \in [type : Types, host : Hosts, port : {"5432", "3306"}, name : DbNames,
                query : Queries]
    /\ info \in {Nil, ExtractDatabaseInfo(Format(url), EmptyMap, Nil)}
    /\ host \in {Nil, GetDatabaseHost(Format(url))}

\* A reader returns what it returns for the string the user wrote.
LEMMA CalledAlways == Spec => []Called
<1>1. Init => Called
  BY DEF Init, Called
<1>2. Called /\ [Next]_vars => Called'
  BY Zenon DEF Called, Next, Extract, WaitFor, vars
<1> QED BY <1>1, <1>2, PTL DEF Spec

\* What the readers return on the string of the user.
LEMMA ReadersReturn ==
    ASSUME Called
    PROVE  RoundTrip /\ SameHost
<1> DEFINE cs == Format(url)
           db == parseConnectionString(cs)
           creds == setCredentialsFromConnectionString(cs)
<1>0. PICK S : cs \in Seq(S)
  BY FormatIs DEF Called
<1>1. /\ WellFormed(cs) /\ cs[3] = url.type /\ cs[7] = url.host
      /\ cs[9] = url.port /\ cs[11] = url.name
      /\ Len(cs) > 11 <=> url.query # <<>>
  BY FormatIs DEF Called
<1> HIDE DEF cs
<1>2. ExtractDatabaseInfo(cs, EmptyMap, Nil) =
          IF db.out = "ok"
          THEN IF creds.out = "ok"
               THEN Ok([db |-> db.val, user |-> creds.val.user, pass |-> creds.val.pass])
               ELSE creds
          ELSE db
  BY Zenon DEF ExtractDatabaseInfo, Then, setCredentials
<1>3. db = IF url.type \notin {"mysql", "postgresql"} THEN Error
           ELSE Ok([type   |-> <<url.type>>,
                    driver |-> GetDatabaseDriver(<<url.type>>).val,
                    host   |-> <<url.host>>,
                    port   |-> <<url.port>>,
                    name   |-> <<url.name>>])
  BY <1>0, <1>1, ParseWellFormed, Drivers, Zenon
<1>4. IF url.query # <<>> THEN creds.out = "ok" ELSE creds = Error
  BY <1>0, <1>1, CredentialsWellFormed, Zenon
<1>5. GetDatabaseHost(cs) = Ok(<<url.host>>)
  BY <1>0, <1>1, HostWellFormed
<1>6. info \in {Nil, ExtractDatabaseInfo(cs, EmptyMap, Nil)} /\ host \in {Nil, GetDatabaseHost(cs)}
  BY Zenon DEF Called, cs
<1> HIDE DEF db, creds
<1>7. RoundTrip
  BY <1>2, <1>3, <1>4, <1>6 DEF RoundTrip, Ok, Error
<1>8. SameHost
  BY <1>2, <1>3, <1>4, <1>5, <1>6 DEF SameHost, Ok, Error
<1> QED BY <1>7, <1>8

\* parseConnectionString finds what the user wrote, and GetDatabaseInfo fails
\* exactly where there is no driver or no query, for every type, host, name and
\* query: no separator in the query misleads it and nothing panics.
THEOREM InfoIsWhatWasWritten == Spec => []RoundTrip
  BY CalledAlways, ReadersReturn, PTL

\* The schema job and the servers read the same host, for every type, host, name
\* and query.
THEOREM JobWaitsForTheHost == Spec => []SameHost
  BY CalledAlways, ReadersReturn, PTL
=============================================================================
