------------------------------ MODULE Storage -------------------------------
(***************************************************************************)
(* pkg/util/s3.go: the S3 settings that go into common.properties.         *)
(*                                                                         *)
(* An S3 setting is Nil or [bucket, connection]; a connection is Nil or    *)
(* [reference, inline] ("" when there is no reference); a connection spec  *)
(* is Nil or [credentials, host, port], with the name of a Secret (or Nil, *)
(* or "") as credentials and port 0 for none.                              *)
(***************************************************************************)
EXTENDS GoValues

\* The API groups cmd/main.go registers with the scheme of the client.  An
\* object of any other group cannot be read with it.
SchemeGroups == {"core", "dolphinscheduler", "commons", "authentication"}

GetS3SecretData(secrets, credentials) ==
    IF credentials = Nil \/ credentials = "" THEN Error
    ELSE IF credentials \notin DOMAIN secrets THEN Error
    ELSE Ok(secrets[credentials])

\* The endpoint is always read from the inline connection, which is absent
\* when the connection came from a reference.
GetS3ConnectionInlineEndpoint(s3) ==
    IF s3.connection.inline = Nil THEN Panic
    ELSE LET c == s3.connection.inline
         IN  Ok(IF c.port = 0 THEN <<c.host>> ELSE <<c.host, c.port>>)

GetS3ConfigFromConnectionSpec(s3, connSpec, secrets) ==
    Then(GetS3SecretData(secrets, connSpec.credentials), LAMBDA data :
        Then(GetS3ConnectionInlineEndpoint(s3), LAMBDA endpoint :
            Ok([bucket |-> s3.bucket, endpoint |-> endpoint, keys |-> data])))

\* connections maps names of S3Connection objects to connection specs.
GetS3ConfigFromConnectionReferenceName(s3, connections, secrets) ==
    IF "s3" \notin SchemeGroups \/ s3.connection.reference \notin DOMAIN connections
    THEN Error
    ELSE GetS3ConfigFromConnectionSpec(s3, connections[s3.connection.reference], secrets)

GetS3ConfigFromConnectionInline(s3, secrets) ==
    IF s3.connection.inline = Nil THEN Error
    ELSE GetS3ConfigFromConnectionSpec(s3, s3.connection.inline, secrets)

GetS3Config(s3, connections, secrets) ==
    IF s3.connection = Nil THEN Error
    ELSE IF s3.connection.reference # ""
    THEN GetS3ConfigFromConnectionReferenceName(s3, connections, secrets)
    ELSE GetS3ConfigFromConnectionInline(s3, secrets)
=============================================================================
