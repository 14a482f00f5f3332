--------------------------- MODULE Authentication ---------------------------
(***************************************************************************)
(* internal/security: the authentication settings of the API server.       *)
(*                                                                         *)
(* The CR lists entries [class, secret]: the name of an AuthenticationClass*)
(* and the name of the OIDC client secret, or Nil.  classes maps the names *)
(* of the AuthenticationClass objects that exist to their providers:       *)
(* [type, host, tls, hint, fields, bind].  type is "oidc", "ldap", "tls",  *)
(* "static" or "none", host stands for all of the address, hint is the     *)
(* OIDC provider hint, fields are the LDAP attribute names and bind the    *)
(* LDAP bind credentials [secretClass, scope], or Nil.                     *)
(*                                                                         *)
(* A variable is named by the parts of its name, a value by its parts.     *)
(***************************************************************************)
EXTENDS GoValues, Naturals, Sequences, FiniteSets

\* "oidc" is taken for Github ("for test only").
getOidcProviderHint(hint) ==
    CASE hint = "keycloak"         -> Ok("keycloak")
      [] hint \in {"github", "oidc"} -> Ok("github")
      [] OTHER                     -> Error

\* The providers of the two kinds.
OidcProvider(class, entry, hint) ==
    [type |-> "oidc", spec |-> class, secret |-> entry.secret, hint |-> hint]

LdapProvider(class) == [type |-> "ldap", spec |-> class]

\* Ok(provider), or Ok(Nil) where the code returns a nil provider (with or
\* without an error).
getAuthenticationProvider(class, entry) ==
    CASE class.type = "oidc" ->
            IF getOidcProviderHint(class.hint) = Error THEN Ok(Nil)
            ELSE Ok(OidcProvider(class, entry, getOidcProviderHint(class.hint).val))
      [] class.type \in {"tls", "static"} -> Panic
      [] class.type = "ldap" -> Ok(LdapProvider(class))
      [] OTHER -> Ok(Nil)

\* The providers by the position of their entry.  A class that cannot be read is
\* skipped (its error is only remembered, and overwritten by the next entry); a
\* nil provider is dereferenced.  The branch for an unsupported type is never
\* taken: a provider is OIDC or LDAP.
resolveAuthentications(entries, classes) ==
    LET found       == {i \in DOMAIN entries : entries[i].class \in DOMAIN classes}
        provider(i) == getAuthenticationProvider(classes[entries[i].class], entries[i])
    IN  IF \E i \in found : provider(i) = Panic \/ provider(i) = Ok(Nil)
        THEN Panic
        ELSE Ok([i \in found |-> provider(i).val])

-----------------------------------------------------------------------------
(* The variables of one provider: oidc.go and ldap.go *)

GetScheme(class) == IF class.tls THEN "https" ELSE "http"

getIssuer(class) == <<GetScheme(class), class.host>>

OidcUris == {"AUTHORIZATION-URI", "TOKEN-URI", "USER-INFO-URI"}

\* AuthorizationUri, TokenUri and UserInfoUri of KeycloakMetadata and of
\* GithubMetadata, which has fixed ones.
OidcUri(p, item) ==
    IF p.hint = "keycloak" THEN getIssuer(p.spec) \o <<item>> ELSE <<"github.com", item>>

OidcCredentials == {"CLIENT-ID", "CLIENT-SECRET"}

\* Generate of OidcAuthenticationConfigGenerator; every name but one contains
\* the provider hint.  An entry without a client secret is dereferenced.
OidcGenerate(p) ==
    IF p.secret = Nil THEN Panic
    ELSE Ok([v \in {<<"OAUTH2_ENABLE">>} \cup
                   {<<p.hint, i>> : i \in OidcUris \cup OidcCredentials
                       \cup {"REDIRECT-URI", "CALLBACK-URL", "ICON-URI", "PROVIDER"}} |->
                CASE v = <<"OAUTH2_ENABLE">>    -> <<"true">>
                  [] v[2] \in OidcUris        -> OidcUri(p, v[2])
                  [] v[2] \in OidcCredentials -> <<"secret", p.secret, v[2]>>
                  [] v[2] = "PROVIDER"        -> <<p.hint>>
                  [] OTHER                    -> <<"fixed", v[2]>>])

\* Generate of LDAPAuthenticationConfigGenerator; the scheme is "ldap" also
\* with TLS.
LdapGenerate(p) ==
    LET attribute(name, default) ==
            IF p.spec.fields = Nil \/ p.spec.fields[name] = "" THEN default
            ELSE p.spec.fields[name]
        ssl == {"SSL_ENABLE", "SSL_TRUST_STORE", "SSL_TRUST_STORE_PASSWORD"}
    IN  Ok([v \in {<<"AUTHENTICATION_TYPE">>} \cup
                  {<<"ldap", i>> : i \in {"URLS", "BASE-DN", "USER_IDENTITY-ATTRIBUTE",
                                          "USER_EMAIL-ATTRIBUTE", "USER_NOT-EXIST-ACTION"}
                                         \cup (IF p.spec.tls THEN ssl ELSE {})} |->
               CASE v = <<"AUTHENTICATION_TYPE">>      -> <<"LDAP">>
                 [] v[2] = "URLS"                    -> <<"ldap", p.spec.host>>
                 [] v[2] = "USER_IDENTITY-ATTRIBUTE" -> <<attribute("uid", "uid")>>
                 [] v[2] = "USER_EMAIL-ATTRIBUTE"    -> <<attribute("mail", "mail")>>
                 [] OTHER                            -> <<"fixed", v[2]>>])

Generate(p) == IF p.type = "oidc" THEN OidcGenerate(p) ELSE LdapGenerate(p)

-----------------------------------------------------------------------------
\* Positions of the LDAP entries; only the first is used.
LdapAt(providers) == {i \in DOMAIN providers : providers[i].type = "ldap"}

FirstLdap(providers) ==
    CHOOSE i \in LdapAt(providers) : \A j \in LdapAt(providers) : i <= j

\* All providers but the later LDAP ones.
UsedAt(providers) ==
    {i \in DOMAIN providers : providers[i].type = "ldap" => i = FirstLdap(providers)}

\* The used providers that have the variable v, and the last of them.
WithVariable(providers, v) ==
    {i \in UsedAt(providers) : v \in DOMAIN Generate(providers[i]).val}

LastWith(providers, v) ==
    CHOOSE i \in WithVariable(providers, v) : \A j \in WithVariable(providers, v) : j <= i

\* The variables of the used providers: maps.Copy writes those of a later
\* provider over those of an earlier one.
createAuthenticationConfig(providers) ==
    IF \E i \in UsedAt(providers) : Generate(providers[i]) = Panic THEN Panic
    ELSE Ok([v \in UNION {DOMAIN Generate(providers[i]).val : i \in UsedAt(providers)} |->
                Generate(providers[LastWith(providers, v)]).val[v]])

\* A volume of the secret operator; no scope annotation without a scope.
AddLdapCredintialsVolumesAndVolumeMounts(bind) ==
    [secretClass |-> bind.secretClass,
     scopes      |-> IF bind.scope = Nil THEN <<>>
                     ELSE SelectSeq(<<"node", "pod">>, LAMBDA s : s \in bind.scope.of)
                          \o bind.scope.services]

\* Mutant: the loop does not stop at the first LDAP provider.
LastLdapVolume(providers) ==
    LET last == CHOOSE i \in LdapAt(providers) : \A j \in LdapAt(providers) : j <= i
    IN  IF LdapAt(providers) = {} THEN Ok(Nil)
        ELSE IF providers[last].spec.bind = Nil THEN Error
        ELSE Ok(AddLdapCredintialsVolumesAndVolumeMounts(providers[last].spec.bind))

\* The loop of Authentication over the providers: the volume with the bind
\* credentials of the first LDAP provider, which must have some.
LdapVolume(providers) ==
    IF LdapAt(providers) = {} THEN Ok(Nil)
    ELSE IF providers[FirstLdap(providers)].spec.bind = Nil THEN Error
    ELSE Ok(AddLdapCredintialsVolumesAndVolumeMounts(providers[FirstLdap(providers)].spec.bind))

\* security.Authentication: the failure to resolve a class is only logged.
AuthenticationOf(entries, classes) ==
    Then(resolveAuthentications(entries, classes), LAMBDA providers :
        Then(createAuthenticationConfig(providers), LAMBDA config :
            Then(LdapVolume(providers), LAMBDA volume :
                Ok([config |-> config, ldapVolume |-> volume]))))
=============================================================================
