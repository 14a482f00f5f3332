------------------------------ MODULE GoValues ------------------------------
(***************************************************************************)
(* The Go values the other modules compute with.  A map, and a struct of   *)
(* optional fields, is a function whose domain is the set of the keys that *)
(* are present.                                                            *)
(***************************************************************************)
CONSTANT Nil            \* an absent pointer, object or reconciler

\* What a Go function did: it returned a value, an error, or it panicked.
Ok(v) == [out |-> "ok", val |-> v]
Error == [out |-> "error"]
Panic == [out |-> "panic"]

\* `if err != nil { return err }`: F goes on with what o returned.
Then(o, F(_)) == IF o.out = "ok" THEN F(o.val) ELSE o

\* F goes on with what a call that returns no error returned.
UnlessPanic(o, F(_)) == IF o = Panic THEN Panic ELSE F(o.val)

\* An error is only logged, and v takes the place of the result.
OnError(o, v) == IF o = Error THEN Ok(v) ELSE o

EmptyMap == [k \in {} |-> Nil]

\* maps.Copy(dist, src): src's entries are written over dist's.
MapsCopy(dist, src) ==
    [k \in DOMAIN dist \cup DOMAIN src |->
        IF k \in DOMAIN src THEN src[k] ELSE dist[k]]
=============================================================================
