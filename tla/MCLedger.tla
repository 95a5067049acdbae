------------------------------ MODULE MCLedger ------------------------------
(***************************************************************************)
(* Instances of Ledger: servers of which the policy admits two; keys that  *)
(* overlap for a while; a response that is valid for too long.             *)
(***************************************************************************)
EXTENDS Ledger

CONSTANTS s1, s2, s3, s4, s5

MCHost ==
    LET named(name) == [name |-> name, host |-> "name", port |-> FALSE] IN
    s1 :> named(<<"a", "a">>) @@ s2 :> named(<<"a", "b", "a">>) @@ s3 :> named(<<"a", "b">>)
    @@ s4 :> named(<<"b", "a", "b">>)
    @@ s5 :> [name |-> <<"a", "a", "b">>, host |-> "private address", port |-> FALSE]
MCServer == DOMAIN MCHost
MCDenyList == <<<<"b", Star, "b">>>>
MCAllowList == <<<<"a", Star, "a", Star>>, <<"b", "a", "b">>>>

\* Beyond the policy, which admits both, names play no part.
Symmetry == Permutations({s1, s2})

Key(i, h) == [id |-> i, hash |-> h]
Response(keys, validity) ==
    [keys |-> keys, validity |-> validity, signers |-> {}, selfSigned |-> TRUE]
MCResponses == {Response(<<Key(1, 1)>>, 2), Response(<<Key(1, 1), Key(2, 2)>>, 2),
                Response(<<Key(2, 2)>>, 9)}

\* matchWildcard agrees with the meaning of a pattern, wherever the first and
\* the last part of the pattern do not overlap in the name.
ASSUME WildcardAgrees ==
    \A p \in BoundedSeq({"a", "b", Star}, 4), s \in BoundedSeq({"a", "b"}, 4) :
        ~Overlap(p, s) => (matchWildcard(p, s) <=> Matches(p, s))
=============================================================================
