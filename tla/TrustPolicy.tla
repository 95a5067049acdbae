---------------------------- MODULE TrustPolicy ----------------------------
(***************************************************************************)
(* The trust policy (internal/keys/trustpolicy*.go): which servers may be  *)
(* asked for and which responses may be handed out.  A server is a record: *)
(* its name as a sequence of letters, the kind of its host and whether the *)
(* name carries a port.                                                    *)
(***************************************************************************)
EXTENDS Integers, FiniteSets, SequencesExt

CONSTANTS DenyList, AllowList,      \* sequences of entries, which may hold Star
          BlockPrivateIPs, RequireWellKnown, RequireValidTLS,
          RequireNotarySignatures, MaxKeyAge

ASSUME PolicyAssumption ==
    /\ {BlockPrivateIPs, RequireWellKnown, RequireValidTLS} \subseteq BOOLEAN
    /\ {RequireNotarySignatures, MaxKeyAge} \subseteq Nat

Star == "*"
HostKind == {"name", "local", "public address", "private address"}

\* strings.Split(pattern, "*")
Split(pattern) ==
    LET stars == SelectSeq([i \in 1 .. Len(pattern) |-> i], LAMBDA i : pattern[i] = Star)
        cut   == <<0>> \o stars \o <<Len(pattern) + 1>>
    IN  [k \in 1 .. Len(cut) - 1 |-> SubSeq(pattern, cut[k] + 1, cut[k + 1] - 1)]

\* What is left of s after the first occurrence of part, which there is.
After(part, s) ==
    LET at == Min({i \in 0 .. Len(s) - Len(part) : IsPrefix(part, SubSeq(s, i + 1, Len(s)))})
    IN  SubSeq(s, at + Len(part) + 1, Len(s))

Occurs(part, s) ==
    \E i \in 0 .. Len(s) - Len(part) : SubSeq(s, i + 1, i + Len(part)) = part

\* The slice expression that cuts the last part off: it panics when the first
\* and the last part of the pattern overlap in s.
Overlap(pattern, s) ==
    LET parts == Split(pattern) IN
    /\ Len(parts) > 1 /\ IsPrefix(parts[1], s) /\ IsSuffix(Last(parts), s)
    /\ Len(s) < Len(parts[1]) + Len(Last(parts))

\* matchWildcard: the parts between the first and the last one are taken from
\* s in turn, each at its first occurrence.
FoundInTurn(parts, s) ==
    LET rest[i \in 1 .. Len(parts) - 1] ==
            IF i = 1 THEN [ok |-> TRUE, s |-> s]
            ELSE IF rest[i - 1].ok /\ Occurs(parts[i], rest[i - 1].s)
                 THEN [ok |-> TRUE, s |-> After(parts[i], rest[i - 1].s)]
                 ELSE [ok |-> FALSE, s |-> <<>>]
    IN  rest[Len(parts) - 1].ok

\* matchWildcard: the first and the last part are anchored and cut off.
matchWildcard(pattern, s) ==
    LET parts == Split(pattern) IN
    IF Len(parts) = 1 THEN pattern = s
    ELSE /\ IsPrefix(parts[1], s) /\ IsSuffix(Last(parts), s)
         /\ FoundInTurn(parts, SubSeq(s, Len(parts[1]) + 1, Len(s) - Len(Last(parts))))

\* isDenied, isAllowed: entries without a star are compared first, then the
\* patterns in turn.  A pattern may panic, which ends the request.
Listed(list, name) ==
    LET patterns == SelectSeq(list, LAMBDA e : Contains(e, Star))
        first == SelectInSeq(patterns, LAMBDA e : Overlap(e, name) \/ matchWildcard(e, name))
    IN  IF Contains(list, name) THEN "yes"
        ELSE IF first = 0 THEN "no"
        ELSE IF Overlap(patterns[first], name) THEN "panic" ELSE "yes"

isDenied(server) == Listed(DenyList, server.name)

isAllowed(server) == Listed(AllowList, server.name)

checkPrivateIP(server) == server.host = "private address"
checkRequireWellKnown(server) ==
    server.name = <<>> \/ server.host \in {"public address", "private address"} \/ server.port
checkRequireValidTLS(server) ==
    server.name = <<>> \/ server.host \in {"local", "public address", "private address"}

\* CheckServer: does the policy let the server be asked for?
CheckServer(server) ==
    /\ isDenied(server) = "no"
    /\ AllowList # <<>> => isAllowed(server) = "yes"
    /\ BlockPrivateIPs => ~checkPrivateIP(server)
    /\ RequireWellKnown => ~checkRequireWellKnown(server)
    /\ RequireValidTLS => ~checkRequireValidTLS(server)

\* CheckResponse: validity not too long, enough signers besides the origin.
countNotarySignatures(server, resp) == Cardinality(resp.signers \ {server})
CheckResponse(server, resp) ==
    /\ MaxKeyAge > 0 => resp.validity <= MaxKeyAge
    /\ RequireNotarySignatures > 0
          => countNotarySignatures(server, resp) >= RequireNotarySignatures

-----------------------------------------------------------------------------
\* Reference: a star stands for any sequence of letters, also the empty one.
Matches(pattern, s) ==
    LET m[i \in 1 .. Len(pattern) + 1, j \in 1 .. Len(s) + 1] ==
            IF i > Len(pattern) THEN j > Len(s)
            ELSE IF pattern[i] = Star
                 THEN m[i + 1, j] \/ (j <= Len(s) /\ m[i, j + 1])
                 ELSE j <= Len(s) /\ pattern[i] = s[j] /\ m[i + 1, j + 1]
    IN  m[1, 1]
=============================================================================
