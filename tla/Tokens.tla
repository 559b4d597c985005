------------------------------- MODULE Tokens -------------------------------
(***************************************************************************)
(* Bearer tokens (internal/auth; AuthMiddleware of the gateway and         *)
(* authenticate of the tool router).                                       *)
(*   request  scheme of the header, and the token:                         *)
(*     parts   how many parts the text has (the router's own token is one  *)
(*             part; see secret)                                           *)
(*     alg, kid     the header's fields                                    *)
(*     iss, aud, exp, nbf   the claims; 0 is a time that is not given      *)
(*     signer  whose private key made the signature                        *)
(*     secret  whether it is the tool router's shared token                *)
(*   config   issuer and audience ("" is none), whether a key set has an   *)
(*     address (url), dev mode, shared (the router has a shared token)     *)
(*   keys     the key set fetched, or Unreachable                          *)
(* A key has an id, a type, and an owner; a modulus or an exponent that is *)
(* missing or wrong leaves a key without an owner.                         *)
(***************************************************************************)
EXTENDS Integers, Sequences

\* A field that is not there.
NoText == ""

Key(kid, kty, owner) == [kid |-> kid, kty |-> kty, owner |-> owner]
Unreachable == <<Key("unreachable", "none", "none")>>

ParseBearer(req) == req.scheme = "bearer" /\ req.token.parts > 0

\* The claims can be read without looking at the signature.
ParseJWTClaims(t) == t.parts >= 2

AudienceMatches(aud, target) == target \in aud

MutantCurrent(t, now) ==
    (t.exp > 0 => now <= t.exp) /\ (t.nbf > 0 => now >= t.nbf)
Current(t, now) ==
    /\ t.exp > 0 => now < t.exp
    /\ t.nbf > 0 => now >= t.nbf

ValidateClaims(t, cfg, now) ==
    /\ cfg.issuer # NoText => t.iss = cfg.issuer
    /\ cfg.audience # NoText => AudienceMatches(t.aud, cfg.audience)
    /\ Current(t, now)

(***************************************************************************)
(* SelectJWK gives at most one key: the first with the token's id, or the  *)
(* only key there is when the token names none.                            *)
(***************************************************************************)
FirstNamed(keys, kid) ==
    {i \in DOMAIN keys : keys[i].kid = kid /\ \A j \in 1 .. i - 1 : keys[j].kid # kid}
MutantSelectJWK(keys, kid) ==
    {keys[i] : i \in {i \in DOMAIN keys \cap {1} : kid \in {NoText, keys[i].kid}}}
SelectJWK(keys, kid) ==
    IF kid # NoText THEN {keys[i] : i \in FirstNamed(keys, kid)}
    ELSE IF Len(keys) = 1 THEN {keys[1]} ELSE {}

RSAKeyFromJWK(k) == k.kty \in {NoText, "RSA"} /\ k.owner # "none"

VerifyRS256(t, k) == t.signer = k.owner

VerifyJWTSignature(t, cfg, keys) ==
    IF ~cfg.url THEN cfg.dev
    ELSE /\ t.parts = 3 /\ t.alg = "RS256"
         /\ keys # Unreachable
         /\ \E k \in SelectJWK(keys, t.kid) : RSAKeyFromJWK(k) /\ VerifyRS256(t, k)

\* AuthMiddleware of the gateway.
GatewayAccepts(req, cfg, keys, now) ==
    /\ ParseBearer(req) /\ ParseJWTClaims(req.token)
    /\ ValidateClaims(req.token, cfg, now)
    /\ VerifyJWTSignature(req.token, cfg, keys)

\* authenticate of the tool router, whose configuration has no dev mode.
RouterAccepts(req, cfg, keys, now) ==
    \/ ParseBearer(req) /\ cfg.shared /\ req.token.secret
    \/ GatewayAccepts(req, [cfg EXCEPT !.dev = FALSE], keys, now)
=============================================================================
