--------------------------------- MODULE Auth ---------------------------------
(***************************************************************************)
(* The two authenticators of crates/mtw-auth: JwtAuth issues an access and *)
(* a refresh token at a time, and ApiKeyAuth keeps a map of keys.  What a  *)
(* token says is signed, so a token is the claims it was created with.     *)
(***************************************************************************)
EXTENDS Naturals, Sequences

CONSTANTS Owners,    \* the subjects of tokens and keys
          Subjects,  \* those of them who ask for tokens by their name
          ApiKeys,   \* the API keys that may be generated
          KeyOwner,  \* whom each of them is generated for
          MaxTokens  \* bound: tokens issued

ASSUME AuthAssumption ==
    MaxTokens \in Nat /\ Subjects \subseteq Owners /\ KeyOwner \in [ApiKeys -> Owners]

VARIABLES
    issued,   \* the tokens issued: whose, of which kind, and if its time is over
    apiKeys   \* what has become of each key; "none": not generated yet

authVars == <<issued, apiKeys>>

KeyStates == {"none", "good", "expired", "revoked"}

AuthTypeOK ==
    /\ issued \in Seq([owner : Owners, refresh : BOOLEAN, expired : BOOLEAN])
    /\ Len(issued) <= MaxTokens
    /\ apiKeys \in [ApiKeys -> KeyStates]

AuthInit ==
    /\ issued = <<>>
    /\ apiKeys = [k \in ApiKeys |-> "none"]

-----------------------------------------------------------------------------
(* JwtAuth.                                                                *)

\* decode_token(): the signature and the issuer are right, and the time is not
\* over, for which the library allows a minute more.
Decodes(i) == i \in DOMAIN issued /\ ~issued[i].expired

CreateToken(o) ==
    /\ Len(issued) + 2 <= MaxTokens
    /\ issued' = issued \o <<[owner |-> o, refresh |-> FALSE, expired |-> FALSE],
                             [owner |-> o, refresh |-> TRUE, expired |-> FALSE]>>
    /\ UNCHANGED apiKeys

\* authenticate() of a name creates tokens for it, and of a token, whichever
\* kind it is, creates new ones for its subject.
IssueTokens ==
    \/ \E o \in Subjects : CreateToken(o)
    \/ \E i \in DOMAIN issued : Decodes(i) /\ CreateToken(issued[i].owner)

Refresh(i) == Decodes(i) /\ issued[i].refresh /\ CreateToken(issued[i].owner)

\* Fault: any token that decodes is good for a request.
ValidatesAny(i) == Decodes(i)

ValidatesToken(i) == Decodes(i) /\ ~issued[i].refresh

\* A refresh token is to last longer than the access token it came with.
TokenExpires(i) ==
    /\ Decodes(i)
    /\ issued[i].refresh => issued[i - 1].expired
    /\ issued' = [issued EXCEPT ![i].expired = TRUE]
    /\ UNCHANGED apiKeys

-----------------------------------------------------------------------------
(* ApiKeyAuth.                                                             *)

GenerateKey(k) ==
    /\ apiKeys[k] = "none"
    /\ apiKeys' = [apiKeys EXCEPT ![k] = "good"]
    /\ UNCHANGED issued

RevokeKey(k) ==
    /\ apiKeys[k] \in {"good", "expired"}
    /\ apiKeys' = [apiKeys EXCEPT ![k] = "revoked"]
    /\ UNCHANGED issued

KeyExpires(k) ==
    /\ apiKeys[k] = "good"
    /\ apiKeys' = [apiKeys EXCEPT ![k] = "expired"]
    /\ UNCHANGED issued

ValidatesKey(k) == k \in ApiKeys /\ apiKeys[k] = "good"

AuthNext ==
    \/ IssueTokens \/ \E i \in 1..MaxTokens : Refresh(i) \/ TokenExpires(i)
    \/ \E k \in ApiKeys : GenerateKey(k) \/ RevokeKey(k) \/ KeyExpires(k)

===============================================================================
