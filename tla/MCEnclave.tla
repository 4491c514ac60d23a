----------------------------- MODULE MCEnclave -----------------------------
(***************************************************************************)
(* Constants for checking Enclave with TLC.                                *)
(***************************************************************************)
EXTENDS Enclave, TLC

CONSTANTS
    g1, g2,
    here, elsewhere,           \* deployments
    payee, key1, key2,         \* XRPL addresses
    sealed1, sealed2,          \* ciphertexts
    NoHash

policy(perPayment, total) ==
    [maxPerPaymentDrops |-> perPayment, maxTotalDrops |-> total, requestTtlSeconds |-> 1]

Tight == policy(1, 2)
Loose == policy(2, 3)

\* Request r of treasury 1 has nonce r and expires at time 1.
requestHeader(d, r, p) ==
    [deployment |-> d, treasuryId |-> 1, requestId |-> r, nonce |-> r, expiresAt |-> 1,
     memoRef |-> IF d = here THEN memoRef(1, r, r) ELSE Keccak(d),
     policyCommitment |-> policyCommitment(p)]
policyHeader(p) ==
    [deployment |-> here, treasuryId |-> 1, requestId |-> 0, nonce |-> 0, expiresAt |-> 0,
     memoRef |-> NoHash, policyCommitment |-> policyCommitment(p)]

create ==
    [id |-> "create", command |-> "CREATE_TREASURY_KEY", header |-> policyHeader(Tight), body |-> Tight]
register ==
    [id |-> "register", command |-> "REGISTER_POLICY", header |-> policyHeader(Loose), body |-> Loose]
authorizing(id, r, p, ciphertext) ==
    [id |-> id, command |-> "AUTHORIZE_PAYMENT", header |-> requestHeader(here, r, p), body |-> ciphertext]
signing(id, d, r) ==
    [id |-> id, command |-> "SIGN_XRPL_PAYMENT", header |-> requestHeader(d, r, Tight), body |-> Empty]

\* What a ciphertext decrypts to: 1 drop for request 1, 2 drops for request 2.
Instructions(c) ==
    IF c \notin {sealed1, sealed2} THEN Garbage
    ELSE LET n == IF c = sealed1 THEN 1 ELSE 2 IN
         [deployment |-> here, treasuryId |-> 1, requestId |-> n, destination |-> payee,
          amountDrops |-> n, tag |-> n]

\* Request 1 is payable; request 2 passes only the policy that replaces its own;
\* request 3 replays a ciphertext; one instruction is another deployment's.
PaymentActions ==
    {create, register,
     authorizing("authorize1", 1, Loose, sealed1), authorizing("authorize2", 2, Tight, sealed2),
     authorizing("replay", 3, Tight, sealed1),
     signing("sign1", here, 1), signing("foreign", elsewhere, 1)}
\* requestSignature twice while the request is AUTHORIZED.
SignActions ==
    {create, authorizing("authorize1", 1, Tight, sealed1),
     signing("sign1", here, 1), signing("sign2", here, 1)}
\* The key's creation is delivered twice; the other actions once.
CreateTwice == [a \in PaymentActions |-> IF a = create THEN 2 ELSE 1]
SignOnce == [a \in SignActions |-> 1]

Symmetry == Permutations(Goroutine)
=============================================================================
