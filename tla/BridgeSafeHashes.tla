-------------------------- MODULE BridgeSafeHashes --------------------------
(***************************************************************************)
(* The hashes and encodings the controller and the enclave must agree on.  *)
(* keccak256 is an injective constructor: distinct inputs, distinct hashes.*)
(***************************************************************************)

Keccak(x) == [keccak256 |-> x]

\* policyCommitment: keccak256(abi.encode(policy)), in the contract and in codec.go.
policyCommitment(p) == Keccak(p)

\* memoRef: the domain tag, chain id and controller are the same for all requests.
memoRef(t, r, nonce) == Keccak(<<t, r, nonce>>)

\* encodeMemo, and memoBytes in the enclave: the 36 bytes "BSF1" || memoRef.
encodeMemo(ref) == [prefix |-> "BSF1", ref |-> ref]
=============================================================================
