--------------------------- MODULE MCVerifyDeploy ---------------------------
(***************************************************************************)
(* Constants for checking VerifyDeploy with TLC.                           *)
(***************************************************************************)
EXTENDS VerifyDeploy

Setting(mode, own, proxyKey, simulated, proxies) ==
    [localMode |-> mode, key |-> own, ownerKey |-> own, proxyKey |-> proxyKey,
     simulated |-> simulated, proxies |-> proxies]

Local == Setting("", FALSE, FALSE, "true", TRUE)
\* Outside local mode: development settings, keys of one's own, a real TEE as well, and
\* SIMULATED_TEE not set.
Development == Setting("false", FALSE, FALSE, "true", FALSE)
OwnKeys == Setting("false", TRUE, TRUE, "true", FALSE)
Production == Setting("false", TRUE, TRUE, "false", FALSE)
Unset == Setting("false", TRUE, TRUE, "", FALSE)
\* A LOCAL_MODE that is neither, without and with the deployer's own key.
Zero == Setting("0", FALSE, FALSE, "true", FALSE)
ZeroOwn == Setting("0", TRUE, FALSE, "true", FALSE)

MCEnvironment ==
    {<<Local, "deployed">>, <<Zero, "zero">>, <<Development, "empty">>, <<OwnKeys, "deployed">>,
     <<Production, "deployed">>, <<Unset, "deployed">>, <<ZeroOwn, "deployed">>}
=============================================================================
