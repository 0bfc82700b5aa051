------------------------------ MODULE MCRunner ------------------------------
(* Instances of Runner for TLC.                                            *)
EXTENDS Runner

MCSimds == {1, 2, 3}
MCRegistered == {1, 2}
MCChecks == {1, 2, 3}
MCLiveNetworks == {"testnet"}
MCDeployed == {<<"testnet", 2>>}
MCActivated == {<<"testnet", 1>>}
MCOutcomes == {"pass", "fail", "skip", "err"}
=============================================================================
