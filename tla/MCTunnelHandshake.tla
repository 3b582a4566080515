------------------------- MODULE MCTunnelHandshake -------------------------
(***************************************************************************)
(* TunnelHandshake for TLC: the clients' configurations and the hosts.     *)
(***************************************************************************)
EXTENDS TunnelHandshake

Config(tee, strategy, host) == [tee |-> tee, strategy |-> strategy, host |-> host]

TdxOnNode == {Config("tdx", TRUE, "node")}

\* Either host, each with the validation that takes the most steps or the fewest.
BothHosts == {Config("tdx", TRUE, "node"), Config("sevsnp", TRUE, "workerd")}

\* Every TEE, with and without a strategy, both hosts; not every combination.
Mixed == {Config("tdx", TRUE, "node"), Config("sgx", FALSE, "node"),
          Config("sevsnp", TRUE, "workerd")}
=============================================================================
