---------------------------- MODULE MC_BalanceApi ----------------------------
EXTENDS BalanceApi

CONSTANTS a1, a2

MCAddr == {a1, a2}
MCChains == {<< <<[decodes |-> TRUE, algorithm |-> "coinbase", signer_key |-> a1,
                  inner_ok |-> TRUE,
                  outputs |-> <<[address |-> a1, value |-> 2]>>]>> >>}
\* the balance path of each address, the path whose fourth part is
\* 'balance', and an unrelated path
MCPaths == BalancePaths \cup {<<"", "api", "v1", "address", "balance">>,
                              <<"", "api", "v1", "status">>}
=============================================================================
