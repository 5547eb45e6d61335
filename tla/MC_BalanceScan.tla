--------------------------- MODULE MC_BalanceScan ---------------------------
(* Small instance: two addresses, chains of two blocks of at most two     *)
(* transactions drawn from a pool that holds every case the scan tells   *)
(* apart.                                                                 *)
EXTENDS BalanceScan

CONSTANTS a1, a2

MCAddr == {a1, a2}

Out(a, v) == [address |-> a, value |-> v]
CbTx(s, ok, outs) ==
    [decodes |-> TRUE, algorithm |-> "coinbase", signer_key |-> s,
     inner_ok |-> ok, outputs |-> outs]

\* an entry that is not base64/JSON
tCorrupt == [decodes |-> FALSE, algorithm |-> "transfer", signer_key |-> a1,
             inner_ok |-> TRUE, outputs |-> <<>>]
\* a transfer paying a1: never a reward
tTransfer == [decodes |-> TRUE, algorithm |-> "transfer", signer_key |-> a1,
              inner_ok |-> TRUE, outputs |-> <<Out(a1, 1)>>]
\* a coinbase of a1 to a1
tCbA1 == CbTx(a1, TRUE, <<Out(a1, 2)>>)
\* a coinbase of a1 with two outputs to a1 and one to a2
tCbMixed == CbTx(a1, TRUE, <<Out(a1, 1), Out(a2, 2), Out(a1, 1)>>)
\* a coinbase signed by a2 that pays only a1
tCbA2 == CbTx(a2, TRUE, <<Out(a1, 1)>>)
\* a coinbase of a2 whose inner record does not decode
tCbBadInner == CbTx(a2, FALSE, <<Out(a2, 1)>>)

TxPool == {tCorrupt, tTransfer, tCbA1, tCbMixed, tCbA2, tCbBadInner}
Blocks == {<<>>} \cup [1..1 -> TxPool] \cup [1..2 -> TxPool]
MCChains == [1..2 -> Blocks]
=============================================================================
