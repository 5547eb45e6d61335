---------------------------- MODULE BalanceScan ----------------------------
(***************************************************************************)
(* The balance reconstruction scan of src/check_balance.py                *)
(* (calculate_balance): ask the node for its latest height, then fetch    *)
(* every block 1..latest in order, decode every transaction, and for each *)
(* coinbase transaction signed by the target address add the value of     *)
(* every output paying the target.  An exception anywhere in the body of  *)
(* the per-block try (fetch, outer decode, inner decode) abandons the     *)
(* rest of that block; what was already added stays added.                *)
(*                                                                         *)
(* The node is an environment that only appends blocks (tip grows);       *)
(* chain is the whole future chain, fixed for a behaviour.                *)
(* One step per loop iteration of the code: per block, per transaction,  *)
(* per output.                                                            *)
(***************************************************************************)
EXTENDS Naturals, Sequences, FiniteSets, FiniteSetsExt

CONSTANTS
    Addr,       \* addresses that occur as signers, output addresses, targets
    Chains,     \* the chains the node may serve (sequences of blocks)
    MayHang     \* TRUE: a request to the node may never return (no timeout)

(* A decoded transaction, reduced to what the scan looks at.  decodes:   *)
(* base64 + json.loads of the outer record succeed; inner_ok: the same    *)
(* for signed_tx['transaction'] (a missing key also raises).  A missing  *)
(* output value is value 0, a missing address or algorithm never matches.*)
Output == [address: Addr, value: Nat]
Tx == [decodes: BOOLEAN, algorithm: {"coinbase", "transfer"},
       signer_key: Addr, inner_ok: BOOLEAN, outputs: Seq(Output)]

ASSUME ChainsAssumption == Chains \subseteq Seq(Seq(Tx)) /\ Chains # {}
ASSUME MayHangAssumption == MayHang \in BOOLEAN

VARIABLES
    chain,        \* the node's chain (all future blocks)
    tip,          \* the node's latest height
    pc,           \* where the scan is
    target,       \* the address being scanned for
    latest,       \* latest_height read at the start of the scan
    height,       \* loop variable of `for height in range(1, latest+1)`
    txi,          \* index of the current transaction in the block
    outi,         \* index of the current output in the transaction
    balance,      \* running balance (smallest units)
    rewards,      \* running mining_rewards counter
    fetchFailed,  \* heights whose get_block raised (history)
    aborted       \* heights abandoned at a malformed transaction (history)

vars == <<chain, tip, pc, target, latest, height, txi, outi, balance,
          rewards, fetchFailed, aborted>>
nodeVars == <<chain, tip>>

PC == {"idle", "status", "block", "tx", "out", "done", "error", "hung"}

Block(h) == chain[h]
CurTx == Block(height)[txi]

(* The coinbase-to-target test of the scan.                               *)
Qualifies(tx, a) == tx.algorithm = "coinbase" /\ tx.signer_key = a

-----------------------------------------------------------------------------
(* The node.                                                              *)

\* The node appends the next block of its chain.
Grow ==
    /\ tip < Len(chain)
    /\ tip' = tip + 1
    /\ UNCHANGED <<chain, pc, target, latest, height, txi, outi, balance,
                   rewards, fetchFailed, aborted>>

-----------------------------------------------------------------------------
(* The scan.                                                              *)

\* calculate_balance(address) is called (the script's __main__).
Start(a) ==
    /\ pc \in {"idle", "done", "error"}
    /\ pc' = "status"
    /\ target' = a
    /\ UNCHANGED <<nodeVars, latest, height, txi, outi, balance, rewards,
                   fetchFailed, aborted>>

\* Mutant: the scan reads one height past the node's tip.
StatusOkAheadOfNode ==
    /\ pc = "status"
    /\ latest' = tip + 1
    /\ height' = 1
    /\ balance' = 0
    /\ rewards' = 0
    /\ fetchFailed' = {}
    /\ aborted' = {}
    /\ pc' = "block"
    /\ UNCHANGED <<nodeVars, target, txi, outi>>

\* get_latest_height() answers; balance and counter start at 0, the loop
\* starts at height 1.
StatusOk ==
    /\ pc = "status"
    /\ latest' = tip
    /\ height' = 1
    /\ balance' = 0
    /\ rewards' = 0
    /\ fetchFailed' = {}
    /\ aborted' = {}
    /\ pc' = "block"
    /\ UNCHANGED <<nodeVars, target, txi, outi>>

\* get_latest_height() raises: outside any try, the scan ends in error.
StatusFail ==
    /\ pc = "status"
    /\ pc' = "error"
    /\ UNCHANGED <<nodeVars, target, latest, height, txi, outi, balance,
                   rewards, fetchFailed, aborted>>

\* requests.get is called without a timeout: a node that never answers
\* blocks the scan forever.
Hang ==
    /\ MayHang
    /\ \/ pc = "status"
       \/ pc = "block" /\ height <= latest
    /\ pc' = "hung"
    /\ UNCHANGED <<nodeVars, target, latest, height, txi, outi, balance,
                   rewards, fetchFailed, aborted>>

\* get_block(height) answers: start on its transactions (an empty or
\* absent list gives a block without transactions).
FetchBlockOk ==
    /\ pc = "block"
    /\ height <= latest
    /\ pc' = "tx"
    /\ txi' = 1
    /\ UNCHANGED <<nodeVars, target, latest, height, outi, balance, rewards,
                   fetchFailed, aborted>>

\* Mutant: a failed fetch restarts the whole scan instead of skipping.
FetchBlockRestart ==
    /\ pc = "block"
    /\ height <= latest
    /\ fetchFailed' = fetchFailed \cup {height}
    /\ pc' = "status"
    /\ UNCHANGED <<nodeVars, target, latest, height, txi, outi, balance,
                   rewards, aborted>>

\* get_block(height) raises: caught, logged, the loop continues.
FetchBlockFail ==
    /\ pc = "block"
    /\ height <= latest
    /\ fetchFailed' = fetchFailed \cup {height}
    /\ height' = height + 1
    /\ UNCHANGED <<nodeVars, pc, target, latest, txi, outi, balance, rewards,
                   aborted>>

\* The loop is over: the balance is returned.
Finish ==
    /\ pc = "block"
    /\ height > latest
    /\ pc' = "done"
    /\ UNCHANGED <<nodeVars, target, latest, height, txi, outi, balance,
                   rewards, fetchFailed, aborted>>

\* An exception inside the block's try: the except clause continues with
\* the next height; the rest of the block is never looked at.
Abort ==
    /\ aborted' = aborted \cup {height}
    /\ height' = height + 1
    /\ pc' = "block"
    /\ UNCHANGED <<nodeVars, target, latest, txi, outi, balance, rewards,
                   fetchFailed>>

\* decode_transaction(tx_b64) raises.
TxMalformed ==
    /\ pc = "tx"
    /\ txi <= Len(Block(height))
    /\ ~CurTx.decodes
    /\ Abort

\* A decoded transaction that is not a coinbase to the target.
TxSkip ==
    /\ pc = "tx"
    /\ txi <= Len(Block(height))
    /\ CurTx.decodes
    /\ ~Qualifies(CurTx, target)
    /\ txi' = txi + 1
    /\ UNCHANGED <<nodeVars, pc, target, latest, height, outi, balance,
                   rewards, fetchFailed, aborted>>

\* A coinbase to the target whose inner transaction decodes: start on its
\* outputs.
TxQualifies ==
    /\ pc = "tx"
    /\ txi <= Len(Block(height))
    /\ CurTx.decodes
    /\ Qualifies(CurTx, target)
    /\ CurTx.inner_ok
    /\ pc' = "out"
    /\ outi' = 1
    /\ UNCHANGED <<nodeVars, target, latest, height, txi, balance, rewards,
                   fetchFailed, aborted>>

\* decode_inner_transaction(signed_tx['transaction']) raises.
InnerMalformed ==
    /\ pc = "tx"
    /\ txi <= Len(Block(height))
    /\ CurTx.decodes
    /\ Qualifies(CurTx, target)
    /\ ~CurTx.inner_ok
    /\ Abort

\* All transactions of the block are done.
EndBlock ==
    /\ pc = "tx"
    /\ txi > Len(Block(height))
    /\ height' = height + 1
    /\ pc' = "block"
    /\ UNCHANGED <<nodeVars, target, latest, txi, outi, balance, rewards,
                   fetchFailed, aborted>>

\* Mutant: the output's address is not compared with the target.
ProcessOutputAnyAddress ==
    /\ pc = "out"
    /\ outi <= Len(CurTx.outputs)
    /\ balance' = balance + CurTx.outputs[outi].value
    /\ rewards' = rewards + 1
    /\ outi' = outi + 1
    /\ UNCHANGED <<nodeVars, pc, target, latest, height, txi, fetchFailed,
                   aborted>>

\* One output: if it pays the target, add its value and count a reward.
ProcessOutput ==
    /\ pc = "out"
    /\ outi <= Len(CurTx.outputs)
    /\ LET o == CurTx.outputs[outi]
       IN  /\ balance' = IF o.address = target THEN balance + o.value
                                               ELSE balance
           /\ rewards' = IF o.address = target THEN rewards + 1 ELSE rewards
    /\ outi' = outi + 1
    /\ UNCHANGED <<nodeVars, pc, target, latest, height, txi, fetchFailed,
                   aborted>>

\* All outputs of the transaction are done: next transaction.
EndOutputs ==
    /\ pc = "out"
    /\ outi > Len(CurTx.outputs)
    /\ pc' = "tx"
    /\ txi' = txi + 1
    /\ UNCHANGED <<nodeVars, target, latest, height, outi, balance, rewards,
                   fetchFailed, aborted>>

-----------------------------------------------------------------------------
Init ==
    /\ chain \in Chains
    /\ tip = 0
    /\ pc = "idle"
    /\ target \in Addr
    /\ latest = 0
    /\ height = 1
    /\ txi = 1
    /\ outi = 1
    /\ balance = 0
    /\ rewards = 0
    /\ fetchFailed = {}
    /\ aborted = {}

\* The steps of a running scan, each a step of the single thread.
ScanStep ==
    \/ StatusOk \/ StatusFail \/ Hang
    \/ FetchBlockOk \/ FetchBlockFail \/ Finish
    \/ TxMalformed \/ TxSkip \/ TxQualifies \/ InnerMalformed \/ EndBlock
    \/ ProcessOutput \/ EndOutputs

Next ==
    \/ Grow
    \/ \E a \in Addr : Start(a)
    \/ ScanStep

\* The scan is one thread that never waits on anything but the node; once
\* running it keeps taking steps (a hung request disables every step).
Spec == Init /\ [][Next]_vars /\ WF_vars(ScanStep)

-----------------------------------------------------------------------------
(* Ground truth: what the chain up to height h pays address a in coinbase *)
(* transactions signed by a, counting every transaction that decodes.    *)

TxPositions(h) == UNION { {<<k, i>> : i \in DOMAIN chain[k]} : k \in 1..h }
OutPositions(h) ==
    UNION { {<<p[1], p[2], j>> : j \in DOMAIN chain[p[1]][p[2]].outputs}
            : p \in TxPositions(h) }

\* Decodable coinbase transactions signed by a whose inner record decodes
\* and pays a at least once.
RewardTxs(h, a) ==
    { p \in TxPositions(h) :
        LET tx == chain[p[1]][p[2]]
        IN  /\ tx.decodes /\ Qualifies(tx, a) /\ tx.inner_ok
            /\ \E j \in DOMAIN tx.outputs : tx.outputs[j].address = a }

\* Their outputs that pay a.
RewardOutputs(h, a) ==
    { q \in OutPositions(h) :
        /\ <<q[1], q[2]>> \in RewardTxs(h, a)
        /\ chain[q[1]][q[2]].outputs[q[3]].address = a }

OutputValue(q) == chain[q[1]][q[2]].outputs[q[3]].value
Truth(h, a) == MapThenSumSet(OutputValue, RewardOutputs(h, a))

-----------------------------------------------------------------------------
(* Properties.                                                            *)

TypeOK ==
    /\ chain \in Chains
    /\ tip \in 0..Len(chain)
    /\ pc \in PC
    /\ target \in Addr
    /\ latest \in 0..tip
    /\ height \in 1..(latest + 1)
    /\ txi \in Nat \ {0}
    /\ outi \in Nat \ {0}
    /\ balance \in Nat
    /\ rewards \in Nat
    /\ fetchFailed \subseteq 1..latest
    /\ aborted \subseteq 1..latest

(* The balance the scan answers never overstates what the chain pays the *)
(* target, whatever blocks failed to fetch or held a malformed            *)
(* transaction; and when no block failed or was abandoned it is exact, up *)
(* to the height read at the start (blocks the node appends during the    *)
(* scan are not seen).                                                    *)
ReplyAccurate ==
    pc = "done" =>
        /\ balance <= Truth(latest, target)
        /\ fetchFailed \cup aborted = {} => balance = Truth(latest, target)

(* Spec 4.3: the reward count is incremented "once per qualifying         *)
(* transaction, not per matching output", even when one transaction has  *)
(* several outputs to the address; check_balance.py prints it as the     *)
(* number of blocks mined and balance_api.py as transaction_count.  Where *)
(* no block failed or was abandoned, it is the number of coinbase         *)
(* transactions signed by the target that pay it.                         *)
RewardCountPerTx ==
    (pc = "done" /\ fetchFailed \cup aborted = {})
        => rewards = Cardinality(RewardTxs(latest, target))

(* Every scan that reads the node's height ends, with a balance, with an *)
(* error, or in a request that never returns: the height loop and the     *)
(* loops over a block's transactions and outputs never repeat an element, *)
(* so only a hung requests.get can keep the scan from reaching latest.    *)
ScanTerminates == (pc = "status") ~> (pc \in {"done", "error", "hung"})

(* Spec 8: a block with valid transactions and a corrupted one tallies    *)
(* the valid ones; the corrupted entry is skipped without abandoning the  *)
(* block.  Only failed fetches may lose value.                            *)
CorruptEntrySkipped ==
    (pc = "done" /\ fetchFailed = {}) => balance = Truth(latest, target)

=============================================================================
