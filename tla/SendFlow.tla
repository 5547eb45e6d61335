------------------------------ MODULE SendFlow ------------------------------
(***************************************************************************)
(* The send path of src/shadowy-python/shadowy_cli.py: the `wallet send`  *)
(* command (lines 985-1068) checks the recipient and the amount, asks for *)
(* confirmation and calls ShadowyWASM.send_transaction (340-505), which   *)
(* fetches the spendable outputs (get_address_utxos, 507-556), which      *)
(* always end up the fixture of _create_mock_utxos (558-577): see          *)
(* FetchUtxos,                                                             *)
(* sorts them by value descending, takes them greedily until they cover   *)
(* amount + fee, builds the outputs (recipient, change if positive) and   *)
(* the token operation, has the bridge sign it and broadcast it.          *)
(*                                                                         *)
(* The wallet is loaded and the client configured (the command exits     *)
(* before send_transaction otherwise).  An amount is the float            *)
(* q / AmountDen display units; int(amount * SatPerUnit) truncates.       *)
(***************************************************************************)
EXTENDS Naturals, Sequences, FiniteSets, FiniteSetsExt

CONSTANTS
    Fee,          \* estimated_fee, in smallest units (100000)
    SatPerUnit,   \* smallest units per display unit (100000000)
    AmountDen,    \* an amount given on the command line is q / AmountDen
    Amounts,      \* the numerators q of the amounts a user may type
    Recipients,   \* recipient strings, as records with their first
                  \* character (lead) and their length (len)
    From,         \* the loaded wallet's address, likewise
    Tokens,       \* token ids a user may pass with --token
    NoToken,      \* no --token given
    TxIds,        \* transaction ids of spendable outputs
    MockUtxos     \* the fixture of _create_mock_utxos

Utxo == [txid: TxIds, vout: Nat, value: Nat]
Output == [address: Recipients \cup {From}, value: Nat]
TokenOp == [token_id: Tokens, from: {From}, to: Recipients, amount: Nat]

ASSUME FeeAssumption == Fee \in Nat
ASSUME UnitAssumption ==
    /\ SatPerUnit \in Nat \ {0}
    /\ AmountDen \in Nat \ {0}
    /\ Amounts \subseteq Int
ASSUME AddressAssumption ==
    /\ \A a \in Recipients \cup {From} : a.lead \in STRING /\ a.len \in Nat
    /\ Recipients # {}
ASSUME TokenAssumption == NoToken \notin Tokens
ASSUME UtxoAssumption ==
    /\ MockUtxos \in Seq(Utxo)
    /\ MockUtxos # <<>>

VARIABLES
    pc,           \* where the send is
    to,           \* recipient
    amountQ,      \* the amount typed, as numerator q
    token,        \* the --token option
    candidates,   \* utxos after the fallback
    mocked,       \* candidates are the fixture, not the bridge's answer
    sorted,       \* utxos after utxos.sort(key=value, reverse=True)
    idx,          \* how many of sorted are in selected_utxos
    total,        \* total_selected
    needed,       \* total_needed = amount_satoshis + estimated_fee
    amountSat,    \* amount_satoshis
    outputs,      \* the transaction outputs
    tokenOps,     \* token_ops
    signed,       \* the signer returned a txid
    exitCode      \* the command's exit status once it has ended

vars == <<pc, to, amountQ, token, candidates, mocked, sorted, idx, total,
          needed, amountSat, outputs, tokenOps, signed, exitCode>>
selVars == <<candidates, mocked, sorted, idx, total, needed, amountSat>>

PC == {"idle", "fetch", "select", "selected", "sign", "broadcast",
       "success", "failed", "rejected", "cancelled"}
Ended == {"idle", "success", "failed", "rejected", "cancelled"}
NoExit == -1

-----------------------------------------------------------------------------
(* Helpers.                                                               *)

\* to_address.startswith('S') and len(to_address) == 51
ValidAddress(a) == a.lead = "S" /\ a.len = 51

\* int(amount * 100000000) for SHADOW, int(amount) for a token.
AmountSatoshis(q, tok) ==
    IF tok = NoToken THEN (q * SatPerUnit) \div AmountDen
                     ELSE q \div AmountDen

\* p puts s in the order of a stable sort by value, largest first.
IsStableDescOrder(s, p) ==
    \A i, j \in 1..Len(s) :
        i < j => \/ s[p[i]].value > s[p[j]].value
                 \/ s[p[i]].value = s[p[j]].value /\ p[i] < p[j]

\* utxos.sort(key=lambda x: x.get("value", 0), reverse=True): Python's
\* sort is stable also with reverse=True.  Such an order always exists;
\* the ELSE branch only makes the operator total.
SortByValueDesc(s) ==
    LET Perms == [1..Len(s) -> 1..Len(s)]
    IN  IF \E p \in Perms : IsStableDescOrder(s, p)
           THEN LET p == CHOOSE p \in Perms : IsStableDescOrder(s, p)
                IN  [i \in 1..Len(s) |-> s[p[i]]]
           ELSE s

\* The change output, only when change > 0.
ChangeOutputs(change) ==
    IF change > 0 THEN <<[address |-> From, value |-> change]>> ELSE <<>>

SumValues(s) == MapThenSumSet(LAMBDA i : s[i].value, DOMAIN s)

-----------------------------------------------------------------------------
(* The command.                                                           *)

\* Each command is a new process: nothing of an earlier send survives.
Fresh ==
    /\ candidates' = <<>>
    /\ mocked' = FALSE
    /\ sorted' = <<>>
    /\ idx' = 0
    /\ total' = 0
    /\ needed' = 0
    /\ amountSat' = 0
    /\ outputs' = <<>>
    /\ tokenOps' = <<>>
    /\ signed' = FALSE

\* Mutant: the `amount <= 0` check is dropped.
RequestNoAmountCheck(r, q, tok) ==
    /\ pc \in Ended
    /\ to' = r
    /\ amountQ' = q
    /\ token' = tok
    /\ IF ~ValidAddress(r)
          THEN pc' = "rejected" /\ exitCode' = 1
          ELSE \/ pc' = "fetch" /\ exitCode' = NoExit
               \/ pc' = "cancelled" /\ exitCode' = 0
    /\ Fresh

\* `wallet send TO AMOUNT [--token T]`: the recipient format and the amount
\* are checked (exit 1 otherwise), then the user confirms or cancels.
Request(r, q, tok) ==
    /\ pc \in Ended
    /\ to' = r
    /\ amountQ' = q
    /\ token' = tok
    /\ IF ~ValidAddress(r) \/ q <= 0
          THEN pc' = "rejected" /\ exitCode' = 1
          ELSE \/ pc' = "fetch" /\ exitCode' = NoExit
               \/ pc' = "cancelled" /\ exitCode' = 0
    /\ Fresh

\* Step 1-2: get_address_utxos.  An error answer is replaced by the
\* fixture (518-520).  Any other answer reaches isinstance(result, list)
\* (524), where `list` is the `wallet list` command defined at 808-809:
\* the TypeError it raises is caught at 546 and the fixture is used too.
\* So whatever the bridge answers, the candidates are the fixture.  Then
\* amount, fee and total_needed are computed and the list is sorted; an
\* empty list ends the send (363-364).
FetchUtxos ==
    /\ pc = "fetch"
    /\ candidates' = MockUtxos
    /\ mocked' = TRUE
    /\ amountSat' = AmountSatoshis(amountQ, token)
    /\ needed' = AmountSatoshis(amountQ, token) + Fee
    /\ sorted' = SortByValueDesc(MockUtxos)
    /\ idx' = 0
    /\ total' = 0
    /\ IF MockUtxos = <<>>
          THEN pc' = "failed" /\ exitCode' = 1
          ELSE pc' = "select" /\ exitCode' = NoExit
    /\ UNCHANGED <<to, amountQ, token, outputs, tokenOps, signed>>

\* Mutant: break only once the total exceeds what is needed.
SelectStepStrict ==
    /\ pc = "select"
    /\ idx < Len(sorted)
    /\ idx' = idx + 1
    /\ total' = total + sorted[idx + 1].value
    /\ pc' = IF total' > needed THEN "selected" ELSE "select"
    /\ UNCHANGED <<to, amountQ, token, candidates, mocked, sorted, needed,
                   amountSat, outputs, tokenOps, signed, exitCode>>

\* Step 2, one iteration of `for utxo in utxos`: append, add, break once
\* the total covers what is needed.
SelectStep ==
    /\ pc = "select"
    /\ idx < Len(sorted)
    /\ idx' = idx + 1
    /\ total' = total + sorted[idx + 1].value
    /\ pc' = IF total' >= needed THEN "selected" ELSE "select"
    /\ UNCHANGED <<to, amountQ, token, candidates, mocked, sorted, needed,
                   amountSat, outputs, tokenOps, signed, exitCode>>

\* Mutant: the `total_selected < total_needed` check is dropped.
LoopExhaustedNoCheck ==
    /\ pc = "select"
    /\ idx = Len(sorted)
    /\ pc' = "selected"
    /\ UNCHANGED <<to, amountQ, token, selVars, outputs, tokenOps, signed,
                   exitCode>>

\* Mutant: the loop stops one candidate early.
LoopExhaustedEarly ==
    /\ pc = "select"
    /\ idx = Len(sorted) - 1
    /\ IF total < needed
          THEN pc' = "failed" /\ exitCode' = 1
          ELSE pc' = "selected" /\ exitCode' = exitCode
    /\ UNCHANGED <<to, amountQ, token, selVars, outputs, tokenOps, signed>>

\* The loop ran out of utxos without a break: Insufficient funds (exit 1).
LoopExhausted ==
    /\ pc = "select"
    /\ idx = Len(sorted)
    /\ IF total < needed
          THEN pc' = "failed" /\ exitCode' = 1
          ELSE pc' = "selected" /\ exitCode' = exitCode
    /\ UNCHANGED <<to, amountQ, token, selVars, outputs, tokenOps, signed>>

\* Steps 3-5 and the record of step 7: inputs from the selected utxos, the
\* recipient output, the change output if change > 0, the transfer token
\* operation only for a token send.
Assemble ==
    /\ pc = "selected"
    /\ outputs' = <<[address |-> to, value |-> amountSat]>>
                    \o ChangeOutputs(total - amountSat - Fee)
    /\ tokenOps' = IF token # NoToken
                      THEN <<[token_id |-> token, from |-> From, to |-> to,
                              amount |-> amountQ \div AmountDen]>>
                      ELSE <<>>
    /\ pc' = "sign"
    /\ UNCHANGED <<to, amountQ, token, selVars, signed, exitCode>>

\* sign_transaction: the bridge signs, or fails (no txid: exit 1).
SignOk ==
    /\ pc = "sign"
    /\ signed' = TRUE
    /\ pc' = "broadcast"
    /\ UNCHANGED <<to, amountQ, token, selVars, outputs, tokenOps, exitCode>>

\* Mutant: a failed signature goes back and assembles the record again.
SignFailRetry ==
    /\ pc = "sign"
    /\ signed' = FALSE
    /\ pc' = "selected"
    /\ UNCHANGED <<to, amountQ, token, selVars, outputs, tokenOps, exitCode>>

SignFail ==
    /\ pc = "sign"
    /\ signed' = FALSE
    /\ pc' = "failed"
    /\ exitCode' = 1
    /\ UNCHANGED <<to, amountQ, token, selVars, outputs, tokenOps>>

\* Step 8: broadcast_transaction.  Success prints the details; a failure
\* keeps the txid, so the command prints the issue and returns (exit 0).
BroadcastOk ==
    /\ pc = "broadcast"
    /\ pc' = "success"
    /\ exitCode' = 0
    /\ UNCHANGED <<to, amountQ, token, selVars, outputs, tokenOps, signed>>

\* Mutant: a failed broadcast signs again and retries.
BroadcastFailRetry ==
    /\ pc = "broadcast"
    /\ pc' = "sign"
    /\ signed' = FALSE
    /\ UNCHANGED <<to, amountQ, token, selVars, outputs, tokenOps, exitCode>>

BroadcastFail ==
    /\ pc = "broadcast"
    /\ pc' = "failed"
    /\ exitCode' = 0
    /\ UNCHANGED <<to, amountQ, token, selVars, outputs, tokenOps, signed>>

-----------------------------------------------------------------------------
Init ==
    /\ pc = "idle"
    /\ to \in Recipients
    /\ amountQ = 0
    /\ token = NoToken
    /\ candidates = <<>>
    /\ mocked = FALSE
    /\ sorted = <<>>
    /\ idx = 0
    /\ total = 0
    /\ needed = 0
    /\ amountSat = 0
    /\ outputs = <<>>
    /\ tokenOps = <<>>
    /\ signed = FALSE
    /\ exitCode = NoExit

\* The steps of a running send command.
SendStep ==
    \/ FetchUtxos \/ SelectStep \/ LoopExhausted \/ Assemble
    \/ SignOk \/ SignFail \/ BroadcastOk \/ BroadcastFail

Next ==
    \/ \E r \in Recipients, q \in Amounts, tok \in Tokens \cup {NoToken} :
          Request(r, q, tok)
    \/ SendStep

\* Every bridge call is made with timeout=30 and every failure is turned
\* into an error dict, so each step of a running command is taken.
Spec == Init /\ [][Next]_vars /\ WF_vars(SendStep)

-----------------------------------------------------------------------------
(* Properties.                                                            *)

TypeOK ==
    /\ pc \in PC
    /\ to \in Recipients
    /\ amountQ \in Amounts \cup {0}
    /\ token \in Tokens \cup {NoToken}
    /\ candidates \in Seq(Utxo)
    /\ mocked \in BOOLEAN
    /\ sorted \in Seq(Utxo)
    /\ idx \in 0..Len(sorted)
    /\ total \in Nat
    /\ needed \in Nat
    /\ amountSat \in Nat
    /\ outputs \in Seq(Output)
    /\ tokenOps \in Seq(TokenOp)
    /\ signed \in BOOLEAN
    /\ exitCode \in {NoExit, 0, 1}

\* The selected inputs: a prefix of the sorted candidates.
Selected == SubSeq(sorted, 1, idx)

(* What a transaction handed to the signer spends: its outputs and the   *)
(* fee add up exactly to the selected inputs, no output is negative, and *)
(* the change output exists exactly when something is left over.         *)
ValueConserved ==
    pc \in {"sign", "broadcast", "success"} =>
        /\ \A i \in DOMAIN outputs : outputs[i].value >= 0
        /\ outputs[1].value + Fee
             + (IF Len(outputs) = 2 THEN outputs[2].value ELSE 0) = total
        /\ Len(outputs) = 2 <=> total > needed

(* Greedy selection takes no input it does not need: every proper prefix *)
(* of the selected inputs falls short of amount + fee, and at least one  *)
(* input is always taken.                                                  *)
NoSuperfluousInput ==
    pc \in {"selected", "sign", "broadcast", "success"} =>
        /\ idx >= 1
        /\ idx > 1 => total - sorted[idx].value < needed

(* "Insufficient funds" is reported only when all candidates together    *)
(* fall short of amount + fee.                                            *)
InsufficientOnlyWhenShort ==
    (pc = "failed" /\ outputs = <<>> /\ candidates # <<>>)
        => SumValues(candidates) < needed

(* Every confirmed send ends: success, or an error the command reports.  *)
SendTerminates == (pc = "fetch") ~> (pc \in {"success", "failed"})

(* Spec 4.4/9: when the bridge has no real spendable outputs the send    *)
(* must fail explicitly; fixture outputs never reach the signer.         *)
NoMockInputs == pc \in {"sign", "broadcast", "success"} => ~mocked

(* The spec 4.5 state of the send at each pc: a send that has not yet    *)
(* fetched its candidates, or was refused or cancelled, is Idle.          *)
AbsState ==
    CASE pc \in {"idle", "rejected", "cancelled", "fetch"} -> "Idle"
      [] pc = "select"    -> "CandidatesFetched"
      [] pc = "selected"  -> "InputsSelected"
      [] pc = "sign"      -> "Assembled"
      [] pc = "broadcast" -> "Signed"
      [] pc = "success"   -> "Success"
      [] pc = "failed"    -> "Failed"

(* The selected inputs' total once the loop has broken out, and in a send *)
(* that failed after assembling its record; 0 before.                      *)
AbsInputTotal ==
    IF pc \in {"selected", "sign", "broadcast", "success"}
       \/ (pc = "failed" /\ outputs # <<>>)
      THEN total ELSE 0

Machine == INSTANCE SendMachine
    WITH state <- AbsState, amount <- amountSat, inputTotal <- AbsInputTotal

(* The send command implements the send flow of spec 4.5: it moves only  *)
(* forward through its states, retries nothing, selects inputs covering   *)
(* amount + fee, and signs and broadcasts the record it assembled.        *)
SendRefinesMachine == Machine!Spec

(* The command refuses an amount that is not > 0 ("Amount must be        *)
(* greater than 0"); the recipient output it builds pays more than 0.    *)
RecipientPaid == pc \in {"sign", "broadcast", "success"} =>
                    outputs[1].value > 0
=============================================================================
