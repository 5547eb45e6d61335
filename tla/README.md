# TLA+ models of the Shadowy balance tools and wallet send path

This directory holds TLA+ models of the code under `src/`, the TLC
configurations that check them, and TLAPS proofs about them. Line numbers
refer to the files under `src/`.

## The system

Three programs talk to two external services that are not part of this
repository:

- **`src/check_balance.py`** reconstructs an address's balance. It asks the
  Tendermint node for its latest height, fetches blocks `1..latest` one by
  one, and decodes every transaction. For every coinbase whose signer is the
  address, it decodes the inner transaction and adds the value of each output
  paying the address. The whole block is inside one `try`. An exception anywhere
  in it is logged, and the loop goes on with the next height.
- **`src/balance_api.py`** is a single-threaded `HTTPServer`. `do_GET` splits
  the path on `/`, routes `/api/v1/address/<a>/balance` and runs the same scan
  for the address it extracted. It answers 200 with the balance, 500 when the
  status query failed, and 404 for any other path.
- **`src/shadowy-python/shadowy_cli.py`** is a click CLI in front of a Node.js
  "WASM bridge" on `localhost:3333`. Its core operation is `wallet send`:
  - the command checks the recipient format and that the amount is > 0, then
    asks for confirmation;
  - `ShadowyWASM.send_transaction` fetches the spendable outputs through
    `get_address_utxos`. That function substitutes the fixture
    `_create_mock_utxos` for an error answer, and in fact for every answer:
    the `wallet list` command (808-809) rebinds the name `list`, so
    `isinstance(result, list)` at 524 raises and the handler at 546 returns
    the fixture;
  - it sorts the outputs by value, largest first, and takes them greedily until
    they cover `amount + fee`;
  - it builds the recipient output, a change output when the change is > 0, and
    a token operation for a token send;
  - the bridge signs the transaction and broadcasts it. The command's exit
    status depends on which of these steps failed.

The node appears in the models as an environment: a chain, fixed for a
behaviour, of which only a growing prefix `1..tip` exists. The bridge is a
nondeterministic answer. Each CLI command is a fresh process, so no state of
one send survives into the next.

## Modules

| Module | Models | Source |
|---|---|---|
| `BalanceScan` | the scan of `calculate_balance`, and the node | `check_balance.py` 7-75 |
| `MC_BalanceScan` | the small instance: 2 addresses, chains of 2 blocks of at most 2 transactions | |
| `BalanceScanProofs` | type correctness of the scan, with a TLAPS proof | |
| `BalanceApi` | `do_GET`, `handle_balance_request`, `send_404`; its scan is BalanceScan's | `balance_api.py` 10-121 |
| `MC_BalanceApi` | one chain, the balance path of each address and two other paths | |
| `SendFlow` | the `send` command, `send_transaction`, `get_address_utxos`, `_create_mock_utxos`, `sign_transaction` | `shadowy_cli.py` 317-577, 985-1068 |
| `MC_SendFlow` | the small instance: one valid and one invalid recipient, 7 amounts, SHADOW and a token, the fixture | |
| `SendFlowProofs` | type correctness, value conservation and minimal selection, with TLAPS proofs | |
| `SendMachine` | the send flow as spec 4.5 states it, the abstract specification `SendFlow` implements | spec 4.4-4.5 |
| `SendRefinementProofs` | the TLAPS proof that `SendFlow` implements `SendMachine` | |
| `CliSession` | every CLI command that talks to the bridge, `load_wasm`, `_cleanup_bridge`, `_call_wasm`, and the bridge processes on port 3333 | `shadowy_cli.py` 24-338, 727-1334 |
| `MC_CliSession` | two CLI processes, two node URLs, two wallet names | |
| `CliSessionProofs` | type correctness, the port cleanup and session isolation, with TLAPS proofs | |
| `ResetSync` | `reset_sync` and the `reset-sync` command, with the node's reaction to each endpoint | `shadowy_cli.py` 606-725, 1336-1376 |
| `MC_ResetSync` | three reset endpoints | |
| `ResetSyncProofs` | type correctness and `ReportNamesLastReset`, with TLAPS proofs | |

### BalanceScan

The variables are the scan's locals:
- `latest`, `height`, `txi` (the transaction in the block) and `outi` (the
  output in the transaction);
- `balance` and `rewards` (`mining_rewards`);
- `pc`, where the scan is;
- two history sets, `fetchFailed` and `aborted`. They record the heights whose
  fetch raised and the heights abandoned at a malformed transaction. The
  properties read them; the code does not.

There is one action per iteration of each loop and one per failure path:

| Action | Code |
|---|---|
| `StatusOk` | `get_latest_height` answers |
| `StatusFail` | `get_latest_height` raises outside any `try` |
| `Hang` | a `requests.get` without a timeout never returns |
| `FetchBlockOk` | `get_block` answers |
| `FetchBlockFail` | `get_block` raises, caught at line 61 |
| `TxMalformed` | the outer decode raises |
| `InnerMalformed` | the inner decode raises |
| `TxSkip` | a decoded transaction that is not a coinbase to the target |
| `TxQualifies` | a coinbase to the target, start on its outputs |
| `ProcessOutput` | one output, lines 55-58 |
| `EndOutputs`, `EndBlock`, `Finish` | the loops end |

`Abort` is the shared `except` branch: it adds the height to `aborted`,
moves to the next height and keeps `balance` and `rewards` as they are.

A transaction is a record: `decodes`, `algorithm`, `signer_key`, `inner_ok`,
and `outputs`. `decodes` and `inner_ok` abstract base64 plus `json.loads`
succeeding.

`Truth(h, a)` is the ground truth: the sum, over every decodable coinbase
signed by `a` in blocks `1..h`, of its outputs paying `a`.

### BalanceApi

`BalanceApi` extends `BalanceScan` with `path` and `reply`. A path is the
sequence of its `/`-separated parts, so `p[k]` is `parts[k-1]`.
- `Request(p)` is `do_GET`. A routed path starts the scan for `Extracted(p)`,
  which is `parts[3]`. Any other path is answered 404.
- `Reply200` and `Reply500` are `handle_balance_request`.
- A new request is taken only when the previous one is answered, as
  `serve_forever` does.

### SendFlow

`pc` follows the send: `fetch`, `select`, `selected`, `sign`, `broadcast`,
then `success`, `failed`, `rejected` or `cancelled`. The other variables:
- `sorted`, `idx` (how many of `sorted` are in `selected_utxos`), `total`,
  `needed`, `amountSat`;
- `outputs` and `tokenOps`;
- `mocked`, true when the candidates are the fixture;
- `exitCode`.

The actions:

| Action | Code |
|---|---|
| `Request` | the checks at 1006-1015 and the confirmation at 1028 |
| `FetchUtxos` | `get_address_utxos`, which returns the fixture whatever the bridge answers, the conversion at 369, `total_needed` at 375 and the sort at 380 |
| `SelectStep` | one iteration of the loop at 382-386 |
| `LoopExhausted` | the loop ends without a break, then the check at 388 |
| `Assemble` | 393-453 |
| `SignOk`, `SignFail` | `sign_transaction` succeeds or fails |
| `BroadcastOk`, `BroadcastFail` | 461-502, with the command's handling at 1036-1068 |

An amount typed on the command line is the float `q / AmountDen`, so
`int(amount * 100000000)` is `(q * SatPerUnit) \div AmountDen`. That is exact
truncation, which is what makes the zero-value output visible. The sort is
Python's stable descending sort, defined as the permutation that orders by
value and keeps ties in their original order. Since the candidates are
always the fixture, which is already in that order, the sort never
reorders anything in the code as it stands; it is kept because the loop
after it depends on its result.

**Refinement.** `SendMachine` is spec 4.5's flow Idle → CandidatesFetched →
InputsSelected → Assembled → Signed → Success, with Failed reachable from any
step. Success and Failed are terminal until a new send. Each step also says
what it promises about the data:
- the selected inputs cover amount + fee (spec 4.4);
- the outputs are the recipient output, plus a change output exactly when
  something is left over;
- signing and broadcasting leave the record unchanged.

`SendFlow` maps onto it as follows:
- `AbsState` sends each `pc` to a spec state. `idle`, `fetch`, `rejected`
  and `cancelled` are Idle.
- `amount` is `amountSat`.
- `AbsInputTotal` is `total` once inputs are selected. It is 0 before that,
  and after a failure that came before assembly.
- `to` and `outputs` map to themselves.

`SendRefinesMachine == Machine!Spec` is checked by the send run. A selection
step that does not yet reach `needed` is a stutter.

### CliSession

Every command is a process of its own, with a fresh `ShadowyWASM`. A
command is a row of the table `Command`: whether it calls `load_wasm`, the
exit status when that fails, and the sequence of operations it makes after
it. Each operation has the reaction of the command to an error: `exit`
(`sys.exit(1)`), `return` (exit status 0), `ignore` (carry on), or `skip`
(carry on past the next operation). `test` is the only command with a
`skip`: a failed `create_client` skips its own connection test, but the
command then calls `test_connection` itself.

Per process: `pc` (`idle`, `loading`, `sleep`, `run`, `exited`), `cmd`,
its `--node`, its wallet name, whether its address and amount pass the
local checks, `step`, `current_wallet`, `exitCode` and `killed`. Shared:
- `bridge[p]`, the bridge process `p` spawned: `none`, `starting`, `serving`
  or `dead`;
- `port`, whose bridge is bound to 3333. Every request of every process goes
  to it (`Server`);
- `bnode[b]` and `bwallet[b]`, the client and the wallet bridge `b` holds;
- `store`, the wallet files.

`heardFrom`, `signedBy` and `readyBy` are history variables.
The properties read them; the code does not.

| Action | Code |
|---|---|
| `Start` | a user runs a command; one at a time from one shell, several with `Overlap` |
| `LoadMissing` | the wasm file or the bridge script is missing, or node is not installed (33-43, 77-82) |
| `Spawn` | `Popen` in a new session, `atexit.register` (45-55) |
| `ProbeReady` | after the sleep, `/api/test` answers 404 (57-66) |
| `ProbePoll` | the probe failed: `poll()` decides (67-75) |
| `BridgeBind`, `BridgePortBusy`, `BridgeCrash` | the bridge process (not in the repository) |
| `CreateClient`, `NodeRead`, `LoadWallet`, `CreateWallet`, `Sign` | the `ShadowyWASM` methods whose requests the bridge answers (120-338) |
| `CallFails` | `_call_wasm` returns an error dict, then the command's reaction |
| `LocalOk`, `LocalFail` | the checks and the confirmation the CLI makes itself |
| `Finish` | the command's function returns; the interpreter exits, running `_cleanup_bridge` |
| `Kill` | a signal ends the CLI and `atexit` does not run |

The bridge is modelled from what the CLI's requests force. `get_utxos` and
`sign_transaction` carry no wallet and no address, so the bridge answers
them from its own state, the client of the last `create_client` and the
wallet of the last `load_wallet`. A bridge that finds the port taken exits.
Three constants switch the faults on: `Overlap`, `MayKill` (SIGTERM, SIGHUP,
SIGKILL) and `EnvMayFail` (missing files, failed requests, crashes).

### ResetSync

`kind[k][m]` is what the node does with a request of method `m` (POST or
GET) to reset endpoint `k`: no reset (404 or another error), a reset
answered 200/201/202, or a reset answered with another status such as 204
or 500. It is fixed for a behaviour. The model takes an answer the loop
accepts as meaning the node reset; `Succeeds(m)` is the status check at 644
and 665, `Resets(m)` the node's effect. The early return at 608-611 (no
node URL and no client) is not modelled: the command always passes
`--node`, whose default is a URL. The loop's
variables are `i`, `phase` (`post`, `get`, `basic`, `done`) and `bi`, the
basic endpoint. `result`, `used` (`endpoint_used`) and `exitCode` are the
outcome. `applied`, a history variable, lists the resets the node
performed. `RequestFails` models a `RequestException`. It may come before
the request reached the node, or after the node acted on it and the answer
missed the 30 s timeout (`\E reached`).

## Runs

Each run uses the MC module of its component. Run a check with
`tlc -workers 2 -config <cfg> <MC module>`.

| Run | cfg | Result | Shows |
|---|---|---|---|
| scan | `BalanceScan.cfg` | pass (616,827 states) | `TypeOK`; `ReplyAccurate`: the balance never exceeds what the chain pays the target up to the height read, and is exact when no block failed or was abandoned. This holds while the node grows during the scan and while requests may hang. `ScanTerminates`: under weak fairness the scan ends unless a request hangs |
| scan_reward_count | `BalanceScan_RewardCountPerTx.cfg` | violation | a coinbase with two outputs to the target counts two rewards; spec 4.3 counts once per qualifying transaction, and the code prints the count as blocks mined (`check_balance.py:67-68`) and returns it as `transaction_count` (`balance_api.py:51`) |
| scan_corrupt_entry | `BalanceScan_CorruptEntrySkipped.cfg` | violation | a corrupted transaction drops the valid coinbase after it in the same block (spec 8 says it is skipped alone) |
| api_route | `BalanceApi_Route.cfg` | violation | the documented balance path is answered 404: `parts[4]`/`parts[3]` are one index too low |
| send | `SendFlow.cfg` | pass (108 states) | `TypeOK`, `ValueConserved`, `NoSuperfluousInput`, `InsufficientOnlyWhenShort`, `SendTerminates`; `SendRefinesMachine`: the command implements spec 4.5's send flow |
| send_mock_inputs | `SendFlow_NoMockInputs.cfg` | violation | whatever the bridge answers, the send signs the fixture outputs |
| send_recipient_paid | `SendFlow_RecipientPaid.cfg` | violation | an amount of 1/8 of a smallest unit passes the check and pays the recipient 0 |
| session | `CliSession.cfg` | pass (1,081,964 states) | `TypeOK`; `SessionIsolation`: commands run one after another, with signals, missing files, failed requests and bridge crashes. Every answer a command gets comes from its own `--node`, and its transaction is signed by the wallet it loaded. `PortHeldByLiveCommand`: only a killed command leaves port 3333 held. `CommandEnds`: every command that starts ends, or waits for the user at the prompt of a send and ends after the answer |
| session_shared_bridge | `CliSession_SharedBridge.cfg` | violation | with two commands at once, the second talks to the first one's bridge, its node and its wallet |
| session_orphan_bridge | `CliSession_OrphanBridge.cfg` | violation | a killed command's bridge keeps the port, and the next command's "WASM bridge ready" is that bridge's 404 |
| reset | `ResetSync.cfg` | pass (46,555 states) | `TypeOK`; `ReportNamesLastReset`: a reported success names the last reset the node performed. `ResetEnds`: `reset-sync` always ends |
| reset_at_most_once | `ResetSync_AtMostOneReset.cfg` | violation | a POST that timed out after the node reset is followed by a second reset at the next endpoint; a reset answered 204 is followed by a GET of the same endpoint, which may reset again |

`BalanceScan.cfg` sets `CHECK_DEADLOCK FALSE`,
because a hung request really is a state with no further step. The
CliSession and ResetSync runs set it as well, because their commands end:
once every process has exited, nothing is left to do. The other runs check
deadlock.

The `session` run uses four of the eleven commands, `balance`,
`wallet_create`, `wallet_address` and `send`, which keeps the liveness check
within a few minutes. The other commands are built from the same operations
with the same reactions to errors:
- `health` and `health --detailed` are `balance` with another node query;
- `utxos` and `validate` are a local check followed by `get_utxos`, both of
  which `send` has;
- `wallet load` and `wallet balance` are `load_wallet` with `exit`, as in
  `send`.

`test` is left out because it breaks `SessionIsolation` (see below). The
violation runs use all commands but `test`. `test` connects to the fixed URL
`DefaultNode`.

### Observed while modelling, not kept as runs

These disagreements were found by TLC while the models were built, and
their runs were not kept:
- **`wallet create`, `load` and `address` never start a bridge**
  (`shadowy_cli.py:769-777`). They call `_call_wasm` without `load_wasm`,
  so with nothing failing and no bridge left by another command they find
  nothing on port 3333 and exit 1.
- **A hung request stalls the scan forever** (`check_balance.py:9, 15`).
  `<>(pc = "done")` fails in a behaviour whose `Hang` step is the last one.
  Spec 5 says every remote call has a bounded timeout.
- **Failed commands exit 0.** A send whose broadcast failed
  (`shadowy_cli.py:1053-1068`) and a `reset-sync` that found no working
  endpoint (`:1357`) both print the failure and return. Spec 7 says the CLI
  exits non-zero.
- **`validate` needs the network** (`shadowy_cli.py:1270-1277`). It exits 1 on
  a well-formed address when the bridge or the node is unavailable. Spec 8
  says no network call is required.
- **`test` reports another node** (`shadowy_cli.py:1322-1329`). A killed
  command's bridge still serves port 3333 with its client. If the `test`
  command's own `create_client` then fails, `test_connection` still passes its
  `current_client` check (set at line 123) and is answered by that bridge.
  "Node connection successful" then refers to the other command's node.

Every property of a passing run has a mutant: a plausible bug in the code
that TLC finds. They are listed in `PROJECT.json`. Examples:
- comparing no address in `ProcessOutput` breaks `ReplyAccurate`;
- `>` for `>=` in `SelectStep` breaks `NoSuperfluousInput`;
- a probe loop that keeps waiting for a bridge that never binds breaks `CommandEnds`;
- dropping the `total_selected < total_needed` check breaks `ValueConserved`;
- a failed fetch that restarts the scan breaks `ScanTerminates`.

### Bounds

**Scan.** The scan instance draws every block from a pool of six
transactions, one of each case the scan tells apart:
- a corrupt entry;
- a transfer paying the target;
- a coinbase of `a1` to `a1`;
- a coinbase of `a1` with two outputs to `a1` and one to `a2`;
- a coinbase signed by `a2` that pays `a1`;
- a coinbase of `a2` whose inner record does not decode.

Chains have two blocks of up to two transactions. That is enough for a
corrupt entry before a valid one in the same block, for two qualifying
outputs in one transaction, and for a block appended after `latest` was read.
The target is either address.

**Send.** The send instance covers:
- recipients of the right and the wrong format;
- amounts -1, 0, 1/8, 5/4, 39/4, 12 and 16 units, at 4 smallest units per
  unit, with a fee of 1. These give a refusal, a truncation to 0, a cover
  by the first input with change and an exact one (39 + 1 = 40), a cover
  that needs both inputs, and a shortfall (64 + 1 > 60);
- the fixture `<<40, 20>>`, which is all the code ever selects from.

**Session.** Two processes are enough for every interaction: a second
command meeting the first one's bridge, alive, orphaned or dead. Two nodes and two
wallets make a wrong answer or a wrong signer visible. The wallet store
starts as any subset, so loads of existing and missing files both happen.

**Reset.** With three endpoints, a timed-out reset can be followed by
another one, and a GET can follow a POST that reset the node without a
status the loop accepts. The node's behaviour is every function from the
endpoints and the two methods to the three reactions.
Three basic endpoints are checked, as in the code.

## Fairness

`ScanStep` and `SendStep` are weakly fair. Each program is one thread that
never waits on anything but its remote calls. The send path's calls all go
through `_call_wasm` with `timeout=30`, and every exception becomes an error
dict, so each step of a running send is eventually taken. The scan's calls
have no timeout, so `ScanTerminates` allows the scan to stop in a hung
request and checks that nothing else keeps it from ending. No fairness is assumed for the node or for the user: `Grow` and
`Request` may never happen.

In `CliSession` each process's own steps (`ProcStep(p)`) are weakly fair,
except at the prompt of a send (`AtPrompt(p)`): `click.confirm` (1028)
waits on stdin with no timeout, and only the user's answer moves the
process on, so `CommandEnds` allows a command to wait there forever. The
process is an OS process, and each request it makes has a timeout (5 s
for the probe, 30 s for `_call_wasm`). No fairness is given to `Start`,
`Kill` or the bridge processes: a bridge may never bind. `ResetSync` is one
thread whose requests all have timeouts (30 s and 10 s), so its `Next` is
weakly fair.

## Proofs

`tlapm BalanceScanProofs.tla`, `tlapm SendFlowProofs.tla`,
`tlapm SendRefinementProofs.tla`, `tlapm ResetSyncProofs.tla` and
`tlapm CliSessionProofs.tla` check every obligation.

- **`BalanceScanProofs!TypeCorrect`**: `Spec => []TypeOK`, for every `Addr`
  and every set of chains (`ChainsAssumption`: the chains are sequences of
  blocks of transactions).
  - `TypeOK` is not inductive. A step inside a block reads
    `chain[height][txi]`, which needs the loop to be inside the chain and the
    block.
  - The inductive invariant `IInv` adds `pc ∈ {tx, out} ⇒ height ≤ latest`
    and `pc = out ⇒ txi ∈ 1..Len(Block(height))`.
  - Lemma `CurTxType` shows that the current transaction is then a `Tx`.
  - `StepIInv` has one step per action.
- **`SendFlowProofs`** proves `TypeCorrect`, `ValueConservedThm` and
  `NoSuperfluousInputThm`, each as `Spec => []P`. They rest on `FeeAssumption`,
  `UnitAssumption` and `UtxoAssumption`: the fixture is a non-empty list of
  utxos. The invariant `IInv` carries what earlier
  steps of the same command established:
  - the amount is > 0 from the confirmed request on, so `int(amount * 10^8)`
    is a natural number (`AmountType`);
  - `needed = amountSat + Fee` once the utxos are fetched;
  - while selecting, the sorted list is not empty, and once an input is
    taken the total is still short;
  - after the break, at least one input is taken, the total covers
    `needed`, and the total without the last input did not;
  - after assembly, `outputs` is exactly the list `Assemble` builds.

  Lemmas: `SortType` (sorting keeps a list of utxos and its length),
  `ChangeType`, and `IInvValueConserved`. The last uses `ConcatProperties`
  from `SequenceTheorems`.

- **`SendRefinementProofs!SendRefinement`**: `Spec => Machine!Spec`, under
  the same assumptions. The invariant is `RInv`: `SendFlowProofs`' `IInv`
  plus `NoOutputsYet`, which says outputs stay empty until assembly. The
  proof has three parts:
  - `InitRefines` shows that the initial state maps to `SendMachine`'s
    initial state.
  - `StepRefines` takes one case per action and shows that each step maps to
    a `SendMachine` step or a stutter:
    - `Request` is `NewSend`;
    - `FetchUtxos` is `FetchCandidates`;
    - a `SelectStep` that reaches `needed` is `SelectInputs`, and one that
      does not is a stutter;
    - `LoopExhausted` is `Fail` or `SelectInputs`;
    - `SignFail` and `BroadcastFail` are `Fail`, and the rest map one to
      one.
  - The two are combined with `[]RInv` by PTL.

  Two parts of the invariant are needed:
  - `NoOutputsYet` makes the mapped input total 0 when a send fails before
    assembly.
  - `AssembledNonEmpty`, from `IInv`'s last conjunct, shows that a failure
    after assembly keeps the mapped input total.

- **`ResetSyncProofs`** proves `TypeCorrect` and `ReportNamesLastResetThm`
  for every endpoint list and basic count (`ResetAssumption`: the endpoints
  are a sequence, `BasicCount` is natural), and every node.
  - Its `IInv` adds that the loop is inside the list while it sends a
    request, that a result is set exactly when `phase = "done"`, and that a
    success has `used = ResetEndpoints[i]` with `i` the last index in
    `applied`.
  - Nothing is enabled once the phase is done, so a success, once
    recorded, is never followed by another reset.
  - Lemma `ApplyType` (from `AppendProperties`) covers the node's reaction.
  - A reaction whose answer is accepted (`Succeeds`) is one that resets
    (`Resets`), which is what lets a success name the last reset.

- **`CliSessionProofs`** proves three theorems about the CLI sessions.
  - `TypeCorrect` (`Spec => []TypeOK`) and `PortHeldThm`
    (`Spec => []PortHeldByLiveCommand`) hold for every instance, with
    commands overlapping, killed or failing. Their invariant `IInv` has two
    parts:
    - `TypeInv` is `TypeOK` plus the shape of a command that has not reached
      its operations: it has no command exactly when idle, and is at step 1
      until it runs. It also says the wallet argument fits the command.
    - `PortInv` says the port is held by a serving bridge, and that a live
      bridge belongs to a command that runs, sleeps, or was killed.
  - The step that a command never runs past its last operation rests on
    lemma `CommandShapes`, proved command by command from the table. In
    every command a `skip` has an operation after it, the node is asked
    only by commands that start a bridge and never first, and every such
    command but `test` begins with a `create_client` whose failure exits.
  - `SessionIsolationThm` proves `Spec => []SessionIsolation` under
    `OneAtATime`: no `Overlap`, and `test` not in `RunCommands`. Neither
    hypothesis can be dropped. The run `session_shared_bridge` breaks the
    property with overlapping commands, and `test` breaks it as described
    under the runs. The induction needs `IsoInv`, whose conjuncts are:
    - `OneActive`: one active command at a time;
    - `FreshProc`: a command that has not run has no wallet and has heard
      nothing;
    - `OwnWallet`: `current_wallet` is only ever the command's own `-w`;
    - `CleanStarting`: a bridge that has not bound the port has no client
      and no wallet;
    - `ClientOfRunning` and `WalletOfRunning`: the bridge on the port has
      the client and the wallet the running command set, if any.

    The key step is `FirstOpConnects`: the first operation of a command
    that uses a bridge is a `create_client` that exits on failure. So by
    the time a command asks the node, it has set the client of whichever
    bridge serves port 3333. A stale bridge left by a killed command is
    therefore overwritten before it is used.

IInv of every proof module was checked with TLC on the MC instances before it was
proved.

### Checked by TLC only

Two kinds of property stay with TLC:
- **Liveness** (`ScanTerminates`, `SendTerminates`, `CommandEnds`, `ResetEnds`): fairness and ENABLED
  are beyond the prover.
- **`ReplyAccurate` and `InsufficientOnlyWhenShort`**: they speak of sums
  over sets of positions (`MapThenSumSet`). Proving them needs induction over
  the fold, and the library's fold lemmas take an operator parameter
  (`NEW op(_)`) that the installed provers cannot instantiate.
  `InsufficientOnlyWhenShort` also needs the sum of a list to be unchanged
  by the sort's permutation, which is again such an induction.

## Not modelled

- **The data of the bridge answers in CliSession.** A balance, a node
  info record or a utxo list is not modelled there; the send path's data is
  SendFlow's. `wallet list` only lists files and changes nothing.
- **`sync-status`.** It prints the answers of nine GETs and changes nothing.
- **Two sends in a row that reuse an unconfirmed output.** This needs a
  bridge with a mempool across processes; it is listed as a hazard.
- **Layout details.** The JSON layout, headers (the 404 and 500 answers
  carry no CORS header, although spec 6 says it is always set), printing and
  float display are left out.
