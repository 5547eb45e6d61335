----------------------------- MODULE CliSession -----------------------------
(***************************************************************************)
(* The CLI commands of src/shadowy-python/shadowy_cli.py and their        *)
(* sessions with the Node.js WASM bridge.  Every command is a process of  *)
(* its own with a fresh ShadowyWASM object.  The commands that call       *)
(* load_wasm (29-83) spawn a bridge, register _cleanup_bridge (85-101)    *)
(* with atexit, sleep, and probe http://localhost:3333; every later       *)
(* _call_wasm (103-117) goes to whatever listens on that fixed port.      *)
(*                                                                         *)
(* The bridge is not part of this repository.  What the model assumes of *)
(* it is what the CLI's requests force: get_utxos and sign_transaction   *)
(* carry no wallet and no address, so the bridge answers them from its    *)
(* own state, the client set by create_client and the wallet set by      *)
(* load_wallet.  A bridge that cannot bind the busy port exits.           *)
(***************************************************************************)
EXTENDS Integers, Sequences, FiniteSets

CONSTANTS
    Procs,        \* CLI processes, one command each
    Nodes,        \* --node URLs
    DefaultNode,  \* http://127.0.0.1:8080, the default and test's URL
    Wallets,      \* wallet names
    RunCommands,  \* the commands users run
    NoProc, NoNode, NoWallet,
    Overlap,      \* commands of different processes may run at once
    MayKill,      \* a CLI may be ended by a signal that skips atexit
    EnvMayFail    \* files may be missing, requests fail, bridges crash

ASSUME SessionAssumption ==
    /\ NoProc \notin Procs /\ NoNode \notin Nodes /\ NoWallet \notin Wallets
    /\ DefaultNode \in Nodes
    /\ Overlap \in BOOLEAN /\ MayKill \in BOOLEAN /\ EnvMayFail \in BOOLEAN

VARIABLES
    pc,           \* "idle", "loading", "sleep", "run", "exited"
    cmd,          \* the command the process runs
    node,         \* its --node option
    wal,          \* its wallet argument
    argOk,        \* its address or amount arguments pass the local checks
    step,         \* the next operation of the command
    curWallet,    \* ShadowyWASM.current_wallet
    exitCode,     \* the exit status, once the process has exited
    killed,       \* the process was ended by a signal
    bridge,       \* the state of the bridge process each CLI spawned
    port,         \* whose bridge listens on port 3333
    bnode,        \* the node URL a bridge's client uses
    bwallet,      \* the wallet loaded in a bridge
    store,        \* the wallet files under ~/.shadowy
    heardFrom,    \* the nodes whose answers reached the process
    signedBy,     \* the wallet that signed the process's transaction
    readyBy       \* the bridge that made load_wasm report success

procVars == <<pc, cmd, node, wal, argOk, step, curWallet, exitCode, killed>>
bridgeVars == <<bridge, port, bnode, bwallet>>
histVars == <<heardFrom, signedBy, readyBy>>
vars == <<procVars, bridgeVars, store, histVars>>

NoExit == -1
Alive == {"starting", "serving"}

-----------------------------------------------------------------------------
(* The commands, as the sequence of ShadowyWASM operations each makes     *)
(* after load_wasm, and what it does when one of them reports an error:   *)
(* sys.exit(1), return (exit status 0), carry on, or skip the next one.   *)

Op(o, e) == [op |-> o, onError |-> e]

\* create_client (120-141): set the bridge's client, then test_connection.
Connect == <<Op("create_client", "exit"), Op("test_connection", "exit")>>

\* A command that calls load_wasm, with its status when load_wasm fails.
WithBridge(ops) == [bridge |-> TRUE, loadFail |-> 1, ops |-> Connect \o ops]
NoBridge(ops) == [bridge |-> FALSE, loadFail |-> 1, ops |-> ops]

BalanceCmd == WithBridge(<<Op("get_balance", "exit")>>)
WalletCreateCmd == NoBridge(<<Op("create_wallet", "exit")>>)
WalletLoadCmd == NoBridge(<<Op("load_wallet", "exit")>>)
\* wallet address -w NAME; without -w it only prints "No wallet loaded".
WalletAddressCmd == NoBridge(<<Op("load_wallet", "return")>>)
WalletBalanceCmd ==
    WithBridge(<<Op("load_wallet", "exit"), Op("get_balance", "exit")>>)
SendCmd ==
    WithBridge(<<Op("load_wallet", "exit"), Op("check", "exit"),
                 Op("confirm", "return"), Op("get_utxos", "ignore"),
                 Op("select", "exit"), Op("sign", "exit"),
                 Op("broadcast", "ignore")>>)
HealthCmd == WithBridge(<<Op("get_health", "exit")>>)
HealthDetailedCmd == WithBridge(<<Op("get_node_info", "exit")>>)
UtxosCmd == WithBridge(<<Op("check", "exit"), Op("get_utxos", "ignore")>>)
ValidateCmd == WithBridge(<<Op("check", "exit")>>)
\* test: a failed load_wasm returns; a failed create_client is printed
\* (and skips its own connection test) before test_connection is called.
TestCmd ==
    [bridge |-> TRUE, loadFail |-> 0,
     ops |-> <<Op("create_client", "skip"), Op("test_connection", "ignore"),
               Op("test_connection", "ignore")>>]

Command == [
    balance         |-> BalanceCmd,
    wallet_create   |-> WalletCreateCmd,
    wallet_load     |-> WalletLoadCmd,
    wallet_address  |-> WalletAddressCmd,
    wallet_balance  |-> WalletBalanceCmd,
    send            |-> SendCmd,
    health          |-> HealthCmd,
    health_detailed |-> HealthDetailedCmd,
    utxos           |-> UtxosCmd,
    validate        |-> ValidateCmd,
    test            |-> TestCmd]

Commands == DOMAIN Command
NoCmd == "none"

ASSUME CommandsAssumption == RunCommands \subseteq Commands

\* The operations answered by the node behind the bridge's client.
NodeOps == {"test_connection", "get_balance", "get_health", "get_node_info",
            "get_utxos", "broadcast"}
BridgeOps == NodeOps \cup {"create_client", "load_wallet", "create_wallet", "sign"}
\* Checks made in the CLI process itself, and the user's confirmation.
LocalOps == {"check", "confirm", "select"}

\* The arguments a command takes: --node for those that connect, a wallet
\* name for those that load or create one, and addresses or amounts that
\* pass the local checks or not.
UsesOp(c, o) == \E i \in DOMAIN Command[c].ops : Command[c].ops[i].op = o
NodeArgs(c) ==
    CASE c = "test" -> {DefaultNode}
      [] UsesOp(c, "create_client") -> Nodes
      [] OTHER -> {NoNode}
WalletArgs(c) ==
    IF UsesOp(c, "load_wallet") \/ UsesOp(c, "create_wallet") THEN Wallets ELSE {NoWallet}
CheckArgs(c) == IF UsesOp(c, "check") THEN BOOLEAN ELSE {TRUE}

Ops(p) == Command[cmd[p]].ops
CurOp(p) == Ops(p)[step[p]].op
OnError(p) == Ops(p)[step[p]].onError
Running(p) == pc[p] = "run" /\ step[p] <= Len(Ops(p))
\* Every request goes to http://localhost:3333, whoever listens there.
Server == port

\* A request the bridge answers without error, given its state.
Answerable(p) ==
    /\ Server # NoProc
    /\ CurOp(p) \in NodeOps => bnode[Server] # NoNode
    /\ CurOp(p) = "load_wallet" => wal[p] \in store
    /\ CurOp(p) = "sign" => curWallet[p] # NoWallet /\ bwallet[Server] # NoWallet

Advance(p) == step' = [step EXCEPT ![p] = @ + 1]

\* Mutant: the cleanup runs only when the command fails.
ExitCleanupOnError(p, code) ==
    /\ pc' = [pc EXCEPT ![p] = "exited"]
    /\ exitCode' = [exitCode EXCEPT ![p] = code]
    /\ bridge' = [bridge EXCEPT ![p] = IF @ \in Alive /\ code = 1 THEN "dead" ELSE @]
    /\ port' = IF port = p /\ code = 1 THEN NoProc ELSE port
    /\ UNCHANGED <<cmd, node, wal, argOk, step, curWallet, killed,
                   bnode, bwallet, store>>

\* The interpreter exits: the atexit handler _cleanup_bridge kills the
\* bridge's process group (SIGTERM, then SIGKILL after 5 s).
Exit(p, code) ==
    /\ pc' = [pc EXCEPT ![p] = "exited"]
    /\ exitCode' = [exitCode EXCEPT ![p] = code]
    /\ bridge' = [bridge EXCEPT ![p] = IF @ \in Alive THEN "dead" ELSE @]
    /\ port' = IF port = p THEN NoProc ELSE port
    /\ UNCHANGED <<cmd, node, wal, argOk, step, curWallet, killed,
                   bnode, bwallet, store>>

-----------------------------------------------------------------------------
(* A command starts.  Run one after another from one shell, a command     *)
(* starts when no other is running; with Overlap, from several shells.    *)
Start(p) ==
    /\ pc[p] = "idle"
    /\ Overlap \/ \A q \in Procs : pc[q] \in {"idle", "exited"}
    /\ \E c \in RunCommands : \E n \in NodeArgs(c), w \in WalletArgs(c), ok \in CheckArgs(c) :
        /\ cmd' = [cmd EXCEPT ![p] = c]
        /\ node' = [node EXCEPT ![p] = n]
        /\ wal' = [wal EXCEPT ![p] = w]
        /\ argOk' = [argOk EXCEPT ![p] = ok]
        /\ pc' = [pc EXCEPT ![p] = IF Command[c].bridge THEN "loading" ELSE "run"]
    /\ UNCHANGED <<step, curWallet, exitCode, killed, bridgeVars, store, histVars>>

\* load_wasm: the wasm file or the bridge script is missing, or Popen
\* raises because node is not installed.
LoadMissing(p) ==
    /\ EnvMayFail
    /\ pc[p] = "loading"
    /\ Exit(p, Command[cmd[p]].loadFail)
    /\ UNCHANGED histVars

\* load_wasm: Popen in a new session (os.setsid), atexit.register.
Spawn(p) ==
    /\ pc[p] = "loading"
    /\ pc' = [pc EXCEPT ![p] = "sleep"]
    /\ bridge' = [bridge EXCEPT ![p] = "starting"]
    /\ bnode' = [bnode EXCEPT ![p] = NoNode]
    /\ bwallet' = [bwallet EXCEPT ![p] = NoWallet]
    /\ UNCHANGED <<cmd, node, wal, argOk, step, curWallet, exitCode, killed,
                   port, store, histVars>>

\* After time.sleep(3), GET /api/test answers 404: "WASM bridge ready".
ProbeReady(p) ==
    /\ pc[p] = "sleep"
    /\ Server # NoProc
    /\ pc' = [pc EXCEPT ![p] = "run"]
    /\ readyBy' = [readyBy EXCEPT ![p] = Server]
    /\ UNCHANGED <<cmd, node, wal, argOk, step, curWallet, exitCode, killed,
                   bridgeVars, store, heardFrom, signedBy>>

\* Mutant: load_wasm waits for its bridge to answer instead of polling.
ProbePollWait(p) ==
    /\ pc[p] = "sleep"
    /\ Server = NoProc \/ EnvMayFail
    /\ bridge[p] \notin Alive
    /\ Exit(p, Command[cmd[p]].loadFail)
    /\ UNCHANGED histVars

\* The probe raised or answered otherwise: poll() decides.  A live bridge
\* is "started" and load_wasm returns True; a dead one returns False.
ProbePoll(p) ==
    /\ pc[p] = "sleep"
    /\ Server = NoProc \/ EnvMayFail
    /\ IF bridge[p] \in Alive
         THEN /\ pc' = [pc EXCEPT ![p] = "run"]
              /\ readyBy' = [readyBy EXCEPT ![p] = p]
              /\ UNCHANGED <<cmd, node, wal, argOk, step, curWallet, exitCode,
                             killed, bridgeVars, store, heardFrom, signedBy>>
         ELSE /\ Exit(p, Command[cmd[p]].loadFail)
              /\ UNCHANGED histVars

-----------------------------------------------------------------------------
(* The bridge processes.  A bridge binds port 3333 if it is free, exits   *)
(* when it is taken, and may crash.                                       *)
BridgeBind(b) ==
    /\ bridge[b] = "starting"
    /\ port = NoProc
    /\ bridge' = [bridge EXCEPT ![b] = "serving"]
    /\ port' = b
    /\ UNCHANGED <<procVars, bnode, bwallet, store, histVars>>

BridgePortBusy(b) ==
    /\ bridge[b] = "starting"
    /\ port # NoProc
    /\ bridge' = [bridge EXCEPT ![b] = "dead"]
    /\ UNCHANGED <<procVars, port, bnode, bwallet, store, histVars>>

BridgeCrash(b) ==
    /\ EnvMayFail
    /\ bridge[b] \in Alive
    /\ bridge' = [bridge EXCEPT ![b] = "dead"]
    /\ port' = IF port = b THEN NoProc ELSE port
    /\ UNCHANGED <<procVars, bnode, bwallet, store, histVars>>

-----------------------------------------------------------------------------
(* The operations of a running command, each one _call_wasm and what the  *)
(* ShadowyWASM method does with its answer.  S is whoever serves 3333.    *)

\* create_client (120-141), its first request: the bridge's client is set.
CreateClient(p) ==
    /\ Running(p) /\ CurOp(p) = "create_client" /\ Answerable(p)
    /\ bnode' = [bnode EXCEPT ![Server] = node[p]]
    /\ Advance(p)
    /\ UNCHANGED <<pc, cmd, node, wal, argOk, curWallet, exitCode, killed,
                   bridge, port, bwallet, store, histVars>>

\* test_connection, get_balance (154-164, 166-199), get_node_health
\* (202-228), get_node_info (230-240), get_address_utxos (507-556) and the
\* broadcast (461-502): the bridge asks the node its client names.
NodeRead(p) ==
    /\ Running(p) /\ CurOp(p) \in NodeOps /\ Answerable(p)
    /\ heardFrom' = [heardFrom EXCEPT ![p] = @ \cup {bnode[Server]}]
    /\ Advance(p)
    /\ UNCHANGED <<pc, cmd, node, wal, argOk, curWallet, exitCode, killed,
                   bridgeVars, store, signedBy, readyBy>>

\* Mutant: load_wallet drops its `if "error" in result` check (266-267).
LoadWalletIgnoresError(p) ==
    /\ Running(p) /\ CurOp(p) = "load_wallet" /\ Server # NoProc
    /\ bwallet' = IF wal[p] \in store THEN [bwallet EXCEPT ![Server] = wal[p]]
                                      ELSE bwallet
    /\ curWallet' = [curWallet EXCEPT ![p] = wal[p]]
    /\ Advance(p)
    /\ UNCHANGED <<pc, cmd, node, wal, argOk, exitCode, killed,
                   bridge, port, bnode, store, histVars>>

\* load_wallet (261-280): the bridge loads the wallet, and the CLI keeps
\* its name and address as current_wallet.
LoadWallet(p) ==
    /\ Running(p) /\ CurOp(p) = "load_wallet" /\ Answerable(p)
    /\ bwallet' = [bwallet EXCEPT ![Server] = wal[p]]
    /\ curWallet' = [curWallet EXCEPT ![p] = wal[p]]
    /\ Advance(p)
    /\ UNCHANGED <<pc, cmd, node, wal, argOk, exitCode, killed,
                   bridge, port, bnode, store, histVars>>

\* create_wallet (242-259): the bridge writes the wallet file.
CreateWallet(p) ==
    /\ Running(p) /\ CurOp(p) = "create_wallet" /\ Answerable(p)
    /\ store' = store \cup {wal[p]}
    /\ Advance(p)
    /\ UNCHANGED <<pc, cmd, node, wal, argOk, curWallet, exitCode, killed,
                   bridgeVars, histVars>>

\* sign_transaction (317-338): the bridge signs with its loaded wallet.
Sign(p) ==
    /\ Running(p) /\ CurOp(p) = "sign" /\ Answerable(p)
    /\ signedBy' = [signedBy EXCEPT ![p] = bwallet[Server]]
    /\ Advance(p)
    /\ UNCHANGED <<pc, cmd, node, wal, argOk, curWallet, exitCode, killed,
                   bridgeVars, store, heardFrom, readyBy>>

\* Mutant: an error that is carried on past also skips the next operation.
HandleErrorIgnoreSkips(p) ==
    \/ OnError(p) = "exit" /\ Exit(p, 1)
    \/ OnError(p) = "return" /\ Exit(p, 0)
    \/ /\ OnError(p) \in {"ignore", "skip"}
       /\ step' = [step EXCEPT ![p] = @ + 2]
       /\ UNCHANGED <<pc, cmd, node, wal, argOk, curWallet, exitCode, killed,
                      bridgeVars, store>>

\* The command's reaction to an error result.
HandleError(p) ==
    \/ OnError(p) = "exit" /\ Exit(p, 1)
    \/ OnError(p) = "return" /\ Exit(p, 0)
    \/ /\ OnError(p) \in {"ignore", "skip"}
       /\ step' = [step EXCEPT ![p] = @ + (IF OnError(p) = "skip" THEN 2 ELSE 1)]
       /\ UNCHANGED <<pc, cmd, node, wal, argOk, curWallet, exitCode, killed,
                      bridgeVars, store>>

\* _call_wasm returns {"error": ...}: nothing listens on 3333, the bridge
\* answers non-200 from its state, or the request fails.
CallFails(p) ==
    /\ Running(p) /\ CurOp(p) \in BridgeOps
    /\ ~Answerable(p) \/ EnvMayFail
    /\ HandleError(p)
    /\ UNCHANGED histVars

\* The checks the CLI makes itself: the recipient and the amount of a send
\* (1006-1015), the address of utxos and validate (1216-1220, 579-585);
\* the confirmation of a send (1028-1030); the coin selection of
\* send_transaction (382-391), which may find the funds short.
LocalOk(p) ==
    /\ Running(p) /\ CurOp(p) \in LocalOps
    /\ CurOp(p) = "check" => argOk[p]
    /\ Advance(p)
    /\ UNCHANGED <<pc, cmd, node, wal, argOk, curWallet, exitCode, killed,
                   bridgeVars, store, histVars>>

LocalFail(p) ==
    /\ Running(p) /\ CurOp(p) \in LocalOps
    /\ CurOp(p) = "check" => ~argOk[p]
    /\ HandleError(p)
    /\ UNCHANGED histVars

\* The command's function returns: exit status 0.
Finish(p) ==
    /\ pc[p] = "run" /\ step[p] > Len(Ops(p))
    /\ Exit(p, 0)
    /\ UNCHANGED histVars

\* SIGTERM, SIGHUP or SIGKILL ends the CLI without running atexit; the
\* bridge, in a session of its own, gets no signal.
Kill(p) ==
    /\ MayKill
    /\ pc[p] \in {"loading", "sleep", "run"}
    /\ pc' = [pc EXCEPT ![p] = "exited"]
    /\ killed' = [killed EXCEPT ![p] = TRUE]
    /\ UNCHANGED <<cmd, node, wal, argOk, step, curWallet, exitCode,
                   bridgeVars, store, histVars>>

-----------------------------------------------------------------------------
Init ==
    /\ pc = [p \in Procs |-> "idle"]
    /\ cmd = [p \in Procs |-> NoCmd]
    /\ node = [p \in Procs |-> NoNode]
    /\ wal = [p \in Procs |-> NoWallet]
    /\ argOk = [p \in Procs |-> FALSE]
    /\ step = [p \in Procs |-> 1]
    /\ curWallet = [p \in Procs |-> NoWallet]
    /\ exitCode = [p \in Procs |-> NoExit]
    /\ killed = [p \in Procs |-> FALSE]
    /\ bridge = [p \in Procs |-> "none"]
    /\ port = NoProc
    /\ bnode = [p \in Procs |-> NoNode]
    /\ bwallet = [p \in Procs |-> NoWallet]
    /\ store \in SUBSET Wallets
    /\ heardFrom = [p \in Procs |-> {}]
    /\ signedBy = [p \in Procs |-> NoWallet]
    /\ readyBy = [p \in Procs |-> NoProc]

\* A step of the CLI process p itself.
ProcStep(p) ==
    \/ LoadMissing(p) \/ Spawn(p) \/ ProbeReady(p) \/ ProbePoll(p)
    \/ CreateClient(p) \/ NodeRead(p) \/ LoadWallet(p) \/ CreateWallet(p)
    \/ Sign(p) \/ CallFails(p) \/ LocalOk(p) \/ LocalFail(p) \/ Finish(p)

Next ==
    \E p \in Procs :
        \/ Start(p) \/ ProcStep(p) \/ Kill(p)
        \/ BridgeBind(p) \/ BridgePortBusy(p) \/ BridgeCrash(p)

\* The send command waits in click.confirm (1028) for the user's answer on
\* stdin, with no timeout.
AtPrompt(p) == Running(p) /\ CurOp(p) = "confirm"

\* Each CLI is an OS process the scheduler keeps running, and every request
\* it makes has a timeout; a user need not start a command nor answer the
\* prompt, a signal need not come, a bridge need not ever bind.
Spec ==
    Init /\ [][Next]_vars /\ \A p \in Procs : WF_vars(ProcStep(p) /\ ~AtPrompt(p))

-----------------------------------------------------------------------------
(* Properties.                                                            *)

TypeOK ==
    /\ pc \in [Procs -> {"idle", "loading", "sleep", "run", "exited"}]
    /\ cmd \in [Procs -> Commands \cup {NoCmd}]
    /\ node \in [Procs -> Nodes \cup {NoNode}]
    /\ wal \in [Procs -> Wallets \cup {NoWallet}]
    /\ argOk \in [Procs -> BOOLEAN]
    /\ step \in [Procs -> Nat \ {0}]
    /\ \A p \in Procs : cmd[p] # NoCmd => step[p] <= Len(Ops(p)) + 1
    /\ curWallet \in [Procs -> Wallets \cup {NoWallet}]
    /\ exitCode \in [Procs -> {NoExit, 0, 1}]
    /\ killed \in [Procs -> BOOLEAN]
    /\ bridge \in [Procs -> {"none", "starting", "serving", "dead"}]
    /\ port \in Procs \cup {NoProc}
    /\ bnode \in [Procs -> Nodes \cup {NoNode}]
    /\ bwallet \in [Procs -> Wallets \cup {NoWallet}]
    /\ store \subseteq Wallets
    /\ heardFrom \in [Procs -> SUBSET Nodes]
    /\ signedBy \in [Procs -> Wallets \cup {NoWallet}]
    /\ readyBy \in [Procs -> Procs \cup {NoProc}]

\* Every answer a command receives comes from the node its --node names,
\* and the transaction it sends is signed by the wallet it loaded, whose
\* address send_transaction uses as the sender and the change address.
\* Both rest on state kept in whichever bridge serves port 3333.
SessionIsolation ==
    \A p \in Procs :
        /\ heardFrom[p] \subseteq {node[p]}
        /\ signedBy[p] \in {NoWallet, curWallet[p]}

\* Port 3333 is held by the bridge of a command that is still running, or
\* of one that was killed: _cleanup_bridge frees it on every exit.
PortHeldByLiveCommand ==
    port # NoProc => pc[port] # "exited" \/ killed[port]

\* Every command that starts ends, or waits for the user at the prompt of
\* a send: each request has a timeout, no step of a command is retried,
\* and load_wasm's probe loop is bounded.  After the answer it ends.
CommandEnds ==
    \A p \in Procs : pc[p] # "idle" ~> (pc[p] = "exited" \/ AtPrompt(p))

\* The comment at line 64: a 404 from /api/test "means server is running",
\* the bridge load_wasm has just started.
OwnBridgeReady == \A p \in Procs : readyBy[p] \in {NoProc, p}

=============================================================================
