--------------------------- MODULE CliSessionProofs ---------------------------
(* Proofs about the CLI sessions of CliSession: the types and the port for *)
(* every instance, and session isolation for commands run one at a time.   *)
EXTENDS CliSession, TLAPS

Active == {"loading", "sleep", "run"}

(* TypeOK, and what a process that has not started or not yet run any    *)
(* operation looks like.                                                   *)
TypeInv ==
    /\ TypeOK
    /\ \A p \in Procs : (pc[p] = "idle") = (cmd[p] = NoCmd)
    /\ \A p \in Procs : pc[p] \in {"idle", "loading", "sleep"} => step[p] = 1
    /\ \A p \in Procs : pc[p] # "idle" => wal[p] \in WalletArgs(cmd[p])

(* A bridge lives only while the command that spawned it runs, or after   *)
(* that command was killed; the port is held by a serving bridge.          *)
PortInv ==
    /\ port # NoProc => bridge[port] = "serving"
    /\ \A b \in Procs : bridge[b] \in Alive =>
         pc[b] \in {"sleep", "run"} \/ (pc[b] = "exited" /\ killed[b])

(* With commands one at a time.  OneActive: at most one command is       *)
(* active.  FreshProc: a command that has not reached its operations has   *)
(* no wallet, and one not started has heard nothing.  CleanStarting: a     *)
(* bridge that has not bound the port has no client and no wallet.         *)
(* ClientOfRunning, WalletOfRunning: the bridge on the port has the client *)
(* and the wallet the running command set, if any.                         *)
OneActive == \A p, q \in Procs : pc[p] \in Active /\ pc[q] \in Active => p = q
RunsListed == \A p \in Procs : pc[p] # "idle" => cmd[p] \in RunCommands
FreshProc ==
    \A p \in Procs :
        /\ pc[p] \in {"idle", "loading", "sleep"} => curWallet[p] = NoWallet
        /\ pc[p] = "idle" => heardFrom[p] = {} /\ signedBy[p] = NoWallet
CleanStarting ==
    \A b \in Procs : bridge[b] = "starting" => bnode[b] = NoNode /\ bwallet[b] = NoWallet
ClientOfRunning ==
    \A p \in Procs :
        pc[p] = "run" /\ Command[cmd[p]].bridge /\ step[p] > 1 /\ port # NoProc
          => bnode[port] \in {NoNode, node[p]}
WalletOfRunning ==
    \A p \in Procs :
        pc[p] = "run" /\ curWallet[p] # NoWallet /\ port # NoProc
          => bwallet[port] \in {NoWallet, curWallet[p]}

\* current_wallet is only ever the command's own wallet argument.
OwnWallet == \A p \in Procs : curWallet[p] \in {NoWallet, wal[p]}

IsoInv ==
    /\ OneActive /\ RunsListed /\ FreshProc /\ OwnWallet /\ CleanStarting
    /\ ClientOfRunning /\ WalletOfRunning /\ SessionIsolation

-----------------------------------------------------------------------------
(* The command table.                                                     *)

OpNames == BridgeOps \cup LocalOps
OnErrors == {"exit", "return", "ignore", "skip"}

\* What the proofs use of the table: every command is a list of
\* operations; a "skip" never jumps past the end; the node is asked only
\* by commands that start a bridge and never first; and every such command
\* but test begins with a create_client whose failure exits.
CommandShape(c) ==
    LET o == Command[c].ops IN
    /\ o \in Seq([op : OpNames, onError : OnErrors])
    /\ Command[c].bridge \in BOOLEAN
    /\ Command[c].loadFail \in {0, 1}
    /\ \A k \in 1..Len(o) :
         /\ o[k].onError = "skip" => k + 1 <= Len(o)
         /\ o[k].op \in NodeOps => Command[c].bridge /\ k > 1
    /\ c # "test" /\ Command[c].bridge => o[1] = Op("create_client", "exit")


\* A command with fields b, lf and o has the shape when o does.
LEMMA ShapeOf ==
    ASSUME NEW c, NEW b \in BOOLEAN, NEW lf \in {0, 1},
           NEW o \in Seq([op : OpNames, onError : OnErrors]),
           Command[c].bridge = b, Command[c].loadFail = lf, Command[c].ops = o,
           \A k \in 1..Len(o) :
             /\ o[k].onError = "skip" => k + 1 <= Len(o)
             /\ o[k].op \in NodeOps => b /\ k > 1,
           c # "test" /\ b => o[1] = Op("create_client", "exit")
    PROVE  CommandShape(c)
BY DEF CommandShape

LEMMA CommandShapes == \A c \in Commands : CommandShape(c)
<1> SUFFICES ASSUME NEW c \in Commands PROVE CommandShape(c)
  OBVIOUS
<1>1. CASE c = "balance"
  <2> DEFINE o == <<Op("create_client", "exit"), Op("test_connection", "exit"), Op("get_balance", "exit")>>
  <2>1. Command[c].bridge = TRUE /\ Command[c].loadFail = 1
    BY <1>1 DEF Command, BalanceCmd, WithBridge, Connect
  <2>6. Command[c].ops = o
    BY <1>1 DEF Command, BalanceCmd, WithBridge, Connect
  <2>2. o \in Seq([op : OpNames, onError : OnErrors])
    BY DEF Op, OpNames, OnErrors, BridgeOps, NodeOps, LocalOps
  <2>3. \A k \in 1..Len(o) :
          /\ o[k].onError = "skip" => k + 1 <= Len(o)
          /\ o[k].op \in NodeOps => TRUE /\ k > 1
    BY DEF Op, NodeOps
  <2>4. c # "test" /\ TRUE => o[1] = Op("create_client", "exit")
    BY <1>1
  <2>5. QED
    BY <2>1, <2>6, <2>2, <2>3, <2>4, ShapeOf
<1>2. CASE c = "wallet_create"
  <2> DEFINE o == <<Op("create_wallet", "exit")>>
  <2>1. Command[c].bridge = FALSE /\ Command[c].loadFail = 1
    BY <1>2 DEF Command, WalletCreateCmd, NoBridge
  <2>6. Command[c].ops = o
    BY <1>2 DEF Command, WalletCreateCmd, NoBridge
  <2>2. o \in Seq([op : OpNames, onError : OnErrors])
    BY DEF Op, OpNames, OnErrors, BridgeOps, NodeOps, LocalOps
  <2>3. \A k \in 1..Len(o) :
          /\ o[k].onError = "skip" => k + 1 <= Len(o)
          /\ o[k].op \in NodeOps => FALSE /\ k > 1
    BY DEF Op, NodeOps
  <2>4. c # "test" /\ FALSE => o[1] = Op("create_client", "exit")
    BY <1>2
  <2>5. QED
    BY <2>1, <2>6, <2>2, <2>3, <2>4, ShapeOf
<1>3. CASE c = "wallet_load"
  <2> DEFINE o == <<Op("load_wallet", "exit")>>
  <2>1. Command[c].bridge = FALSE /\ Command[c].loadFail = 1
    BY <1>3 DEF Command, WalletLoadCmd, NoBridge
  <2>6. Command[c].ops = o
    BY <1>3 DEF Command, WalletLoadCmd, NoBridge
  <2>2. o \in Seq([op : OpNames, onError : OnErrors])
    BY DEF Op, OpNames, OnErrors, BridgeOps, NodeOps, LocalOps
  <2>3. \A k \in 1..Len(o) :
          /\ o[k].onError = "skip" => k + 1 <= Len(o)
          /\ o[k].op \in NodeOps => FALSE /\ k > 1
    BY DEF Op, NodeOps
  <2>4. c # "test" /\ FALSE => o[1] = Op("create_client", "exit")
    BY <1>3
  <2>5. QED
    BY <2>1, <2>6, <2>2, <2>3, <2>4, ShapeOf
<1>4. CASE c = "wallet_address"
  <2> DEFINE o == <<Op("load_wallet", "return")>>
  <2>1. Command[c].bridge = FALSE /\ Command[c].loadFail = 1
    BY <1>4 DEF Command, WalletAddressCmd, NoBridge
  <2>6. Command[c].ops = o
    BY <1>4 DEF Command, WalletAddressCmd, NoBridge
  <2>2. o \in Seq([op : OpNames, onError : OnErrors])
    BY DEF Op, OpNames, OnErrors, BridgeOps, NodeOps, LocalOps
  <2>3. \A k \in 1..Len(o) :
          /\ o[k].onError = "skip" => k + 1 <= Len(o)
          /\ o[k].op \in NodeOps => FALSE /\ k > 1
    BY DEF Op, NodeOps
  <2>4. c # "test" /\ FALSE => o[1] = Op("create_client", "exit")
    BY <1>4
  <2>5. QED
    BY <2>1, <2>6, <2>2, <2>3, <2>4, ShapeOf
<1>5. CASE c = "wallet_balance"
  <2> DEFINE o == <<Op("create_client", "exit"), Op("test_connection", "exit"), Op("load_wallet", "exit"), Op("get_balance", "exit")>>
  <2>1. Command[c].bridge = TRUE /\ Command[c].loadFail = 1
    BY <1>5 DEF Command, WalletBalanceCmd, WithBridge, Connect
  <2>6. Command[c].ops = o
    BY <1>5 DEF Command, WalletBalanceCmd, WithBridge, Connect
  <2>2. o \in Seq([op : OpNames, onError : OnErrors])
    BY DEF Op, OpNames, OnErrors, BridgeOps, NodeOps, LocalOps
  <2>3. \A k \in 1..Len(o) :
          /\ o[k].onError = "skip" => k + 1 <= Len(o)
          /\ o[k].op \in NodeOps => TRUE /\ k > 1
    BY DEF Op, NodeOps
  <2>4. c # "test" /\ TRUE => o[1] = Op("create_client", "exit")
    BY <1>5
  <2>5. QED
    BY <2>1, <2>6, <2>2, <2>3, <2>4, ShapeOf
<1>6. CASE c = "send"
  <2> DEFINE o == <<Op("create_client", "exit"), Op("test_connection", "exit"), Op("load_wallet", "exit"), Op("check", "exit"), Op("confirm", "return"), Op("get_utxos", "ignore"), Op("select", "exit"), Op("sign", "exit"), Op("broadcast", "ignore")>>
  <2>1. Command[c].bridge = TRUE /\ Command[c].loadFail = 1
    BY <1>6 DEF Command, SendCmd, WithBridge, Connect
  <2>6. Command[c].ops = o
    BY <1>6 DEF Command, SendCmd, WithBridge, Connect
  <2>2. o \in Seq([op : OpNames, onError : OnErrors])
    BY DEF Op, OpNames, OnErrors, BridgeOps, NodeOps, LocalOps
  <2>3. \A k \in 1..Len(o) :
          /\ o[k].onError = "skip" => k + 1 <= Len(o)
          /\ o[k].op \in NodeOps => TRUE /\ k > 1
    BY DEF Op, NodeOps
  <2>4. c # "test" /\ TRUE => o[1] = Op("create_client", "exit")
    BY <1>6
  <2>5. QED
    BY <2>1, <2>6, <2>2, <2>3, <2>4, ShapeOf
<1>7. CASE c = "health"
  <2> DEFINE o == <<Op("create_client", "exit"), Op("test_connection", "exit"), Op("get_health", "exit")>>
  <2>1. Command[c].bridge = TRUE /\ Command[c].loadFail = 1
    BY <1>7 DEF Command, HealthCmd, WithBridge, Connect
  <2>6. Command[c].ops = o
    BY <1>7 DEF Command, HealthCmd, WithBridge, Connect
  <2>2. o \in Seq([op : OpNames, onError : OnErrors])
    BY DEF Op, OpNames, OnErrors, BridgeOps, NodeOps, LocalOps
  <2>3. \A k \in 1..Len(o) :
          /\ o[k].onError = "skip" => k + 1 <= Len(o)
          /\ o[k].op \in NodeOps => TRUE /\ k > 1
    BY DEF Op, NodeOps
  <2>4. c # "test" /\ TRUE => o[1] = Op("create_client", "exit")
    BY <1>7
  <2>5. QED
    BY <2>1, <2>6, <2>2, <2>3, <2>4, ShapeOf
<1>8. CASE c = "health_detailed"
  <2> DEFINE o == <<Op("create_client", "exit"), Op("test_connection", "exit"), Op("get_node_info", "exit")>>
  <2>1. Command[c].bridge = TRUE /\ Command[c].loadFail = 1
    BY <1>8 DEF Command, HealthDetailedCmd, WithBridge, Connect
  <2>6. Command[c].ops = o
    BY <1>8 DEF Command, HealthDetailedCmd, WithBridge, Connect
  <2>2. o \in Seq([op : OpNames, onError : OnErrors])
    BY DEF Op, OpNames, OnErrors, BridgeOps, NodeOps, LocalOps
  <2>3. \A k \in 1..Len(o) :
          /\ o[k].onError = "skip" => k + 1 <= Len(o)
          /\ o[k].op \in NodeOps => TRUE /\ k > 1
    BY DEF Op, NodeOps
  <2>4. c # "test" /\ TRUE => o[1] = Op("create_client", "exit")
    BY <1>8
  <2>5. QED
    BY <2>1, <2>6, <2>2, <2>3, <2>4, ShapeOf
<1>9. CASE c = "utxos"
  <2> DEFINE o == <<Op("create_client", "exit"), Op("test_connection", "exit"), Op("check", "exit"), Op("get_utxos", "ignore")>>
  <2>1. Command[c].bridge = TRUE /\ Command[c].loadFail = 1
    BY <1>9 DEF Command, UtxosCmd, WithBridge, Connect
  <2>6. Command[c].ops = o
    BY <1>9 DEF Command, UtxosCmd, WithBridge, Connect
  <2>2. o \in Seq([op : OpNames, onError : OnErrors])
    BY DEF Op, OpNames, OnErrors, BridgeOps, NodeOps, LocalOps
  <2>3. \A k \in 1..Len(o) :
          /\ o[k].onError = "skip" => k + 1 <= Len(o)
          /\ o[k].op \in NodeOps => TRUE /\ k > 1
    BY DEF Op, NodeOps
  <2>4. c # "test" /\ TRUE => o[1] = Op("create_client", "exit")
    BY <1>9
  <2>5. QED
    BY <2>1, <2>6, <2>2, <2>3, <2>4, ShapeOf
<1>10. CASE c = "validate"
  <2> DEFINE o == <<Op("create_client", "exit"), Op("test_connection", "exit"), Op("check", "exit")>>
  <2>1. Command[c].bridge = TRUE /\ Command[c].loadFail = 1
    BY <1>10 DEF Command, ValidateCmd, WithBridge, Connect
  <2>6. Command[c].ops = o
    BY <1>10 DEF Command, ValidateCmd, WithBridge, Connect
  <2>2. o \in Seq([op : OpNames, onError : OnErrors])
    BY DEF Op, OpNames, OnErrors, BridgeOps, NodeOps, LocalOps
  <2>3. \A k \in 1..Len(o) :
          /\ o[k].onError = "skip" => k + 1 <= Len(o)
          /\ o[k].op \in NodeOps => TRUE /\ k > 1
    BY DEF Op, NodeOps
  <2>4. c # "test" /\ TRUE => o[1] = Op("create_client", "exit")
    BY <1>10
  <2>5. QED
    BY <2>1, <2>6, <2>2, <2>3, <2>4, ShapeOf
<1>11. CASE c = "test"
  <2> DEFINE o == <<Op("create_client", "skip"), Op("test_connection", "ignore"), Op("test_connection", "ignore")>>
  <2>1. Command[c].bridge = TRUE /\ Command[c].loadFail = 0
    BY <1>11 DEF Command, TestCmd
  <2>6. Command[c].ops = o
    BY <1>11 DEF Command, TestCmd
  <2>2. o \in Seq([op : OpNames, onError : OnErrors])
    BY DEF Op, OpNames, OnErrors, BridgeOps, NodeOps, LocalOps
  <2>3. \A k \in 1..Len(o) :
          /\ o[k].onError = "skip" => k + 1 <= Len(o)
          /\ o[k].op \in NodeOps => TRUE /\ k > 1
    BY DEF Op, NodeOps
  <2>4. c # "test" /\ TRUE => o[1] = Op("create_client", "exit")
    BY <1>11
  <2>5. QED
    BY <2>1, <2>6, <2>2, <2>3, <2>4, ShapeOf
<1>12. QED
  BY <1>1, <1>2, <1>3, <1>4, <1>5, <1>6, <1>7, <1>8, <1>9, <1>10, <1>11 DEF Commands, Command

-----------------------------------------------------------------------------
(* Types.                                                                  *)

\* A started process runs a command of the table.
LEMMA OpsType ==
    ASSUME TypeInv, NEW p \in Procs, pc[p] # "idle"
    PROVE  /\ cmd[p] \in Commands
           /\ Ops(p) \in Seq([op : OpNames, onError : OnErrors])
           /\ Len(Ops(p)) \in Nat
           /\ step[p] \in 1..Len(Ops(p)) + 1
           /\ Command[cmd[p]].bridge \in BOOLEAN
           /\ Command[cmd[p]].loadFail \in {0, 1}
           /\ \A k \in 1..Len(Ops(p)) :
                Ops(p)[k].onError = "skip" => k + 1 <= Len(Ops(p))
<1>1. cmd[p] \in Commands
  BY DEF TypeInv, TypeOK
<1>2. CommandShape(cmd[p])
  BY <1>1, CommandShapes
<1>3. QED
  BY <1>1, <1>2 DEF CommandShape, Ops, TypeInv, TypeOK

\* The exit of a started process keeps the types.
LEMMA ExitTypeInv ==
    ASSUME TypeInv, NEW p \in Procs, pc[p] # "idle", NEW code \in {0, 1},
           Exit(p, code), UNCHANGED histVars
    PROVE  TypeInv'
BY DEF Exit, TypeInv, TypeOK, Ops, NoExit, histVars

\* An operation that moves on to the next one keeps the types.
LEMMA AdvanceTypeInv ==
    ASSUME TypeInv, NEW p \in Procs, Running(p), Advance(p),
           UNCHANGED <<pc, cmd, node, wal, argOk, exitCode, killed, bridge, port>>,
           curWallet' \in [Procs -> Wallets \cup {NoWallet}],
           bnode' \in [Procs -> Nodes \cup {NoNode}],
           bwallet' \in [Procs -> Wallets \cup {NoWallet}],
           store' \subseteq Wallets,
           heardFrom' \in [Procs -> SUBSET Nodes],
           signedBy' \in [Procs -> Wallets \cup {NoWallet}],
           readyBy' \in [Procs -> Procs \cup {NoProc}]
    PROVE  TypeInv'
<1>1. pc[p] = "run" /\ step[p] <= Len(Ops(p))
  BY DEF Running
<1>2. Len(Ops(p)) \in Nat /\ step[p] \in Nat
  BY <1>1, OpsType
<1>3. step' \in [Procs -> Nat \ {0}]
  BY <1>2 DEF Advance, TypeInv, TypeOK
<1>4. \A q \in Procs : cmd'[q] # NoCmd => step'[q] <= Len(Ops(q))' + 1
  BY <1>1, <1>2 DEF Advance, TypeInv, TypeOK, Ops
<1>5. \A q \in Procs : pc'[q] \in {"idle", "loading", "sleep"} => step'[q] = 1
  BY <1>1 DEF Advance, TypeInv
<1>6. QED
  BY <1>3, <1>4, <1>5 DEF TypeInv, TypeOK

\* The reaction to an error keeps the types.
LEMMA HandleErrorTypeInv ==
    ASSUME TypeInv, NEW p \in Procs, Running(p), HandleError(p),
           UNCHANGED <<heardFrom, signedBy, readyBy>>
    PROVE  TypeInv'
<1>1. pc[p] = "run" /\ step[p] <= Len(Ops(p)) /\ step[p] \in 1..Len(Ops(p))
  BY OpsType DEF Running
<1>2. CASE OnError(p) = "exit" /\ Exit(p, 1)
  BY <1>1, <1>2 DEF Exit, TypeInv, TypeOK, Ops, NoExit
<1>3. CASE OnError(p) = "return" /\ Exit(p, 0)
  BY <1>1, <1>3 DEF Exit, TypeInv, TypeOK, Ops, NoExit
<1>4. CASE /\ OnError(p) \in {"ignore", "skip"}
           /\ step' = [step EXCEPT ![p] = @ + (IF OnError(p) = "skip" THEN 2 ELSE 1)]
           /\ UNCHANGED <<pc, cmd, node, wal, argOk, curWallet, exitCode, killed,
                          bridgeVars, store>>
  <2>1. Len(Ops(p)) \in Nat
    BY <1>1, OpsType
  <2>2. OnError(p) = "skip" => step[p] + 1 <= Len(Ops(p))
    BY <1>1, OpsType DEF OnError
  <2>3. QED
    BY <1>1, <1>4, <2>1, <2>2 DEF TypeInv, TypeOK, Ops, bridgeVars
<1>5. QED
  BY <1>2, <1>3, <1>4 DEF HandleError

LEMMA InitTypeInv == Init => TypeInv
<1> SUFFICES ASSUME Init PROVE TypeInv
  OBVIOUS
<1>1. NoCmd \notin Commands
  BY DEF NoCmd, Commands, Command
<1>2. QED
  BY <1>1 DEF Init, TypeInv, TypeOK, NoExit

LEMMA StepTypeInv == TypeInv /\ [Next]_vars => TypeInv'
<1> SUFFICES ASSUME TypeInv, [Next]_vars PROVE TypeInv'
  OBVIOUS
<1>1. ASSUME NEW p \in Procs, Start(p) PROVE TypeInv'
  <2>1. PICK c \in RunCommands :
          \E n \in NodeArgs(c), w \in WalletArgs(c), ok \in CheckArgs(c) :
            /\ cmd' = [cmd EXCEPT ![p] = c]
            /\ node' = [node EXCEPT ![p] = n]
            /\ wal' = [wal EXCEPT ![p] = w]
            /\ argOk' = [argOk EXCEPT ![p] = ok]
            /\ pc' = [pc EXCEPT ![p] = IF Command[c].bridge THEN "loading" ELSE "run"]
    BY <1>1 DEF Start
  <2>2. c \in Commands /\ c # NoCmd
    BY <2>1, CommandsAssumption DEF NoCmd, Commands, Command
  <2>3. Len(Command[c].ops) \in Nat
    BY <2>2, CommandShapes DEF CommandShape
  <2>4. NodeArgs(c) \subseteq Nodes \cup {NoNode} /\ WalletArgs(c) \subseteq Wallets \cup {NoWallet}
        /\ CheckArgs(c) \subseteq BOOLEAN
    BY SessionAssumption DEF NodeArgs, WalletArgs, CheckArgs
  <2>5. pc[p] = "idle" /\ step[p] = 1
    BY <1>1 DEF Start, TypeInv
  <2>6. QED
    BY <1>1, <2>1, <2>2, <2>3, <2>4, <2>5 DEF Start, TypeInv, TypeOK, Ops,
       bridgeVars, histVars
<1>2. ASSUME NEW p \in Procs, LoadMissing(p) PROVE TypeInv'
  BY <1>2, OpsType, ExitTypeInv DEF LoadMissing
<1>3. ASSUME NEW p \in Procs, Spawn(p) PROVE TypeInv'
  BY <1>3 DEF Spawn, TypeInv, TypeOK, Ops, histVars
<1>4. ASSUME NEW p \in Procs, ProbeReady(p) PROVE TypeInv'
  BY <1>4 DEF ProbeReady, TypeInv, TypeOK, Ops, Server, bridgeVars
<1>5. ASSUME NEW p \in Procs, ProbePoll(p) PROVE TypeInv'
  <2>1. CASE bridge[p] \in Alive
    <3>1. /\ pc[p] = "sleep" /\ pc' = [pc EXCEPT ![p] = "run"]
          /\ readyBy' = [readyBy EXCEPT ![p] = p]
          /\ UNCHANGED <<cmd, node, wal, argOk, step, curWallet, exitCode,
                         killed, bridgeVars, store, heardFrom, signedBy>>
      BY <1>5, <2>1 DEF ProbePoll
    <3>2. QED
      BY <3>1 DEF TypeInv, TypeOK, Ops, bridgeVars
  <2>2. CASE bridge[p] \notin Alive
    BY <1>5, <2>2, OpsType, ExitTypeInv DEF ProbePoll
  <2>3. QED
    BY <2>1, <2>2
<1>6. ASSUME NEW p \in Procs, CreateClient(p) PROVE TypeInv'
  <2>1. Server \in Procs
    BY <1>6 DEF CreateClient, Answerable, TypeInv, TypeOK, Server
  <2>2. node[p] \in Nodes \cup {NoNode}
    BY DEF TypeInv, TypeOK
  <2>3. QED
    BY <1>6, <2>1, <2>2, AdvanceTypeInv DEF CreateClient, TypeInv, TypeOK, histVars
<1>7. ASSUME NEW p \in Procs, NodeRead(p) PROVE TypeInv'
  <2>1. Server \in Procs /\ bnode[Server] \in Nodes
    BY <1>7 DEF NodeRead, Answerable, TypeInv, TypeOK, Server
  <2>2. QED
    BY <1>7, <2>1, AdvanceTypeInv DEF NodeRead, TypeInv, TypeOK, bridgeVars
<1>8. ASSUME NEW p \in Procs, LoadWallet(p) PROVE TypeInv'
  <2>1. Server \in Procs /\ wal[p] \in Wallets \cup {NoWallet}
    BY <1>8 DEF LoadWallet, Answerable, TypeInv, TypeOK, Server
  <2>2. QED
    BY <1>8, <2>1, AdvanceTypeInv DEF LoadWallet, TypeInv, TypeOK, histVars
<1>9. ASSUME NEW p \in Procs, CreateWallet(p) PROVE TypeInv'
  <2>1. wal[p] \in Wallets
    <3>1. Running(p) /\ CurOp(p) = "create_wallet"
      BY <1>9 DEF CreateWallet
    <3>2. step[p] \in DOMAIN Command[cmd[p]].ops
      BY <3>1, OpsType DEF Running, Ops
    <3>3. UsesOp(cmd[p], "create_wallet")
      BY <3>1, <3>2 DEF UsesOp, CurOp, Ops
    <3>4. QED
      BY <3>1, <3>3 DEF Running, TypeInv, WalletArgs
  <2>2. QED
    BY <1>9, <2>1, AdvanceTypeInv DEF CreateWallet, TypeInv, TypeOK, histVars,
       bridgeVars
<1>10. ASSUME NEW p \in Procs, Sign(p) PROVE TypeInv'
  <2>1. Server \in Procs
    BY <1>10 DEF Sign, Answerable, TypeInv, TypeOK, Server
  <2>2. QED
    BY <1>10, <2>1, AdvanceTypeInv DEF Sign, TypeInv, TypeOK, bridgeVars
<1>11. ASSUME NEW p \in Procs, CallFails(p) PROVE TypeInv'
  BY <1>11, HandleErrorTypeInv DEF CallFails, TypeInv, TypeOK, histVars
<1>12. ASSUME NEW p \in Procs, LocalOk(p) PROVE TypeInv'
  BY <1>12, AdvanceTypeInv DEF LocalOk, TypeInv, TypeOK, histVars, bridgeVars
<1>13. ASSUME NEW p \in Procs, LocalFail(p) PROVE TypeInv'
  BY <1>13, HandleErrorTypeInv DEF LocalFail, TypeInv, TypeOK, histVars
<1>14. ASSUME NEW p \in Procs, Finish(p) PROVE TypeInv'
  BY <1>14, ExitTypeInv DEF Finish
<1>15. ASSUME NEW p \in Procs, Kill(p) PROVE TypeInv'
  BY <1>15 DEF Kill, TypeInv, TypeOK, Ops, bridgeVars, histVars
<1>16. ASSUME NEW b \in Procs, BridgeBind(b) \/ BridgePortBusy(b) \/ BridgeCrash(b)
       PROVE TypeInv'
  <2>1. /\ UNCHANGED <<procVars, bnode, bwallet, store, histVars>>
        /\ bridge' \in [Procs -> {"none", "starting", "serving", "dead"}]
        /\ port' \in Procs \cup {NoProc}
    BY <1>16 DEF BridgeBind, BridgePortBusy, BridgeCrash, TypeInv, TypeOK
  <2>2. QED
    BY <2>1 DEF TypeInv, TypeOK, Ops, procVars, histVars
<1>17. CASE UNCHANGED vars
  BY <1>17 DEF vars, procVars, bridgeVars, histVars, TypeInv, TypeOK, Ops
<1>18. QED
  BY <1>1, <1>2, <1>3, <1>4, <1>5, <1>6, <1>7, <1>8, <1>9, <1>10, <1>11,
     <1>12, <1>13, <1>14, <1>15, <1>16, <1>17 DEF Next, ProcStep
IInv == TypeInv /\ PortInv

-----------------------------------------------------------------------------
(* The port.                                                               *)

\* _cleanup_bridge on exit: the process's own bridge is dead afterwards.
LEMMA ExitPortInv ==
    ASSUME TypeInv, PortInv, NEW p \in Procs, NEW code, Exit(p, code)
    PROVE  PortInv'
BY DEF Exit, TypeInv, TypeOK, PortInv, Alive

LEMMA InitPortInv == Init => PortInv
BY DEF Init, PortInv, Alive

LEMMA StepPortInv == TypeInv /\ PortInv /\ [Next]_vars => PortInv'
<1> SUFFICES ASSUME TypeInv, PortInv, [Next]_vars PROVE PortInv'
  OBVIOUS
<1>1. ASSUME NEW p \in Procs, Start(p) PROVE PortInv'
  <2>1. /\ UNCHANGED <<bridgeVars, killed>> /\ pc[p] = "idle"
        /\ \A q \in Procs \ {p} : pc'[q] = pc[q]
    BY <1>1 DEF Start, TypeInv, TypeOK
  <2>2. bridge[p] \notin Alive
    BY <2>1 DEF PortInv
  <2>3. QED
    BY <2>1, <2>2 DEF PortInv, bridgeVars
<1>2. ASSUME NEW p \in Procs,
             \/ LoadMissing(p) \/ Finish(p)
             \/ (ProbePoll(p) /\ bridge[p] \notin Alive)
      PROVE  PortInv'
  BY <1>2, ExitPortInv DEF LoadMissing, Finish, ProbePoll
<1>3. ASSUME NEW p \in Procs, Spawn(p) PROVE PortInv'
  BY <1>3 DEF Spawn, PortInv, Alive, TypeInv, TypeOK
<1>4. ASSUME NEW p \in Procs,
             ProbeReady(p) \/ (ProbePoll(p) /\ bridge[p] \in Alive)
      PROVE  PortInv'
  BY <1>4 DEF ProbeReady, ProbePoll, PortInv, Alive, bridgeVars, TypeInv, TypeOK
<1>5. ASSUME NEW p \in Procs,
             \/ CreateClient(p) \/ NodeRead(p) \/ LoadWallet(p)
             \/ CreateWallet(p) \/ Sign(p) \/ LocalOk(p)
      PROVE  PortInv'
  BY <1>5 DEF CreateClient, NodeRead, LoadWallet, CreateWallet, Sign, LocalOk,
     PortInv, bridgeVars
<1>6. ASSUME NEW p \in Procs, CallFails(p) \/ LocalFail(p) PROVE PortInv'
  <2>1. HandleError(p)
    BY <1>6 DEF CallFails, LocalFail
  <2>2. CASE Exit(p, 1) \/ Exit(p, 0)
    BY <2>2, ExitPortInv
  <2>3. CASE UNCHANGED <<pc, killed, bridgeVars>>
    BY <2>3 DEF PortInv, bridgeVars
  <2>4. QED
    BY <2>1, <2>2, <2>3 DEF HandleError
<1>7. ASSUME NEW p \in Procs, Kill(p) PROVE PortInv'
  BY <1>7 DEF Kill, PortInv, bridgeVars, TypeInv, TypeOK
<1>8. ASSUME NEW b \in Procs, BridgeBind(b) PROVE PortInv'
  BY <1>8 DEF BridgeBind, PortInv, Alive, procVars, TypeInv, TypeOK
<1>9. ASSUME NEW b \in Procs, BridgePortBusy(b) \/ BridgeCrash(b) PROVE PortInv'
  BY <1>9 DEF BridgePortBusy, BridgeCrash, PortInv, Alive, procVars, TypeInv, TypeOK
<1>10. CASE UNCHANGED vars
  BY <1>10 DEF vars, procVars, bridgeVars, PortInv
<1>11. QED
  BY <1>1, <1>2, <1>3, <1>4, <1>5, <1>6, <1>7, <1>8, <1>9, <1>10 DEF Next, ProcStep

LEMMA InitIInv == Init => IInv
BY InitTypeInv, InitPortInv DEF IInv

LEMMA StepIInv == IInv /\ [Next]_vars => IInv'
BY StepTypeInv, StepPortInv DEF IInv

\* Every variable of the CLI sessions keeps its type, for every set of
\* processes, nodes, wallets and commands: in particular a command never
\* steps past the end of its list of operations, whatever its error
\* handling skips.
THEOREM TypeCorrect == Spec => []TypeOK
<1>1. IInv => TypeOK
  BY DEF IInv, TypeInv
<1>2. QED
  BY <1>1, InitIInv, StepIInv, PTL DEF Spec

\* _cleanup_bridge (85-101), run by atexit on every exit of a command that
\* spawned a bridge, frees port 3333: the port is held only by the bridge
\* of a command still running or killed by a signal.  For every instance,
\* with commands overlapping or not.
THEOREM PortHeldThm == Spec => []PortHeldByLiveCommand
<1>1. IInv => PortHeldByLiveCommand
  BY DEF IInv, PortInv, PortHeldByLiveCommand, Alive, TypeInv, TypeOK
<1>2. QED
  BY <1>1, InitIInv, StepIInv, PTL DEF Spec

IsoIInv == IInv /\ IsoInv

-----------------------------------------------------------------------------
(* Session isolation.  It holds when commands run one after another and   *)
(* test, whose failed create_client is carried on past, is not among them: *)
(* the runs session_shared_bridge and the test command show that neither   *)
(* hypothesis can be dropped.                                              *)

OneAtATime == ~Overlap /\ "test" \notin RunCommands

\* The first operation of a running command that starts a bridge is a
\* create_client whose failure exits, and the node is asked only later.
LEMMA FirstOpConnects ==
    ASSUME OneAtATime, IInv, IsoInv, NEW p \in Procs, Running(p)
    PROVE  /\ Command[cmd[p]].bridge /\ step[p] = 1 =>
                CurOp(p) = "create_client" /\ OnError(p) = "exit"
           /\ CurOp(p) \in NodeOps => Command[cmd[p]].bridge /\ step[p] > 1
<1>1. cmd[p] \in RunCommands /\ cmd[p] # "test"
  BY DEF Running, IsoInv, RunsListed, OneAtATime
<1>2. CommandShape(cmd[p])
  BY <1>1, CommandsAssumption, CommandShapes
<1>3. step[p] \in 1..Len(Ops(p))
  BY OpsType DEF Running, IInv
<1>4. QED
  BY <1>1, <1>2, <1>3 DEF CommandShape, CurOp, OnError, Ops, Op

LEMMA InitIsoInv == Init => IsoInv
BY DEF Init, IsoInv, OneActive, RunsListed, FreshProc, OwnWallet, CleanStarting,
       ClientOfRunning, WalletOfRunning, SessionIsolation, Active

\* An exit, a kill or a failed operation of the active command.
LEMMA QuietStepIsoInv ==
    ASSUME IInv, IsoInv, NEW p \in Procs, pc[p] \in Active,
           pc' = [pc EXCEPT ![p] = "exited"] \/ UNCHANGED pc,
           UNCHANGED <<cmd, node, wal, curWallet, bnode, bwallet, heardFrom, signedBy>>,
           \A b \in Procs : bridge'[b] = "starting" => bridge[b] = "starting",
           port' \in {port, NoProc},
           UNCHANGED pc => step[p] > 1 \/ ~Command[cmd[p]].bridge
    PROVE  IsoInv'
<1>1. pc \in [Procs -> {"idle", "loading", "sleep", "run", "exited"}]
      /\ step \in [Procs -> Nat \ {0}]
  BY DEF IInv, TypeInv, TypeOK
<1>2. \A q \in Procs : pc'[q] = pc[q] \/ (q = p /\ pc'[q] = "exited")
  BY <1>1
<1>3. OneActive' /\ RunsListed' /\ FreshProc' /\ OwnWallet' /\ CleanStarting'
  BY <1>2 DEF IsoInv, OneActive, RunsListed, FreshProc, OwnWallet, CleanStarting, Active
<1>4. ClientOfRunning'
  <2> SUFFICES ASSUME NEW q \in Procs, pc'[q] = "run", Command[cmd[q]].bridge,
                      step'[q] > 1, port' # NoProc
               PROVE  bnode[port'] \in {NoNode, node[q]}
    BY DEF ClientOfRunning
  <2>1. pc[q] = "run" /\ port' = port
    BY <1>2
  <2>2. CASE UNCHANGED pc
    <3>1. step[q] > 1
      BY <2>2, <1>1 DEF Active, OneActive, IsoInv
    <3>2. QED
      BY <2>1, <3>1 DEF IsoInv, ClientOfRunning
  <2>3. CASE pc' = [pc EXCEPT ![p] = "exited"]
    \* q was running before, so q is p, which has exited.
    BY <2>1, <2>3, <1>1 DEF Active, OneActive, IsoInv
  <2>4. QED
    BY <2>2, <2>3
<1>5. WalletOfRunning' /\ SessionIsolation'
  BY <1>2 DEF IsoInv, WalletOfRunning, SessionIsolation
<1>6. QED
  BY <1>3, <1>4, <1>5 DEF IsoInv
\* An operation of the running command p that succeeds and moves on: the
\* bridge on the port keeps p's client and wallet, and p hears only from
\* its node and signs only with its wallet.
LEMMA OpStepIsoInv ==
    ASSUME IInv, IsoInv, NEW p \in Procs, Running(p),
           UNCHANGED <<pc, cmd, node, wal, bridge, port>>,
           step' = [step EXCEPT ![p] = @ + 1],
           \A q \in Procs \ {p} : /\ curWallet'[q] = curWallet[q]
                                  /\ heardFrom'[q] = heardFrom[q]
                                  /\ signedBy'[q] = signedBy[q],
           \A b \in Procs \ {port} : bnode'[b] = bnode[b] /\ bwallet'[b] = bwallet[b],
           port # NoProc /\ Command[cmd[p]].bridge => bnode'[port] \in {NoNode, node[p]},
           port # NoProc /\ curWallet'[p] # NoWallet =>
             bwallet'[port] \in {NoWallet, curWallet'[p]},
           curWallet'[p] \in {curWallet[p], wal[p]},
           heardFrom'[p] \subseteq {node[p]},
           signedBy'[p] \in {NoWallet, curWallet'[p]}
    PROVE  IsoInv'
<1>1. /\ pc \in [Procs -> {"idle", "loading", "sleep", "run", "exited"}]
      /\ port \in Procs \cup {NoProc}
      /\ port # NoProc => bridge[port] = "serving"
      /\ pc[p] = "run"
  BY DEF IInv, TypeInv, TypeOK, PortInv, Running
<1>2. \A q \in Procs : pc[q] = "run" => q = p
  BY <1>1 DEF IsoInv, OneActive, Active
<1>3. OneActive' /\ RunsListed'
  BY DEF IsoInv, OneActive, RunsListed
<1>4. FreshProc' /\ OwnWallet'
  BY <1>1 DEF IsoInv, FreshProc, OwnWallet
<1>5. CleanStarting'
  <2>1. SUFFICES ASSUME NEW b \in Procs, bridge'[b] = "starting"
                 PROVE  bnode'[b] = NoNode /\ bwallet'[b] = NoWallet
    BY DEF CleanStarting
  <2>2. b # port /\ bridge[b] = "starting"
    BY <1>1, <2>1, SessionAssumption
  <2>3. QED
    BY <2>2 DEF IsoInv, CleanStarting
<1>6. ClientOfRunning'
  BY <1>1, <1>2 DEF ClientOfRunning
<1>7. WalletOfRunning'
  BY <1>1, <1>2 DEF WalletOfRunning
<1>8. SessionIsolation'
  BY <1>1, <1>2 DEF IsoInv, SessionIsolation
<1>9. QED
  BY <1>3, <1>4, <1>5, <1>6, <1>7, <1>8 DEF IsoInv

LEMMA StepIsoInv ==
    ASSUME OneAtATime
    PROVE  IInv /\ IsoInv /\ [Next]_vars => IsoInv'
<1> SUFFICES ASSUME IInv, IsoInv, [Next]_vars PROVE IsoInv'
  OBVIOUS
<1>0. /\ pc \in [Procs -> {"idle", "loading", "sleep", "run", "exited"}]
      /\ step \in [Procs -> Nat \ {0}]
      /\ port \in Procs \cup {NoProc}
      /\ port # NoProc => bridge[port] = "serving"
  BY DEF IInv, TypeInv, TypeOK, PortInv
<1>1. ASSUME NEW p \in Procs, Start(p) PROVE IsoInv'
  <2>1. \A q \in Procs : pc[q] \in {"idle", "exited"}
    BY <1>1 DEF Start, OneAtATime
  <2>2. PICK c \in RunCommands :
          \E n \in NodeArgs(c), w \in WalletArgs(c), ok \in CheckArgs(c) :
            /\ cmd' = [cmd EXCEPT ![p] = c]
            /\ node' = [node EXCEPT ![p] = n]
            /\ pc' = [pc EXCEPT ![p] = IF Command[c].bridge THEN "loading" ELSE "run"]
    BY <1>1 DEF Start
  <2>3. /\ pc[p] = "idle" /\ step[p] = 1
        /\ UNCHANGED <<step, curWallet, bridgeVars, histVars>>
    BY <1>1 DEF Start, IInv, TypeInv
  <2>4. \A q \in Procs \ {p} : pc'[q] = pc[q] /\ cmd'[q] = cmd[q] /\ node'[q] = node[q]
    BY <2>2, <1>0 DEF IInv, TypeInv, TypeOK
  <2>5. pc'[p] \in Active /\ cmd'[p] = c
        /\ (pc'[p] = "run" => ~Command[cmd'[p]].bridge)
    BY <2>2, <1>0 DEF Active, IInv, TypeInv, TypeOK
  <2>6. OneActive'
    BY <2>1, <2>4, <2>5 DEF OneActive, Active
  <2>11. RunsListed'
    BY <2>4, <2>5 DEF IsoInv, RunsListed
  <2>7. FreshProc' /\ SessionIsolation'
    BY <2>3, <2>4, <2>5 DEF IsoInv, FreshProc, SessionIsolation, Active,
       bridgeVars, histVars
  <2>12. OwnWallet'
    <3>1. \A q \in Procs \ {p} : wal'[q] = wal[q]
      BY <1>1, <1>0 DEF Start, IInv, TypeInv, TypeOK
    <3>2. curWallet[p] = NoWallet
      BY <2>3 DEF IsoInv, FreshProc
    <3>3. QED
      BY <2>3, <3>1, <3>2 DEF IsoInv, OwnWallet
  <2>8. CleanStarting'
    BY <2>3 DEF IsoInv, CleanStarting, bridgeVars
  <2>9. ClientOfRunning' /\ WalletOfRunning'
    BY <2>1, <2>3, <2>4, <2>5 DEF IsoInv, FreshProc, ClientOfRunning,
       WalletOfRunning, bridgeVars, histVars
  <2>10. QED
    BY <2>6, <2>11, <2>7, <2>12, <2>8, <2>9 DEF IsoInv
<1>2. ASSUME NEW p \in Procs,
             \/ LoadMissing(p) \/ Finish(p)
             \/ (ProbePoll(p) /\ bridge[p] \notin Alive)
      PROVE  IsoInv'
  <2>1. PICK code : Exit(p, code) /\ UNCHANGED histVars
    BY <1>2 DEF LoadMissing, Finish, ProbePoll
  <2>2. pc[p] \in Active
    BY <1>2 DEF LoadMissing, Finish, ProbePoll, Active
  <2>3. /\ pc' = [pc EXCEPT ![p] = "exited"]
        /\ UNCHANGED <<cmd, node, wal, curWallet, bnode, bwallet, heardFrom, signedBy>>
        /\ port' \in {port, NoProc}
    BY <2>1 DEF Exit, histVars
  <2>4. \A b \in Procs : bridge'[b] = "starting" => bridge[b] = "starting"
    BY <2>1 DEF Exit
  <2>5. pc' # pc
    BY <1>0, <2>2, <2>3 DEF Active
  <2>6. QED
    BY <2>2, <2>3, <2>4, <2>5, QuietStepIsoInv
<1>3. ASSUME NEW p \in Procs, Spawn(p) PROVE IsoInv'
  <2>1. /\ pc[p] = "loading" /\ pc' = [pc EXCEPT ![p] = "sleep"]
        /\ bridge' = [bridge EXCEPT ![p] = "starting"]
        /\ bnode' = [bnode EXCEPT ![p] = NoNode]
        /\ bwallet' = [bwallet EXCEPT ![p] = NoWallet]
        /\ UNCHANGED <<cmd, node, wal, step, curWallet, port, heardFrom, signedBy>>
    BY <1>3 DEF Spawn, histVars
  <2>2. \A q \in Procs : (pc'[q] \in Active) = (pc[q] \in Active)
                         /\ (pc'[q] = "idle") = (pc[q] = "idle")
                         /\ (pc'[q] = "run") = (pc[q] = "run")
    BY <1>0, <2>1 DEF Active
  <2>3. curWallet[p] = NoWallet
    BY <2>1 DEF IsoInv, FreshProc
  <2>4. OneActive' /\ RunsListed' /\ SessionIsolation'
    BY <2>1, <2>2 DEF IsoInv, OneActive, RunsListed, SessionIsolation
  <2>5. FreshProc'
    BY <1>0, <2>1, <2>3 DEF IsoInv, FreshProc
  <2>9. OwnWallet'
    BY <2>1 DEF IsoInv, OwnWallet
  <2>6. CleanStarting'
    BY <1>0, <2>1 DEF IsoInv, CleanStarting, IInv, TypeInv, TypeOK
  \* The port is not p's: p's bridge was not alive while p was loading.
  <2>10. port # NoProc => bnode'[port] = bnode[port] /\ bwallet'[port] = bwallet[port]
    <3>1. port # NoProc => port # p
      BY <1>0, <2>1 DEF IInv, PortInv, Alive
    <3>2. QED
      BY <1>0, <2>1, <3>1 DEF IInv, TypeInv, TypeOK
  <2>7. ClientOfRunning' /\ WalletOfRunning'
    BY <2>1, <2>2, <2>10 DEF IsoInv, ClientOfRunning, WalletOfRunning
  <2>8. QED
    BY <2>4, <2>5, <2>9, <2>6, <2>7 DEF IsoInv
<1>4. ASSUME NEW p \in Procs,
             ProbeReady(p) \/ (ProbePoll(p) /\ bridge[p] \in Alive)
      PROVE  IsoInv'
  <2>1. /\ pc[p] = "sleep" /\ pc' = [pc EXCEPT ![p] = "run"]
        /\ UNCHANGED <<cmd, node, wal, step, curWallet, bridgeVars, heardFrom, signedBy>>
    BY <1>4 DEF ProbeReady, ProbePoll
  <2>2. step[p] = 1 /\ curWallet[p] = NoWallet
    BY <2>1 DEF IInv, TypeInv, IsoInv, FreshProc
  <2>3. QED
    BY <1>0, <2>1, <2>2 DEF IsoInv, OneActive, RunsListed, FreshProc, OwnWallet,
       CleanStarting, ClientOfRunning, WalletOfRunning, SessionIsolation, Active,
       bridgeVars
<1>5. ASSUME NEW p \in Procs, Kill(p) PROVE IsoInv'
  BY <1>0, <1>5, QuietStepIsoInv DEF Kill, Active, bridgeVars, histVars
<1>6. ASSUME NEW b \in Procs, BridgeBind(b) PROVE IsoInv'
  BY <1>0, <1>6 DEF BridgeBind, IsoInv, OneActive, RunsListed, FreshProc, OwnWallet,
     CleanStarting, ClientOfRunning, WalletOfRunning, SessionIsolation, procVars,
     histVars
<1>7. ASSUME NEW b \in Procs, BridgePortBusy(b) \/ BridgeCrash(b) PROVE IsoInv'
  <2>1. /\ UNCHANGED <<procVars, bnode, bwallet, histVars>>
        /\ bridge' = [bridge EXCEPT ![b] = "dead"]
        /\ port' \in {port, NoProc}
    BY <1>7 DEF BridgePortBusy, BridgeCrash
  <2>2. UNCHANGED <<pc, cmd, node, wal, step, curWallet, heardFrom, signedBy>>
    BY <2>1 DEF procVars, histVars
  <2>3. OneActive' /\ RunsListed' /\ FreshProc' /\ OwnWallet' /\ SessionIsolation'
    BY <2>2 DEF IsoInv, OneActive, RunsListed, FreshProc, OwnWallet, SessionIsolation
  <2>4. CleanStarting'
    BY <1>0, <2>1 DEF IsoInv, CleanStarting, IInv, TypeInv, TypeOK
  <2>5. ClientOfRunning' /\ WalletOfRunning'
    BY <2>1, <2>2 DEF IsoInv, ClientOfRunning, WalletOfRunning
  <2>6. QED
    BY <2>3, <2>4, <2>5 DEF IsoInv
<1>8. CASE UNCHANGED vars
  BY <1>8 DEF vars, procVars, bridgeVars, histVars, IsoInv, OneActive, RunsListed,
     FreshProc, OwnWallet, CleanStarting, ClientOfRunning, WalletOfRunning,
     SessionIsolation
<1>9. ASSUME NEW p \in Procs, CreateClient(p) PROVE IsoInv'
  <2>1. /\ Running(p) /\ port # NoProc
        /\ bnode' = [bnode EXCEPT ![port] = node[p]]
        /\ UNCHANGED <<pc, cmd, node, wal, bridge, port, curWallet, bwallet,
                       heardFrom, signedBy>>
        /\ step' = [step EXCEPT ![p] = @ + 1]
    BY <1>9 DEF CreateClient, Answerable, Server, Advance, histVars
  <2>2. bnode'[port] = node[p] /\ \A b \in Procs \ {port} : bnode'[b] = bnode[b]
    BY <2>1, <1>0 DEF IInv, TypeInv, TypeOK
  <2>3. port # NoProc /\ curWallet[p] # NoWallet =>
          bwallet[port] \in {NoWallet, curWallet[p]}
    BY <2>1 DEF IsoInv, WalletOfRunning, Running
  <2>4. heardFrom[p] \subseteq {node[p]} /\ signedBy[p] \in {NoWallet, curWallet[p]}
    BY DEF IsoInv, SessionIsolation
  <2>5. QED
    BY <2>1, <2>2, <2>3, <2>4, OpStepIsoInv
<1>10. ASSUME NEW p \in Procs, NodeRead(p) PROVE IsoInv'
  <2>1. /\ Running(p) /\ CurOp(p) \in NodeOps /\ port # NoProc /\ bnode[port] # NoNode
        /\ heardFrom' = [heardFrom EXCEPT ![p] = @ \cup {bnode[port]}]
        /\ UNCHANGED <<pc, cmd, node, wal, curWallet, bridge, port, bnode, bwallet,
                       signedBy>>
        /\ step' = [step EXCEPT ![p] = @ + 1]
    BY <1>10 DEF NodeRead, Answerable, Server, Advance, bridgeVars
  <2>2. Command[cmd[p]].bridge /\ step[p] > 1
    BY <2>1, FirstOpConnects
  \* The bridge on the port has p's client: p's node answers.
  <2>3. bnode[port] = node[p]
    BY <2>1, <2>2 DEF IsoInv, ClientOfRunning, Running
  <2>4. /\ heardFrom'[p] \subseteq {node[p]}
        /\ \A q \in Procs \ {p} : heardFrom'[q] = heardFrom[q]
    BY <2>1, <2>3 DEF IsoInv, SessionIsolation, IInv, TypeInv, TypeOK
  <2>5. port # NoProc /\ curWallet[p] # NoWallet =>
          bwallet[port] \in {NoWallet, curWallet[p]}
    BY <2>1 DEF IsoInv, WalletOfRunning, Running
  <2>6. signedBy[p] \in {NoWallet, curWallet[p]}
    BY DEF IsoInv, SessionIsolation
  <2>7. QED
    BY <2>1, <2>3, <2>4, <2>5, <2>6, OpStepIsoInv
<1>11. ASSUME NEW p \in Procs, LoadWallet(p) PROVE IsoInv'
  <2>1. /\ Running(p) /\ CurOp(p) = "load_wallet" /\ port # NoProc
        /\ bwallet' = [bwallet EXCEPT ![port] = wal[p]]
        /\ curWallet' = [curWallet EXCEPT ![p] = wal[p]]
        /\ UNCHANGED <<pc, cmd, node, wal, bridge, port, bnode, heardFrom, signedBy>>
        /\ step' = [step EXCEPT ![p] = @ + 1]
    BY <1>11 DEF LoadWallet, Answerable, Server, Advance, histVars
  <2>2. Command[cmd[p]].bridge => step[p] > 1
    BY <2>1, <1>0, FirstOpConnects
  <2>3. Command[cmd[p]].bridge => bnode[port] \in {NoNode, node[p]}
    BY <2>1, <2>2 DEF IsoInv, ClientOfRunning, Running
  <2>4. /\ bwallet'[port] = wal[p] /\ curWallet'[p] = wal[p]
        /\ \A b \in Procs \ {port} : bwallet'[b] = bwallet[b]
        /\ \A q \in Procs \ {p} : curWallet'[q] = curWallet[q]
    BY <2>1, <1>0 DEF IInv, TypeInv, TypeOK
  \* A wallet signed with is the one loaded before, which is wal[p] too.
  <2>5. signedBy[p] \in {NoWallet, wal[p]}
    BY DEF IsoInv, SessionIsolation, OwnWallet
  <2>6. heardFrom[p] \subseteq {node[p]}
    BY DEF IsoInv, SessionIsolation
  <2>7. QED
    BY <2>1, <2>3, <2>4, <2>5, <2>6, OpStepIsoInv
<1>12. ASSUME NEW p \in Procs, Sign(p) PROVE IsoInv'
  <2>1. /\ Running(p) /\ CurOp(p) = "sign" /\ port # NoProc
        /\ curWallet[p] # NoWallet /\ bwallet[port] # NoWallet
        /\ signedBy' = [signedBy EXCEPT ![p] = bwallet[port]]
        /\ UNCHANGED <<pc, cmd, node, wal, curWallet, bridge, port, bnode, bwallet,
                       heardFrom>>
        /\ step' = [step EXCEPT ![p] = @ + 1]
    BY <1>12 DEF Sign, Answerable, Server, Advance, bridgeVars
  <2>2. Command[cmd[p]].bridge => step[p] > 1
    BY <2>1, <1>0, FirstOpConnects
  <2>3. Command[cmd[p]].bridge => bnode[port] \in {NoNode, node[p]}
    BY <2>1, <2>2 DEF IsoInv, ClientOfRunning, Running
  \* The bridge signs with the wallet p loaded into it.
  <2>4. bwallet[port] = curWallet[p]
    BY <2>1 DEF IsoInv, WalletOfRunning, Running
  <2>5. signedBy'[p] = curWallet[p] /\ \A q \in Procs \ {p} : signedBy'[q] = signedBy[q]
    BY <2>1, <2>4 DEF IInv, TypeInv, TypeOK
  <2>6. heardFrom[p] \subseteq {node[p]}
    BY DEF IsoInv, SessionIsolation
  <2>7. QED
    BY <2>1, <2>3, <2>4, <2>5, <2>6, OpStepIsoInv
<1>13. ASSUME NEW p \in Procs, CreateWallet(p) \/ LocalOk(p) PROVE IsoInv'
  <2>1. /\ Running(p) /\ CurOp(p) # "create_client"
        /\ UNCHANGED <<pc, cmd, node, wal, curWallet, bridge, port, bnode, bwallet,
                       heardFrom, signedBy>>
        /\ step' = [step EXCEPT ![p] = @ + 1]
    BY <1>13 DEF CreateWallet, LocalOk, LocalOps, Advance, bridgeVars, histVars
  <2>2. Command[cmd[p]].bridge => step[p] > 1
    BY <2>1, <1>0, FirstOpConnects
  <2>3. Command[cmd[p]].bridge /\ port # NoProc => bnode[port] \in {NoNode, node[p]}
    BY <2>1, <2>2 DEF IsoInv, ClientOfRunning, Running
  <2>4. port # NoProc /\ curWallet[p] # NoWallet =>
          bwallet[port] \in {NoWallet, curWallet[p]}
    BY <2>1 DEF IsoInv, WalletOfRunning, Running
  <2>5. heardFrom[p] \subseteq {node[p]} /\ signedBy[p] \in {NoWallet, curWallet[p]}
    BY DEF IsoInv, SessionIsolation
  <2>6. QED
    BY <2>1, <2>3, <2>4, <2>5, OpStepIsoInv
<1>14. ASSUME NEW p \in Procs, CallFails(p) \/ LocalFail(p) PROVE IsoInv'
  <2>1. Running(p) /\ HandleError(p) /\ UNCHANGED <<heardFrom, signedBy>>
    BY <1>14 DEF CallFails, LocalFail, histVars
  <2>2. pc[p] \in Active /\ pc[p] = "run"
    BY <2>1 DEF Running, Active
  <2>3. CASE OnError(p) \in {"exit", "return"}
    <3>1. PICK code : Exit(p, code)
      BY <2>1, <2>3 DEF HandleError
    <3>2. /\ pc' = [pc EXCEPT ![p] = "exited"]
          /\ UNCHANGED <<cmd, node, wal, curWallet, bnode, bwallet>>
          /\ port' \in {port, NoProc}
          /\ \A b \in Procs : bridge'[b] = "starting" => bridge[b] = "starting"
      BY <3>1 DEF Exit
    <3>3. pc' # pc
      BY <1>0, <2>2, <3>2
    <3>4. QED
      BY <2>1, <2>2, <3>2, <3>3, QuietStepIsoInv
  <2>4. CASE OnError(p) \in {"ignore", "skip"}
    <3>1. UNCHANGED <<pc, cmd, node, wal, curWallet, bridge, port, bnode, bwallet>>
      BY <2>1, <2>4 DEF HandleError, bridgeVars
    \* An error carried on past is never that of the first create_client.
    <3>2. step[p] > 1 \/ ~Command[cmd[p]].bridge
      BY <2>1, <2>4, <1>0, FirstOpConnects
    <3>3. QED
      BY <2>1, <2>2, <3>1, <3>2, QuietStepIsoInv
  <2>5. QED
    BY <2>1, <2>3, <2>4 DEF HandleError
<1>20. QED
  BY <1>1, <1>2, <1>3, <1>4, <1>5, <1>6, <1>7, <1>8, <1>9, <1>10, <1>11, <1>12,
     <1>13, <1>14 DEF Next, ProcStep

(* Commands run one after another, none of them test: a command only ever *)
(* hears from the node it gave with --node, and a send signs only with the *)
(* wallet it loaded itself.  Both rest on the client and the wallet kept   *)
(* in whichever bridge serves port 3333 (_call_wasm, create_client 120-141, *)
(* load_wallet 261-280, sign_transaction 317-338).  The induction carries  *)
(* that the bridge on the port holds the running command's client and     *)
(* wallet (ClientOfRunning, WalletOfRunning) and that a fresh bridge holds *)
(* none (CleanStarting).                                                   *)
THEOREM SessionIsolationThm ==
    ASSUME OneAtATime
    PROVE  Spec => []SessionIsolation
<1>1. Spec => []IInv
  BY InitIInv, StepIInv, PTL DEF Spec
<1>2. IInv /\ IsoInv /\ [Next]_vars => IsoInv'
  BY StepIsoInv
<1>3. Init => IsoInv
  BY InitIsoInv
<1>4. Spec => [](IInv /\ IsoInv)
  BY <1>1, <1>2, <1>3, PTL DEF Spec
<1>5. QED
  BY <1>4, PTL DEF IsoInv
=============================================================================
