------------------------- MODULE BalanceScanProofs -------------------------
(* Type correctness of the balance scan, for every chain and address set. *)
EXTENDS BalanceScan, TLAPS

(* TypeOK alone is not inductive: a step inside a block reads             *)
(* chain[height][txi], which needs the loop position to be inside the    *)
(* chain and the block.                                                   *)
IInv ==
    /\ TypeOK
    /\ pc \in {"tx", "out"} => height <= latest
    /\ pc = "out" => txi \in 1..Len(Block(height))

LEMMA InitIInv == Init => IInv
<1> SUFFICES ASSUME Init PROVE IInv
  OBVIOUS
<1>1. chain \in Seq(Seq(Tx))
  BY ChainsAssumption DEF Init
<1>2. TypeOK
  BY <1>1 DEF Init, TypeOK, PC
<1>3. QED
  BY <1>2 DEF Init, IInv

\* The current transaction of a step inside a block is a Tx.
LEMMA CurTxType ==
    ASSUME IInv, pc \in {"tx", "out"}, txi <= Len(Block(height))
    PROVE  CurTx \in Tx
<1>1. chain \in Seq(Seq(Tx))
  BY ChainsAssumption DEF IInv, TypeOK
<1>2. height \in 1..Len(chain)
  BY DEF IInv, TypeOK
<1>3. Block(height) \in Seq(Tx)
  BY <1>1, <1>2 DEF Block
<1>4. QED
  BY <1>3 DEF IInv, TypeOK, CurTx

LEMMA StepIInv == IInv /\ [Next]_vars => IInv'
<1> SUFFICES ASSUME IInv, [Next]_vars PROVE IInv'
  OBVIOUS
<1>0. chain \in Seq(Seq(Tx)) /\ Len(chain) \in Nat
  BY ChainsAssumption DEF IInv, TypeOK
<1> USE <1>0 DEF IInv, TypeOK, PC, nodeVars, Block
<1>1. CASE Grow
  BY <1>1 DEF Grow, Block
<1>2. ASSUME NEW a \in Addr, Start(a) PROVE IInv'
  BY <1>2 DEF Start
<1>3. CASE StatusOk
  BY <1>3 DEF StatusOk
<1>4. CASE StatusFail
  BY <1>4 DEF StatusFail
<1>5. CASE Hang
  BY <1>5 DEF Hang
<1>6. CASE FetchBlockOk
  BY <1>6 DEF FetchBlockOk
<1>7. CASE FetchBlockFail
  BY <1>7 DEF FetchBlockFail
<1>8. CASE Finish
  BY <1>8 DEF Finish
<1>9. CASE TxMalformed
  BY <1>9 DEF TxMalformed, Abort
<1>10. CASE TxSkip
  BY <1>10 DEF TxSkip, Block
<1>11. CASE TxQualifies
  BY <1>11 DEF TxQualifies, Block
<1>12. CASE InnerMalformed
  BY <1>12 DEF InnerMalformed, Abort
<1>13. CASE EndBlock
  BY <1>13 DEF EndBlock
<1>14. CASE ProcessOutput
  <2>1. CurTx \in Tx
    BY <1>14, CurTxType DEF ProcessOutput
  <2>2. CurTx.outputs[outi] \in Output
    BY <1>14, <2>1 DEF ProcessOutput, Tx
  <2>3. balance' \in Nat /\ rewards' \in Nat /\ outi' \in Nat \ {0}
    BY <1>14, <2>2 DEF ProcessOutput, Output, IInv, TypeOK
  <2>4. UNCHANGED <<nodeVars, pc, target, latest, height, txi, fetchFailed, aborted>>
    BY <1>14 DEF ProcessOutput
  <2>5. QED
    BY <2>3, <2>4 DEF IInv, TypeOK, nodeVars, Block
<1>15. CASE EndOutputs
  BY <1>15 DEF EndOutputs
<1>16. CASE UNCHANGED vars
  BY <1>16 DEF vars, Block
<1>17. QED
  BY <1>1, <1>2, <1>3, <1>4, <1>5, <1>6, <1>7, <1>8, <1>9, <1>10, <1>11,
     <1>12, <1>13, <1>14, <1>15, <1>16 DEF Next, ScanStep

(* The scan's state is well typed in every reachable state: in particular *)
(* it never reads a height above the node's tip, and the balance and the *)
(* reward counter stay natural numbers.                                   *)
THEOREM TypeCorrect == Spec => []TypeOK
<1>1. IInv => TypeOK
  BY DEF IInv
<1>2. QED
  BY InitIInv, StepIInv, <1>1, PTL DEF Spec
=============================================================================
