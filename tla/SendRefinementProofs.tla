------------------------ MODULE SendRefinementProofs ------------------------
(* The send command implements the spec 4.5 send flow of SendMachine     *)
(* under the mapping AbsState, amountSat, AbsInputTotal of SendFlow.      *)
EXTENDS SendFlowProofs

\* No outputs exist before the record is assembled: a failure before that
\* point leaves outputs empty, which AbsInputTotal relies on.
NoOutputsYet == pc \in {"fetch", "select", "selected"} => outputs = <<>>

RInv == IInv /\ NoOutputsYet

-----------------------------------------------------------------------------
(* The invariant.                                                         *)

LEMMA InitRInv == Init => RInv
BY InitIInv DEF RInv, NoOutputsYet, Init

LEMMA StepNoOutputsYet == NoOutputsYet /\ [Next]_vars => NoOutputsYet'
<1> SUFFICES ASSUME NoOutputsYet, [Next]_vars PROVE NoOutputsYet'
  OBVIOUS
<1>1. ASSUME NEW r \in Recipients, NEW q \in Amounts,
             NEW tok \in Tokens \cup {NoToken}, Request(r, q, tok)
      PROVE  NoOutputsYet'
  BY <1>1 DEF Request, Fresh, NoOutputsYet
<1>2. CASE FetchUtxos
  BY <1>2 DEF FetchUtxos, NoOutputsYet
<1>3. CASE SelectStep
  BY <1>3 DEF SelectStep, NoOutputsYet
<1>4. CASE LoopExhausted
  BY <1>4 DEF LoopExhausted, NoOutputsYet
<1>5. CASE Assemble
  BY <1>5 DEF Assemble, NoOutputsYet
<1>6. CASE SignOk \/ SignFail \/ BroadcastOk \/ BroadcastFail
  BY <1>6 DEF SignOk, SignFail, BroadcastOk, BroadcastFail, NoOutputsYet
<1>7. CASE UNCHANGED vars
  BY <1>7 DEF vars, NoOutputsYet
<1>8. QED
  BY <1>1, <1>2, <1>3, <1>4, <1>5, <1>6, <1>7 DEF Next, SendStep

LEMMA StepRInv == RInv /\ [Next]_vars => RInv'
BY StepIInv, StepNoOutputsYet DEF RInv

\* An assembled record has at least the recipient output.
LEMMA AssembledNonEmpty == IInv /\ pc \in Assembled => outputs # <<>>
<1> SUFFICES ASSUME IInv, pc \in Assembled PROVE outputs # <<>>
  OBVIOUS
<1> DEFINE c == total - amountSat - Fee
           R == [address |-> to, value |-> amountSat]
<1>1. outputs = <<R>> \o ChangeOutputs(c)
  BY DEF IInv, AssembledOutputs
<1>2. c \in Int
  BY FeeAssumption DEF IInv, TypeSel
<1>3. ChangeOutputs(c) \in Seq(Output) /\ <<R>> \in Seq([address : {R.address}, value : {R.value}])
  BY <1>2, ChangeType
<1>4. Len(outputs) = 1 + Len(ChangeOutputs(c))
  BY <1>1, <1>3, ConcatProperties
<1>5. QED
  BY <1>3, <1>4

-----------------------------------------------------------------------------
(* The refinement mapping.                                                *)

LEMMA InitRefines == Init => Machine!Init
BY DEF Init, Machine!Init, AbsState, AbsInputTotal

LEMMA StepRefines ==
    RInv /\ RInv' /\ [Next]_vars => [Machine!Next]_Machine!vars
<1> SUFFICES ASSUME RInv, RInv', [Next]_vars
             PROVE  [Machine!Next]_Machine!vars
  OBVIOUS
<1>0. IInv /\ NoOutputsYet /\ IInv' /\ NoOutputsYet'
  BY DEF RInv
<1>1. ASSUME NEW r \in Recipients, NEW q \in Amounts,
             NEW tok \in Tokens \cup {NoToken}, Request(r, q, tok)
      PROVE  Machine!NewSend(r)
  <2>1. pc \in Ended /\ pc' \in {"rejected", "fetch", "cancelled"}
    BY <1>1 DEF Request
  <2>2. AbsState \in {"Idle", "Success", "Failed"} /\ AbsState' = "Idle"
    BY <2>1 DEF Ended, AbsState
  <2>3. to' = r /\ amountSat' = 0 /\ outputs' = <<>> /\ AbsInputTotal' = 0
    BY <1>1, <2>1 DEF Request, Fresh, AbsInputTotal
  <2>4. QED
    BY <2>2, <2>3 DEF Machine!NewSend, Machine!Terminal
<1>2. CASE FetchUtxos
  <2>1. pc = "fetch" /\ pc' \in {"select", "failed"}
    BY <1>2 DEF FetchUtxos
  <2>2. UNCHANGED <<to, outputs>> /\ outputs = <<>>
    BY <1>0, <1>2, <2>1 DEF FetchUtxos, NoOutputsYet
  <2>3. amountSat' \in Nat
    BY <1>0 DEF IInv, TypeSel
  <2>4. /\ AbsState = "Idle"
        /\ AbsState' \in {"CandidatesFetched", "Failed"}
        /\ AbsInputTotal' = AbsInputTotal
    BY <2>1, <2>2 DEF AbsState, AbsInputTotal
  <2>5. QED
    BY <2>2, <2>3, <2>4 DEF Machine!Next, Machine!FetchCandidates
<1>3. CASE SelectStep
  <2>1. /\ pc = "select"
        /\ pc' = IF total' >= needed THEN "selected" ELSE "select"
        /\ UNCHANGED <<to, needed, amountSat, outputs>>
    BY <1>3 DEF SelectStep
  <2>2. needed = amountSat + Fee /\ total' \in Nat /\ outputs = <<>>
    BY <1>0, <2>1 DEF IInv, TypeSel, NoOutputsYet
  <2>3. CASE total' >= needed
    <3>1. AbsState = "CandidatesFetched" /\ AbsState' = "InputsSelected"
      BY <2>1, <2>3 DEF AbsState
    <3>2. AbsInputTotal' = total' /\ AbsInputTotal' >= amountSat + Fee
      BY <2>1, <2>2, <2>3 DEF AbsInputTotal
    <3>3. QED
      BY <2>1, <2>2, <3>1, <3>2 DEF Machine!Next, Machine!SelectInputs
  <2>4. CASE ~(total' >= needed)
    <3>1. AbsState' = AbsState /\ AbsInputTotal' = AbsInputTotal
      BY <2>1, <2>4 DEF AbsState, AbsInputTotal
    <3>2. QED
      BY <2>1, <3>1 DEF Machine!vars
  <2>5. QED
    BY <2>3, <2>4
<1>4. CASE LoopExhausted
  <2>1. /\ pc = "select"
        /\ pc' = IF total < needed THEN "failed" ELSE "selected"
        /\ UNCHANGED <<to, total, needed, amountSat, outputs>>
    BY <1>4 DEF LoopExhausted, selVars
  <2>2. needed = amountSat + Fee /\ total \in Nat /\ outputs = <<>>
    BY <1>0, <2>1 DEF IInv, TypeSel, NoOutputsYet
  <2>3. AbsState = "CandidatesFetched" /\ AbsInputTotal = 0
    BY <2>1 DEF AbsState, AbsInputTotal
  <2>4. CASE total < needed
    <3>1. AbsState' = "Failed" /\ AbsInputTotal' = 0
      BY <2>1, <2>2, <2>4 DEF AbsState, AbsInputTotal
    <3>2. QED
      BY <2>1, <2>3, <3>1 DEF Machine!Next, Machine!Fail
  <2>5. CASE ~(total < needed)
    <3>1. AbsState' = "InputsSelected" /\ AbsInputTotal' = total
      BY <2>1, <2>5 DEF AbsState, AbsInputTotal
    <3>2. total >= amountSat + Fee
      BY <2>2, <2>5
    <3>3. QED
      BY <2>1, <2>2, <2>3, <3>1, <3>2 DEF Machine!Next, Machine!SelectInputs
  <2>6. QED
    BY <2>4, <2>5
<1>5. CASE Assemble
  <2>1. /\ pc = "selected" /\ pc' = "sign"
        /\ outputs' = <<[address |-> to, value |-> amountSat]>>
                        \o ChangeOutputs(total - amountSat - Fee)
        /\ UNCHANGED <<to, total, amountSat>>
    BY <1>5 DEF Assemble, selVars
  <2>2. /\ AbsState = "InputsSelected" /\ AbsState' = "Assembled"
        /\ AbsInputTotal = total /\ AbsInputTotal' = total
    BY <2>1 DEF AbsState, AbsInputTotal
  <2>3. ChangeOutputs(total - amountSat - Fee)
          = Machine!Change(AbsInputTotal - amountSat - Fee)
    BY <2>2 DEF ChangeOutputs, Machine!Change
  <2>4. QED
    BY <2>1, <2>2, <2>3 DEF Machine!Next, Machine!Assemble
<1>6. CASE SignOk \/ BroadcastOk
  <2>1. /\ \/ pc = "sign" /\ pc' = "broadcast"
           \/ pc = "broadcast" /\ pc' = "success"
        /\ UNCHANGED <<to, total, amountSat, outputs>>
    BY <1>6 DEF SignOk, BroadcastOk, selVars
  <2>2. AbsInputTotal' = AbsInputTotal
    BY <2>1 DEF AbsInputTotal
  <2>3. \/ AbsState = "Assembled" /\ AbsState' = "Signed"
        \/ AbsState = "Signed" /\ AbsState' = "Success"
    BY <2>1 DEF AbsState
  <2>4. QED
    BY <2>1, <2>2, <2>3 DEF Machine!Next, Machine!Sign, Machine!Broadcast
<1>7. CASE SignFail \/ BroadcastFail
  <2>1. /\ pc \in {"sign", "broadcast"} /\ pc' = "failed"
        /\ UNCHANGED <<to, total, amountSat, outputs>>
    BY <1>7 DEF SignFail, BroadcastFail, selVars
  <2>2. outputs # <<>>
    BY <1>0, <2>1, AssembledNonEmpty DEF Assembled
  <2>3. AbsInputTotal' = AbsInputTotal
    BY <2>1, <2>2 DEF AbsInputTotal
  <2>4. AbsState \in {"Assembled", "Signed"} /\ AbsState' = "Failed"
    BY <2>1 DEF AbsState
  <2>5. QED
    BY <2>1, <2>3, <2>4 DEF Machine!Next, Machine!Fail
<1>8. CASE UNCHANGED vars
  BY <1>8 DEF vars, Machine!vars, AbsState, AbsInputTotal
<1>9. QED
  BY <1>1, <1>2, <1>3, <1>4, <1>5, <1>6, <1>7, <1>8 DEF Next, SendStep,
     Machine!Next

(* The send command of shadowy_cli.py implements the spec 4.5 send flow: *)
(* every step of it is a step of SendMachine or leaves the abstract state *)
(* unchanged.  So a send never goes back, never leaves Success or Failed  *)
(* but by a new command, selects inputs covering amount + fee, and signs  *)
(* and broadcasts exactly the record it assembled.                        *)
THEOREM SendRefinement == Spec => SendRefinesMachine
<1>1. Spec => []RInv
  BY InitRInv, StepRInv, PTL DEF Spec
<1>2. QED
  BY <1>1, InitRefines, StepRefines, PTL DEF Spec, SendRefinesMachine, Machine!Spec
=============================================================================
