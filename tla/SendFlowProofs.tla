--------------------------- MODULE SendFlowProofs ---------------------------
(* Type correctness of the send path and the two invariants of its coin  *)
(* selection that hold for every fee, unit, amount and bridge answer.     *)
EXTENDS SendFlow, SequenceTheorems, TLAPS

\* The states between a confirmed request and the end of the command.
Running == {"fetch", "select", "selected", "sign", "broadcast"}
\* The states after the selection loop has broken out.
Chosen == {"selected", "sign", "broadcast", "success"}
\* The states after the transaction was assembled.
Assembled == {"sign", "broadcast", "success"}

\* The transaction outputs that Assemble builds.
AssembledOutputs ==
    <<[address |-> to, value |-> amountSat]>>
        \o ChangeOutputs(total - amountSat - Fee)

\* TypeOK in four parts, so that a step proves only the parts it changes.
TypeCtl == pc \in PC /\ exitCode \in {NoExit, 0, 1}
TypeCmd == /\ to \in Recipients /\ amountQ \in Amounts \cup {0}
           /\ token \in Tokens \cup {NoToken} /\ mocked \in BOOLEAN
           /\ signed \in BOOLEAN
TypeSel == /\ candidates \in Seq(Utxo) /\ sorted \in Seq(Utxo)
           /\ idx \in 0..Len(sorted) /\ total \in Nat /\ needed \in Nat
           /\ amountSat \in Nat
TypeOut == outputs \in Seq(Output) /\ tokenOps \in Seq(TokenOp)

LEMMA TypeSplit == TypeOK <=> TypeCtl /\ TypeCmd /\ TypeSel /\ TypeOut
BY DEF TypeOK, TypeCtl, TypeCmd, TypeSel, TypeOut

(* TypeOK and the two properties are not inductive: they need what the   *)
(* earlier steps of the same command established.                         *)
IInv ==
    /\ TypeCtl /\ TypeCmd /\ TypeSel /\ TypeOut
    /\ pc \in Running \cup {"success"} => amountQ > 0
    /\ pc \in {"select"} \cup Chosen => needed = amountSat + Fee
    /\ pc = "select" => /\ Len(sorted) >= 1
                        /\ idx >= 1 => total < needed
    /\ pc \in Chosen => /\ idx >= 1
                        /\ total >= needed
                        /\ idx > 1 => total - sorted[idx].value < needed
    /\ pc \in Assembled => outputs = AssembledOutputs

-----------------------------------------------------------------------------
(* Lemmas on the helpers.                                                 *)

\* Sorting keeps a list of utxos a list of utxos of the same length.
LEMMA SortType ==
    ASSUME NEW s \in Seq(Utxo)
    PROVE  /\ SortByValueDesc(s) \in Seq(Utxo)
           /\ Len(SortByValueDesc(s)) = Len(s)
<1> DEFINE Perms == [1..Len(s) -> 1..Len(s)]
<1>1. CASE \E p \in Perms : IsStableDescOrder(s, p)
  <2> DEFINE p == CHOOSE p \in Perms : IsStableDescOrder(s, p)
  <2>1. p \in Perms
    BY <1>1
  <2>2. \A i \in 1..Len(s) : s[p[i]] \in Utxo
    BY <2>1
  <2>3. SortByValueDesc(s) = [i \in 1..Len(s) |-> s[p[i]]]
    BY <1>1 DEF SortByValueDesc
  <2>4. QED
    BY <2>2, <2>3
<1>2. CASE ~\E p \in Perms : IsStableDescOrder(s, p)
  BY <1>2 DEF SortByValueDesc
<1>3. QED
  BY <1>1, <1>2

\* The outputs Assemble builds: the recipient's, and the change if any.
LEMMA ChangeType ==
    ASSUME NEW c \in Int
    PROVE  /\ ChangeOutputs(c) \in Seq(Output)
           /\ Len(ChangeOutputs(c)) = IF c > 0 THEN 1 ELSE 0
           /\ c > 0 => ChangeOutputs(c)[1].value = c
<1>1. [address |-> From, value |-> c] \in Output => 
        <<[address |-> From, value |-> c]>> \in Seq(Output)
  OBVIOUS
<1>2. CASE c > 0
  <2>1. [address |-> From, value |-> c] \in Output
    BY <1>2 DEF Output
  <2>2. QED
    BY <1>1, <1>2, <2>1 DEF ChangeOutputs
<1>3. CASE ~(c > 0)
  BY <1>3 DEF ChangeOutputs
<1>4. QED
  BY <1>2, <1>3

\* int(amount * units) of a positive amount is a natural number.
LEMMA AmountType ==
    ASSUME NEW q \in Int, q > 0, NEW tok
    PROVE  AmountSatoshis(q, tok) \in Nat
BY UnitAssumption DEF AmountSatoshis

-----------------------------------------------------------------------------
(* The inductive invariant.                                               *)

LEMMA InitIInv == Init => IInv
<1> SUFFICES ASSUME Init PROVE IInv
  OBVIOUS
<1>1. TypeOK
  <2>1. pc \in PC /\ to \in Recipients /\ amountQ \in Amounts \cup {0}
        /\ token \in Tokens \cup {NoToken} /\ mocked \in BOOLEAN
        /\ signed \in BOOLEAN
    BY DEF Init, PC
  <2>2. candidates \in Seq(Utxo) /\ sorted \in Seq(Utxo)
        /\ outputs \in Seq(Output) /\ tokenOps \in Seq(TokenOp)
    BY DEF Init
  <2>3. idx \in 0..Len(sorted) /\ total \in Nat /\ needed \in Nat
        /\ amountSat \in Nat /\ exitCode \in {NoExit, 0, 1}
    BY DEF Init, NoExit
  <2>4. QED
    BY <2>1, <2>2, <2>3 DEF TypeOK
<1>2. pc \notin Running \cup Chosen \cup {"select", "success"}
  BY DEF Init, Running, Chosen
<1>3. QED
  BY <1>1, <1>2, TypeSplit DEF IInv, Assembled, Chosen, Running

LEMMA StepIInv == IInv /\ [Next]_vars => IInv'
<1> SUFFICES ASSUME IInv, [Next]_vars PROVE IInv'
  OBVIOUS
<1>0. IInv
  OBVIOUS
<1> USE FeeAssumption, UnitAssumption
<1>1. ASSUME NEW r \in Recipients, NEW q \in Amounts,
             NEW tok \in Tokens \cup {NoToken}, Request(r, q, tok)
      PROVE  IInv'
  <2>1. /\ candidates' = <<>> /\ sorted' = <<>> /\ outputs' = <<>>
        /\ tokenOps' = <<>> /\ mocked' = FALSE /\ signed' = FALSE
        /\ idx' = 0 /\ total' = 0 /\ needed' = 0 /\ amountSat' = 0
        /\ to' = r /\ amountQ' = q /\ token' = tok
    BY <1>1 DEF Request, Fresh
  <2>2. \/ pc' = "rejected" /\ exitCode' = 1
        \/ pc' = "fetch" /\ exitCode' = NoExit /\ q > 0
        \/ pc' = "cancelled" /\ exitCode' = 0
    BY <1>1 DEF Request
  <2>3. TypeCtl'
    BY <2>2 DEF TypeCtl, PC
  <2>4. TypeCmd'
    BY <2>1 DEF TypeCmd
  <2>6. TypeSel'
    BY <2>1 DEF TypeSel
  <2>7. TypeOut'
    BY <2>1 DEF TypeOut
  <2>5. QED
    BY <2>1, <2>2, <2>3, <2>4, <2>6, <2>7 DEF IInv, Running, Chosen, Assembled
<1>2. CASE FetchUtxos
  <2>1. /\ candidates' = MockUtxos
        /\ mocked' = TRUE
        /\ amountSat' = AmountSatoshis(amountQ, token)
        /\ needed' = AmountSatoshis(amountQ, token) + Fee
        /\ sorted' = SortByValueDesc(MockUtxos)
        /\ idx' = 0
        /\ total' = 0
        /\ IF MockUtxos = <<>>
              THEN pc' = "failed" /\ exitCode' = 1
              ELSE pc' = "select" /\ exitCode' = NoExit
    BY <1>2 DEF FetchUtxos
  <2> DEFINE utxos == MockUtxos
  <2>2. utxos \in Seq(Utxo) /\ utxos # <<>>
    BY UtxoAssumption
  <2>3. sorted' \in Seq(Utxo) /\ Len(sorted') >= 1
    <3>1. Len(utxos) >= 1
      BY <2>2
    <3>2. QED
      BY <2>1, <2>2, <3>1, SortType
  <2> DEFINE A == AmountSatoshis(amountQ, token)
  <2>4. /\ A \in Nat /\ A + Fee \in Nat
        /\ amountSat' = A /\ needed' = A + Fee
    <3>1. amountQ \in Int /\ amountQ > 0
      BY <1>0, <1>2 DEF IInv, FetchUtxos, Running, TypeCmd
    <3>2. QED
      BY <2>1, <3>1, AmountType
  <2>5. pc' = "select" /\ exitCode' = NoExit /\ candidates' = utxos
        /\ mocked' \in BOOLEAN /\ idx' = 0 /\ total' = 0
    BY <2>1, <2>2
  <2>6. UNCHANGED <<to, amountQ, token, outputs, tokenOps, signed>>
    BY <1>2 DEF FetchUtxos
  <2>7. TypeCtl'
    BY <2>5 DEF TypeCtl, PC
  <2>8. TypeCmd' /\ TypeOut'
    BY <1>0, <2>5, <2>6 DEF IInv, TypeCmd, TypeOut
  <2>9. TypeSel'
    <3>1. candidates' \in Seq(Utxo) /\ idx' \in 0..Len(sorted')
      BY <2>2, <2>3, <2>5
    <3>2. needed' \in Nat /\ total' \in Nat /\ amountSat' \in Nat
      BY <2>4, <2>5
    <3>3. QED
      BY <2>3, <2>4, <3>1, <3>2 DEF TypeSel
  <2>11. amountQ' > 0
    BY <1>0, <1>2, <2>6 DEF IInv, FetchUtxos, Running
  <2>10. QED
    BY <2>3, <2>4, <2>5, <2>7, <2>8, <2>9, <2>11 DEF IInv, Running, Chosen,
       Assembled
<1>3. CASE SelectStep
  <2>1. /\ idx + 1 \in 1..Len(sorted)
        /\ needed = amountSat + Fee
        /\ idx >= 1 => total < needed
    BY <1>0, <1>3 DEF IInv, SelectStep, TypeSel, Chosen
  <2>0. sorted[idx + 1].value \in Nat
    <3>1. sorted[idx + 1] \in Utxo
      BY <1>0, <2>1 DEF IInv, TypeSel
    <3>2. QED
      BY <3>1 DEF Utxo
  <2>2. /\ idx' = idx + 1
        /\ total' = total + sorted[idx + 1].value
        /\ pc' = IF total' >= needed THEN "selected" ELSE "select"
        /\ UNCHANGED <<to, amountQ, token, candidates, mocked, sorted, needed,
                       amountSat, outputs, tokenOps, signed, exitCode>>
    BY <1>3 DEF SelectStep
  <2>3. TypeCtl' /\ TypeCmd' /\ TypeSel' /\ TypeOut'
    BY <1>0, <2>0, <2>1, <2>2 DEF IInv, TypeCtl, PC, TypeCmd, TypeSel, TypeOut
  <2>4. CASE total' >= needed
    <3>1. pc' = "selected" /\ amountQ' > 0 /\ needed' = amountSat' + Fee
      BY <1>0, <1>3, <2>1, <2>2, <2>4 DEF IInv, SelectStep, Running
    <3>2. idx \in Nat /\ total \in Nat
      BY <1>0 DEF IInv, TypeSel
    <3>3. /\ idx' >= 1
          /\ total' >= needed'
          /\ idx' > 1 => total' - sorted'[idx'].value < needed'
      BY <2>0, <2>1, <2>2, <2>4, <3>2
    <3>4. QED
      BY <2>3, <3>1, <3>3 DEF IInv, Running, Chosen, Assembled
  <2>5. CASE ~(total' >= needed)
    BY <1>0, <1>3, <2>0, <2>1, <2>2, <2>3, <2>5 DEF IInv, SelectStep, Running, Chosen,
       Assembled
  <2>6. QED
    BY <2>4, <2>5
<1>4. CASE LoopExhausted
  <2>1. pc' = "failed" /\ exitCode' = 1
    BY <1>0, <1>4 DEF IInv, LoopExhausted, TypeSel
  <2>2. TypeCtl' /\ TypeCmd' /\ TypeSel' /\ TypeOut'
    BY <1>0, <1>4, <2>1 DEF IInv, LoopExhausted, selVars, TypeCtl, PC, TypeCmd,
       TypeSel, TypeOut
  <2>3. QED
    BY <1>0, <1>4, <2>1, <2>2 DEF IInv, LoopExhausted, selVars, Running, Chosen,
       Assembled
<1>5. CASE Assemble
  <2>1. amountQ \in Int /\ amountQ > 0 /\ amountSat \in Nat
    BY <1>0, <1>5 DEF IInv, Assemble, Running, TypeCmd, TypeSel
  <2>2. AssembledOutputs \in Seq(Output)
    <3>1. [address |-> to, value |-> amountSat] \in Output
      BY <1>0, <2>1 DEF IInv, Output, TypeCmd
    <3>2. ChangeOutputs(total - amountSat - Fee) \in Seq(Output)
      BY <1>0, <2>1, ChangeType DEF IInv, TypeSel
    <3>3. QED
      BY <3>1, <3>2 DEF AssembledOutputs
  <2>3. tokenOps' \in Seq(TokenOp)
    <3>1. CASE token # NoToken
      <4>1. token \in Tokens /\ to \in Recipients
        BY <1>0, <3>1 DEF IInv, TypeCmd
      <4>2. [token_id |-> token, from |-> From, to |-> to,
             amount |-> amountQ \div AmountDen] \in TokenOp
        BY <2>1, <4>1 DEF TokenOp
      <4>3. QED
        BY <1>5, <3>1, <4>2 DEF Assemble
    <3>2. CASE token = NoToken
      BY <1>5, <3>2 DEF Assemble
    <3>3. QED
      BY <3>1, <3>2
  <2>4. /\ outputs' = AssembledOutputs
        /\ pc' = "sign"
        /\ UNCHANGED <<to, amountQ, token, selVars, signed, exitCode>>
    BY <1>5 DEF Assemble, AssembledOutputs
  <2>5. AssembledOutputs' = AssembledOutputs
    BY <2>4 DEF AssembledOutputs, selVars
  <2>6. TypeCtl' /\ TypeCmd' /\ TypeSel' /\ TypeOut'
    BY <1>0, <2>2, <2>3, <2>4 DEF IInv, selVars, TypeCtl, PC, TypeCmd, TypeSel,
       TypeOut
  <2>7. QED
    BY <1>0, <1>5, <2>4, <2>5, <2>6 DEF IInv, Assemble, selVars, Running, Chosen,
       Assembled
<1>6. CASE SignOk \/ SignFail \/ BroadcastOk \/ BroadcastFail
  <2>1. /\ UNCHANGED <<to, amountQ, token, selVars, outputs, tokenOps>>
        /\ signed' \in BOOLEAN
        /\ \/ pc = "sign" /\ pc' \in {"broadcast", "failed"}
           \/ pc = "broadcast" /\ pc' \in {"success", "failed"}
        /\ exitCode' \in {NoExit, 0, 1}
    <3>1. CASE SignOk
      BY <1>0, <3>1 DEF IInv, TypeCtl, selVars, SignOk
    <3>2. CASE SignFail
      BY <1>0, <3>2 DEF IInv, TypeCtl, selVars, SignFail
    <3>3. CASE BroadcastOk
      BY <1>0, <3>3 DEF IInv, TypeCtl, TypeCmd, selVars, BroadcastOk
    <3>4. CASE BroadcastFail
      BY <1>0, <3>4 DEF IInv, TypeCtl, TypeCmd, selVars, BroadcastFail
    <3>5. QED
      BY <1>0, <1>6, <3>1, <3>2, <3>3, <3>4 DEF IInv, TypeCtl
  <2>2. AssembledOutputs' = AssembledOutputs
    BY <2>1 DEF AssembledOutputs, selVars
  <2>3. TypeCtl' /\ TypeCmd' /\ TypeSel' /\ TypeOut'
    BY <1>0, <2>1 DEF IInv, selVars, TypeCtl, PC, TypeCmd, TypeSel, TypeOut
  <2>4. QED
    BY <1>0, <2>1, <2>2, <2>3 DEF IInv, selVars, Running, Chosen, Assembled
<1>7. CASE UNCHANGED vars
  <2>1. AssembledOutputs' = AssembledOutputs
    BY <1>7 DEF vars, AssembledOutputs
  <2>2. TypeCtl' /\ TypeCmd' /\ TypeSel' /\ TypeOut'
    BY <1>0, <1>7 DEF IInv, vars, TypeCtl, TypeCmd, TypeSel, TypeOut
  <2>3. QED
    BY <1>0, <1>7, <2>1, <2>2 DEF IInv, vars
<1>8. QED
  BY <1>1, <1>2, <1>3, <1>4, <1>5, <1>6, <1>7 DEF Next, SendStep

-----------------------------------------------------------------------------
(* The invariants.                                                        *)

LEMMA IInvValueConserved == IInv => ValueConserved
<1> SUFFICES ASSUME IInv, pc \in {"sign", "broadcast", "success"}
             PROVE  /\ \A i \in DOMAIN outputs : outputs[i].value >= 0
                    /\ outputs[1].value + Fee
                         + (IF Len(outputs) = 2 THEN outputs[2].value ELSE 0)
                       = total
                    /\ Len(outputs) = 2 <=> total > needed
  BY DEF ValueConserved
<1> DEFINE c == total - amountSat - Fee
           R == [address |-> to, value |-> amountSat]
<1>1. /\ total \in Nat /\ amountSat \in Nat /\ Fee \in Nat
      /\ needed = amountSat + Fee /\ total >= needed
      /\ outputs = <<R>> \o ChangeOutputs(c)
  BY FeeAssumption DEF IInv, TypeSel, Chosen, Assembled, AssembledOutputs
<1>2. c \in Nat
  BY <1>1
<1>3. /\ <<R>> \in Seq(Output)
      /\ ChangeOutputs(c) \in Seq(Output)
      /\ Len(ChangeOutputs(c)) = IF c > 0 THEN 1 ELSE 0
      /\ c > 0 => ChangeOutputs(c)[1].value = c
  <2>1. R \in Output
    BY <1>1 DEF IInv, TypeCmd, Output
  <2>2. <<R>> \in Seq(Output)
    BY <2>1
  <2>3. c \in Int
    BY <1>2
  <2>4. /\ ChangeOutputs(c) \in Seq(Output)
        /\ Len(ChangeOutputs(c)) = IF c > 0 THEN 1 ELSE 0
        /\ c > 0 => ChangeOutputs(c)[1].value = c
    BY <2>3, ChangeType
  <2>5. QED
    BY <2>2, <2>4
<1>4. /\ Len(outputs) = 1 + Len(ChangeOutputs(c))
      /\ outputs[1] = R
      /\ Len(outputs) = 2 => outputs[2] = ChangeOutputs(c)[1]
  BY <1>1, <1>3, ConcatProperties
<1>5. \A i \in DOMAIN outputs : outputs[i].value >= 0
  <2>1. outputs \in Seq(Output)
    BY DEF IInv, TypeOut
  <2>2. \A i \in DOMAIN outputs : outputs[i] \in Output
    BY <2>1
  <2>3. QED
    BY <2>2 DEF Output
<1>6. CASE c > 0
  <2> HIDE DEF c
  <2>1. Len(ChangeOutputs(c)) = 1 /\ ChangeOutputs(c)[1].value = c
    BY <1>3, <1>6
  <2>2. Len(outputs) = 2 /\ outputs[2].value = c /\ outputs[1].value = amountSat
    BY <1>4, <2>1
  <2>3. total = amountSat + Fee + c /\ total > needed
    BY <1>1, <1>6 DEF c
  <2>4. QED
    BY <1>5, <2>2, <2>3
<1>7. CASE ~(c > 0)
  BY <1>1, <1>2, <1>3, <1>4, <1>5, <1>7
<1>8. QED
  BY <1>6, <1>7

(* Type correctness of the send command for every fee, unit and bridge   *)
(* answer: in particular int(amount * units) of an accepted amount and   *)
(* total_needed are natural numbers, and every output built by the       *)
(* assembler pays an address a natural number of units.                  *)
THEOREM TypeCorrect == Spec => []TypeOK
<1>1. IInv => TypeOK
  BY TypeSplit DEF IInv
<1>2. QED
  BY InitIInv, StepIInv, <1>1, PTL DEF Spec

(* The transaction send_transaction hands to the signer conserves value: *)
(* recipient output, change output and fee add up to the selected        *)
(* inputs, and the change output is there exactly when there is change.  *)
THEOREM ValueConservedThm == Spec => []ValueConserved
BY InitIInv, StepIInv, IInvValueConserved, PTL DEF Spec

(* The greedy loop of send_transaction breaks at the first input that    *)
(* covers amount + fee: at least one input is taken and every shorter    *)
(* prefix of the selected inputs falls short.                            *)
THEOREM NoSuperfluousInputThm == Spec => []NoSuperfluousInput
<1>1. IInv => NoSuperfluousInput
  BY DEF IInv, NoSuperfluousInput, Chosen
<1>2. QED
  BY InitIInv, StepIInv, <1>1, PTL DEF Spec

=============================================================================
