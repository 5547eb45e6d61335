--------------------------- MODULE ResetSyncProofs ---------------------------
(* Proofs about reset_sync for every list of reset endpoints and every    *)
(* number of basic endpoints.                                             *)
EXTENDS ResetSync, SequenceTheorems, TLAPS

(* The inductive invariant.  Besides the types it says that the loop is   *)
(* inside the endpoint list while it sends a request, that a result is    *)
(* set exactly when reset_sync has returned, and that a success names the *)
(* endpoint the loop stopped at, which is the last one the node reset.    *)
IInv ==
    /\ TypeOK
    /\ phase \in {"post", "get"} => i \in 1..N
    /\ (phase = "done") = (result # "none")
    /\ result = "success" =>
         /\ i \in 1..N
         /\ used = ResetEndpoints[i]
         /\ applied # <<>>
         /\ applied[Len(applied)] = i

\* The list of endpoints is a sequence, so N is a natural number.
LEMMA NType == N \in Nat /\ DOMAIN ResetEndpoints = 1..N
BY ResetAssumption DEF N

LEMMA InitIInv == Init => IInv
<1> SUFFICES ASSUME Init PROVE IInv
  OBVIOUS
<1>1. N \in Nat
  BY NType
<1>2. TypeOK
  BY <1>1, ResetAssumption DEF Init, TypeOK, NoExit
<1>3. QED
  BY <1>1, <1>2 DEF Init, IInv

\* The node's reaction keeps applied a list of indices and, when the node
\* resets, ends it with the current one.
LEMMA ApplyType ==
    ASSUME NEW m, applied \in Seq(1..N), i \in 1..N, Apply(m)
    PROVE  /\ applied' \in Seq(1..N)
           /\ Resets(m) => applied' # <<>> /\ applied'[Len(applied')] = i
<1>1. CASE Resets(m)
  <2>1. applied' = Append(applied, i)
    BY <1>1 DEF Apply
  <2>2. QED
    BY <2>1, AppendProperties
<1>2. CASE ~Resets(m)
  BY <1>2 DEF Apply
<1>3. QED
  BY <1>1, <1>2

LEMMA StepIInv == IInv /\ [Next]_vars => IInv'
<1> SUFFICES ASSUME IInv, [Next]_vars PROVE IInv'
  OBVIOUS
<1>0. N \in Nat
  BY NType
<1>1. CASE PostAnswered \/ GetAnswered
  <2>1. phase \in {"post", "get"} /\ i \in 1..N /\ result = "none"
    BY <1>1 DEF PostAnswered, GetAnswered, IInv
  <2>2. DEFINE m == IF phase = "post" THEN "post" ELSE "get"
  <2>3. Apply(m) /\ UNCHANGED <<kind, bi>>
    BY <1>1, <2>1 DEF PostAnswered, GetAnswered
  <2>4. applied' \in Seq(1..N)
        /\ (Resets(m) => applied' # <<>> /\ applied'[Len(applied')] = i)
    BY <2>1, <2>3, ApplyType DEF IInv, TypeOK
  <2>5. CASE Succeeds(m)
    <3>0. Resets(m)
      BY <2>5 DEF Succeeds, Resets
    <3>1. phase' = "done" /\ result' = "success" /\ exitCode' = 0
          /\ used' = Cur /\ i' = i
      BY <1>1, <2>1, <2>5 DEF PostAnswered, GetAnswered, Return
    <3>2. QED
      BY <1>0, <2>1, <2>3, <2>4, <3>0, <3>1 DEF IInv, TypeOK, Cur
  <2>6. CASE ~Succeeds(m)
    <3>1. /\ result' = "none" /\ UNCHANGED <<used, exitCode>>
          /\ \/ phase = "post" /\ phase' = "get" /\ i' = i
             \/ phase = "get" /\ i' = i + 1
                /\ phase' = IF i < N THEN "post" ELSE "basic"
      BY <1>1, <2>1, <2>6 DEF PostAnswered, GetAnswered, NextEndpoint
    <3>2. QED
      BY <1>0, <2>1, <2>3, <2>4, <3>1 DEF IInv, TypeOK
  <2>7. QED
    BY <2>5, <2>6
<1>2. CASE RequestFails
  <2>1. phase \in {"post", "get"} /\ i \in 1..N /\ result = "none"
    BY <1>2 DEF RequestFails, IInv
  <2>2. applied' \in Seq(1..N)
    <3>1. PICK reached \in BOOLEAN :
            IF reached THEN Apply(phase) ELSE UNCHANGED applied
      BY <1>2 DEF RequestFails
    <3>2. QED
      BY <2>1, <3>1, ApplyType DEF IInv, TypeOK
  <2>3. /\ i' = i + 1 /\ phase' = IF i < N THEN "post" ELSE "basic"
        /\ UNCHANGED <<kind, bi, result, used, exitCode>>
    BY <1>2 DEF RequestFails, NextEndpoint
  <2>4. QED
    BY <1>0, <2>1, <2>2, <2>3 DEF IInv, TypeOK
<1>3. CASE BasicCheck
  BY <1>3, ResetAssumption DEF BasicCheck, IInv, TypeOK
<1>4. CASE GiveUp
  <2>1. phase = "basic" /\ result = "none"
    BY <1>4 DEF GiveUp, IInv
  <2>2. QED
    BY <1>4, <2>1 DEF GiveUp, Return, IInv, TypeOK
<1>5. CASE UNCHANGED vars
  BY <1>5 DEF vars, IInv, TypeOK
<1>6. QED
  BY <1>1, <1>2, <1>3, <1>4, <1>5 DEF Next

\* Every variable of reset_sync keeps its type: the loop index stays in
\* 1..N+1, the node is reset only at listed endpoints, and the exit code
\* is unset, 0 or 1.
THEOREM TypeCorrect == Spec => []TypeOK
<1>1. IInv => TypeOK
  BY DEF IInv
<1>2. QED
  BY <1>1, InitIInv, StepIInv, PTL DEF Spec

\* For every list of endpoints and every node: when reset_sync reports a
\* success, the endpoint it names is the one the node reset last, because
\* the loop returns at the first 2xx answer.
THEOREM ReportNamesLastResetThm == Spec => []ReportNamesLastReset
<1>1. IInv => ReportNamesLastReset
  BY DEF IInv, ReportNamesLastReset
<1>2. QED
  BY <1>1, InitIInv, StepIInv, PTL DEF Spec

=============================================================================
