---------------------------- MODULE SendMachine ----------------------------
(***************************************************************************)
(* The send flow as spec 4.5 states it: Idle -> CandidatesFetched ->      *)
(* InputsSelected -> Assembled -> Signed -> Success, with Failed reached  *)
(* from any step and, like Success, terminal for the send; a failure is   *)
(* never retried.  Only a new send command starts again from Idle.        *)
(*                                                                         *)
(* What each step promises of the data: the selected inputs cover the     *)
(* amount and the fee (spec 4.4), the assembled outputs are the recipient *)
(* output and a change output exactly when something is left over         *)
(* (spec 4.5), and signing and broadcasting leave the record unchanged.   *)
(***************************************************************************)
EXTENDS Naturals, Sequences

CONSTANTS
    Fee,          \* the fee of a send, in smallest units
    Recipients,   \* the recipients a send may name
    From          \* the sender's address, which receives the change

VARIABLES
    state,        \* the state of spec 4.5
    to,           \* the recipient of the current send
    amount,       \* the amount sent, in smallest units
    inputTotal,   \* the value of the selected inputs
    outputs       \* the outputs of the assembled record

vars == <<state, to, amount, inputTotal, outputs>>

States == {"Idle", "CandidatesFetched", "InputsSelected", "Assembled",
           "Signed", "Success", "Failed"}
Terminal == {"Success", "Failed"}

\* The optional change output.
Change(c) == IF c > 0 THEN <<[address |-> From, value |-> c]>> ELSE <<>>

Init ==
    /\ state = "Idle"
    /\ to \in Recipients
    /\ amount = 0
    /\ inputTotal = 0
    /\ outputs = <<>>

\* A send command for recipient r; an earlier send has ended.
NewSend(r) ==
    /\ state \in {"Idle"} \cup Terminal
    /\ state' = "Idle"
    /\ to' = r
    /\ amount' = 0
    /\ inputTotal' = 0
    /\ outputs' = <<>>

\* The candidates are fetched and the amount is fixed; with no candidates
\* at all the send fails here.
FetchCandidates ==
    /\ state = "Idle"
    /\ state' \in {"CandidatesFetched", "Failed"}
    /\ amount' \in Nat
    /\ UNCHANGED <<to, inputTotal, outputs>>

\* Inputs are selected that cover amount + fee.
SelectInputs ==
    /\ state = "CandidatesFetched"
    /\ state' = "InputsSelected"
    /\ inputTotal' \in Nat
    /\ inputTotal' >= amount + Fee
    /\ UNCHANGED <<to, amount, outputs>>

\* The record: the recipient output and the change output, if any.
Assemble ==
    /\ state = "InputsSelected"
    /\ state' = "Assembled"
    /\ outputs' = <<[address |-> to, value |-> amount]>>
                    \o Change(inputTotal - amount - Fee)
    /\ UNCHANGED <<to, amount, inputTotal>>

Sign ==
    /\ state = "Assembled"
    /\ state' = "Signed"
    /\ UNCHANGED <<to, amount, inputTotal, outputs>>

Broadcast ==
    /\ state = "Signed"
    /\ state' = "Success"
    /\ UNCHANGED <<to, amount, inputTotal, outputs>>

\* A step fails: funds short, signing or broadcasting failed.
Fail ==
    /\ state \in {"CandidatesFetched", "Assembled", "Signed"}
    /\ state' = "Failed"
    /\ UNCHANGED <<to, amount, inputTotal, outputs>>

Next ==
    \/ \E r \in Recipients : NewSend(r)
    \/ FetchCandidates \/ SelectInputs \/ Assemble \/ Sign \/ Broadcast
    \/ Fail

Spec == Init /\ [][Next]_vars
=============================================================================
