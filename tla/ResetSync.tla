------------------------------ MODULE ResetSync ------------------------------
(***************************************************************************)
(* ShadowyWASM.reset_sync (src/shadowy-python/shadowy_cli.py 606-725) and *)
(* the reset-sync command (1336-1376).  For each reset endpoint in turn   *)
(* it POSTs; a 2xx answer ends the loop with success, another answer is   *)
(* followed by a GET of the same endpoint, and a RequestException moves   *)
(* on to the next endpoint.  When none answered 2xx it GETs the basic     *)
(* endpoints and reports failure.  Every request has a 30 s (10 s)        *)
(* timeout.                                                               *)
(*                                                                         *)
(* The node is the environment: for each endpoint and each method it     *)
(* does not reset, resets and answers 200/201/202, or resets and answers  *)
(* another status (204, 500), fixed for a behaviour.  A 2xx the loop      *)
(* accepts is taken to mean the node reset.  A request may time out       *)
(* before it reaches the node or after the node has acted on it.          *)
(***************************************************************************)
EXTENDS Integers, Sequences

CONSTANTS
    ResetEndpoints,   \* reset_endpoints, in the order the code tries them
    BasicCount,       \* the number of basic_endpoints
    NoEndpoint,
    MayTimeOut        \* a request may raise Timeout or ConnectionError

ASSUME ResetAssumption ==
    /\ ResetEndpoints \in Seq({ResetEndpoints[k] : k \in DOMAIN ResetEndpoints})
    /\ \A k \in DOMAIN ResetEndpoints : ResetEndpoints[k] # NoEndpoint
    /\ BasicCount \in Nat
    /\ MayTimeOut \in BOOLEAN

N == Len(ResetEndpoints)
Methods == {"post", "get"}
Reactions == {"none", "reset_ok", "reset_other"}
Kinds == [Methods -> Reactions]

VARIABLES
    kind,       \* how the node reacts to each endpoint and method (fixed)
    i,          \* the endpoint the loop is at
    phase,      \* "post", "get", "basic", "done"
    bi,         \* the basic endpoint being checked
    applied,    \* the resets the node performed, in order
    result,     \* "none", "success", "failure"
    used,       \* endpoint_used of a successful result
    exitCode    \* the command's exit status once it has ended

vars == <<kind, i, phase, bi, applied, result, used, exitCode>>
NoExit == -1

\* The endpoint at the loop's index; whether a request to it with method m
\* makes the node reset, and whether its answer is in [200, 201, 202].
Cur == ResetEndpoints[i]
Resets(m) == kind[i][m] \in {"reset_ok", "reset_other"}
Succeeds(m) == kind[i][m] = "reset_ok"

\* The node's effect of a request it received.
Apply(m) == applied' = IF Resets(m) THEN Append(applied, i) ELSE applied

\* The loop moves on to the next endpoint, or to the basic checks.
NextEndpoint ==
    /\ i' = i + 1
    /\ phase' = IF i < N THEN "post" ELSE "basic"

\* reset_sync returns; the command prints the result and its function
\* returns, so the process exits 0 whatever the result.
Return(r) ==
    /\ phase' = "done"
    /\ result' = r
    /\ exitCode' = 0

-----------------------------------------------------------------------------
Init ==
    /\ kind \in [1..N -> Kinds]
    /\ i = 1
    /\ phase = IF N > 0 THEN "post" ELSE "basic"
    /\ bi = 1
    /\ applied = <<>>
    /\ result = "none"
    /\ used = NoEndpoint
    /\ exitCode = NoExit

\* Mutant: the success of a POST is recorded but the loop goes on.
PostAnsweredNoReturn ==
    /\ phase = "post"
    /\ Apply("post")
    /\ IF Succeeds("post")
         THEN /\ result' = "success" /\ used' = Cur /\ NextEndpoint
              /\ UNCHANGED exitCode
         ELSE /\ phase' = "get" /\ UNCHANGED <<i, result, used, exitCode>>
    /\ UNCHANGED <<kind, bi>>

\* requests.post answers (637-659): 2xx returns success at once.
PostAnswered ==
    /\ phase = "post"
    /\ Apply("post")
    /\ IF Succeeds("post")
         THEN /\ Return("success") /\ used' = Cur /\ UNCHANGED i
         ELSE /\ phase' = "get" /\ UNCHANGED <<i, result, used, exitCode>>
    /\ UNCHANGED <<kind, bi>>

\* Mutant: after a non-2xx GET the endpoint is POSTed again.
GetAnsweredRetry ==
    /\ phase = "get"
    /\ Apply("get")
    /\ IF Succeeds("get")
         THEN /\ Return("success") /\ used' = Cur /\ UNCHANGED i
         ELSE /\ phase' = "post" /\ UNCHANGED <<i, result, used, exitCode>>
    /\ UNCHANGED <<kind, bi>>

\* requests.get of the same endpoint answers (661-688).
GetAnswered ==
    /\ phase = "get"
    /\ Apply("get")
    /\ IF Succeeds("get")
         THEN /\ Return("success") /\ used' = Cur /\ UNCHANGED i
         ELSE /\ NextEndpoint /\ UNCHANGED <<result, used, exitCode>>
    /\ UNCHANGED <<kind, bi>>

\* The POST or the GET raises (690-696): the request was lost, or the
\* node acted on it and the answer did not come within the timeout.  The
\* loop continues with the next endpoint, without a GET.
RequestFails ==
    /\ MayTimeOut
    /\ phase \in {"post", "get"}
    /\ \E reached \in BOOLEAN :
         IF reached THEN Apply(phase) ELSE UNCHANGED applied
    /\ NextEndpoint
    /\ UNCHANGED <<kind, bi, result, used, exitCode>>

\* Mutant: the basic loop runs once too often.
BasicCheckOneMore ==
    /\ phase = "basic"
    /\ bi <= BasicCount + 1
    /\ bi' = bi + 1
    /\ UNCHANGED <<kind, i, phase, applied, result, used, exitCode>>

\* One GET of a basic endpoint (704-716); its outcome is only printed.
BasicCheck ==
    /\ phase = "basic"
    /\ bi <= BasicCount
    /\ bi' = bi + 1
    /\ UNCHANGED <<kind, i, phase, applied, result, used, exitCode>>

\* No reset endpoint answered 2xx (718-724).
GiveUp ==
    /\ phase = "basic"
    /\ bi > BasicCount
    /\ Return("failure")
    /\ UNCHANGED <<kind, i, bi, applied, used>>

Next == PostAnswered \/ GetAnswered \/ RequestFails \/ BasicCheck \/ GiveUp

\* A single-threaded process whose every request has a timeout.
Spec == Init /\ [][Next]_vars /\ WF_vars(Next)

-----------------------------------------------------------------------------
(* Properties.                                                            *)

TypeOK ==
    /\ kind \in [1..N -> Kinds]
    /\ i \in 1..N+1
    /\ phase \in {"post", "get", "basic", "done"}
    /\ bi \in 1..BasicCount+1
    /\ applied \in Seq(1..N)
    /\ result \in {"none", "success", "failure"}
    /\ exitCode \in {NoExit, 0, 1}

\* The endpoint a successful reset_sync names is the last reset the node
\* performed: once a reset is reported, the loop tries nothing else.
ReportNamesLastReset ==
    result = "success" => applied # <<>> /\ ResetEndpoints[applied[Len(applied)]] = used

\* reset_sync ends, whatever the node does.
ResetEnds == <>(phase = "done")

\* One reset-sync run makes the node reset at most once: the loop stops
\* at the first endpoint that resets.
AtMostOneReset == Len(applied) <= 1

=============================================================================
