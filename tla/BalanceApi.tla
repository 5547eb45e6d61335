----------------------------- MODULE BalanceApi -----------------------------
(***************************************************************************)
(* The HTTP facade of src/balance_api.py: do_GET routes a path by the     *)
(* parts of self.path.split('/'), runs the same block scan as             *)
(* BalanceScan (calculate_balance, lines 61-108) for the address it       *)
(* extracted, and answers 200 with the balance, 500 when the scan raised, *)
(* 404 when the path did not route.  A path is the sequence of its '/'    *)
(* separated parts, so p[k] is parts[k-1].                                *)
(***************************************************************************)
EXTENDS BalanceScan

CONSTANTS
    Paths       \* request paths, as sequences of parts

VARIABLES
    path,       \* the path of the request being served
    reply       \* the answer sent for it

apiVars == <<vars, path, reply>>

NoReply == [code |-> 0, balance_satoshis |-> 0, transaction_count |-> 0]

AddressPrefix == <<"", "api", "v1", "address">>

\* self.path.startswith('/api/v1/address/'): the first four parts are
\* '', 'api', 'v1', 'address' and a fifth part follows the last '/'.
StartsWithAddressPrefix(p) ==
    Len(p) >= 5 /\ SubSeq(p, 1, 4) = AddressPrefix

\* len(parts) >= 5 and parts[4] == 'balance'
Routed(p) == StartsWithAddressPrefix(p) /\ p[5] = "balance"

\* address = parts[3]
Extracted(p) == p[4]

\* do_GET: route the path; a routed path starts the scan for the extracted
\* address, any other path is answered 404 at once.
Request(p) ==
    /\ pc \in {"idle"}
    /\ path' = p
    /\ IF Routed(p)
          THEN /\ pc' = "status"
               /\ target' = Extracted(p)
               /\ reply' = NoReply
          ELSE /\ reply' = [NoReply EXCEPT !.code = 404]
               /\ UNCHANGED <<pc, target>>
    /\ UNCHANGED <<nodeVars, latest, height, txi, outi, balance, rewards,
                   fetchFailed, aborted>>

\* handle_balance_request: the scan returned; answer 200 with the JSON body.
Reply200 ==
    /\ pc = "done"
    /\ reply' = [code |-> 200, balance_satoshis |-> balance,
                 transaction_count |-> rewards]
    /\ pc' = "idle"
    /\ UNCHANGED <<nodeVars, target, latest, height, txi, outi, balance,
                   rewards, fetchFailed, aborted, path>>

\* calculate_balance re-raised (the status query failed): answer 500.
Reply500 ==
    /\ pc = "error"
    /\ reply' = [NoReply EXCEPT !.code = 500]
    /\ pc' = "idle"
    /\ UNCHANGED <<nodeVars, target, latest, height, txi, outi, balance,
                   rewards, fetchFailed, aborted, path>>

\* The scan loop of calculate_balance (lines 72-100) is the loop of
\* check_balance.py: absent txs raise a TypeError there, which the
\* per-block except swallows like an empty block.
ApiScanStep == ScanStep /\ UNCHANGED <<path, reply>>

ApiInit == Init /\ path = <<>> /\ reply = NoReply

ApiNext ==
    \/ Grow /\ UNCHANGED <<path, reply>>
    \/ \E p \in Paths : Request(p)
    \/ ApiScanStep
    \/ Reply200
    \/ Reply500

ApiSpec == ApiInit /\ [][ApiNext]_apiVars /\ WF_apiVars(ApiScanStep)

-----------------------------------------------------------------------------
BalancePaths == { AddressPrefix \o <<a, "balance">> : a \in Addr }

(* Spec 6: GET /api/v1/address/<address>/balance is answered with the     *)
(* balance of <address>: never 404, and the scan it starts is for that    *)
(* address.                                                               *)
BalanceRouteServed ==
    path \in BalancePaths =>
        /\ reply.code # 404
        /\ pc # "idle" => target = path[5]
=============================================================================
