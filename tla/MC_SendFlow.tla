---------------------------- MODULE MC_SendFlow ----------------------------
(* Units scaled down: 4 smallest units per SHADOW, amounts typed in       *)
(* eighths of a SHADOW (so 1/8 SHADOW is half a smallest unit), a fee of  *)
(* one unit; the fixture is 10 and 5 SHADOW as in _create_mock_utxos.    *)
EXTENDS SendFlow

CONSTANTS m1, m2, tok, noTok

MCRecipients == {[name |-> "bob", lead |-> "S", len |-> 51],
                 [name |-> "bob", lead |-> "S", len |-> 50]}
MCFrom == [name |-> "me", lead |-> "S", len |-> 51]
\* refused amounts; 1/8 (0 units); amounts one input covers, exactly
\* (78/8: 39 units + fee = 40) or not; amounts that need both inputs
\* (96/8: 48 + 1) or exceed the fixture (128/8: 64 + 1 > 60)
MCAmounts == {-8, 0, 1, 10, 78, 96, 128}
U(id, vout, v) == [txid |-> id, vout |-> vout, value |-> v]
MCMock == <<U(m1, 0, 40), U(m2, 1, 20)>>
=============================================================================
