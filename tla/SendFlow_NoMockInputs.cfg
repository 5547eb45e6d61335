CONSTANTS
    m1 = m1
    m2 = m2
    tok = tok
    noTok = noTok
    Fee = 1
    SatPerUnit = 4
    AmountDen = 8
    Amounts <- MCAmounts
    Recipients <- MCRecipients
    From <- MCFrom
    Tokens = {tok}
    NoToken = noTok
    TxIds = {m1, m2}
    MockUtxos <- MCMock
SPECIFICATION Spec
INVARIANTS NoMockInputs
