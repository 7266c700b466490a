SPECIFICATION Spec
CONSTANTS
    Modulus = 8
    Versions = {"v", "w"}
    Setups <- MCSetups
INVARIANTS
    TablesExact
    ListsExact
    DataInPlace
    AnsweredAgain
PROPERTIES
    SeqDataInPlace
    BytesStay
    ImplementsDatagram
