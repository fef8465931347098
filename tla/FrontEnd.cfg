SPECIFICATION Spec
CONSTANTS
    MAX_EXPRESSION_DEPTH = 6
    MAX_RECURSIVE_DEPTH = 4
    MAX_TYPE_DEPTH = 3
    U64 <- MCU64
    I64 <- MCI64
    U8 <- MCU8
    Unescaped <- MCUnescaped
    RUST_KEYWORDS <- MCKeywords
    NotIdentifiers <- MCNotIdentifiers
    Nfc <- MCNfc
    Declared <- MCDeclared
    Qualified <- MCQualified
    Helpers <- MCHelpers
    Exported <- MCExported
    Damaged <- MCDamaged
    Pieces <- MCPieces
INVARIANTS
    TextIsKept
    BudgetsHold
    BindingKept
    BindersUnique
CHECK_DEADLOCK FALSE
