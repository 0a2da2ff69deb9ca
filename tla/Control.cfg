CONSTANTS
    FieldOrder <- Order
    Required = {"Package"}
    OtherField = {"Essential"}
    Word = {"text"}
    MaxPad = 2
    MaxLines = 3
    None = None
SPECIFICATION Spec
INVARIANT FieldsCopied
CHECK_DEADLOCK FALSE
