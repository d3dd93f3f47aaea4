SPECIFICATION Spec
CHECK_DEADLOCK FALSE
CONSTANTS
    Chars <- AmountChars
    MaxLength = 7
INVARIANTS ReadsItsDigits DebitRefused
