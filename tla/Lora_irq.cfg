\* A program that waits for the interrupt only; nothing fails.
CONSTANTS
    Flaky = {}
    Length = {1}
    Polled = {}
SPECIFICATION FairSpec
PROPERTIES IrqInforms
