\* A clock of a few bits shows every wrap; two fixed blocks and four cells for
\* the rest of the EEPROM; a program that polls the radio, and whose pins
\* of antenna and DIO0 may fail.
SPECIFICATION HalSpec
CONSTANTS
    Modulus = 16
    BCAST_TIMEOUT = 4
    Period = 2
    EepromSize = 9
    BlockSize <- Blocks2
    ConfigMax = 2
    Byte = {0, 255}
    MaxLength = 3
    Flaky = {21, 24}
    Length = {1, 2}
    Polled = {"TXDONE", "RXDONE", "RXTOUT"}
INVARIANTS NeverEarly AtMostOneLate ListedIsRecent ModemMatches AntennaMatches SentWasSent LengthIsOwn
PROPERTIES GeneralKept BlockSpec TransmissionEnds
