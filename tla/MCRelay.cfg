\* Ids up to 50 in words of 640; room for a header and three characters.
SPECIFICATION Spec
CONSTANTS
    MaxIdent = 50
    Word = 640
    LongMax = 1279
    MaxPayload = 27
    Me <- MCMe
    Lines <- MCLines
    Noises <- MCNoises
    Idents = {1, 50}
    MaxHops = 2
INVARIANTS TypeOK RepeatedAsHeard MeantIsHeard CutAtTheEnd IdentIsWritten
