CONSTANTS
    MaxValue = 4
    NoNumber = NoNumber
    Arguments <- FilterArguments
    Texts <- FilterTexts
SPECIFICATION Spec
INVARIANTS
    TypeOK
    RangesApart
    ContainsIsMembership
    IntersectsIsOverlap
    AcceptedTextIsSet
