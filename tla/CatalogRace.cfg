SPECIFICATION Spec
CONSTANTS
    Uris = {1, 2}
    AclOf <- TwoAcls
    Sources <- AllOrNone
    Runs = {i1, i2}
    Readers = {"ana", "ben"}
    GroupsOf <- TwoUsers
    PageSize = 1
    MaxEdits = 1
    MaxQuestions = 2
    MaxFaults = 1
INVARIANTS TypeOK CatalogConsistent RunConverges StaleIsExcused AclRespected
SYMMETRY RunSymmetry
CHECK_DEADLOCK FALSE
