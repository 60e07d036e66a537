SPECIFICATION AuthoritySpec
CONSTANTS
 Base <- MCBase
 Rs = 1
 Rt = 0
 MaxRtt = 3
 MaxUncertainty = 4
 MaxTime = 1
 MaxBoots = 1
 MaxMappings = 2
 v1 = v1
 v2 = v2
 Verifiers = {v1, v2}
 NoRecord = NoRecord
 Record <- MCRecords
 Revocable = {"run", "s5", "key"}
 Effectives = {0, 2}
 MaxNow = 2
 MaxReboots = 1
 MaxRevocations = 1
SYMMETRY VerifierSymmetry
INVARIANT OffsetBounded ActedOnce RevocationNotHidden LeaseNotStretched GuardAgreesWithEvaluator
PROPERTY ClosedNeverChosen
CHECK_DEADLOCK FALSE
