SPECIFICATION Spec
CONSTANTS
    Properties <- MCProperties
    MaxProperties = 2
    HmacOutputs <- MCHmacOutputs
CHECK_DEADLOCK FALSE
INVARIANTS TotpTypeOK EachPropertyDecoded UrlApplied NoPanicInHotp CodeIsHotp
