CONSTANTS
    Alphabet <- MCAlphabet
    Digits <- MCDigits
    Fold <- MCFold
    Keyword <- MCKeyword
    BeforeBuffer <- MCBeforeBuffer
    MaxLen = 5
    FormVars <- MCFormVars
    FormGroups <- MCFormGroups
    FormKeys <- MCFormKeys
    FormValues <- MCFormValues
    IndexTexts <- MCIndexTexts
    Stoi <- MCStoi
    MaxFields = 4
SPECIFICATION Spec
INVARIANTS
    AgreesEverywhere
    LiteralsLowered
    FormGroupsCompacted
