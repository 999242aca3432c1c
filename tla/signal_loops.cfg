SPECIFICATION Spec
CONSTANTS
    Apps = {a}
    a = a
    HookChoices = {{}, {"answer"}}
    MaxMsgs = 2
INVARIANTS AnswersInOrder
PROPERTIES EndTogether AllProcessed
CHECK_DEADLOCK FALSE
