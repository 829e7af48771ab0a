SPECIFICATION Spec
CONSTANTS
    Firmwares <- All
    Named <- EndpointsNamed
    Strings = 3
INVARIANTS TypeOK RecordsAgree ReadAnswered
PROPERTIES AnswersTold
