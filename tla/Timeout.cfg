SPECIFICATION FairSpec
CONSTANTS
    Callers = {c1, c2}
    Limit = 2
PROPERTIES
    TimesOutWhateverFnDoes
