CONSTANTS
    Projects <- MCProjects
    Tokens <- MCTokens
    Lowercase <- MCLowercase
    Numbers = {"1"}
    Forwards <- MCForwards
    MaxTokens = 5
    MaxParserRecursion = 3
SPECIFICATION Spec
INVARIANT TypeOK
INVARIANT CallsKeepTheirFrames
INVARIANT CalledAsDeclared
 
