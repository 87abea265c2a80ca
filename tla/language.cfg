CONSTANTS
 MaxCharacters = 3
 MaxWords = 4
 MaxTypes = 3
 MaxDeclarations = 4
 MaxClauses = 6
 MaxItems = 2
 MaxParts = 3
SPECIFICATION Spec
PROPERTIES
 FormattingIsLocal
 StatementsAgree
 NamesAgree
 TypesAgree
 OffersAgree
 JoinsAreUnderstood
CHECK_DEADLOCK FALSE
