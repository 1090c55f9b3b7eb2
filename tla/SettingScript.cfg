SPECIFICATION ScriptSpec
CONSTANTS
    KeySeqs <- MCKeySeqs
    Size <- MCSize
    Literals <- MCLiterals
    Names = {"x"}
    Keys = {"s"}
    Symbols <- MCSymbols
    ScriptSymbols = {"B"}
    Defaults = {"D"}
    StartSymbols <- MCStartSymbols
    Lines <- MCLines
    SubTexts <- MCSubTexts
    Compiled <- CompileFile
    MaxLines = 4
    MaxCalls <- MCMaxCalls
INVARIANTS
    ReadAsWritten
    IndexesResolve
CHECK_DEADLOCK FALSE
