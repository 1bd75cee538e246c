SPECIFICATION Spec
INVARIANTS
    PagesConserved
    PrivateMemory
    
    
    HeapExact
    CommandsRun
    
    ParserExact
    
PROPERTIES
    EofReturnsEmpty
