CONSTANTS
    Desc = {d1, d2, d3}
    None = None
    NameLimit = 1
    DialogLimit = 2
SPECIFICATION FairLoop
INVARIANTS ListsSound AllServed
PROPERTIES StraysByNextOnly SilentLeaves
