SPECIFICATION Spec
CONSTANTS
    Pages = {page1, page2}
    Pids = {pid1, pid2, pid3}
    NoPid = NoPid
    Contents = {1, 2}
    Edits <- TwoEdits
SYMMETRY Symmetry
INVARIANTS
    OldPageRefused
