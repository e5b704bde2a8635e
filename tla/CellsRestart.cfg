CONSTANTS
    Arity <- BinaryTree
    Tops = 2
    NodeLevel = 2
    VCs = {"A", "B"}
    Groups = {"g1", "g2", "g3", "g4"}
    Settings <- GangRestart
SPECIFICATION Spec
INVARIANTS PodsKeepTheirCells
