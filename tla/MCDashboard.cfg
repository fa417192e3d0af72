SPECIFICATION DashboardSpec
CONSTANTS
    n1 = n1
    a1 = a1
    a2 = a2
    Feed = {n1, n2}
    EmptyFolder = {n3}
    ArticlesOf <- PageArticles
    NoNode = none
    MaxRequests = 2
    MaxLost = 1
SYMMETRY Symmetry
INVARIANTS
    ReaderShowsSelected
    SkeletonMeansRequest
    CountsReconcile
PROPERTY ListIsOfNode
CHECK_DEADLOCK FALSE
