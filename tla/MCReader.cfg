CONSTANTS
    Base = 2
    Width = 2
    Catalog <- MCCatalog
    AtStart = {1, 2, 3, 4, 5}
    Dicts = {"d1", "d2"}
    Workers = {w1, w2}
    Jobs <- MCJobs
    WINDOW = 2
    MAX_PAGE = 2
    DEFAULT_PAGE = 3
    MAX_AUTHORS = 3
    MAX_SIZE = 2
    MAX_I64 = 5
    MaxWrites = 2
SYMMETRY Symmetry
SPECIFICATION ReaderSpec
INVARIANTS ScanComplete AuthorsComplete BucketIsNewest
PROPERTIES SkipsOnlyUndecodable
CHECK_DEADLOCK FALSE
