\* Two people and two requests at once; three to-dos; three places; the whole board.
SPECIFICATION AppsSpec
CONSTANTS
    People = {ann, bob}
    Nobody = Nobody
    MaxRequests = 2
    MaxObjects = 2
    Texts = {milk, bread}
    Empty = Empty
    MaxTodos = 3
    MaxPlaces = 3
SYMMETRY Symmetry
INVARIANTS FollowingsTrue RefreshEnds TodosKept PlacesKept
PROPERTIES Decided
