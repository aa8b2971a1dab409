SPECIFICATION Spec
CONSTANTS
    Sessions = {"app", "late", "other"}
    NoOne = "nobody"
    Names = {"tea", "Tea", "milk", "rice"}
    Key <- SameKey
    Texts = {"", "note"}
    MaxTopic = 3
    MaxArticle = 4
    DailyLimit = 2
    Says <- FirstSaysNote
    PageSize = 1
    Picked = 1
    Searches = {"", "note"}
    Initially <- TeaAndMilk
    Saved = 2
    Bounds <- AllUses
INVARIANTS
    StoreIsSound
    ListsAreWhole
PROPERTIES
    EditsReplaceWhatWasSeen
    WorkIsKept
CHECK_DEADLOCK FALSE
