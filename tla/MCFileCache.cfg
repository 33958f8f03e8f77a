\* Two threads, a static file in a directory, a template with a locale.
CONSTANTS
    t1 = t1
    t2 = t2
    Thread = {t1, t2}
    StaticName = {"dir", "css"}
    Directory = {"dir"}
    SuffixOf <- NameSuffix
    TemplateName = {"page"}
    Locales <- OneLocale
    Size <- Sizes
    TornSizes = {0, 1}
    CacheTimeout = 1
    MaxCost = 1
    MaxCachedFileSize = 1
    MaxClock = 2
    MaxChanges = 1
    MaxCalls = 3
SYMMETRY Symmetry
SPECIFICATION Spec
INVARIANTS TypeOK EntriesHonest AnswersFresh StaticFilesCopied
\* The calls are bounded.
CHECK_DEADLOCK FALSE
