\* Two threads and one template, which is never localised.
CONSTANTS
    t1 = t1
    t2 = t2
    Thread = {t1, t2}
    StaticName = {"dir", "css"}
    Directory = {"dir"}
    SuffixOf <- NameSuffix
    TemplateName = {"page"}
    Locales <- NoLocale
    Size <- Sizes
    TornSizes = {0, 1}
    CacheTimeout = 1
    MaxCost = 2
    MaxCachedFileSize = 1
    MaxClock = 2
    MaxChanges = 1
    MaxCalls = 3
SYMMETRY Symmetry
SPECIFICATION Spec
INVARIANT TemplatesCopied
\* The calls are bounded.
CHECK_DEADLOCK FALSE
