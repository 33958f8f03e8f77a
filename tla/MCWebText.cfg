\* Eight templates, four cookies, forms of two fields, seven lines, the reports of 2,916 shifts.
CONSTANTS
    Holds <- IsTrue
    Times <- Repetitions
    ValueOf <- Value
    Templates <- AllTemplates
    Cookies <- SomeCookies
    MaxCookies = 4
    Forms <- SomeForms
    Lines <- SomeLines
    Shifts <- SomeShifts
SPECIFICATION Spec
INVARIANTS RenderedAsDocumented CookiesComeBack ParametersComeBack LinesDecorated ReportAddsUp
\* Every task ends.
CHECK_DEADLOCK FALSE
