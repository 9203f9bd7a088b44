SPECIFICATION Spec
CONSTANTS
    Absent = 99
    Texts <- MCTexts
    Classes = {"HttpData", "MySqlHttpData"}
INVARIANTS
    MySqlTypeOK
    BuffersFit
    OneAnswer
    LengthErrorTrue
    AuthNeedsIds
    SilentOnlyActivation
    AnswerFromTable
