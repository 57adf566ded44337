SPECIFICATION FairSpec
CONSTANTS
    c1 = c1  c2 = c2  q1 = q1  q2 = q2
    NoThread = NoThread
    NoQuestion = NoQuestion
    NoData = NoData
    Threads = {c1}
    Questions = {q1, q2}
    Faults = {"agent", "stream", "fetch", "age"}
INVARIANTS
    TypeOK
    RepliesHaveQuestions
    QuietThreadIsTrue
    NoQuestionTwice
PROPERTIES
    SendingEnds
    AnswerIsShown
