\* Papers of at most three questions, read two to a call, with two page images.
SPECIFICATION MCSpec
CONSTANTS
    a = a
    ai = ai
    b = b
    Number = {1, 2, 3, 4}
    PartOf <- MCPartOf
    Label = {a, ai, b}
    Whole <- MCWhole
    Size = 2
    Pages <- MCPages
    PageCount = 2
    MaxQuestions = 3
INVARIANTS QuestionsAreShownWhole NothingReadIsLost AnswersStand RefusedOnlyForGaps
CHECK_DEADLOCK FALSE
