SPECIFICATION Spec
CONSTANTS
    Ways <- SomeWays
    Texts <- SomeTexts
    HourTexts <- SomeHours
    Times <- SomeTimes
INVARIANTS ModeTablesAgree AccessIsTheMostSpecific GeneralLimitIsReported
           ConditionSurvivesDisplay OpenAcrossMidnight
CHECK_DEADLOCK FALSE
