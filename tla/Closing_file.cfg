SPECIFICATION FileSpec
CONSTANTS
    Key <- FollowedKeys
    TitleIssue = {t1}
    OtherIssue = {x1}
INVARIANTS
    ClearIsTrue
    TemplateIsComplete
