\* Every answer, risk and header; targets around 10 and 50; every call and flaw.
SPECIFICATION Spec
CONSTANTS
    MaxTargets = 52
    DayLength = 24
INVARIANTS
    PolicySound
    RulesAgree
    CallsSound
    TokensExact
    PlanRulesSound
    TemplatesFit
CHECK_DEADLOCK FALSE
