SPECIFICATION MCSpec
CONSTANTS
    Resolver = {r1, r2}
    Answer = {"retry_assessment", "pass", "fail"}
    MaxParks = 2
    Stalls = TRUE
    MaxResolverCrashes = 1
    MaxCrashes = 1
    PromptParks = 3
    PromptCrashes = 2
INVARIANTS
    InFlightAnswerLands
PROPERTIES
    GatedParkHeld
    PromptParkIsNoTrap
