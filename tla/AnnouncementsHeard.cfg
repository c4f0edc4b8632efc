SPECIFICATION AnnouncementsSpec
CONSTANTS
    Friends = {f1}
    MaxLaunches = 2
    MaxTold = 2
    MaxAnswers = 2
INVARIANT HeardFromKnowsAddress
CHECK_DEADLOCK FALSE
