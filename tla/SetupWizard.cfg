SPECIFICATION SetupSpec
CONSTANTS
  Typed = {"LinearAPIKey", "ProjectSlug", "WebhookPort"}
  Projects = {"listed"}
  MaxChecks = 2
  MaxFetches = 1
INVARIANTS
  OptionsOfThisKey
PROPERTIES
  NeverClobbers
CHECK_DEADLOCK FALSE
