SPECIFICATION SetupSpec
CONSTANTS
  Typed = {"LinearAPIKey", "ProjectSlug", "WebhookPort"}
  Projects = {"listed"}
  MaxChecks = 2
  MaxFetches = 1
PROPERTY WrittenWasChecked
CHECK_DEADLOCK FALSE
