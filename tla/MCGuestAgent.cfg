SPECIFICATION AgentSpec
CONSTANT MaxClients = 3
INVARIANTS ReportsItsOwn AnswerStillComes
CHECK_DEADLOCK FALSE
