SPECIFICATION FairSpec
CONSTANTS
  Requests = {r1, r2}
  Agent = agent
  NoLeg = NoLeg
  NoTicket = NoTicket
  Tickets = {t1}
  Budgets <- MCBudgets
INVARIANT GoodbyePlayed
PROPERTIES TicketOnce DeadLegEnds NothingOutlives
CHECK_DEADLOCK FALSE
