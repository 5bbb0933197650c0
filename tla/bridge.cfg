\* One decision in the inbox, one stop_run or answer_run, two events of Hermes beside its
\* reactions, and one fault: a connection, a post, a ledger write or Hermes's memory of the
\* run is lost, or hal0-api restarts.
SPECIFICATION LiveSpec
\* Every call is made at most once and the run ends, so the system may come to rest.
CHECK_DEADLOCK FALSE
CONSTANTS
    d1 = d1
    c1 = c1
    Deciders = {d1}
    Clients = {c1}
    MaxEvents = 2
    Faults = {"stream", "post", "ledger", "forget", "crash"}
    MaxFaults = 1
    Nobody = Nobody
INVARIANTS Safety RowIsCurrent
PROPERTIES TerminalSticks RowToAnswer QuestionEnds StopDelivered RunSettles
