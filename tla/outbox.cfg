SPECIFICATION OutboxSpec
CONSTANTS
    handler = handler
    workflow = workflow
    received = received
    started = started
    completed = completed
    Writers <- MCWriters
    EventIds <- MCEventIds
    Limit <- MCLimit
    MaxEmits <- MCMaxEmits
    MaxFailures <- MCMaxFailures
INVARIANTS
    NothingIsPassedOver
PROPERTY
    EventsAreDelivered
CHECK_DEADLOCK FALSE
