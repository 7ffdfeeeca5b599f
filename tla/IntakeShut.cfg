\* One order: the trace scan delivers while a verification holds the gate closed.
SPECIFICATION IntSpec
CONSTANTS
    Orders = {o1}
    Signals = {"pending_ship", "completed"}
PROPERTIES
    ShutStopsDelivery
CHECK_DEADLOCK FALSE
