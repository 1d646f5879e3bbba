SPECIFICATION Spec
CONSTANTS
    Clients = {c1}
    Contents = {x1, x2}
    MaxVersion = 3
    None = None
INVARIANT WebhookResolves
CHECK_DEADLOCK FALSE
