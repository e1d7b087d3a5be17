\* One call with each retry setting; messages are lost, late or cancelled.
SPECIFICATION ClientSpec
CONSTANTS
    Retries <- MCRetries
PROPERTIES
    SendsOnlyToRetry
    ImplementsPublish
CHECK_DEADLOCK FALSE
