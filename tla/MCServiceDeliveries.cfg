SPECIFICATION FairSpec
CONSTANTS
    Workers = {}
    Events <- Messages
    Kind <- KindOfMessage
    FileId <- FileIdOfMessage
    MaxDeliveries = 2
    MaxFaults = 2
PROPERTIES
    MessagesArrive
