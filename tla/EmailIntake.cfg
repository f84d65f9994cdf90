\* Two replicas, a repeated mail and a reply, one failure.
SPECIFICATION FairIntakeSpec
CONSTANTS
    first = first
    again = again
    reply = reply
    further = further
    opening = opening
    answer = answer
    rejoinder = rejoinder
    w1 = w1
    w2 = w2
    NoMessage = NoMessage
    Content <- Contents
    ReplyTo <- Replies
    Names <- QuotedNumbers
    Messages = {opening, answer}
    Deliveries = {first, again, reply}
    Suspect = {answer}
    Unstorable = {}
    Workers = {w1, w2}
    MaxFailures = 1
INVARIANTS
    OneOutcome
    ProcessedIsComplete
PROPERTIES
    RecordedUnlessFailure
CHECK_DEADLOCK FALSE
