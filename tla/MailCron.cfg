SPECIFICATION FairSpec
CONSTANTS
    None = None
    Messages = {m1}
    Addresses = {a1, a2}
    Recipients <- MCRecipients
    Crons = {k1, k2}
    Retries = 1
    BatchSize = 2
    MaxCrashes = 1
    MaxErrors = 1
INVARIANTS AllOrNothing TriesTotal
PROPERTIES SentOnce MailGoesOut
