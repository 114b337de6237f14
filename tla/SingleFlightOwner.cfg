CONSTANTS
    Actors = {a1, a2, a3}
    MaxRevision = 4
    NoValue = NoValue
SPECIFICATION FairSpec
INVARIANTS ConnectingHasBuilder OutcomeIsCurrent NoMissedOutcome
PROPERTIES ShutIsFinal ObserverReturns
