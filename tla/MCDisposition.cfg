\* The crons of the API and of the worker process, which fail, beside one records manager and any environment.
SPECIFICATION FairSpec
CONSTANTS
    Docs = {d1}
    Evaluators = {api, worker}
    Managers = {m1}
    TriggerKinds = {"creation", "last_modified"}
    MaxRecords = 2
    MaxFailures = 2
    None = None
INVARIANTS
    OpenBounded
PROPERTIES
    
    DueIsOpened
