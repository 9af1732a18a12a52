CONSTANTS
    None = None
    mq = mq  mk1 = mk1  mk2 = mk2  m0 = m0
    w = w  wk = wk  pr = pr  cf = cf  st = st
    Clis = {c1}
    Quants <- MCQuants
    Prefix <- MCPrefix
    Manifests = {mq, mk1, mk2, m0}
    QuantOf <- MCQuantOf
    Files = {w, wk, pr, cf, st}
    FilesOf <- MCFilesOf
    Weights = {w, wk}
    Projector <- MCProjector
    Config <- MCConfig
    Advisory <- MCAdvisory
    Tags = {"snap"}
    Refs <- MCRefs
    Confs <- MCConfs
    SwarmEnabled = TRUE
    MaxPublish = 3
    MaxLost = 1
SPECIFICATION Spec
INVARIANTS
    TypeOK
    LaunchServesRef
    LaunchConfigured
PROPERTY RebindExplicit
