SPECIFICATION Spec
CONSTANTS
    key = key
    model = model
    enabled = enabled
    provider = provider
    rootKey = rootKey
    annKey = annKey
    envKey = envKey
    gpt = gpt
    envModel = envModel
    root = root
    ann = ann
    Admins = {root}
    Members = {ann}
    Secrets = {key}
    Texts = {model}
    Switches = {enabled, provider}
    Personal = {key, model, enabled}
    Enable = enabled
    Provider = provider
    Default <- MCDefault
    Envs <- MCEnvs
    Typed <- MCTyped
    Tabs = {"tab"}
    Blank = Blank
    Mask = Mask
    On = On
    Off = Off
    NoPage = NoPage
INVARIANTS
    TypeOK
    RoundTrip
    SecretsTyped
    StoredWhole
