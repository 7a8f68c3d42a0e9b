SPECIFICATION Spec
CONSTANT N = 2
PROPERTIES
    ShutDownObeyed
