SPECIFICATION Spec
INVARIANTS
    PluginUsedInOrder
    CasSessionClosed
