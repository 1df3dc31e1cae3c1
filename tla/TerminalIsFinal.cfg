\* Two requests at a time on one execution, stale writes included.
CONSTANTS
    c1 = c1
    c2 = c2
    h1 = h1
    h2 = h2
    e1 = e1
    Clusters = {c1, c2}
    NoProducer = NoProducer
    Executions = {e1}
    Handlers = {h1, h2}
    Events <- MCEvents
    BufferSize = 1
    Notifying <- MCNotifying
SPECIFICATION Spec
SYMMETRY MCSymmetry
PROPERTY
    TerminalIsFinal
