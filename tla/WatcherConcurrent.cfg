SPECIFICATION Spec
CONSTANTS
    Hold = {h1, h2, h3}
    Caller = {c1, c2}
    Nobody = Nobody
    Serial = FALSE
INVARIANT OneWatcher
SYMMETRY Interchangeable
