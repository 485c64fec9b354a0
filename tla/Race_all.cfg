SPECIFICATION Spec
CONSTANTS
    Offer = {o1, o2}
    Request = {r1, r2}
    Op = {"accept", "counter", "decline", "send", "execute", "cancel"}
    None = None
SYMMETRY Symmetry
INVARIANTS
    OneLiveUnlessRevived
    AcceptedHasRow
