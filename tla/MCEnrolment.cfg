CONSTANTS
    h1 = h1
    h2 = h2
    alice = alice
    bob = bob
    ch1 = ch1
    ch2 = ch2
    k1 = k1
    k2 = k2
    work = work
    Handler = {h1, h2}
    Name = {alice, bob}
    Challenge = {ch1, ch2}
    Credential = {k1, k2}
    Nickname = {work}
SPECIFICATION Spec
INVARIANTS
    TypeOK
    OwnedByRegistrant
    RevocationIsFinal
SYMMETRY EnrolmentSymmetry
