\* Two users and two wallets, four challenges; they expire, are tried twice and with foreign signatures.
\* The links may stay as they are: nobody owes them a request.
SPECIFICATION Spec
CONSTANTS
  Users = {u1, u2}
  Addresses = {w1, w2}
  Ttl = 2
  MaxChallenges = 4
  MaxClock = 4
SYMMETRY MCSymmetry
CHECK_DEADLOCK FALSE
INVARIANTS
  LinksAreOneToOne
PROPERTIES
  LinksUseUpAChallenge
  ChallengesAreUsedOnce
