------------------------- MODULE WalletLinks_proofs -------------------------
(* What holds of WalletLinks for all users, wallets, lifetimes and bounds. *)
EXTENDS WalletLinks, TLAPS

-----------------------------------------------------------------------------
(* Type correctness. *)

(* Init of WalletLinks: the empty store is well formed.                    *)
LEMMA InitTyped == Init => TypeOK
  BY ConstantsAssumption DEF Init, TypeOK, LinkType, ChallengeType

(* createChallenge keeps the store well formed.                            *)
LEMMA CreateChallengeTyped ==
  ASSUME TypeOK, NEW user \in Users, NEW address \in Addresses, CreateChallenge(user, address)
  PROVE  TypeOK'
<1> DEFINE new == [user |-> user, address |-> address, expiresAt |-> clock + Ttl, used |-> FALSE]
<1>1. new \in ChallengeType
  BY ConstantsAssumption DEF TypeOK, ChallengeType
<1>2. Kept \subseteq DOMAIN challenges
  BY DEF Kept
<1> HIDE DEF new
<1>3. /\ challenges' = [c \in Kept \cup {issued + 1} |-> IF c \in Kept THEN challenges[c] ELSE new]
      /\ issued' = issued + 1 /\ links' = links /\ clock' = clock
  BY DEF CreateChallenge, new
<1>4. \A c \in Kept \cup {issued + 1} : challenges'[c] \in ChallengeType
  BY <1>1, <1>2, <1>3 DEF TypeOK
<1>5. DOMAIN challenges' = Kept \cup {issued + 1}
  BY <1>3
<1>6. DOMAIN challenges' \subseteq 1..issued'
  BY <1>2, <1>3, <1>5 DEF TypeOK
<1>7. challenges' \in [DOMAIN challenges' -> ChallengeType]
  BY <1>3, <1>4, <1>5
<1>8. issued' \in Nat
  BY <1>3 DEF TypeOK
<1>9. tries' \in [1..issued' -> Seq(Users)]
  <2>1. tries' = [c \in 1..issued + 1 |-> IF c = issued + 1 THEN << >> ELSE tries[c]]
    BY DEF CreateChallenge
  <2>2. \A c \in 1..issued + 1 : c = issued + 1 \/ c \in 1..issued
    BY DEF TypeOK
  <2>3. << >> \in Seq(Users) /\ \A c \in 1..issued : tries[c] \in Seq(Users)
    BY DEF TypeOK
  <2> QED
    BY <1>3, <2>1, <2>2, <2>3
<1> QED
  BY <1>3, <1>6, <1>7, <1>8, <1>9 DEF TypeOK

(* verifyAndLink keeps the store well formed.                              *)
LEMMA VerifyTyped ==
  ASSUME TypeOK, NEW user \in Users, NEW c \in DOMAIN challenges, NEW signature \in Signatures,
         VerifyAndLink(user, c, signature)
  PROVE  TypeOK'
<1> DEFINE link == [user |-> user, address |-> challenges[c].address, key |-> signature.signer]
<1>1. challenges[c] \in ChallengeType
  BY DEF TypeOK
<1>2. link \in LinkType
  BY <1>1 DEF LinkType, ChallengeType, Signatures
<1> HIDE DEF link
<1>3. links' \subseteq links \cup {link}
  BY DEF VerifyAndLink, Upserted, link
<1>4. [challenges[c] EXCEPT !.used = TRUE] \in ChallengeType
  BY <1>1 DEF ChallengeType
<1>5. challenges' = [challenges EXCEPT ![c] = [challenges[c] EXCEPT !.used = TRUE]]
  BY DEF VerifyAndLink
<1>6. DOMAIN challenges' = DOMAIN challenges /\ challenges' \in [DOMAIN challenges -> ChallengeType]
  BY <1>4, <1>5 DEF TypeOK
<1>7. tries' \in [1..issued -> Seq(Users)]
  <2>1. c \in 1..issued /\ Append(tries[c], user) \in Seq(Users)
    BY DEF TypeOK
  <2> QED
    BY <2>1 DEF TypeOK, VerifyAndLink
<1> QED
  BY <1>2, <1>3, <1>6, <1>7 DEF TypeOK, VerifyAndLink

(* Every step keeps the store well formed.                                 *)
LEMMA StepTyped == TypeOK /\ [Next]_vars => TypeOK'
<1> SUFFICES ASSUME TypeOK, [Next]_vars PROVE TypeOK'
  OBVIOUS
<1>1. ASSUME NEW user \in Users, NEW address \in Addresses, CreateChallenge(user, address)
      PROVE  TypeOK'
  BY <1>1, CreateChallengeTyped
<1>2. ASSUME NEW user \in Users, NEW c \in DOMAIN challenges, NEW signature \in Signatures,
             VerifyAndLink(user, c, signature)
      PROVE  TypeOK'
  BY <1>2, VerifyTyped
<1>3. ASSUME NEW user \in Users, UnlinkWallet(user) PROVE TypeOK'
  BY <1>3 DEF UnlinkWallet, TypeOK
<1>4. CASE Tick
  BY <1>4 DEF Tick, TypeOK
<1>5. CASE UNCHANGED vars
  BY <1>5 DEF vars, TypeOK
<1> QED
  BY <1>1, <1>2, <1>3, <1>4, <1>5 DEF Next

(* Links and challenges are well formed in every reachable state.          *)
THEOREM WalletTypeCorrect == Spec => []TypeOK
  BY InitTyped, StepTyped, PTL DEF Spec

-----------------------------------------------------------------------------
(* One wallet per user, one user per wallet. *)

(* The check of verifyAndLink against other users, and upsertWalletLink    *)
(* against other wallets of the user, keep the links one to one.           *)
LEMMA StepOneToOne == LinksAreOneToOne /\ [Next]_vars => LinksAreOneToOne'
<1> SUFFICES ASSUME LinksAreOneToOne, [Next]_vars PROVE LinksAreOneToOne'
  OBVIOUS
<1>1. CASE links' \subseteq links
  BY <1>1 DEF LinksAreOneToOne
<1>2. ASSUME NEW user \in Users, NEW c \in DOMAIN challenges, NEW signature \in Signatures,
             VerifyAndLink(user, c, signature), ~(links' \subseteq links)
      PROVE  LinksAreOneToOne'
  <2> DEFINE address == challenges[c].address
             link == [user |-> user, address |-> address, key |-> signature.signer]
  <2>1. links' = (links \ ByUser(user)) \cup {link} /\ ~Taken(user, address)
    BY <1>2 DEF VerifyAndLink, Upserted
  <2>2. link.user = user /\ link.address = address
    OBVIOUS
  <2> HIDE DEF link, address
  <2>3. \A k \in links \ ByUser(user) : k.user # user /\ k.address # address
    BY <2>1 DEF ByUser, Taken
  <2> QED
    BY <2>1, <2>2, <2>3 DEF LinksAreOneToOne
<1>3. CASE Tick \/ UNCHANGED vars
  BY <1>1, <1>3 DEF Tick, vars
<1>4. ASSUME NEW user \in Users, UnlinkWallet(user) PROVE LinksAreOneToOne'
  BY <1>1, <1>4 DEF UnlinkWallet
<1>5. ASSUME NEW user \in Users, NEW address \in Addresses, CreateChallenge(user, address)
      PROVE  LinksAreOneToOne'
  BY <1>1, <1>5 DEF CreateChallenge
<1> QED
  BY <1>1, <1>2, <1>3, <1>4, <1>5 DEF Next

(* However users link, link anew and unlink, no wallet ever has two users  *)
(* and no user two wallets.                                                *)
THEOREM WalletsAreOneToOne == Spec => []LinksAreOneToOne
<1>1. Init => LinksAreOneToOne
  BY DEF Init, LinksAreOneToOne
<1> QED
  BY <1>1, StepOneToOne, PTL DEF Spec

-----------------------------------------------------------------------------
(* Challenges. *)

(* Every new link uses up a fresh challenge of its user for its address.   *)
THEOREM LinkingNeedsAChallenge == Spec => LinksUseUpAChallenge
<1> DEFINE Uses(l) ==
      /\ l.key = l.address
      /\ \E c \in DOMAIN challenges :
           /\ challenges[c].user = l.user /\ challenges[c].address = l.address
           /\ ~challenges[c].used /\ clock < challenges[c].expiresAt
           /\ c \in DOMAIN challenges' /\ challenges'[c].used
<1>1. ASSUME TypeOK, NEW l \in links' \ links, Next PROVE Uses(l)
  <2>1. PICK user \in Users, c \in DOMAIN challenges, signature \in Signatures :
          VerifyAndLink(user, c, signature)
    BY <1>1 DEF Next, CreateChallenge, UnlinkWallet, Tick
  <2>2. /\ l = [user |-> user, address |-> challenges[c].address, key |-> signature.signer]
        /\ signature.signer = challenges[c].address
    BY <1>1, <2>1 DEF VerifyAndLink, Upserted, Verifies
  <2>3. challenges[c].user = user /\ ~challenges[c].used /\ clock < challenges[c].expiresAt
    <3>1. challenges[c].expiresAt \in Nat /\ clock \in Nat
      BY <1>1 DEF TypeOK, ChallengeType
    <3> QED
      BY <2>1, <3>1 DEF VerifyAndLink, Usable, Expired
  <2>4. c \in DOMAIN challenges' /\ challenges'[c].used
    BY <1>1, <2>1 DEF VerifyAndLink, TypeOK, ChallengeType
  <2> QED
    BY <2>2, <2>3, <2>4
<1>2. TypeOK /\ [Next]_vars => [\A l \in links' \ links : Uses(l)]_vars
  BY <1>1 DEF vars
<1> QED
  BY <1>2, WalletTypeCorrect, PTL DEF Spec, LinksUseUpAChallenge

(* No challenge that somebody tried is unused: what keeps it from being    *)
(* tried again even when the sweep has taken it.                           *)
TriedAreSpent == \A c \in 1..issued : tries[c] # << >> => ~Unspent(c)

(* What a step may do to a challenge, the body of ChallengesAreUsedOnce.   *)
UsedOnce(c) ==
  /\ tries'[c] # tries[c] =>
       /\ Unspent(c) /\ clock < challenges[c].expiresAt
       /\ tries'[c] = <<challenges[c].user>>
  /\ tries'[c] = tries[c] /\ Unspent(c) /\ clock < challenges[c].expiresAt =>
       c \in DOMAIN challenges' /\ challenges'[c] = challenges[c]
  /\ tries'[c] # << >> => ~Unspent(c)'

(* createChallenge sweeps only what is used or expired and gives out a new *)
(* id, so that what was tried does not come back.                          *)
LEMMA CreateUsesNone ==
  ASSUME TypeOK, TriedAreSpent, NEW user \in Users, NEW address \in Addresses,
         CreateChallenge(user, address)
  PROVE  TriedAreSpent' /\ \A c \in 1..issued : UsedOnce(c)
<1> DEFINE new == [user |-> user, address |-> address, expiresAt |-> clock + Ttl, used |-> FALSE]
<1>1. /\ challenges' = [c \in Kept \cup {issued + 1} |-> IF c \in Kept THEN challenges[c] ELSE new]
      /\ tries' = [c \in 1..issued + 1 |-> IF c = issued + 1 THEN << >> ELSE tries[c]]
      /\ issued' = issued + 1
  BY DEF CreateChallenge
<1> HIDE DEF new
<1>2. \A c \in 1..issued : c # issued + 1 /\ c \in 1..issued + 1
  BY DEF TypeOK
<1>3. \A c \in 1..issued : tries'[c] = tries[c]
  BY <1>1, <1>2
<1>4. \A c \in 1..issued : c \in DOMAIN challenges' <=> c \in Kept
  BY <1>1, <1>2
<1>5. \A c \in Kept : challenges'[c] = challenges[c]
  BY <1>1
<1>6. Kept = {c \in DOMAIN challenges : ~challenges[c].used /\ challenges[c].expiresAt > clock}
  <2>1. \A c \in DOMAIN challenges : challenges[c].expiresAt \in Nat /\ clock \in Nat
    BY DEF TypeOK, ChallengeType
  <2> QED
    BY <2>1 DEF Kept, Expired
<1>7. \A c \in 1..issued : Unspent(c)' => Unspent(c)
  BY <1>4, <1>5, <1>6 DEF Unspent
<1>8. TriedAreSpent'
  <2>1. \A c \in 1..issued' : c = issued + 1 \/ c \in 1..issued
    BY <1>1 DEF TypeOK
  <2>2. tries'[issued + 1] = << >>
    BY <1>1 DEF TypeOK
  <2> QED
    BY <1>3, <1>7, <2>1, <2>2 DEF TriedAreSpent
<1>9. ASSUME NEW c \in 1..issued PROVE UsedOnce(c)
  <2>1. Unspent(c) /\ clock < challenges[c].expiresAt => c \in Kept
    <3>1. c \in DOMAIN challenges => challenges[c].expiresAt \in Nat /\ clock \in Nat
      BY DEF TypeOK, ChallengeType
    <3> QED
      BY <1>6, <3>1 DEF Unspent
  <2> QED
    BY <1>3, <1>4, <1>5, <1>7, <2>1 DEF UsedOnce, TriedAreSpent
<1> QED
  BY <1>8, <1>9

(* verifyAndLink uses up the challenge it was called with, an unspent one  *)
(* of its user, and leaves the others as they are.                         *)
LEMMA VerifyUsesOne ==
  ASSUME TypeOK, TriedAreSpent, NEW user \in Users, NEW d \in DOMAIN challenges,
         NEW signature \in Signatures, VerifyAndLink(user, d, signature)
  PROVE  TriedAreSpent' /\ \A c \in 1..issued : UsedOnce(c)
<1>1. /\ challenges' = [challenges EXCEPT ![d].used = TRUE]
      /\ tries' = [tries EXCEPT ![d] = Append(@, user)]
      /\ issued' = issued
  BY DEF VerifyAndLink
<1>2. d \in 1..issued /\ challenges[d] \in ChallengeType /\ clock \in Nat
  BY DEF TypeOK
<1>3. Unspent(d) /\ challenges[d].user = user /\ clock < challenges[d].expiresAt
  BY <1>2 DEF VerifyAndLink, Usable, Expired, Unspent, ChallengeType
<1>4. tries[d] = << >>
  BY <1>2, <1>3 DEF TriedAreSpent
<1>5. tries'[d] = <<user>>
  BY <1>1, <1>2, <1>4 DEF TypeOK
<1>6. d \in DOMAIN challenges' /\ challenges'[d].used
  BY <1>1, <1>2 DEF TypeOK, ChallengeType
<1>7. ~Unspent(d)'
  BY <1>6 DEF Unspent
<1>8. ASSUME NEW c \in 1..issued, c # d
      PROVE  /\ tries'[c] = tries[c] /\ Unspent(c)' = Unspent(c)
             /\ c \in DOMAIN challenges => c \in DOMAIN challenges' /\ challenges'[c] = challenges[c]
  <2>1. tries'[c] = tries[c]
    BY <1>1, <1>8 DEF TypeOK
  <2>2. /\ DOMAIN challenges' = DOMAIN challenges
        /\ c \in DOMAIN challenges => challenges'[c] = challenges[c]
    BY <1>1, <1>8 DEF TypeOK
  <2> QED
    BY <2>1, <2>2 DEF Unspent
<1>9. TriedAreSpent'
  BY <1>1, <1>7, <1>8 DEF TriedAreSpent
<1>10. UsedOnce(d)
  BY <1>3, <1>4, <1>5, <1>7 DEF UsedOnce
<1>11. ASSUME NEW c \in 1..issued, c # d PROVE UsedOnce(c)
  BY <1>8, <1>11 DEF UsedOnce, TriedAreSpent, Unspent
<1> QED
  BY <1>9, <1>10, <1>11

(* Every step keeps what was tried spent, and tries nothing twice.         *)
LEMMA StepUsesOnce ==
  ASSUME TypeOK, TriedAreSpent, [Next]_vars
  PROVE  TriedAreSpent' /\ \A c \in 1..issued : UsedOnce(c)
<1>1. ASSUME NEW user \in Users, NEW address \in Addresses, CreateChallenge(user, address)
      PROVE  TriedAreSpent' /\ \A c \in 1..issued : UsedOnce(c)
  BY <1>1, CreateUsesNone
<1>2. ASSUME NEW user \in Users, NEW d \in DOMAIN challenges, NEW signature \in Signatures,
             VerifyAndLink(user, d, signature)
      PROVE  TriedAreSpent' /\ \A c \in 1..issued : UsedOnce(c)
  BY <1>2, VerifyUsesOne
<1>3. CASE UNCHANGED <<challenges, issued, tries>>
  BY <1>3 DEF TriedAreSpent, UsedOnce, Unspent
<1> QED
  BY <1>1, <1>2, <1>3 DEF Next, UnlinkWallet, Tick, vars

(* Every challenge is tried at most once, by its own user and in time;     *)
(* until then it stays as it is, and after that it is never unused again,  *)
(* for all users, wallets, lifetimes and bounds.                           *)
THEOREM ChallengesStayUntilUsed == Spec => ChallengesAreUsedOnce
<1>1. Init => TriedAreSpent
  BY DEF Init, TriedAreSpent
<1>2. TypeOK /\ TriedAreSpent /\ [Next]_vars
        => TriedAreSpent' /\ [\A c \in 1..issued : UsedOnce(c)]_vars
  BY StepUsesOnce
<1>3. Spec => [][\A c \in 1..issued : UsedOnce(c)]_vars
  BY <1>1, <1>2, WalletTypeCorrect, PTL DEF Spec
<1> QED
  BY <1>3 DEF ChallengesAreUsedOnce, UsedOnce
=============================================================================
