----------------------------- MODULE WalletLinks ----------------------------
(***************************************************************************)
(* Linking wallets to accounts: modules/wallet.                            *)
(*                                                                         *)
(* A user asks for a challenge for an address, signs its message with the  *)
(* wallet and sends the signature back.  Every handler runs to its end     *)
(* without an await, so it is one step; what interleaves is the requests.  *)
(*                                                                         *)
(* A message is known by its challenge, whose nonce occurs in it; a        *)
(* signature is known by the wallet that made it and the message it is     *)
(* over, which is what verifyCosmosAdr36Signature establishes.  Bech32 and *)
(* base64 are left out: requests that fail them change nothing before the  *)
(* challenge is used, and fail the signature check after it.               *)
(*                                                                         *)
(* A definition called Mutant... is a faulty variant of the one after it;  *)
(* no specification uses it, the mutation checks put it in its place.      *)
(***************************************************************************)
EXTENDS Integers, Sequences, FiniteSets

CONSTANTS
  Users,
  Addresses,      \* wallets, by their address
  Ttl,            \* CHALLENGE_TTL_SECONDS
  MaxChallenges,  \* bound: challenges ever issued
  MaxClock        \* bound: the last instant the clock reaches

ASSUME ConstantsAssumption ==
  /\ Ttl \in Nat \ {0}
  /\ MaxChallenges \in Nat /\ MaxClock \in Nat

VARIABLES
  links,       \* store.walletLinks
  challenges,  \* store.walletChallenges, by id
  issued,      \* the number of challenge ids createId has given out
  clock,       \* Date.now()
  tries        \* history: who tried each challenge ever issued, in order

vars == <<links, challenges, issued, clock, tries>>

-----------------------------------------------------------------------------
LinkType == [user : Users, address : Addresses, key : Addresses]

ChallengeType == [user : Users, address : Addresses, expiresAt : Nat, used : BOOLEAN]

(* A signature made with the key of a wallet over the message of a         *)
(* challenge; clients may send any they hold, also old ones.               *)
Signatures == [signer : Addresses, message : 1..issued]

ByUser(user) == {l \in links : l.user = user}

MutantTaken(user, address) == FALSE
Taken(user, address) == \E l \in links : l.address = address /\ l.user # user

Expired(c) == challenges[c].expiresAt <= clock

(* cleanupExpiredChallenges keeps what may still be used.                  *)
MutantKept == {c \in DOMAIN challenges : ~challenges[c].used /\ challenges[c].expiresAt > clock + 1}
Kept == {c \in DOMAIN challenges : ~challenges[c].used /\ ~Expired(c)}

-----------------------------------------------------------------------------
(* Operations. *)

CreateChallenge(user, address) ==
  /\ issued < MaxChallenges
  /\ issued' = issued + 1
  /\ challenges' = [c \in Kept \cup {issued + 1} |->
       IF c \in Kept THEN challenges[c]
       ELSE [user |-> user, address |-> address, expiresAt |-> clock + Ttl, used |-> FALSE]]
  /\ tries' = [c \in 1..issued + 1 |-> IF c = issued + 1 THEN << >> ELSE tries[c]]
  /\ UNCHANGED <<links, clock>>

(* The key of the signature gives the address, and signs this very message. *)
Verifies(signature, c) ==
  signature.signer = challenges[c].address /\ signature.message = c

(* upsertWalletLink replaces the link the user has, if any.                *)
Upserted(user, address, key) ==
  (links \ ByUser(user)) \cup {[user |-> user, address |-> address, key |-> key]}

MutantUsable(user, c) == challenges[c].user = user /\ ~Expired(c)
Usable(user, c) == challenges[c].user = user /\ ~challenges[c].used /\ ~Expired(c)

(* verifyAndLink uses the challenge up before it looks at the signature.   *)
VerifyAndLink(user, c, signature) ==
  /\ Usable(user, c)
  /\ challenges' = [challenges EXCEPT ![c].used = TRUE]
  /\ tries' = [tries EXCEPT ![c] = Append(@, user)]
  /\ links' = IF Verifies(signature, c) /\ ~Taken(user, challenges[c].address)
              THEN Upserted(user, challenges[c].address, signature.signer)
              ELSE links
  /\ UNCHANGED <<issued, clock>>

UnlinkWallet(user) ==
  /\ ByUser(user) # {}
  /\ links' = links \ ByUser(user)
  /\ UNCHANGED <<challenges, issued, clock, tries>>

Tick ==
  /\ clock < MaxClock
  /\ clock' = clock + 1
  /\ UNCHANGED <<links, challenges, issued, tries>>

Init ==
  /\ links = {} /\ challenges = [c \in {} |-> {}]
  /\ issued = 0 /\ clock = 0 /\ tries = << >>

Next ==
  \/ \E user \in Users, address \in Addresses : CreateChallenge(user, address)
  \/ \E user \in Users, c \in DOMAIN challenges, signature \in Signatures :
       VerifyAndLink(user, c, signature)
  \/ \E user \in Users : UnlinkWallet(user)
  \/ Tick

Spec == Init /\ [][Next]_vars

-----------------------------------------------------------------------------
(* Properties. *)

(* Links and challenges are well formed, and challenge ids were given out. *)
TypeOK ==
  /\ links \subseteq LinkType
  /\ issued \in Nat /\ clock \in Nat
  /\ DOMAIN challenges \subseteq 1..issued
  /\ challenges \in [DOMAIN challenges -> ChallengeType]
  /\ tries \in [1..issued -> Seq(Users)]

(* A user has at most one wallet and a wallet at most one user, whatever   *)
(* users link, link anew and unlink in between.                            *)
LinksAreOneToOne ==
  \A l, k \in links : l.user = k.user \/ l.address = k.address => l = k

(* A link comes into being only by using up a challenge that was issued to *)
(* this user for this address, was not used before and has not expired,    *)
(* and it holds the key of that address.                                   *)
LinksUseUpAChallenge ==
  [][\A l \in links' \ links :
       /\ l.key = l.address
       /\ \E c \in DOMAIN challenges :
            /\ challenges[c].user = l.user /\ challenges[c].address = l.address
            /\ ~challenges[c].used /\ clock < challenges[c].expiresAt
            /\ c \in DOMAIN challenges' /\ challenges'[c].used]_vars

Unspent(c) == c \in DOMAIN challenges /\ ~challenges[c].used

(* A challenge is tried at most once, by the user it was issued to and in  *)
(* time; until then it stays as it is, whoever asks for new ones or tries  *)
(* others, and after that no store holds it unused, be it swept or not.    *)
ChallengesAreUsedOnce ==
  [][\A c \in 1..issued :
       /\ tries'[c] # tries[c] =>
            /\ Unspent(c) /\ clock < challenges[c].expiresAt
            /\ tries'[c] = <<challenges[c].user>>
       /\ tries'[c] = tries[c] /\ Unspent(c) /\ clock < challenges[c].expiresAt =>
            c \in DOMAIN challenges' /\ challenges'[c] = challenges[c]
       /\ tries'[c] # << >> => ~Unspent(c)']_vars
=============================================================================
