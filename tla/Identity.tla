------------------------------ MODULE Identity ------------------------------
(***************************************************************************)
(* `IdentityVerifier` of core/identity.py: a wallet signs what it asks of   *)
(* the proxy, and the proxy accepts a fresh signature once.                 *)
(*                                                                         *)
(* `verify` awaits nothing, so a delivery is one step.  The network may     *)
(* deliver what a wallet signed late, never, or more than once, and on      *)
(* another request than it was signed for.  Clocks need not agree.          *)
(***************************************************************************)
EXTENDS Integers

CONSTANTS Pubkey,   \* wallets
          Nonce,    \* what a wallet draws for each request
          Target,   \* what a request is: its method, path, tool and lease
          Window,   \* window_s: the freshness, and the memory of nonces
          Behind,   \* how far a wallet's clock may be behind the proxy's
          Ahead,    \* and how far ahead
          MaxTime   \* bound: when the proxy's clock stops

ASSUME WindowAssumption == Window \in Nat
ASSUME ClockAssumption == Behind \in Int /\ Ahead \in Int
ASSUME BoundAssumption == MaxTime \in Nat

VARIABLES now,       \* `_clock()`
          signed,    \* signatures wallets have made
          seen,      \* `_seen`: nonces, each with the moment it is forgotten
          accepted   \* what this process has accepted, and when

vars == <<now, signed, seen, accepted>>

\* A signature says who made it, over what payload: the claims, the time the
\* wallet's clock showed, the nonce.
Signature == [pubkey : Pubkey, target : Target, t : Int, nonce : Nonce]

Seen == [pubkey : Pubkey, nonce : Nonce, exp : Nat]
Acceptance == [sig : Signature, target : Target, at : Nat]

TypeOK ==
  /\ now \in Nat
  /\ signed \subseteq Signature
  /\ seen \subseteq Seen
  /\ accepted \subseteq Acceptance

Init ==
  /\ now = 0
  /\ signed = {}
  /\ seen = {}
  /\ accepted = {}

\* A wallet signs a request.  It draws a nonce it has not used.
Sign(s) ==
  /\ s.t \in (now - Behind)..(now + Ahead)
  /\ \A r \in signed : r.pubkey = s.pubkey => r.nonce # s.nonce
  /\ signed' = signed \cup {s}
  /\ UNCHANGED <<now, seen, accepted>>

-----------------------------------------------------------------------------
(***************************************************************************)
(* `verify`                                                                *)
(***************************************************************************)

\* Checks 2 to 4: made by the wallet that is named, for the request it came on.
Bound(s, pubkey, target) == s.pubkey = pubkey /\ s.target = target

\* Check 5.
Fresh(s) == now - s.t <= Window /\ s.t - now <= Window

\* Mutant: nonces are forgotten one moment early.
RememberedBriefly == {e \in seen : e.exp > now + 1}

\* `_prune` keeps these.
Remembered == {e \in seen : e.exp > now}

Used(pubkey, nonce) ==
  \E e \in Remembered : e.pubkey = pubkey /\ e.nonce = nonce

\* Mutant: the moment is the one before which the signature was not fresh yet.
RememberSince(pubkey, nonce) ==
  seen' = Remembered \cup {[pubkey |-> pubkey, nonce |-> nonce, exp |-> now - Window]}

\* The nonce is taken, until the clock has moved on by a window.
Remember(pubkey, nonce) ==
  seen' = Remembered \cup {[pubkey |-> pubkey, nonce |-> nonce, exp |-> now + Window]}

\* `verify` returns an identity.
Accept(s, pubkey, target) ==
  /\ Bound(s, pubkey, target)
  /\ Fresh(s)
  /\ ~Used(pubkey, s.nonce)
  /\ Remember(pubkey, s.nonce)
  /\ accepted' = accepted \cup {[sig |-> s, target |-> target, at |-> now]}

\* It refuses a nonce that it remembers, and has pruned the others.
RefuseUsed(s, pubkey, target) ==
  /\ Bound(s, pubkey, target)
  /\ Fresh(s)
  /\ Used(pubkey, s.nonce)
  /\ seen' = Remembered
  /\ UNCHANGED accepted

\* Mutant: the nonce is taken first, and the request refused after that.
RefuseEarlyBurning(s, pubkey, target) ==
  /\ ~(Bound(s, pubkey, target) /\ Fresh(s))
  /\ Remember(pubkey, s.nonce)
  /\ UNCHANGED accepted

\* It refuses before it looks at the nonce.
RefuseEarly(s, pubkey, target) ==
  /\ ~(Bound(s, pubkey, target) /\ Fresh(s))
  /\ UNCHANGED <<seen, accepted>>

Deliver(s, pubkey, target) ==
  /\ \/ Accept(s, pubkey, target)
     \/ RefuseUsed(s, pubkey, target)
     \/ RefuseEarly(s, pubkey, target)
  /\ UNCHANGED <<now, signed>>

-----------------------------------------------------------------------------

\* The proxy restarts: what it remembers is gone, and our history of the process.
Restart ==
  /\ seen' = {}
  /\ accepted' = {}
  /\ UNCHANGED <<now, signed>>

Tick ==
  /\ now < MaxTime
  /\ now' = now + 1
  /\ UNCHANGED <<signed, seen, accepted>>

Next ==
  \/ \E p \in Pubkey, n \in Nonce, x \in Target, t \in (now - Behind)..(now + Ahead) :
       Sign([pubkey |-> p, target |-> x, t |-> t, nonce |-> n])
  \/ \E s \in signed, p \in Pubkey, x \in Target : Deliver(s, p, x)
  \/ Restart
  \/ Tick

Spec == Init /\ [][Next]_vars

-----------------------------------------------------------------------------
(***************************************************************************)
(* Properties                                                              *)
(***************************************************************************)

\* A request that the network delivers twice is accepted once by the process, on
\* whichever request and at whatever moment it comes back (verify, _prune).
AcceptedOnce ==
  [][\A a \in accepted : ~\E p \in Pubkey, x \in Target : Accept(a.sig, p, x)]_vars

\* "a nonce only has to be remembered for as long as a signature bearing it would
\* still be accepted" (core/identity.py:62-64), and is: what was accepted and is
\* fresh still is remembered still.
RememberedWhileFresh ==
  \A a \in accepted : Fresh(a.sig) => Used(a.sig.pubkey, a.sig.nonce)

\* Nothing that was refused, and nothing that another wallet does, takes a nonce
\* from the request it was drawn for: what a wallet signed is not turned away as
\* used before it has been accepted ("the nonce is consumed *last*",
\* core/identity.py:199-202).
NotLockedOut ==
  \A s \in signed :
    Used(s.pubkey, s.nonce) => \E a \in accepted : a.sig = s

=============================================================================
