--------------------------- MODULE IdentityProofs ---------------------------
(***************************************************************************)
(* What Identity guarantees for every set of wallets, nonces and requests,  *)
(* every window and every disagreement of the clocks; and, when wallets'    *)
(* clocks are behind the proxy's, that a signature is accepted once.        *)
(***************************************************************************)
EXTENDS Identity, TLAPS

\* The steps of Next, one by one: what the proofs below split on.
LEMMA StepCases ==
  ASSUME TypeOK, [Next]_vars
  PROVE  \/ \E s \in Signature : Sign(s)
         \/ \E s \in signed, p \in Pubkey, x \in Target : Accept(s, p, x) /\ UNCHANGED <<now, signed>>
         \/ seen' = Remembered /\ UNCHANGED <<now, signed, accepted>>
         \/ Restart
         \/ Tick
         \/ UNCHANGED vars
<1>1. CASE \E p \in Pubkey, n \in Nonce, x \in Target, t \in (now - Behind)..(now + Ahead) :
             Sign([pubkey |-> p, target |-> x, t |-> t, nonce |-> n])
  BY <1>1, ClockAssumption DEF Signature, TypeOK
<1>2. CASE \E s \in signed, p \in Pubkey, x \in Target : Deliver(s, p, x)
  BY <1>2 DEF Deliver, RefuseUsed, RefuseEarly, vars
<1> QED
  BY <1>1, <1>2 DEF Next, vars

\* Whoever is accepted was remembered from then on, until the clock has moved on
\* by a window; what is older than that may be forgotten.
LEMMA Remembering ==
  ASSUME TypeOK, NEW s \in Signature, NEW p \in Pubkey, Remember(p, s.nonce)
  PROVE  /\ seen' \subseteq Seen
         /\ [pubkey |-> p, nonce |-> s.nonce, exp |-> now + Window] \in seen'
         /\ \A e \in seen : e.exp > now => e \in seen'
         /\ \A e \in seen' : \/ e \in seen
                             \/ e.pubkey = p /\ e.nonce = s.nonce
<1>1. now + Window \in Nat
  BY WindowAssumption DEF TypeOK
<1>2. [pubkey |-> p, nonce |-> s.nonce, exp |-> now + Window] \in Seen
  BY <1>1 DEF Seen, Signature
<1> QED
  BY <1>2 DEF Remember, Remembered, TypeOK

-----------------------------------------------------------------------------
(***************************************************************************)
(* Typing                                                                  *)
(***************************************************************************)

\* Every nonce on the books has a wallet and a moment at which it is forgotten,
\* whatever was delivered, and on whichever request (IdentityVerifier.verify).
THEOREM TypeCorrect == Spec => []TypeOK
<1>1. Init => TypeOK
  BY DEF Init, TypeOK
<1>2. TypeOK /\ [Next]_vars => TypeOK'
  <2> SUFFICES ASSUME TypeOK, [Next]_vars
               PROVE  TypeOK'
    OBVIOUS
  <2>1. ASSUME NEW s \in Signature, Sign(s) PROVE TypeOK'
    BY <2>1 DEF TypeOK, Sign
  <2>2. ASSUME NEW s \in signed, NEW p \in Pubkey, NEW x \in Target,
               Accept(s, p, x), UNCHANGED <<now, signed>>
        PROVE  TypeOK'
    <3>1. s \in Signature
      BY DEF TypeOK
    <3>2. seen' \subseteq Seen
      BY <2>2, <3>1, Remembering DEF Accept
    <3>3. [sig |-> s, target |-> x, at |-> now] \in Acceptance
      BY <3>1 DEF Acceptance, TypeOK
    <3> QED
      BY <2>2, <3>2, <3>3 DEF TypeOK, Accept
  <2>3. CASE seen' = Remembered /\ UNCHANGED <<now, signed, accepted>>
    BY <2>3 DEF TypeOK, Remembered
  <2>4. CASE Restart
    BY <2>4 DEF TypeOK, Restart
  <2>5. CASE Tick
    BY <2>5 DEF TypeOK, Tick
  <2>6. CASE UNCHANGED vars
    BY <2>6 DEF TypeOK, vars
  <2> QED
    BY <2>1, <2>2, <2>3, <2>4, <2>5, <2>6, StepCases
<1> QED
  BY <1>1, <1>2, PTL DEF Spec

-----------------------------------------------------------------------------
(***************************************************************************)
(* The inductive invariant                                                 *)
(***************************************************************************)

\* No wallet signs further into the future than its clock is ahead.
ClocksAgree == \A s \in signed : s.t <= now + Ahead

\* A wallet's nonce is on one signature.
NoncesUnique ==
  \A r, s \in signed : r.pubkey = s.pubkey /\ r.nonce = s.nonce => r = s

\* What was accepted had been signed, and by a clock no further ahead.
AcceptedAsSigned ==
  \A a \in accepted : a.sig \in signed /\ a.sig.t <= a.at + Ahead

\* What was accepted is on the books until the clock has moved on by a window.
KeptForAWindow ==
  \A a \in accepted : a.at + Window > now =>
    [pubkey |-> a.sig.pubkey, nonce |-> a.sig.nonce, exp |-> a.at + Window] \in seen

\* Only what was accepted is on the books.
SeenWasAccepted ==
  \A e \in seen : \E a \in accepted :
    a.sig.pubkey = e.pubkey /\ a.sig.nonce = e.nonce

IInv ==
  /\ ClocksAgree
  /\ NoncesUnique
  /\ AcceptedAsSigned
  /\ KeptForAWindow
  /\ SeenWasAccepted

\* A new signature is one more, on a nonce of its own.
LEMMA SignKeeps ==
  ASSUME TypeOK, IInv, NEW s \in Signature, Sign(s)
  PROVE  IInv'
<1>1. s.t <= now + Ahead
  BY ClockAssumption DEF Sign, TypeOK
<1>2. ClocksAgree'
  BY <1>1 DEF IInv, ClocksAgree, Sign
<1>3. NoncesUnique'
  BY DEF IInv, NoncesUnique, Sign
<1>4. AcceptedAsSigned'
  BY DEF IInv, AcceptedAsSigned, Sign
<1>5. KeptForAWindow' /\ SeenWasAccepted'
  BY DEF IInv, KeptForAWindow, SeenWasAccepted, Sign
<1> QED
  BY <1>2, <1>3, <1>4, <1>5 DEF IInv

\* An acceptance is put on the books, and what is pruned was older than a window.
LEMMA AcceptKeeps ==
  ASSUME TypeOK, IInv, NEW s \in signed, NEW p \in Pubkey, NEW x \in Target,
         Accept(s, p, x), UNCHANGED <<now, signed>>
  PROVE  IInv'
<1> DEFINE new == [sig |-> s, target |-> x, at |-> now]
<1>1. s \in Signature /\ s.pubkey = p /\ s.t <= now + Ahead
  BY DEF TypeOK, Accept, Bound, IInv, ClocksAgree
<1>2. /\ [pubkey |-> p, nonce |-> s.nonce, exp |-> now + Window] \in seen'
      /\ \A e \in seen : e.exp > now => e \in seen'
      /\ \A e \in seen' : e \in seen \/ (e.pubkey = p /\ e.nonce = s.nonce)
  BY <1>1, Remembering DEF Accept
<1>3. accepted' = accepted \cup {new}
  BY DEF Accept
<1>4. new.sig = s /\ new.at = now
  OBVIOUS
<1> HIDE DEF new
<1>5. ClocksAgree' /\ NoncesUnique'
  BY DEF IInv, ClocksAgree, NoncesUnique
<1>6. AcceptedAsSigned'
  BY <1>1, <1>3, <1>4 DEF IInv, AcceptedAsSigned
<1>7. KeptForAWindow'
  <2> SUFFICES ASSUME NEW a \in accepted', a.at + Window > now
               PROVE  [pubkey |-> a.sig.pubkey, nonce |-> a.sig.nonce, exp |-> a.at + Window] \in seen'
    BY DEF KeptForAWindow
  <2>1. CASE a = new
    BY <2>1, <1>1, <1>2, <1>4
  <2>2. CASE a \in accepted
    BY <2>2, <1>2 DEF IInv, KeptForAWindow
  <2> QED
    BY <1>3, <2>1, <2>2
<1>8. SeenWasAccepted'
  BY <1>1, <1>2, <1>3, <1>4 DEF IInv, SeenWasAccepted
<1> QED
  BY <1>5, <1>6, <1>7, <1>8 DEF IInv

\* A refusal prunes, and no more.
LEMMA PruneKeeps ==
  ASSUME TypeOK, IInv, seen' = Remembered, UNCHANGED <<now, signed, accepted>>
  PROVE  IInv'
<1>1. KeptForAWindow'
  BY DEF IInv, KeptForAWindow, Remembered
<1>2. SeenWasAccepted'
  BY DEF IInv, SeenWasAccepted, Remembered
<1>3. ClocksAgree' /\ NoncesUnique' /\ AcceptedAsSigned'
  BY DEF IInv, ClocksAgree, NoncesUnique, AcceptedAsSigned
<1> QED
  BY <1>1, <1>2, <1>3 DEF IInv

\* As time passes, signatures age and less has to be remembered.
LEMMA TickKeeps ==
  ASSUME TypeOK, IInv, Tick
  PROVE  IInv'
<1>1. ClocksAgree'
  <2> SUFFICES ASSUME NEW s \in signed
               PROVE  s.t <= now + 1 + Ahead
    BY DEF Tick, ClocksAgree
  <2>1. s.t \in Int /\ s.t <= now + Ahead
    BY DEF IInv, ClocksAgree, TypeOK, Signature
  <2> QED
    BY <2>1, ClockAssumption DEF TypeOK
<1>2. KeptForAWindow'
  <2> SUFFICES ASSUME NEW a \in accepted, a.at + Window > now + 1
               PROVE  [pubkey |-> a.sig.pubkey, nonce |-> a.sig.nonce, exp |-> a.at + Window] \in seen
    BY DEF Tick, KeptForAWindow
  <2>1. a.at \in Nat
    BY DEF TypeOK, Acceptance
  <2>2. a.at + Window > now
    BY <2>1, WindowAssumption DEF TypeOK
  <2> QED
    BY <2>2 DEF IInv, KeptForAWindow
<1>3. NoncesUnique' /\ AcceptedAsSigned' /\ SeenWasAccepted'
  BY DEF IInv, NoncesUnique, AcceptedAsSigned, SeenWasAccepted, Tick
<1> QED
  BY <1>1, <1>2, <1>3 DEF IInv

LEMMA Inductive == Spec => [](TypeOK /\ IInv)
<1>1. Init => IInv
  BY DEF Init, IInv, ClocksAgree, NoncesUnique, AcceptedAsSigned, KeptForAWindow,
         SeenWasAccepted
<1>2. TypeOK /\ IInv /\ [Next]_vars => IInv'
  <2> SUFFICES ASSUME TypeOK, IInv, [Next]_vars
               PROVE  IInv'
    OBVIOUS
  <2>1. CASE Restart
    BY <2>1 DEF IInv, ClocksAgree, NoncesUnique, AcceptedAsSigned, KeptForAWindow,
                SeenWasAccepted, Restart
  <2>2. CASE UNCHANGED vars
    BY <2>2 DEF IInv, ClocksAgree, NoncesUnique, AcceptedAsSigned, KeptForAWindow,
                SeenWasAccepted, vars
  <2> QED
    BY <2>1, <2>2, SignKeeps, AcceptKeeps, PruneKeeps, TickKeeps, StepCases
<1> QED
  BY <1>1, <1>2, TypeCorrect, PTL DEF Spec

-----------------------------------------------------------------------------
(***************************************************************************)
(* The properties                                                          *)
(***************************************************************************)

\* Whatever is delivered, and to whatever ends: a nonce is used up by the request
\* it was drawn for and by nothing else (the order of the checks in verify).
THEOREM NonceIsConsumedLast == Spec => []NotLockedOut
<1>1. TypeOK /\ IInv => NotLockedOut
  <2> SUFFICES ASSUME IInv, NEW s \in signed, Used(s.pubkey, s.nonce)
               PROVE  \E a \in accepted : a.sig = s
    BY DEF NotLockedOut
  <2>1. PICK e \in seen : e.pubkey = s.pubkey /\ e.nonce = s.nonce
    BY DEF Used, Remembered
  <2>2. PICK a \in accepted : a.sig.pubkey = e.pubkey /\ a.sig.nonce = e.nonce
    BY DEF IInv, SeenWasAccepted
  <2>3. a.sig \in signed
    BY DEF IInv, AcceptedAsSigned
  <2>4. a.sig = s
    BY <2>1, <2>2, <2>3 DEF IInv, NoncesUnique
  <2> QED
    BY <2>4
<1> QED
  BY <1>1, Inductive, PTL

\* If every wallet's clock is behind the proxy's, a nonce is remembered for as long
\* as the signature it is on is fresh (_prune against check 5 of verify).
THEOREM MemoryOutlivesFreshness ==
  ASSUME Ahead < 0
  PROVE  Spec => []RememberedWhileFresh
<1>1. TypeOK /\ IInv => RememberedWhileFresh
  <2> SUFFICES ASSUME TypeOK, IInv, NEW a \in accepted, Fresh(a.sig)
               PROVE  Used(a.sig.pubkey, a.sig.nonce)
    BY DEF RememberedWhileFresh
  <2>1. a.at \in Nat /\ a.sig.t \in Int /\ now \in Nat
    BY DEF TypeOK, Acceptance, Signature
  <2>2. a.sig.t <= a.at + Ahead /\ now - a.sig.t <= Window
    BY DEF IInv, AcceptedAsSigned, Fresh
  <2>3. a.at + Window > now
    BY <2>1, <2>2, WindowAssumption, ClockAssumption
  <2>4. [pubkey |-> a.sig.pubkey, nonce |-> a.sig.nonce, exp |-> a.at + Window] \in seen
    BY <2>3 DEF IInv, KeptForAWindow
  <2> QED
    BY <2>3, <2>4 DEF Used, Remembered
<1> QED
  BY <1>1, Inductive, PTL

\* Then no step accepts what the process has accepted before (verify).
THEOREM NeverAcceptedAgain ==
  ASSUME Ahead < 0
  PROVE  Spec => AcceptedOnce
<1>1. RememberedWhileFresh =>
        \A a \in accepted : ~\E p \in Pubkey, x \in Target : Accept(a.sig, p, x)
  BY DEF RememberedWhileFresh, Accept, Bound
<1> QED
  BY <1>1, MemoryOutlivesFreshness, PTL DEF AcceptedOnce

=============================================================================
