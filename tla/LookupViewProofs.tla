-------------------------- MODULE LookupViewProofs --------------------------
(***************************************************************************)
(* The version protocol of lookups, for any number of lookups, any set of  *)
(* enforced states and any number of publications.                         *)
(***************************************************************************)
EXTENDS LookupView, TLAPS

USE NoneIsNoState, MaxVersionAssumption

\* What a view is, without its record.
LEMMA ViewFacts ==
    /\ NoView \in Views /\ NoView.token = 0
    /\ \A v \in Views : v.token \in Nat
    /\ \A n \in Nat, s \in State :
           LET v == [token |-> n, state |-> s] IN v \in Views /\ v.token = n /\ v.state = s
BY DEF Views, NoView

\* The invariant holds before the first view is published.
LEMMA InitIInv == Init => IInv
BY DEF Init, IInv, TypeOK, TokenIsAuthority, Authority, ReaderKnows, NoView, Views

\* The writer keeps the invariant: it changes what is enforced only after the
\* version has moved past every view that any lookup can still hold.
LEMMA WritesIInv == IInv /\ Writes => IInv'
<1> SUFFICES ASSUME IInv, Writes PROVE IInv'
    OBVIOUS
<1> USE DEF IInv, ReaderUnchanged
<1>1. CASE Invalidate
    <2> USE <1>1 DEF Invalidate
    <2>1. TypeOK'
        BY ViewFacts DEF Bump, TypeOK
    <2>2. TokenIsAuthority'
        BY ViewFacts DEF Bump, TypeOK, TokenIsAuthority, Authority
    <2>3. ReaderKnows'
        BY DEF ReaderKnows
    <2> QED
        BY <2>1, <2>2, <2>3
<1>2. CASE InvalidateView
    <2> USE <1>2 DEF InvalidateView
    <2>1. TypeOK'
        BY ViewFacts DEF TypeOK
    <2>2. TokenIsAuthority'
        BY ViewFacts DEF TypeOK, TokenIsAuthority, Authority
    <2>3. ReaderKnows'
        BY DEF ReaderKnows
    <2> QED
        BY <2>1, <2>2, <2>3
<1>3. CASE Enforce
    <2> USE <1>3 DEF Enforce
    <2>1. TypeOK'
        BY ViewFacts DEF MayWrite, TypeOK
    <2>2. TokenIsAuthority'
        BY ViewFacts DEF MayWrite, TypeOK, TokenIsAuthority, Authority
    <2>3. ReaderKnows'
        BY DEF ReaderKnows
    <2> QED
        BY <2>1, <2>2, <2>3
<1>4. CASE Publish
    <2> USE <1>4 DEF Publish
    <2>1. TypeOK'
        BY ViewFacts DEF Bump, TypeOK
    <2>2. TokenIsAuthority'
        BY ViewFacts DEF Bump, TypeOK, TokenIsAuthority, Authority
    <2>3. ReaderKnows'
        BY DEF ReaderKnows
    <2> QED
        BY <2>1, <2>2, <2>3
<1>5. CASE PublishView
    <2> USE <1>5 DEF PublishView
    <2>1. TypeOK'
        BY ViewFacts DEF TypeOK
    <2>2. TokenIsAuthority'
        BY ViewFacts DEF TypeOK, TokenIsAuthority, Authority
    <2>3. ReaderKnows'
        BY DEF ReaderKnows
    <2> QED
        BY <2>1, <2>2, <2>3
<1> QED
    BY <1>1, <1>2, <1>3, <1>4, <1>5 DEF Writes

\* A lookup keeps the invariant: what it holds when it compares the version for
\* the second time is still what is enforced.
LEMMA LookupIInv == ASSUME NEW r \in Reader, IInv, Lookup(r) PROVE IInv'
<1> USE DEF IInv
<1>1. CASE LoadView(r)
    BY <1>1 DEF LoadView, TypeOK, TokenIsAuthority, Authority, ReaderKnows
<1>2. CASE LoadVersion(r)
    BY <1>2 DEF LoadVersion, TypeOK, TokenIsAuthority, Authority, ReaderKnows
<1>3. CASE CheckVersion(r)
    BY <1>3 DEF CheckVersion, VersionHolds, TypeOK, TokenIsAuthority, Authority, ReaderKnows
<1>4. CASE CheckView(r)
    BY <1>4 DEF CheckView, TypeOK, TokenIsAuthority, Authority, ReaderKnows
<1>5. CASE Return(r)
    BY <1>5 DEF Return, TypeOK, TokenIsAuthority, Authority, ReaderKnows
<1> QED
    BY <1>1, <1>2, <1>3, <1>4, <1>5 DEF Lookup

\* The inductive invariant: a view that carries the current version describes
\* what is enforced, and a lookup past its second check holds what was enforced
\* at that check (lookup.go Lookup, publishLookupLocked).
THEOREM Inductive == Spec => []IInv
<1>1. IInv /\ [Next]_vars => IInv'
    <2> SUFFICES ASSUME IInv, [Next]_vars PROVE IInv'
        OBVIOUS
    <2>1. CASE UNCHANGED vars
        BY <2>1 DEF vars, IInv, TypeOK, TokenIsAuthority, Authority, ReaderKnows
    <2>2. CASE Writes
        BY <2>2, WritesIInv
    <2>3. CASE \E r \in Reader : Lookup(r)
        BY <2>3, LookupIInv
    <2> QED
        BY <2>1, <2>2, <2>3 DEF Next
<1> QED
    BY <1>1, InitIInv, PTL DEF Spec

\* Every answer of a lookup is what was enforced at one instant of its call
\* (lookup.go Lookup), for any number of concurrent lookups and publications.
THEOREM AnswersLinearize == Spec => []AnswerWasEnforced
<1>1. IInv => AnswerWasEnforced
    BY DEF IInv, ReaderKnows, AnswerWasEnforced
<1> QED
    BY <1>1, Inductive, PTL
=============================================================================
